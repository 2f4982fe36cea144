--------------------------- MODULE MCResultStore ----------------------------
(* Two or three codecs, a few runs. *)
EXTENDS ResultStore, TLC

CONSTANTS k1, k2, k3

TwoKeys == {k1, k2}
ThreeKeys == {k1, k2, k3}
Sizes == {1, 2}
Lengths == {1, 2}
Times == {1, 2}
Memories == {0, 1, 2}
\* a fast and a slow direction each, more or less memory, another size
SomeMeasured == {[len |-> 1, tc |-> 1, td |-> 2, mem |-> 1], [len |-> 1, tc |-> 2, td |-> 1, mem |-> 2],
                 [len |-> 2, tc |-> 2, td |-> 2, mem |-> 1]}
OneMeasured == {[len |-> 1, tc |-> 1, td |-> 1, mem |-> 1]}

\* the two known codecs may be exchanged
Alike == Permutations(TwoKeys)
=============================================================================
