----------------------------- MODULE BestResults ----------------------------
(***************************************************************************)
(* What the .tbb file promises ("retest or test other compressors and      *)
(* merge the results to file.tbb", README.md): for every codec it holds    *)
(* the best times and the largest memory of all its runs on this dataset   *)
(* since its compressed size last changed, whichever codecs ran when.      *)
(***************************************************************************)
EXTENDS Integers, FiniteSets

CONSTANTS Key, Size, Length, Time, Memory

Result == [size : Size, len : Length, tc : Time, td : Time, mem : Memory]

VARIABLES
  hist,  \* per codec: the runs that count, a set of Results
  best   \* per codec with such runs: one Result

SetMin(S) == CHOOSE x \in S : \A y \in S : x <= y
SetMax(S) == CHOOSE x \in S : \A y \in S : x >= y

BestOf(S) ==
  LET one == CHOOSE r \in S : TRUE
  IN  [size |-> one.size, len |-> one.len,
       tc  |-> SetMin({r.tc : r \in S}),
       td  |-> SetMin({r.td : r \in S}),
       mem |-> SetMax({r.mem : r \in S})]

\* The runs that count after codec k gave result r: all of the same compressed size.
Count(S, r) == {r} \cup {q \in S : q.len = r.len}

Init == hist = [k \in Key |-> {}] /\ best = [k \in {} |-> 0]

\* A benchmark of the codecs DOMAIN res; another dataset size starts afresh.
Report(res) ==
  LET same == \A k \in Key : \A q \in hist[k] : \A j \in DOMAIN res : q.size = res[j].size
      kept == [k \in Key |-> IF same THEN hist[k] ELSE {}]
  IN  /\ hist' = [k \in Key |-> IF k \in DOMAIN res THEN Count(kept[k], res[k]) ELSE kept[k]]
      /\ best' = [k \in {x \in Key : hist'[x] # {}} |-> BestOf(hist'[k])]

Next == \E K \in (SUBSET Key) \ {{}} : \E res \in [K -> Result] : Report(res)

Spec == Init /\ [][Next]_<<hist, best>>
=============================================================================
