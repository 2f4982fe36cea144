---------------------------- MODULE MCBlockCodec ----------------------------
(* Small files and command lines for BlockCodec. *)
EXTENDS BlockCodec, Sequences, SequencesExt

\* A merged file (-M) of blocks with these lengths.
Merged(lens) ==
  LET start(i) == FoldLeft(LAMBDA a, b : a + 4 + b, 0, SubSeq(lens, 1, i - 1))
      n == Len(lens)
  IN  [size |-> start(n + 1),
       at   |-> [o \in {start(i) : i \in 1..n} |-> lens[CHOOSE i \in 1..n : start(i) = o]]]

\* A file that is not a merged one.
Plain(n) == [size |-> n, at |-> [o \in {} |-> 0]]

SmallFiles == {Plain(0), Plain(4), Merged(<<3>>), Merged(<<1, 2>>), Merged(<<2, 0, 1>>)}

MergedFiles == SmallFiles \ {Plain(0), Plain(4)}

OneRun == [mode : BOOLEAN, mcpy : BOOLEAN, cmp : 0..3,
           bsize : {3, 5, 16}, blk : {0, 2}, min : {0, 14}, max : {0, 8}, runs : {1}]

\* a second run matters where the codec may fail: without -P
TwoRuns == [mode : BOOLEAN, mcpy : {FALSE}, cmp : {2},
            bsize : {3, 16}, blk : {0, 2}, min : {0, 14}, max : {0}, runs : {2}]

SmallOpts == OneRun \cup TwoRuns

\* with -m: no codec fails, the file is read whole
ModeOpts == {o \in OneRun : o.mcpy /\ o.cmp = 0 /\ o.max = 0 /\ o.min = 0 /\ o.mode}

SmallRet == {0, 1, 4, 63}
SmallGarbage == {0, 2, 63}
=============================================================================
