----------------------------- MODULE MCBenchRun -----------------------------
(* Small instance of BenchRun. *)
EXTENDS BenchRun, TLC
CONSTANTS t1, t2, b1, b2

Sized(n) == [kind |-> "sized", ask |-> n]
Of(kind) == [kind |-> kind, ask |-> 0]

\* each kind of codec next to one that needs what it may have left behind
Pairs == {<<Sized(3), Sized(2)>>, <<Sized(1), Of("aocl")>>, <<Of("zstd_dict"), Of("zstd")>>,
          <<Of("zstd_dict"), [kind |-> "zstd_dict", ask |-> 1]>>,
          <<Of("wlz4st"), Of("wlz4hcst")>>, <<Of("snappy_c"), Of("tables")>>,
          <<Of("libslz"), Of("density")>>, <<Of("lzolabel"), Of("plain")>>}

MCRuns ==
  [plug : Pairs, files : {<<1, 1>>, <<2>>}, cmp : BOOLEAN, mem : {1}] \cup
  [plug : {<<Of("plain")>>}, files : {<<1, 1>>, <<2>>}, cmp : {TRUE}, mem : {3}]
MCResult == {[len |-> 1, tc |-> 1, td |-> 2, err |-> 0, deep |-> 1],
             [len |-> 0, tc |-> 2, td |-> 1, err |-> 1, deep |-> 2]}
MCThread == {t1, t2}
MCBlock  == {b1, b2}
Symm == Permutations(MCThread) \cup Permutations(MCBlock)
=============================================================================
