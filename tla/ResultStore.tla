---------------------------- MODULE ResultStore -----------------------------
(***************************************************************************)
(* The .tbb file of best results: the end of main and plugread             *)
(* (src/turbobench.c).                                                     *)
(*                                                                         *)
(* A run of the program measures some codecs, reads the old results of the *)
(* dataset from its .tbb file, truncates the file, writes every measured   *)
(* codec merged with its old result and then the old results of the other  *)
(* codecs.  The process may be killed at any point; what stdio had written *)
(* by then is some beginning of the lines, the last of them perhaps torn.  *)
(* Runs follow one another: the program takes no lock on the file.         *)
(*                                                                         *)
(* A codec with level and parameters is a key.  A time, a memory size, a   *)
(* compressed size and a dataset size are members of small sets; of the    *)
(* four memory columns one is kept.                                        *)
(***************************************************************************)
EXTENDS Integers, FiniteSets, Sequences

CONSTANTS
  Key,       \* codec, level, parameters: what identifies a result
  Known,     \* the keys whose codec name this program knows (plugs[])
  Size,      \* totinlen: sizes a dataset can have, all > 0
  Length,    \* compressed sizes
  Time,      \* compression and decompression times
  Memory,    \* peak memory
  Measured,  \* the results a codec can give: a set of [len, tc, td, mem]
  PLUGN,     \* the codecs a command line may name; the tables have one entry more
  MaxRuns,   \* bound on the runs
  MaxKills   \* bound on the kills

ASSUME KeyAssumption == Known \subseteq Key /\ IsFiniteSet(Known)
ASSUME ValueAssumption ==
  /\ Size \subseteq Nat \ {0} /\ Length \subseteq Nat /\ Time \subseteq Nat
  /\ Memory \subseteq Nat /\ 0 \in Memory
  /\ Measured \subseteq [len : Length, tc : Time, td : Time, mem : Memory]
ASSUME BoundAssumption == PLUGN \in Nat /\ MaxRuns \in Nat /\ MaxKills \in Nat

VARIABLES
  pc,       \* where main is
  tbb,      \* the lines of the file after its header
  new,      \* plugt: the results of this run, in the order given
  totinlen, \* the size of the dataset in this run
  old,      \* plug after plugread: [key, res, live], live is id >= 0
  i, j,     \* the loops over plugt and plug
  hist,     \* history: per key the results that count (see BestResults)
  runs, kills

vars == <<pc, tbb, new, totinlen, old, i, j, hist, runs, kills>>

-----------------------------------------------------------------------------
(* Lines.                                                                  *)

\* A line as a reader sees it: its size column, whether its codec name is
\* legible, its key and result.
Line(k, size, res) == [size |-> size, legible |-> TRUE, key |-> k, res |-> res]

\* What is left of a line the process was killed in: torn in the size column,
\* before the end of the name, in the level or parameters, or in the memory columns.
Torn(line) ==
  {[line EXCEPT !.size = 0, !.legible = FALSE], [line EXCEPT !.legible = FALSE],
   [line EXCEPT !.res.mem = 0]}
  \cup {[line EXCEPT !.key = k, !.res.mem = 0] : k \in Key}

\* plugread: line after line, a record for each codec that is known
Legible(line) == line.legible /\ line.key \in Known
Record(line) == [key |-> line.key, res |-> line.res, live |-> TRUE]
plugread(lines) ==
  LET upTo[n \in 0..Len(lines)] ==
        IF n = 0 THEN <<>>
        ELSE IF Legible(lines[n]) THEN Append(upTo[n - 1], Record(lines[n]))
        ELSE upTo[n - 1]
  IN  upTo[Len(lines)]
\* its size is that of the last line
FileSize == IF tbb = <<>> THEN 0 ELSE tbb[Len(tbb)].size

-----------------------------------------------------------------------------
(* Merging.                                                                *)

Better(a, b) == IF a < b THEN a ELSE b
Larger(a, b) == IF a > b THEN a ELSE b

\* Mistakes the merge could contain: the old result stays whatever the new size,
\* times of several runs add up.
MergeKeepsOld(p, g) ==
  IF g.len # p.len THEN g
  ELSE [p EXCEPT !.tc = Better(g.tc, p.tc), !.td = Better(g.td, p.td), !.mem = Larger(g.mem, p.mem)]
MergeAddsUp(p, g) ==
  IF g.len # p.len THEN p
  ELSE [p EXCEPT !.tc = g.tc + p.tc, !.td = g.td + p.td, !.mem = Larger(g.mem, p.mem)]

\* the measured result p with the old one g: best times and largest memory, if
\* the compressed size is the same
Merge(p, g) ==
  IF g.len # p.len THEN p
  ELSE [p EXCEPT !.tc = Better(g.tc, p.tc), !.td = Better(g.td, p.td), !.mem = Larger(g.mem, p.mem)]

\* the first old result of key k still in the list
Match(k) == {n \in 1..Len(old) : /\ old[n].live /\ old[n].key = k
                                /\ \A m \in 1..(n - 1) : ~(old[m].live /\ old[m].key = k)}

Merged(p) == IF Match(p.key) = {} THEN p.res
             ELSE Merge(p.res, old[CHOOSE n \in Match(p.key) : TRUE].res)

-----------------------------------------------------------------------------
(* The end of main.                                                        *)

NoLines == <<>>

Init ==
  /\ pc = "idle" /\ tbb = NoLines
  /\ new = <<>> /\ totinlen = 0 /\ old = <<>> /\ i = 1 /\ j = 1
  /\ hist = [k \in Key |-> {}]
  /\ runs = 0 /\ kills = 0

\* plugreg gave at most PLUGN distinct keys, in the order of the command line
Orders == {s \in UNION {[1..n -> Known] : n \in 1..Better(Cardinality(Known), PLUGN)} :
             \A a, b \in DOMAIN s : a # b => s[a] # s[b]}

\* The benchmark of one run is done; 0 bytes: no file could be opened.
Bench ==
  /\ pc = "idle" /\ runs < MaxRuns
  /\ runs' = runs + 1
  /\ totinlen' \in Size \cup {0}
  /\ \E s \in Orders : \E res \in [DOMAIN s -> Measured] :
       new' = [n \in DOMAIN s |-> [key |-> s[n], res |-> res[n]]]
  /\ pc' = "benched"
  /\ UNCHANGED <<tbb, old, i, j, hist, kills>>

\* The process is gone and its memory with it.
Exit ==
  pc' = "idle" /\ new' = <<>> /\ totinlen' = 0 /\ old' = <<>> /\ i' = 1 /\ j' = 1

\* if(!totinlen) exit(0); -g and -gg do not touch the file either
NoFile ==
  /\ pc = "benched"
  /\ Exit
  /\ UNCHANGED <<tbb, hist, runs, kills>>

\* Mistake: keep the old results of another dataset.
ReadAnySize ==
  /\ pc = "benched" /\ totinlen # 0
  /\ old' = plugread(tbb)
  /\ pc' = "read"
  /\ UNCHANGED <<tbb, new, totinlen, i, j, hist, runs, kills>>

\* plugread; results of a dataset of another size do not count
Read ==
  /\ pc = "benched" /\ totinlen # 0
  /\ old' = IF FileSize = totinlen THEN plugread(tbb) ELSE <<>>
  /\ pc' = "read"
  /\ UNCHANGED <<tbb, new, totinlen, i, j, hist, runs, kills>>

\* fopen(s, "w") fails: nothing is written
OpenFails ==
  /\ pc = "read"
  /\ Exit
  /\ UNCHANGED <<tbb, hist, runs, kills>>

\* fopen(s, "w") truncates the file, the header is written
Truncate ==
  /\ pc = "read"
  /\ tbb' = NoLines
  /\ i' = 1 /\ j' = 1
  /\ pc' = "write"
  /\ hist' = LET kept == [k \in Key |-> IF \E n \in 1..Len(old) : old[n].key = k THEN hist[k] ELSE {}]
                 full(r) == [size |-> totinlen, len |-> r.len, tc |-> r.tc, td |-> r.td, mem |-> r.mem]
             IN  [k \in Key |->
                    IF \E n \in 1..Len(new) : new[n].key = k
                    THEN LET r == full(new[CHOOSE n \in 1..Len(new) : new[n].key = k].res)
                         IN  {r} \cup {q \in kept[k] : q.len = r.len}
                    ELSE kept[k]]
  /\ UNCHANGED <<new, totinlen, old, runs, kills>>

\* write the next measured result, merged; its old result leaves the list
WriteNew ==
  /\ pc = "write" /\ i <= Len(new)
  /\ tbb' = Append(tbb, Line(new[i].key, totinlen, Merged(new[i])))
  /\ old' = [n \in DOMAIN old |-> IF n \in Match(new[i].key) THEN [old[n] EXCEPT !.live = FALSE] ELSE old[n]]
  /\ i' = i + 1
  /\ UNCHANGED <<pc, new, totinlen, j, hist, runs, kills>>

\* Mistake: write the merged ones once more.
WriteOldAgain ==
  /\ pc = "write" /\ i > Len(new) /\ j <= Len(old)
  /\ tbb' = Append(tbb, Line(old[j].key, totinlen, old[j].res))
  /\ j' = j + 1
  /\ UNCHANGED <<pc, new, totinlen, old, i, hist, runs, kills>>

\* write the next old result nobody measured in this run
WriteOld ==
  /\ pc = "write" /\ i > Len(new) /\ j <= Len(old)
  /\ tbb' = IF old[j].live THEN Append(tbb, Line(old[j].key, totinlen, old[j].res)) ELSE tbb
  /\ j' = j + 1
  /\ UNCHANGED <<pc, new, totinlen, old, i, hist, runs, kills>>

\* fclose; printfile reads the file back and prints it
Close ==
  /\ pc = "write" /\ i > Len(new) /\ j > Len(old)
  /\ Exit
  /\ UNCHANGED <<tbb, hist, runs, kills>>

\* The process is killed while it writes: a beginning of the lines is on disk,
\* the next line may be there in part.
Kill ==
  /\ pc = "write" /\ kills < MaxKills
  /\ kills' = kills + 1
  /\ \E n \in 0..Len(tbb) :
       \/ tbb' = SubSeq(tbb, 1, n)
       \/ n < Len(tbb) /\ \E l \in Torn(tbb[n + 1]) : tbb' = Append(SubSeq(tbb, 1, n), l)
  /\ Exit
  /\ UNCHANGED <<hist, runs>>

Next == \/ Bench \/ NoFile \/ Read \/ OpenFails \/ Truncate
        \/ WriteNew \/ WriteOld \/ Close \/ Kill

Spec == Init /\ [][Next]_vars

-----------------------------------------------------------------------------
(* Properties.                                                             *)

Result == [len : Length, tc : Time, td : Time, mem : Memory]
LineSet == [size : Size \cup {0}, legible : BOOLEAN, key : Key, res : Result]

\* The variables have their types.
TypeOK ==
  /\ pc \in {"idle", "benched", "read", "write"}
  /\ tbb \in Seq(LineSet)
  /\ new \in Seq([key : Known, res : Result])
  /\ totinlen \in Size \cup {0}
  /\ old \in Seq([key : Known, res : Result, live : BOOLEAN])
  /\ i \in Nat \ {0} /\ j \in Nat \ {0}
  /\ \A k \in Key : \A q \in hist[k] : q \in [size : Size, len : Length, tc : Time, td : Time, mem : Memory]
  /\ runs \in Nat /\ kills \in Nat

\* A codec with its level and parameters has one line: neither the merged new
\* results nor the old ones left over repeat it.
OneLinePerKey ==
  kills = 0 => \A a, b \in 1..Len(tbb) : a # b => tbb[a].key # tbb[b].key

\* When a run has written the file, its own results are there, with the size it
\* measured, whatever an earlier run that was killed had left.
OwnResults ==
  pc = "write" =>
    \A n \in 1..(i - 1) : \E l \in 1..Len(tbb) :
      /\ tbb[l].legible /\ tbb[l].key = new[n].key /\ tbb[l].size = totinlen
      /\ tbb[l].res.len = new[n].res.len
      /\ tbb[l].res.tc <= new[n].res.tc /\ tbb[l].res.td <= new[n].res.td
      /\ tbb[l].res.mem >= new[n].res.mem

\* The table plugread fills has room for every line ("Too many codecs specified",
\* src/turbobench.c:773, is checked for the command line only).
TableHolds == Len(plugread(tbb)) <= PLUGN + 1

\* The results in the file or still to be written to it.
Pending ==
  {[key |-> new[n].key, res |-> Merged(new[n])] : n \in i..Len(new)}
  \cup {[key |-> old[n].key, res |-> old[n].res] :
          n \in {m \in j..Len(old) : /\ old[m].live
                                     /\ \A x \in i..Len(new) : m \notin Match(new[x].key)}}
Stored == {[key |-> tbb[n].key, res |-> tbb[n].res] : n \in 1..Len(tbb)}
StoredSize == IF pc = "write" THEN totinlen ELSE FileSize

bestBar ==
  LET all == IF pc = "write" THEN Stored \cup Pending ELSE Stored
      of(k) == (CHOOSE s \in all : s.key = k).res
  IN  [k \in {s.key : s \in all} |->
         [size |-> StoredSize, len |-> of(k).len, tc |-> of(k).tc, td |-> of(k).td, mem |-> of(k).mem]]

Best == INSTANCE BestResults WITH best <- bestBar

\* Until the first kill the file implements BestResults, the new results taking
\* effect when the file is truncated.
BestResultsSpec == Best!Init /\ [][kills' = 0 => Best!Next]_<<hist, bestBar>>
=============================================================================
