-------------------------- MODULE ResultStoreProofs --------------------------
(***************************************************************************)
(* What is proved of the result file for any number of codecs, results,    *)
(* runs and kills: types, that a run stores what it measured, that no      *)
(* codec has two lines, and that the file implements BestResults until the *)
(* first kill.                                                             *)
(***************************************************************************)
EXTENDS ResultStore, DataInduction, TLAPS

-----------------------------------------------------------------------------
(* plugread.                                                               *)

\* One step of the recursion it is defined by.
ReadStep(lines, u, n) ==
  IF n = 0 THEN <<>>
  ELSE IF Legible(lines[n]) THEN Append(u[n - 1], Record(lines[n])) ELSE u[n - 1]

LEMMA ReadIsRecursive ==
  ASSUME NEW lines
  PROVE  plugread(lines)
           = (CHOOSE u : u = [n \in 0..Len(lines) |-> ReadStep(lines, u, n)])[Len(lines)]
BY DEF plugread, ReadStep

LEMMA ReadIsDefined ==
  ASSUME NEW lines, Len(lines) \in Nat
  PROVE  \E u : u = [n \in 0..Len(lines) |-> ReadStep(lines, u, n)]
<1> DEFINE Solves(u, n) == \A m \in 0..n : u[m] = ReadStep(lines, u, m)
           P == {n \in Nat : \E u : Solves(u, n)}
<1>1. 0 \in P
  <2>1. Solves([m \in {0} |-> <<>>], 0)
    BY DEF ReadStep
  <2> QED
    BY <2>1
<1>2. ASSUME NEW n \in 0..(Len(lines) - 1), n \in P PROVE n + 1 \in P
  <2>1. PICK u : Solves(u, n)
    BY <1>2
  <2> DEFINE v == [m \in 0..(n + 1) |-> ReadStep(lines, u, m)]
  <2>2. ASSUME NEW m \in 0..(n + 1) PROVE v[m] = ReadStep(lines, v, m)
    <3>1. CASE m = 0
      BY <3>1 DEF ReadStep
    <3>2. CASE m # 0
      <4>1. m - 1 \in 0..n
        BY <3>2
      <4>2. v[m - 1] = u[m - 1]
        BY <2>1, <4>1
      <4> QED
        BY <3>2, <4>2 DEF ReadStep
    <3> QED
      BY <3>1, <3>2
  <2>3. n + 1 \in Nat
    OBVIOUS
  <2> HIDE DEF v
  <2>4. Solves(v, n + 1)
    BY <2>2
  <2> HIDE DEF Solves
  <2> QED
    BY <2>3, <2>4
<1>3. Len(lines) \in P
  <2> HIDE DEF P
  <2>1. \A n \in 0..Len(lines) : n \in P
    BY <1>1, <1>2, CountInduction
  <2> QED
    BY <2>1
<1>4. PICK u : Solves(u, Len(lines))
  BY <1>3
<1> DEFINE v == [n \in 0..Len(lines) |-> u[n]]
<1>5. ASSUME NEW n \in 0..Len(lines) PROVE v[n] = ReadStep(lines, v, n)
  <2>1. n = 0 \/ n - 1 \in 0..Len(lines)
    OBVIOUS
  <2>2. v[n] = ReadStep(lines, u, n)
    BY <1>4
  <2> QED
    BY <2>1, <2>2 DEF ReadStep
<1>6. v = [n \in 0..Len(lines) |-> ReadStep(lines, v, n)]
  BY <1>5
<1> QED
  BY <1>6

\* What plugread has after each line, for the proofs that follow.
LEMMA ReadUpTo ==
  ASSUME NEW lines, Len(lines) \in Nat
  PROVE  \E u : /\ plugread(lines) = u[Len(lines)]
                /\ \A n \in 0..Len(lines) : u[n] = ReadStep(lines, u, n)
<1> DEFINE u == CHOOSE v : v = [n \in 0..Len(lines) |-> ReadStep(lines, v, n)]
<1>1. u = [n \in 0..Len(lines) |-> ReadStep(lines, u, n)]
  BY ReadIsDefined
<1>2. plugread(lines) = u[Len(lines)]
  BY ReadIsRecursive
<1> HIDE DEF u
<1>3. \A n \in 0..Len(lines) : u[n] = ReadStep(lines, u, n)
  BY <1>1
<1> QED
  BY <1>2, <1>3

\* Whatever the lines, each record is one of a codec this program knows.
Records == [key : Known, res : Result, live : BOOLEAN]
LEMMA ReadType ==
  ASSUME NEW lines \in Seq(LineSet)
  PROVE  plugread(lines) \in Seq(Records)
<1>0. Len(lines) \in Nat
  OBVIOUS
<1>1. PICK u : /\ plugread(lines) = u[Len(lines)]
               /\ \A n \in 0..Len(lines) : u[n] = ReadStep(lines, u, n)
  BY <1>0, ReadUpTo
<1> DEFINE P == {n \in Nat : u[n] \in Seq(Records)}
<1>2. 0 \in P
  <2>1. u[0] = <<>>
    BY <1>0, <1>1 DEF ReadStep
  <2>2. <<>> \in Seq(Records)
    OBVIOUS
  <2> QED
    BY <2>1, <2>2
<1>3. ASSUME NEW n \in 0..(Len(lines) - 1), n \in P PROVE n + 1 \in P
  <2>1. n + 1 \in 0..Len(lines) /\ lines[n + 1] \in LineSet /\ (n + 1) - 1 = n
    BY <1>0
  <2>2. u[n + 1] = ReadStep(lines, u, n + 1)
    BY <1>1, <2>1
  <2>3. Legible(lines[n + 1]) => Record(lines[n + 1]) \in Records
    BY <2>1 DEF Legible, Record, Records, LineSet
  <2>4. u[n] \in Seq(Records)
    BY <1>3
  <2>5. u[n + 1] \in Seq(Records)
    BY <2>1, <2>2, <2>3, <2>4 DEF ReadStep
  <2> QED
    BY <2>5
<1>4. Len(lines) \in P
  <2> HIDE DEF P
  <2>1. \A n \in 0..Len(lines) : n \in P
    BY <1>0, <1>2, <1>3, CountInduction
  <2> QED
    BY <2>1
<1> QED
  BY <1>1, <1>4

\* When all lines can be read, line n gives record n.
LEMMA ReadAll ==
  ASSUME NEW lines \in Seq(LineSet), \A n \in 1..Len(lines) : Legible(lines[n])
  PROVE  /\ Len(plugread(lines)) = Len(lines)
         /\ \A n \in 1..Len(lines) : plugread(lines)[n] = Record(lines[n])
<1>0. Len(lines) \in Nat
  OBVIOUS
<1>1. PICK u : /\ plugread(lines) = u[Len(lines)]
               /\ \A n \in 0..Len(lines) : u[n] = ReadStep(lines, u, n)
  BY <1>0, ReadUpTo
<1> DEFINE Same(n) == u[n] = [m \in 1..n |-> Record(lines[m])]
           P == {n \in Nat : Same(n)}
<1>2. 0 \in P
  BY <1>0, <1>1 DEF ReadStep
<1>3. ASSUME NEW n \in 0..(Len(lines) - 1), n \in P PROVE n + 1 \in P
  <2>1. n + 1 \in 0..Len(lines) /\ Legible(lines[n + 1]) /\ (n + 1) - 1 = n /\ n + 1 \in Nat
    BY <1>0
  <2>2. u[n + 1] = Append(u[n], Record(lines[n + 1]))
    <3>1. u[n + 1] = ReadStep(lines, u, n + 1)
      BY <1>1, <2>1
    <3> QED
      BY <2>1, <3>1 DEF ReadStep
  <2>3. Append([m \in 1..n |-> Record(lines[m])], Record(lines[n + 1]))
          = [m \in 1..(n + 1) |-> Record(lines[m])]
    OBVIOUS
  <2> QED
    BY <1>3, <2>1, <2>2, <2>3
<1>4. Len(lines) \in P
  <2> HIDE DEF P
  <2>1. \A n \in 0..Len(lines) : n \in P
    BY <1>0, <1>2, <1>3, CountInduction
  <2> QED
    BY <2>1
<1> QED
  BY <1>0, <1>1, <1>4

-----------------------------------------------------------------------------
(* Types.                                                                  *)

TypeInv == TypeOK /\ (pc \in {"read", "write"} => totinlen \in Size)

\* The merge keeps what it must: the new size, no worse time, no less memory.
LEMMA MergeKeeps ==
  ASSUME NEW p \in Result, NEW g \in Result
  PROVE  /\ Merge(p, g) \in Result
         /\ Merge(p, g).len = p.len
         /\ Merge(p, g).tc <= p.tc /\ Merge(p, g).td <= p.td /\ Merge(p, g).mem >= p.mem
<1>1. /\ p.len \in Length /\ p.tc \in Time /\ p.td \in Time /\ p.mem \in Memory
      /\ g.len \in Length /\ g.tc \in Time /\ g.td \in Time /\ g.mem \in Memory
  BY DEF Result
<1>2. /\ p.tc \in Nat /\ p.td \in Nat /\ p.mem \in Nat
      /\ g.tc \in Nat /\ g.td \in Nat /\ g.mem \in Nat
  BY <1>1, ValueAssumption
<1>3. CASE g.len # p.len
  BY <1>2, <1>3 DEF Merge
<1>4. CASE g.len = p.len
  <2> DEFINE m == [len |-> p.len, tc |-> Better(g.tc, p.tc), td |-> Better(g.td, p.td),
                   mem |-> Larger(g.mem, p.mem)]
  <2>1. Merge(p, g) = m
    BY <1>4 DEF Merge, Result
  <2>2. /\ Better(g.tc, p.tc) \in Time /\ Better(g.td, p.td) \in Time /\ Larger(g.mem, p.mem) \in Memory
        /\ Better(g.tc, p.tc) <= p.tc /\ Better(g.td, p.td) <= p.td /\ Larger(g.mem, p.mem) >= p.mem
    BY <1>1, <1>2 DEF Better, Larger
  <2>3. m \in Result
    BY <1>1, <2>2 DEF Result
  <2> QED
    BY <2>1, <2>2, <2>3
<1> QED
  BY <1>3, <1>4

LEMMA MergedKeeps ==
  ASSUME TypeOK, NEW p \in [key : Known, res : Result]
  PROVE  /\ Merged(p) \in Result
         /\ Merged(p).len = p.res.len
         /\ Merged(p).tc <= p.res.tc /\ Merged(p).td <= p.res.td /\ Merged(p).mem >= p.res.mem
<1>1. CASE Match(p.key) = {}
  <2>1. Merged(p) = p.res /\ p.res \in Result
    BY <1>1 DEF Merged
  <2>2. p.res.tc \in Nat /\ p.res.td \in Nat /\ p.res.mem \in Nat
    BY <2>1, ValueAssumption DEF Result
  <2> QED
    BY <2>1, <2>2
<1>2. CASE Match(p.key) # {}
  <2> DEFINE n == CHOOSE m \in Match(p.key) : TRUE
  <2>1. n \in 1..Len(old)
    BY <1>2 DEF Match
  <2> HIDE DEF n
  <2>2. old[n].res \in Result /\ p.res \in Result
    <3>1. old[n] \in [key : Known, res : Result, live : BOOLEAN]
      BY <2>1, Element DEF TypeOK
    <3> QED
      BY <3>1
  <2>3. Merged(p) = Merge(p.res, old[n].res)
    BY <1>2 DEF Merged, n
  <2> QED
    BY <2>2, <2>3, MergeKeeps
<1> QED
  BY <1>1, <1>2

\* The result of a codec measured in this run.
LEMMA MeasuredOK ==
  ASSUME TypeOK, NEW k \in Key, \E n \in 1..Len(new) : new[n].key = k
  PROVE  new[CHOOSE n \in 1..Len(new) : new[n].key = k].res \in Result
<1> DEFINE n == CHOOSE m \in 1..Len(new) : new[m].key = k
<1>1. n \in 1..Len(new)
  OBVIOUS
<1> HIDE DEF n
<1>2. new[n] \in [key : Known, res : Result]
  BY <1>1, Element DEF TypeOK
<1> QED
  BY <1>2 DEF n

LEMMA TornOK == ASSUME NEW line \in LineSet, NEW t \in Torn(line) PROVE t \in LineSet
<1>1. /\ line.size \in Size \cup {0} /\ line.legible \in BOOLEAN /\ line.key \in Key
      /\ line.res.len \in Length /\ line.res.tc \in Time /\ line.res.td \in Time
      /\ line.res.mem \in Memory
      /\ line = [size |-> line.size, legible |-> line.legible, key |-> line.key, res |-> line.res]
      /\ line.res = [len |-> line.res.len, tc |-> line.res.tc, td |-> line.res.td, mem |-> line.res.mem]
  BY DEF LineSet, Result
<1> DEFINE noMem == [len |-> line.res.len, tc |-> line.res.tc, td |-> line.res.td, mem |-> 0]
<1>2. noMem \in Result /\ line.res \in Result
  BY <1>1, ValueAssumption DEF Result
<1>3. [line.res EXCEPT !.mem = 0] = noMem
  BY <1>1
<1> HIDE DEF noMem
<1>4. CASE t = [line EXCEPT !.size = 0, !.legible = FALSE]
  <2>1. t = [size |-> 0, legible |-> FALSE, key |-> line.key, res |-> line.res]
    BY <1>1, <1>4
  <2> QED
    BY <1>1, <1>2, <2>1 DEF LineSet
<1>5. CASE t = [line EXCEPT !.legible = FALSE]
  <2>1. t = [size |-> line.size, legible |-> FALSE, key |-> line.key, res |-> line.res]
    BY <1>1, <1>5
  <2> QED
    BY <1>1, <1>2, <2>1 DEF LineSet
<1>6. ASSUME NEW k \in Key, t = [size |-> line.size, legible |-> line.legible, key |-> k, res |-> noMem]
      PROVE  t \in LineSet
  BY <1>1, <1>2, <1>6 DEF LineSet
<1>7. \/ t = [line EXCEPT !.size = 0, !.legible = FALSE] \/ t = [line EXCEPT !.legible = FALSE]
      \/ \E k \in Key : t = [size |-> line.size, legible |-> line.legible, key |-> k, res |-> noMem]
  BY <1>1, <1>3 DEF Torn
<1> QED
  BY <1>4, <1>5, <1>6, <1>7

LEMMA EmptySeq == ASSUME NEW S PROVE <<>> \in Seq(S)
OBVIOUS

LEMMA SeqOfFunction == ASSUME NEW S, NEW n \in Nat, NEW f \in [1..n -> S] PROVE f \in Seq(S)
OBVIOUS

\* The first lines of a file, and one more.
LEMMA CutOK ==
  ASSUME NEW S, NEW s \in Seq(S), NEW n \in 0..Len(s)
  PROVE  SubSeq(s, 1, n) \in Seq(S) /\ Len(SubSeq(s, 1, n)) = n
OBVIOUS

LEMMA TypeInit == Init => TypeInv
<1> SUFFICES ASSUME Init PROVE TypeInv
  OBVIOUS
<1>1. tbb \in Seq(LineSet) /\ new \in Seq([key : Known, res : Result]) /\ old \in Seq(Records)
  BY EmptySeq DEF Init, NoLines
<1>2. \A k \in Key : hist[k] = {}
  BY DEF Init
<1> QED
  BY <1>1, <1>2 DEF Init, TypeInv, TypeOK, Records

LEMMA TypeNext == TypeInv /\ [Next]_vars => TypeInv'
<1> SUFFICES ASSUME TypeInv, [Next]_vars PROVE TypeInv'
  OBVIOUS
<1> USE DEF TypeInv
<1>0. TypeOK
  OBVIOUS
<1>e. ASSUME Exit, UNCHANGED <<hist, runs>>, tbb' \in Seq(LineSet), kills' \in Nat PROVE TypeInv'
  <2>1. new' \in Seq([key : Known, res : Result]) /\ old' \in Seq(Records)
    BY <1>e, EmptySeq DEF Exit
  <2> QED
    BY <1>0, <1>e, <2>1 DEF Exit, TypeOK, Records
<1>1. CASE Bench
  <2>0. PICK s \in Orders : \E res \in [DOMAIN s -> Measured] :
          new' = [n \in DOMAIN s |-> [key |-> s[n], res |-> res[n]]]
    BY <1>1 DEF Bench
  <2>1. PICK res \in [DOMAIN s -> Measured] :
          new' = [n \in DOMAIN s |-> [key |-> s[n], res |-> res[n]]]
    BY <2>0
  <2>2. PICK n \in 1..Better(Cardinality(Known), PLUGN) : s \in [1..n -> Known]
    BY DEF Orders
  <2>3. n \in Nat
    BY FS_CardinalityType, KeyAssumption, BoundAssumption DEF Better
  <2>4. new' \in [1..n -> [key : Known, res : Result]]
    BY <2>1, <2>2, ValueAssumption DEF Result
  <2>5. new' \in Seq([key : Known, res : Result])
    BY <2>3, <2>4, SeqOfFunction
  <2> QED
    BY <1>0, <1>1, <2>5 DEF Bench, TypeOK
<1>2. CASE NoFile
  BY <1>0, <1>2, <1>e DEF NoFile, TypeOK
<1>3. CASE Read
  <2>1. plugread(tbb) \in Seq(Records) /\ <<>> \in Seq(Records)
    BY <1>0, ReadType, EmptySeq DEF TypeOK
  <2> QED
    BY <1>0, <1>3, <2>1 DEF Read, TypeOK, Records
<1>4. CASE OpenFails
  BY <1>0, <1>4, <1>e DEF OpenFails, TypeOK
<1>5. CASE Truncate
  <2>1. tbb' \in Seq(LineSet)
    BY <1>5, EmptySeq DEF Truncate, NoLines
  <2>2. totinlen \in Size
    BY <1>5 DEF Truncate
  <2>3. ASSUME NEW k \in Key
        PROVE  \A q \in hist'[k] : q \in [size : Size, len : Length, tc : Time, td : Time, mem : Memory]
    <3> DEFINE r == new[CHOOSE n \in 1..Len(new) : new[n].key = k].res
               full == [size |-> totinlen, len |-> r.len, tc |-> r.tc, td |-> r.td, mem |-> r.mem]
    <3>1. CASE \E n \in 1..Len(new) : new[n].key = k
      <4>1. r \in Result
        BY <1>0, <3>1, MeasuredOK
      <4>2. hist'[k] \subseteq {full} \cup hist[k]
        BY <1>5, <3>1 DEF Truncate
      <4> HIDE DEF r
      <4>3. full \in [size : Size, len : Length, tc : Time, td : Time, mem : Memory]
        BY <2>2, <4>1 DEF Result
      <4> QED
        BY <1>0, <4>2, <4>3 DEF TypeOK
    <3>2. CASE ~\E n \in 1..Len(new) : new[n].key = k
      <4>1. hist'[k] \subseteq hist[k]
        BY <1>5, <3>2 DEF Truncate
      <4> QED
        BY <1>0, <4>1 DEF TypeOK
    <3> QED
      BY <3>1, <3>2
  <2> HIDE DEF TypeInv
  <2>4. /\ pc' = "write" /\ new' = new /\ totinlen' = totinlen /\ old' = old /\ i' = 1 /\ j' = 1
        /\ runs' = runs /\ kills' = kills
    BY <1>5 DEF Truncate
  <2>5. TypeOK'
    BY <1>0, <2>1, <2>3, <2>4 DEF TypeOK
  <2> QED
    BY <2>2, <2>4, <2>5 DEF TypeInv
<1>6. CASE WriteNew
  <2>0. new \in Seq([key : Known, res : Result]) /\ i \in 1..Len(new)
    BY <1>0, <1>6 DEF WriteNew, TypeOK
  <2>1. new[i] \in [key : Known, res : Result]
    BY <2>0, Element
  <2>2. Line(new[i].key, totinlen, Merged(new[i])) \in LineSet
    BY <1>0, <1>6, <2>1, MergedKeeps, KeyAssumption DEF WriteNew, Line, LineSet
  <2>3. tbb' \in Seq(LineSet)
    BY <1>0, <1>6, <2>2 DEF WriteNew, TypeOK
  <2>4. old' \in Seq(Records)
    <3>1. old \in Seq(Records) /\ Len(old) \in Nat /\ DOMAIN old = 1..Len(old)
      BY <1>0 DEF TypeOK, Records
    <3>2. ASSUME NEW n \in 1..Len(old) PROVE old[n] \in Records /\ [old[n] EXCEPT !.live = FALSE] \in Records
      <4>1. old[n] \in Records
        BY <3>1, Element
      <4> QED
        BY <4>1 DEF Records
    <3>3. old' \in [1..Len(old) -> Records]
      BY <1>6, <3>1, <3>2 DEF WriteNew
    <3> QED
      BY <3>1, <3>3, SeqOfFunction
  <2> QED
    BY <1>0, <1>6, <2>3, <2>4 DEF WriteNew, TypeOK, Records
<1>7. CASE WriteOld
  <2>0. old \in Seq([key : Known, res : Result, live : BOOLEAN]) /\ j \in 1..Len(old)
    BY <1>0, <1>7 DEF WriteOld, TypeOK
  <2>1. old[j] \in [key : Known, res : Result, live : BOOLEAN]
    BY <2>0, Element
  <2>2. Line(old[j].key, totinlen, old[j].res) \in LineSet
    BY <1>0, <1>7, <2>1, KeyAssumption DEF WriteOld, Line, LineSet
  <2>3. tbb' \in Seq(LineSet)
    BY <1>0, <1>7, <2>2 DEF WriteOld, TypeOK
  <2> QED
    BY <1>0, <1>7, <2>3 DEF WriteOld, TypeOK
<1>8. CASE Close
  BY <1>0, <1>8, <1>e DEF Close, TypeOK
<1>9. CASE Kill
  <2>1. tbb' \in Seq(LineSet)
    <3>1. PICK n \in 0..Len(tbb) :
            \/ tbb' = SubSeq(tbb, 1, n)
            \/ n < Len(tbb) /\ \E l \in Torn(tbb[n + 1]) : tbb' = Append(SubSeq(tbb, 1, n), l)
      BY <1>9 DEF Kill
    <3>2. SubSeq(tbb, 1, n) \in Seq(LineSet)
      BY <1>0, CutOK DEF TypeOK
    <3>3. n < Len(tbb) => tbb[n + 1] \in LineSet
      BY <1>0 DEF TypeOK
    <3> QED
      BY <3>1, <3>2, <3>3, TornOK
  <2> QED
    BY <1>0, <1>9, <1>e, <2>1 DEF Kill, TypeOK
<1>10. CASE UNCHANGED vars
  BY <1>0, <1>10 DEF vars, TypeOK
<1> QED
  BY <1>1, <1>2, <1>3, <1>4, <1>5, <1>6, <1>7, <1>8, <1>9, <1>10 DEF Next

\* The variables keep their types, whatever codecs are named, whatever they give
\* and wherever the program is killed.
THEOREM TypeCorrect == Spec => []TypeOK
<1>1. Spec => []TypeInv
  BY TypeInit, TypeNext, PTL DEF Spec
<1>2. TypeInv => TypeOK
  BY DEF TypeInv
<1> QED
  BY <1>1, <1>2, PTL

-----------------------------------------------------------------------------
(* A run finds its own results in the file.                                *)

LEMMA Appended ==
  ASSUME NEW S, NEW s \in Seq(S), NEW x \in S
  PROVE  /\ Len(Append(s, x)) = Len(s) + 1 /\ Len(s) \in Nat
         /\ \A n \in 1..Len(s) : Append(s, x)[n] = s[n]
         /\ Append(s, x)[Len(s) + 1] = x
OBVIOUS

\* The line a run writes for one of the codecs it measured.
LEMMA NewLine ==
  ASSUME TypeInv, pc = "write", i <= Len(new)
  PROVE  /\ i \in 1..Len(new) /\ new[i] \in [key : Known, res : Result]
         /\ Line(new[i].key, totinlen, Merged(new[i])) \in LineSet
<1>1. new \in Seq([key : Known, res : Result]) /\ i \in 1..Len(new)
  BY DEF TypeInv, TypeOK
<1>2. new[i] \in [key : Known, res : Result]
  BY <1>1, Element
<1>3. Merged(new[i]) \in Result
  BY <1>2, MergedKeeps DEF TypeInv
<1> QED
  BY <1>1, <1>2, <1>3, KeyAssumption DEF TypeInv, Line, LineSet

\* The line of a codec that only earlier runs have measured.
LEMMA OldLine ==
  ASSUME TypeInv, pc = "write", j <= Len(old)
  PROVE  /\ j \in 1..Len(old) /\ old[j] \in Records
         /\ Line(old[j].key, totinlen, old[j].res) \in LineSet
<1>1. old \in Seq(Records) /\ j \in 1..Len(old)
  BY DEF TypeInv, TypeOK, Records
<1>2. old[j] \in Records
  BY <1>1, Element
<1> QED
  BY <1>1, <1>2, KeyAssumption DEF TypeInv, Line, LineSet, Records

LEMMA OwnNext == TypeInv /\ OwnResults /\ [Next]_vars => OwnResults'
<1> SUFFICES ASSUME TypeInv, OwnResults, [Next]_vars, pc' = "write" PROVE OwnResults'
  BY DEF OwnResults
<1> DEFINE Has(line, p, size) == /\ line.legible /\ line.key = p.key /\ line.size = size
                                 /\ line.res.len = p.res.len
                                 /\ line.res.tc <= p.res.tc /\ line.res.td <= p.res.td
                                 /\ line.res.mem >= p.res.mem
<1>0. tbb \in Seq(LineSet) /\ Len(tbb) \in Nat /\ i \in Nat \ {0}
  BY DEF TypeInv, TypeOK
<1>1. CASE Truncate
  BY <1>1 DEF Truncate, OwnResults
<1>2. ASSUME pc = "write", new' = new, totinlen' = totinlen, NEW x \in LineSet, tbb' = Append(tbb, x),
             NEW n \in 1..(i - 1)
      PROVE  \E l \in 1..Len(tbb') : Has(tbb'[l], new[n], totinlen)
  <2>1. PICK l \in 1..Len(tbb) : Has(tbb[l], new[n], totinlen)
    BY <1>2 DEF OwnResults
  <2>2. l \in 1..Len(tbb') /\ tbb'[l] = tbb[l]
    BY <1>0, <1>2, Appended
  <2>3. Has(tbb'[l], new[n], totinlen)
    BY <1>2, <2>1, <2>2
  <2> QED
    BY <2>2, <2>3
<1>3. CASE WriteNew
  <2> DEFINE x == Line(new[i].key, totinlen, Merged(new[i]))
  <2>1. /\ i \in 1..Len(new) /\ new[i] \in [key : Known, res : Result] /\ x \in LineSet
        /\ new' = new /\ totinlen' = totinlen /\ tbb' = Append(tbb, x) /\ i' = i + 1 /\ pc = "write"
    BY <1>3, NewLine DEF WriteNew
  <2>2. Len(tbb') = Len(tbb) + 1 /\ tbb'[Len(tbb) + 1] = x
    BY <1>0, <2>1, Appended
  <2>3. Has(x, new[i], totinlen)
    <3>1. /\ Merged(new[i]).len = new[i].res.len
          /\ Merged(new[i]).tc <= new[i].res.tc /\ Merged(new[i]).td <= new[i].res.td
          /\ Merged(new[i]).mem >= new[i].res.mem
      BY <2>1, MergedKeeps DEF TypeInv
    <3>2. x.legible /\ x.key = new[i].key /\ x.size = totinlen /\ x.res = Merged(new[i])
      BY DEF Line
    <3> QED
      BY <3>1, <3>2
  <2> HIDE DEF Has, x
  <2>4. ASSUME NEW n \in 1..(i' - 1) PROVE \E l \in 1..Len(tbb') : Has(tbb'[l], new'[n], totinlen')
    <3>1. CASE n = i
      BY <1>0, <2>1, <2>2, <2>3, <3>1
    <3>2. CASE n # i
      BY <1>0, <1>2, <2>1, <3>2
    <3> QED
      BY <3>1, <3>2
  <2> QED
    BY <2>4 DEF Has, OwnResults
<1>4. CASE WriteOld
  <2> DEFINE x == Line(old[j].key, totinlen, old[j].res)
  <2>1. /\ x \in LineSet /\ new' = new /\ totinlen' = totinlen /\ i' = i /\ pc = "write"
        /\ tbb' = (IF old[j].live THEN Append(tbb, x) ELSE tbb)
    BY <1>4, OldLine DEF WriteOld
  <2> HIDE DEF x
  <2>2. CASE old[j].live
    <3> HIDE DEF Has
    <3>1. \A n \in 1..(i' - 1) : \E l \in 1..Len(tbb') : Has(tbb'[l], new'[n], totinlen')
      BY <1>2, <2>1, <2>2
    <3> QED
      BY <3>1 DEF Has, OwnResults
  <2>3. CASE ~old[j].live
    BY <2>1, <2>3 DEF OwnResults
  <2> QED
    BY <2>2, <2>3
<1>5. CASE UNCHANGED vars
  BY <1>5 DEF vars, OwnResults
<1>6. CASE Bench \/ NoFile \/ Read \/ OpenFails \/ Close \/ Kill
  BY <1>6 DEF Bench, NoFile, Read, OpenFails, Close, Kill, Exit
<1> QED
  BY <1>1, <1>3, <1>4, <1>5, <1>6 DEF Next

\* What a run measured is in the file when it has written it, with its own
\* compressed size, no worse times and no less memory, after any kills.
THEOREM OwnResultsCorrect == Spec => []OwnResults
<1>1. Init => OwnResults
  BY DEF Init, OwnResults
<1> QED
  BY <1>1, TypeInit, TypeNext, OwnNext, PTL DEF Spec

-----------------------------------------------------------------------------
(* Until the first kill.                                                   *)

\* r is the best of the results S, all for a dataset of this size.
IsBest(r, S, size) ==
  /\ \A q \in S : /\ q.size = size /\ q.len = r.len
                  /\ r.tc <= q.tc /\ r.td <= q.td /\ r.mem >= q.mem
  /\ \E q \in S : q.tc = r.tc
  /\ \E q \in S : q.td = r.td
  /\ \E q \in S : q.mem = r.mem

\* A run measures something, and nothing twice.
NewInv ==
  /\ pc # "idle" => Len(new) >= 1
  /\ \A a, b \in 1..Len(new) : a # b => new[a].key # new[b].key

\* Every line can be read and has the best of what counts for its codec.
LinesInv(size) ==
  /\ \A a \in 1..Len(tbb) : /\ Legible(tbb[a]) /\ tbb[a].size = size
                            /\ IsBest(tbb[a].res, hist[tbb[a].key], size)
  /\ \A a, b \in 1..Len(tbb) : a # b => tbb[a].key # tbb[b].key

HasLine(k) == \E a \in 1..Len(tbb) : tbb[a].key = k

\* Between two writes the file has a line for all that counts.
FileInv ==
  /\ LinesInv(FileSize)
  /\ \A k \in Key : hist[k] # {} => HasLine(k)

\* What was read is the file, or nothing if the dataset is another one.
ReadInv ==
  \/ FileSize # totinlen /\ old = <<>>
  \/ /\ FileSize = totinlen /\ Len(old) = Len(tbb)
     /\ \A a \in 1..Len(old) : old[a] = Record(tbb[a])

\* While it is written, every codec is where its turn is: in the file, among the
\* new results from i on or among the old ones from j on.
WriteInv ==
  /\ LinesInv(totinlen)
  /\ i <= Len(new) + 1 /\ j <= Len(old) + 1
  /\ j > 1 => i > Len(new)
  /\ \A a, b \in 1..Len(old) : a # b => old[a].key # old[b].key
  /\ \A a \in 1..Len(tbb) : \/ \E n \in 1..(i - 1) : tbb[a].key = new[n].key
                            \/ \E m \in 1..(j - 1) : old[m].live /\ tbb[a].key = old[m].key
  /\ \A m \in 1..Len(old), n \in 1..(i - 1) : old[m].live => old[m].key # new[n].key
  /\ \A n \in i..Len(new) : IsBest(Merged(new[n]), hist[new[n].key], totinlen)
  /\ \A m \in 1..Len(old) :
       old[m].live /\ (\A n \in i..Len(new) : new[n].key # old[m].key)
         => IsBest(old[m].res, hist[old[m].key], totinlen)
  /\ \A k \in Key : hist[k] # {} => \/ HasLine(k)
                                    \/ \E n \in i..Len(new) : new[n].key = k
                                    \/ \E m \in j..Len(old) : old[m].live /\ old[m].key = k

StoreInv ==
  /\ TypeInv /\ NewInv
  /\ kills = 0 => /\ pc # "write" => FileInv
                  /\ pc = "read" => ReadInv
                  /\ pc = "write" => WriteInv

Counted == [size : Size, len : Length, tc : Time, td : Time, mem : Memory]

\* Merging what was measured with the best so far gives the best of both.
LEMMA BestMerge ==
  ASSUME NEW p \in Result, NEW g \in Result, NEW size, NEW S \in SUBSET Counted, NEW f \in Counted,
         f.size = size, f.len = p.len, f.tc = p.tc, f.td = p.td, f.mem = p.mem, IsBest(g, S, size)
  PROVE  IsBest(Merge(p, g), {f} \cup {q \in S : q.len = f.len}, size)
<1>1. /\ p.tc \in Nat /\ p.td \in Nat /\ p.mem \in Nat
      /\ g.tc \in Nat /\ g.td \in Nat /\ g.mem \in Nat
  BY ValueAssumption DEF Result
<1>2. \A q \in S : q.tc \in Nat /\ q.td \in Nat /\ q.mem \in Nat
  BY ValueAssumption DEF Counted
<1>3. CASE g.len # p.len
  <2>1. Merge(p, g) = p
    BY <1>3 DEF Merge
  <2>2. {q \in S : q.len = f.len} = {}
    BY <1>3 DEF IsBest
  <2> QED
    BY <1>1, <2>1, <2>2 DEF IsBest
<1>4. CASE g.len = p.len
  <2> DEFINE m == Merge(p, g)
  <2>1. /\ m.len = p.len /\ m.tc = Better(g.tc, p.tc) /\ m.td = Better(g.td, p.td)
        /\ m.mem = Larger(g.mem, p.mem)
    BY <1>4 DEF Merge, Result
  <2>2. {q \in S : q.len = f.len} = S
    BY <1>4 DEF IsBest
  <2> HIDE DEF m
  <2>3. IsBest(m, {f} \cup S, size)
    <3>1. ASSUME NEW q \in {f} \cup S
          PROVE  q.size = size /\ q.len = m.len /\ m.tc <= q.tc /\ m.td <= q.td /\ m.mem >= q.mem
      BY <1>1, <1>2, <1>4, <2>1 DEF IsBest, Better, Larger
    <3>2. /\ \E q \in {f} \cup S : q.tc = m.tc
          /\ \E q \in {f} \cup S : q.td = m.td
          /\ \E q \in {f} \cup S : q.mem = m.mem
      BY <2>1 DEF IsBest, Better, Larger
    <3> QED
      BY <3>1, <3>2 DEF IsBest
  <2> QED
    BY <2>2, <2>3 DEF m
<1> QED
  BY <1>3, <1>4

\* With one old result per codec, that is the one a measured result is merged with.
LEMMA OnlyMatch ==
  ASSUME NEW m \in 1..Len(old), old[m].live,
         \A a, b \in 1..Len(old) : a # b => old[a].key # old[b].key
  PROVE  Match(old[m].key) = {m}
<1>1. m \in Match(old[m].key)
  BY DEF Match
<1>2. \A n \in Match(old[m].key) : n = m
  BY DEF Match
<1> QED
  BY <1>1, <1>2

LEMMA MergedWith ==
  ASSUME NEW m \in 1..Len(old), old[m].live, NEW p, p.key = old[m].key,
         \A a, b \in 1..Len(old) : a # b => old[a].key # old[b].key
  PROVE  Merged(p) = Merge(p.res, old[m].res)
<1>1. Match(p.key) = {m}
  BY OnlyMatch
<1> QED
  BY <1>1 DEF Merged

LEMMA MergedAlone ==
  ASSUME NEW p, \A m \in 1..Len(old) : ~(old[m].live /\ old[m].key = p.key)
  PROVE  Merged(p) = p.res
BY DEF Merged, Match

\* What counts when the file has been truncated: the results of this run and, for
\* the same dataset, those before it, for a codec measured again those of the same
\* compressed size.
Full(r) == [size |-> totinlen, len |-> r.len, tc |-> r.tc, td |-> r.td, mem |-> r.mem]
Kept(k) == IF FileSize = totinlen THEN hist[k] ELSE {}

LEMMA TruncateCounts ==
  ASSUME StoreInv, kills = 0, Truncate, NEW k \in Key
  PROVE  /\ \A n \in 1..Len(new) : new[n].key = k =>
              hist'[k] = {Full(new[n].res)} \cup {q \in Kept(k) : q.len = new[n].res.len}
         /\ (\A n \in 1..Len(new) : new[n].key # k) => hist'[k] = Kept(k)
<1>1. pc = "read" /\ FileInv /\ ReadInv /\ NewInv
  BY DEF StoreInv, Truncate
<1> DEFINE kept == IF \E n \in 1..Len(old) : old[n].key = k THEN hist[k] ELSE {}
<1>2. kept = Kept(k)
  <2>1. CASE FileSize # totinlen
    BY <1>1, <2>1 DEF ReadInv, Kept
  <2>2. CASE FileSize = totinlen /\ hist[k] # {}
    <3>1. PICK a \in 1..Len(tbb) : tbb[a].key = k
      BY <1>1, <2>2 DEF FileInv, HasLine
    <3>2. Len(old) = Len(tbb) /\ \A m \in 1..Len(old) : old[m] = Record(tbb[m])
      BY <1>1, <2>2 DEF ReadInv
    <3>3. a \in 1..Len(old) /\ old[a] = Record(tbb[a])
      BY <3>1, <3>2
    <3>4. old[a].key = k
      BY <3>1, <3>3 DEF Record
    <3> QED
      BY <2>2, <3>3, <3>4 DEF Kept
  <2> QED
    BY <2>1, <2>2 DEF Kept
<1>3. ASSUME NEW n \in 1..Len(new), new[n].key = k
      PROVE  hist'[k] = {Full(new[n].res)} \cup {q \in kept : q.len = new[n].res.len}
  <2>1. n = CHOOSE m \in 1..Len(new) : new[m].key = k
    BY <1>1, <1>3 DEF NewInv
  <2>2. hist'[k] = LET r == Full(new[CHOOSE m \in 1..Len(new) : new[m].key = k].res)
                   IN  {r} \cup {q \in kept : q.len = r.len}
    BY <1>3 DEF Truncate, Full
  <2> QED
    BY <2>1, <2>2 DEF Full
<1>4. ASSUME \A n \in 1..Len(new) : new[n].key # k PROVE hist'[k] = kept
  BY <1>4 DEF Truncate
<1> HIDE DEF kept
<1> QED
  BY <1>2, <1>3, <1>4

\* Types, as the steps need them.
LEMMA StoreTypes ==
  ASSUME TypeInv
  PROVE  /\ tbb \in Seq(LineSet) /\ Len(tbb) \in Nat
         /\ new \in Seq([key : Known, res : Result]) /\ Len(new) \in Nat
         /\ old \in Seq(Records) /\ Len(old) \in Nat
         /\ i \in Nat \ {0} /\ j \in Nat \ {0}
         /\ \A n \in 1..Len(new) : new[n].key \in Key /\ new[n].res \in Result
         /\ \A m \in 1..Len(old) : old[m].key \in Key /\ old[m].res \in Result
         /\ \A k \in Key : hist[k] \in SUBSET Counted
<1>1. /\ tbb \in Seq(LineSet) /\ new \in Seq([key : Known, res : Result]) /\ old \in Seq(Records)
      /\ \A k \in Key : hist[k] \in SUBSET Counted
  BY DEF TypeInv, TypeOK, Records, Counted
<1>2. Len(tbb) \in Nat /\ Len(new) \in Nat /\ Len(old) \in Nat
  BY <1>1
<1>3. ASSUME NEW n \in 1..Len(new) PROVE new[n].key \in Key /\ new[n].res \in Result
  <2>1. new[n] \in [key : Known, res : Result]
    BY <1>1, Element
  <2> QED
    BY <2>1, KeyAssumption
<1>4. ASSUME NEW m \in 1..Len(old) PROVE old[m].key \in Key /\ old[m].res \in Result
  <2>1. old[m] \in Records
    BY <1>1, Element
  <2> QED
    BY <2>1, KeyAssumption DEF Records
<1> QED
  BY <1>1, <1>2, <1>3, <1>4 DEF TypeInv, TypeOK

LEMMA StoreTruncate == ASSUME StoreInv, kills = 0, Truncate PROVE WriteInv'
<1>0. TypeInv /\ pc = "read" /\ FileInv /\ ReadInv /\ NewInv
  BY DEF StoreInv, Truncate
<1>1. /\ tbb' = <<>> /\ i' = 1 /\ j' = 1 /\ new' = new /\ totinlen' = totinlen /\ old' = old
      /\ Len(tbb') = 0 /\ totinlen \in Size
  BY <1>0 DEF Truncate, NoLines, TypeInv
<1>2. \A a \in 1..Len(old) : /\ FileSize = totinlen /\ a \in 1..Len(tbb) /\ old[a] = Record(tbb[a])
                             /\ old[a].live /\ old[a].key = tbb[a].key /\ old[a].res = tbb[a].res
  <2>1. old = <<>> => 1..Len(old) = {}
    OBVIOUS
  <2> QED
    BY <1>0, <2>1 DEF ReadInv, Record
<1>3. \A a, b \in 1..Len(old) : a # b => old[a].key # old[b].key
  BY <1>0, <1>2 DEF FileInv, LinesInv
<1>4. \A a \in 1..Len(old) : IsBest(old[a].res, hist[old[a].key], totinlen)
  BY <1>0, <1>2 DEF FileInv, LinesInv
<1>5. ASSUME NEW n \in 1..Len(new) PROVE IsBest(Merged(new[n]), hist'[new[n].key], totinlen)
  <2> DEFINE k == new[n].key
             p == new[n].res
             f == Full(p)
  <2>1. k \in Key /\ p \in Result /\ Kept(k) \in SUBSET Counted
    BY <1>0, StoreTypes DEF Kept
  <2>2. /\ f \in Counted /\ f.size = totinlen /\ f.len = p.len /\ f.tc = p.tc /\ f.td = p.td
        /\ f.mem = p.mem
    BY <1>1, <2>1 DEF Full, Counted, Result
  <2>3. hist'[k] = {f} \cup {q \in Kept(k) : q.len = f.len}
    BY <2>1, <2>2, TruncateCounts
  <2> HIDE DEF f
  <2>4. CASE \E m \in 1..Len(old) : old[m].key = k
    <3>1. PICK m \in 1..Len(old) : old[m].key = k
      BY <2>4
    <3>2. Merged(new[n]) = Merge(p, old[m].res)
      BY <1>2, <1>3, <3>1, MergedWith
    <3>3. old[m].res \in Result /\ IsBest(old[m].res, Kept(k), totinlen)
      BY <1>0, <1>2, <1>4, <3>1, StoreTypes DEF Kept
    <3> HIDE DEF k, p
    <3>4. IsBest(Merge(p, old[m].res), {f} \cup {q \in Kept(k) : q.len = f.len}, totinlen)
      BY <2>1, <2>2, <3>3, BestMerge
    <3> QED
      BY <2>3, <3>2, <3>4 DEF k
  <2>5. CASE \A m \in 1..Len(old) : old[m].key # k
    <3>1. Merged(new[n]) = p
      BY <2>5, MergedAlone
    <3>2. Kept(k) = {}
      <4>1. CASE FileSize # totinlen
        BY <4>1 DEF Kept
      <4>2. CASE FileSize = totinlen
        <5>1. \A a \in 1..Len(tbb) : a \in 1..Len(old) /\ old[a].key = tbb[a].key
          BY <1>0, <1>2, <4>2 DEF ReadInv
        <5> QED
          BY <1>0, <2>1, <2>5, <5>1 DEF Kept, FileInv, HasLine
      <4> QED
        BY <4>1, <4>2
    <3>3. p.tc \in Nat /\ p.td \in Nat /\ p.mem \in Nat
      BY <2>1, ValueAssumption DEF Result
    <3>4. hist'[k] = {f}
      BY <2>3, <3>2
    <3> HIDE DEF p, k
    <3>5. IsBest(p, {f}, totinlen)
      BY <2>2, <3>3 DEF IsBest
    <3> QED
      BY <3>1, <3>4, <3>5 DEF k
  <2> QED
    BY <2>4, <2>5
<1>6. ASSUME NEW m \in 1..Len(old), \A n \in 1..Len(new) : new[n].key # old[m].key
      PROVE  IsBest(old[m].res, hist'[old[m].key], totinlen)
  <2>1. old[m].key \in Key
    BY <1>0, StoreTypes
  <2>2. hist'[old[m].key] = hist[old[m].key]
    BY <1>2, <1>6, <2>1, TruncateCounts DEF Kept
  <2> QED
    BY <1>4, <2>2
<1>7. ASSUME NEW k \in Key, hist'[k] # {}
      PROVE  (\E n \in 1..Len(new) : new[n].key = k) \/ (\E m \in 1..Len(old) : old[m].live /\ old[m].key = k)
  <2> SUFFICES ASSUME \A n \in 1..Len(new) : new[n].key # k
               PROVE  \E m \in 1..Len(old) : old[m].live /\ old[m].key = k
    OBVIOUS
  <2>1. hist'[k] = Kept(k)
    BY TruncateCounts
  <2>2. FileSize = totinlen /\ hist[k] # {}
    BY <1>7, <2>1 DEF Kept
  <2>3. PICK a \in 1..Len(tbb) : tbb[a].key = k
    BY <1>0, <2>2 DEF FileInv, HasLine
  <2>4. a \in 1..Len(old)
    BY <1>0, <2>2, <2>3 DEF ReadInv
  <2> QED
    BY <1>2, <2>3, <2>4
<1>8. Len(new) \in Nat /\ Len(old) \in Nat
  BY <1>0, StoreTypes
<1>9. \A n \in 1..Len(new) : Merged(new[n])' = Merged(new[n])
  BY <1>1 DEF Merged, Match
<1> QED
  BY <1>1, <1>3, <1>5, <1>6, <1>7, <1>8, <1>9 DEF WriteInv, LinesInv, HasLine

LEMMA StoreWriteNew == ASSUME StoreInv, kills = 0, WriteNew PROVE WriteInv'
<1>0. TypeInv /\ pc = "write" /\ WriteInv /\ NewInv /\ i <= Len(new)
  BY DEF StoreInv, WriteNew
<1> DEFINE x == Line(new[i].key, totinlen, Merged(new[i]))
           K == new[i].key
<1>1. /\ i \in 1..Len(new) /\ new[i] \in [key : Known, res : Result] /\ x \in LineSet
      /\ Legible(x) /\ x.key = K /\ x.size = totinlen /\ x.res = Merged(new[i])
  BY <1>0, NewLine DEF Line, Legible
<1>2. /\ tbb \in Seq(LineSet) /\ Len(tbb) \in Nat /\ Len(new) \in Nat /\ Len(old) \in Nat
      /\ old \in Seq(Records) /\ i \in Nat \ {0} /\ j \in Nat \ {0}
  BY <1>0, StoreTypes
<1>3. j = 1
  BY <1>0, <1>2 DEF WriteInv
<1>4. /\ tbb' = Append(tbb, x) /\ i' = i + 1 /\ j' = j /\ new' = new /\ totinlen' = totinlen
      /\ hist' = hist
  BY DEF WriteNew
<1> HIDE DEF x
<1>5. /\ Len(tbb') = Len(tbb) + 1 /\ tbb'[Len(tbb) + 1] = x
      /\ \A a \in 1..Len(tbb) : tbb'[a] = tbb[a]
  BY <1>1, <1>2, <1>4, Appended
<1>6. /\ Len(old') = Len(old)
      /\ \A m \in 1..Len(old) : /\ old'[m].key = old[m].key /\ old'[m].res = old[m].res
                                /\ old'[m].live <=> old[m].live /\ old[m].key # K
  <2>1. DOMAIN old = 1..Len(old)
    BY <1>2
  <2>2. old' = [n \in 1..Len(old) |-> IF n \in Match(K) THEN [old[n] EXCEPT !.live = FALSE] ELSE old[n]]
    BY <2>1 DEF WriteNew
  <2>3. Len(old') = Len(old)
    BY <1>2, <2>2
  <2>4. ASSUME NEW m \in 1..Len(old)
        PROVE  /\ old'[m].key = old[m].key /\ old'[m].res = old[m].res
               /\ old'[m].live <=> old[m].live /\ old[m].key # K
    <3>1. old[m] \in Records
      BY <1>2, Element
    <3>2. old[m].live /\ old[m].key = K => m \in Match(K)
      BY <1>0, OnlyMatch DEF WriteInv
    <3>3. m \in Match(K) => old[m].live /\ old[m].key = K
      BY DEF Match
    <3>4. old'[m] = IF m \in Match(K) THEN [old[m] EXCEPT !.live = FALSE] ELSE old[m]
      BY <2>2
    <3> HIDE DEF K
    <3> QED
      BY <3>1, <3>2, <3>3, <3>4 DEF Records
  <2> QED
    BY <2>3, <2>4
<1>7. \A a \in 1..Len(tbb) : tbb[a].key # K
  <2>1. \A a \in 1..Len(tbb) : \E n \in 1..(i - 1) : tbb[a].key = new[n].key
    BY <1>0, <1>3 DEF WriteInv
  <2>2. \A n \in 1..(i - 1) : n \in 1..Len(new) /\ n # i
    BY <1>1, <1>2
  <2> QED
    BY <1>0, <1>1, <2>1, <2>2 DEF NewInv
<1>8. LinesInv(totinlen)'
  <2>1. \A a \in 1..Len(tbb) : /\ Legible(tbb[a]) /\ tbb[a].size = totinlen
                               /\ IsBest(tbb[a].res, hist[tbb[a].key], totinlen)
    BY <1>0 DEF WriteInv, LinesInv
  <2>2. IsBest(x.res, hist[x.key], totinlen)
    <3>1. i \in i..Len(new)
      BY <1>1, <1>2
    <3> QED
      BY <1>0, <1>1, <3>1 DEF WriteInv
  <2>3. ASSUME NEW a \in 1..Len(tbb')
        PROVE  Legible(tbb'[a]) /\ tbb'[a].size = totinlen /\ IsBest(tbb'[a].res, hist[tbb'[a].key], totinlen)
    <3>1. a \in 1..Len(tbb) \/ a = Len(tbb) + 1
      BY <1>2, <1>5
    <3> QED
      BY <1>1, <1>5, <2>1, <2>2, <3>1
  <2>4. ASSUME NEW a \in 1..Len(tbb'), NEW b \in 1..Len(tbb'), a # b PROVE tbb'[a].key # tbb'[b].key
    <3>1. (a \in 1..Len(tbb) \/ a = Len(tbb) + 1) /\ (b \in 1..Len(tbb) \/ b = Len(tbb) + 1)
      BY <1>2, <1>5
    <3>2. \A c, d \in 1..Len(tbb) : c # d => tbb[c].key # tbb[d].key
      BY <1>0 DEF WriteInv, LinesInv
    <3> HIDE DEF K
    <3> QED
      BY <1>1, <1>5, <1>7, <2>4, <3>1, <3>2
  <2> QED
    BY <1>4, <2>3, <2>4 DEF LinesInv, Legible
<1>9. ASSUME NEW n \in (i + 1)..Len(new)
      PROVE  IsBest(Merged(new[n])', hist[new[n].key], totinlen)
  <2>1. n \in 1..Len(new) /\ n \in i..Len(new) /\ new[n].key # K
    BY <1>0, <1>1, <1>2 DEF NewInv
  <2>2. \A m \in 1..Len(old) : old[m].key = new[n].key => (old'[m].live <=> old[m].live)
    BY <1>6, <2>1
  <2> DEFINE k == new[n].key
             Hit(o) == {m \in 1..Len(o) : /\ o[m].live /\ o[m].key = k
                                          /\ \A q \in 1..(m - 1) : ~(o[q].live /\ o[q].key = k)}
  <2> HIDE DEF K
  <2>3. Hit(old') = Hit(old)
    <3>1. \A m \in 1..Len(old) : (old'[m].live /\ old'[m].key = k) <=> (old[m].live /\ old[m].key = k)
      BY <1>6, <2>2
    <3>2. \A m \in 1..Len(old) : \A q \in 1..(m - 1) : q \in 1..Len(old)
      BY <1>2
    <3> HIDE DEF k
    <3> QED
      BY <1>6, <3>1, <3>2
  <2>4. Merged(new[n])' = IF Hit(old') = {} THEN new[n].res
                          ELSE Merge(new[n].res, old'[CHOOSE m \in Hit(old') : TRUE].res)
    BY <1>4 DEF Merged, Match, Merge
  <2>5. Merged(new[n]) = IF Hit(old) = {} THEN new[n].res
                         ELSE Merge(new[n].res, old[CHOOSE m \in Hit(old) : TRUE].res)
    BY DEF Merged, Match
  <2>6. Merged(new[n])' = Merged(new[n])
    <3>1. CASE Hit(old) = {}
      BY <2>3, <2>4, <2>5, <3>1
    <3>2. CASE Hit(old) # {}
      <4> DEFINE m == CHOOSE q \in Hit(old) : TRUE
      <4>1. m \in Hit(old)
        BY <3>2
      <4>2. m \in 1..Len(old)
        BY <4>1
      <4> HIDE DEF m
      <4>3. old'[m].res = old[m].res
        BY <1>6, <4>2
      <4> HIDE DEF Hit
      <4> QED
        BY <2>3, <2>4, <2>5, <3>2, <4>3 DEF m
    <3> QED
      BY <3>1, <3>2
  <2>7. IsBest(Merged(new[n]), hist[new[n].key], totinlen)
    BY <1>0, <2>1 DEF WriteInv
  <2> QED
    BY <2>6, <2>7
<1>10. ASSUME NEW m \in 1..Len(old), old'[m].live, \A n \in (i + 1)..Len(new) : new[n].key # old[m].key
       PROVE  IsBest(old[m].res, hist[old[m].key], totinlen)
  <2>1. old[m].live /\ old[m].key # new[i].key
    BY <1>6, <1>10
  <2>2. \A n \in i..Len(new) : n = i \/ n \in (i + 1)..Len(new)
    BY <1>1, <1>2
  <2>3. \A n \in i..Len(new) : new[n].key # old[m].key
    BY <1>10, <2>1, <2>2
  <2> QED
    BY <1>0, <2>1, <2>3 DEF WriteInv
<1>11. ASSUME NEW m \in 1..Len(old), NEW n \in 1..i, old'[m].live PROVE old[m].key # new[n].key
  <2>1. n = i \/ n \in 1..(i - 1)
    BY <1>1, <1>2
  <2> QED
    BY <1>0, <1>6, <1>11, <2>1 DEF WriteInv
<1>12. ASSUME NEW a \in 1..Len(tbb') PROVE \E n \in 1..i : tbb'[a].key = new[n].key
  <2>1. a \in 1..Len(tbb) \/ a = Len(tbb) + 1
    BY <1>2, <1>5
  <2>2. CASE a \in 1..Len(tbb)
    <3>1. PICK n \in 1..(i - 1) : tbb[a].key = new[n].key
      BY <1>0, <1>3, <2>2 DEF WriteInv
    <3>2. n \in 1..i /\ tbb'[a] = tbb[a]
      BY <1>2, <1>5, <2>2
    <3> QED
      BY <3>1, <3>2
  <2>3. CASE a = Len(tbb) + 1
    BY <1>1, <1>2, <1>5, <2>3
  <2> QED
    BY <2>1, <2>2, <2>3
<1>13. ASSUME NEW k \in Key, hist[k] # {}
       PROVE  \/ \E a \in 1..Len(tbb') : tbb'[a].key = k
              \/ \E n \in (i + 1)..Len(new) : new[n].key = k
              \/ \E m \in 1..Len(old) : old'[m].live /\ old[m].key = k
  <2>1. CASE k = K
    <3>1. Len(tbb) + 1 \in 1..Len(tbb') /\ tbb'[Len(tbb) + 1].key = k
      BY <1>1, <1>2, <1>5, <2>1
    <3> QED
      BY <3>1
  <2>2. CASE k # K
    <3>1. \/ \E a \in 1..Len(tbb) : tbb[a].key = k
          \/ \E n \in i..Len(new) : new[n].key = k
          \/ \E m \in 1..Len(old) : old[m].live /\ old[m].key = k
      BY <1>0, <1>3, <1>13 DEF WriteInv, HasLine
    <3>2. (\E a \in 1..Len(tbb) : tbb[a].key = k) => \E a \in 1..Len(tbb') : tbb'[a].key = k
      BY <1>2, <1>5
    <3>3. \A n \in i..Len(new) : new[n].key = k => n \in (i + 1)..Len(new)
      BY <1>1, <1>2, <2>2
    <3> HIDE DEF K
    <3> QED
      BY <1>6, <2>2, <3>1, <3>2, <3>3
  <2> QED
    BY <2>1, <2>2
<1>14. \A a, b \in 1..Len(old) : a # b => old'[a].key # old'[b].key
  BY <1>0, <1>6 DEF WriteInv
<1>15. i' - 1 = i /\ i' <= Len(new') + 1 /\ j' <= Len(old') + 1 /\ j' = 1
  BY <1>1, <1>2, <1>3, <1>4, <1>6
<1> HIDE DEF K
<1>16. \A n \in i'..Len(new') : IsBest(Merged(new[n])', hist'[new'[n].key], totinlen')
  BY <1>4, <1>9
<1>17. \A m \in 1..Len(old') :
         old'[m].live /\ (\A n \in i'..Len(new') : new'[n].key # old'[m].key)
           => IsBest(old'[m].res, hist'[old'[m].key], totinlen')
  BY <1>4, <1>6, <1>10
<1>18. \A m \in 1..Len(old'), n \in 1..(i' - 1) : old'[m].live => old'[m].key # new'[n].key
  BY <1>4, <1>6, <1>11, <1>15
<1>19. \A a \in 1..Len(tbb') : \E n \in 1..(i' - 1) : tbb'[a].key = new'[n].key
  BY <1>4, <1>12, <1>15
<1>20. ASSUME NEW k \in Key, hist'[k] # {}
       PROVE  \/ HasLine(k)'
              \/ \E n \in i'..Len(new') : new'[n].key = k
              \/ \E m \in j'..Len(old') : old'[m].live /\ old'[m].key = k
  <2>1. CASE \E m \in 1..Len(old) : old'[m].live /\ old[m].key = k
    BY <1>6, <1>15, <2>1
  <2>2. CASE \E n \in (i + 1)..Len(new) : new[n].key = k
    BY <1>4, <2>2
  <2>3. CASE \E a \in 1..Len(tbb') : tbb'[a].key = k
    BY <2>3 DEF HasLine
  <2> QED
    BY <1>4, <1>13, <1>20, <2>1, <2>2, <2>3
<1>21. \A a, b \in 1..Len(old') : a # b => old'[a].key # old'[b].key
  BY <1>6, <1>14
<1> QED
  BY <1>15, <1>16, <1>17, <1>18, <1>19, <1>20, <1>21, <1>8 DEF WriteInv

LEMMA StoreWriteOld == ASSUME StoreInv, kills = 0, WriteOld PROVE WriteInv'
<1>0. TypeInv /\ pc = "write" /\ WriteInv /\ i > Len(new) /\ j <= Len(old)
  BY DEF StoreInv, WriteOld
<1> DEFINE x == Line(old[j].key, totinlen, old[j].res)
<1>1. /\ j \in 1..Len(old) /\ old[j] \in Records /\ x \in LineSet
      /\ Legible(x) /\ x.key = old[j].key /\ x.size = totinlen /\ x.res = old[j].res
  BY <1>0, OldLine DEF Line, Legible, Records
<1>2. /\ tbb \in Seq(LineSet) /\ Len(tbb) \in Nat /\ Len(new) \in Nat /\ Len(old) \in Nat
      /\ i \in Nat \ {0} /\ j \in Nat \ {0}
  BY <1>0, StoreTypes
<1>3. /\ tbb' = (IF old[j].live THEN Append(tbb, x) ELSE tbb)
      /\ j' = j + 1 /\ i' = i /\ new' = new /\ old' = old /\ totinlen' = totinlen /\ hist' = hist
  BY DEF WriteOld
<1> HIDE DEF x
<1>4. i..Len(new) = {} /\ i - 1 = Len(new)
  BY <1>0, <1>2 DEF WriteInv
<1>5. \A n \in i..Len(new) : IsBest(Merged(new[n])', hist'[new[n].key], totinlen)
  BY <1>4
<1>6. \A m \in 1..Len(old) : old[m].live => IsBest(old[m].res, hist[old[m].key], totinlen)
  BY <1>0, <1>4 DEF WriteInv
<1>9. ASSUME LinesInv(totinlen)', j' <= Len(old) + 1,
             \A a \in 1..Len(tbb') : \/ \E n \in 1..(i - 1) : tbb'[a].key = new[n].key
                                    \/ \E m \in 1..(j' - 1) : old[m].live /\ tbb'[a].key = old[m].key,
             \A k \in Key : hist[k] # {} => \/ HasLine(k)'
                                            \/ \E m \in j'..Len(old) : old[m].live /\ old[m].key = k
      PROVE  WriteInv'
  <2>1. \A m \in 1..Len(old), n \in 1..(i - 1) : old[m].live => old[m].key # new[n].key
    BY <1>0 DEF WriteInv
  <2>2. \A a, b \in 1..Len(old) : a # b => old[a].key # old[b].key
    BY <1>0 DEF WriteInv
  <2>3. i <= Len(new) + 1
    BY <1>0 DEF WriteInv
  <2>4. \A n \in i'..Len(new') : IsBest(Merged(new[n])', hist'[new'[n].key], totinlen')
    BY <1>3, <1>4
  <2>5. \A m \in 1..Len(old') :
         old'[m].live /\ (\A n \in i'..Len(new') : new'[n].key # old'[m].key)
           => IsBest(old'[m].res, hist'[old'[m].key], totinlen')
    BY <1>3, <1>6
  <2>6. \A k \in Key : hist'[k] # {} => \/ HasLine(k)'
                                        \/ \E n \in i'..Len(new') : new'[n].key = k
                                        \/ \E m \in j'..Len(old') : old'[m].live /\ old'[m].key = k
    BY <1>3, <1>9
  <2>7. \A a \in 1..Len(tbb') : \/ \E n \in 1..(i' - 1) : tbb'[a].key = new'[n].key
                                \/ \E m \in 1..(j' - 1) : old'[m].live /\ tbb'[a].key = old'[m].key
    BY <1>3, <1>9
  <2>8. i' <= Len(new') + 1 /\ j' <= Len(old') + 1 /\ i' > Len(new')
    BY <1>0, <1>3, <1>9, <2>3
  <2>9. /\ \A a, b \in 1..Len(old') : a # b => old'[a].key # old'[b].key
        /\ \A m \in 1..Len(old'), n \in 1..(i' - 1) : old'[m].live => old'[m].key # new'[n].key
    BY <1>3, <2>1, <2>2
  <2> QED
    BY <1>9, <2>4, <2>5, <2>6, <2>7, <2>8, <2>9 DEF WriteInv
<1>7. CASE ~old[j].live
  <2>1. \A m \in j..Len(old) : m = j \/ m \in (j + 1)..Len(old)
    BY <1>2
  <2>2. ASSUME NEW k \in Key, hist[k] # {}
        PROVE  HasLine(k) \/ \E m \in (j + 1)..Len(old) : old[m].live /\ old[m].key = k
    BY <1>0, <1>4, <1>7, <2>1, <2>2 DEF WriteInv
  <2>3. \A m \in 1..(j - 1) : m \in 1..((j + 1) - 1)
    BY <1>2
  <2>4. ASSUME NEW a \in 1..Len(tbb)
        PROVE  \/ \E n \in 1..(i - 1) : tbb[a].key = new[n].key
               \/ \E m \in 1..((j + 1) - 1) : old[m].live /\ tbb[a].key = old[m].key
    BY <1>0, <2>3 DEF WriteInv
  <2>5. tbb' = tbb /\ j + 1 <= Len(old) + 1
    BY <1>0, <1>2, <1>3, <1>7
  <2>6. LinesInv(totinlen)' /\ \A k \in Key : HasLine(k)' <=> HasLine(k)
    BY <1>0, <1>3, <2>5 DEF WriteInv, LinesInv, HasLine, Legible
  <2> QED
    BY <1>9, <2>2, <2>4, <2>5, <2>6, <1>3
<1>8. CASE old[j].live
  <2>1. /\ tbb' = Append(tbb, x) /\ Len(tbb') = Len(tbb) + 1 /\ tbb'[Len(tbb) + 1] = x
        /\ \A a \in 1..Len(tbb) : tbb'[a] = tbb[a]
    BY <1>1, <1>2, <1>3, <1>8, Appended
  <2>2. ASSUME NEW a \in 1..Len(tbb) PROVE tbb[a].key # old[j].key
    <3>1. CASE \E n \in 1..(i - 1) : tbb[a].key = new[n].key
      BY <1>0, <1>1, <1>8, <3>1 DEF WriteInv
    <3>2. CASE \E m \in 1..(j - 1) : old[m].live /\ tbb[a].key = old[m].key
      <4>1. \A m \in 1..(j - 1) : m \in 1..Len(old) /\ m # j
        BY <1>1, <1>2
      <4> QED
        BY <1>0, <1>1, <3>2, <4>1 DEF WriteInv
    <3> QED
      BY <1>0, <3>1, <3>2 DEF WriteInv
  <2>3. LinesInv(totinlen)'
    <3>1. \A a \in 1..Len(tbb) : /\ Legible(tbb[a]) /\ tbb[a].size = totinlen
                                 /\ IsBest(tbb[a].res, hist[tbb[a].key], totinlen)
      BY <1>0 DEF WriteInv, LinesInv
    <3>2. IsBest(x.res, hist[x.key], totinlen)
      BY <1>1, <1>6, <1>8
    <3>3. ASSUME NEW a \in 1..Len(tbb')
          PROVE  Legible(tbb'[a]) /\ tbb'[a].size = totinlen /\ IsBest(tbb'[a].res, hist[tbb'[a].key], totinlen)
      <4>1. a \in 1..Len(tbb) \/ a = Len(tbb) + 1
        BY <1>2, <2>1
      <4> QED
        BY <1>1, <2>1, <3>1, <3>2, <4>1
    <3>4. ASSUME NEW a \in 1..Len(tbb'), NEW b \in 1..Len(tbb'), a # b PROVE tbb'[a].key # tbb'[b].key
      <4>1. (a \in 1..Len(tbb) \/ a = Len(tbb) + 1) /\ (b \in 1..Len(tbb) \/ b = Len(tbb) + 1)
        BY <1>2, <2>1
      <4>2. \A c, d \in 1..Len(tbb) : c # d => tbb[c].key # tbb[d].key
        BY <1>0 DEF WriteInv, LinesInv
      <4> QED
        BY <1>1, <2>1, <2>2, <3>4, <4>1, <4>2
    <3> QED
      BY <1>3, <3>3, <3>4 DEF LinesInv, Legible
  <2>4. ASSUME NEW a \in 1..Len(tbb')
        PROVE  \/ \E n \in 1..(i - 1) : tbb'[a].key = new[n].key
               \/ \E m \in 1..((j + 1) - 1) : old[m].live /\ tbb'[a].key = old[m].key
    <3>1. a \in 1..Len(tbb) \/ a = Len(tbb) + 1
      BY <1>2, <2>1
    <3>2. CASE a \in 1..Len(tbb)
      <4>1. \A m \in 1..(j - 1) : m \in 1..((j + 1) - 1)
        BY <1>2
      <4> QED
        BY <1>0, <2>1, <3>2, <4>1 DEF WriteInv
    <3>3. CASE a = Len(tbb) + 1
      <4>1. j \in 1..((j + 1) - 1)
        BY <1>2
      <4> QED
        BY <1>1, <1>8, <2>1, <3>3, <4>1
    <3> QED
      BY <3>1, <3>2, <3>3
  <2>5. ASSUME NEW k \in Key, hist[k] # {}
        PROVE  \/ \E a \in 1..Len(tbb') : tbb'[a].key = k
               \/ \E m \in (j + 1)..Len(old) : old[m].live /\ old[m].key = k
    <3>1. CASE k = old[j].key
      <4>1. Len(tbb) + 1 \in 1..Len(tbb')
        BY <1>2, <2>1
      <4> QED
        BY <1>1, <2>1, <3>1, <4>1
    <3>2. CASE k # old[j].key
      <4>1. \/ \E a \in 1..Len(tbb) : tbb[a].key = k
            \/ \E m \in j..Len(old) : old[m].live /\ old[m].key = k
        BY <1>0, <1>4, <2>5 DEF WriteInv, HasLine
      <4>2. (\E a \in 1..Len(tbb) : tbb[a].key = k) => \E a \in 1..Len(tbb') : tbb'[a].key = k
        BY <1>2, <2>1
      <4>3. \A m \in j..Len(old) : m = j \/ m \in (j + 1)..Len(old)
        BY <1>2
      <4> QED
        BY <3>2, <4>1, <4>2, <4>3
    <3> QED
      BY <3>1, <3>2
  <2>6. j + 1 <= Len(old) + 1
    BY <1>0, <1>2
  <2>7. \A k \in Key : HasLine(k)' <=> \E a \in 1..Len(tbb') : tbb'[a].key = k
    BY DEF HasLine
  <2> QED
    BY <1>9, <1>3, <2>3, <2>4, <2>5, <2>6, <2>7
<1> QED
  BY <1>7, <1>8

LEMMA StoreClose == ASSUME StoreInv, kills = 0, Close PROVE FileInv'
<1>0. TypeInv /\ pc = "write" /\ WriteInv /\ i > Len(new) /\ j > Len(old)
  BY DEF StoreInv, Close
<1>1. tbb' = tbb /\ hist' = hist
  BY DEF Close
<1>2. /\ Len(tbb) \in Nat /\ tbb \in Seq(LineSet) /\ i \in Nat /\ j \in Nat
      /\ Len(new) \in Nat /\ Len(old) \in Nat
  BY <1>0, StoreTypes
<1>3. tbb # <<>> => FileSize = totinlen
  <2>1. tbb # <<>> => Len(tbb) \in 1..Len(tbb)
    BY <1>2
  <2> QED
    BY <1>0, <2>1 DEF FileSize, WriteInv, LinesInv
<1>4. LinesInv(FileSize)
  <2>1. CASE tbb = <<>>
    <3>1. 1..Len(tbb) = {}
      BY <2>1
    <3> QED
      BY <3>1 DEF LinesInv
  <2>2. CASE tbb # <<>>
    BY <1>0, <1>3, <2>2 DEF WriteInv
  <2> QED
    BY <2>1, <2>2
<1>5. i..Len(new) = {} /\ j..Len(old) = {}
  BY <1>0, <1>2
<1>6. \A k \in Key : hist[k] # {} => HasLine(k)
  BY <1>0, <1>5 DEF WriteInv
<1> QED
  BY <1>1, <1>4, <1>6 DEF FileInv, LinesInv, HasLine, FileSize, Legible

\* What was read is the file: each of its lines can be read.
LEMMA StoreRead == ASSUME StoreInv, kills = 0, Read PROVE ReadInv'
<1>0. TypeInv /\ FileInv
  BY DEF StoreInv, Read
<1>1. old' = (IF FileSize = totinlen THEN plugread(tbb) ELSE <<>>) /\ tbb' = tbb /\ totinlen' = totinlen
  BY DEF Read
<1>2. CASE FileSize # totinlen
  BY <1>1, <1>2 DEF ReadInv, FileSize
<1>3. CASE FileSize = totinlen
  <2>1. tbb \in Seq(LineSet) /\ \A n \in 1..Len(tbb) : Legible(tbb[n])
    BY <1>0, StoreTypes DEF FileInv, LinesInv
  <2>2. /\ Len(plugread(tbb)) = Len(tbb)
        /\ \A n \in 1..Len(tbb) : plugread(tbb)[n] = Record(tbb[n])
    BY <2>1, ReadAll
  <2>3. old' = plugread(tbb)
    BY <1>1, <1>3
  <2> QED
    BY <1>1, <1>3, <2>2, <2>3 DEF ReadInv, FileSize, Record
<1> QED
  BY <1>2, <1>3

LEMMA StoreInit == Init => StoreInv
<1> SUFFICES ASSUME Init PROVE StoreInv
  OBVIOUS
<1>1. new = <<>> /\ tbb = <<>> /\ pc = "idle" /\ \A k \in Key : hist[k] = {}
  BY DEF Init, NoLines
<1>2. 1..Len(new) = {} /\ 1..Len(tbb) = {}
  BY <1>1
<1> QED
  BY <1>1, <1>2, TypeInit DEF StoreInv, NewInv, FileInv, LinesInv, HasLine

\* The results of a run: at least one, each of another codec.
LEMMA NewNext == TypeInv /\ NewInv /\ [Next]_vars => NewInv'
<1> SUFFICES ASSUME TypeInv, NewInv, [Next]_vars PROVE NewInv'
  OBVIOUS
<1>1. CASE Bench
  <2>1. PICK s \in Orders : \E res \in [DOMAIN s -> Measured] :
          new' = [n \in DOMAIN s |-> [key |-> s[n], res |-> res[n]]]
    BY <1>1 DEF Bench
  <2>2. PICK res \in [DOMAIN s -> Measured] :
          new' = [n \in DOMAIN s |-> [key |-> s[n], res |-> res[n]]]
    BY <2>1
  <2>3. PICK n \in 1..Better(Cardinality(Known), PLUGN) : s \in [1..n -> Known]
    BY DEF Orders
  <2>4. n \in Nat /\ n >= 1
    BY FS_CardinalityType, KeyAssumption, BoundAssumption DEF Better
  <2>5. new' = [a \in 1..n |-> [key |-> s[a], res |-> res[a]]]
    BY <2>2, <2>3
  <2>6. Len(new') = n /\ \A a \in 1..n : new'[a].key = s[a]
    BY <2>4, <2>5
  <2>7. \A a, b \in 1..n : a # b => s[a] # s[b]
    BY <2>3 DEF Orders
  <2> QED
    BY <2>4, <2>6, <2>7 DEF NewInv
<1>2. CASE NoFile \/ OpenFails \/ Close \/ Kill
  <2>1. new' = <<>> /\ pc' = "idle"
    BY <1>2 DEF NoFile, OpenFails, Close, Kill, Exit
  <2>2. 1..Len(new') = {}
    BY <2>1
  <2> QED
    BY <2>1, <2>2 DEF NewInv
<1>3. CASE Read \/ Truncate \/ WriteNew \/ WriteOld \/ UNCHANGED vars
  <2>1. new' = new /\ (pc' # "idle" => pc # "idle")
    BY <1>3 DEF Read, Truncate, WriteNew, WriteOld, vars
  <2> QED
    BY <2>1 DEF NewInv
<1> QED
  BY <1>1, <1>2, <1>3 DEF Next

LEMMA StoreNext == StoreInv /\ [Next]_vars => StoreInv'
<1> SUFFICES ASSUME StoreInv, [Next]_vars PROVE StoreInv'
  OBVIOUS
<1>1. TypeInv' /\ NewInv'
  BY TypeNext, NewNext DEF StoreInv
<1>2. kills \in Nat
  BY DEF StoreInv, TypeInv, TypeOK
<1> SUFFICES ASSUME kills' = 0
             PROVE  /\ pc' # "write" => FileInv'
                    /\ pc' = "read" => ReadInv'
                    /\ pc' = "write" => WriteInv'
  BY <1>1 DEF StoreInv
<1>3. kills = 0
  BY <1>2 DEF Next, Bench, NoFile, Read, OpenFails, Truncate, WriteNew, WriteOld, Close, Kill, vars
<1>4. ASSUME tbb' = tbb, hist' = hist, pc # "write" PROVE FileInv'
  BY <1>3, <1>4 DEF StoreInv, FileInv, LinesInv, HasLine, FileSize, Legible
<1>5. CASE Bench
  BY <1>4, <1>5 DEF Bench
<1>6. CASE NoFile
  BY <1>4, <1>6 DEF NoFile, Exit
<1>7. CASE Read
  BY <1>3, <1>4, <1>7, StoreRead DEF Read
<1>8. CASE OpenFails
  BY <1>4, <1>8 DEF OpenFails, Exit
<1>9. CASE Truncate
  BY <1>3, <1>9, StoreTruncate DEF Truncate
<1>10. CASE WriteNew
  BY <1>3, <1>10, StoreWriteNew DEF WriteNew
<1>11. CASE WriteOld
  BY <1>3, <1>11, StoreWriteOld DEF WriteOld
<1>12. CASE Close
  BY <1>3, <1>12, StoreClose DEF Close, Exit
<1>13. CASE Kill
  BY <1>2, <1>13 DEF Kill
<1>14. CASE UNCHANGED vars
  <2>1. /\ pc' = pc /\ tbb' = tbb /\ new' = new /\ totinlen' = totinlen /\ old' = old
        /\ i' = i /\ j' = j /\ hist' = hist
    BY <1>14 DEF vars
  <2>2. FileInv' <=> FileInv
    BY <2>1 DEF FileInv, LinesInv, HasLine, FileSize, Legible
  <2>3. ReadInv' <=> ReadInv
    BY <2>1 DEF ReadInv, FileSize, Record
  <2>4. \A p : Merged(p)' = Merged(p)
    BY <2>1 DEF Merged, Match
  <2>5. \A k : HasLine(k)' <=> HasLine(k)
    BY <2>1 DEF HasLine
  <2>6. LinesInv(totinlen)' <=> LinesInv(totinlen)
    BY <2>1 DEF LinesInv, Legible
  <2>7. ASSUME WriteInv PROVE WriteInv'
    <3>1. /\ LinesInv(totinlen)' /\ i <= Len(new) + 1 /\ j <= Len(old) + 1
          /\ j > 1 => i > Len(new)
      BY <2>6, <2>7 DEF WriteInv
    <3>2. \A n \in i..Len(new) : IsBest(Merged(new[n])', hist[new[n].key], totinlen)
      BY <2>1, <2>4, <2>7 DEF WriteInv
    <3>3. ASSUME NEW k \in Key, hist[k] # {}
          PROVE  \/ HasLine(k)' \/ \E n \in i..Len(new) : new[n].key = k
                 \/ \E m \in j..Len(old) : old[m].live /\ old[m].key = k
      <4>1. HasLine(k)' <=> HasLine(k)
        BY <2>5
      <4> QED
        BY <2>7, <3>3, <4>1 DEF WriteInv
    <3>4. /\ \A a, b \in 1..Len(old) : a # b => old[a].key # old[b].key
          /\ \A m \in 1..Len(old), n \in 1..(i - 1) : old[m].live => old[m].key # new[n].key
      BY <2>7 DEF WriteInv
    <3>5. \A a \in 1..Len(tbb) : \/ \E n \in 1..(i - 1) : tbb[a].key = new[n].key
                                \/ \E m \in 1..(j - 1) : old[m].live /\ tbb[a].key = old[m].key
      BY <2>7 DEF WriteInv
    <3>6. \A m \in 1..Len(old) :
            old[m].live /\ (\A n \in i..Len(new) : new[n].key # old[m].key)
              => IsBest(old[m].res, hist[old[m].key], totinlen)
      BY <2>7 DEF WriteInv
    <3> QED
      BY <2>1, <3>1, <3>2, <3>3, <3>4, <3>5, <3>6 DEF WriteInv
  <2> QED
    BY <1>3, <2>1, <2>2, <2>3, <2>7 DEF StoreInv
<1> QED
  BY <1>5, <1>6, <1>7, <1>8, <1>9, <1>10, <1>11, <1>12, <1>13, <1>14 DEF Next

\* No codec has two lines before the first kill, while the file is written or after.
THEOREM OneLinePerKeyCorrect == Spec => []OneLinePerKey
<1>1. StoreInv => OneLinePerKey
  BY DEF StoreInv, OneLinePerKey, FileInv, WriteInv, LinesInv
<1> QED
  BY <1>1, StoreInit, StoreNext, PTL DEF Spec

-----------------------------------------------------------------------------
(* The file implements BestResults.                                        *)

LEMMA LeastIs ==
  ASSUME NEW S \in SUBSET Nat, NEW m \in S, \A x \in S : m <= x
  PROVE  Best!SetMin(S) = m
<1> DEFINE c == CHOOSE x \in S : \A y \in S : x <= y
<1>1. c \in S /\ \A y \in S : c <= y
  OBVIOUS
<1> HIDE DEF c
<1>2. c = m
  BY <1>1
<1> QED
  BY <1>2 DEF c, Best!SetMin

LEMMA LargestIs ==
  ASSUME NEW S \in SUBSET Nat, NEW m \in S, \A x \in S : m >= x
  PROVE  Best!SetMax(S) = m
<1> DEFINE c == CHOOSE x \in S : \A y \in S : x >= y
<1>1. c \in S /\ \A y \in S : c >= y
  OBVIOUS
<1> HIDE DEF c
<1>2. c = m
  BY <1>1
<1> QED
  BY <1>2 DEF c, Best!SetMax

\* A result that is the best of S is the one BestOf describes.
BestRecord(r, size) == [size |-> size, len |-> r.len, tc |-> r.tc, td |-> r.td, mem |-> r.mem]

LEMMA BestIs ==
  ASSUME NEW S \in SUBSET Counted, NEW r, NEW size, IsBest(r, S, size)
  PROVE  S # {} /\ Best!BestOf(S) = BestRecord(r, size)
<1>1. S # {}
  BY DEF IsBest
<1> DEFINE one == CHOOSE q \in S : TRUE
<1>2. one.size = size /\ one.len = r.len
  <2>1. one \in S
    BY <1>1
  <2> HIDE DEF one
  <2> QED
    BY <2>1 DEF IsBest
<1>3. \A q \in S : q.tc \in Nat /\ q.td \in Nat /\ q.mem \in Nat
  BY ValueAssumption DEF Counted
<1>4. Best!SetMin({q.tc : q \in S}) = r.tc
  <2> DEFINE T == {q.tc : q \in S}
  <2>1. T \in SUBSET Nat /\ r.tc \in T /\ \A x \in T : r.tc <= x
    BY <1>3 DEF IsBest
  <2> HIDE DEF T
  <2>2. Best!SetMin(T) = r.tc
    BY <2>1, LeastIs
  <2> QED
    BY <2>2 DEF T
<1>5. Best!SetMin({q.td : q \in S}) = r.td
  <2> DEFINE T == {q.td : q \in S}
  <2>1. T \in SUBSET Nat /\ r.td \in T /\ \A x \in T : r.td <= x
    BY <1>3 DEF IsBest
  <2> HIDE DEF T
  <2>2. Best!SetMin(T) = r.td
    BY <2>1, LeastIs
  <2> QED
    BY <2>2 DEF T
<1>6. Best!SetMax({q.mem : q \in S}) = r.mem
  <2> DEFINE T == {q.mem : q \in S}
  <2>1. T \in SUBSET Nat /\ r.mem \in T /\ \A x \in T : r.mem >= x
    BY <1>3 DEF IsBest
  <2> HIDE DEF T
  <2>2. Best!SetMax(T) = r.mem
    BY <2>1, LargestIs
  <2> QED
    BY <2>2 DEF T
<1>7. Best!BestOf(S) = [size |-> one.size, len |-> one.len, tc |-> Best!SetMin({q.tc : q \in S}),
                        td |-> Best!SetMin({q.td : q \in S}), mem |-> Best!SetMax({q.mem : q \in S})]
  BY DEF Best!BestOf
<1> HIDE DEF one
<1> QED
  BY <1>1, <1>2, <1>4, <1>5, <1>6, <1>7 DEF BestRecord

\* What BestResults says the file should have.
BestOfAll == [k \in {x \in Key : hist[x] # {}} |-> Best!BestOf(hist[k])]

All == IF pc = "write" THEN Stored \cup Pending ELSE Stored

\* Whatever is in the file or will be written is the best of what counts.
LEMMA AllIsBest ==
  ASSUME StoreInv, kills = 0, NEW s \in All
  PROVE  s.key \in Key /\ IsBest(s.res, hist[s.key], StoredSize)
<1>0. TypeInv
  BY DEF StoreInv
<1>1. /\ pc = "write" => LinesInv(totinlen)
      /\ pc # "write" => LinesInv(FileSize)
  BY DEF StoreInv, FileInv, WriteInv
<1>2. CASE s \in Stored
  <2>1. PICK n \in 1..Len(tbb) : s = [key |-> tbb[n].key, res |-> tbb[n].res]
    BY <1>2 DEF Stored
  <2>2. Legible(tbb[n]) /\ IsBest(tbb[n].res, hist[tbb[n].key], StoredSize)
    BY <1>1 DEF StoredSize, LinesInv
  <2>3. tbb[n].key \in Key
    BY <2>2, KeyAssumption DEF Legible
  <2> QED
    BY <2>1, <2>2, <2>3
<1>3. CASE s \notin Stored
  <2>1. pc = "write" /\ s \in Pending /\ WriteInv /\ StoredSize = totinlen
    BY <1>3 DEF All, StoredSize, StoreInv
  <2>2. CASE \E n \in i..Len(new) : s = [key |-> new[n].key, res |-> Merged(new[n])]
    <3>1. PICK n \in i..Len(new) : s = [key |-> new[n].key, res |-> Merged(new[n])]
      BY <2>2
    <3>2. n \in 1..Len(new)
      BY <1>0, StoreTypes
    <3>3. new[n].key \in Key /\ IsBest(Merged(new[n]), hist[new[n].key], totinlen)
      BY <1>0, <2>1, <3>2, StoreTypes DEF WriteInv
    <3> QED
      BY <2>1, <3>1, <3>3
  <2>3. CASE \E m \in j..Len(old) : /\ old[m].live /\ \A x \in i..Len(new) : m \notin Match(new[x].key)
                                    /\ s = [key |-> old[m].key, res |-> old[m].res]
    <3>1. PICK m \in j..Len(old) : /\ old[m].live /\ \A x \in i..Len(new) : m \notin Match(new[x].key)
                                   /\ s = [key |-> old[m].key, res |-> old[m].res]
      BY <2>3
    <3>2. m \in 1..Len(old)
      BY <1>0, StoreTypes
    <3>3. Match(old[m].key) = {m}
      BY <2>1, <3>1, <3>2, OnlyMatch DEF WriteInv
    <3>4. \A x \in i..Len(new) : new[x].key # old[m].key
      BY <3>1, <3>3
    <3>5. old[m].key \in Key /\ IsBest(old[m].res, hist[old[m].key], totinlen)
      BY <1>0, <2>1, <3>1, <3>2, <3>4, StoreTypes DEF WriteInv
    <3> QED
      BY <2>1, <3>1, <3>5
  <2> QED
    BY <2>1, <2>2, <2>3 DEF Pending
<1> QED
  BY <1>2, <1>3

\* Whatever counts is in the file or will be written.
LEMMA AllIsThere ==
  ASSUME StoreInv, kills = 0, NEW k \in Key, hist[k] # {}
  PROVE  \E s \in All : s.key = k
<1>0. TypeInv
  BY DEF StoreInv
<1>1. CASE HasLine(k)
  <2>1. PICK a \in 1..Len(tbb) : tbb[a].key = k
    BY <1>1 DEF HasLine
  <2>2. [key |-> tbb[a].key, res |-> tbb[a].res] \in All
    BY DEF All, Stored
  <2> QED
    BY <2>1, <2>2
<1>2. CASE pc # "write"
  BY <1>1, <1>2 DEF StoreInv, FileInv
<1>3. CASE pc = "write" /\ \E n \in i..Len(new) : new[n].key = k
  <2>1. PICK n \in i..Len(new) : new[n].key = k
    BY <1>3
  <2>2. [key |-> new[n].key, res |-> Merged(new[n])] \in All
    BY <1>3 DEF All, Pending
  <2> QED
    BY <2>1, <2>2
<1>4. CASE /\ pc = "write" /\ \A n \in i..Len(new) : new[n].key # k
           /\ \E m \in j..Len(old) : old[m].live /\ old[m].key = k
  <2>1. PICK m \in j..Len(old) : old[m].live /\ old[m].key = k
    BY <1>4
  <2>2. \A x \in i..Len(new) : m \notin Match(new[x].key)
    BY <1>4, <2>1 DEF Match
  <2>3. [key |-> old[m].key, res |-> old[m].res] \in All
    BY <1>4, <2>1, <2>2 DEF All, Pending
  <2> QED
    BY <2>1, <2>3
<1> QED
  BY <1>1, <1>2, <1>3, <1>4 DEF StoreInv, WriteInv

LEMMA BarIsBest == StoreInv /\ kills = 0 => bestBar = BestOfAll
<1> SUFFICES ASSUME StoreInv, kills = 0 PROVE bestBar = BestOfAll
  OBVIOUS
<1> DEFINE of(k) == (CHOOSE s \in All : s.key = k).res
<1>1. bestBar = [k \in {s.key : s \in All} |-> BestRecord(of(k), StoredSize)]
  BY DEF bestBar, All, BestRecord
<1>2. \A k \in Key : hist[k] \in SUBSET Counted
  BY StoreTypes DEF StoreInv
<1>3. \A s \in All : hist[s.key] # {}
  BY AllIsBest DEF IsBest
<1>4. {s.key : s \in All} = {x \in Key : hist[x] # {}}
  BY <1>3, AllIsBest, AllIsThere
<1>5. ASSUME NEW k \in Key, hist[k] # {} PROVE Best!BestOf(hist[k]) = BestRecord(of(k), StoredSize)
  <2> DEFINE s == CHOOSE q \in All : q.key = k
  <2>1. s \in All /\ s.key = k
    BY <1>5, AllIsThere
  <2> HIDE DEF s
  <2>2. IsBest(s.res, hist[k], StoredSize)
    BY <2>1, AllIsBest
  <2>3. Best!BestOf(hist[k]) = BestRecord(s.res, StoredSize)
    BY <1>2, <2>2, BestIs
  <2> QED
    BY <2>3 DEF s
<1> HIDE DEF of
<1> QED
  BY <1>1, <1>4, <1>5 DEF BestOfAll

LEMMA BestTruncate ==
  ASSUME StoreInv, kills = 0, Truncate, bestBar' = BestOfAll'
  PROVE  Best!Next
<1>0. TypeInv /\ pc = "read" /\ FileInv /\ ReadInv /\ NewInv /\ totinlen \in Size
  BY DEF StoreInv, Truncate, TypeInv
<1> DEFINE K == {new[n].key : n \in 1..Len(new)}
           res == [k \in K |-> Full(new[CHOOSE n \in 1..Len(new) : new[n].key = k].res)]
           same == \A k \in Key : \A q \in hist[k] : \A x \in DOMAIN res : q.size = res[x].size
<1>1. K \in (SUBSET Key) \ {{}}
  <2>1. \A n \in 1..Len(new) : new[n].key \in Key
    BY <1>0, StoreTypes
  <2>2. 1 \in 1..Len(new)
    BY <1>0, StoreTypes DEF NewInv
  <2> QED
    BY <2>1, <2>2
<1>2. ASSUME NEW n \in 1..Len(new) PROVE res[new[n].key] = Full(new[n].res)
  <2>1. n = CHOOSE m \in 1..Len(new) : new[m].key = new[n].key
    BY <1>0 DEF NewInv
  <2> QED
    BY <2>1
<1>3. \A n \in 1..Len(new) : Full(new[n].res) \in Best!Result /\ Full(new[n].res).size = totinlen
                             /\ Full(new[n].res).len = new[n].res.len
  BY <1>0, StoreTypes DEF Full, Best!Result, Result
<1>4. DOMAIN res = K /\ res \in [K -> Best!Result] /\ \A x \in K : res[x].size = totinlen
  <2>1. \A x \in K : res[x] \in Best!Result /\ res[x].size = totinlen
    <3>1. ASSUME NEW x \in K PROVE res[x] \in Best!Result /\ res[x].size = totinlen
      <4>1. PICK n \in 1..Len(new) : x = new[n].key
        OBVIOUS
      <4>2. res[x] = Full(new[n].res)
        BY <1>2, <4>1
      <4> HIDE DEF res
      <4> QED
        BY <1>3, <4>2
    <3> QED
      BY <3>1
  <2> QED
    BY <2>1
<1> HIDE DEF res
<1>5. ASSUME NEW k \in Key PROVE (IF same THEN hist[k] ELSE {}) = Kept(k)
  <2>1. \A x \in Key : \A q \in hist[x] : q.size = FileSize
    <3>1. ASSUME NEW x \in Key, NEW q \in hist[x] PROVE q.size = FileSize
      <4>1. PICK a \in 1..Len(tbb) : tbb[a].key = x
        BY <1>0, <3>1 DEF FileInv, HasLine
      <4>2. IsBest(tbb[a].res, hist[x], FileSize)
        BY <1>0, <4>1 DEF FileInv, LinesInv
      <4> QED
        BY <4>2 DEF IsBest
    <3> QED
      BY <3>1
  <2>2. CASE FileSize = totinlen
    <3>1. same
      BY <1>4, <2>1, <2>2
    <3> QED
      BY <2>2, <3>1 DEF Kept
  <2>3. CASE FileSize # totinlen
    <3>1. ASSUME hist[k] # {} PROVE ~same
      <4>1. PICK q \in hist[k] : TRUE
        BY <3>1
      <4>2. PICK x \in K : TRUE
        BY <1>1
      <4>3. q.size # res[x].size
        BY <1>4, <2>1, <2>3
      <4> HIDE DEF K
      <4> QED
        BY <1>4, <4>3
    <3> QED
      BY <2>3, <3>1 DEF Kept
  <2> QED
    BY <2>2, <2>3
<1> HIDE DEF same
<1> DEFINE kept == [k \in Key |-> IF same THEN hist[k] ELSE {}]
           after(k) == IF k \in K THEN Best!Count(kept[k], res[k]) ELSE kept[k]
<1>6. ASSUME NEW k \in Key PROVE hist'[k] = after(k)
  <2>1. kept[k] = Kept(k)
    BY <1>5
  <2> HIDE DEF kept
  <2>2. CASE \E n \in 1..Len(new) : new[n].key = k
    <3>1. PICK n \in 1..Len(new) : new[n].key = k
      BY <2>2
    <3>2. res[k] = Full(new[n].res) /\ res[k].len = new[n].res.len
      BY <1>2, <1>3, <3>1
    <3>3. hist'[k] = {Full(new[n].res)} \cup {q \in Kept(k) : q.len = new[n].res.len}
      BY <3>1, TruncateCounts
    <3>4. k \in K
      BY <3>1
    <3> HIDE DEF K
    <3> QED
      BY <2>1, <3>2, <3>3, <3>4 DEF Best!Count
  <2>3. CASE \A n \in 1..Len(new) : new[n].key # k
    BY <2>1, <2>3, TruncateCounts
  <2> QED
    BY <2>2, <2>3
<1>7. hist' = [k \in Key |-> after(k)]
  <2>1. PICK f : hist' = [k \in Key |-> f[k]]
    <3>1. hist' = [k \in Key |-> hist'[k]]
      BY DEF Truncate
    <3> QED
      BY <3>1
  <2> HIDE DEF after
  <2> QED
    BY <1>6, <2>1
<1>8. bestBar' = [k \in {x \in Key : hist'[x] # {}} |-> Best!BestOf(hist'[k])]
  BY DEF BestOfAll, Best!BestOf, Best!SetMin, Best!SetMax
<1>9. Best!Report(res)
  <2> HIDE DEF K
  <2> QED
    BY <1>4, <1>7, <1>8 DEF Best!Report, same, Best!Count
<1> HIDE DEF K
<1> QED
  BY <1>1, <1>4, <1>9 DEF Best!Next

\* Every step before the first kill is one of BestResults or leaves what the file
\* has, or will have, alone.
LEMMA BestStep ==
  ASSUME StoreInv, StoreInv', [Next]_vars, kills' = 0, (StoreInv /\ kills = 0 => bestBar = BestOfAll)'
  PROVE  [Best!Next]_<<hist, bestBar>>
<1>1. kills = 0
  <2>1. kills \in Nat
    BY DEF StoreInv, TypeInv, TypeOK
  <2> QED
    BY <2>1 DEF Next, Bench, NoFile, Read, OpenFails, Truncate, WriteNew, WriteOld, Close, Kill, vars
<1>2. bestBar = BestOfAll /\ bestBar' = BestOfAll'
  BY <1>1, BarIsBest
<1>3. CASE Truncate
  BY <1>1, <1>2, <1>3, BestTruncate
<1>4. CASE hist' = hist
  <2>1. BestOfAll' = BestOfAll
    BY <1>4 DEF BestOfAll, Best!BestOf, Best!SetMin, Best!SetMax
  <2> QED
    BY <1>2, <1>4, <2>1
<1> QED
  BY <1>3, <1>4 DEF Next, Bench, NoFile, Read, OpenFails, WriteNew, WriteOld, Close, Kill, vars

\* Until the first kill the file holds, for every codec, the best of all that was
\* measured since its compressed size last changed: truncating the file is the
\* step that reports a run, every other step keeps what is or will be in it.
THEOREM BestResultsCorrect == Spec => BestResultsSpec
<1>1. Init => Best!Init
  <2> SUFFICES ASSUME Init PROVE Best!Init
    OBVIOUS
  <2>1. StoreInv /\ kills = 0 /\ hist = [k \in Key |-> {}]
    BY StoreInit DEF Init
  <2>2. bestBar = BestOfAll
    BY <2>1, BarIsBest
  <2>3. BestOfAll = [k \in {} |-> 0]
    BY <2>1 DEF BestOfAll
  <2> QED
    BY <2>1, <2>2, <2>3 DEF Best!Init
<1>2. (StoreInv /\ kills = 0 => bestBar = BestOfAll)'
  BY BarIsBest, PTL
<1>3. StoreInv /\ StoreInv' /\ [Next]_vars => [kills' = 0 => Best!Next]_<<hist, bestBar>>
  BY <1>2, BestStep
<1> QED
  BY <1>1, <1>3, StoreInit, StoreNext, PTL DEF Spec, BestResultsSpec
=============================================================================
