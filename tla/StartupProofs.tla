--------------------------- MODULE StartupProofs ---------------------------
(***************************************************************************)
(* For all command lines, groups, registries and file systems: everything  *)
(* asked for by name is run, the table of codecs holds nothing twice but   *)
(* what was cut, neither the table nor the stack of directories grows past *)
(* its places, the options are answered as they were given, every variable *)
(* has its type, and a merged file can be read back block by block, keeps  *)
(* its limit and, where that does not bind, holds every file below the     *)
(* operands of -r.                                                         *)
(***************************************************************************)
EXTENDS Startup, DataInduction, SequenceTheorems

-----------------------------------------------------------------------------
(* The text for plugreg is made of segments; what is in the table was cut.  *)

Entries == [id : {Registry[n].id : n \in DOMAIN Registry}, lev : Seq(Nat), prm : Param]
IsOffered(e) == \E n \in DOMAIN Registry : Registry[n].id = e.id /\ Offered(Registry[n], e.lev)
TextOK  == spec \in Seq(Segment) /\ cmd \in Seq(Segment)
TableOK == /\ plug \in Seq(Entries) /\ \A i \in DOMAIN plug : Kept(plug[i]) = plug[i]
           /\ TableHasRoom /\ TwiceOnlyWhenCut
           /\ \A i \in DOMAIN plug : IsOffered(plug[i])
(* What was asked for is in the table, unless the program ends for it. *)
WantedHere == selected \notin {"exit", "die"} => \A e \in wanted : \E i \in DOMAIN plug : plug[i] = e
Picked == /\ main \in {"build", "bench"} => selected = "ok"
          /\ main \in {"options", "select"} => selected \notin {"exit", "die"}
SelectInv == TextOK /\ TableOK /\ WantedHere /\ Picked

\* One element makes a sequence.
LEMMA OneOK == ASSUME NEW S, NEW x \in S PROVE <<x>> \in Seq(S) /\ Head(<<x>>) = x
OBVIOUS

LEMMA NoneOK == ASSUME NEW S PROVE <<>> \in Seq(S)
OBVIOUS

LEMMA FirstOK == ASSUME NEW S, NEW s \in Seq(S), s # <<>> PROVE Head(s) \in S /\ Tail(s) \in Seq(S)
BY HeadTailProperties

LEMMA GroupOK == ASSUME NEW seg \in Segment PROVE Group(seg) \in Seq(Segment)
<1>1. <<seg>> \in Seq(Segment) /\ <<ON>> \in Seq(Segment) /\ <<OFF>> \in Seq(Segment)
  <2>1. ON \in Segment /\ OFF \in Segment
    <3>1. <<>> \in Seq([lev : Seq(Nat), prm : Param])
      BY NoneOK
    <3>2. ASSUME NEW L, NEW l \in L, NEW N, NEW n \in N PROVE [name |-> n, levels |-> l] \in [name : N, levels : L]
      OBVIOUS
    <3>3. "ON" \in Name \cup {"ON", "OFF"} /\ "OFF" \in Name \cup {"ON", "OFF"}
      OBVIOUS
    <3> QED
      BY <3>1, <3>2, <3>3, Zenon DEF Segment, ON, OFF
  <2> QED
    BY <2>1, OneOK
<1> QED
  BY <1>1, SelectAssumption, ConcatProperties DEF Group

\* A level of a segment, and what is left of it.
LEMMA SegmentOK ==
  ASSUME NEW seg \in Segment
  PROVE  /\ Head(Levels(seg)) \in [lev : Seq(Nat), prm : Param]
         /\ Len(seg.levels) > 1 => [seg EXCEPT !.levels = Tail(@)] \in Segment
<1>1. seg.levels \in Seq([lev : Seq(Nat), prm : Param])
  BY DEF Segment
<1>2. seg.levels # <<>> => /\ Head(seg.levels) \in [lev : Seq(Nat), prm : Param]
                           /\ Tail(seg.levels) \in Seq([lev : Seq(Nat), prm : Param])
  BY <1>1, FirstOK
<1>3. Head(<<[lev |-> INVLEV, prm |-> ""]>>) \in [lev : Seq(Nat), prm : Param]
  <2>1. [lev |-> INVLEV, prm |-> ""] \in [lev : Seq(Nat), prm : Param]
    <3>1. INVLEV \in Seq(Nat) /\ "" \in Param
      BY NoneOK, CutAssumption DEF INVLEV
    <3> QED
      BY <3>1
  <2> QED
    BY <2>1, OneOK
<1>4. Head(Levels(seg)) \in [lev : Seq(Nat), prm : Param]
  BY <1>2, <1>3 DEF Levels
<1>5. Len(seg.levels) > 1 => seg.levels # <<>>
  BY <1>1
<1> QED
  BY <1>2, <1>4, <1>5 DEF Segment

LEMMA KeptOK ==
  ASSUME NEW e \in Entries
  PROVE  /\ Kept(e) \in Entries /\ Kept(Kept(e)) = Kept(e)
         /\ Kept(e) # e => Cut[e.prm] # e.prm /\ Cut[e.prm] = Kept(e).prm
<1>1. Cut[e.prm] \in Param /\ Cut[Cut[e.prm]] = Cut[e.prm] /\ e.prm \in Param
  BY CutAssumption DEF Entries
<1> QED
  BY <1>1 DEF Kept, Entries

-----------------------------------------------------------------------------
(* One entry more.                                                          *)

\* plugins leaves the table in order, and what it was given is in it unless
\* the program ends.
LEMMA AddCodecOK ==
  ASSUME TableOK, NEW e \in Entries, IsOffered(e), AddCodec(e)
  PROVE  /\ TableOK'
         /\ \A i \in DOMAIN plug : i \in DOMAIN plug' /\ plug'[i] = plug[i]
         /\ selected' \in {selected, "die"}
         /\ selected' # "die" => \E i \in DOMAIN plug' : plug'[i] = Kept(e)
<1>0. plug \in Seq(Entries) /\ Len(plug) \in Nat /\ DOMAIN plug = 1..Len(plug) /\ PLUGN \in Nat
  BY SelectAssumption DEF TableOK
<1>1. CASE \E i \in DOMAIN plug : plug[i] = e
  <2>1. UNCHANGED <<plug, selected>>
    BY <1>1 DEF AddCodec
  <2> QED
    BY <1>1, <2>1 DEF TableOK, TableHasRoom, TwiceOnlyWhenCut
<1>2. CASE (\A i \in DOMAIN plug : plug[i] # e) /\ Len(plug) >= PLUGN
  <2>1. selected' = "die" /\ UNCHANGED plug
    BY <1>2 DEF AddCodec
  <2> QED
    BY <2>1 DEF TableOK, TableHasRoom, TwiceOnlyWhenCut
<1>3. CASE (\A i \in DOMAIN plug : plug[i] # e) /\ ~(Len(plug) >= PLUGN)
  <2>1. plug' = Append(plug, Kept(e)) /\ UNCHANGED selected
    BY <1>3 DEF AddCodec
  <2>2. /\ plug' \in Seq(Entries) /\ Len(plug') = Len(plug) + 1 /\ DOMAIN plug' = 1..Len(plug) + 1
        /\ \A i \in 1..Len(plug) : plug'[i] = plug[i]
        /\ plug'[Len(plug) + 1] = Kept(e)
    BY <1>0, <2>1, KeptOK, AppendProperties
  <2>3. TableHasRoom'
    BY <1>0, <1>3, <2>2 DEF TableHasRoom
  <2>4. \A i \in DOMAIN plug' : Kept(plug'[i]) = plug'[i]
    BY <1>0, <2>2, KeptOK DEF TableOK
  <2>5. TwiceOnlyWhenCut'
    <3> SUFFICES ASSUME NEW i \in DOMAIN plug', NEW j \in DOMAIN plug', i < j, plug'[i] = plug'[j]
                 PROVE  \E q \in Param : Cut[q] # q /\ Cut[q] = plug'[i].prm
      BY DEF TwiceOnlyWhenCut
    <3>1. i \in 1..Len(plug)
      BY <1>0, <2>2
    <3>2. CASE j \in 1..Len(plug)
      BY <1>0, <2>2, <3>1, <3>2 DEF TableOK, TwiceOnlyWhenCut
    <3>3. CASE j = Len(plug) + 1
      <4>1. Kept(e) = plug[i] /\ plug[i] # e
        BY <1>0, <1>3, <2>2, <3>1, <3>3
      <4>2. e.prm \in Param /\ Cut[e.prm] # e.prm /\ Cut[e.prm] = plug'[i].prm
        BY <2>2, <3>1, <4>1, KeptOK DEF Entries
      <4> QED
        BY <4>2
    <3> QED
      BY <1>0, <2>2, <3>2, <3>3
  <2>6. ASSUME NEW i \in DOMAIN plug' PROVE IsOffered(plug'[i])
    <3>1. CASE i \in DOMAIN plug
      BY <1>0, <2>2, <3>1 DEF TableOK
    <3>2. CASE i = Len(plug) + 1
      BY <2>2, <3>2 DEF IsOffered, Kept, Entries
    <3> QED
      BY <1>0, <2>2, <3>1, <3>2
  <2> QED
    BY <1>0, <2>1, <2>2, <2>3, <2>4, <2>5, <2>6 DEF TableOK
<1> QED
  BY <1>0, <1>1, <1>2, <1>3

-----------------------------------------------------------------------------
(* The levels of a codec as one text: behind every comma one of them begins. *)

JoinStep(levs, u, n) ==
  IF n = 0 THEN <<>> ELSE IF n = 1 THEN levs[1] ELSE u[n - 1] \o <<COMMA>> \o levs[n]

\* The level stands there, up to a comma or the end of the text.
Stands(text, i, lev) ==
  /\ \A j \in 1..Len(lev) : i + j - 1 \in 1..Len(text) /\ text[i + j - 1] = lev[j]
  /\ i + Len(lev) \in 1..Len(text) => text[i + Len(lev)] = COMMA
Listed(levs, text, n) ==
  /\ text \in Seq(Int)
  /\ n # 0 => \A i \in 1..Len(text) + 1 :
                i = 1 \/ text[i - 1] = COMMA => \E k \in 1..n : Stands(text, i, levs[k])

\* Each text follows from the one before.
LEMMA JoinedAt ==
  ASSUME NEW levs, Len(levs) \in Nat
  PROVE  \A k \in 0..Len(levs) : JoinedUpTo(levs)[k] = JoinStep(levs, JoinedUpTo(levs), k)
<1> DEFINE n == Len(levs)
           F(u, k) == JoinStep(levs, u, k)
           Solves(u, m) == \A k \in 0..m : u[k] = F(u, k)
           P == {m \in Nat : \E u : Solves(u, m)}
<1>0. n \in Nat
  OBVIOUS
<1>1. ASSUME NEW u, NEW v, NEW k \in Nat, k # 0 => u[k - 1] = v[k - 1] PROVE F(u, k) = F(v, k)
  BY <1>1 DEF JoinStep
<1> HIDE DEF F
<1>2. 0 \in P
  <2> DEFINE v == [k \in {0} |-> F(<<>>, 0)]
  <2>1. v[0] = F(v, 0)
    BY <1>1
  <2> HIDE DEF v
  <2>2. Solves(v, 0)
    BY <2>1
  <2> QED
    BY <2>2
<1>3. ASSUME NEW m \in 0..(n - 1), m \in P PROVE m + 1 \in P
  <2>1. PICK u : Solves(u, m)
    BY <1>3
  <2> DEFINE v == [k \in 0..(m + 1) |-> F(u, k)]
  <2>2. ASSUME NEW k \in 0..(m + 1) PROVE v[k] = F(v, k)
    <3>1. v[k] = F(u, k)
      OBVIOUS
    <3>2. k # 0 => k - 1 \in 0..m /\ k - 1 \in 0..(m + 1)
      OBVIOUS
    <3>3. k # 0 => v[k - 1] = u[k - 1]
      BY <2>1, <3>2
    <3> HIDE DEF v
    <3> QED
      BY <1>1, <3>1, <3>3
  <2> HIDE DEF v
  <2>3. Solves(v, m + 1)
    BY <2>2
  <2> HIDE DEF Solves
  <2> QED
    BY <2>3 DEF n
<1>4. n \in P
  <2> HIDE DEF P, n
  <2>1. \A k \in 0..n : k \in P
    BY <1>0, <1>2, <1>3, CountInduction
  <2> QED
    BY <1>0, <2>1
<1>5. PICK u : Solves(u, n)
  BY <1>4
<1> DEFINE v == [k \in 0..n |-> u[k]]
           s == JoinedUpTo(levs)
<1>6. ASSUME NEW k \in 0..n PROVE v[k] = F(v, k)
  <2>1. v[k] = F(u, k) /\ (k # 0 => v[k - 1] = u[k - 1])
    BY <1>0, <1>1, <1>5
  <2> HIDE DEF v
  <2> QED
    BY <1>0, <1>1, <2>1
<1>7. v = [k \in 0..n |-> F(v, k)]
  BY <1>6
<1> HIDE DEF v
<1>8. s = CHOOSE w : w = [k \in 0..n |-> F(w, k)]
  BY DEF JoinedUpTo, F, JoinStep
<1> HIDE DEF s
<1>9. s = [k \in 0..n |-> F(s, k)]
  BY <1>7, <1>8
<1>10. \A k \in 0..n : s[k] = F(s, k)
  BY <1>9
<1> QED
  BY <1>10 DEF s, F

LEMMA BehindComma ==
  ASSUME NEW a \in Seq(Int), NEW c \in Int, NEW b \in Seq(Int)
  PROVE  /\ a \o <<c>> \o b \in Seq(Int) /\ Len(a \o <<c>> \o b) = Len(a) + 1 + Len(b)
         /\ \A i \in 1..Len(a) : (a \o <<c>> \o b)[i] = a[i]
         /\ (a \o <<c>> \o b)[Len(a) + 1] = c
         /\ \A i \in 1..Len(b) : (a \o <<c>> \o b)[Len(a) + 1 + i] = b[i]
<1>1. PICK f : f = a \o <<c>>
  OBVIOUS
<1>2. /\ f \in Seq(Int) /\ Len(f) = Len(a) + 1 /\ f[Len(a) + 1] = c
      /\ \A i \in 1..Len(a) : f[i] = a[i]
  BY <1>1
<1>3. PICK g : g = f \o b
  OBVIOUS
<1>4. /\ g \in Seq(Int) /\ Len(g) = Len(f) + Len(b)
      /\ \A i \in 1..Len(f) : g[i] = f[i]
      /\ \A i \in 1..Len(b) : g[Len(f) + i] = b[i]
  <2>1. /\ g \in Seq(Int) /\ Len(g) = Len(f) + Len(b)
        /\ \A i \in 1..Len(f) + Len(b) : g[i] = IF i <= Len(f) THEN f[i] ELSE b[i - Len(f)]
    <3>1. f \in Seq(Int) /\ b \in Seq(Int)
      BY <1>2
    <3>2. /\ f \o b \in Seq(Int) /\ Len(f \o b) = Len(f) + Len(b)
          /\ \A i \in 1..Len(f) + Len(b) : (f \o b)[i] = IF i <= Len(f) THEN f[i] ELSE b[i - Len(f)]
      BY <3>1, ConcatProperties
    <3> QED
      BY <1>3, <3>2
  <2>2. Len(f) \in Nat /\ Len(b) \in Nat
    BY <1>2
  <2>3. ASSUME NEW i \in 1..Len(f) PROVE g[i] = f[i]
    BY <2>1, <2>2
  <2>4. ASSUME NEW i \in 1..Len(b) PROVE g[Len(f) + i] = b[i]
    <3>1. PICK p : p = Len(f) + i
      OBVIOUS
    <3>2. p \in 1..Len(f) + Len(b) /\ ~(p <= Len(f)) /\ p - Len(f) = i
      BY <2>2, <3>1
    <3> QED
      BY <2>1, <3>1, <3>2
  <2> QED
    BY <2>1, <2>3, <2>4
<1>5. \A i \in 1..Len(a) : i \in 1..Len(f)
  BY <1>2
<1> QED
  BY <1>1, <1>2, <1>3, <1>4, <1>5

\* One level more, behind a comma.
LEMMA OneLevelMore ==
  ASSUME NEW levs \in Seq(Seq(Nat)), NEW m \in Nat \ {0}, m + 1 \in 1..Len(levs),
         NEW text, Listed(levs, text, m)
  PROVE  Listed(levs, text \o <<COMMA>> \o levs[m + 1], m + 1)
<1>0. PICK l : l = levs[m + 1]
  OBVIOUS
<1> DEFINE g == text \o <<COMMA>> \o l
<1>1. l \in Seq(Nat) /\ l \in Seq(Int) /\ text \in Seq(Int) /\ COMMA \in Int /\ COMMA \notin Nat
  <2>1. l \in Seq(Nat)
    BY <1>0
  <2>2. l \in Seq(Int)
    BY <2>1
  <2> QED
    BY <2>1, <2>2 DEF Listed, COMMA
<1>2. /\ g \in Seq(Int) /\ Len(g) = Len(text) + 1 + Len(l)
      /\ \A i \in 1..Len(text) : g[i] = text[i]
      /\ g[Len(text) + 1] = COMMA
      /\ \A i \in 1..Len(l) : g[Len(text) + 1 + i] = l[i]
  BY <1>1, BehindComma
<1>3. Len(text) \in Nat /\ Len(l) \in Nat /\ \A i \in 1..Len(l) : l[i] # COMMA
  BY <1>1
<1> HIDE DEF g, COMMA
<1>4. ASSUME NEW i \in 1..Len(g) + 1, i = 1 \/ g[i - 1] = COMMA
      PROVE  \E k \in 1..m + 1 : Stands(g, i, levs[k])
  <2>1. CASE i <= Len(text) + 1
    <3>1. i = 1 \/ text[i - 1] = COMMA
      <4>1. CASE i # 1
        <5>1. i - 1 \in 1..Len(text)
          BY <1>3, <2>1, <4>1
        <5> QED
          BY <1>2, <1>4, <4>1, <5>1
      <4> QED
        BY <4>1
    <3>2. PICK k \in 1..m : Stands(text, i, levs[k])
      BY <1>3, <2>1, <3>1 DEF Listed
    <3>3. levs[k] \in Seq(Nat) /\ k \in 1..m + 1
      OBVIOUS
    <3>4a. PICK r : r = levs[k]
      OBVIOUS
    <3>4b. PICK q : q = Len(r)
      OBVIOUS
    <3>4. r = levs[k] /\ q = Len(r) /\ q \in Nat
      BY <3>3, <3>4a, <3>4b
    <3>5. /\ \A j \in 1..q : i + j - 1 \in 1..Len(text) /\ text[i + j - 1] = r[j]
          /\ i + q \in 1..Len(text) => text[i + q] = COMMA
      BY <3>2, <3>4 DEF Stands
    <3>6. i + q - 1 <= Len(text)
      <4>1. CASE q = 0
        BY <1>3, <2>1, <4>1
      <4>2. CASE q # 0
        <5>1. q \in 1..q
          BY <3>4, <4>2
        <5> QED
          BY <3>5, <5>1
      <4> QED
        BY <4>1, <4>2
    <3>7. \A j \in 1..q : i + j - 1 \in 1..Len(g) /\ g[i + j - 1] = r[j]
      <4>1. ASSUME NEW j \in 1..q PROVE i + j - 1 \in 1..Len(g) /\ g[i + j - 1] = r[j]
        <5>1. PICK p : p = i + j - 1
          OBVIOUS
        <5>2. p \in 1..Len(text) /\ text[p] = r[j]
          BY <3>5, <5>1
        <5>3. p \in 1..Len(g) /\ g[p] = r[j]
          BY <1>2, <1>3, <5>2
        <5> QED
          BY <5>1, <5>3
      <4> QED
        BY <4>1
    <3>8. i + q \in 1..Len(g) => g[i + q] = COMMA
      <4>1. PICK p : p = i + q
        OBVIOUS
      <4>2. p \in Int /\ p <= Len(text) + 1 /\ (p \in 1..Len(text) => text[p] = COMMA)
        BY <1>3, <3>4, <3>5, <3>6, <4>1
      <4>3. p \in 1..Len(text) + 1 => g[p] = COMMA
        <5>1. p \in 1..Len(text) => g[p] = COMMA
          BY <1>2, <4>2
        <5>2. p = Len(text) + 1 => g[p] = COMMA
          BY <1>2
        <5> QED
          <6>1. ASSUME NEW n \in Nat, p \in 1..n + 1, p \notin 1..n PROVE p = n + 1
            BY <6>1
          <6>2. Len(text) \in Nat
            BY <1>3
          <6> QED
            BY <5>1, <5>2, <6>1, <6>2
      <4>4. p \in 1..Len(g) => p \in 1..Len(text) + 1
        BY <1>2, <1>3, <4>2
      <4> QED
        BY <4>1, <4>3, <4>4
    <3> QED
      BY <3>3, <3>4, <3>7, <3>8 DEF Stands
  <2>2. CASE i = Len(text) + 2
    <3>1. \A j \in 1..Len(l) : i + j - 1 \in 1..Len(g) /\ g[i + j - 1] = l[j]
      <4>1. ASSUME NEW j \in 1..Len(l) PROVE i + j - 1 \in 1..Len(g) /\ g[i + j - 1] = l[j]
        <5>1. i + j - 1 = Len(text) + 1 + j /\ Len(text) + 1 + j \in 1..Len(g)
          BY <1>2, <1>3, <2>2
        <5>2. g[Len(text) + 1 + j] = l[j]
          BY <1>2
        <5> QED
          BY <5>1, <5>2
      <4> QED
        BY <4>1
    <3>2. i + Len(l) \notin 1..Len(g)
      BY <1>2, <1>3, <2>2
    <3>3. m + 1 \in 1..m + 1
      OBVIOUS
    <3> QED
      BY <1>0, <3>1, <3>2, <3>3 DEF Stands
  <2>3. CASE i > Len(text) + 2
    <3>1. PICK q : q = i - Len(text) - 2
      OBVIOUS
    <3>2. q \in 1..Len(l) /\ i - 1 = Len(text) + 1 + q
      BY <1>2, <1>3, <2>3, <3>1
    <3>3. g[i - 1] = l[q] /\ l[q] # COMMA
      BY <1>2, <1>3, <3>2
    <3>4. i # 1
      BY <1>3, <2>3
    <3> QED
      BY <1>4, <3>3, <3>4
  <2> QED
    BY <1>2, <1>3, <2>1, <2>2, <2>3
<1> QED
  BY <1>0, <1>2, <1>4 DEF Listed, g

LEMMA AllListed ==
  ASSUME NEW levs \in Seq(Seq(Nat))
  PROVE  Listed(levs, Joined(levs), Len(levs))
<1> DEFINE n == Len(levs)
           t == JoinedUpTo(levs)
           P == {m \in 0..n : Listed(levs, t[m], m)}
<1>0. n \in Nat /\ \A k \in 0..n : t[k] = JoinStep(levs, t, k)
  BY JoinedAt
<1> HIDE DEF t
<1>1. 0 \in P
  <2>1. t[0] = <<>> /\ 0 \in 0..n
    BY <1>0 DEF JoinStep
  <2>2. <<>> \in Seq(Int)
    BY NoneOK
  <2> QED
    BY <2>1, <2>2 DEF Listed
<1>2. ASSUME NEW m \in 0..(n - 1), m \in P PROVE m + 1 \in P
  <2>1. CASE m = 0
    <3>1. t[1] = levs[1] /\ levs[1] \in Seq(Nat) /\ 1 \in 0..n
      BY <1>0, <2>1 DEF JoinStep
    <3>2. COMMA \notin Nat
      BY DEF COMMA
    <3>3. Stands(levs[1], 1, levs[1])
      BY <3>1 DEF Stands
    <3>4. Listed(levs, levs[1], 1)
      BY <3>1, <3>2, <3>3 DEF Listed
    <3> QED
      BY <2>1, <3>1, <3>4
  <2>2. CASE m # 0
    <3>0. /\ m \in Nat \ {0} /\ m + 1 \in 0..n /\ m + 1 \in 1..n
          /\ m + 1 # 0 /\ m + 1 # 1 /\ (m + 1) - 1 = m
      BY <1>0, <2>2
    <3>1. t[m + 1] = t[m] \o <<COMMA>> \o levs[m + 1]
      BY <1>0, <3>0 DEF JoinStep
    <3>2. Listed(levs, t[m], m)
      BY <1>2
    <3>3. Listed(levs, t[m + 1], m + 1)
      BY <3>0, <3>1, <3>2, OneLevelMore
    <3> QED
      BY <3>0, <3>3
  <2> QED
    BY <2>1, <2>2
<1>3. n \in P
  <2> HIDE DEF P, n
  <2>1. \A k \in 0..n : k \in P
    BY <1>0, <1>1, <1>2, CountInduction
  <2> QED
    BY <1>0, <2>1
<1> QED
  BY <1>3 DEF Joined, t

\* What the lookup accepts is the front of a level.
LEMMA InRangeOffers ==
  ASSUME NEW n \in DOMAIN Registry, NEW lev \in Seq(Nat), InRange(Registry[n], lev)
  PROVE  Offered(Registry[n], lev)
<1> DEFINE levs == Registry[n].lev
           text == Joined(levs)
<1>1. CASE lev = INVLEV
  BY <1>1 DEF InRange, Offered
<1>2. CASE lev # INVLEV
  <2>1. levs \in Seq(Seq(Nat)) /\ HasLevel(levs, lev)
    BY <1>2, SelectAssumption DEF InRange
  <2>2. Listed(levs, text, Len(levs)) /\ text \in Seq(Int)
    BY <2>1, AllListed DEF Listed
  <2>3. PICK i \in Found(text, lev) : i = 1 \/ text[i - 1] = COMMA
    BY <2>1 DEF HasLevel
  <2> HIDE DEF levs, text
  <2>4. i \in 1..Len(text) /\ i + Len(lev) - 1 <= Len(text) /\ SubSeq(text, i, i + Len(lev) - 1) = lev
    BY <2>3 DEF Found
  <2>5. \A j \in 1..Len(lev) : text[i + j - 1] = lev[j]
    <3>1. PICK b : b = i + Len(lev) - 1
      OBVIOUS
    <3>2. b \in Int /\ b <= Len(text) /\ b - i + 1 = Len(lev)
      BY <2>2, <2>4, <3>1
    <3>3. \A j \in i..b : text[j] \in Int
      BY <2>2, <2>4, <3>2
    <3>4. /\ SubSeq(text, i, b) \in Seq(Int)
          /\ \A j \in 1..(b - i + 1) : SubSeq(text, i, b)[j] = text[i + j - 1]
      BY <2>4, <3>2, <3>3, SubSeqProperties
    <3> QED
      BY <2>4, <3>1, <3>2, <3>4
  <2>6. Len(levs) # 0
    <3>1. CASE Len(levs) = 0
      <4>1. text = <<>>
        BY <2>1, <3>1, JoinedAt DEF text, Joined, JoinStep
      <4> QED
        BY <2>4, <4>1
    <3> QED
      BY <3>1
  <2>7. PICK k \in 1..Len(levs) : Stands(text, i, levs[k])
    <3>1. i \in 1..Len(text) + 1
      BY <2>2, <2>4
    <3> QED
      BY <2>2, <2>3, <2>6, <3>1 DEF Listed
  <2>8. levs[k] \in Seq(Nat) /\ k \in DOMAIN levs
    BY <2>1
  <2>9. Len(lev) <= Len(levs[k])
    <3> SUFFICES ASSUME Len(levs[k]) < Len(lev) PROVE FALSE
      BY <2>8
    <3>1. Len(levs[k]) + 1 \in 1..Len(lev) /\ i + Len(levs[k]) \in 1..Len(text)
      BY <2>2, <2>4, <2>8
    <3>2. text[i + Len(levs[k])] = COMMA
      BY <2>7, <3>1 DEF Stands
    <3>3. text[i + Len(levs[k])] = lev[Len(levs[k]) + 1] /\ lev[Len(levs[k]) + 1] \in Nat
      BY <2>5, <2>8, <3>1
    <3> QED
      BY <3>2, <3>3 DEF COMMA
  <2>10. \A j \in 1..Len(lev) : lev[j] = levs[k][j]
    BY <2>5, <2>7, <2>8, <2>9 DEF Stands
  <2>11. IsPrefix(lev, levs[k])
    BY <2>8, <2>9, <2>10 DEF IsPrefix
  <2> QED
    BY <1>2, <2>8, <2>11 DEF Offered, levs
<1> QED
  BY <1>1, <1>2

\* The entry of a level that is known.
LEMMA EntryOK ==
  ASSUME NEW seg \in Segment, seg.name \in DOMAIN Registry
  PROVE  Entry(Registry[seg.name], Head(Levels(seg))) \in Entries
<1>1. Head(Levels(seg)) \in [lev : Seq(Nat), prm : Param]
  BY SegmentOK
<1> QED
  BY <1>1 DEF Entry, Entries

\* Nothing else changes what is asked for, what is in the table or the end.
LEMMA SelectSame ==
  ASSUME SelectInv, UNCHANGED <<plug, wanted, selected, main>>, TextOK'
  PROVE  SelectInv'
BY DEF SelectInv, TableOK, TableHasRoom, TwiceOnlyWhenCut, WantedHere, Picked

LEMMA SelectStart == Init => SelectInv
<1> SUFFICES ASSUME Init PROVE SelectInv
  OBVIOUS
<1>1. spec = <<>> /\ cmd = <<>> /\ plug = <<>> /\ wanted = {} /\ selected = "expand" /\ main = "options"
  BY DEF Init, SelectInit
<1>2. TextOK /\ plug \in Seq(Entries) /\ Len(plug) = 0 /\ DOMAIN plug = {}
  BY <1>1, NoneOK DEF TextOK
<1> QED
  BY <1>1, <1>2, SelectAssumption
     DEF SelectInv, TableOK, TableHasRoom, TwiceOnlyWhenCut, WantedHere, Picked

\* One level more is looked up and entered.
LEMMA RegisterOK ==
  ASSUME TextOK, TableOK, WantedHere, RegisterLevel
  PROVE  TextOK' /\ TableOK' /\ WantedHere'
<1> DEFINE seg == Head(cmd)
           e   == Entry(Registry[seg.name], Head(Levels(seg)))
<1>1. cmd \in Seq(Segment) /\ cmd # <<>> /\ seg \in Segment /\ Tail(cmd) \in Seq(Segment)
  BY FirstOK DEF RegisterLevel, TextOK
<1>2. TextOK'
  <2>1. CASE Len(seg.levels) <= 1
    BY <1>1, <2>1 DEF RegisterLevel, TextOK
  <2>2. CASE ~(Len(seg.levels) <= 1)
    <3>1. seg.levels \in Seq([lev : Seq(Nat), prm : Param])
      BY <1>1 DEF Segment
    <3>2. Len(seg.levels) > 1
      BY <2>2, <3>1
    <3>3. <<[seg EXCEPT !.levels = Tail(@)]>> \in Seq(Segment)
      BY <1>1, <3>2, SegmentOK, OneOK
    <3>4. <<[seg EXCEPT !.levels = Tail(@)]>> \o Tail(cmd) \in Seq(Segment)
      BY <1>1, <3>3, ConcatProperties
    <3> QED
      BY <2>2, <3>4 DEF RegisterLevel, TextOK
  <2> QED
    BY <2>1, <2>2
<1>3. CASE seg.name \in DOMAIN Registry /\ InRange(Registry[seg.name], Head(Levels(seg)).lev)
  <2>0. IsOffered(e)
    <3>1. Head(Levels(seg)).lev \in Seq(Nat)
      BY <1>1, SegmentOK
    <3>2. Offered(Registry[seg.name], Head(Levels(seg)).lev)
      BY <1>3, <3>1, InRangeOffers
    <3>3. e.id = Registry[seg.name].id /\ e.lev = Head(Levels(seg)).lev
      BY DEF Entry
    <3> QED
      BY <1>3, <3>2, <3>3 DEF IsOffered
  <2>1. e \in Entries
    BY <1>1, <1>3, EntryOK
  <2>2. AddCodec(e) /\ wanted' \in {wanted, wanted \cup {Kept(e)}}
    BY <1>3 DEF RegisterLevel
  <2>3. /\ TableOK' /\ selected' \in {selected, "die"}
        /\ \A i \in DOMAIN plug : i \in DOMAIN plug' /\ plug'[i] = plug[i]
        /\ selected' # "die" => \E i \in DOMAIN plug' : plug'[i] = Kept(e)
    BY <2>0, <2>1, <2>2, AddCodecOK
  <2>4. WantedHere'
    <3> SUFFICES ASSUME selected' \notin {"exit", "die"}, NEW x \in wanted'
                 PROVE  \E i \in DOMAIN plug' : plug'[i] = x
      BY DEF WantedHere
    <3>1. CASE x \in wanted
      BY <2>3, <3>1 DEF WantedHere
    <3>2. CASE x = Kept(e)
      BY <2>3, <3>2
    <3> QED
      BY <2>2, <3>1, <3>2
  <2> QED
    BY <1>2, <2>3, <2>4
<1>4. CASE ~(seg.name \in DOMAIN Registry /\ InRange(Registry[seg.name], Head(Levels(seg)).lev))
  <2>1. UNCHANGED plug
        /\ \/ selected' = "exit"
           \/ selected' = selected /\ wanted' = wanted
    BY <1>4 DEF RegisterLevel
  <2> QED
    BY <1>2, <2>1 DEF TableOK, TableHasRoom, TwiceOnlyWhenCut, WantedHere
<1> QED
  BY <1>3, <1>4

\* The steps of the selection.
LEMMA SelectStep ==
  ASSUME TextOK, TableOK, WantedHere, NEW stdin, SelectNext(stdin)
  PROVE  TextOK' /\ TableOK' /\ WantedHere'
<1>0. ASSUME UNCHANGED <<plug, wanted>>, selected' \in {selected, "exit", "die"} \/ selected \notin {"exit", "die"}
      PROVE  TableOK' /\ WantedHere'
  BY <1>0 DEF TableOK, TableHasRoom, TwiceOnlyWhenCut, WantedHere
<1>1. CASE ExpandSegment
  <2>1. spec \in Seq(Segment) /\ cmd \in Seq(Segment) /\ spec # <<>>
    BY <1>1 DEF ExpandSegment, TextOK
  <2>2. Head(spec) \in Segment /\ Tail(spec) \in Seq(Segment)
    BY <2>1, FirstOK
  <2>3. cmd \o Group(Head(spec)) \in Seq(Segment)
    BY <2>1, <2>2, GroupOK, ConcatProperties
  <2> QED
    BY <1>0, <1>1, <2>2, <2>3 DEF ExpandSegment, TextOK
<1>2. CASE StartPlugreg
  BY <1>0, <1>2 DEF StartPlugreg, TextOK
<1>3. CASE RegisterLevel
  BY <1>3, RegisterOK
<1>4. CASE SwitchIgnore
  <2>1. cmd' \in Seq(Segment)
    BY <1>4, FirstOK DEF SwitchIgnore, TextOK
  <2> QED
    BY <1>0, <1>4, <2>1 DEF SwitchIgnore, TextOK
<1>5. CASE EndPlugreg(stdin)
  BY <1>0, <1>5 DEF EndPlugreg, TextOK
<1> QED
  BY <1>1, <1>2, <1>3, <1>4, <1>5 DEF SelectNext

\* main leaves the selection only for a benchmark or a merge, or to end.
LEMMA SelectKept == SelectInv /\ [Next]_vars => SelectInv'
<1> SUFFICES ASSUME SelectInv, [Next]_vars PROVE SelectInv'
  OBVIOUS
<1> USE DEF SelectInv
<1>0. ASSUME UNCHANGED selVars, main \in {"build", main'} \/ main' \notin {"options", "select", "build", "bench"}
      PROVE  SelectInv'
  <2>1. UNCHANGED <<spec, cmd, plug, wanted, selected>>
    BY <1>0 DEF selVars
  <2> QED
    BY <1>0, <2>1 DEF TextOK, TableOK, TableHasRoom, TwiceOnlyWhenCut, WantedHere, Picked
<1>1. CASE Parse
  BY <1>0, <1>1 DEF Parse
<1>2. CASE HandleOption
  <2>1. main' \in {main, "crash", "usage"}
    BY <1>2 DEF HandleOption, SetOption
  <2> QED
    BY <1>0, <1>2, <2>1 DEF HandleOption
<1>3. CASE StartSelect
  <2>1. spec' \in Seq(Segment)
    <3>1. [name |-> "unknown", levels |-> <<>>] \in Segment
      <4>1. <<>> \in Seq([lev : Seq(Nat), prm : Param]) /\ "unknown" \in Name \cup {"ON", "OFF"}
        BY NoneOK, SpecsAssumption
      <4> QED
        BY <4>1, Zenon DEF Segment
    <3> QED
      BY <1>3, <3>1, OneOK, SpecsAssumption DEF StartSelect
  <2>2. UNCHANGED <<cmd, plug, wanted, selected>> /\ main' = "select" /\ main = "options"
    BY <1>3 DEF StartSelect
  <2> QED
    BY <2>1, <2>2 DEF TextOK, TableOK, TableHasRoom, TwiceOnlyWhenCut, WantedHere, Picked
<1>4. CASE Select
  <2>1. CASE selected = "ok"
    <3>1. UNCHANGED <<spec, cmd, plug, wanted, selected>>
      BY <1>4, <2>1 DEF Select, selVars
    <3> QED
      BY <2>1, <3>1 DEF TextOK, TableOK, TableHasRoom, TwiceOnlyWhenCut, WantedHere, Picked
  <2>2. CASE selected # "ok"
    <3>1. SelectNext(Stdin) /\ main = "select"
          /\ main' = IF selected' \in {"exit", "die"} THEN "exit" ELSE main
      BY <1>4, <2>2 DEF Select
    <3>2. TextOK' /\ TableOK' /\ WantedHere'
      BY <3>1, SelectStep
    <3> QED
      BY <3>1, <3>2 DEF Picked
  <2> QED
    BY <2>1, <2>2
<1>5. CASE StartBuild \/ Build
  <2>1. main = "build" /\ UNCHANGED selVars /\ main' \in {main, "exit", "crash"}
    BY <1>5 DEF StartBuild, Build
  <2> QED
    BY <1>0, <2>1
<1>6. CASE UNCHANGED vars
  BY <1>0, <1>6 DEF vars
<1> QED
  BY <1>1, <1>2, <1>3, <1>4, <1>5, <1>6 DEF Next

LEMMA SelectAlways == Spec => []SelectInv
BY SelectStart, SelectKept, PTL DEF Spec

(* A benchmark, or a merge, starts only when everything that was asked for    *)
(* outside a group is in the table of codecs, and everything in it has a level *)
(* that is the front of one of its codec's levels.                            *)
THEOREM WantedAreRun == Spec => []WantedSelected
<1>1. SelectInv => WantedSelected
  BY DEF SelectInv, TableOK, WantedHere, Picked, IsOffered, WantedSelected
<1> QED
  BY <1>1, SelectAlways, PTL

(* The table never holds more than its places, and no codec twice unless its  *)
(* parameter was longer than what is kept of it.                              *)
THEOREM TableInOrder == Spec => [](TableHasRoom /\ TwiceOnlyWhenCut)
<1>1. SelectInv => TableHasRoom /\ TwiceOnlyWhenCut
  BY DEF SelectInv, TableOK
<1> QED
  BY <1>1, SelectAlways, PTL

-----------------------------------------------------------------------------
(* The stack of directories.                                                *)

IsStack(s) == (\E S : s \in Seq(S)) /\ Len(s) <= RDIR_DEPTH
WalkInv == IsStack(dirs)

\* Its topmost directory may be read on.
LEMMA TopRead ==
  ASSUME NEW s, IsStack(s), s # <<>>, NEW x
  PROVE  IsStack([s EXCEPT ![Len(s)] = x]) /\ Len([s EXCEPT ![Len(s)] = x]) = Len(s)
<1>1. PICK S : s \in Seq(S)
  BY DEF IsStack
<1>2. s \in Seq(S \cup {x}) /\ Len(s) \in 1..Len(s)
  BY <1>1
<1>3. [s EXCEPT ![Len(s)] = x] \in Seq(S \cup {x}) /\ Len([s EXCEPT ![Len(s)] = x]) = Len(s)
  BY <1>2, ExceptSeq
<1> QED
  BY <1>3 DEF IsStack

\* One is entered when there is room for it.
LEMMA Entered ==
  ASSUME NEW s, IsStack(s), Len(s) < RDIR_DEPTH, NEW x
  PROVE  IsStack(Append(s, x))
<1>1. PICK S : s \in Seq(S)
  BY DEF IsStack
<1>2. s \in Seq(S \cup {x}) /\ Len(s) \in Nat /\ RDIR_DEPTH \in Nat
  BY <1>1, WalkAssumption
<1>3. Append(s, x) \in Seq(S \cup {x}) /\ Len(Append(s, x)) = Len(s) + 1
  BY <1>2, AppendProperties
<1>4. Len(Append(s, x)) <= RDIR_DEPTH
  BY <1>2, <1>3
<1> QED
  BY <1>3, <1>4 DEF IsStack

LEMMA Left ==
  ASSUME NEW s, IsStack(s), s # <<>>
  PROVE  IsStack(SubSeq(s, 1, Len(s) - 1))
<1>1. PICK S : s \in Seq(S)
  BY DEF IsStack
<1>2. Len(s) \in Nat \ {0} /\ RDIR_DEPTH \in Nat
  BY <1>1, WalkAssumption
<1>3. 1 \in 1..Len(s) + 1 /\ Len(s) - 1 \in 1 - 1..Len(s) /\ Len(s) <= RDIR_DEPTH
  BY <1>2 DEF IsStack
<1>4. SubSeq(s, 1, Len(s) - 1) \in Seq(S)
      /\ Len(SubSeq(s, 1, Len(s) - 1)) = IF 1 <= Len(s) - 1 THEN Len(s) - 1 - 1 + 1 ELSE 0
  BY <1>1, <1>3, SubSeqProperties
<1>5. Len(SubSeq(s, 1, Len(s) - 1)) <= RDIR_DEPTH
  BY <1>2, <1>3, <1>4
<1> QED
  BY <1>4, <1>5 DEF IsStack

LEMMA EmptyStack == IsStack(<<>>)
<1>1. <<>> \in Seq({})
  BY NoneOK
<1>2. Len(<<>>) <= RDIR_DEPTH
  BY WalkAssumption
<1> QED
  BY <1>1, <1>2 DEF IsStack

\* The walk keeps the stack within its places.
LEMMA WalkStep == ASSUME WalkInv, rdirnext PROVE WalkInv'
<1> USE DEF WalkInv
<1>1. CASE NextInDir
  <2>1. PICK n \in Top.left :
          LET rest == [dirs EXCEPT ![Len(dirs)].left = @ \ {n}]
          IN \/ dirs' = rest
             \/ Len(dirs) < RDIR_DEPTH /\ \E x : dirs' = Append(rest, x)
    BY <1>1 DEF NextInDir
  <2>2. IsStack([dirs EXCEPT ![Len(dirs)].left = @ \ {n}])
        /\ Len([dirs EXCEPT ![Len(dirs)].left = @ \ {n}]) = Len(dirs)
    BY <1>1, TopRead DEF NextInDir
  <2> QED
    BY <2>1, <2>2, Entered
<1>2. CASE EndOfDir
  BY <1>2, Left DEF EndOfDir
<1>3. CASE NextOperand
  <2>1. dirs' = dirs \/ \E x : dirs' = <<x>>
    BY <1>3 DEF NextOperand
  <2>2. ASSUME NEW x PROVE IsStack(<<x>>)
    <3>1. <<x>> \in Seq({x}) /\ Len(<<x>>) <= RDIR_DEPTH
      BY OneOK, WalkAssumption
    <3> QED
      BY <3>1 DEF IsStack
  <2> QED
    BY <2>1, <2>2
<1>4. CASE UnsetPos \/ NameOverrun \/ WalkEnds
  BY <1>4 DEF UnsetPos, NameOverrun, WalkEnds
<1> QED
  BY <1>1, <1>2, <1>3, <1>4 DEF rdirnext

LEMMA WalkKept == WalkInv /\ [Next]_vars => WalkInv'
<1> SUFFICES ASSUME WalkInv, [Next]_vars PROVE WalkInv'
  OBVIOUS
<1>0. ASSUME dirs' \in {dirs, <<>>} PROVE WalkInv'
  BY <1>0, EmptyStack DEF WalkInv
<1>1. CASE Parse \/ HandleOption \/ StartSelect \/ Select
  BY <1>0, <1>1 DEF Parse, HandleOption, StartSelect, Select, buildVars, walkVars
<1>2. CASE StartBuild
  BY <1>0, <1>2 DEF StartBuild, bebuild, rdiropen, walkVars
<1>3. CASE Build
  <2>1. BuildNext(opts.filenmax, opts.delim)
    BY <1>3 DEF Build
  <2>2. CASE Walk
    BY <2>2, WalkStep DEF Walk
  <2>3. CASE TakeEntry(opts.filenmax)
    BY <1>0, <2>3 DEF TakeEntry
  <2>4. CASE WalkDone
    BY <1>0, <2>4 DEF WalkDone, rdirclose
  <2>5. CASE NextFile(opts.filenmax, opts.delim)
    BY <1>0, <2>5 DEF NextFile, walkVars
  <2>6. CASE FilesDone
    BY <1>0, <2>6 DEF FilesDone, walkVars
  <2> QED
    BY <2>1, <2>2, <2>3, <2>4, <2>5, <2>6 DEF BuildNext
<1>4. CASE UNCHANGED vars
  BY <1>0, <1>4 DEF vars, buildVars, walkVars
<1> QED
  BY <1>1, <1>2, <1>3, <1>4 DEF Next

(* However deep the tree is, and though links may lead back to a directory    *)
(* above, no more than RDIR_DEPTH directories are open.                       *)
THEOREM StackHasRoom == Spec => []StackHolds
<1>1. Init => WalkInv
  BY EmptyStack DEF Init, BuildInit, WalkInit, WalkInv
<1>2. WalkInv => StackHolds
  BY DEF WalkInv, IsStack, StackHolds
<1> QED
  BY <1>1, <1>2, WalkKept, PTL DEF Spec

-----------------------------------------------------------------------------
(* The greatest common divisor, as Euclid finds it.                         *)

Positive == Nat \ {0}

LEMMA Euclid ==
  ASSUME NEW x \in Nat, NEW y \in Positive
  PROVE  /\ x % y \in Nat /\ x % y < y /\ x \div y \in Nat
         /\ x = (x \div y) * y + (x % y)
BY DEF Positive

LEMMA Quotient ==
  ASSUME NEW q \in Nat, NEW y \in Positive, NEW r \in Nat, r < y
  PROVE  (q * y + r) \div y = q /\ (q * y + r) % y = r
<1> DEFINE x == q * y + r
           p == x \div y
           s == x % y
<1>1. x \in Nat
  BY DEF Positive
<1>2. p \in Nat /\ s \in Nat /\ s < y /\ x = p * y + s
  BY <1>1, Euclid
<1> HIDE DEF p, s
<1>3. p = q
  <2>1. ASSUME NEW m \in Nat, NEW n \in Nat, m < n PROVE m * y + y <= n * y
    <3>1. PICK d \in Nat : n = m + 1 + d
      <4>1. n - m - 1 \in Nat /\ n = m + 1 + (n - m - 1)
        BY <2>1
      <4> QED
        BY <4>1
    <3>2. n * y = m * y + y + d * y /\ d * y \in Nat /\ m * y \in Nat /\ n * y \in Nat
      BY <3>1 DEF Positive
    <3> QED
      BY <3>2 DEF Positive
  <2>2. p * y \in Nat /\ q * y \in Nat /\ y \in Nat
    BY <1>2 DEF Positive
  <2>3. ~(p < q) /\ ~(q < p)
    BY <1>2, <2>1, <2>2
  <2> QED
    BY <1>2, <2>3
<1>4. s = r
  <2>1. q * y \in Nat
    BY DEF Positive
  <2> QED
    BY <1>2, <1>3, <2>1
<1> QED
  BY <1>3, <1>4 DEF p, s

Divides(d, x) == \E m \in Positive : x = d * m
CommonDivisors(x, y) == {d \in Positive : Divides(d, x) /\ Divides(d, y)}
GreatestOf(S) == CHOOSE d \in S : \A e \in S : e <= d

\* One step of the recursion gcd is defined by.
GcdStep(u, p) == IF p[1] % p[2] = 0 THEN p[2] ELSE u[<<p[2], p[1] % p[2]>>]

LEMMA GcdIsRecursive == gcd = CHOOSE u : u = [p \in Pairs |-> GcdStep(u, p)]
BY DEF gcd, GcdStep

\* What divides two numbers divides the remainder, and the other way round.
LEMMA SameDivisors ==
  ASSUME NEW x \in Positive, NEW y \in Positive, x % y # 0
  PROVE  CommonDivisors(x, y) = CommonDivisors(y, x % y)
<1> DEFINE q == x \div y
           r == x % y
<1>1. q \in Nat /\ r \in Positive /\ x = q * y + r
  BY Euclid DEF Positive
<1> HIDE DEF q, r
<1>2. ASSUME NEW d \in Positive, NEW m \in Positive, NEW n \in Positive, x = d * m, y = d * n
      PROVE  Divides(d, r)
  <2>1. q * y = d * (q * n)
    BY <1>1, <1>2 DEF Positive
  <2>2. r = d * (m - q * n)
    <3>1. d * (m - q * n) = d * m - d * (q * n) /\ q * n \in Nat /\ d * (q * n) \in Nat
      BY <1>1 DEF Positive
    <3> QED
      BY <1>1, <1>2, <2>1, <3>1 DEF Positive
  <2>3. m - q * n \in Positive
    <3>1. m - q * n \in Int
      BY <1>1 DEF Positive
    <3>2. ASSUME NEW k \in Int, k <= 0 PROVE d * k <= 0
      BY <3>2 DEF Positive
    <3>3. ~(m - q * n <= 0)
      BY <1>1, <2>2, <3>1, <3>2 DEF Positive
    <3> QED
      BY <3>1, <3>3 DEF Positive
  <2> QED
    BY <2>2, <2>3 DEF Divides
<1>3. ASSUME NEW d \in Positive, NEW m \in Positive, NEW n \in Positive, r = d * m, y = d * n
      PROVE  Divides(d, x)
  <2>1. x = d * (q * n + m)
    <3>1. d * (q * n + m) = d * (q * n) + d * m /\ q * (d * n) = d * (q * n)
      BY <1>1 DEF Positive
    <3> QED
      BY <1>1, <1>3, <3>1
  <2>2. q * n + m \in Positive
    <3>1. q * n \in Nat
      BY <1>1 DEF Positive
    <3> QED
      BY <3>1 DEF Positive
  <2> QED
    BY <2>1, <2>2 DEF Divides
<1>4. \A d \in Positive : Divides(d, x) /\ Divides(d, y) => Divides(d, r)
  BY <1>2 DEF Divides
<1>5. \A d \in Positive : Divides(d, y) /\ Divides(d, r) => Divides(d, x)
  BY <1>3 DEF Divides
<1>6. \A d \in Positive : Divides(d, x) /\ Divides(d, y) <=> Divides(d, y) /\ Divides(d, r)
  BY <1>4, <1>5
<1>7. CommonDivisors(x, y) = CommonDivisors(y, r)
  BY <1>6 DEF CommonDivisors
<1> QED
  BY <1>7 DEF r

LEMMA OwnDivisor ==
  ASSUME NEW x \in Positive, NEW y \in Positive, x % y = 0
  PROVE  GreatestOf(CommonDivisors(x, y)) = y
<1>1. Divides(y, x)
  <2> DEFINE q == x \div y
  <2>1. q \in Nat /\ x = q * y + 0
    BY Euclid DEF Positive
  <2> HIDE DEF q
  <2>2. q # 0
    BY <2>1 DEF Positive
  <2>3. x = y * q /\ q \in Positive
    BY <2>1, <2>2 DEF Positive
  <2> QED
    BY <2>3 DEF Divides
<1>2. Divides(y, y)
  <2>1. y = y * 1 /\ 1 \in Positive
    BY DEF Positive
  <2> QED
    BY <2>1 DEF Divides
<1>3. y \in CommonDivisors(x, y)
  BY <1>1, <1>2 DEF CommonDivisors
<1>4. ASSUME NEW d \in Positive, Divides(d, y) PROVE d <= y
  <2>1. PICK m \in Positive : y = d * m
    BY <1>4 DEF Divides
  <2>2. PICK n \in Nat : m = n + 1
    <3>1. m - 1 \in Nat /\ m = (m - 1) + 1
      BY DEF Positive
    <3> QED
      BY <3>1
  <2>3. y = d * n + d /\ d * n \in Nat
    BY <2>1, <2>2 DEF Positive
  <2> QED
    BY <2>3 DEF Positive
<1>5. \A d \in CommonDivisors(x, y) : d \in Positive /\ d <= y
  BY <1>4 DEF CommonDivisors
<1>6. \A d \in CommonDivisors(x, y) : (\A e \in CommonDivisors(x, y) : e <= d) => d = y
  BY <1>3, <1>5 DEF Positive
<1> QED
  BY <1>3, <1>5, <1>6 DEF GreatestOf

\* Euclid's recursion has a solution, so gcd is one.
LEMMA GcdSolves == \A p \in Pairs : gcd[p] = GcdStep(gcd, p)
<1> DEFINE u == [p \in Pairs |-> GreatestOf(CommonDivisors(p[1], p[2]))]
<1>1. ASSUME NEW p \in Pairs PROVE u[p] = GcdStep(u, p)
  <2>1. PICK x \in Positive, y \in Positive : p = <<x, y>>
    BY DEF Pairs, Positive
  <2>2. p[1] = x /\ p[2] = y
    BY <2>1
  <2>3. CASE x % y = 0
    BY <2>2, <2>3, OwnDivisor DEF GcdStep
  <2>4. CASE x % y # 0
    <3>1. x % y \in Positive
      BY <2>4, Euclid DEF Positive
    <3>2. <<y, x % y>> \in Pairs /\ <<y, x % y>>[1] = y /\ <<y, x % y>>[2] = x % y
      BY <3>1 DEF Pairs, Positive
    <3>3. u[<<y, x % y>>] = GreatestOf(CommonDivisors(y, x % y))
      BY <3>2
    <3>4. CommonDivisors(x, y) = CommonDivisors(y, x % y)
      BY <2>4, SameDivisors
    <3>5. u[p] = GreatestOf(CommonDivisors(x, y))
      BY <2>2
    <3> HIDE DEF u
    <3> QED
      BY <2>2, <2>4, <3>3, <3>4, <3>5 DEF GcdStep
  <2> QED
    BY <2>3, <2>4
<1>2. u = [p \in Pairs |-> GcdStep(u, p)]
  BY <1>1
<1> HIDE DEF u
<1>3. gcd = [p \in Pairs |-> GcdStep(gcd, p)]
  BY <1>2, GcdIsRecursive
<1>4. ASSUME NEW p \in Pairs PROVE [q \in Pairs |-> GcdStep(gcd, q)][p] = GcdStep(gcd, p)
  OBVIOUS
<1> QED
  BY <1>3, <1>4

\* It divides both numbers and is a sum of multiples of them.
LEMMA GcdIs ==
  ASSUME NEW x \in Positive, NEW y \in Positive
  PROVE  /\ gcd[<<x, y>>] \in Positive
         /\ Divides(gcd[<<x, y>>], x) /\ Divides(gcd[<<x, y>>], y)
         /\ \E s \in Int, t \in Int : gcd[<<x, y>>] = s * x + t * y
<1> DEFINE Good(a, b) == /\ gcd[<<a, b>>] \in Positive
                         /\ Divides(gcd[<<a, b>>], a) /\ Divides(gcd[<<a, b>>], b)
                         /\ \E s \in Int, t \in Int : gcd[<<a, b>>] = s * a + t * b
           Bad == {b \in Positive : \E a \in Positive : ~Good(a, b)}
<1>1. ASSUME NEW b \in Bad PROVE \E c \in Bad : ~(b <= c)
  <2>1. PICK a \in Positive : ~Good(a, b)
    OBVIOUS
  <2>2. b \in Positive
    OBVIOUS
  <2>3. <<a, b>> \in Pairs /\ <<a, b>>[1] = a /\ <<a, b>>[2] = b
    BY <2>2 DEF Pairs, Positive
  <2> DEFINE q == a \div b
             r == a % b
  <2>4. q \in Nat /\ r \in Nat /\ r < b /\ a = q * b + r
    <3>1. a \in Nat
      BY DEF Positive
    <3> HIDE DEF Bad, Good
    <3> QED
      BY <2>2, <3>1, Euclid
  <2>5. gcd[<<a, b>>] = IF r = 0 THEN b ELSE gcd[<<b, r>>]
    BY <2>3, GcdSolves DEF GcdStep
  <2> HIDE DEF q, r
  <2>6. CASE r = 0
    <3>1. q # 0 /\ a = b * q /\ q \in Positive
      BY <2>2, <2>4, <2>6 DEF Positive
    <3>2. b = b * 1 /\ 1 \in Positive /\ b = 0 * a + 1 * b
      BY <2>2 DEF Positive
    <3>3. Divides(b, a) /\ Divides(b, b)
      BY <3>1, <3>2 DEF Divides
    <3>4. Good(a, b)
      BY <2>2, <2>5, <2>6, <3>2, <3>3
    <3> QED
      BY <2>1, <3>4
  <2>7. CASE r # 0 /\ Good(b, r)
    <3> DEFINE g == gcd[<<b, r>>]
    <3>1. g \in Positive /\ Divides(g, b) /\ Divides(g, r) /\ gcd[<<a, b>>] = g
      BY <2>5, <2>7
    <3>2. PICK s \in Int, t \in Int : g = s * b + t * r
      BY <2>7
    <3>3. PICK m \in Positive, n \in Positive : b = g * m /\ r = g * n
      BY <3>1 DEF Divides
    <3> HIDE DEF g
    <3>4. a = g * (q * m + n) /\ q * m + n \in Positive
      <4>1. q * m \in Nat /\ q * (g * m) = g * (q * m) /\ g * (q * m + n) = g * (q * m) + g * n
        BY <2>4, <3>1 DEF Positive
      <4> QED
        BY <2>4, <3>3, <4>1 DEF Positive
    <3>5. g = t * a + (s - t * q) * b
      <4>1. (s - t * q) * b = s * b - t * (q * b) /\ t * (q * b + r) = t * (q * b) + t * r
        BY <2>2, <2>4 DEF Positive
      <4> QED
        BY <2>2, <2>4, <3>2, <4>1 DEF Positive
    <3>6. s - t * q \in Int
      BY <2>4
    <3>7. Divides(g, a)
      BY <3>4 DEF Divides
    <3>8. Good(a, b)
      BY <3>1, <3>5, <3>6, <3>7
    <3> QED
      BY <2>1, <3>8
  <2>8. CASE r # 0 /\ ~Good(b, r)
    <3>1. r \in Positive
      BY <2>4, <2>8 DEF Positive
    <3>2. r \in Bad
      BY <2>2, <2>8, <3>1
    <3>3. ~(b <= r)
      BY <2>2, <2>4 DEF Positive
    <3> QED
      BY <3>2, <3>3
  <2> QED
    BY <2>6, <2>7, <2>8
<1>2. Bad = {}
  <2>1. Bad \in SUBSET Nat
    BY DEF Positive
  <2> HIDE DEF Bad
  <2> QED
    BY <1>1, <2>1, LeastNumber
<1> QED
  BY <1>2

-----------------------------------------------------------------------------
(* The cycles of permute_args.  Offsets count from the first operand; x is   *)
(* the place swap j of cycle i comes to if x is nn + i + j * no modulo nn + no. *)

OnCycle(nn, no, i, j, x) ==
  x \in 0..(nn + no - 1) /\ \E t \in Int : x = nn + i + j * no - t * (nn + no)

\* A swap comes to one place.
LEMMA OnePlace ==
  ASSUME NEW nn \in Positive, NEW no \in Positive, NEW i \in Int, NEW j \in Int,
         NEW x, NEW y, OnCycle(nn, no, i, j, x), OnCycle(nn, no, i, j, y)
  PROVE  x = y
<1> DEFINE N == nn + no
<1>0. N \in Positive
  BY DEF Positive
<1>1. PICK t \in Int : x = nn + i + j * no - t * N
  BY DEF OnCycle
<1>2. PICK u \in Int : y = nn + i + j * no - u * N
  BY DEF OnCycle
<1>3. x \in 0..(N - 1) /\ y \in 0..(N - 1)
  <2>1. x \in 0..(nn + no - 1) /\ y \in 0..(nn + no - 1)
    BY DEF OnCycle
  <2> QED
    BY <2>1 DEF Positive
<1> HIDE DEF N
<1>4. x - y = (u - t) * N
  <2>1. j * no \in Int /\ (u - t) * N = u * N - t * N /\ u * N \in Int /\ t * N \in Int
    BY <1>0 DEF Positive
  <2> QED
    BY <1>1, <1>2, <2>1 DEF Positive
<1>5. ASSUME NEW k \in Int, k * N \in (1 - N)..(N - 1) PROVE k = 0
  <2>1. CASE k >= 1
    <3>1. k * N = (k - 1) * N + N /\ (k - 1) * N \in Nat
      BY <1>0, <2>1 DEF Positive
    <3> QED
      BY <1>0, <1>5, <3>1 DEF Positive
  <2>2. CASE k <= -1
    <3>1. k * N = -(((-k) - 1) * N) - N /\ ((-k) - 1) * N \in Nat
      BY <1>0, <2>2 DEF Positive
    <3> QED
      BY <1>0, <1>5, <3>1 DEF Positive
  <2> QED
    BY <2>1, <2>2
<1>6. x - y \in (1 - N)..(N - 1)
  BY <1>0, <1>3 DEF Positive
<1>7. u - t = 0
  <2>1. u - t \in Int /\ (u - t) * N \in (1 - N)..(N - 1)
    BY <1>4, <1>6
  <2> QED
    BY <2>1, <1>5
<1>8. x - y = 0
  <2>1. 0 * N = 0
    BY <1>0 DEF Positive
  <2> QED
    BY <1>4, <1>7, <2>1
<1> QED
  BY <1>3, <1>8 DEF Positive

\* The next swap comes to where the rotation takes what is there.
Onward(nn, no, x) == IF x >= nn THEN x - nn ELSE x + no
LEMMA CycleGoesOn ==
  ASSUME NEW nn \in Positive, NEW no \in Positive, NEW i \in Int, NEW j \in Int,
         NEW x, OnCycle(nn, no, i, j, x)
  PROVE  OnCycle(nn, no, i, j + 1, Onward(nn, no, x))
<1>1. PICK t \in Int : x = nn + i + j * no - t * (nn + no)
  BY DEF OnCycle
<1>2. x \in 0..(nn + no - 1)
  BY DEF OnCycle
<1>3. /\ j * no \in Int /\ t * (nn + no) \in Int /\ (j + 1) * no = j * no + no
      /\ (t + 1) * (nn + no) = t * (nn + no) + nn + no
  BY DEF Positive
<1>4. CASE x >= nn
  <2>1. x - nn = nn + i + (j + 1) * no - (t + 1) * (nn + no) /\ x - nn \in 0..(nn + no - 1)
    BY <1>1, <1>2, <1>3, <1>4 DEF Positive
  <2>2. t + 1 \in Int
    OBVIOUS
  <2> QED
    BY <1>4, <2>1, <2>2 DEF OnCycle, Onward
<1>5. CASE ~(x >= nn)
  <2>1. x + no = nn + i + (j + 1) * no - t * (nn + no) /\ x + no \in 0..(nn + no - 1)
    BY <1>1, <1>2, <1>3, <1>5 DEF Positive
  <2> QED
    BY <1>5, <2>1 DEF OnCycle, Onward
<1> QED
  BY <1>4, <1>5

\* Number and length of the cycles.
Cycles(nn, no)   == gcd[<<nn, no>>]
CycleLen(nn, no) == (nn + no) \div Cycles(nn, no)
LEMMA CyclesAre ==
  ASSUME NEW nn \in Positive, NEW no \in Positive
  PROVE  /\ Cycles(nn, no) \in Positive /\ CycleLen(nn, no) \in Nat /\ CycleLen(nn, no) >= 2
         /\ nn + no = Cycles(nn, no) * CycleLen(nn, no) /\ Cycles(nn, no) <= no
         /\ \E m \in Positive : no = Cycles(nn, no) * m
         /\ \E s \in Int, t \in Int : Cycles(nn, no) = s * no + t * (nn + no)
<1> DEFINE g == Cycles(nn, no)
<1>1. /\ g \in Positive /\ Divides(g, nn) /\ Divides(g, no)
      /\ \E s \in Int, t \in Int : g = s * nn + t * no
  BY GcdIs DEF Cycles
<1>2. PICK m \in Positive, n \in Positive : nn = g * n /\ no = g * m
  BY <1>1 DEF Divides
<1>3. PICK s \in Int, t \in Int : g = s * nn + t * no
  BY <1>1
<1>5. CycleLen(nn, no) = (nn + no) \div g
  BY DEF CycleLen
<1> HIDE DEF g
<1>4. nn + no = (n + m) * g + 0 /\ n + m \in Nat /\ n + m >= 2 /\ g * (n + m) = (n + m) * g
  BY <1>1, <1>2 DEF Positive
<1>6. CycleLen(nn, no) = n + m
  <2>1. 0 \in Nat /\ 0 < g
    BY <1>1 DEF Positive
  <2>2. ((n + m) * g + 0) \div g = n + m
    BY <1>1, <1>4, <2>1, Quotient
  <2> QED
    BY <1>4, <1>5, <2>2
<1>7. g <= no
  <2>1. no = g * (m - 1) + g /\ g * (m - 1) \in Nat
    BY <1>1, <1>2 DEF Positive
  <2> QED
    BY <1>1, <2>1 DEF Positive
<1>8. g = (t - s) * no + s * (nn + no) /\ t - s \in Int
  <2>1. (t - s) * no + s * (nn + no) = t * no + s * nn
    BY DEF Positive
  <2>2. s * nn \in Int /\ t * no \in Int
    BY DEF Positive
  <2> QED
    BY <1>3, <2>1, <2>2
<1>9. \E x \in Int, y \in Int : g = x * no + y * (nn + no)
  BY <1>8
<1>10. \E x \in Positive : no = g * x
  BY <1>2
<1>11. nn + no = g * (n + m)
  BY <1>1, <1>4 DEF Positive
<1> QED
  BY <1>1, <1>4, <1>6, <1>7, <1>9, <1>10, <1>11 DEF g

\* No two swaps come to the same place.
LEMMA CyclesApart ==
  ASSUME NEW nn \in Positive, NEW no \in Positive,
         NEW i \in 0..(Cycles(nn, no) - 1), NEW k \in 0..(Cycles(nn, no) - 1),
         NEW j \in 1..CycleLen(nn, no), NEW l \in 1..CycleLen(nn, no),
         NEW x, OnCycle(nn, no, i, j, x), OnCycle(nn, no, k, l, x)
  PROVE  i = k /\ j = l
<1> DEFINE g == Cycles(nn, no)
           c == CycleLen(nn, no)
           N == nn + no
<1>1. /\ g \in Positive /\ c \in Nat /\ c >= 2 /\ N = g * c /\ N \in Positive
      /\ i \in 0..(g - 1) /\ k \in 0..(g - 1) /\ j \in 1..c /\ l \in 1..c
  BY CyclesAre DEF Positive
<1>2. PICK m \in Positive : no = g * m
  BY CyclesAre
<1>3. PICK s \in Int, t \in Int : g = s * no + t * N
  BY CyclesAre
<1>4. PICK u \in Int : x = nn + i + j * no - u * (nn + no)
  BY DEF OnCycle
<1>5. PICK v \in Int : x = nn + k + l * no - v * (nn + no)
  BY DEF OnCycle
<1>6. x \in Int
  <2>1. x \in 0..(nn + no - 1)
    BY DEF OnCycle
  <2> QED
    BY <2>1 DEF Positive
<1>7. /\ nn \in Int /\ no \in Int /\ j * no \in Int /\ l * no \in Int /\ u * N \in Int /\ v * N \in Int
      /\ (j - l) * no = j * no - l * no /\ (u - v) * N = u * N - v * N
      /\ i \in Int /\ k \in Int /\ j \in Int /\ l \in Int
  BY <1>1 DEF Positive
<1>8. x = nn + i + j * no - u * N /\ x = nn + k + l * no - v * N
  BY <1>4, <1>5
<1> HIDE DEF g, c, N
<1>9. k - i = (j - l) * no - (u - v) * N
  <2> DEFINE a == j * no
             b == l * no
             e == u * N
             f == v * N
  <2>1. a \in Int /\ b \in Int /\ e \in Int /\ f \in Int
    BY <1>7
  <2>2. nn + i + a - e = nn + k + b - f
    BY <1>8
  <2>3. (j - l) * no - (u - v) * N = (a - b) - (e - f)
    BY <1>7
  <2> HIDE DEF a, b, e, f
  <2>4. k - i = (a - b) - (e - f)
    BY <1>7, <2>1, <2>2
  <2> QED
    BY <2>3, <2>4
<1>10. k - i = ((j - l) * m - (u - v) * c) * g
  <2>1. (j - l) * no = (j - l) * m * g /\ (u - v) * N = (u - v) * c * g
    BY <1>1, <1>2, <1>7 DEF Positive
  <2>2. ((j - l) * m - (u - v) * c) * g = (j - l) * m * g - (u - v) * c * g
    BY <1>1, <1>2, <1>7 DEF Positive
  <2> QED
    BY <1>9, <2>1, <2>2
<1>11. ASSUME NEW d \in Positive, NEW z \in Int, z * d \in (1 - d)..(d - 1) PROVE z = 0
  <2>1. CASE z >= 1
    <3>1. z * d = (z - 1) * d + d /\ (z - 1) * d \in Nat
      BY <2>1 DEF Positive
    <3> QED
      BY <1>11, <3>1 DEF Positive
  <2>2. CASE z <= -1
    <3>1. z * d = -(((-z) - 1) * d) - d /\ ((-z) - 1) * d \in Nat
      BY <2>2 DEF Positive
    <3> QED
      BY <1>11, <3>1 DEF Positive
  <2> QED
    BY <2>1, <2>2
<1>12. i = k
  <2> DEFINE z == (j - l) * m - (u - v) * c
  <2>1. z \in Int /\ k - i = z * g
    BY <1>1, <1>10 DEF Positive
  <2>2. k - i \in (1 - g)..(g - 1)
    BY <1>1 DEF Positive
  <2> HIDE DEF z
  <2>3. z = 0 /\ 0 * g = 0
    BY <1>1, <1>11, <2>1, <2>2 DEF Positive
  <2> QED
    BY <1>7, <2>1, <2>3
<1>13. (j - l) * no = (u - v) * N
  BY <1>7, <1>9, <1>12
<1>14. (j - l) * g = (s * (u - v) + (j - l) * t) * c * g
  <2>1. (j - l) * g = s * ((j - l) * no) + (j - l) * t * N
    BY <1>1, <1>3, <1>7 DEF Positive
  <2>2. s * ((u - v) * N) + (j - l) * t * N = (s * (u - v) + (j - l) * t) * N
    BY <1>1, <1>7 DEF Positive
  <2>3. (s * (u - v) + (j - l) * t) * N = (s * (u - v) + (j - l) * t) * c * g
    BY <1>1, <1>7 DEF Positive
  <2> QED
    BY <1>13, <2>1, <2>2, <2>3
<1>15. j - l = (s * (u - v) + (j - l) * t) * c
  <2> DEFINE z == (s * (u - v) + (j - l) * t) * c
  <2>1. z \in Int /\ (j - l - z) * g = (j - l) * g - z * g /\ (j - l) * g = z * g
    BY <1>1, <1>7, <1>14 DEF Positive
  <2>2. (j - l) * g \in Int
    BY <1>1, <1>7 DEF Positive
  <2> HIDE DEF z
  <2>3. (j - l - z) * g = 0 /\ j - l - z \in Int
    BY <1>7, <2>1, <2>2
  <2>4. j - l - z = 0
    BY <1>1, <1>11, <2>3 DEF Positive
  <2> QED
    BY <1>7, <2>1, <2>4 DEF z
<1>16. j - l = 0
  <2>1. s * (u - v) + (j - l) * t \in Int /\ c \in Positive /\ j - l \in (1 - c)..(c - 1)
    BY <1>1, <1>7 DEF Positive
  <2>2. s * (u - v) + (j - l) * t = 0 /\ 0 * c = 0
    BY <1>1, <1>11, <1>15, <2>1
  <2> QED
    BY <1>15, <2>2
<1> QED
  BY <1>7, <1>12, <1>16

\* Every place is come to.
LEMMA CyclesCover ==
  ASSUME NEW nn \in Positive, NEW no \in Positive, NEW x \in 0..(nn + no - 1)
  PROVE  \E i \in 0..(Cycles(nn, no) - 1), j \in 1..CycleLen(nn, no) : OnCycle(nn, no, i, j, x)
<1> DEFINE g == Cycles(nn, no)
           c == CycleLen(nn, no)
           N == nn + no
<1>1. g \in Positive /\ c \in Nat /\ c >= 2 /\ N = g * c /\ N \in Positive /\ c \in Positive
  BY CyclesAre DEF Positive
<1>2. PICK m \in Positive : no = g * m
  BY CyclesAre
<1>3. PICK s \in Int, t \in Int : g = s * no + t * N
  BY CyclesAre
<1>4. x \in Nat /\ no \in Nat /\ nn \in Nat /\ x + no \in Nat /\ N = nn + no
  BY DEF Positive
<1>5. SUFFICES \E i \in 0..(g - 1), j \in 1..c, u \in Int : x = nn + i + j * no - u * N
  BY <1>4 DEF OnCycle
<1> HIDE DEF g, c, N
<1> DEFINE q == (x + no) \div g
           i == (x + no) % g
<1>6. q \in Nat /\ i \in Nat /\ i < g /\ x + no = q * g + i
  BY <1>1, <1>4, Euclid
<1> HIDE DEF q, i
<1> DEFINE e == q * s
           z == IF e < 0 THEN -e ELSE 0
<1>7. e \in Int /\ z \in Nat /\ e + z * c \in Nat
  <2>1. e \in Int
    BY <1>6
  <2> HIDE DEF e
  <2>2. z \in Nat /\ e + z >= 0
    BY <2>1
  <2> HIDE DEF z
  <2>3. z * c = z + z * (c - 1) /\ z * (c - 1) \in Nat
    BY <1>1, <2>2
  <2> QED
    BY <2>1, <2>2, <2>3
<1> HIDE DEF z
<1> DEFINE a == e + z * c + (c - 1)
           p == a \div c
           r == a % c
<1>8. p \in Nat /\ r \in Nat /\ r < c /\ a = p * c + r
  <2>1. a \in Nat
    <3> HIDE DEF e
    <3> QED
      BY <1>1, <1>7
  <2> HIDE DEF a
  <2> QED
    BY <1>1, <2>1, Euclid
<1> HIDE DEF p, r
<1>9. e = (p - 1 - z) * c + (r + 1)
  <2>1. (p - 1 - z) * c = p * c - c - z * c /\ p * c \in Int /\ z * c \in Int
    BY <1>1, <1>7, <1>8
  <2> HIDE DEF e
  <2> QED
    BY <1>1, <1>7, <1>8, <2>1
<1> DEFINE w == p - 1 - z
           j == r + 1
<1>10. w \in Int /\ j \in 1..c /\ j \in Int /\ e = w * c + j
  BY <1>1, <1>7, <1>8, <1>9
<1> HIDE DEF w, j
<1>11. c * no = m * N
  BY <1>1, <1>2 DEF Positive
<1>12. q * g = j * no + (w * m + q * t) * N
  <2>1. q * g = e * no + (q * t) * N
    BY <1>1, <1>3, <1>4, <1>6
  <2>2. e * no = (w * c) * no + j * no
    <3> HIDE DEF e
    <3> QED
      BY <1>1, <1>4, <1>7, <1>10
  <2>3. (w * c) * no = w * (c * no) /\ w * (m * N) = (w * m) * N
    BY <1>1, <1>2, <1>4, <1>10 DEF Positive
  <2>4. (w * c) * no = (w * m) * N
    BY <1>11, <2>3
  <2>5. (w * m + q * t) * N = (w * m) * N + (q * t) * N
    BY <1>1, <1>2, <1>6, <1>10 DEF Positive
  <2> DEFINE A == (w * m) * N
             B == (q * t) * N
             C == j * no
  <2>6. A \in Int /\ B \in Int /\ C \in Int
    BY <1>1, <1>2, <1>4, <1>6, <1>10 DEF Positive
  <2>7. q * g = (A + C) + B /\ (w * m + q * t) * N = A + B
    BY <2>1, <2>2, <2>4, <2>5
  <2> HIDE DEF A, B, C
  <2>8. (A + C) + B = C + (A + B)
    BY <2>6
  <2> QED
    BY <2>7, <2>8 DEF C
<1> DEFINE u == 1 - (w * m + q * t)
<1>13. u \in Int /\ x = nn + i + j * no - u * N
  <2> DEFINE h == w * m + q * t
             A == h * N
             C == j * no
  <2>1. h \in Int
    BY <1>2, <1>6, <1>10 DEF Positive
  <2>2. A \in Int /\ C \in Int /\ q * g = C + A /\ u = 1 - h /\ C = j * no
    BY <1>1, <1>4, <1>10, <1>12, <2>1 DEF Positive
  <2> HIDE DEF h, u
  <2>3. u * N = N - A
    BY <1>1, <2>1, <2>2 DEF Positive
  <2> HIDE DEF A, C
  <2>4. x + no = C + A + i
    BY <1>6, <2>2
  <2>5. x = nn + i + C - (N - A)
    BY <1>4, <1>6, <2>2, <2>4
  <2> QED
    BY <2>1, <2>2, <2>3, <2>5
<1> HIDE DEF u
<1>14. i \in 0..(g - 1)
  BY <1>1, <1>6 DEF Positive
<1> QED
  BY <1>10, <1>13, <1>14

\* A cycle begins and ends at its own option.
LEMMA CycleCloses ==
  ASSUME NEW nn \in Positive, NEW no \in Positive, NEW i \in 0..(Cycles(nn, no) - 1)
  PROVE  /\ OnCycle(nn, no, i, 0, nn + i)
         /\ OnCycle(nn, no, i, CycleLen(nn, no), nn + i)
<1> DEFINE g == Cycles(nn, no)
           c == CycleLen(nn, no)
           N == nn + no
<1>1. g \in Positive /\ c \in Nat /\ N = g * c /\ g <= no
  BY CyclesAre
<1>2. PICK m \in Positive : no = g * m
  BY CyclesAre
<1>3. i \in 0..(g - 1) /\ N = nn + no
  OBVIOUS
<1> HIDE DEF g, c
<1>4. nn + i \in 0..(nn + no - 1) /\ i \in Int
  BY <1>1, <1>3 DEF Positive
<1>5. nn + i = nn + i + 0 * no - 0 * (nn + no)
  BY <1>4 DEF Positive
<1>6. c * no = m * (nn + no)
  <2>1. c * no = m * N
    <3> HIDE DEF N
    <3> QED
      BY <1>1, <1>2 DEF Positive
  <2> QED
    BY <2>1
<1>7. nn + i = nn + i + c * no - m * (nn + no)
  <2> DEFINE C == c * no
  <2>1. C \in Int /\ C = m * (nn + no)
    BY <1>1, <1>6 DEF Positive
  <2> HIDE DEF C
  <2>2. nn + i = nn + i + C - C
    BY <1>4, <2>1 DEF Positive
  <2> QED
    BY <2>1, <2>2 DEF C
<1>8. 0 \in Int /\ m \in Int
  BY DEF Positive
<1> QED
  BY <1>4, <1>5, <1>7, <1>8 DEF OnCycle, c

-----------------------------------------------------------------------------
(* permute_args.                                                           *)

\* One step of the recursion it is defined by.
SwapStep(start, end, opt_end, cyclelen, nargv, u, n) ==
  IF n = 0 THEN [pos |-> end, v |-> nargv]
  ELSE LET Step(pos) == IF pos >= end THEN pos - (end - start) ELSE pos + (opt_end - end)
           cstart    == end + ((n - 1) \div cyclelen)
           from      == IF (n - 1) % cyclelen = 0 THEN cstart ELSE u[n - 1].pos
           v         == u[n - 1].v
       IN [pos |-> Step(from), v |-> [v EXCEPT ![Step(from)] = v[cstart], ![cstart] = v[Step(from)]]]

SwapCount(start, end, opt_end) ==
  gcd[<<end - start, opt_end - end>>] * ((opt_end - start) \div gcd[<<end - start, opt_end - end>>])
LEMMA SwapsAreRecursive ==
  ASSUME NEW start, NEW end, NEW opt_end, NEW nargv
  PROVE  permute_args(start, end, opt_end, nargv)
           = (CHOOSE u : u = [n \in 0..SwapCount(start, end, opt_end) |->
                               SwapStep(start, end, opt_end,
                                 (opt_end - start) \div gcd[<<end - start, opt_end - end>>], nargv, u, n)])
             [SwapCount(start, end, opt_end)].v
BY DEF permute_args, SwapStep, SwapCount

AreSwaps(u, start, end, opt_end, cyclelen, nargv, N) ==
  u = [n \in 0..N |-> SwapStep(start, end, opt_end, cyclelen, nargv, u, n)]
LEMMA SwapsAreDefined ==
  ASSUME NEW start, NEW end, NEW opt_end, NEW nargv, NEW cyclelen, NEW N \in Nat
  PROVE  \E u : AreSwaps(u, start, end, opt_end, cyclelen, nargv, N)
<1> DEFINE F(u, n) == SwapStep(start, end, opt_end, cyclelen, nargv, u, n)
           Solves(u, n) == \A m \in 0..n : u[m] = F(u, m)
           P == {n \in Nat : \E u : Solves(u, n)}
<1>1. ASSUME NEW u, NEW v, NEW m \in Nat, m = 0 \/ u[m - 1] = v[m - 1] PROVE F(u, m) = F(v, m)
  BY <1>1 DEF SwapStep
<1>2. \A u, v : F(u, 0) = F(v, 0)
  BY DEF SwapStep
<1> HIDE DEF F
<1>3. 0 \in P
  <2>1. Solves([m \in {0} |-> F(<<>>, 0)], 0)
    BY <1>2
  <2> QED
    BY <2>1
<1>4. ASSUME NEW n \in 0..(N - 1), n \in P PROVE n + 1 \in P
  <2>1. PICK u : Solves(u, n)
    BY <1>4
  <2> DEFINE v == [m \in 0..(n + 1) |-> F(u, m)]
  <2>2. ASSUME NEW m \in 0..(n + 1) PROVE v[m] = F(v, m)
    <3>1. m = 0 \/ m - 1 \in 0..n
      OBVIOUS
    <3>2. m = 0 \/ v[m - 1] = u[m - 1]
      BY <2>1, <3>1
    <3>3. F(v, m) = F(u, m)
      <4> HIDE DEF v
      <4> QED
        BY <1>1, <3>2
    <3> QED
      BY <3>3
  <2>3. n + 1 \in Nat
    OBVIOUS
  <2> HIDE DEF v
  <2>4. Solves(v, n + 1)
    BY <2>2
  <2> HIDE DEF Solves
  <2> QED
    BY <2>3, <2>4
<1>5. N \in P
  <2> HIDE DEF P
  <2>1. \A n \in 0..N : n \in P
    BY <1>3, <1>4, CountInduction
  <2> QED
    BY <2>1
<1>6. PICK u : Solves(u, N)
  BY <1>5
<1> DEFINE v == [n \in 0..N |-> u[n]]
<1>7. ASSUME NEW n \in 0..N PROVE v[n] = F(v, n)
  <2>1. n = 0 \/ n - 1 \in 0..N
    OBVIOUS
  <2>2. v[n] = F(u, n)
    BY <1>6
  <2>3. n = 0 \/ v[n - 1] = u[n - 1]
    BY <2>1
  <2>4. F(v, n) = F(u, n)
    <3> HIDE DEF v
    <3> QED
      BY <1>1, <2>3
  <2> QED
    BY <2>2, <2>4
<1>8. v = [n \in 0..N |-> F(v, n)]
  BY <1>7
<1> HIDE DEF v
<1> QED
  BY <1>8 DEF F, AreSwaps

\* The swaps of permute_args one by one.
LEMMA SwapByTurn ==
  ASSUME NEW start \in Nat, NEW end \in Nat, NEW opt_end \in Nat, start < end, end < opt_end, NEW nargv,
         NEW g, NEW c, g = Cycles(end - start, opt_end - end), c = CycleLen(end - start, opt_end - end)
  PROVE  \E u : /\ permute_args(start, end, opt_end, nargv) = u[g * c].v
                /\ \A n \in 0..(g * c) : u[n] = SwapStep(start, end, opt_end, c, nargv, u, n)
<1>1. end - start \in Positive /\ opt_end - end \in Positive
      /\ (end - start) + (opt_end - end) = opt_end - start
  BY DEF Positive
<1>2. g = gcd[<<end - start, opt_end - end>>] /\ c = (opt_end - start) \div g
  BY <1>1 DEF Cycles, CycleLen
<1>3. g * c \in Nat
  <2>1. g \in Positive /\ c \in Nat
    BY <1>1, CyclesAre
  <2> QED
    BY <2>1 DEF Positive
<1> DEFINE N == SwapCount(start, end, opt_end)
           d == (opt_end - start) \div gcd[<<end - start, opt_end - end>>]
           u == CHOOSE w : w = [n \in 0..N |-> SwapStep(start, end, opt_end, d, nargv, w, n)]
<1>4. N = g * c /\ d = c /\ N \in Nat
  BY <1>2, <1>3 DEF SwapCount
<1>5. permute_args(start, end, opt_end, nargv) = u[N].v
  BY SwapsAreRecursive
<1> HIDE DEF N, d
<1>6. u = [n \in 0..N |-> SwapStep(start, end, opt_end, d, nargv, u, n)]
  <2>1. \E w : AreSwaps(w, start, end, opt_end, d, nargv, N)
    BY <1>4, SwapsAreDefined
  <2> QED
    BY <2>1 DEF AreSwaps
<1> HIDE DEF u
<1>7. \A n \in 0..N : u[n] = SwapStep(start, end, opt_end, d, nargv, u, n)
  BY <1>6
<1> QED
  BY <1>4, <1>5, <1>7

\* What permute_args promises: the two blocks have changed places.
Rotated(start, end, opt_end, v) ==
  [p \in DOMAIN v |->
     IF p \notin start..(opt_end - 1) THEN v[p]
     ELSE IF p < start + (opt_end - end) THEN v[p + (end - start)] ELSE v[p - (opt_end - end)]]

LEMMA RotatedAt ==
  ASSUME NEW start, NEW end, NEW opt_end, NEW v, NEW p \in DOMAIN v
  PROVE  /\ p \notin start..(opt_end - 1) => Rotated(start, end, opt_end, v)[p] = v[p]
         /\ p \in start..(opt_end - 1) /\ p < start + (opt_end - end)
              => Rotated(start, end, opt_end, v)[p] = v[p + (end - start)]
         /\ p \in start..(opt_end - 1) /\ ~(p < start + (opt_end - end))
              => Rotated(start, end, opt_end, v)[p] = v[p - (opt_end - end)]
BY DEF Rotated

Exchanged(v, a, b) == [v EXCEPT ![a] = v[b], ![b] = v[a]]

\* After j swaps of cycle i: a place that was come to has what belongs there, the
\* first place of the cycle what was displaced last, every other one what it had.
SwapInv(start, end, opt_end, w, i, j, st) ==
  LET nn == end - start
      no == opt_end - end
  IN /\ st.v = [p \in DOMAIN w |-> st.v[p]]
     /\ \A p \in DOMAIN w : p \notin start..(opt_end - 1) => st.v[p] = w[p]
     /\ j > 0 => \E y : OnCycle(nn, no, i, j, y) /\ st.pos = start + y /\ st.v[end + i] = w[start + y]
     /\ \A a \in 0..(Cycles(nn, no) - 1), b \in 1..CycleLen(nn, no) : \A x :
          OnCycle(nn, no, a, b, x) =>
            IF a < i \/ (a = i /\ b <= j)
            THEN st.v[start + x] = Rotated(start, end, opt_end, w)[start + x]
            ELSE (j > 0 /\ x = nn + i) \/ st.v[start + x] = w[start + x]

LEMMA SwapKeeps ==
  ASSUME NEW start \in Nat, NEW end \in Nat, NEW opt_end \in Nat, start < end, end < opt_end,
         NEW w, start..(opt_end - 1) \subseteq DOMAIN w,
         NEW i \in 0..(Cycles(end - start, opt_end - end) - 1),
         NEW j \in 0..(CycleLen(end - start, opt_end - end) - 1),
         NEW st, SwapInv(start, end, opt_end, w, i, j, st),
         NEW from, from = IF j = 0 THEN end + i ELSE st.pos,
         NEW to, to = IF from >= end THEN from - (end - start) ELSE from + (opt_end - end),
         NEW next, next.pos = to,
         next.v = Exchanged(st.v, to, end + i)
  PROVE  IF j + 1 < CycleLen(end - start, opt_end - end)
         THEN SwapInv(start, end, opt_end, w, i, j + 1, next)
         ELSE SwapInv(start, end, opt_end, w, i + 1, 0, next)
<1> DEFINE nn == end - start
           no == opt_end - end
           g == Cycles(nn, no)
           c == CycleLen(nn, no)
           R == Rotated(start, end, opt_end, w)
           On(a, b, x) == OnCycle(nn, no, a, b, x)
<1>1. nn \in Positive /\ no \in Positive /\ nn + no = opt_end - start
  BY DEF Positive
<1>2. g \in Positive /\ c \in Nat /\ c >= 2 /\ g <= no
  BY <1>1, CyclesAre
<1>3. i \in 0..(g - 1) /\ j \in 0..(c - 1) /\ i \in Nat /\ j \in Nat
  OBVIOUS
<1>4. /\ st.v = [p \in DOMAIN w |-> st.v[p]]
      /\ \A p \in DOMAIN w : p \notin start..(opt_end - 1) => st.v[p] = w[p]
      /\ j > 0 => \E y : On(i, j, y) /\ st.pos = start + y /\ st.v[end + i] = w[start + y]
      /\ \A a \in 0..(g - 1), b \in 1..c : \A x :
           On(a, b, x) => IF a < i \/ (a = i /\ b <= j)
                          THEN st.v[start + x] = R[start + x]
                          ELSE (j > 0 /\ x = nn + i) \/ st.v[start + x] = w[start + x]
  BY DEF SwapInv
<1>5. \A a, b, x : On(a, b, x) => x \in 0..(nn + no - 1) /\ x \in Nat
  <2>1. ASSUME NEW a, NEW b, NEW x, On(a, b, x) PROVE x \in 0..(nn + no - 1)
    BY <2>1 DEF OnCycle
  <2> HIDE DEF nn, no
  <2>2. ASSUME NEW x \in 0..(nn + no - 1) PROVE x \in Nat
    BY <1>1 DEF Positive
  <2> QED
    BY <2>1, <2>2
<1>6. On(i, 0, nn + i) /\ On(i, c, nn + i) /\ nn + i \in Nat /\ start + (nn + i) = end + i
  <2>1. On(i, 0, nn + i) /\ On(i, c, nn + i)
    BY <1>1, <1>3, CycleCloses
  <2> QED
    BY <1>3, <2>1
<1>7. \A a \in 0..(g - 1), k \in 0..(g - 1), b \in 1..c, l \in 1..c : \A x :
        On(a, b, x) /\ On(k, l, x) => a = k /\ b = l
  BY <1>1, CyclesApart
<1>8. \A a, b \in Int : \A x, y : a \in 0..(g - 1) /\ On(a, b, x) /\ On(a, b, y) => x = y
  <2>1. \A a \in 0..(g - 1) : a \in Int
    BY <1>2
  <2> QED
    BY <1>1, <2>1, OnePlace
<1> USE DEF R
<1>9. PICK y : On(i, j, y) /\ from = start + y /\ st.v[end + i] = w[start + y] /\ y \in Nat
  <2>1. CASE j = 0
    <3>1. \/ \E b \in 1..c : b <= 0
          \/ st.v[start + (nn + i)] = w[start + (nn + i)]
      <4>1. c \in 1..c /\ ~(c <= 0) /\ ~(i < i)
        BY <1>2, <1>3
      <4> HIDE DEF On, nn, no, g, c, R
      <4> QED
        BY <1>3, <1>4, <1>6, <2>1, <4>1
    <3>2. st.v[end + i] = w[end + i]
      BY <1>2, <1>6, <3>1
    <3> HIDE DEF On, nn
    <3> QED
      BY <1>6, <2>1, <3>2
  <2>2. CASE j # 0
    <3>1. j > 0
      BY <1>3, <2>2
    <3> HIDE DEF On, nn, no, g, c, R
    <3> QED
      BY <1>4, <1>5, <2>2, <3>1
  <2> QED
    BY <2>1, <2>2
<1> DEFINE z == Onward(nn, no, y)
<1>10. On(i, j + 1, z) /\ z \in Nat /\ to = start + z /\ z \in 0..(nn + no - 1)
  <2>1. On(i, j + 1, z)
    <3>1. i \in Int /\ j \in Int
      BY <1>3
    <3> HIDE DEF nn, no
    <3> QED
      BY <1>1, <1>9, <3>1, CycleGoesOn
  <2>2. to = start + z
    BY <1>9 DEF Onward
  <2> HIDE DEF On, z
  <2> QED
    BY <1>5, <2>1, <2>2
<1>11. R[start + z] = w[start + y]
  <2>1. y \in 0..(nn + no - 1)
    <3> HIDE DEF On
    <3> QED
      BY <1>5, <1>9
  <2>2. start + z \in start..(opt_end - 1)
    BY <1>1, <1>10, <2>1
  <2> HIDE DEF z
  <2>3. to \in DOMAIN w /\ to \in start..(opt_end - 1) /\ to \in Nat
    BY <1>10, <2>2
  <2>4. CASE y >= nn
    <3>1. z = y - nn
      BY <2>4 DEF Onward, z
    <3>2. to < start + no /\ to + nn = start + y
      BY <1>1, <1>9, <1>10, <2>1, <3>1
    <3>3. R[to] = w[to + nn]
      BY <2>3, <3>2, RotatedAt
    <3> QED
      BY <1>10, <3>2, <3>3
  <2>5. CASE ~(y >= nn)
    <3>1. z = y + no
      BY <2>5 DEF Onward, z
    <3>2. ~(to < start + no) /\ to - no = start + y
      BY <1>1, <1>9, <1>10, <2>1, <3>1
    <3>3. R[to] = w[to - no]
      BY <2>3, <3>2, RotatedAt
    <3> QED
      BY <1>10, <3>2, <3>3
  <2> QED
    BY <2>4, <2>5
<1> HIDE DEF z, R
\* The other places keep what they have.
<1>12. /\ to \in DOMAIN w /\ end + i \in DOMAIN w
       /\ to \in start..(opt_end - 1) /\ end + i \in start..(opt_end - 1)
  <2>1. to \in start..(opt_end - 1)
    BY <1>1, <1>10
  <2>2. end + i \in start..(opt_end - 1)
    BY <1>2, <1>3 DEF Positive
  <2> QED
    BY <2>1, <2>2
<1>13. /\ next.v = [p \in DOMAIN w |-> next.v[p]]
       /\ \A p \in DOMAIN w : p # to /\ p # end + i => next.v[p] = st.v[p]
       /\ next.v[end + i] = st.v[to]
       /\ to # end + i => next.v[to] = st.v[end + i]
  BY <1>4, <1>12 DEF Exchanged
<1>14. \A p \in DOMAIN w : p \notin start..(opt_end - 1) => next.v[p] = w[p]
  BY <1>4, <1>12, <1>13
<1>15. \A a, b, x : On(a, b, x) => /\ start + x \in DOMAIN w
                                   /\ start + x = to => x = z
                                   /\ start + x = end + i => x = nn + i
  <2>1. ASSUME NEW x \in 0..(nn + no - 1)
        PROVE  start + x \in DOMAIN w /\ (start + x = to => x = z) /\ (start + x = end + i => x = nn + i)
    BY <1>1, <1>10
  <2> HIDE DEF On
  <2> QED
    BY <1>5, <2>1
<1>16. j + 1 \in 1..c /\ j + 1 \in Int
  BY <1>2, <1>3
<1> HIDE DEF On, nn, no, g, c
<1>17. CASE j + 1 < c
  <2>1. z # nn + i
    <3>1. c \in 1..c /\ j + 1 # c
      BY <1>2, <1>3, <1>17
    <3> QED
      BY <1>3, <1>6, <1>7, <1>10, <1>16, <3>1
  <2>2. to # end + i
    BY <1>6, <1>10, <1>15, <2>1
  <2>3. next.v[to] = R[start + z] /\ to = start + z
    BY <1>9, <1>10, <1>11, <1>13, <2>2
  <2>4. st.v[to] = w[to]
    <3>1. ~(i < i \/ (i = i /\ j + 1 <= j))
      BY <1>3
    <3>2. IF i < i \/ (i = i /\ j + 1 <= j)
          THEN st.v[start + z] = R[start + z]
          ELSE (j > 0 /\ z = nn + i) \/ st.v[start + z] = w[start + z]
      BY <1>3, <1>4, <1>10, <1>16
    <3> QED
      BY <1>10, <2>1, <3>1, <3>2
  <2>5. next.v[end + i] = w[start + z]
    BY <1>10, <1>13, <2>4
  <2>6. ASSUME NEW a \in 0..(g - 1), NEW b \in 1..c, NEW x, On(a, b, x)
        PROVE  IF a < i \/ (a = i /\ b <= j + 1)
               THEN next.v[start + x] = R[start + x]
               ELSE x = nn + i \/ next.v[start + x] = w[start + x]
    <3>1. CASE x = z
      <4>1. a = i /\ b = j + 1
        BY <1>3, <1>7, <1>10, <1>16, <2>6, <3>1
      <4>2. j + 1 <= j + 1
        BY <1>3
      <4> QED
        BY <2>3, <3>1, <4>1, <4>2
    <3>2. CASE x = nn + i
      <4>1. c \in 1..c
        BY <1>2
      <4>2. a = i /\ b = c
        BY <1>3, <1>6, <1>7, <2>6, <3>2, <4>1
      <4>3. ~(a < i \/ (a = i /\ b <= j + 1))
        BY <1>2, <1>3, <1>17, <4>2
      <4> QED
        BY <3>2, <4>3
    <3>3. CASE x # z /\ x # nn + i
      <4>1. next.v[start + x] = st.v[start + x]
        BY <1>13, <1>15, <2>6, <3>3
      <4>2. ~(a = i /\ b = j + 1)
        BY <1>3, <1>8, <1>10, <1>16, <2>6, <3>3
      <4>3. a < i \/ (a = i /\ b <= j) <=> a < i \/ (a = i /\ b <= j + 1)
        BY <1>2, <1>3, <4>2
      <4>4. IF a < i \/ (a = i /\ b <= j)
            THEN st.v[start + x] = R[start + x]
            ELSE (j > 0 /\ x = nn + i) \/ st.v[start + x] = w[start + x]
        BY <1>4, <2>6
      <4> QED
        BY <3>3, <4>1, <4>3, <4>4
    <3> QED
      BY <3>1, <3>2, <3>3
  <2>7. SwapInv(start, end, opt_end, w, i, j + 1, next)
    <3>1. \E x : On(i, j + 1, x) /\ next.pos = start + x /\ next.v[end + i] = w[start + x]
      BY <1>10, <2>5
    <3>2. j + 1 > 0
      BY <1>3
    <3>3. \A a \in 0..(g - 1), b \in 1..c : \A x :
            On(a, b, x) => IF a < i \/ (a = i /\ b <= j + 1)
                           THEN next.v[start + x] = R[start + x]
                           ELSE (j + 1 > 0 /\ x = nn + i) \/ next.v[start + x] = w[start + x]
      BY <2>6, <3>2
    <3> USE DEF On, nn, no, g, c, R
    <3> QED
      BY <1>13, <1>14, <3>1, <3>3, Zenon DEF SwapInv
  <2> QED
    BY <1>17, <2>7 DEF c, nn, no
<1>18. CASE ~(j + 1 < c)
  <2>1. j + 1 = c /\ j > 0
    BY <1>2, <1>3, <1>18
  <2>2. z = nn + i /\ to = end + i
    <3>1. i \in Int
      BY <1>3
    <3>2. z = nn + i
      BY <1>3, <1>6, <1>8, <1>10, <1>16, <2>1, <3>1
    <3> QED
      BY <1>6, <1>10, <3>2
  <2>3. next.v = st.v
    BY <1>4, <1>13, <2>2
  <2>4. st.v[start + z] = R[start + z]
    BY <1>6, <1>9, <1>11, <2>2
  <2>5. ASSUME NEW a \in 0..(g - 1), NEW b \in 1..c, NEW x, On(a, b, x)
        PROVE  IF a < i + 1 \/ (a = i + 1 /\ b <= 0)
               THEN next.v[start + x] = R[start + x]
               ELSE next.v[start + x] = w[start + x]
    <3>1. a \in Nat /\ b \in Nat /\ b >= 1 /\ b <= c
      BY <1>2, <2>5
    <3>2. IF a < i \/ (a = i /\ b <= j)
          THEN st.v[start + x] = R[start + x]
          ELSE (j > 0 /\ x = nn + i) \/ st.v[start + x] = w[start + x]
      BY <1>4, <2>5
    <3>3. CASE a = i /\ b = c
      <4>1. x = z
        BY <1>3, <1>8, <1>10, <1>16, <2>1, <2>5, <3>3
      <4>2. a < i + 1
        BY <1>3, <3>3
      <4> QED
        BY <2>3, <2>4, <4>1, <4>2
    <3>4. CASE a = i /\ b # c
      <4>1. b <= j /\ a < i + 1
        BY <1>2, <1>3, <2>1, <3>1, <3>4
      <4> QED
        BY <2>3, <3>2, <3>4, <4>1
    <3>5. CASE a < i
      <4>1. a < i + 1
        BY <1>3, <3>1, <3>5
      <4> QED
        BY <2>3, <3>2, <3>5, <4>1
    <3>6. CASE a > i
      <4>1. ~(a < i + 1 \/ (a = i + 1 /\ b <= 0)) /\ ~(a < i \/ (a = i /\ b <= j))
        BY <1>3, <3>1, <3>6
      <4>2. x # nn + i
        <5>1. c \in 1..c /\ a # i
          BY <1>2, <1>3, <3>1, <3>6
        <5> QED
          BY <1>3, <1>6, <1>7, <2>5, <5>1
      <4> QED
        BY <2>3, <3>2, <4>1, <4>2
    <3> QED
      BY <1>3, <3>1, <3>3, <3>4, <3>5, <3>6
  <2>6. SwapInv(start, end, opt_end, w, i + 1, 0, next)
    <3>1. ~(0 > 0)
      OBVIOUS
    <3>2. \A a \in 0..(g - 1), b \in 1..c : \A x :
            On(a, b, x) => IF a < i + 1 \/ (a = i + 1 /\ b <= 0)
                           THEN next.v[start + x] = R[start + x]
                           ELSE (0 > 0 /\ x = nn + (i + 1)) \/ next.v[start + x] = w[start + x]
      BY <2>5, <3>1
    <3> USE DEF On, nn, no, g, c, R
    <3> QED
      BY <1>13, <1>14, <3>1, <3>2, Zenon DEF SwapInv
  <2> QED
    BY <1>18, <2>6 DEF c, nn, no
<1> QED
  BY <1>17, <1>18

\* The swaps of permute_args, cycle after cycle, are the rotation: the operands and
\* the options behind them have changed places, however many there are of each.
THEOREM PermuteRotates ==
  ASSUME NEW start \in Nat, NEW end \in Nat, NEW opt_end \in Nat, start < end, end < opt_end,
         NEW w, w = [p \in DOMAIN w |-> w[p]], start..(opt_end - 1) \subseteq DOMAIN w
  PROVE  permute_args(start, end, opt_end, w) = Rotated(start, end, opt_end, w)
<1> DEFINE nn == end - start
           no == opt_end - end
           g == Cycles(nn, no)
           c == CycleLen(nn, no)
           N == g * c
<1>1. nn \in Positive /\ no \in Positive /\ nn + no = opt_end - start
  BY DEF Positive
<1>2. g \in Positive /\ c \in Positive /\ c >= 2 /\ N \in Nat /\ g \in Nat /\ c \in Nat
  <2>1. g \in Positive /\ c \in Nat /\ c >= 2
    BY <1>1, CyclesAre
  <2> HIDE DEF g, c
  <2> QED
    BY <2>1 DEF Positive
<1>3. PICK u : /\ permute_args(start, end, opt_end, w) = u[N].v
               /\ \A n \in 0..N : u[n] = SwapStep(start, end, opt_end, c, w, u, n)
  BY SwapByTurn
<1> DEFINE Inv(i, j, n) == SwapInv(start, end, opt_end, w, i, j, u[n])
           P == {n \in Nat : \E i \in 0..g, j \in 0..(c - 1) :
                                n = i * c + j /\ (i < g \/ j = 0) /\ Inv(i, j, n)}
<1>4. 0 \in P
  <2>1. u[0] = [pos |-> end, v |-> w]
    <3>1. 0 \in 0..N
      BY <1>2
    <3> QED
      BY <1>3, <3>1 DEF SwapStep
  <2>2. \A a \in 0..(g - 1), b \in 1..c : ~(a < 0 \/ (a = 0 /\ b <= 0))
    BY <1>2
  <2>3. ~(0 > 0) /\ u[0].v = w
    BY <2>1
  <2>4. Inv(0, 0, 0)
    BY <2>2, <2>3, Zenon DEF SwapInv
  <2>5. 0 \in 0..g /\ 0 \in 0..(c - 1) /\ 0 = 0 * c + 0 /\ 0 \in Nat
    BY <1>2
  <2> HIDE DEF Inv
  <2> QED
    BY <2>4, <2>5
<1>5. ASSUME NEW n \in 0..(N - 1), n \in P PROVE n + 1 \in P
  <2>1. PICK i \in 0..g, j \in 0..(c - 1) : n = i * c + j /\ (i < g \/ j = 0) /\ Inv(i, j, n)
    BY <1>5
  <2>2. i < g /\ i \in 0..(g - 1) /\ i \in Nat /\ j \in Nat /\ j < c /\ n \in Nat
    <3>1. i # g
      <4>1. n < N
        BY <1>2
      <4> HIDE DEF g, c
      <4>2. i = g => n = N
        BY <1>2, <2>1
      <4> QED
        BY <1>2, <4>1, <4>2
    <3> HIDE DEF g, c
    <3> QED
      BY <1>2, <2>1, <3>1
  <2>3. n \div c = i /\ n % c = j
    <3> HIDE DEF c
    <3> QED
      BY <1>2, <2>1, <2>2, Quotient
  <2> DEFINE st == u[n]
             next == u[n + 1]
             from == IF j = 0 THEN end + i ELSE st.pos
             to == IF from >= end THEN from - (end - start) ELSE from + (opt_end - end)
  <2>4. next = [pos |-> to, v |-> [st.v EXCEPT ![to] = st.v[end + i], ![end + i] = st.v[to]]]
    <3>1. n + 1 \in 0..N /\ n + 1 # 0 /\ (n + 1) - 1 = n
      BY <1>2, <2>2
    <3>2. next = SwapStep(start, end, opt_end, c, w, u, n + 1)
      BY <1>3, <3>1
    <3> HIDE DEF c
    <3> QED
      BY <2>3, <3>1, <3>2 DEF SwapStep
  <2>5. next.pos = to /\ next.v = Exchanged(st.v, to, end + i)
    <3> HIDE DEF next, st, to
    <3> QED
      BY <2>4 DEF Exchanged
  <2>6. IF j + 1 < c THEN Inv(i, j + 1, n + 1) ELSE Inv(i + 1, 0, n + 1)
    <3> HIDE DEF st, from, to, next
    <3>1. SwapInv(start, end, opt_end, w, i, j, st)
      BY <2>1 DEF st
    <3>2. /\ from = (IF j = 0 THEN end + i ELSE st.pos)
          /\ to = IF from >= end THEN from - (end - start) ELSE from + (opt_end - end)
      BY DEF from, to
    <3>3. i \in 0..(Cycles(end - start, opt_end - end) - 1)
          /\ j \in 0..(CycleLen(end - start, opt_end - end) - 1)
      BY <2>1, <2>2
    <3>4. IF j + 1 < c THEN SwapInv(start, end, opt_end, w, i, j + 1, next)
          ELSE SwapInv(start, end, opt_end, w, i + 1, 0, next)
      BY <2>5, <3>1, <3>2, <3>3, SwapKeeps
    <3> QED
      BY <3>4 DEF next
  <2> HIDE DEF Inv, g, c, N
  <2>7. CASE j + 1 < c
    <3>1. j + 1 \in 0..(c - 1) /\ n + 1 = i * c + (j + 1) /\ i \in 0..g /\ n + 1 \in Nat
      <4>1. i * c \in Nat
        BY <1>2, <2>2
      <4> QED
        BY <1>2, <2>1, <2>2, <2>7, <4>1
    <3> QED
      BY <2>2, <2>6, <2>7, <3>1
  <2>8. CASE ~(j + 1 < c)
    <3>1. i + 1 \in 0..g /\ 0 \in 0..(c - 1) /\ n + 1 = (i + 1) * c + 0 /\ n + 1 \in Nat
      <4>1. i * c \in Nat /\ (i + 1) * c = i * c + c
        BY <1>2, <2>2
      <4> QED
        BY <1>2, <2>1, <2>2, <2>8, <4>1
    <3> QED
      BY <2>6, <2>8, <3>1
  <2> QED
    BY <2>7, <2>8
<1>6. N \in P
  <2> HIDE DEF P, N
  <2>1. \A n \in 0..N : n \in P
    BY <1>2, <1>4, <1>5, CountInduction
  <2> QED
    BY <1>2, <2>1
<1>7. PICK i \in 0..g, j \in 0..(c - 1) : N = i * c + j /\ (i < g \/ j = 0) /\ Inv(i, j, N)
  BY <1>6
<1>8. i = g /\ j = 0
  <2> HIDE DEF g, c
  <2>1. i \in Nat /\ j \in Nat /\ j < c /\ 0 \in Nat /\ 0 < c /\ g * c = g * c + 0
    BY <1>2, <1>7
  <2>2. (i * c + j) \div c = i /\ (g * c + 0) \div c = g
    BY <1>2, <2>1, Quotient
  <2>3. i = g
    BY <1>7, <2>1, <2>2
  <2> QED
    BY <1>2, <1>7, <2>3
<1> DEFINE R == Rotated(start, end, opt_end, w)
           v == u[N].v
<1>9. /\ v = [p \in DOMAIN w |-> v[p]]
      /\ \A p \in DOMAIN w : p \notin start..(opt_end - 1) => v[p] = w[p]
      /\ \A a \in 0..(g - 1), b \in 1..c : \A x : OnCycle(nn, no, a, b, x) =>
           IF a < i \/ (a = i /\ b <= j) THEN v[start + x] = R[start + x]
           ELSE (j > 0 /\ x = nn + i) \/ v[start + x] = w[start + x]
  <2>1. SwapInv(start, end, opt_end, w, i, j, u[N])
    BY <1>7
  <2> HIDE DEF N
  <2> QED
    BY <2>1, Zenon DEF SwapInv
<1> HIDE DEF v, Inv, R
<1>10. ASSUME NEW x \in 0..(nn + no - 1) PROVE v[start + x] = R[start + x]
  <2>1. PICK a \in 0..(g - 1), b \in 1..c : OnCycle(nn, no, a, b, x)
    BY <1>1, CyclesCover
  <2> HIDE DEF g, c, nn, no
  <2>2. a < i
    BY <1>2, <1>8, <2>1
  <2> QED
    BY <1>9, <2>1, <2>2
<1>11. ASSUME NEW p \in DOMAIN w PROVE v[p] = R[p]
  <2>1. CASE p \in start..(opt_end - 1)
    <3>1. p - start \in 0..(nn + no - 1) /\ start + (p - start) = p
      BY <2>1
    <3>2. v[start + (p - start)] = R[start + (p - start)]
      <4> HIDE DEF nn, no
      <4> QED
        BY <1>10, <3>1
    <3> QED
      BY <3>1, <3>2
  <2>2. CASE p \notin start..(opt_end - 1)
    BY <1>9, <2>2, RotatedAt DEF R
  <2> QED
    BY <2>1, <2>2
<1>12. v = R
  <2>1. R = [p \in DOMAIN w |-> R[p]]
    BY DEF R, Rotated
  <2> QED
    BY <1>9, <1>11, <2>1
<1> QED
  BY <1>3, <1>12 DEF v, R

-----------------------------------------------------------------------------
(* What the arguments say.                                                 *)

Args == Seq(Seq(STRING))

\* One step of the recursion MeaningFrom is defined by.
MeaningStep(args, u, i) ==
  IF i = Len(args) + 1 THEN [answers |-> <<>>, operands |-> <<>>]
  ELSE IF IsOperand(args[i])
  THEN [answers |-> u[i + 1].answers, operands |-> <<args[i]>> \o u[i + 1].operands]
  ELSE IF args[i] = <<"-", "-">>
  THEN [answers |-> <<>>, operands |-> SubSeq(args, i + 1, Len(args))]
  ELSE LET next == SubSeq(args, i + 1, Len(args))
           then == u[IF TakesNext(Tail(args[i]), next) THEN i + 2 ELSE i + 1]
       IN [answers |-> Cluster(Tail(args[i]), next) \o then.answers, operands |-> then.operands]
IsMeaning(u, args) == u = [i \in 1..Len(args) + 1 |-> MeaningStep(args, u, i)]

LEMMA MeaningIsRecursive == ASSUME NEW args PROVE MeaningFrom(args) = CHOOSE u : IsMeaning(u, args)
BY DEF MeaningFrom, IsMeaning, MeaningStep

\* Whoever takes the next argument has one.
LEMMA TakesNextHasOne ==
  ASSUME NEW args \in Args, NEW i \in 1..Len(args), NEW word,
         TakesNext(word, SubSeq(args, i + 1, Len(args)))
  PROVE  i + 1 <= Len(args)
<1>1. SubSeq(args, i + 1, Len(args)) # <<>> /\ Len(args) \in Nat
  BY DEF TakesNext, Args
<1>2. CASE ~(i + 1 <= Len(args))
  <2>1. SubSeq(args, i + 1, Len(args)) = <<>>
    BY <1>1, <1>2 DEF Args
  <2> QED
    BY <1>1, <2>1
<1> QED
  BY <1>2

LEMMA MeaningIsDefined == ASSUME NEW args \in Args PROVE \E u : IsMeaning(u, args)
<1> DEFINE n == Len(args)
           F(u, i) == MeaningStep(args, u, i)
           Solves(u, k) == \A i \in (n + 1 - k)..(n + 1) : u[i] = F(u, i)
           P == {k \in Nat : \E u : Solves(u, k)}
<1>0. n \in Nat
  BY DEF Args
<1>1. ASSUME NEW u, NEW v, NEW i \in 1..(n + 1), \A j \in (i + 1)..(n + 1) : u[j] = v[j]
      PROVE  F(u, i) = F(v, i)
  <2>1. CASE i = n + 1
    BY <2>1 DEF MeaningStep
  <2>2. CASE i # n + 1
    <3>1. i \in 1..n /\ i + 1 \in (i + 1)..(n + 1)
      BY <1>0, <2>2
    <3>2. ASSUME TakesNext(Tail(args[i]), SubSeq(args, i + 1, Len(args))) PROVE u[i + 2] = v[i + 2]
      <4>1. i + 1 <= n
        BY <3>1, <3>2, TakesNextHasOne
      <4>2. i + 2 \in (i + 1)..(n + 1)
        BY <1>0, <4>1
      <4> QED
        BY <1>1, <4>2
    <3>3. u[i + 1] = v[i + 1]
      BY <1>1, <3>1
    <3> QED
      BY <3>2, <3>3 DEF MeaningStep
  <2> QED
    BY <2>1, <2>2
<1> HIDE DEF F
<1>2. 0 \in P
  <2> DEFINE v == [i \in {n + 1} |-> F(<<>>, n + 1)]
  <2>1. v[n + 1] = F(v, n + 1)
    <3>1. n + 1 \in 1..(n + 1) /\ \A j \in ((n + 1) + 1)..(n + 1) : FALSE
      BY <1>0
    <3>2. F(<<>>, n + 1) = F(v, n + 1)
      <4> HIDE DEF v
      <4> QED
        BY <1>1, <3>1
    <3> QED
      BY <3>2
  <2> HIDE DEF v
  <2>2. Solves(v, 0)
    BY <1>0, <2>1
  <2> QED
    BY <2>2
<1>3. ASSUME NEW k \in 0..(n - 1), k \in P PROVE k + 1 \in P
  <2>1. PICK u : Solves(u, k)
    BY <1>3
  <2> DEFINE v == [i \in (n + 1 - (k + 1))..(n + 1) |-> F(u, i)]
  <2>2. ASSUME NEW i \in (n + 1 - (k + 1))..(n + 1) PROVE v[i] = F(v, i)
    <3>1. i \in 1..(n + 1) /\ \A j \in (i + 1)..(n + 1) :
                                j \in (n + 1 - k)..(n + 1) /\ j \in (n + 1 - (k + 1))..(n + 1)
      BY <1>0
    <3>2. \A j \in (i + 1)..(n + 1) : v[j] = u[j]
      BY <2>1, <3>1
    <3>3. v[i] = F(u, i)
      OBVIOUS
    <3> HIDE DEF v
    <3> QED
      BY <1>1, <3>1, <3>2, <3>3
  <2>3. k + 1 \in Nat
    OBVIOUS
  <2> HIDE DEF v
  <2>4. Solves(v, k + 1)
    BY <2>2
  <2> HIDE DEF Solves
  <2> QED
    BY <2>3, <2>4
<1>4. n \in P
  <2> HIDE DEF P, n
  <2>1. \A k \in 0..n : k \in P
    BY <1>0, <1>2, <1>3, CountInduction
  <2> QED
    BY <1>0, <2>1
<1>5. PICK u : Solves(u, n)
  BY <1>4
<1> DEFINE v == [i \in 1..(n + 1) |-> u[i]]
<1>6. ASSUME NEW i \in 1..(n + 1) PROVE v[i] = F(v, i)
  <2>1. i \in (n + 1 - n)..(n + 1) /\ \A j \in (i + 1)..(n + 1) : j \in 1..(n + 1)
    BY <1>0
  <2>2. v[i] = F(u, i)
    BY <1>5, <2>1
  <2>3. \A j \in (i + 1)..(n + 1) : v[j] = u[j]
    BY <2>1
  <2> HIDE DEF v
  <2> QED
    BY <1>1, <2>2, <2>3
<1>7. v = [i \in 1..(n + 1) |-> F(v, i)]
  BY <1>6
<1> HIDE DEF v
<1> QED
  BY <1>7 DEF F, IsMeaning

LEMMA MeaningAt ==
  ASSUME NEW args \in Args
  PROVE  \A i \in 1..(Len(args) + 1) : MeaningFrom(args)[i] = MeaningStep(args, MeaningFrom(args), i)
<1> DEFINE u == MeaningFrom(args)
<1>1. IsMeaning(u, args)
  BY MeaningIsRecursive, MeaningIsDefined
<1> HIDE DEF u
<1>2. \A i \in 1..(Len(args) + 1) : u[i] = MeaningStep(args, u, i)
  BY <1>1 DEF IsMeaning
<1> QED
  BY <1>2 DEF u

-----------------------------------------------------------------------------
(* A cluster of options is read letter by letter.                          *)

Answers == [opt : STRING \cup {"h", BADCH}, arg : Seq(STRING)]
FlagAnswer(c) == [opt |-> IF c \in Flags THEN c ELSE BADCH, arg |-> NoArgument]

LEMMA FlagAnswerOK == ASSUME NEW c \in STRING PROVE FlagAnswer(c) \in Answers
<1>1. NoArgument \in Seq(STRING)
  BY NoneOK DEF NoArgument
<1> QED
  BY <1>1 DEF FlagAnswer, Answers

LEMMA PlainIs ==
  ASSUME NEW word \in Seq(STRING), NEW n \in 0..Len(word)
  PROVE  /\ Plain(word, n) \in Seq(Answers) /\ Len(Plain(word, n)) = n
         /\ \A k \in 1..n : Plain(word, n)[k] = FlagAnswer(word[k])
<1>1. \A k \in 1..n : word[k] \in STRING /\ FlagAnswer(word[k]) \in Answers
  <2>1. \A k \in 1..n : word[k] \in STRING
    OBVIOUS
  <2> QED
    BY <2>1, FlagAnswerOK
<1>2. Plain(word, n) = [k \in 1..n |-> FlagAnswer(word[k])]
  BY DEF Plain, FlagAnswer
<1> HIDE DEF Plain
<1>3. Plain(word, n) \in [1..n -> Answers] /\ n \in Nat
  BY <1>1, <1>2
<1> QED
  BY <1>2, <1>3

LEMMA FirstEndIs ==
  ASSUME NEW word \in Seq(STRING), Ending(word) # {}
  PROVE  FirstEnd(word) \in Ending(word) /\ \A l \in Ending(word) : FirstEnd(word) <= l
<1>1. Ending(word) \in SUBSET Nat
  BY DEF Ending
<1>2. \E m \in Ending(word) : \A l \in Ending(word) : m <= l
  BY <1>1, LeastNumber
<1> QED
  BY <1>2 DEF FirstEnd

LEMMA EmptyCluster == ASSUME NEW next PROVE Cluster(<<>>, next) = <<>> /\ ~TakesNext(<<>>, next)
<1>1. Ending(<<>>) = {} /\ Len(<<>>) = 0
  BY DEF Ending
<1>2. <<>> \in Seq(STRING)
  OBVIOUS
<1>3. Plain(<<>>, 0) \in Seq(Answers) /\ Len(Plain(<<>>, 0)) = 0
  <2>1. 0 \in 0..Len(<<>>)
    OBVIOUS
  <2> QED
    BY <1>2, <2>1, PlainIs
<1>4. Plain(<<>>, 0) = <<>>
  BY <1>3
<1> QED
  BY <1>1, <1>4 DEF Cluster, TakesNext

\* What the first letter that is not a flag makes of the rest of the cluster.
LastAnswer(c, rest, next) ==
  IF c = "-" THEN [opt |-> IF IsLong(rest) THEN "h" ELSE BADCH, arg |-> NoArgument]
  ELSE IF rest # <<>> THEN [opt |-> c, arg |-> rest]
  ELSE IF next # <<>> THEN [opt |-> c, arg |-> next[1]]
  ELSE [opt |-> BADCH, arg |-> NoArgument]

LEMMA LastAnswerOK ==
  ASSUME NEW c \in STRING, NEW rest \in Seq(STRING), NEW next \in Args
  PROVE  LastAnswer(c, rest, next) \in Answers
<1>1. NoArgument \in Seq(STRING)
  BY NoneOK DEF NoArgument
<1>2. next # <<>> => next[1] \in Seq(STRING)
  BY DEF Args
<1>3. \A o \in STRING \cup {"h", BADCH}, a \in Seq(STRING) : [opt |-> o, arg |-> a] \in Answers
  BY DEF Answers
<1> QED
  BY <1>1, <1>2, <1>3 DEF LastAnswer

LEMMA ClusterOpens ==
  ASSUME NEW word \in Seq(STRING), NEW next \in Args
  PROVE  /\ Ending(word) = {} => Cluster(word, next) = Plain(word, Len(word))
         /\ Ending(word) # {} =>
              Cluster(word, next) =
                Append(Plain(word, FirstEnd(word) - 1),
                       LastAnswer(word[FirstEnd(word)],
                                  SubSeq(word, FirstEnd(word) + 1, Len(word)), next))
BY Zenon DEF Cluster, LastAnswer

LEMMA ClusterOK ==
  ASSUME NEW word \in Seq(STRING), NEW next \in Args
  PROVE  Cluster(word, next) \in Seq(Answers)
<1>1. CASE Ending(word) = {}
  <2>1. Len(word) \in 0..Len(word)
    OBVIOUS
  <2> QED
    BY <1>1, <2>1, PlainIs, ClusterOpens
<1>2. CASE Ending(word) # {}
  <2> DEFINE k == FirstEnd(word)
             rest == SubSeq(word, k + 1, Len(word))
  <2>1. k \in 1..Len(word)
    BY <1>2, FirstEndIs DEF Ending
  <2>2. k - 1 \in 0..Len(word) /\ word[k] \in STRING /\ rest \in Seq(STRING)
    <3> HIDE DEF k
    <3> QED
      BY <2>1
  <2>3. Plain(word, k - 1) \in Seq(Answers) /\ LastAnswer(word[k], rest, next) \in Answers
    BY <2>2, PlainIs, LastAnswerOK
  <2>4. Append(Plain(word, k - 1), LastAnswer(word[k], rest, next)) \in Seq(Answers)
    <3> HIDE DEF k, rest
    <3> QED
      BY <2>3, AppendProperties
  <2> QED
    BY <1>2, <2>4, ClusterOpens
<1> QED
  BY <1>1, <1>2

\* A letter that ends a cluster is its last answer.
LEMMA EndsCluster ==
  ASSUME NEW word \in Seq(STRING), NEW next \in Args, word # <<>>,
         word[1] = "-" \/ word[1] \in WithArg
  PROVE  /\ Cluster(word, next) = <<LastAnswer(word[1], Tail(word), next)>>
         /\ TakesNext(word, next) <=> word[1] # "-" /\ Tail(word) = <<>> /\ next # <<>>
<1>1. 1 \in Ending(word) /\ Len(word) >= 1 /\ Len(word) \in Nat
  BY DEF Ending
<1>2. FirstEnd(word) = 1
  <2>1. FirstEnd(word) <= 1 /\ FirstEnd(word) \in 1..Len(word)
    BY <1>1, FirstEndIs DEF Ending
  <2> QED
    BY <1>1, <2>1
<1>3. SubSeq(word, 2, Len(word)) = Tail(word) /\ word[1] \in STRING /\ Tail(word) \in Seq(STRING)
  BY <1>1, TailIsSubSeq
<1>4. Plain(word, 0) = <<>>
  <2>1. Plain(word, 0) \in Seq(Answers) /\ Len(Plain(word, 0)) = 0
    BY <1>1, PlainIs
  <2> QED
    BY <2>1
<1>5. Append(<<>>, LastAnswer(word[1], Tail(word), next)) = <<LastAnswer(word[1], Tail(word), next)>>
  OBVIOUS
<1>6. Tail(word) = <<>> => Len(word) = 1
  <2> DEFINE t == Tail(word)
  <2>1. Len(t) = Len(word) - 1
    BY HeadTailProperties
  <2> HIDE DEF t
  <2>2. t = <<>> => Len(word) = 1
    BY <1>1, <2>1, EmptySeq
  <2> QED
    BY <2>2 DEF t
<1>7. Len(word) = 1 => Tail(word) = <<>>
  BY <1>1, <1>3
<1>8. Ending(word) = {Len(word)} <=> Tail(word) = <<>>
  <2>1. CASE Tail(word) = <<>>
    <3>1. Len(word) = 1
      BY <1>1, <1>6, <2>1
    <3> QED
      BY <1>1, <2>1, <3>1 DEF Ending
  <2>2. CASE Tail(word) # <<>>
    <3>1. Len(word) # 1
      BY <1>1, <1>7, <2>2
    <3> QED
      BY <1>1, <2>2, <3>1
  <2> QED
    BY <2>1, <2>2
<1>9. Cluster(word, next) =
        Append(Plain(word, 0), LastAnswer(word[1], SubSeq(word, 2, Len(word)), next))
  <2>1. Ending(word) # {} /\ FirstEnd(word) - 1 = 0 /\ FirstEnd(word) + 1 = 2
    BY <1>1, <1>2
  <2> QED
    BY <1>2, <2>1, ClusterOpens
<1>10. TakesNext(word, next) <=> word[1] # "-" /\ Tail(word) = <<>> /\ next # <<>>
  BY <1>8, <1>6 DEF TakesNext
<1> QED
  BY <1>3, <1>4, <1>5, <1>9, <1>10

LEMMA PlainOpens ==
  ASSUME NEW word \in Seq(STRING), word # <<>>, NEW n \in 1..Len(word)
  PROVE  Plain(word, n) = <<FlagAnswer(word[1])>> \o Plain(Tail(word), n - 1)
<1> DEFINE t == Tail(word)
           F == <<FlagAnswer(word[1])>>
<1>1. t \in Seq(STRING) /\ Len(t) = Len(word) - 1 /\ \A k \in 1..Len(t) : t[k] = word[k + 1]
  BY HeadTailProperties
<1>2. F \in Seq(Answers) /\ Len(F) = 1 /\ F[1] = FlagAnswer(word[1])
  <2>1. FlagAnswer(word[1]) \in Answers
    <3>1. word[1] \in STRING
      OBVIOUS
    <3> QED
      BY <3>1, FlagAnswerOK
  <2> QED
    BY <2>1
<1>3. /\ Plain(word, n) \in Seq(Answers) /\ Len(Plain(word, n)) = n
      /\ \A k \in 1..n : Plain(word, n)[k] = FlagAnswer(word[k])
  <2>1. n \in 0..Len(word)
    OBVIOUS
  <2> QED
    BY <2>1, PlainIs
<1>4. /\ Plain(t, n - 1) \in Seq(Answers) /\ Len(Plain(t, n - 1)) = n - 1
      /\ \A k \in 1..(n - 1) : Plain(t, n - 1)[k] = FlagAnswer(t[k])
  <2>1. n - 1 \in 0..Len(t)
    BY <1>1
  <2> QED
    BY <1>1, <2>1, PlainIs
<1> HIDE DEF t, F
<1>5. /\ F \o Plain(t, n - 1) \in Seq(Answers) /\ Len(F \o Plain(t, n - 1)) = n
      /\ \A k \in 1..n : (F \o Plain(t, n - 1))[k] = IF k <= 1 THEN F[k] ELSE Plain(t, n - 1)[k - 1]
  <2>1. /\ F \o Plain(t, n - 1) \in Seq(Answers)
        /\ Len(F \o Plain(t, n - 1)) = 1 + (n - 1)
        /\ \A k \in 1..(1 + (n - 1)) :
             (F \o Plain(t, n - 1))[k] = IF k <= 1 THEN F[k] ELSE Plain(t, n - 1)[k - 1]
    <3> DEFINE P == Plain(t, n - 1)
               m == n - 1
    <3>1. P \in Seq(Answers) /\ Len(P) = m
      BY <1>4
    <3> HIDE DEF P, m
    <3>2. /\ F \o P \in Seq(Answers) /\ Len(F \o P) = Len(F) + Len(P)
          /\ \A k \in 1..(Len(F) + Len(P)) :
               (F \o P)[k] = IF k <= Len(F) THEN F[k] ELSE P[k - Len(F)]
      BY <1>2, <3>1, ConcatProperties
    <3>3. /\ F \o P \in Seq(Answers) /\ Len(F \o P) = 1 + m
          /\ \A k \in 1..(1 + m) : (F \o P)[k] = IF k <= 1 THEN F[k] ELSE P[k - 1]
      BY <1>2, <3>1, <3>2
    <3> QED
      BY <3>3 DEF P, m
  <2>2. 1 + (n - 1) = n
    OBVIOUS
  <2> QED
    BY <2>1, <2>2
<1>6. ASSUME NEW k \in 1..n PROVE Plain(word, n)[k] = (F \o Plain(t, n - 1))[k]
  <2>1. CASE k = 1
    BY <1>2, <1>3, <1>5, <2>1
  <2>2. CASE k # 1
    <3>1. k - 1 \in 1..(n - 1) /\ k - 1 \in 1..Len(t) /\ (k - 1) + 1 = k /\ ~(k <= 1)
      BY <1>1, <2>2
    <3>2. t[k - 1] = word[k]
      BY <1>1, <3>1
    <3> QED
      BY <1>3, <1>4, <1>5, <3>1, <3>2
  <2> QED
    BY <2>1, <2>2
<1>7. Plain(word, n) = F \o Plain(t, n - 1)
  BY <1>3, <1>5, <1>6, SeqEqual
<1> QED
  BY <1>7 DEF t, F

LEMMA EndingOfTail ==
  ASSUME NEW word \in Seq(STRING), word # <<>>, word[1] # "-", word[1] \notin WithArg
  PROVE  \A k \in Nat : k \in Ending(word) <=> k - 1 \in Ending(Tail(word))
<1> DEFINE t == Tail(word)
<1>1. t \in Seq(STRING) /\ Len(t) = Len(word) - 1 /\ \A k \in 1..Len(t) : t[k] = word[k + 1]
  BY HeadTailProperties
<1> HIDE DEF t
<1> SUFFICES ASSUME NEW k \in Nat PROVE k \in Ending(word) <=> k - 1 \in Ending(t)
  BY DEF t
<1>2. CASE k - 1 \in 1..Len(t)
  <2>1. k \in 1..Len(word) /\ t[k - 1] = word[k]
    BY <1>1, <1>2
  <2> QED
    BY <1>2, <2>1 DEF Ending
<1>3. CASE k - 1 \notin 1..Len(t)
  <2>1. k \notin 1..Len(word) \/ k = 1
    BY <1>1, <1>3
  <2> QED
    BY <1>3, <2>1 DEF Ending
<1> QED
  BY <1>2, <1>3

\* A letter that does not is answered alone.
LEMMA GoesOn ==
  ASSUME NEW word \in Seq(STRING), NEW next \in Args, word # <<>>,
         word[1] # "-", word[1] \notin WithArg
  PROVE  /\ Cluster(word, next) = <<FlagAnswer(word[1])>> \o Cluster(Tail(word), next)
         /\ TakesNext(word, next) <=> TakesNext(Tail(word), next)
<1> DEFINE t == Tail(word)
           F == <<FlagAnswer(word[1])>>
           n == Len(word)
<1>1. t \in Seq(STRING) /\ Len(t) = n - 1 /\ (\A k \in 1..Len(t) : t[k] = word[k + 1])
      /\ n \in Nat /\ n >= 1
  BY HeadTailProperties
<1>2. \A k \in Nat : k \in Ending(word) <=> k - 1 \in Ending(t)
  BY EndingOfTail
<1>3. (\A k \in Ending(word) : k \in 1..n) /\ (\A k \in Ending(t) : k \in 1..(n - 1))
  BY <1>1 DEF Ending
<1>4. F \in Seq(Answers)
  <2>1. FlagAnswer(word[1]) \in Answers
    <3>1. word[1] \in STRING
      OBVIOUS
    <3> QED
      BY <3>1, FlagAnswerOK
  <2> QED
    BY <2>1
<1>5. \A k \in 1..n : Plain(word, k) = F \o Plain(t, k - 1)
  BY PlainOpens
<1>6. Ending(word) = {} <=> Ending(t) = {}
  <2>1. ASSUME NEW k \in Ending(t) PROVE k + 1 \in Ending(word)
    <3>1. k + 1 \in Nat /\ (k + 1) - 1 = k
      BY <1>1, <1>3
    <3> QED
      BY <1>2, <3>1
  <2>2. ASSUME NEW k \in Ending(word) PROVE k - 1 \in Ending(t)
    <3>1. k \in Nat
      BY <1>1, <1>3
    <3> QED
      BY <1>2, <3>1
  <2> QED
    BY <2>1, <2>2
<1> HIDE DEF F, n
<1>7. Cluster(word, next) = F \o Cluster(t, next)
  <2>1. CASE Ending(word) = {}
    <3>1. Cluster(word, next) = Plain(word, n) /\ Cluster(t, next) = Plain(t, n - 1)
      BY <1>1, <1>6, <2>1, ClusterOpens DEF n
    <3>2. n \in 1..n
      BY <1>1
    <3>3. Plain(word, n) = F \o Plain(t, n - 1)
      <4> HIDE DEF t
      <4> QED
        BY <1>5, <3>2
    <3> QED
      BY <3>1, <3>3
  <2>2. CASE Ending(word) # {}
    <3> DEFINE k == FirstEnd(word)
               L == LastAnswer(word[k], SubSeq(word, k + 1, n), next)
    <3>1. k \in Ending(word) /\ \A l \in Ending(word) : k <= l
      BY <2>2, FirstEndIs
    <3>2. FirstEnd(t) \in Ending(t) /\ \A l \in Ending(t) : FirstEnd(t) <= l
      BY <1>1, <1>6, <2>2, FirstEndIs
    <3>3. FirstEnd(t) = k - 1 /\ k \in 2..n
      <4> HIDE DEF k
      <4>1. k \in 1..n /\ k - 1 \in Ending(t)
        BY <1>1, <1>2, <1>3, <3>1
      <4>2. FirstEnd(t) \in 1..(n - 1) /\ FirstEnd(t) <= k - 1
        BY <1>3, <3>2, <4>1
      <4>3. FirstEnd(t) + 1 \in Nat /\ (FirstEnd(t) + 1) - 1 = FirstEnd(t)
        BY <1>1, <4>2
      <4>4. FirstEnd(t) + 1 \in Ending(word)
        BY <1>2, <3>2, <4>3
      <4>5. k <= FirstEnd(t) + 1
        BY <3>1, <4>4
      <4> QED
        BY <1>1, <4>1, <4>2, <4>5
    <3>4. t[k - 1] = word[k] /\ word[k] \in STRING
      <4> HIDE DEF k
      <4>1. k - 1 \in 1..Len(t) /\ (k - 1) + 1 = k /\ k \in 1..Len(word)
        BY <1>1, <3>3 DEF n
      <4> QED
        BY <1>1, <4>1
    <3>5. SubSeq(t, (k - 1) + 1, n - 1) = SubSeq(word, k + 1, n)
      <4> HIDE DEF k
      <4> DEFINE s == SubSeq(t, (k - 1) + 1, n - 1)
                 r == SubSeq(word, k + 1, n)
      <4>1. /\ s \in Seq(STRING) /\ Len(s) = n - k
            /\ \A i \in 1..(n - k) : s[i] = t[k + i - 1]
        <5>1. (k - 1) + 1 = k /\ \A i \in k..(n - 1) : t[i] \in STRING
          BY <1>1, <3>3
        <5>2. /\ SubSeq(t, k, n - 1) \in Seq(STRING)
              /\ Len(SubSeq(t, k, n - 1)) = IF k <= n - 1 THEN (n - 1) - k + 1 ELSE 0
              /\ \A i \in 1..((n - 1) - k + 1) : SubSeq(t, k, n - 1)[i] = t[k + i - 1]
          BY <1>1, <3>3, <5>1, SubSeqProperties
        <5> QED
          BY <1>1, <3>3, <5>1, <5>2
      <4>2. /\ r \in Seq(STRING) /\ Len(r) = n - k
            /\ \A i \in 1..(n - k) : r[i] = word[k + 1 + i - 1]
        <5>1. \A i \in (k + 1)..n : word[i] \in STRING
          BY <1>1, <3>3 DEF n
        <5>2. /\ SubSeq(word, k + 1, n) \in Seq(STRING)
              /\ Len(SubSeq(word, k + 1, n)) = IF k + 1 <= n THEN n - (k + 1) + 1 ELSE 0
              /\ \A i \in 1..(n - (k + 1) + 1) : SubSeq(word, k + 1, n)[i] = word[k + 1 + i - 1]
          BY <1>1, <3>3, <5>1, SubSeqProperties
        <5> QED
          BY <1>1, <3>3, <5>2
      <4>3. \A i \in 1..(n - k) : s[i] = r[i]
        <5> TAKE i \in 1..(n - k)
        <5>1. k + i - 1 \in 1..Len(t) /\ (k + i - 1) + 1 = k + 1 + i - 1
          BY <1>1, <3>3
        <5> HIDE DEF s, r
        <5> QED
          BY <1>1, <4>1, <4>2, <5>1
      <4> HIDE DEF s, r
      <4>4. s = r
        BY <4>1, <4>2, <4>3, SeqEqual
      <4> QED
        BY <4>4 DEF s, r
    <3>6. Cluster(word, next) = Append(Plain(word, k - 1), L)
      BY <2>2, ClusterOpens DEF n
    <3>7. Cluster(t, next) = Append(Plain(t, (k - 1) - 1), L)
      <4>1. Cluster(t, next) = Append(Plain(t, FirstEnd(t) - 1),
                 LastAnswer(t[FirstEnd(t)], SubSeq(t, FirstEnd(t) + 1, Len(t)), next))
        BY <1>1, <1>6, <2>2, ClusterOpens
      <4> QED
        BY <1>1, <3>3, <3>4, <3>5, <4>1
    <3>8. L \in Answers
      <4>1. SubSeq(word, k + 1, n) \in Seq(STRING)
        <5> HIDE DEF k
        <5> QED
          BY <1>1, <3>3 DEF n
      <4> QED
        BY <3>4, <4>1, LastAnswerOK
    <3>9. Plain(word, k - 1) = F \o Plain(t, (k - 1) - 1) /\ Plain(t, (k - 1) - 1) \in Seq(Answers)
      <4> HIDE DEF k
      <4>1. k - 1 \in 1..n /\ (k - 1) - 1 \in 0..Len(t)
        BY <1>1, <3>3
      <4> QED
        BY <1>1, <1>5, <4>1, PlainIs
    <3> HIDE DEF k, L
    <3>10. Append(F \o Plain(t, (k - 1) - 1), L) = F \o Append(Plain(t, (k - 1) - 1), L)
      BY <1>4, <3>8, <3>9
    <3> QED
      BY <3>6, <3>7, <3>9, <3>10
  <2> QED
    BY <2>1, <2>2
<1>8. TakesNext(word, next) <=> TakesNext(t, next)
  <2>1. Ending(word) = {n} <=> Ending(t) = {n - 1}
    <3>1. ASSUME Ending(word) = {n} PROVE Ending(t) = {n - 1}
      <4>1. n - 1 \in Ending(t)
        BY <1>1, <1>2, <3>1
      <4>2. ASSUME NEW k \in Ending(t) PROVE k = n - 1
        <5>1. k + 1 \in Nat /\ (k + 1) - 1 = k
          BY <1>1, <1>3
        <5>2. k + 1 \in Ending(word)
          BY <1>2, <5>1
        <5> QED
          BY <1>1, <3>1, <5>1, <5>2
      <4> QED
        BY <4>1, <4>2
    <3>2. ASSUME Ending(t) = {n - 1} PROVE Ending(word) = {n}
      <4>1. n \in Ending(word)
        BY <1>1, <1>2, <3>2
      <4>2. ASSUME NEW k \in Ending(word) PROVE k = n
        <5>1. k \in Nat
          BY <1>1, <1>3
        <5>2. k - 1 \in Ending(t)
          BY <1>2, <5>1
        <5> QED
          BY <1>1, <3>2, <5>1, <5>2
      <4> QED
        BY <4>1, <4>2
    <3> QED
      BY <3>1, <3>2
  <2>2. ASSUME Ending(t) = {n - 1} PROVE t[n - 1] = word[n]
    <3>1. n - 1 \in 1..(n - 1) /\ (n - 1) + 1 = n
      BY <1>1, <1>3, <2>2
    <3> QED
      BY <1>1, <3>1
  <2> QED
    BY <1>1, <2>1, <2>2 DEF TakesNext, n
<1> QED
  BY <1>7, <1>8 DEF F

-----------------------------------------------------------------------------
(* While the arguments are read: what has been answered and set aside, and  *)
(* what the rest of them will say, make what all of them say.               *)

Rest(i)         == SubSeq(given, i + 1, Len(given))    \* what comes after argument i
AnswersFrom(i)  == MeaningFrom(given)[i].answers
OperandsFrom(i) == MeaningFrom(given)[i].operands
After(word, i)  == IF TakesNext(word, Rest(i)) THEN i + 2 ELSE i + 1

LEMMA RestOK == ASSUME given \in Args, NEW i \in 1..Len(given)
                PROVE  /\ Rest(i) \in Args /\ (Rest(i) = <<>> <=> i = Len(given))
                       /\ i + 1 <= Len(given) => Rest(i)[1] = given[i + 1]
<1>1. Len(given) \in Nat /\ \A k \in (i + 1)..Len(given) : given[k] \in Seq(STRING)
  BY DEF Args
<1> DEFINE n == Len(given)
           r == SubSeq(given, i + 1, n)
<1>2. /\ r \in Seq(Seq(STRING)) /\ Len(r) = IF i + 1 <= n THEN n - (i + 1) + 1 ELSE 0
      /\ \A k \in 1..(n - (i + 1) + 1) : r[k] = given[i + 1 + k - 1]
  BY <1>1, SubSeqProperties
<1>3. Rest(i) = r
  BY DEF Rest
<1> HIDE DEF r
<1> QED
  BY <1>1, <1>2, <1>3 DEF Args

LEMMA AfterOK == ASSUME given \in Args, NEW i \in 1..Len(given), NEW word
                 PROVE  After(word, i) \in (i + 1)..(Len(given) + 1)
<1>1. Len(given) \in Nat
  BY DEF Args
<1>2. TakesNext(word, Rest(i)) => i + 1 <= Len(given)
  BY TakesNextHasOne DEF Rest
<1> QED
  BY <1>1, <1>2 DEF After

LEMMA MeaningCases ==
  ASSUME given \in Args
  PROVE  /\ AnswersFrom(Len(given) + 1) = <<>> /\ OperandsFrom(Len(given) + 1) = <<>>
         /\ \A i \in 1..Len(given) :
              /\ IsOperand(given[i]) => /\ AnswersFrom(i) = AnswersFrom(i + 1)
                                        /\ OperandsFrom(i) = <<given[i]>> \o OperandsFrom(i + 1)
              /\ ~IsOperand(given[i]) /\ given[i] = <<"-", "-">> =>
                   AnswersFrom(i) = <<>> /\ OperandsFrom(i) = Rest(i)
              /\ ~IsOperand(given[i]) /\ given[i] # <<"-", "-">> =>
                   LET word == Tail(given[i])
                   IN /\ AnswersFrom(i) = Cluster(word, Rest(i)) \o AnswersFrom(After(word, i))
                      /\ OperandsFrom(i) = OperandsFrom(After(word, i))
<1> DEFINE n == Len(given)
           u == MeaningFrom(given)
<1>0. n \in Nat
  BY DEF Args
<1>1. \A i \in 1..(n + 1) : u[i] = MeaningStep(given, u, i)
  BY MeaningAt
<1> HIDE DEF u
<1>2. u[n + 1] = [answers |-> <<>>, operands |-> <<>>]
  <2>1. u[n + 1] = MeaningStep(given, u, n + 1)
    BY <1>0, <1>1
  <2> QED
    BY <2>1 DEF MeaningStep
<1>3. ASSUME NEW i \in 1..n
      PROVE  /\ IsOperand(given[i]) =>
                  u[i] = [answers |-> u[i + 1].answers, operands |-> <<given[i]>> \o u[i + 1].operands]
             /\ ~IsOperand(given[i]) /\ given[i] = <<"-", "-">> =>
                  u[i] = [answers |-> <<>>, operands |-> Rest(i)]
             /\ ~IsOperand(given[i]) /\ given[i] # <<"-", "-">> =>
                  u[i] = [answers |-> Cluster(Tail(given[i]), Rest(i)) \o u[After(Tail(given[i]), i)].answers,
                          operands |-> u[After(Tail(given[i]), i)].operands]
  <2>1. u[i] = MeaningStep(given, u, i) /\ i # n + 1
    BY <1>0, <1>1
  <2> QED
    BY <2>1, Zenon DEF MeaningStep, Rest, After
<1>4. n + 1 \in 1..(n + 1)
  BY <1>0
<1> QED
  <2>1. AnswersFrom(n + 1) = <<>> /\ OperandsFrom(n + 1) = <<>>
    BY <1>2 DEF AnswersFrom, OperandsFrom, u
  <2>2. ASSUME NEW i \in 1..n, IsOperand(given[i])
        PROVE  AnswersFrom(i) = AnswersFrom(i + 1) /\ OperandsFrom(i) = <<given[i]>> \o OperandsFrom(i + 1)
    <3> DEFINE o == <<given[i]>> \o u[i + 1].operands
    <3>0. u[i] = [answers |-> u[i + 1].answers, operands |-> o]
      BY <1>3, <2>2, Zenon
    <3> HIDE DEF o
    <3>1. u[i].answers = u[i + 1].answers /\ u[i].operands = o
      BY <3>0
    <3> QED
      BY <3>1, Zenon DEF AnswersFrom, OperandsFrom, u, o
  <2>3. ASSUME NEW i \in 1..n, ~IsOperand(given[i]), given[i] = <<"-", "-">>
        PROVE  AnswersFrom(i) = <<>> /\ OperandsFrom(i) = Rest(i)
    <3>0. u[i] = [answers |-> <<>>, operands |-> Rest(i)]
      BY <1>3, <2>3, Zenon
    <3>1. u[i].answers = <<>> /\ u[i].operands = Rest(i)
      BY <3>0
    <3> QED
      BY <3>1, Zenon DEF AnswersFrom, OperandsFrom, u
  <2>4. ASSUME NEW i \in 1..n, ~IsOperand(given[i]), given[i] # <<"-", "-">>
        PROVE  LET word == Tail(given[i])
               IN /\ AnswersFrom(i) = Cluster(word, Rest(i)) \o AnswersFrom(After(word, i))
                  /\ OperandsFrom(i) = OperandsFrom(After(word, i))
    <3> DEFINE j == After(Tail(given[i]), i)
               c == Cluster(Tail(given[i]), Rest(i))
    <3>1. u[i] = [answers |-> c \o u[j].answers, operands |-> u[j].operands]
      BY <1>3, <2>4
    <3> HIDE DEF c, j
    <3>2. u[i].answers = c \o u[j].answers /\ u[i].operands = u[j].operands
      BY <3>1
    <3> QED
      BY <3>2, Zenon DEF AnswersFrom, OperandsFrom, u, c, j
  <2> HIDE DEF n, u
  <2> QED
    BY <2>1, <2>2, <2>3, <2>4, Zenon DEF n

LEMMA MeaningOK ==
  ASSUME given \in Args
  PROVE  \A i \in 1..(Len(given) + 1) : AnswersFrom(i) \in Seq(Answers) /\ OperandsFrom(i) \in Args
<1> DEFINE n == Len(given)
           Good(i) == AnswersFrom(i) \in Seq(Answers) /\ OperandsFrom(i) \in Args
           P == {k \in Nat : \A i \in (n + 1 - k)..(n + 1) : Good(i)}
<1>0. n \in Nat
  BY DEF Args
<1>1. ASSUME NEW i \in 1..n, \A j \in (i + 1)..(n + 1) : Good(j) PROVE Good(i)
  <2>0. given[i] \in Seq(STRING) /\ i + 1 \in (i + 1)..(n + 1) /\ Rest(i) \in Args
    BY <1>0, RestOK DEF Args
  <2>1. CASE IsOperand(given[i])
    <3>1. Good(i + 1) /\ AnswersFrom(i) = AnswersFrom(i + 1)
          /\ OperandsFrom(i) = <<given[i]>> \o OperandsFrom(i + 1)
      BY <1>1, <2>0, <2>1, MeaningCases
    <3> DEFINE o == OperandsFrom(i + 1)
               g == given[i]
    <3>2. o \in Seq(Seq(STRING)) /\ g \in Seq(STRING)
      BY <2>0, <3>1 DEF Args
    <3> HIDE DEF o, g
    <3>3. <<g>> \o o \in Seq(Seq(STRING))
      <4>1. <<g>> \in Seq(Seq(STRING))
        BY <3>2, OneOK
      <4> QED
        BY <3>2, <4>1, ConcatProperties
    <3> QED
      BY <3>1, <3>3 DEF o, g, Args
  <2>2. CASE ~IsOperand(given[i]) /\ given[i] = <<"-", "-">>
    <3>1. AnswersFrom(i) = <<>> /\ OperandsFrom(i) = Rest(i)
      BY <2>2, MeaningCases
    <3> QED
      BY <2>0, <3>1, NoneOK
  <2>3. CASE ~IsOperand(given[i]) /\ given[i] # <<"-", "-">>
    <3> DEFINE word == Tail(given[i])
               c == Cluster(word, Rest(i))
               a == AnswersFrom(After(word, i))
    <3>1. AnswersFrom(i) = c \o a /\ OperandsFrom(i) = OperandsFrom(After(word, i))
      BY <2>3, MeaningCases
    <3>2. Good(After(word, i))
      BY <1>1, AfterOK
    <3>3. word \in Seq(STRING)
      BY <2>0, <2>3, HeadTailProperties DEF IsOperand
    <3>4. c \in Seq(Answers)
      BY <2>0, <3>3, ClusterOK
    <3> HIDE DEF word, c
    <3>5. c \o a \in Seq(Answers)
      BY <3>2, <3>4, ConcatProperties
    <3> QED
      BY <3>1, <3>2, <3>5
  <2> QED
    BY <2>1, <2>2, <2>3
<1>2. 0 \in P
  <2>1. Good(n + 1)
    BY MeaningCases, NoneOK DEF Args
  <2> HIDE DEF Good
  <2> QED
    BY <1>0, <2>1
<1> HIDE DEF Good
<1>3. ASSUME NEW k \in 0..(n - 1), k \in P PROVE k + 1 \in P
  <2>1. n - k \in 1..n /\ \A j \in ((n - k) + 1)..(n + 1) : Good(j)
    BY <1>0, <1>3
  <2>2. Good(n - k)
    BY <1>1, <2>1
  <2>3. \A i \in (n + 1 - (k + 1))..(n + 1) : Good(i)
    BY <1>0, <2>1, <2>2
  <2> QED
    BY <1>3, <2>3
<1>4. n \in P
  <2> HIDE DEF P, n
  <2>1. \A k \in 0..n : k \in P
    BY <1>0, <1>2, <1>3, CountInduction
  <2> QED
    BY <1>0, <2>1
<1>5. \A i \in 1..(n + 1) : Good(i)
  BY <1>0, <1>4
<1> QED
  BY <1>5 DEF Good

\* The rotation, read as sequences.
LEMMA Moved ==
  ASSUME NEW w \in Args, NEW start \in Nat, NEW end \in Nat, NEW opt_end \in Nat,
         1 <= start, start < end, end < opt_end, opt_end <= Len(w) + 1,
         NEW v, v = permute_args(start, end, opt_end, w)
  PROVE  /\ v \in Args /\ Len(v) = Len(w)
         /\ \A p \in opt_end..Len(w) : v[p] = w[p]
         /\ SubSeq(v, opt_end - (end - start), opt_end - 1) = SubSeq(w, start, end - 1)
<1> DEFINE n == Len(w)
           m == end - start
<1>1. n \in Nat /\ DOMAIN w = 1..n /\ w = [p \in DOMAIN w |-> w[p]]
      /\ \A p \in 1..n : w[p] \in Seq(STRING)
  BY DEF Args
<1>2. start..(opt_end - 1) \subseteq DOMAIN w
  BY <1>1
<1>3. v = Rotated(start, end, opt_end, w)
  BY <1>1, <1>2, PermuteRotates
<1>4. \A p \in 1..n :
        /\ p \notin start..(opt_end - 1) => v[p] = w[p]
        /\ p \in start..(opt_end - 1) /\ p < start + (opt_end - end) => v[p] = w[p + m]
        /\ p \in start..(opt_end - 1) /\ ~(p < start + (opt_end - end)) => v[p] = w[p - (opt_end - end)]
  <2> TAKE p \in 1..n
  <2>1. p \in DOMAIN w
    BY <1>1
  <2> DEFINE R == Rotated(start, end, opt_end, w)
  <2>2. /\ p \notin start..(opt_end - 1) => R[p] = w[p]
        /\ p \in start..(opt_end - 1) /\ p < start + (opt_end - end) => R[p] = w[p + (end - start)]
        /\ p \in start..(opt_end - 1) /\ ~(p < start + (opt_end - end)) => R[p] = w[p - (opt_end - end)]
    BY <2>1, RotatedAt
  <2> HIDE DEF R
  <2> QED
    BY <1>3, <2>2 DEF R
<1>5. \A p \in 1..n : v[p] \in Seq(STRING)
  <2> TAKE p \in 1..n
  <2>1. CASE p \notin start..(opt_end - 1)
    BY <1>1, <1>4, <2>1
  <2>2. CASE p \in start..(opt_end - 1) /\ p < start + (opt_end - end)
    <3>1. p + m \in 1..n
      BY <1>1, <2>2
    <3> QED
      BY <1>1, <1>4, <2>2, <3>1
  <2>3. CASE p \in start..(opt_end - 1) /\ ~(p < start + (opt_end - end))
    <3>1. p - (opt_end - end) \in 1..n
      BY <1>1, <2>3
    <3> QED
      BY <1>1, <1>4, <2>3, <3>1
  <2> QED
    BY <2>1, <2>2, <2>3
<1>6. v = [p \in 1..n |-> v[p]]
  BY <1>1, <1>3 DEF Rotated
<1>7. v \in Seq(Seq(STRING)) /\ Len(v) = n
  <2>1. v \in [1..n -> Seq(STRING)]
    BY <1>5, <1>6
  <2> QED
    BY <1>1, <2>1
<1> DEFINE s == SubSeq(v, opt_end - m, opt_end - 1)
           r == SubSeq(w, start, end - 1)
<1>8. s \in Seq(Seq(STRING)) /\ Len(s) = m /\ \A i \in 1..m : s[i] = v[opt_end - m + i - 1]
  <2>1. \A i \in (opt_end - m)..(opt_end - 1) : v[i] \in Seq(STRING)
    BY <1>1, <1>5
  <2>2. /\ s \in Seq(Seq(STRING))
        /\ Len(s) = IF opt_end - m <= opt_end - 1 THEN (opt_end - 1) - (opt_end - m) + 1 ELSE 0
        /\ \A i \in 1..((opt_end - 1) - (opt_end - m) + 1) : s[i] = v[(opt_end - m) + i - 1]
    <3>1. opt_end - m \in Int /\ opt_end - 1 \in Int
      OBVIOUS
    <3> DEFINE a == opt_end - m
               b == opt_end - 1
    <3> HIDE DEF a, b, m
    <3>2. /\ SubSeq(v, a, b) \in Seq(Seq(STRING))
          /\ Len(SubSeq(v, a, b)) = IF a <= b THEN b - a + 1 ELSE 0
          /\ \A i \in 1..(b - a + 1) : SubSeq(v, a, b)[i] = v[a + i - 1]
      BY <2>1, <3>1, SubSeqProperties DEF a, b
    <3> QED
      BY <3>2 DEF a, b
  <2> HIDE DEF s
  <2> QED
    BY <2>2
<1>9. r \in Seq(Seq(STRING)) /\ Len(r) = m /\ \A i \in 1..m : r[i] = w[start + i - 1]
  <2>1. \A i \in start..(end - 1) : w[i] \in Seq(STRING)
    BY <1>1
  <2>2. /\ r \in Seq(Seq(STRING))
        /\ Len(r) = IF start <= end - 1 THEN (end - 1) - start + 1 ELSE 0
        /\ \A i \in 1..((end - 1) - start + 1) : r[i] = w[start + i - 1]
    BY <2>1, SubSeqProperties
  <2> HIDE DEF r
  <2> QED
    BY <2>2
<1>10. \A i \in 1..m : s[i] = r[i]
  <2> TAKE i \in 1..m
  <2>1. opt_end - m + i - 1 \in 1..n
        /\ opt_end - m + i - 1 \in start..(opt_end - 1)
        /\ ~(opt_end - m + i - 1 < start + (opt_end - end))
        /\ (opt_end - m + i - 1) - (opt_end - end) = start + i - 1
    <3>1. n \in Nat /\ opt_end <= n + 1 /\ m = end - start
      BY <1>1
    <3> HIDE DEF n, m
    <3>2. i \in Int /\ 1 <= i /\ i <= m
      BY <3>1
    <3> QED
      BY <3>1, <3>2
  <2> HIDE DEF s, r
  <2> QED
    BY <1>4, <1>8, <1>9, <2>1
<1>11. s = r
  <2> HIDE DEF s, r
  <2> QED
    BY <1>8, <1>9, <1>10, SeqEqual
<1>12. \A p \in opt_end..n : v[p] = w[p]
  BY <1>1, <1>4
<1> QED
  BY <1>7, <1>11, <1>12 DEF Args

\* The argument at which reading will go on once the cluster in hand is done.
Onwards == IF place = <<>> THEN optind ELSE After(place, optind)

\* The operands that were skipped last, where they stand now.
Skipped == IF nonopt_start = -1 THEN <<>>
           ELSE SubSeq(argv, nonopt_start, (IF nonopt_end = -1 THEN optind ELSE nonopt_end) - 1)

PlacesInv ==
  /\ given \in Args /\ argv \in Args /\ Len(argv) = Len(given)
  /\ optind \in 1..(Len(given) + 1) /\ place \in Seq(STRING) /\ answers \in Seq(Answers)
  /\ parsed \in BOOLEAN /\ nonopt_start \in Int /\ nonopt_end \in Int
  /\ nonopt_start # -1 => 1 <= nonopt_start /\ nonopt_start < optind
  /\ nonopt_end # -1 => /\ nonopt_start # -1 /\ nonopt_start < nonopt_end
                        /\ nonopt_end <= optind /\ (place = <<>> => nonopt_end < optind)
  /\ place # <<>> => /\ ~parsed /\ optind <= Len(given)
                     /\ nonopt_start # -1 => nonopt_end # -1
RestInv == ~parsed => \A q \in optind..Len(given) : argv[q] = given[q]
AnswerInv ==
  IF parsed THEN answers = AnswersFrom(1)
  ELSE answers \o (Cluster(place, Rest(optind)) \o AnswersFrom(Onwards)) = AnswersFrom(1)
OperandInv ==
  IF parsed THEN SubSeq(argv, optind, Len(given)) = OperandsFrom(1)
  ELSE Skipped \o OperandsFrom(Onwards) = OperandsFrom(1)
OptInv == PlacesInv /\ RestInv /\ AnswerInv /\ OperandInv

LEMMA SkippedOK == ASSUME PlacesInv PROVE Skipped \in Args
<1>1. CASE nonopt_start = -1
  BY <1>1, NoneOK DEF Skipped, Args
<1>2. CASE nonopt_start # -1
  <2> DEFINE e == (IF nonopt_end = -1 THEN optind ELSE nonopt_end) - 1
  <2>1. nonopt_start \in Int /\ e \in Int /\ 1 <= nonopt_start /\ e <= Len(argv) /\ Len(argv) \in Nat
    <3>1. Len(argv) \in Nat
      BY DEF PlacesInv, Args
    <3>2. optind \in Int /\ optind <= Len(argv) + 1 /\ nonopt_start \in Int /\ nonopt_end \in Int
          /\ 1 <= nonopt_start /\ nonopt_start < optind /\ (nonopt_end # -1 => nonopt_end <= optind)
      BY <1>2, <3>1 DEF PlacesInv
    <3> QED
      BY <3>1, <3>2
  <2> HIDE DEF e
  <2>2. argv \in Seq(Seq(STRING))
    BY DEF PlacesInv, Args
  <2>3. \A i \in nonopt_start..e : argv[i] \in Seq(STRING)
    BY <2>1, <2>2
  <2>4. SubSeq(argv, nonopt_start, e) \in Seq(Seq(STRING))
    BY <2>1, <2>3, SubSeqProperties
  <2> QED
    BY <1>2, <2>4 DEF Skipped, Args, e
<1> QED
  BY <1>1, <1>2

\* Between two arguments nothing is in hand.
LEMMA AtArgument ==
  ASSUME OptInv, ~parsed, place = <<>>
  PROVE  /\ answers \o AnswersFrom(optind) = AnswersFrom(1)
         /\ Skipped \o OperandsFrom(optind) = OperandsFrom(1)
<1>1. Onwards = optind
  BY DEF Onwards
<1>2. Cluster(place, Rest(optind)) = <<>>
  BY EmptyCluster
<1>3. AnswersFrom(optind) \in Seq(Answers)
  BY MeaningOK DEF OptInv, PlacesInv
<1>4. <<>> \o AnswersFrom(optind) = AnswersFrom(optind)
  BY <1>3, ConcatEmptySeq
<1>5. answers \o (Cluster(place, Rest(optind)) \o AnswersFrom(Onwards)) = AnswersFrom(1)
      /\ Skipped \o OperandsFrom(Onwards) = OperandsFrom(1)
  BY DEF OptInv, AnswerInv, OperandInv
<1> QED
  BY <1>1, <1>2, <1>4, <1>5

\* Nothing is in hand afterwards either.
LEMMA AtNextArgument ==
  ASSUME given \in Args, given' = given, ~parsed', place' = <<>>, optind' \in 1..(Len(given) + 1),
         answers' \o AnswersFrom(optind') = AnswersFrom(1),
         Skipped' \o OperandsFrom(optind') = OperandsFrom(1)
  PROVE  AnswerInv' /\ OperandInv'
<1>1. Onwards' = optind'
  BY DEF Onwards
<1>2. Cluster(<<>>, Rest(optind)') = <<>>
  BY EmptyCluster
<1>3. AnswersFrom(optind') \in Seq(Answers)
  BY MeaningOK
<1>4. <<>> \o AnswersFrom(optind') = AnswersFrom(optind')
  BY <1>3, ConcatEmptySeq
<1>5. AnswersFrom(1)' = AnswersFrom(1) /\ OperandsFrom(1)' = OperandsFrom(1)
  BY DEF AnswersFrom, OperandsFrom
<1>6. AnswersFrom(Onwards)' = AnswersFrom(optind') /\ OperandsFrom(Onwards)' = OperandsFrom(optind')
  BY <1>1 DEF AnswersFrom, OperandsFrom
<1>7. answers' \o (Cluster(place', Rest(optind)') \o AnswersFrom(Onwards)') = AnswersFrom(1)'
  BY <1>2, <1>4, <1>5, <1>6
<1>8. Skipped' \o OperandsFrom(Onwards)' = OperandsFrom(1)'
  BY <1>5, <1>6
<1> QED
  BY <1>7, <1>8 DEF AnswerInv, OperandInv

LEMMA EndOfArgumentsOK == ASSUME OptInv, given' = given, EndOfArguments PROVE OptInv'
<1> DEFINE n == Len(given)
<1>1. ~parsed /\ place = <<>> /\ parsed' /\ UNCHANGED <<place, answers>> /\ Permute
      /\ nonopt_start' = -1 /\ nonopt_end' = -1
  BY DEF EndOfArguments
<1>2. optind = n + 1 /\ n \in Nat /\ PlacesInv /\ argv \in Args /\ Len(argv) = n
  BY DEF EndOfArguments, OptInv, PlacesInv, Args
<1>3. answers \o AnswersFrom(n + 1) = AnswersFrom(1) /\ Skipped \o OperandsFrom(n + 1) = OperandsFrom(1)
  BY <1>1, <1>2, AtArgument
<1>4. answers = AnswersFrom(1)
  <2>1. answers \o <<>> = answers
    BY <1>2, ConcatEmptySeq DEF PlacesInv
  <2> QED
    BY <1>2, <1>3, <2>1, MeaningCases DEF PlacesInv
<1>5. Skipped = OperandsFrom(1)
  <2>1. Skipped \o <<>> = Skipped
    BY <1>2, SkippedOK, ConcatEmptySeq DEF Args
  <2> QED
    BY <1>2, <1>3, <2>1, MeaningCases DEF PlacesInv
<1>6. argv' \in Args /\ Len(argv') = n /\ optind' \in 1..(n + 1) /\ SubSeq(argv', optind', n) = Skipped
  <2>1. CASE nonopt_end # -1
    <3>1. argv' = permute_args(nonopt_start, nonopt_end, optind, argv)
          /\ optind' = optind - (nonopt_end - nonopt_start)
      BY <1>1, <2>1 DEF Permute
    <3>2. nonopt_start \in Nat /\ nonopt_end \in Nat /\ optind \in Nat /\ 1 <= nonopt_start
          /\ nonopt_start < nonopt_end /\ nonopt_end < optind /\ optind <= Len(argv) + 1
      BY <1>1, <1>2, <2>1 DEF PlacesInv
    <3>3. argv' \in Args /\ Len(argv') = Len(argv)
          /\ SubSeq(argv', optind - (nonopt_end - nonopt_start), optind - 1)
               = SubSeq(argv, nonopt_start, nonopt_end - 1)
      <4>1. argv \in Args
        BY <1>2
      <4> QED
        BY <3>1, <3>2, <4>1, Moved
    <3>4. Skipped = SubSeq(argv, nonopt_start, nonopt_end - 1)
      BY <2>1, <3>2 DEF Skipped
    <3>5. optind - 1 = n /\ optind - (nonopt_end - nonopt_start) \in 1..(n + 1)
      BY <1>2, <3>2
    <3> QED
      BY <1>2, <3>1, <3>3, <3>4, <3>5
  <2>2. CASE nonopt_end = -1 /\ nonopt_start # -1
    <3>1. argv' = argv /\ optind' = nonopt_start /\ nonopt_start \in 1..(n + 1)
      BY <1>1, <1>2, <2>2 DEF Permute, PlacesInv
    <3>2. Skipped = SubSeq(argv, nonopt_start, optind - 1) /\ optind - 1 = n
      <4>1. Skipped = SubSeq(argv, nonopt_start, optind - 1)
        BY <2>2 DEF Skipped
      <4> QED
        BY <1>2, <4>1
    <3> QED
      BY <1>2, <3>1, <3>2
  <2>3. CASE nonopt_end = -1 /\ nonopt_start = -1
    <3>1. argv' = argv /\ optind' = n + 1
      BY <1>1, <1>2, <2>3 DEF Permute
    <3>2. Skipped = <<>>
      BY <2>3 DEF Skipped
    <3>3. SubSeq(argv, n + 1, n) = <<>>
      BY <1>2, SubSeqEmpty
    <3> QED
      BY <1>2, <3>1, <3>2, <3>3
  <2> QED
    BY <2>1, <2>2, <2>3
<1>7. AnswersFrom(1)' = AnswersFrom(1) /\ OperandsFrom(1)' = OperandsFrom(1)
  BY DEF AnswersFrom, OperandsFrom
<1>8. PlacesInv'
  BY <1>1, <1>2, <1>6 DEF PlacesInv
<1>9. RestInv' /\ AnswerInv' /\ OperandInv'
  BY <1>1, <1>4, <1>5, <1>6, <1>7 DEF RestInv, AnswerInv, OperandInv
<1> QED
  BY <1>8, <1>9 DEF OptInv

LEMMA SkipOperandOK == ASSUME OptInv, given' = given, SkipOperand PROVE OptInv'
<1> DEFINE n == Len(given)
           g == given[optind]
<1>1. ~parsed /\ place = <<>> /\ UNCHANGED <<place, answers, parsed>> /\ optind' = optind + 1
      /\ IsOperand(argv[optind])
  BY DEF SkipOperand, Looking
<1>2. optind \in 1..n /\ n \in Nat /\ PlacesInv /\ argv \in Args /\ Len(argv) = n /\ given \in Args
  BY DEF SkipOperand, Looking, OptInv, PlacesInv, Args
<1>3. \A q \in optind..n : argv[q] = given[q]
  BY <1>1 DEF OptInv, RestInv
<1>4. g = argv[optind] /\ g \in Seq(STRING) /\ IsOperand(g)
  BY <1>1, <1>2, <1>3 DEF Args
<1>5. answers \o AnswersFrom(optind) = AnswersFrom(1) /\ Skipped \o OperandsFrom(optind) = OperandsFrom(1)
  BY <1>1, AtArgument
<1>6. AnswersFrom(optind) = AnswersFrom(optind + 1)
      /\ OperandsFrom(optind) = <<g>> \o OperandsFrom(optind + 1)
  BY <1>2, <1>4, MeaningCases
<1>7. /\ argv' \in Args /\ Len(argv') = n /\ (\A q \in optind..n : argv'[q] = given[q])
      /\ nonopt_end' = -1 /\ nonopt_start' \in 1..optind
      /\ SubSeq(argv', nonopt_start', optind) = Skipped \o <<g>>
  <2>1. CASE nonopt_start = -1
    <3>1. argv' = argv /\ nonopt_start' = optind /\ nonopt_end' = nonopt_end /\ nonopt_end = -1
      BY <1>2, <2>1 DEF SkipOperand, PlacesInv
    <3>2. SubSeq(argv, optind, optind) = <<g>>
      <4>1. argv \in Seq(Seq(STRING)) /\ optind \in 1..Len(argv) /\ optind \in optind..Len(argv)
        BY <1>2 DEF Args
      <4>2. SubSeq(argv, optind, optind) = <<argv[optind]>> \o SubSeq(argv, optind + 1, optind)
        <5>1. optind \in optind..Len(argv)
          BY <4>1
        <5> QED
          BY <4>1, <5>1, SubSeqRecursiveFirst
      <4>3. SubSeq(argv, optind + 1, optind) = <<>>
        BY <1>2, SubSeqEmpty
      <4>4. <<argv[optind]>> \in Seq(Seq(STRING))
        BY <1>4, OneOK
      <4> QED
        BY <1>4, <4>2, <4>3, <4>4, ConcatEmptySeq
    <3>3. Skipped = <<>> /\ <<>> \o <<g>> = <<g>>
      <4>1. <<g>> \in Seq(Seq(STRING))
        BY <1>4, OneOK
      <4> QED
        BY <2>1, <4>1, ConcatEmptySeq DEF Skipped
    <3> QED
      BY <1>2, <1>3, <3>1, <3>2, <3>3
  <2>2. CASE nonopt_start # -1 /\ nonopt_end # -1
    <3> DEFINE s == optind - (nonopt_end - nonopt_start)
    <3>1. argv' = permute_args(nonopt_start, nonopt_end, optind, argv)
          /\ nonopt_start' = s /\ nonopt_end' = -1
      BY <2>2 DEF SkipOperand
    <3>2. nonopt_start \in Nat /\ nonopt_end \in Nat /\ optind \in Nat /\ 1 <= nonopt_start
          /\ nonopt_start < nonopt_end /\ nonopt_end < optind /\ optind <= Len(argv) + 1
      BY <1>1, <1>2, <2>2 DEF PlacesInv
    <3>3. argv' \in Args /\ Len(argv') = Len(argv)
          /\ (\A p \in optind..Len(argv) : argv'[p] = argv[p])
          /\ SubSeq(argv', s, optind - 1) = SubSeq(argv, nonopt_start, nonopt_end - 1)
      BY <1>2, <3>1, <3>2, Moved
    <3>4. Skipped = SubSeq(argv, nonopt_start, nonopt_end - 1)
      BY <2>2 DEF Skipped
    <3>5. s \in 1..optind /\ optind \in s..n
      BY <1>2, <3>2
    <3>6. \A q \in optind..n : argv'[q] = given[q]
      BY <1>2, <1>3, <3>3
    <3>7. argv'[optind] = g
      BY <1>2, <3>6
    <3> HIDE DEF s
    <3>8. SubSeq(argv', s, optind) = SubSeq(argv', s, optind - 1) \o <<argv'[optind]>>
      <4>1. argv' \in Seq(Seq(STRING)) /\ s \in 1..Len(argv') /\ optind \in s..Len(argv')
        BY <1>2, <3>3, <3>5 DEF Args
      <4> QED
        BY <4>1, SubSeqRecursiveSecond
    <3> QED
      BY <1>2, <3>1, <3>3, <3>4, <3>5, <3>6, <3>7, <3>8
  <2>3. CASE nonopt_start # -1 /\ nonopt_end = -1
    <3>1. argv' = argv /\ nonopt_start' = nonopt_start /\ nonopt_end' = -1
      BY <2>3 DEF SkipOperand
    <3>2. nonopt_start \in 1..optind /\ optind \in nonopt_start..n
      BY <1>2, <2>3 DEF PlacesInv
    <3>3. Skipped = SubSeq(argv, nonopt_start, optind - 1)
      BY <2>3 DEF Skipped
    <3>4. SubSeq(argv, nonopt_start, optind) = SubSeq(argv, nonopt_start, optind - 1) \o <<argv[optind]>>
      <4>1. argv \in Seq(Seq(STRING)) /\ nonopt_start \in 1..Len(argv) /\ optind \in nonopt_start..Len(argv)
        BY <1>2, <3>2 DEF Args
      <4> QED
        BY <4>1, SubSeqRecursiveSecond
    <3> QED
      BY <1>2, <1>3, <1>4, <3>1, <3>2, <3>3, <3>4
  <2> QED
    BY <2>1, <2>2, <2>3
<1>8. Skipped' = Skipped \o <<g>>
  <2>1. nonopt_start' # -1 /\ nonopt_end' = -1 /\ optind' - 1 = optind
    BY <1>1, <1>2, <1>7
  <2>2. Skipped' = SubSeq(argv', nonopt_start', optind' - 1)
    BY <2>1 DEF Skipped
  <2> QED
    BY <1>7, <2>1, <2>2
<1>9. optind' \in 1..(n + 1)
  BY <1>1, <1>2
<1>10. Skipped' \o OperandsFrom(optind') = OperandsFrom(1)
  <2> DEFINE o == OperandsFrom(optind + 1)
  <2>1. o \in Seq(Seq(STRING)) /\ Skipped \in Seq(Seq(STRING)) /\ <<g>> \in Seq(Seq(STRING))
    BY <1>1, <1>2, <1>4, <1>9, MeaningOK, SkippedOK, OneOK DEF Args
  <2> HIDE DEF o
  <2>2. (Skipped \o <<g>>) \o o = Skipped \o (<<g>> \o o)
    BY <2>1, ConcatAssociative
  <2> QED
    BY <1>1, <1>5, <1>6, <1>8, <2>2 DEF o
<1>11. answers' \o AnswersFrom(optind') = AnswersFrom(1)
  BY <1>1, <1>5, <1>6
<1>12. AnswerInv' /\ OperandInv'
  BY <1>1, <1>2, <1>9, <1>10, <1>11, AtNextArgument
<1>13. PlacesInv'
  BY <1>1, <1>2, <1>7, <1>9 DEF PlacesInv
<1>14. RestInv'
  BY <1>1, <1>2, <1>7 DEF RestInv
<1> QED
  BY <1>12, <1>13, <1>14 DEF OptInv

LEMMA DoubleDashOK == ASSUME OptInv, given' = given, DoubleDash PROVE OptInv'
<1> DEFINE n == Len(given)
           e == IF nonopt_start # -1 /\ nonopt_end = -1 THEN optind ELSE nonopt_end
<1>1. ~parsed /\ place = <<>> /\ parsed' /\ UNCHANGED <<place, answers>>
      /\ nonopt_start' = -1 /\ nonopt_end' = -1 /\ argv[optind] = <<"-", "-">>
  BY DEF DoubleDash, Looking
<1>2. optind \in 1..n /\ n \in Nat /\ PlacesInv /\ argv \in Args /\ Len(argv) = n /\ given \in Args
  BY DEF DoubleDash, Looking, OptInv, PlacesInv, Args
<1>3. \A q \in optind..n : argv[q] = given[q]
  BY <1>1 DEF OptInv, RestInv
<1>4. given[optind] = <<"-", "-">> /\ ~IsOperand(given[optind])
  <2>1. given[optind] = <<"-", "-">>
    BY <1>1, <1>2, <1>3
  <2>2. ~IsOperand(<<"-", "-">>)
    BY DEF IsOperand
  <2> QED
    BY <2>1, <2>2
<1>5. answers \o AnswersFrom(optind) = AnswersFrom(1) /\ Skipped \o OperandsFrom(optind) = OperandsFrom(1)
  BY <1>1, AtArgument
<1>6. AnswersFrom(optind) = <<>> /\ OperandsFrom(optind) = Rest(optind)
  BY <1>2, <1>4, MeaningCases
<1>7. answers = AnswersFrom(1)
  <2>1. answers \o <<>> = answers
    BY <1>2, ConcatEmptySeq DEF PlacesInv
  <2> QED
    BY <1>5, <1>6, <2>1
<1>8. /\ argv' \in Args /\ Len(argv') = n /\ optind' \in 1..(n + 1)
      /\ SubSeq(argv', optind', n) = Skipped \o Rest(optind)
  <2>1. ASSUME NEW w \in Args, Len(w) = n, \A q \in (optind + 1)..n : w[q] = argv[q]
        PROVE  SubSeq(w, optind + 1, n) = Rest(optind)
    <3> DEFINE a == SubSeq(w, optind + 1, n)
               b == SubSeq(given, optind + 1, n)
    <3>1. \A q \in (optind + 1)..n : w[q] = given[q] /\ given[q] \in Seq(STRING)
      BY <1>2, <1>3, <2>1 DEF Args
    <3>2. /\ a \in Seq(Seq(STRING)) /\ Len(a) = (IF optind + 1 <= n THEN n - (optind + 1) + 1 ELSE 0)
          /\ \A i \in 1..(n - (optind + 1) + 1) : a[i] = w[optind + 1 + i - 1]
      BY <1>2, <3>1, SubSeqProperties
    <3>3. /\ b \in Seq(Seq(STRING)) /\ Len(b) = (IF optind + 1 <= n THEN n - (optind + 1) + 1 ELSE 0)
          /\ \A i \in 1..(n - (optind + 1) + 1) : b[i] = given[optind + 1 + i - 1]
      BY <1>2, <3>1, SubSeqProperties
    <3> HIDE DEF a, b
    <3>4. Len(a) = n - optind /\ Len(b) = n - optind
      BY <1>2, <3>2, <3>3
    <3>5. ASSUME NEW i \in 1..(n - optind) PROVE a[i] = b[i]
      <4>1. i \in 1..(n - (optind + 1) + 1) /\ optind + 1 + i - 1 \in (optind + 1)..n
        BY <1>2
      <4> QED
        BY <3>1, <3>2, <3>3, <4>1
    <3>6. a = b
      BY <3>2, <3>3, <3>4, <3>5, SeqEqual
    <3> QED
      BY <3>6 DEF a, b, Rest
  <2>2. CASE e # -1
    <3> DEFINE s == optind + 1 - (e - nonopt_start)
    <3>1. argv' = permute_args(nonopt_start, e, optind + 1, argv) /\ optind' = s
      BY <2>2 DEF DoubleDash
    <3>2. nonopt_start \in Nat /\ e \in Nat /\ optind + 1 \in Nat /\ 1 <= nonopt_start
          /\ nonopt_start < e /\ e < optind + 1 /\ optind + 1 <= Len(argv) + 1 /\ nonopt_start # -1
      <4>1. CASE nonopt_end = -1
        <5>1. e = optind /\ nonopt_start # -1
          BY <2>2, <4>1
        <5> QED
          BY <1>2, <5>1 DEF PlacesInv
      <4>2. CASE nonopt_end # -1
        <5>1. e = nonopt_end /\ nonopt_start # -1
          BY <1>2, <4>2 DEF PlacesInv
        <5> QED
          BY <1>1, <1>2, <4>2, <5>1 DEF PlacesInv
      <4> QED
        BY <4>1, <4>2
    <3>3. Skipped = SubSeq(argv, nonopt_start, e - 1)
      <4>1. e = IF nonopt_end = -1 THEN optind ELSE nonopt_end
        BY <3>2
      <4> QED
        BY <3>2, <4>1 DEF Skipped
    <3>4. argv' \in Args /\ Len(argv') = Len(argv)
          /\ (\A p \in (optind + 1)..Len(argv) : argv'[p] = argv[p])
          /\ SubSeq(argv', s, (optind + 1) - 1) = SubSeq(argv, nonopt_start, e - 1)
      <4>1. argv \in Args
        BY <1>2
      <4> DEFINE o == optind + 1
                 v == argv'
      <4>2. v = permute_args(nonopt_start, e, o, argv) /\ o \in Nat /\ e < o /\ o <= Len(argv) + 1
        BY <3>1, <3>2
      <4> HIDE DEF e, o, v, s
      <4>3. v \in Args /\ Len(v) = Len(argv)
            /\ (\A p \in o..Len(argv) : v[p] = argv[p])
            /\ SubSeq(v, o - (e - nonopt_start), o - 1) = SubSeq(argv, nonopt_start, e - 1)
        BY <3>2, <4>1, <4>2, Moved
      <4>4. s = o - (e - nonopt_start)
        BY <1>2, <3>2 DEF s, o
      <4> QED
        BY <4>3, <4>4 DEF o, v
    <3>5. (optind + 1) - 1 = optind /\ s \in 1..(n + 1) /\ optind \in (s - 1)..n /\ n \in optind..n
      <4> HIDE DEF e
      <4> QED
        BY <1>2, <3>2
    <3>6. SubSeq(argv', optind + 1, n) = Rest(optind)
      BY <1>2, <2>1, <3>4
    <3> HIDE DEF s, e
    <3>7. SubSeq(argv', s, optind) \o SubSeq(argv', optind + 1, n) = SubSeq(argv', s, n)
      <4>1. argv' \in Seq(Seq(STRING)) /\ s \in 1..(Len(argv') + 1) /\ optind \in (s - 1)..Len(argv')
            /\ n \in optind..Len(argv')
        BY <1>2, <3>4, <3>5 DEF Args
      <4> QED
        BY <4>1, ConcatAdjacentSubSeq
    <3> QED
      BY <1>2, <3>1, <3>3, <3>4, <3>5, <3>6, <3>7
  <2>3. CASE e = -1
    <3>1. argv' = argv /\ optind' = optind + 1
      BY <2>3 DEF DoubleDash
    <3>2. nonopt_start = -1
      <4>1. nonopt_end = -1
        BY <1>2, <2>3
      <4> QED
        BY <1>2, <2>3, <4>1
    <3>3. Skipped = <<>> /\ <<>> \o Rest(optind) = Rest(optind)
      <4>1. Rest(optind) \in Seq(Seq(STRING))
        BY <1>2, RestOK DEF Args
      <4> QED
        BY <3>2, <4>1, ConcatEmptySeq DEF Skipped
    <3>4. SubSeq(argv, optind + 1, n) = Rest(optind)
      BY <1>2, <2>1
    <3> QED
      BY <1>2, <3>1, <3>3, <3>4
  <2> QED
    BY <2>2, <2>3
<1>9. AnswersFrom(1)' = AnswersFrom(1) /\ OperandsFrom(1)' = OperandsFrom(1)
  BY DEF AnswersFrom, OperandsFrom
<1>10. PlacesInv'
  BY <1>1, <1>2, <1>8 DEF PlacesInv
<1>11. RestInv' /\ AnswerInv' /\ OperandInv'
  BY <1>1, <1>5, <1>6, <1>7, <1>8, <1>9 DEF RestInv, AnswerInv, OperandInv
<1> QED
  BY <1>10, <1>11 DEF OptInv

\* The letters in hand, be they new or left, and what follows the argument they are of.
LEMMA InHandOK ==
  ASSUME OptInv, given' = given, HandsOptions
  PROVE  /\ ~parsed /\ optind \in 1..Len(given) /\ InHand \in Seq(STRING) /\ InHand # <<>>
         /\ answers \o (Cluster(InHand, Rest(optind)) \o AnswersFrom(After(InHand, optind))) = AnswersFrom(1)
         /\ Skipped \o OperandsFrom(After(InHand, optind)) = OperandsFrom(1)
<1> DEFINE n == Len(given)
<1>1. ~parsed /\ PlacesInv /\ argv \in Args /\ Len(argv) = n /\ given \in Args /\ n \in Nat
  BY DEF HandsOptions, OptInv, PlacesInv, Args
<1>2. CASE place # <<>>
  <2>1. InHand = place /\ optind \in 1..n /\ place \in Seq(STRING) /\ Onwards = After(place, optind)
    BY <1>1, <1>2 DEF InHand, PlacesInv, Onwards
  <2>2. AnswerInv /\ OperandInv
    BY DEF OptInv
  <2> QED
    BY <1>1, <1>2, <2>1, <2>2 DEF AnswerInv, OperandInv
<1>3. CASE place = <<>>
  <2>1. optind \in 1..n /\ InHand = Tail(argv[optind]) /\ ~IsOperand(argv[optind])
        /\ argv[optind] # <<"-", "-">>
    BY <1>1, <1>3 DEF HandsOptions, Looking, InHand, PlacesInv
  <2>2. given[optind] = argv[optind]
    BY <1>1, <2>1 DEF OptInv, RestInv
  <2>3. InHand \in Seq(STRING) /\ InHand # <<>>
    <3> DEFINE a == argv[optind]
    <3>1. a \in Seq(STRING) /\ a # <<>> /\ a[1] = "-" /\ a # <<"-">>
      BY <1>1, <2>1 DEF Args, IsOperand
    <3> HIDE DEF a
    <3>2. Tail(a) \in Seq(STRING) /\ Len(Tail(a)) = Len(a) - 1
      BY <3>1, HeadTailProperties
    <3>3. Tail(a) = <<>> => Len(a) = 1
      <4> DEFINE t == Tail(a)
      <4> HIDE DEF t
      <4>1. t \in Seq(STRING) /\ Len(t) = Len(a) - 1 /\ Len(a) \in Nat
        BY <3>1, <3>2 DEF t
      <4>2. t = <<>> => Len(a) = 1
        BY <4>1, EmptySeq
      <4> QED
        BY <4>2 DEF t
    <3>4. Len(a) # 1
      <4>1. ASSUME Len(a) = 1 PROVE a = <<"-">>
        BY <3>1, <4>1
      <4> QED
        BY <3>1, <4>1
    <3> QED
      BY <2>1, <3>2, <3>3, <3>4 DEF a
  <2>4. AnswersFrom(optind) = Cluster(InHand, Rest(optind)) \o AnswersFrom(After(InHand, optind))
        /\ OperandsFrom(optind) = OperandsFrom(After(InHand, optind))
    BY <1>1, <2>1, <2>2, MeaningCases
  <2>5. answers \o AnswersFrom(optind) = AnswersFrom(1) /\ Skipped \o OperandsFrom(optind) = OperandsFrom(1)
    BY <1>1, <1>3, AtArgument
  <2> QED
    BY <1>1, <2>1, <2>3, <2>4, <2>5
<1> QED
  BY <1>2, <1>3

\* The operands skipped before them are now known to be followed by an option.
LEMMA SkippedStays ==
  ASSUME OptInv, HandsOptions, optind' \in Int, optind <= optind'
  PROVE  /\ Skipped' = Skipped
         /\ nonopt_start' = nonopt_start /\ nonopt_end' \in Int
         /\ nonopt_end' # -1 => /\ nonopt_start # -1 /\ nonopt_start < nonopt_end'
                                /\ nonopt_end' <= optind
         /\ nonopt_start # -1 => nonopt_end' # -1
<1>1. PlacesInv /\ argv' = argv /\ nonopt_start' = nonopt_start
      /\ nonopt_end' = IF place = <<>> /\ nonopt_start # -1 /\ nonopt_end = -1 THEN optind ELSE nonopt_end
  BY DEF OptInv, HandsOptions
<1>2. nonopt_start # -1 => nonopt_end' # -1 /\ nonopt_end' = IF nonopt_end = -1 THEN optind ELSE nonopt_end
  BY <1>1 DEF PlacesInv
<1>3. Skipped' = Skipped
  BY <1>1, <1>2 DEF Skipped
<1> QED
  BY <1>1, <1>2, <1>3 DEF PlacesInv

LEMMA OneAnswer ==
  ASSUME NEW s \in Seq(Answers), NEW a \in Answers, NEW t \in Seq(Answers)
  PROVE  Append(s, a) \in Seq(Answers) /\ Append(s, a) \o t = s \o (<<a>> \o t)
<1>1. Append(s, a) = s \o <<a>> /\ Append(s, a) \in Seq(Answers)
  BY AppendIsConcat, AppendProperties
<1>2. <<a>> \in Seq(Answers)
  BY OneOK
<1> QED
  BY <1>1, <1>2, ConcatAssociative

\* The last answer of a cluster was given, and reading goes on after it.
LEMMA ClusterDone ==
  ASSUME OptInv, given' = given, HandsOptions, NEW a \in Answers,
         Cluster(InHand, Rest(optind)) = <<a>>, answers' = Append(answers, a),
         place' = <<>>, optind' = After(InHand, optind)
  PROVE  OptInv'
<1> DEFINE n == Len(given)
           T == After(InHand, optind)
<1>1. PlacesInv /\ given \in Args /\ n \in Nat /\ answers \in Seq(Answers)
  BY DEF OptInv, PlacesInv, Args
<1>2. /\ ~parsed /\ optind \in 1..n
      /\ answers \o (<<a>> \o AnswersFrom(T)) = AnswersFrom(1)
      /\ Skipped \o OperandsFrom(T) = OperandsFrom(1)
  BY InHandOK
<1>3. T \in (optind + 1)..(n + 1)
  BY <1>1, <1>2, AfterOK
<1> HIDE DEF T
<1>4. optind' = T
  BY DEF T
<1>5. T \in 1..(n + 1) /\ optind < T
  BY <1>1, <1>2, <1>3
<1>6. answers' \in Seq(Answers) /\ answers' \o AnswersFrom(T) = AnswersFrom(1)
  <2>1. AnswersFrom(T) \in Seq(Answers)
    BY <1>1, <1>5, MeaningOK
  <2> QED
    BY <1>1, <1>2, <2>1, OneAnswer
<1>7. /\ Skipped' = Skipped
      /\ nonopt_start' = nonopt_start /\ nonopt_end' \in Int
      /\ nonopt_end' # -1 => /\ nonopt_start # -1 /\ nonopt_start < nonopt_end'
                             /\ nonopt_end' <= optind
  <2>1. optind' \in Int /\ optind <= optind'
    BY <1>1, <1>2, <1>4, <1>5
  <2> QED
    BY <2>1, SkippedStays
<1>8. argv' = argv /\ parsed' = parsed
  BY DEF HandsOptions
<1>9. AnswerInv' /\ OperandInv'
  BY <1>1, <1>2, <1>4, <1>5, <1>6, <1>7, <1>8, AtNextArgument
<1>10. PlacesInv'
  <2>1. nonopt_start # -1 => 1 <= nonopt_start /\ nonopt_start < T
    BY <1>1, <1>2, <1>5 DEF PlacesInv
  <2>2. nonopt_end' # -1 => nonopt_end' < T
    BY <1>1, <1>2, <1>5, <1>7
  <2> QED
    BY <1>1, <1>2, <1>4, <1>5, <1>6, <1>7, <1>8, <2>1, <2>2 DEF PlacesInv
<1>11. RestInv'
  <2>1. optind \in Int /\ optind' \in Int /\ optind <= optind' /\ Len(given) \in Int
    BY <1>1, <1>2, <1>4, <1>5
  <2>2. \A q \in optind'..Len(given') : q \in optind..Len(given)
    BY <1>1, <2>1
  <2> QED
    BY <1>1, <1>8, <2>2 DEF OptInv, RestInv
<1> QED
  BY <1>9, <1>10, <1>11 DEF OptInv

LEMMA LongOptionOK == ASSUME OptInv, given' = given, LongOption PROVE OptInv'
<1> DEFINE w == InHand
           a == [opt |-> IF IsLong(Tail(w)) THEN "h" ELSE BADCH, arg |-> NoArgument]
<1>1. HandsOptions /\ w[1] = "-" /\ answers' = Append(answers, a) /\ optind' = optind + 1 /\ place' = <<>>
  BY DEF LongOption, Answer
<1>2. w \in Seq(STRING) /\ w # <<>> /\ optind \in 1..Len(given) /\ given \in Args
  BY <1>1, InHandOK DEF OptInv, PlacesInv
<1>3. Rest(optind) \in Args
  BY <1>2, RestOK
<1>4. LastAnswer(w[1], Tail(w), Rest(optind)) = a
  BY <1>1 DEF LastAnswer
<1>5. Tail(w) \in Seq(STRING) /\ w[1] \in STRING
  BY <1>2, HeadTailProperties
<1>6. a \in Answers
  BY <1>3, <1>4, <1>5, LastAnswerOK
<1> HIDE DEF w
<1>7. Cluster(w, Rest(optind)) = <<LastAnswer(w[1], Tail(w), Rest(optind))>>
      /\ ~TakesNext(w, Rest(optind))
  BY <1>1, <1>2, <1>3, EndsCluster
<1>8. After(w, optind) = optind + 1
  BY <1>7 DEF After
<1> HIDE DEF a
<1> QED
  BY <1>1, <1>4, <1>6, <1>7, <1>8, ClusterDone DEF w

LEMMA ShortOptionOK == ASSUME OptInv, given' = given, ShortOption PROVE OptInv'
<1> DEFINE w == InHand
           c == w[1]
           rest == Tail(w)
           n == Len(given)
           r == Rest(optind)
<1>1. HandsOptions /\ c # "-"
  BY DEF ShortOption
<1>2. w \in Seq(STRING) /\ w # <<>> /\ optind \in 1..n /\ given \in Args /\ n \in Nat /\ ~parsed
      /\ PlacesInv /\ argv \in Args /\ Len(argv) = n /\ answers \in Seq(Answers)
  BY <1>1, InHandOK DEF OptInv, PlacesInv, Args
<1>3. r \in Args /\ (r = <<>> <=> optind = n) /\ (optind + 1 <= n => r[1] = given[optind + 1])
  BY <1>2, RestOK
<1>4. rest \in Seq(STRING) /\ c \in STRING
  BY <1>2, HeadTailProperties
<1>5. CASE c \in WithArg
  <2> DEFINE a == LastAnswer(c, rest, r)
  <2>1. Cluster(w, r) = <<a>> /\ (TakesNext(w, r) <=> rest = <<>> /\ r # <<>>)
    <3> HIDE DEF w
    <3> QED
      BY <1>1, <1>2, <1>3, <1>5, EndsCluster
  <2>2. a \in Answers
    BY <1>3, <1>4, LastAnswerOK
  <2>3. place' = <<>> /\ answers' = Append(answers, a) /\ optind' = After(w, optind)
    <3>1. CASE rest # <<>>
      <4>1. place' = <<>> /\ answers' = Append(answers, [opt |-> c, arg |-> rest]) /\ optind' = optind + 1
        BY <1>5, <3>1 DEF ShortOption, Answer
      <4>2. a = [opt |-> c, arg |-> rest] /\ After(w, optind) = optind + 1
        BY <1>1, <2>1, <3>1 DEF LastAnswer, After
      <4> QED
        BY <4>1, <4>2
    <3>2. CASE rest = <<>> /\ optind = n
      <4>1. optind + 1 > Len(argv)
        BY <1>2, <3>2
      <4>2. place' = <<>> /\ answers' = Append(answers, [opt |-> BADCH, arg |-> NoArgument])
            /\ optind' = optind + 1
        BY <1>5, <3>2, <4>1 DEF ShortOption, Answer
      <4>3. a = [opt |-> BADCH, arg |-> NoArgument] /\ After(w, optind) = optind + 1
        BY <1>1, <1>3, <2>1, <3>2 DEF LastAnswer, After
      <4> QED
        BY <4>2, <4>3
    <3>3. CASE rest = <<>> /\ optind # n
      <4>1. ~(optind + 1 > Len(argv)) /\ optind + 1 <= n /\ optind + 1 \in optind..n
        BY <1>2, <3>3
      <4>2. place' = <<>> /\ answers' = Append(answers, [opt |-> c, arg |-> argv[optind + 1]])
            /\ optind' = optind + 2
        BY <1>5, <3>3, <4>1 DEF ShortOption, Answer
      <4>3. argv[optind + 1] = given[optind + 1]
        BY <1>2, <4>1 DEF OptInv, RestInv
      <4>4. a = [opt |-> c, arg |-> r[1]] /\ After(w, optind) = optind + 2
        BY <1>1, <1>3, <2>1, <3>3 DEF LastAnswer, After
      <4> QED
        BY <1>3, <4>1, <4>2, <4>3, <4>4
    <3> QED
      BY <3>1, <3>2, <3>3
  <2> HIDE DEF a
  <2> QED
    BY <1>1, <2>1, <2>2, <2>3, ClusterDone
<1>6. CASE c \notin WithArg
  <2> DEFINE a == FlagAnswer(c)
             T == After(rest, optind)
             C == Cluster(rest, r)
  <2>1. Cluster(w, r) = <<a>> \o C /\ (TakesNext(w, r) <=> TakesNext(rest, r))
    <3> HIDE DEF w
    <3> QED
      BY <1>1, <1>2, <1>3, <1>6, GoesOn
  <2>2. a \in Answers /\ C \in Seq(Answers)
    BY <1>3, <1>4, FlagAnswerOK, ClusterOK
  <2>3. After(w, optind) = T
    BY <2>1 DEF After
  <2>4. answers' = Append(answers, a) /\ place' = rest
        /\ optind' = IF rest = <<>> THEN optind + 1 ELSE optind
    BY <1>6 DEF ShortOption, Answer, FlagAnswer
  <2>5. CASE rest = <<>>
    <3>1. C = <<>> /\ T = optind + 1
      BY <2>5, EmptyCluster DEF After
    <3>2. <<a>> \o <<>> = <<a>>
      <4>1. <<a>> \in Seq(Answers)
        BY <2>2, OneOK
      <4> QED
        BY <4>1, ConcatEmptySeq
    <3> HIDE DEF a, T, C
    <3> QED
      BY <1>1, <2>1, <2>2, <2>3, <2>4, <2>5, <3>1, <3>2, ClusterDone
  <2>6. CASE rest # <<>>
    <3>1. answers \o ((<<a>> \o C) \o AnswersFrom(T)) = AnswersFrom(1)
          /\ Skipped \o OperandsFrom(T) = OperandsFrom(1)
      BY <1>1, <2>1, <2>3, InHandOK
    <3>2. AnswersFrom(T) \in Seq(Answers)
      <4>1. T \in (optind + 1)..(n + 1)
        BY <1>2, AfterOK
      <4>2. T \in 1..(n + 1)
        BY <1>2, <4>1
      <4> QED
        BY <1>2, <4>2, MeaningOK
    <3>3. optind' = optind
      BY <2>4, <2>6
    <3>4. /\ Skipped' = Skipped
          /\ nonopt_start' = nonopt_start /\ nonopt_end' \in Int
          /\ nonopt_end' # -1 => /\ nonopt_start # -1 /\ nonopt_start < nonopt_end'
                                 /\ nonopt_end' <= optind
          /\ nonopt_start # -1 => nonopt_end' # -1
      <4>1. optind' \in Int /\ optind <= optind'
        BY <1>2, <3>3
      <4> QED
        BY <1>1, <4>1, SkippedStays
    <3>5. argv' = argv /\ parsed' = parsed
      BY <1>1 DEF HandsOptions
    <3>6. answers' \in Seq(Answers) /\ answers' \o (C \o AnswersFrom(T)) = AnswersFrom(1)
      <4> DEFINE A == AnswersFrom(T)
      <4>1. <<a>> \in Seq(Answers)
        BY <2>2, OneOK
      <4> HIDE DEF a, C, A
      <4>2. (<<a>> \o C) \o A = <<a>> \o (C \o A) /\ C \o A \in Seq(Answers)
        BY <2>2, <3>2, <4>1, ConcatAssociative, ConcatProperties DEF A
      <4>3. Append(answers, a) \in Seq(Answers)
            /\ Append(answers, a) \o (C \o A) = answers \o (<<a>> \o (C \o A))
        BY <1>2, <2>2, <4>2, OneAnswer
      <4> QED
        BY <2>4, <3>1, <4>2, <4>3 DEF A
    <3>7. Onwards' = T /\ Rest(optind)' = r
      BY <2>4, <2>6, <3>3 DEF Onwards, After, Rest
    <3>8. AnswersFrom(Onwards)' = AnswersFrom(T) /\ OperandsFrom(Onwards)' = OperandsFrom(T)
          /\ AnswersFrom(1)' = AnswersFrom(1) /\ OperandsFrom(1)' = OperandsFrom(1)
      BY <3>7 DEF AnswersFrom, OperandsFrom
    <3>9. Cluster(place', Rest(optind)') = C
      BY <2>4, <3>7
    <3>10. AnswerInv'
      <4>1. answers' \o (Cluster(place', Rest(optind)') \o AnswersFrom(Onwards)') = AnswersFrom(1)'
        BY <3>6, <3>8, <3>9
      <4> QED
        BY <1>2, <3>5, <4>1 DEF AnswerInv
    <3>11. OperandInv'
      <4>1. Skipped' \o OperandsFrom(Onwards)' = OperandsFrom(1)'
        BY <3>1, <3>4, <3>8
      <4> QED
        BY <1>2, <3>5, <4>1 DEF OperandInv
    <3>12. PlacesInv'
      <4>1. nonopt_start # -1 => 1 <= nonopt_start /\ nonopt_start < optind
        BY <1>2 DEF PlacesInv
      <4> HIDE DEF a, C, T, r, w
      <4>2. rest \in Seq(STRING) /\ rest # <<>> /\ optind <= n /\ optind \in 1..(n + 1)
        BY <1>2, <1>4, <2>6
      <4>3. nonopt_start \in Int
        BY <1>2 DEF PlacesInv
      <4> QED
        BY <1>2, <2>4, <3>3, <3>4, <3>5, <3>6, <4>1, <4>2, <4>3 DEF PlacesInv
    <3>13. RestInv'
      BY <1>2, <3>3, <3>5 DEF OptInv, RestInv
    <3> QED
      BY <3>10, <3>11, <3>12, <3>13 DEF OptInv
  <2> QED
    BY <2>5, <2>6
<1> QED
  BY <1>5, <1>6

LEMMA OptStart == Init => OptInv
<1> SUFFICES ASSUME Init PROVE OptInv
  OBVIOUS
<1>1. given \in Args /\ argv = given /\ Len(given) \in Nat
  BY LinesAssumption DEF Init, Args
<1>2. ~parsed /\ place = <<>> /\ answers = <<>> /\ optind = 1 /\ nonopt_start = -1 /\ nonopt_end = -1
      /\ parsed \in BOOLEAN
  BY DEF Init, OptInit
<1>3. Onwards = 1 /\ Skipped = <<>> /\ Cluster(place, Rest(optind)) = <<>>
  BY <1>2, EmptyCluster DEF Onwards, Skipped
<1>4. AnswersFrom(1) \in Seq(Answers) /\ OperandsFrom(1) \in Seq(Seq(STRING))
  BY <1>1, MeaningOK DEF Args
<1>5. <<>> \o (<<>> \o AnswersFrom(1)) = AnswersFrom(1) /\ <<>> \o OperandsFrom(1) = OperandsFrom(1)
  BY <1>4, ConcatEmptySeq
<1>6. <<>> \in Seq(STRING) /\ <<>> \in Seq(Answers)
  BY NoneOK
<1>7. PlacesInv
  BY <1>1, <1>2, <1>6 DEF PlacesInv
<1>8. RestInv
  BY <1>1 DEF RestInv
<1>9. AnswerInv /\ OperandInv
  BY <1>2, <1>3, <1>5 DEF AnswerInv, OperandInv
<1> QED
  BY <1>7, <1>8, <1>9 DEF OptInv

LEMMA OptKept == OptInv /\ [Next]_vars => OptInv'
<1> SUFFICES ASSUME OptInv, [Next]_vars PROVE OptInv'
  OBVIOUS
<1>1. given' = given
  BY DEF Next, vars
<1>2. ASSUME UNCHANGED optVars PROVE OptInv'
  <2>1. UNCHANGED <<argv, optind, place, nonopt_start, nonopt_end, answers, parsed>>
    BY <1>2 DEF optVars
  <2> QED
    BY <1>1, <2>1 DEF OptInv, PlacesInv, RestInv, AnswerInv, OperandInv, Onwards, Skipped,
                      After, Rest, AnswersFrom, OperandsFrom
<1>3. CASE Parse
  BY <1>1, <1>3, EndOfArgumentsOK, SkipOperandOK, DoubleDashOK, LongOptionOK, ShortOptionOK
  DEF Parse, getopt_long
<1>4. CASE HandleOption \/ StartSelect \/ Select \/ StartBuild \/ Build \/ UNCHANGED vars
  BY <1>2, <1>4 DEF HandleOption, StartSelect, Select, StartBuild, Build, vars
<1> QED
  BY <1>3, <1>4 DEF Next

LEMMA OptAlways == Spec => []OptInv
BY OptStart, OptKept, PTL DEF Spec

\* OptionsAsGiven for all command lines and all sets of options.
THEOREM OptionsAreRead == Spec => []OptionsAsGiven
<1>1. OptInv => OptionsAsGiven
  <2> SUFFICES ASSUME OptInv PROVE OptionsAsGiven
    OBVIOUS
  <2> DEFINE A == AnswersFrom(1)
             n == Len(given)
  <2>1. PlacesInv /\ given \in Args /\ answers \in Seq(Answers) /\ n \in Nat /\ Len(argv) = n
    BY DEF OptInv, PlacesInv, Args
  <2>2. Meaning(given).answers = A /\ Meaning(given).operands = OperandsFrom(1)
    BY DEF Meaning, AnswersFrom, OperandsFrom
  <2>3. ASSUME parsed PROVE answers = A /\ SubSeq(argv, optind, Len(argv)) = OperandsFrom(1)
    BY <2>1, <2>3 DEF OptInv, AnswerInv, OperandInv
  <2>4. \E t \in Seq(Answers) : answers \o t = A
    <3>1. CASE parsed
      <4>1. answers \o <<>> = answers /\ <<>> \in Seq(Answers)
        BY <2>1, ConcatEmptySeq, NoneOK
      <4> QED
        BY <2>3, <3>1, <4>1
    <3>2. CASE ~parsed
      <4> DEFINE C == Cluster(place, Rest(optind))
                 B == AnswersFrom(Onwards)
      <4>1. answers \o (C \o B) = A
        BY <3>2 DEF OptInv, AnswerInv
      <4>2. C \in Seq(Answers)
        <5>1. CASE place = <<>>
          BY <5>1, EmptyCluster, NoneOK
        <5>2. CASE place # <<>>
          <6>1. optind \in 1..n /\ place \in Seq(STRING)
            BY <2>1, <5>2 DEF PlacesInv
          <6> QED
            BY <2>1, <6>1, RestOK, ClusterOK
        <5> QED
          BY <5>1, <5>2
      <4>3. Onwards \in 1..(n + 1)
        <5>1. CASE place = <<>>
          BY <2>1, <5>1 DEF PlacesInv, Onwards
        <5>2. CASE place # <<>>
          <6>1. optind \in 1..n
            BY <2>1, <5>2 DEF PlacesInv
          <6>2. After(place, optind) \in (optind + 1)..(n + 1)
            BY <2>1, <6>1, AfterOK
          <6> QED
            BY <2>1, <5>2, <6>1, <6>2 DEF Onwards
        <5> QED
          BY <5>1, <5>2
      <4>4. B \in Seq(Answers)
        BY <2>1, <4>3, MeaningOK
      <4> HIDE DEF B, C
      <4>5. C \o B \in Seq(Answers)
        BY <4>2, <4>4, ConcatProperties
      <4> QED
        BY <4>1, <4>5
    <3> QED
      BY <3>1, <3>2
  <2>5. PICK t \in Seq(Answers) : answers \o t = A
    BY <2>4
  <2> HIDE DEF A
  <2>6. Len(A) = Len(answers) + Len(t) /\ Len(answers) \in Nat /\ Len(t) \in Nat
    BY <2>1, <2>5, ConcatProperties
  <2>7. SubSeq(A, 1, Len(answers)) = answers /\ SubSeq(answers, 1, Len(answers)) = answers
    <3>1. SubSeq(answers, 1, Len(answers)) = answers
      BY <2>1, SubSeqFull
    <3>2. CASE answers = <<>>
      <4>1. SubSeq(A, 1, 0) = <<>> /\ Len(answers) = 0
        BY <3>2, SubSeqEmpty
      <4> QED
        BY <3>1, <3>2, <4>1
    <3>3. CASE answers # <<>>
      <4>1. Len(answers) \in 1..Len(answers) /\ 1 \in 1..Len(answers)
        BY <2>1, <2>6, <3>3, EmptySeq
      <4>2. SubSeq(answers \o t, 1, Len(answers)) = SubSeq(answers, 1, Len(answers))
        BY <2>1, <4>1, SubSeqOfConcat1
      <4> QED
        BY <2>5, <3>1, <4>2
    <3> QED
      BY <3>2, <3>3
  <2>8. IsPrefix(answers, A)
    BY <2>6, <2>7 DEF IsPrefix
  <2> QED
    BY <2>2, <2>3, <2>8 DEF OptionsAsGiven
<1> QED
  BY <1>1, OptAlways, PTL

-----------------------------------------------------------------------------
(* Every variable has its type.                                             *)

StatesInv ==
  /\ selected \in {"expand", "register", "ok", "exit", "die"}
  /\ posset \in BOOLEAN /\ walk \in {"closed", "next", "entry", "end", "undefined"}
  /\ build \in {"off", "walk", "files", "built", "die", "exit", "undefined"}
  /\ main \in {"options", "select", "build", "bench", "usage", "crash", "exit"}
HandledInv == handled \in 0..Len(answers)

LEMMA WalkStates ==
  ASSUME StatesInv, rdirnext
  PROVE  posset' \in BOOLEAN /\ walk' \in {"closed", "next", "entry", "end", "undefined"}
BY DEF StatesInv, rdirnext, NextInDir, EndOfDir, UnsetPos, NameOverrun, NextOperand, WalkEnds, Yield

LEMMA BuildStates ==
  ASSUME StatesInv, NEW filenmax, NEW delim, BuildNext(filenmax, delim)
  PROVE  /\ posset' \in BOOLEAN /\ walk' \in {"closed", "next", "entry", "end", "undefined"}
         /\ build' \in {"off", "walk", "files", "built", "die", "exit", "undefined"}
<1>1. CASE Walk
  BY <1>1, WalkStates DEF Walk, StatesInv
<1>2. CASE TakeEntry(filenmax)
  <2>1. posset' = posset /\ walk' \in {"next", "end", walk} /\ build' \in {"die", "undefined", build}
    BY <1>2 DEF TakeEntry, MergeEntry
  <2> QED
    BY <2>1 DEF StatesInv
<1>3. CASE WalkDone
  BY <1>3 DEF WalkDone, rdirclose, EndBuild, StatesInv
<1>4. CASE NextFile(filenmax, delim)
  <2>1. UNCHANGED <<posset, walk>>
    BY <1>4 DEF NextFile, walkVars
  <2>2. build' \in {"die", "undefined", "exit", build}
    BY <1>4 DEF NextFile, SplitFile, MergeFile
  <2> QED
    BY <2>1, <2>2 DEF StatesInv
<1>5. CASE FilesDone
  BY <1>5 DEF FilesDone, EndBuild, walkVars, StatesInv
<1> QED
  BY <1>1, <1>2, <1>3, <1>4, <1>5 DEF BuildNext

LEMMA SelectStates ==
  ASSUME StatesInv, NEW stdin, SelectNext(stdin)
  PROVE  selected' \in {"expand", "register", "ok", "exit", "die"}
<1>1. CASE RegisterLevel
  <2>1. selected' \in {"exit", "die", selected}
    BY <1>1 DEF RegisterLevel, AddCodec
  <2> QED
    BY <2>1 DEF StatesInv
<1>2. CASE ExpandSegment \/ StartPlugreg \/ SwitchIgnore \/ EndPlugreg(stdin)
  BY <1>2 DEF ExpandSegment, StartPlugreg, SwitchIgnore, EndPlugreg, StatesInv
<1> QED
  BY <1>1, <1>2 DEF SelectNext

LEMMA StatesKept == StatesInv /\ [Next]_vars => StatesInv'
<1> SUFFICES ASSUME StatesInv, [Next]_vars PROVE StatesInv'
  OBVIOUS
<1>0. ASSUME UNCHANGED buildVars PROVE UNCHANGED <<posset, walk, build>>
  BY <1>0 DEF buildVars, walkVars
<1>1. CASE Parse
  BY <1>0, <1>1 DEF Parse, selVars, StatesInv
<1>2. CASE HandleOption
  <2>1. main' \in {main, "crash", "usage"}
    BY <1>2 DEF HandleOption, SetOption
  <2> QED
    BY <1>0, <1>2, <2>1 DEF HandleOption, selVars, StatesInv
<1>3. CASE StartSelect
  BY <1>0, <1>3 DEF StartSelect, StatesInv
<1>4. CASE Select
  <2>1. main' \in {main, "bench", "build", "exit"} /\ UNCHANGED buildVars
    BY <1>4 DEF Select
  <2>2. selected' \in {"expand", "register", "ok", "exit", "die"}
    <3>1. CASE selected = "ok"
      BY <1>4, <3>1 DEF Select, selVars, StatesInv
    <3>2. CASE selected # "ok"
      BY <1>4, <3>2, SelectStates DEF Select
    <3> QED
      BY <3>1, <3>2
  <2> QED
    BY <1>0, <2>1, <2>2 DEF StatesInv
<1>5. CASE StartBuild
  <2>1. UNCHANGED <<selVars, main>> /\ build' \in {"walk", "files"}
    BY <1>5 DEF StartBuild, bebuild
  <2>2. posset' \in {posset, TRUE, FALSE} /\ walk' \in {walk, "next"}
    BY <1>5 DEF StartBuild, bebuild, rdiropen, walkVars
  <2> QED
    BY <2>1, <2>2 DEF selVars, StatesInv
<1>6. CASE Build
  <2>1. BuildNext(opts.filenmax, opts.delim) /\ UNCHANGED selVars /\ main' \in {main, "exit", "crash"}
    BY <1>6 DEF Build
  <2> QED
    BY <2>1, BuildStates DEF selVars, StatesInv
<1>7. CASE UNCHANGED vars
  BY <1>0, <1>7 DEF vars, selVars, StatesInv
<1> QED
  BY <1>1, <1>2, <1>3, <1>4, <1>5, <1>6, <1>7 DEF Next

\* main never sees more than was answered; what was answered stays.
LEMMA HandledKept == OptInv /\ HandledInv /\ [Next]_vars => HandledInv'
<1> SUFFICES ASSUME OptInv, HandledInv, [Next]_vars PROVE HandledInv'
  OBVIOUS
<1>1. answers \in Seq(Answers) /\ Len(answers) \in Nat
  BY DEF OptInv, PlacesInv
<1>2. ASSUME UNCHANGED <<answers, handled>> PROVE HandledInv'
  BY <1>2 DEF HandledInv
<1>3. CASE Parse
  <2>1. handled' = handled
    BY <1>3 DEF Parse
  <2>2. answers' = answers \/ \E a : answers' = Append(answers, a)
    BY <1>3 DEF Parse, getopt_long, EndOfArguments, SkipOperand, DoubleDash, LongOption,
                ShortOption, Answer
  <2>3. Len(answers') >= Len(answers) /\ Len(answers') \in Nat
    BY <1>1, <2>2
  <2> QED
    BY <1>1, <2>1, <2>3 DEF HandledInv
<1>4. CASE HandleOption
  <2>1. handled' = handled + 1 /\ handled < Len(answers) /\ answers' = answers
    BY <1>4 DEF HandleOption, optVars
  <2> QED
    BY <1>1, <2>1 DEF HandledInv
<1>5. CASE StartSelect \/ Select \/ StartBuild \/ Build \/ UNCHANGED vars
  BY <1>2, <1>5 DEF StartSelect, Select, StartBuild, Build, vars, optVars
<1> QED
  BY <1>3, <1>4, <1>5 DEF Next

\* TypeOK for all command lines, groups, registries and file systems.
THEOREM TypeCorrect == Spec => []TypeOK
<1>1. Init => StatesInv /\ HandledInv
  <2> SUFFICES ASSUME Init PROVE StatesInv /\ HandledInv
    OBVIOUS
  <2>1. answers = <<>> /\ handled = 0 /\ Len(<<>>) = 0
    BY DEF Init, OptInit
  <2>2. HandledInv
    BY <2>1 DEF HandledInv
  <2>3. selected = "expand" /\ posset = FALSE /\ walk = "closed" /\ build = "off" /\ main = "options"
    BY Zenon DEF Init, SelectInit, BuildInit, WalkInit
  <2>4. StatesInv
    BY <2>3 DEF StatesInv
  <2> QED
    BY <2>2, <2>4
<1>2. ASSUME OptInv, StatesInv, HandledInv, TableHasRoom, StackHolds PROVE TypeOK
  <2>1. argv \in Seq(Seq(STRING)) /\ Len(argv) = Len(given) /\ Len(given) \in Nat
        /\ place \in Seq(STRING) /\ parsed \in BOOLEAN
    BY <1>2 DEF OptInv, PlacesInv, Args
  <2>2. /\ optind \in 1..Len(given) + 1 /\ nonopt_start \in -1..Len(given)
        /\ nonopt_end \in -1..Len(given)
    BY <1>2, <2>1 DEF OptInv, PlacesInv
  <2> QED
    BY <1>2, <2>1, <2>2 DEF TypeOK, StatesInv, HandledInv
<1> QED
  BY <1>1, <1>2, OptAlways, OptStart, OptKept, StatesKept, HandledKept, TableInOrder, StackHasRoom,
     PTL DEF Spec

-----------------------------------------------------------------------------
(* The recursions the tree and the merged file are judged by: each value    *)
(* follows from the one before, so there is one solution.                    *)

StartStep(file, u, k) ==
  IF k = 0 THEN 1 ELSE LET i == u[k - 1] IN IF i \in DOMAIN file THEN i + 1 + file[i][2] ELSE 0
ResolveStep(node, names, u, k) ==
  IF k = 0 THEN node
  ELSE LET dir == u[k - 1]
       IN IF dir \in DOMAIN Sub /\ names[k] \in DOMAIN Sub[dir] THEN Sub[dir][names[k]] ELSE "nothing"
WaysStep(c, u, depth) ==
  [node \in DOMAIN Kind |->
     IF node \notin DOMAIN Sub THEN IF Holds(node, c) THEN 1 ELSE 0
     ELSE IF depth = 0 THEN 0
     ELSE Total([n \in DOMAIN Sub[node] |-> u[depth - 1][Sub[node][n]]])]

\* Each block of a merged file starts where the one before ended.
LEMMA StartsAt ==
  ASSUME NEW file, Len(file) \in Nat
  PROVE  \A k \in 0..Len(file) : Starts(file)[k] = StartStep(file, Starts(file), k)
<1> DEFINE n == Len(file)
           F(u, k) == StartStep(file, u, k)
           Solves(u, m) == \A k \in 0..m : u[k] = F(u, k)
           P == {m \in Nat : \E u : Solves(u, m)}
<1>0. n \in Nat
  OBVIOUS
<1>1. ASSUME NEW u, NEW v, NEW k \in Nat, k # 0 => u[k - 1] = v[k - 1] PROVE F(u, k) = F(v, k)
  BY <1>1 DEF StartStep
<1> HIDE DEF F
<1>2. 0 \in P
  <2> DEFINE v == [k \in {0} |-> F(<<>>, 0)]
  <2>1. v[0] = F(v, 0)
    BY <1>1
  <2> HIDE DEF v
  <2>2. Solves(v, 0)
    BY <2>1
  <2> QED
    BY <2>2
<1>3. ASSUME NEW m \in 0..(n - 1), m \in P PROVE m + 1 \in P
  <2>1. PICK u : Solves(u, m)
    BY <1>3
  <2> DEFINE v == [k \in 0..(m + 1) |-> F(u, k)]
  <2>2. ASSUME NEW k \in 0..(m + 1) PROVE v[k] = F(v, k)
    <3>1. v[k] = F(u, k)
      OBVIOUS
    <3>2. k # 0 => k - 1 \in 0..m /\ k - 1 \in 0..(m + 1)
      OBVIOUS
    <3>3. k # 0 => v[k - 1] = u[k - 1]
      BY <2>1, <3>2
    <3> HIDE DEF v
    <3> QED
      BY <1>1, <3>1, <3>3
  <2> HIDE DEF v
  <2>3. Solves(v, m + 1)
    BY <2>2
  <2> HIDE DEF Solves
  <2> QED
    BY <2>3 DEF n
<1>4. n \in P
  <2> HIDE DEF P, n
  <2>1. \A k \in 0..n : k \in P
    BY <1>0, <1>2, <1>3, CountInduction
  <2> QED
    BY <1>0, <2>1
<1>5. PICK u : Solves(u, n)
  BY <1>4
<1> DEFINE v == [k \in 0..n |-> u[k]]
           s == Starts(file)
<1>6. ASSUME NEW k \in 0..n PROVE v[k] = F(v, k)
  <2>1. v[k] = F(u, k) /\ (k # 0 => v[k - 1] = u[k - 1])
    BY <1>0, <1>1, <1>5
  <2> HIDE DEF v
  <2> QED
    BY <1>0, <1>1, <2>1
<1>7. v = [k \in 0..n |-> F(v, k)]
  BY <1>6
<1> HIDE DEF v
<1>8. s = CHOOSE w : w = [k \in 0..n |-> F(w, k)]
  BY DEF Starts, F, StartStep
<1> HIDE DEF s
<1>9. s = [k \in 0..n |-> F(s, k)]
  BY <1>7, <1>8
<1>10. \A k \in 0..n : s[k] = F(s, k)
  BY <1>9
<1> QED
  BY <1>10 DEF s, F

\* Each node of a route is below the one before.
LEMMA RouteAt ==
  ASSUME NEW node, NEW names, Len(names) \in Nat
  PROVE  \A k \in 0..Len(names) : Route(node, names)[k] = ResolveStep(node, names, Route(node, names), k)
<1> DEFINE n == Len(names)
           F(u, k) == ResolveStep(node, names, u, k)
           Solves(u, m) == \A k \in 0..m : u[k] = F(u, k)
           P == {m \in Nat : \E u : Solves(u, m)}
<1>0. n \in Nat
  OBVIOUS
<1>1. ASSUME NEW u, NEW v, NEW k \in Nat, k # 0 => u[k - 1] = v[k - 1] PROVE F(u, k) = F(v, k)
  BY <1>1 DEF ResolveStep
<1> HIDE DEF F
<1>2. 0 \in P
  <2> DEFINE v == [k \in {0} |-> F(<<>>, 0)]
  <2>1. v[0] = F(v, 0)
    BY <1>1
  <2> HIDE DEF v
  <2>2. Solves(v, 0)
    BY <2>1
  <2> QED
    BY <2>2
<1>3. ASSUME NEW m \in 0..(n - 1), m \in P PROVE m + 1 \in P
  <2>1. PICK u : Solves(u, m)
    BY <1>3
  <2> DEFINE v == [k \in 0..(m + 1) |-> F(u, k)]
  <2>2. ASSUME NEW k \in 0..(m + 1) PROVE v[k] = F(v, k)
    <3>1. v[k] = F(u, k)
      OBVIOUS
    <3>2. k # 0 => k - 1 \in 0..m /\ k - 1 \in 0..(m + 1)
      OBVIOUS
    <3>3. k # 0 => v[k - 1] = u[k - 1]
      BY <2>1, <3>2
    <3> HIDE DEF v
    <3> QED
      BY <1>1, <3>1, <3>3
  <2> HIDE DEF v
  <2>3. Solves(v, m + 1)
    BY <2>2
  <2> HIDE DEF Solves
  <2> QED
    BY <2>3 DEF n
<1>4. n \in P
  <2> HIDE DEF P, n
  <2>1. \A k \in 0..n : k \in P
    BY <1>0, <1>2, <1>3, CountInduction
  <2> QED
    BY <1>0, <2>1
<1>5. PICK u : Solves(u, n)
  BY <1>4
<1> DEFINE v == [k \in 0..n |-> u[k]]
           s == Route(node, names)
<1>6. ASSUME NEW k \in 0..n PROVE v[k] = F(v, k)
  <2>1. v[k] = F(u, k) /\ (k # 0 => v[k - 1] = u[k - 1])
    BY <1>0, <1>1, <1>5
  <2> HIDE DEF v
  <2> QED
    BY <1>0, <1>1, <2>1
<1>7. v = [k \in 0..n |-> F(v, k)]
  BY <1>6
<1> HIDE DEF v
<1>8. s = CHOOSE w : w = [k \in 0..n |-> F(w, k)]
  BY DEF Route, F, ResolveStep
<1> HIDE DEF s
<1>9. s = [k \in 0..n |-> F(s, k)]
  BY <1>7, <1>8
<1>10. \A k \in 0..n : s[k] = F(s, k)
  BY <1>9
<1> QED
  BY <1>10 DEF s, F

\* The ways through k directories follow from those through k - 1.
LEMMA WaysAt ==
  ASSUME NEW c
  PROVE  \A k \in 0..RDIR_DEPTH : WaysTo(c)[k] = WaysStep(c, WaysTo(c), k)
<1> DEFINE n == RDIR_DEPTH
           F(u, k) == WaysStep(c, u, k)
           Solves(u, m) == \A k \in 0..m : u[k] = F(u, k)
           P == {m \in Nat : \E u : Solves(u, m)}
<1>0. n \in Nat
  BY WalkAssumption
<1>1. ASSUME NEW u, NEW v, NEW k \in Nat, k # 0 => u[k - 1] = v[k - 1] PROVE F(u, k) = F(v, k)
  BY <1>1 DEF WaysStep
<1> HIDE DEF F
<1>2. 0 \in P
  <2> DEFINE v == [k \in {0} |-> F(<<>>, 0)]
  <2>1. v[0] = F(v, 0)
    BY <1>1
  <2> HIDE DEF v
  <2>2. Solves(v, 0)
    BY <2>1
  <2> QED
    BY <2>2
<1>3. ASSUME NEW m \in 0..(n - 1), m \in P PROVE m + 1 \in P
  <2>1. PICK u : Solves(u, m)
    BY <1>3
  <2> DEFINE v == [k \in 0..(m + 1) |-> F(u, k)]
  <2>2. ASSUME NEW k \in 0..(m + 1) PROVE v[k] = F(v, k)
    <3>1. v[k] = F(u, k)
      OBVIOUS
    <3>2. k # 0 => k - 1 \in 0..m /\ k - 1 \in 0..(m + 1)
      OBVIOUS
    <3>3. k # 0 => v[k - 1] = u[k - 1]
      BY <2>1, <3>2
    <3> HIDE DEF v
    <3> QED
      BY <1>1, <3>1, <3>3
  <2> HIDE DEF v
  <2>3. Solves(v, m + 1)
    BY <2>2
  <2> HIDE DEF Solves
  <2> QED
    BY <2>3 DEF n
<1>4. n \in P
  <2> HIDE DEF P, n
  <2>1. \A k \in 0..n : k \in P
    BY <1>0, <1>2, <1>3, CountInduction
  <2> QED
    BY <1>0, <2>1
<1>5. PICK u : Solves(u, n)
  BY <1>4
<1> DEFINE v == [k \in 0..n |-> u[k]]
           s == WaysTo(c)
<1>6. ASSUME NEW k \in 0..n PROVE v[k] = F(v, k)
  <2>1. v[k] = F(u, k) /\ (k # 0 => v[k - 1] = u[k - 1])
    BY <1>0, <1>1, <1>5
  <2> HIDE DEF v
  <2> QED
    BY <1>0, <1>1, <2>1
<1>7. v = [k \in 0..n |-> F(v, k)]
  BY <1>6
<1> HIDE DEF v
<1>8. s = CHOOSE w : w = [k \in 0..n |-> F(w, k)]
  BY DEF WaysTo, F, WaysStep
<1> HIDE DEF s
<1>9. s = [k \in 0..n |-> F(s, k)]
  BY <1>7, <1>8
<1>10. \A k \in 0..n : s[k] = F(s, k)
  BY <1>9
<1> QED
  BY <1>10 DEF s, F

-----------------------------------------------------------------------------
(* The merged file, block by block.                                         *)

\* A file of m blocks: behind each length as many words as it says.
InOrder(file, m) ==
  /\ m \in 0..Len(file)
  /\ \A k \in 0..(m - 1) :
       LET i == Starts(file)[k]
           j == Starts(file)[k + 1]
       IN i \in DOMAIN file /\ j - i - 1 \in Nat /\ j \in Nat /\ file[i] = Length(j - i - 1)
  /\ Starts(file)[m] = Len(file) + 1

\* Sequences that agree from i to j have the same part there.
LEMMA SameSubSeq ==
  ASSUME NEW V, NEW W, NEW f \in Seq(V), NEW g \in Seq(W), NEW i \in Nat, NEW j \in Int, 1 <= i,
         j <= Len(f), j <= Len(g), \A k \in i..j : f[k] = g[k]
  PROVE  SubSeq(f, i, j) = SubSeq(g, i, j)
<1>1. f \in Seq(V \cup W) /\ g \in Seq(V \cup W)
  OBVIOUS
<1>2. CASE i <= j
  <2>1. i \in 1..Len(f) + 1 /\ j \in i - 1..Len(f) /\ i \in 1..Len(g) + 1 /\ j \in i - 1..Len(g)
    BY <1>2
  <2>2. /\ SubSeq(f, i, j) \in Seq(V \cup W) /\ Len(SubSeq(f, i, j)) = j - i + 1
        /\ \A k \in 1..(j - i + 1) : SubSeq(f, i, j)[k] = f[i + k - 1]
        /\ SubSeq(g, i, j) \in Seq(V \cup W) /\ Len(SubSeq(g, i, j)) = j - i + 1
        /\ \A k \in 1..(j - i + 1) : SubSeq(g, i, j)[k] = g[i + k - 1]
    BY <1>1, <1>2, <2>1, SubSeqProperties
  <2>3. \A k \in 1..(j - i + 1) : i + k - 1 \in i..j
    BY <1>2
  <2>4. \A k \in 1..Len(SubSeq(f, i, j)) : SubSeq(f, i, j)[k] = SubSeq(g, i, j)[k]
    BY <2>2, <2>3
  <2> DEFINE F == SubSeq(f, i, j)
             G == SubSeq(g, i, j)
  <2>5. F \in Seq(V \cup W) /\ G \in Seq(V \cup W) /\ Len(F) = Len(G) /\ \A k \in 1..Len(F) : F[k] = G[k]
    BY <2>2, <2>4
  <2> HIDE DEF F, G
  <2>6. F = G
    BY <2>5, SeqEqual
  <2> QED
    BY <2>6 DEF F, G
<1>3. CASE ~(i <= j)
  <2>1. SubSeq(f, i, j) = <<>> /\ SubSeq(g, i, j) = <<>>
    BY <1>1, <1>3, SubSeqEmpty
  <2> QED
    BY <2>1
<1> QED
  BY <1>2, <1>3

\* What two joined sequences hold, and three.
LEMMA Joint ==
  ASSUME NEW S, NEW p \in Seq(S), NEW q \in Seq(S)
  PROVE  /\ p \o q \in Seq(S) /\ Len(p \o q) = Len(p) + Len(q)
         /\ \A i \in 1..Len(p) : (p \o q)[i] = p[i]
         /\ \A i \in 1..Len(q) : (p \o q)[Len(p) + i] = q[i]
<1> DEFINE r == p \o q
<1>1. /\ r \in Seq(S) /\ Len(r) = Len(p) + Len(q)
      /\ \A i \in 1..(Len(p) + Len(q)) : r[i] = IF i <= Len(p) THEN p[i] ELSE q[i - Len(p)]
  BY ConcatProperties
<1>2. Len(p) \in Nat /\ Len(q) \in Nat
  OBVIOUS
<1> HIDE DEF r
<1>3. ASSUME NEW i \in 1..Len(p) PROVE r[i] = p[i]
  <2>1. i \in 1..(Len(p) + Len(q)) /\ i <= Len(p)
    BY <1>2
  <2> QED
    BY <1>1, <2>1
<1>4. ASSUME NEW i \in 1..Len(q) PROVE r[Len(p) + i] = q[i]
  <2>1. Len(p) + i \in 1..(Len(p) + Len(q)) /\ ~(Len(p) + i <= Len(p)) /\ (Len(p) + i) - Len(p) = i
    BY <1>2
  <2> QED
    BY <1>1, <2>1
<1>5. /\ r \in Seq(S) /\ Len(r) = Len(p) + Len(q)
      /\ \A i \in 1..Len(p) : r[i] = p[i] 
      /\ \A i \in 1..Len(q) : r[Len(p) + i] = q[i]
  BY <1>1, <1>3, <1>4
<1> QED
  BY <1>5 DEF r

\* What a part of a sequence holds.
LEMMA PartIs ==
  ASSUME NEW W, NEW g \in Seq(W), NEW a \in Nat, NEW n \in Nat, a + n <= Len(g), NEW hi, hi = a + n,
         NEW b, b = SubSeq(g, a + 1, hi)
  PROVE  b \in Seq(W) /\ Len(b) = n /\ \A i \in 1..n : b[i] = g[a + i]
<1>0. a + 1 \in Int /\ hi \in Int /\ \A i \in (a + 1)..hi : g[i] \in W
  OBVIOUS
<1>1. /\ b \in Seq(W) /\ Len(b) = IF a + 1 <= hi THEN hi - (a + 1) + 1 ELSE 0
      /\ \A i \in 1..(hi - (a + 1) + 1) : b[i] = g[a + 1 + i - 1]
  BY <1>0, SubSeqProperties
<1>2. hi - (a + 1) + 1 = n /\ (~(a + 1 <= hi) => n = 0) /\ \A i \in 1..n : a + 1 + i - 1 = a + i
  OBVIOUS
<1> QED
  BY <1>1, <1>2

\* A block behind a file.
Behind(file, d) == file \o Block(d)

\* One block more: what was in order stays, and the block can be read.
LEMMA OneBlockLonger ==
  ASSUME NEW W, NEW file \in Seq(W), NEW d \in Seq(W), NEW m, InOrder(file, m), NEW g \in Seq(W),
         Len(g) = Len(file) + 1 + Len(d), DOMAIN g = 1..(Len(file) + 1 + Len(d)),
         \A i \in 1..Len(file) : g[i] = file[i],
         g[Len(file) + 1] = Length(Len(d)),
         \A i \in 1..Len(d) : g[Len(file) + 1 + i] = d[i]
  PROVE  /\ InOrder(g, m + 1)
         /\ \A k \in 1..m : BlockOf(g, k) = BlockOf(file, k)
         /\ BlockOf(g, m + 1) = d
<1> DEFINE L == Len(file)
           n == Len(d)
           s == Starts(file)
           t == Starts(g)
<1>0. L \in Nat /\ n \in Nat /\ m \in Nat /\ m <= L /\ DOMAIN file = 1..L
  BY DEF InOrder
<1>1a. /\ g \in Seq(W) /\ Len(g) = L + 1 + n /\ DOMAIN g = 1..(L + 1 + n)
       /\ \A i \in 1..L : g[i] = file[i]
       /\ g[L + 1] = Length(n)
       /\ \A i \in 1..n : g[L + 1 + i] = d[i]
  OBVIOUS
<1>2. (\A k \in 0..L : s[k] = StartStep(file, s, k)) /\ \A k \in 0..(L + 1 + n) : t[k] = StartStep(g, t, k)
  <2>1. Len(file) \in Nat /\ Len(g) \in Nat
    BY <1>0, <1>1a
  <2> QED
    BY <1>1a, <2>1, StartsAt
<1>3. /\ \A k \in 0..(m - 1) : /\ s[k] \in 1..L /\ s[k + 1] - s[k] - 1 \in Nat /\ s[k + 1] \in Nat
                               /\ file[s[k]] = Length(s[k + 1] - s[k] - 1)
      /\ s[m] = L + 1
  BY <1>0 DEF InOrder
<1> HIDE DEF s, t, L, n
<1>4. \A k \in 0..m : t[k] = s[k]
  <2> DEFINE P == {k \in 0..m : t[k] = s[k]}
  <2>1. 0 \in P
    <3>1. 0 \in 0..L /\ 0 \in 0..(L + 1 + n) /\ 0 \in 0..m
      BY <1>0
    <3> QED
      BY <1>2, <3>1 DEF StartStep
  <2>2. ASSUME NEW k \in 0..(m - 1), k \in P PROVE k + 1 \in P
    <3>1. k + 1 \in 0..L /\ k + 1 \in 0..(L + 1 + n) /\ k + 1 # 0 /\ (k + 1) - 1 = k /\ k + 1 \in 0..m
      BY <1>0
    <3>2. s[k] \in 1..L /\ s[k] \in 1..(L + 1 + n)
      BY <1>0, <1>3
    <3>3. s[k + 1] = StartStep(file, s, k + 1) /\ t[k + 1] = StartStep(g, t, k + 1)
      BY <1>2, <3>1
    <3>4. t[k] = s[k] /\ g[s[k]] = file[s[k]] /\ s[k] \in DOMAIN file /\ s[k] \in DOMAIN g
      BY <1>0, <1>1a, <2>2, <3>2
    <3>5. StartStep(file, s, k + 1) = StartStep(g, t, k + 1)
      BY <3>1, <3>4 DEF StartStep
    <3> QED
      BY <3>1, <3>3, <3>5
  <2> HIDE DEF P
  <2>3. \A k \in 0..m : k \in P
    BY <1>0, <2>1, <2>2, CountInduction
  <2> QED
    BY <2>3 DEF P
<1>5. t[m + 1] = L + 1 + n + 1
  <2>1. m + 1 \in 0..(L + 1 + n) /\ m + 1 # 0 /\ (m + 1) - 1 = m /\ m \in 0..m /\ L + 1 \in 1..(L + 1 + n)
    BY <1>0
  <2>2. t[m] = L + 1
    BY <1>3, <1>4, <2>1
  <2>3. t[m + 1] = t[m] + 1 + g[t[m]][2]
    <3>1. t[m + 1] = StartStep(g, t, m + 1)
      BY <1>2, <2>1
    <3>2. t[m] \in DOMAIN g
      BY <1>1a, <2>1, <2>2
    <3> QED
      BY <2>1, <3>1, <3>2 DEF StartStep
  <2>4. g[L + 1][2] = n
    BY <1>1a DEF Length
  <2> QED
    BY <1>0, <2>2, <2>3, <2>4
<1>6. InOrder(g, m + 1)
  <2>1. m + 1 \in 0..Len(g)
    BY <1>0, <1>1a
  <2>2. ASSUME NEW k \in 0..m
        PROVE t[k] \in DOMAIN g /\ t[k + 1] - t[k] - 1 \in Nat /\ t[k + 1] \in Nat /\ g[t[k]] = Length(t[k + 1] - t[k] - 1)
    <3>1. CASE k = m
      <4>1. t[k] = L + 1 /\ t[k + 1] = L + 1 + n + 1 /\ m \in 0..m
        BY <1>0, <1>3, <1>4, <1>5, <3>1
      <4>2. t[k + 1] - t[k] - 1 = n /\ L + 1 \in 1..(L + 1 + n)
        BY <1>0, <4>1
      <4> QED
        BY <1>0, <1>1a, <4>1, <4>2
    <3>2. CASE k # m
      <4>1. k \in 0..(m - 1) /\ k + 1 \in 0..m
        BY <1>0, <3>2
      <4>2. t[k] = s[k] /\ t[k + 1] = s[k + 1] /\ s[k] \in 1..L
        BY <1>3, <1>4, <4>1
      <4>3. s[k] \in 1..(L + 1 + n)
        BY <1>0, <4>2
      <4> QED
        BY <1>1a, <1>3, <4>1, <4>2, <4>3
    <3> QED
      BY <3>1, <3>2
  <2>3. t[m + 1] = Len(g) + 1
    BY <1>0, <1>1a, <1>5
  <2>4. (m + 1) - 1 = m
    BY <1>0
  <2> QED
    BY <2>1, <2>2, <2>3, <2>4 DEF InOrder, t
<1>7. ASSUME NEW k \in 1..m PROVE BlockOf(g, k) = BlockOf(file, k)
  <2>1. k - 1 \in 0..(m - 1) /\ (k - 1) + 1 = k /\ k \in 0..m /\ k - 1 \in 0..m
    BY <1>0
  <2>2. t[k - 1] = s[k - 1] /\ t[k] = s[k] /\ s[k - 1] \in 1..L /\ s[k] \in Nat
    BY <1>3, <1>4, <2>1
  <2>3. s[k] - 1 <= L
    <3>1. CASE k = m
      BY <1>0, <1>3, <3>1
    <3>2. CASE k # m
      <4>1. k \in 0..(m - 1)
        BY <1>0, <3>2
      <4> QED
        BY <1>0, <1>3, <4>1
    <3> QED
      BY <3>1, <3>2
  <2> DEFINE i == s[k - 1] + 1
             j == s[k] - 1
  <2>4. i \in Nat /\ j \in Int /\ 1 <= i /\ j <= L
    <3>1. PICK x, y : x = s[k - 1] /\ y = s[k]
      OBVIOUS
    <3>2. x \in 1..L /\ y \in Nat /\ y - 1 <= L
      BY <2>2, <2>3, <3>1
    <3>3. x + 1 \in Nat /\ y - 1 \in Int /\ 1 <= x + 1
      BY <1>0, <3>2
    <3> QED
      BY <3>1, <3>2, <3>3
  <2> HIDE DEF i, j
  <2>5. \A q \in i..j : g[q] = file[q]
    <3>1. \A q \in i..j : q \in 1..L
      BY <1>0, <2>4
    <3> QED
      BY <1>1a, <3>1
  <2>7. j <= Len(file) /\ j <= Len(g)
    <3>1. j <= L + 1 + n /\ L = Len(file)
      BY <1>0, <2>4
    <3> QED
      BY <1>1a, <2>4, <3>1
  <2>6. SubSeq(g, i, j) = SubSeq(file, i, j)
    BY <1>1a, <2>4, <2>5, <2>7, SameSubSeq
  <2> QED
    BY <2>2, <2>6 DEF BlockOf, i, j, s, t
<1>8. BlockOf(g, m + 1) = d
  <2>1. t[m] = L + 1 /\ t[m + 1] = L + 1 + n + 1 /\ (m + 1) - 1 = m
    BY <1>0, <1>3, <1>4, <1>5
  <2>2. BlockOf(g, m + 1) = SubSeq(g, L + 2, L + 1 + n)
    <3>1. t[m] + 1 = L + 2 /\ t[m + 1] - 1 = L + 1 + n
      BY <1>0, <2>1
    <3> QED
      BY <2>1, <3>1 DEF BlockOf, t
  <2>7. PICK b : b = SubSeq(g, L + 2, L + 1 + n)
    OBVIOUS
  <2>3. b \in Seq(W) /\ Len(b) = n /\ \A i \in 1..n : b[i] = g[L + 1 + i]
    <3>1. PICK a : a = L + 1
      OBVIOUS
    <3>2. PICK hi : hi = a + n
      OBVIOUS
    <3>3. a + n <= Len(g) /\ a + 1 = L + 2 /\ hi = L + 1 + n
      BY <1>0, <1>1a, <3>1, <3>2
    <3>4. a \in Nat /\ n \in Nat /\ g \in Seq(W)
      BY <1>0, <1>1a, <3>1
    <3>5. b = SubSeq(g, a + 1, hi)
      BY <2>7, <3>3
    <3>7. b \in Seq(W)
      BY <3>2, <3>3, <3>4, <3>5, PartIs
    <3>6. b \in Seq(W) /\ Len(b) = n /\ \A i \in 1..n : b[i] = g[a + i]
      BY <3>2, <3>3, <3>4, <3>5, <3>7, PartIs
    <3> QED
      BY <3>1, <3>6
  <2>4. \A i \in 1..n : b[i] = d[i]
    BY <1>1a, <2>3
  <2>5. d \in Seq(W) /\ b \in Seq(W) /\ Len(d) = n
    BY <2>3 DEF n
  <2>6. b = d
    BY <2>3, <2>4, <2>5, SeqEqual
  <2> QED
    BY <2>2, <2>6, <2>7
<1> QED
  BY <1>6, <1>7, <1>8

\* A block put behind a file in order is its last block, and changes no other.
LEMMA OneBlockMore ==
  ASSUME NEW W, NEW file \in Seq(W), NEW d \in Seq(W), Length(Len(d)) \in W, NEW m, InOrder(file, m)
  PROVE  /\ InOrder(Behind(file, d), m + 1) /\ Len(Behind(file, d)) = Len(file) + 1 + Len(d)
         /\ Behind(file, d) \in Seq(W)
         /\ \A k \in 1..m : BlockOf(Behind(file, d), k) = BlockOf(file, k)
         /\ BlockOf(Behind(file, d), m + 1) = d
<1> DEFINE g == Behind(file, d)
<1>0. Len(file) \in Nat /\ Len(d) \in Nat
  OBVIOUS
<1>1. PICK l : l = <<Length(Len(d))>>
  OBVIOUS
<1>2. PICK b : b = l \o d
  OBVIOUS
<1>3. l \in Seq(W)
  BY <1>1
<1>4. Len(l) = 1 /\ l[1] = Length(Len(d))
  BY <1>1
<1>5. g = file \o b
  BY <1>1, <1>2 DEF Block, Behind
<1> HIDE DEF g
<1>6. /\ l \o d \in Seq(W) /\ Len(l \o d) = Len(l) + Len(d)
      /\ \A i \in 1..Len(l) : (l \o d)[i] = l[i]
      /\ \A i \in 1..Len(d) : (l \o d)[Len(l) + i] = d[i]
  BY <1>3, Joint
<1>7. /\ b \in Seq(W) /\ Len(b) = Len(l) + Len(d)
      /\ \A i \in 1..Len(l) : b[i] = l[i]
      /\ \A i \in 1..Len(d) : b[Len(l) + i] = d[i]
  BY <1>2, <1>6
<1>8. b \in Seq(W)
  BY <1>7
<1>9. /\ file \o b \in Seq(W) /\ Len(file \o b) = Len(file) + Len(b)
      /\ \A i \in 1..Len(file) : (file \o b)[i] = file[i]
      /\ \A i \in 1..Len(b) : (file \o b)[Len(file) + i] = b[i]
  BY <1>8, Joint
<1>10. /\ g \in Seq(W) /\ Len(g) = Len(file) + Len(b)
       /\ \A i \in 1..Len(file) : g[i] = file[i]
       /\ \A i \in 1..Len(b) : g[Len(file) + i] = b[i]
  BY <1>5, <1>9
<1>11. 1 \in 1..(1 + Len(d)) /\ 1 \in 1..1
  BY <1>0
<1>12. Len(b) = 1 + Len(d)
  BY <1>4, <1>7
<1>13. g[Len(file) + 1] = Length(Len(d))
  BY <1>4, <1>7, <1>10, <1>11, <1>12
<1>14. ASSUME NEW i \in 1..Len(d) PROVE g[Len(file) + 1 + i] = d[i]
  <2>1. 1 + i \in 1..(1 + Len(d)) /\ Len(file) + (1 + i) = Len(file) + 1 + i
    BY <1>0
  <2>2. g[Len(file) + (1 + i)] = b[1 + i] /\ b[1 + i] = d[i]
    BY <1>4, <1>7, <1>10, <1>12, <2>1
  <2> QED
    BY <2>1, <2>2
<1>15. Len(g) = Len(file) + 1 + Len(d)
  BY <1>0, <1>10, <1>12
<1>16. DOMAIN g = 1..(Len(file) + 1 + Len(d))
  BY <1>10, <1>15
<1>17. g \in Seq(W) /\ \A i \in 1..Len(file) : g[i] = file[i]
  BY <1>10
<1>18. /\ InOrder(g, m + 1)
       /\ \A k \in 1..m : BlockOf(g, k) = BlockOf(file, k)
       /\ BlockOf(g, m + 1) = d
  BY <1>13, <1>14, <1>15, <1>16, <1>17, OneBlockLonger
<1> QED
  BY <1>15, <1>17, <1>18 DEF g

-----------------------------------------------------------------------------
(* A file that is cut at a delimiter: block after block, up to each of them. *)

FileWord == STRING \cup {Length(n) : n \in Nat}
CutFile(file, d, delim, e) == file \o SplitUpTo(d, Delims(d, delim), e)

\* EndAfter is the first end that is not before i.
LEMMA EndAfterIs ==
  ASSUME NEW ends \in SUBSET Nat, NEW e \in ends, NEW i \in Nat, i <= e
  PROVE  EndAfter(ends, i) \in ends /\ EndAfter(ends, i) >= i /\ \A f \in ends : f >= i => EndAfter(ends, i) <= f
<1> DEFINE S == {f \in ends : f >= i}
<1>1. S \in SUBSET Nat /\ S # {}
  OBVIOUS
<1> HIDE DEF S
<1>2. PICK m \in S : \A n \in S : m <= n
  BY <1>1, LeastNumber
<1>3. m \in ends /\ m >= i /\ \A f \in ends : f >= i => m <= f
  BY <1>2 DEF S
<1> QED
  BY <1>3 DEF EndAfter

\* What stands where, up to an end.
LEMMA SplitIs ==
  ASSUME NEW d \in Seq(STRING), NEW delim, NEW e \in Delims(d, delim) \cup {0}
  PROVE  /\ SplitUpTo(d, Delims(d, delim), e) \in Seq(FileWord)
         /\ Len(SplitUpTo(d, Delims(d, delim), e)) = e
         /\ \A i \in 1..e : SplitUpTo(d, Delims(d, delim), e)[i] = WordAt(d, Delims(d, delim), i)
<1> DEFINE ends == Delims(d, delim)
           f == SplitUpTo(d, ends, e)
<1>1. Len(d) \in Nat /\ ends \in SUBSET (1..Len(d)) /\ e \in 0..Len(d) /\ (e = 0 \/ e \in ends)
  BY DEF Delims
<1>2. ASSUME NEW i \in 1..e PROVE WordAt(d, ends, i) \in FileWord
  <2>1. CASE i = 1 \/ i - 1 \in ends
    <3>1. ends \in SUBSET Nat /\ e \in ends /\ i \in Nat /\ i <= e
      BY <1>1
    <3> HIDE DEF ends
    <3>2. EndAfter(ends, i) \in Nat /\ EndAfter(ends, i) >= i
      BY <3>1, EndAfterIs
    <3>3. EndAfter(ends, i) - i \in Nat
      BY <3>1, <3>2
    <3> QED
      BY <2>1, <3>3 DEF WordAt, FileWord
  <2>2. CASE ~(i = 1 \/ i - 1 \in ends)
    <3>1. i - 1 \in 1..Len(d)
      BY <1>1, <2>2
    <3>2. d[i - 1] \in STRING
      BY <3>1
    <3> HIDE DEF ends
    <3> QED
      BY <2>2, <3>2 DEF WordAt, FileWord
  <2> QED
    BY <2>1, <2>2
<1> HIDE DEF ends
<1>3. f = [i \in 1..e |-> WordAt(d, ends, i)]
  BY DEF SplitUpTo
<1> HIDE DEF f
<1>4. e \in Nat
  BY <1>1
<1>5. f \in Seq(FileWord) /\ Len(f) = e /\ \A i \in 1..e : f[i] = WordAt(d, ends, i)
  BY <1>2, <1>3, <1>4
<1> QED
  BY <1>5 DEF f, ends

\* The delimiters counted up to one, and up to the one before it.
LEMMA TurnsGoOn ==
  ASSUME NEW n \in Nat, NEW ends \in SUBSET (1..n), NEW e \in ends, NEW p \in Nat, p < e,
         \A f \in ends : f <= p \/ e <= f
  PROVE  Turns(ends, p) \in Nat /\ Turns(ends, e) = Turns(ends, p) + 1
<1> DEFINE A == {i \in ends : i <= p}
           B == {i \in ends : i <= e}
<1>0. \A i \in ends : i \in 1..n /\ i \in Int /\ (i <= e <=> i <= p \/ i = e)
  <2>1. ASSUME NEW i \in ends PROVE i \in 1..n /\ i \in Int /\ (i <= e <=> i <= p \/ i = e)
    <3>1. i \in 1..n /\ e \in 1..n /\ (i <= p \/ e <= i)
      OBVIOUS
    <3> QED
      BY <3>1
  <2> QED
    BY <2>1
<1>1. B = A \cup {e} /\ e \notin A /\ A \in SUBSET (1..n)
  <2>1. e \in ends /\ ~(e <= p)
    BY <1>0
  <2>2. \A i : i \in B <=> i \in A \cup {e}
    BY <1>0, <2>1
  <2>3. B = A \cup {e}
    BY <2>2
  <2> QED
    BY <1>0, <2>1, <2>3
<1> HIDE DEF A, B
<1>2. IsFiniteSet(A)
  <2>1. IsFiniteSet(1..n)
    BY FS_Interval
  <2> QED
    BY <1>1, <2>1, FS_Subset
<1>3. Cardinality(A) \in Nat /\ Cardinality(B) = Cardinality(A) + 1
  BY <1>1, <1>2, FS_CardinalityType, FS_AddElement
<1> QED
  BY <1>3 DEF Turns, A, B

\* The loop over the delimiters has not turned before the first word.
LEMMA NoTurnsYet == ASSUME NEW n \in Nat, NEW ends \in SUBSET (1..n) PROVE Turns(ends, 0) = 0
<1>0. \A i \in ends : i \in 1..n /\ ~(i <= 0)
  OBVIOUS
<1>1. {i \in ends : i <= 0} = {}
  BY <1>0
<1> QED
  BY <1>1, FS_EmptySet DEF Turns

\* From one delimiter to the next, one block more.
LEMMA SplitGoesOn ==
  ASSUME NEW file \in Seq(FileWord), NEW m, NEW d \in Seq(STRING), NEW delim,
         NEW e \in Delims(d, delim), NEW p \in Delims(d, delim) \cup {0}, p < e,
         \A q \in Delims(d, delim) : q <= p \/ e <= q,
         NEW f \in Seq(FileWord), Len(f) = Len(file) + p, InOrder(f, m + Turns(Delims(d, delim), p)),
         \A i \in 1..Len(file) : f[i] = file[i],
         \A i \in 1..p : f[Len(file) + i] = WordAt(d, Delims(d, delim), i),
         NEW g \in Seq(FileWord), Len(g) = Len(file) + e,
         \A i \in 1..Len(file) : g[i] = file[i],
         \A i \in 1..e : g[Len(file) + i] = WordAt(d, Delims(d, delim), i)
  PROVE  InOrder(g, (m + Turns(Delims(d, delim), p)) + 1)
<1> DEFINE ends == Delims(d, delim)
           L == Len(file)
           k == m + Turns(ends, p)
<1>1. /\ L \in Nat /\ Len(d) \in Nat /\ ends \in SUBSET (1..Len(d)) /\ e \in ends /\ e \in 1..Len(d)
      /\ p \in 0..Len(d) /\ p < e /\ (p = 0 \/ p \in ends)
  BY DEF Delims
<1>2. PICK r : r = (e - 1) - p
  OBVIOUS
<1>3. r \in Nat /\ p + r <= Len(d) /\ p + r = e - 1
  BY <1>1, <1>2
<1>4. PICK b : b = SubSeq(d, p + 1, e - 1)
  OBVIOUS
<1>5. b \in Seq(STRING) /\ Len(b) = r /\ \A i \in 1..r : b[i] = d[p + i]
  <2>1. PICK a : a = p
    OBVIOUS
  <2>2. PICK hi : hi = a + r
    OBVIOUS
  <2>3. a + r <= Len(d)
    BY <1>3, <2>1
  <2>4. a \in Nat /\ r \in Nat /\ d \in Seq(STRING)
    BY <1>1, <1>3, <2>1
  <2>5. b = SubSeq(d, a + 1, hi)
    BY <1>3, <1>4, <2>1, <2>2
  <2>6. b \in Seq(STRING)
    BY <2>2, <2>3, <2>4, <2>5, PartIs
  <2>7. b \in Seq(STRING) /\ Len(b) = r /\ \A i \in 1..r : b[i] = d[a + i]
    BY <2>2, <2>3, <2>4, <2>5, <2>6, PartIs
  <2> QED
    BY <2>1, <2>7
<1>6. b \in Seq(FileWord)
  BY <1>5 DEF FileWord
<1>7. EndAfter(ends, p + 1) = e
  <2>1. \A q \in ends : q >= p + 1 => e <= q
    <3>1. ASSUME NEW q \in ends, q >= p + 1 PROVE e <= q
      <4>1. q \in 1..Len(d) /\ (q <= p \/ e <= q)
        BY <1>1
      <4> QED
        BY <1>1, <3>1, <4>1
    <3> QED
      BY <3>1
  <2>2. ends \in SUBSET Nat /\ e \in ends /\ p + 1 \in Nat /\ p + 1 <= e
    BY <1>1
  <2> HIDE DEF ends
  <2>3. EndAfter(ends, p + 1) \in ends /\ EndAfter(ends, p + 1) >= p + 1 /\ EndAfter(ends, p + 1) <= e
    BY <2>2, EndAfterIs
  <2>4. EndAfter(ends, p + 1) \in Nat /\ e <= EndAfter(ends, p + 1)
    BY <2>1, <2>2, <2>3
  <2> QED
    BY <1>1, <2>3, <2>4
<1>8. g[L + p + 1] = Length(Len(b))
  <2>1. p + 1 \in 1..e /\ L + (p + 1) = L + p + 1 /\ (p + 1) - 1 = p /\ (p = 0 => p + 1 = 1)
    BY <1>1
  <2>2. g[L + (p + 1)] = WordAt(d, ends, p + 1)
    BY <2>1
  <2>3. e - (p + 1) = r
    BY <1>1, <1>2
  <2>4. WordAt(d, ends, p + 1) = Length(e - (p + 1))
    BY <1>1, <1>7, <2>1 DEF WordAt
  <2> QED
    BY <1>5, <2>1, <2>2, <2>3, <2>4
<1>9. ASSUME NEW i \in 1..Len(b) PROVE g[L + p + 1 + i] = b[i]
  <2>1. /\ i \in 1..r /\ p + 1 + i \in 1..e /\ L + (p + 1 + i) = L + p + 1 + i /\ (p + 1 + i) - 1 = p + i
        /\ p + 1 + i # 1
    BY <1>1, <1>3, <1>5
  <2>2. p + i \notin ends
    <3>1. p + i > p /\ p + i < e
      BY <1>1, <1>3, <2>1
    <3>2. \A q \in ends : q \in 1..Len(d) /\ (q <= p \/ e <= q)
      BY <1>1
    <3> HIDE DEF ends
    <3> QED
      BY <1>1, <2>1, <3>1, <3>2
  <2>3. g[L + (p + 1 + i)] = WordAt(d, ends, p + 1 + i)
    BY <2>1
  <2> HIDE DEF ends
  <2>4. WordAt(d, ends, p + 1 + i) = d[p + i]
    BY <2>1, <2>2 DEF WordAt
  <2> QED
    BY <1>5, <2>1, <2>3, <2>4
<1>10. ASSUME NEW i \in 1..Len(f) PROVE g[i] = f[i]
  <2>1. CASE i <= L
    <3>1. i \in 1..L
      BY <1>1, <2>1
    <3> QED
      BY <3>1
  <2>2. CASE ~(i <= L)
    <3>1. i - L \in 1..p /\ i - L \in 1..e /\ L + (i - L) = i
      BY <1>1, <2>2
    <3>2. g[L + (i - L)] = WordAt(d, ends, i - L) /\ f[L + (i - L)] = WordAt(d, ends, i - L)
      BY <3>1
    <3> QED
      BY <3>1, <3>2
  <2> QED
    BY <2>1, <2>2
<1>11. Len(f) = L + p /\ Len(g) = (L + p) + 1 + Len(b) /\ InOrder(f, k)
  <2>1. L + e = (L + p) + 1 + r
    BY <1>1, <1>2
  <2>2. Len(f) = L + p /\ Len(g) = L + e
    OBVIOUS
  <2>3. Len(g) = (L + p) + 1 + Len(b)
    BY <1>5, <2>1, <2>2
  <2> QED
    BY <2>2, <2>3
<1>12. DOMAIN g = 1..Len(g)
  OBVIOUS
<1> HIDE DEF L, k, ends
<1>13. /\ Len(g) = Len(f) + 1 + Len(b) /\ DOMAIN g = 1..(Len(f) + 1 + Len(b))
       /\ g[Len(f) + 1] = Length(Len(b)) /\ \A i \in 1..Len(b) : g[Len(f) + 1 + i] = b[i]
  BY <1>8, <1>9, <1>11, <1>12
<1>14. InOrder(g, k + 1)
  BY <1>6, <1>10, <1>11, <1>13, OneBlockLonger
<1> QED
  BY <1>14 DEF k, ends

\* What the cut file holds.
LEMMA CutAt ==
  ASSUME NEW file \in Seq(FileWord), NEW d \in Seq(STRING), NEW delim, NEW e \in Delims(d, delim) \cup {0}
  PROVE  /\ CutFile(file, d, delim, e) \in Seq(FileWord)
         /\ Len(CutFile(file, d, delim, e)) = Len(file) + e
         /\ \A i \in 1..Len(file) : CutFile(file, d, delim, e)[i] = file[i]
         /\ \A i \in 1..e : CutFile(file, d, delim, e)[Len(file) + i] = WordAt(d, Delims(d, delim), i)
<1> DEFINE f == SplitUpTo(d, Delims(d, delim), e)
           g == CutFile(file, d, delim, e)
<1>1. f \in Seq(FileWord) /\ Len(f) = e /\ \A i \in 1..e : f[i] = WordAt(d, Delims(d, delim), i)
  BY SplitIs
<1>2. g = file \o f
  BY DEF CutFile
<1> HIDE DEF f, g
<1>3. f \in Seq(FileWord)
  BY <1>1
<1>4. /\ file \o f \in Seq(FileWord) /\ Len(file \o f) = Len(file) + Len(f)
      /\ \A i \in 1..Len(file) : (file \o f)[i] = file[i]
      /\ \A i \in 1..Len(f) : (file \o f)[Len(file) + i] = f[i]
  BY <1>3, Joint
<1>5. /\ g \in Seq(FileWord) /\ Len(g) = Len(file) + Len(f)
      /\ \A i \in 1..Len(file) : g[i] = file[i]
      /\ \A i \in 1..Len(f) : g[Len(file) + i] = f[i]
  BY <1>2, <1>4
<1>6. /\ g \in Seq(FileWord) /\ Len(g) = Len(file) + e
      /\ \A i \in 1..Len(file) : g[i] = file[i]
      /\ \A i \in 1..e : g[Len(file) + i] = WordAt(d, Delims(d, delim), i)
  BY <1>1, <1>5
<1> QED
  BY <1>6 DEF g

\* Up to every delimiter there are as many blocks as delimiters.
LEMMA SplitOK ==
  ASSUME NEW file \in Seq(FileWord), NEW m, InOrder(file, m), NEW d \in Seq(STRING), NEW delim
  PROVE  \A e \in Delims(d, delim) : InOrder(CutFile(file, d, delim, e), m + Turns(Delims(d, delim), e))
<1> DEFINE ends == Delims(d, delim)
           n == Len(d)
           Good(e) == InOrder(CutFile(file, d, delim, e), m + Turns(ends, e))
           P == {k \in 0..n : \A e \in ends \cup {0} : e <= k => Good(e)}
<1>0. n \in Nat /\ ends \in SUBSET (1..n) /\ m \in Nat /\ Len(file) \in Nat
  BY DEF Delims, InOrder
<1>1. Good(0)
  <2> DEFINE g == CutFile(file, d, delim, 0)
  <2>1. g \in Seq(FileWord) /\ Len(g) = Len(file) + 0 /\ \A i \in 1..Len(file) : g[i] = file[i]
    BY CutAt
  <2>2. g \in Seq(FileWord) /\ Len(g) = Len(file) /\ \A i \in 1..Len(g) : g[i] = file[i]
    BY <1>0, <2>1
  <2> HIDE DEF g
  <2>3. g = file
    BY <2>2, SeqEqual
  <2>4. m + Turns(ends, 0) = m
    <3> HIDE DEF ends, n
    <3>1. Turns(ends, 0) = 0
      BY <1>0, NoTurnsYet
    <3> QED
      BY <1>0, <3>1
  <2> HIDE DEF ends
  <2> QED
    BY <2>3, <2>4 DEF g
<1>2. 0 \in P
  <2>1. \A e \in ends \cup {0} : e <= 0 => e = 0
    BY <1>0
  <2> HIDE DEF Good, ends
  <2> QED
    BY <1>0, <1>1, <2>1
<1>3. ASSUME NEW k \in 0..(n - 1), k \in P PROVE k + 1 \in P
  <2>1. ASSUME NEW e \in ends, e = k + 1 PROVE Good(e)
    <3> DEFINE S == {q \in Nat : e - q \in ends \cup {0} /\ e - q < e}
    <3>1. e \in 1..n /\ e \in S /\ S \in SUBSET Nat /\ S # {}
      BY <1>0
    <3> HIDE DEF S
    <3>2. PICK r \in S : \A q \in S : r <= q
      BY <3>1, LeastNumber
    <3>3. PICK p : p = e - r
      OBVIOUS
    <3>4. p \in ends \cup {0} /\ p < e /\ p \in Nat /\ p <= k
      BY <1>0, <2>1, <3>1, <3>2, <3>3 DEF S
    <3>5. ASSUME NEW q \in ends PROVE q <= p \/ e <= q
      <4>1. q \in Nat /\ r \in Nat
        BY <1>0, <3>2 DEF S
      <4>2. CASE q < e
        <5>1. e - q \in Nat /\ e - (e - q) = q
          BY <3>1, <4>1, <4>2
        <5>2. e - q \in S
          BY <4>2, <5>1 DEF S
        <5>3. r <= e - q
          BY <3>2, <5>2
        <5> QED
          BY <3>1, <3>3, <4>1, <5>3
      <4> QED
        BY <3>1, <4>1, <4>2
    <3>6. Good(p)
      BY <1>3, <3>4
    <3> DEFINE f == CutFile(file, d, delim, p)
               g == CutFile(file, d, delim, e)
    <3>7. /\ f \in Seq(FileWord) /\ Len(f) = Len(file) + p
          /\ \A i \in 1..Len(file) : f[i] = file[i]
          /\ \A i \in 1..p : f[Len(file) + i] = WordAt(d, ends, i)
      BY <3>4, CutAt
    <3>8. /\ g \in Seq(FileWord) /\ Len(g) = Len(file) + e
          /\ \A i \in 1..Len(file) : g[i] = file[i]
          /\ \A i \in 1..e : g[Len(file) + i] = WordAt(d, ends, i)
      <4>1. e \in ends \cup {0}
        OBVIOUS
      <4>2. g \in Seq(FileWord)
        BY <4>1, CutAt
      <4> QED
        BY <4>1, <4>2, CutAt
    <3> HIDE DEF f, g
    <3>9. InOrder(f, m + Turns(ends, p))
      BY <3>6 DEF f
    <3>10. InOrder(g, (m + Turns(ends, p)) + 1)
      BY <3>4, <3>5, <3>7, <3>8, <3>9, SplitGoesOn
    <3>11. Turns(ends, p) \in Nat /\ Turns(ends, e) = Turns(ends, p) + 1
      <4> HIDE DEF ends, n
      <4> QED
        BY <1>0, <2>1, <3>4, <3>5, TurnsGoOn
    <3>12. (m + Turns(ends, p)) + 1 = m + Turns(ends, e)
      BY <1>0, <3>11
    <3> QED
      BY <3>10, <3>12 DEF g
  <2>2. ASSUME NEW e \in ends \cup {0}, e <= k + 1 PROVE Good(e)
    <3>1. e = k + 1 \/ e <= k
      BY <1>0, <2>2
    <3>2. k + 1 # 0
      OBVIOUS
    <3> HIDE DEF Good
    <3> QED
      BY <1>3, <2>1, <2>2, <3>1, <3>2
  <2> HIDE DEF Good
  <2> QED
    BY <2>2
<1>4. n \in P
  <2> HIDE DEF P, n
  <2>1. \A k \in 0..n : k \in P
    BY <1>0, <1>2, <1>3, CountInduction
  <2> QED
    BY <1>0, <2>1
<1>5. \A e \in ends : e <= n
  BY <1>0
<1> HIDE DEF Good
<1>6. \A e \in ends : Good(e)
  BY <1>4, <1>5
<1> QED
  BY <1>6 DEF Good

-----------------------------------------------------------------------------
(* The walk: the path that is kept names the topmost directory.             *)

Opened == {o \in [node : DOMAIN Sub, left : SUBSET STRING] : o.left \subseteq DOMAIN Sub[o.node]}
OperandSet == [path : Path, node : DOMAIN Kind]

(* The path p leads from the operand through the open directories ds. *)
OnTrail(op, p, ds) ==
  LET n == Len(op.path.parts)
  IN /\ p.root = op.path.root /\ Len(p.parts) = n + Len(ds) - 1 /\ (Len(ds) > 1 => ~p.slash)
     /\ \A i \in 1..n : p.parts[i] = op.path.parts[i]
     /\ ds[1].node = op.node
     /\ \A k \in 1..(Len(ds) - 1) : /\ p.parts[n + k] \in DOMAIN Sub[ds[k].node]
                                    /\ ds[k + 1].node = Sub[ds[k].node][p.parts[n + k]]
NamesFrom(op, path, node) ==
  /\ path.root = op.path.root /\ IsPrefix(op.path.parts, path.parts)
  /\ Resolve(op.node, SubSeq(path.parts, Len(op.path.parts) + 1, Len(path.parts))) = node

\* The parts of a path.
LEMMA PathHas ==
  ASSUME NEW p \in Path
  PROVE  p.root \in BOOLEAN /\ p.parts \in Seq(STRING) /\ p.slash \in BOOLEAN /\ Len(p.parts) \in Nat
BY DEF Path

\* What the path of an entry is: the path of its directory and its name.
LEMMA BelowIs ==
  ASSUME prefix \in Path, NEW n \in STRING
  PROVE  /\ Below(n) \in Path /\ Below(n).root = prefix.root /\ ~Below(n).slash
         /\ Len(Below(n).parts) = Len(prefix.parts) + 1
         /\ \A i \in 1..Len(prefix.parts) : Below(n).parts[i] = prefix.parts[i]
         /\ Below(n).parts[Len(prefix.parts) + 1] = n
<1> DEFINE s == prefix.parts
<1>0. s \in Seq(STRING) /\ prefix.root \in BOOLEAN
  BY PathHas
<1>1. Below(n) = [root |-> prefix.root, parts |-> Append(s, n), slash |-> FALSE]
  <2>1. CASE prefix.slash \/ s # <<>> \/ prefix.root
    BY <2>1 DEF Below
  <2>2. CASE ~(prefix.slash \/ s # <<>> \/ prefix.root)
    <3>1. prefix.root = FALSE /\ s = <<>>
      BY <1>0, <2>2
    <3>2. Append(<<>>, n) = <<n>>
      OBVIOUS
    <3> QED
      BY <2>2, <3>1, <3>2 DEF Below
  <2> QED
    BY <2>1, <2>2
<1> HIDE DEF s
<1>2. PICK t : t = Append(s, n)
  OBVIOUS
<1>3. Append(s, n) \in Seq(STRING)
  BY <1>0, AppendProperties
<1>4. /\ t \in Seq(STRING) /\ Len(t) = Len(s) + 1
      /\ \A i \in 1..Len(s) : t[i] = s[i]
      /\ t[Len(s) + 1] = n
  BY <1>0, <1>2, <1>3, AppendProperties
<1>5. Below(n) = [root |-> prefix.root, parts |-> t, slash |-> FALSE]
  BY <1>1, <1>2
<1>6. Below(n) \in Path /\ Below(n).root = prefix.root /\ ~Below(n).slash /\ Below(n).parts = t
  BY <1>0, <1>4, <1>5 DEF Path
<1> QED
  BY <1>4, <1>6 DEF s

\* No path is a path as well.
LEMMA NoPathOK == NoPath \in Path
BY DEF NoPath, Path

\* Cut, the path of a directory below an operand is that of the directory above.
LEMMA ParentIs ==
  ASSUME NEW p \in Path
  PROVE  /\ Parent(p) \in Path
         /\ ~p.slash /\ p.parts # <<>> =>
              /\ Parent(p).root = p.root /\ ~Parent(p).slash
              /\ Len(Parent(p).parts) = Len(p.parts) - 1
              /\ \A i \in 1..(Len(p.parts) - 1) : Parent(p).parts[i] = p.parts[i]
<1> DEFINE s == p.parts
<1>0. s \in Seq(STRING) /\ p.root \in BOOLEAN /\ p.slash \in BOOLEAN /\ Len(s) \in Nat
  BY PathHas
<1>1. CASE p.slash
  <2>1. Parent(p) = [p EXCEPT !.slash = FALSE]
    BY <1>1 DEF Parent
  <2>2. [p EXCEPT !.slash = FALSE] \in Path
    BY DEF Path
  <2> QED
    BY <1>1, <2>1, <2>2
<1>2. CASE ~p.slash /\ (s = <<>> \/ (Len(s) = 1 /\ ~p.root))
  <2>1. Parent(p) = [NoPath EXCEPT !.root = p.root]
    BY <1>2 DEF Parent
  <2>2. Parent(p) = [root |-> p.root, parts |-> <<>>, slash |-> FALSE]
    BY <2>1 DEF NoPath
  <2>3. Parent(p) \in Path /\ Parent(p).root = p.root /\ ~Parent(p).slash /\ Len(Parent(p).parts) = 0
    BY <1>0, <2>2 DEF Path
  <2>4. s # <<>> => Len(s) = 1
    BY <1>2
  <2> HIDE DEF s
  <2>5. s # <<>> => /\ Len(Parent(p).parts) = Len(s) - 1
                    /\ \A i \in 1..(Len(s) - 1) : Parent(p).parts[i] = s[i]
    <3>1. ASSUME s # <<>> PROVE Len(s) - 1 = 0 /\ \A i \in 1..(Len(s) - 1) : FALSE
      BY <2>4, <3>1
    <3> QED
      BY <2>3, <3>1
  <2> QED
    BY <1>2, <2>3, <2>5 DEF s
<1>3. CASE ~p.slash /\ ~(s = <<>> \/ (Len(s) = 1 /\ ~p.root))
  <2>1. PICK t : t = SubSeq(s, 1, Len(s) - 1)
    OBVIOUS
  <2>2. Parent(p) = [p EXCEPT !.parts = t]
    BY <1>3, <2>1 DEF Parent
  <2>3. Len(s) \in Nat \ {0}
    BY <1>0, <1>3
  <2>4. t \in Seq(STRING) /\ Len(t) = Len(s) - 1 /\ \A i \in 1..(Len(s) - 1) : t[i] = s[i]
    <3> HIDE DEF s
    <3>1. PICK a : a = 0
      OBVIOUS
    <3>2. PICK n : n = Len(s) - 1
      OBVIOUS
    <3>3. a \in Nat /\ n \in Nat /\ s \in Seq(STRING)
      BY <1>0, <2>3, <3>1, <3>2
    <3>4. a + n <= Len(s) /\ a + n = Len(s) - 1 /\ a + 1 = 1
      BY <1>0, <3>1, <3>2
    <3>5. PICK hi : hi = a + n
      OBVIOUS
    <3>6. t = SubSeq(s, a + 1, hi)
      BY <2>1, <3>4, <3>5
    <3>7. t \in Seq(STRING)
      BY <3>3, <3>4, <3>5, <3>6, PartIs
    <3>8. Len(t) = n /\ \A i \in 1..n : t[i] = s[a + i]
      BY <3>3, <3>4, <3>5, <3>6, <3>7, PartIs
    <3>9. \A i \in 1..n : a + i = i
      BY <3>1
    <3> QED
      BY <3>2, <3>7, <3>8, <3>9
  <2>5. Parent(p) \in Path /\ Parent(p).root = p.root /\ Parent(p).slash = p.slash /\ Parent(p).parts = t
    BY <1>0, <2>2, <2>4 DEF Path
  <2> QED
    BY <1>3, <2>4, <2>5
<1> QED
  BY <1>1, <1>2, <1>3

\* One directory further: its path is the longer one.
LEMMA TrailLonger ==
  ASSUME NEW op \in OperandSet, NEW p \in Path, NEW ds \in Seq(Opened), ds # <<>>, OnTrail(op, p, ds),
         NEW n \in DOMAIN Sub[ds[Len(ds)].node],
         NEW q \in Path, q.root = p.root, ~q.slash, Len(q.parts) = Len(p.parts) + 1,
         \A i \in 1..Len(p.parts) : q.parts[i] = p.parts[i], q.parts[Len(p.parts) + 1] = n,
         NEW es \in Seq(Opened), Len(es) = Len(ds) + 1, \A i \in 1..Len(ds) : es[i].node = ds[i].node,
         es[Len(ds) + 1].node = Sub[ds[Len(ds)].node][n]
  PROVE  OnTrail(op, q, es)
<1> DEFINE h == Len(op.path.parts)
           D == Len(ds)
           L == Len(p.parts)
<1>0. h \in Nat /\ D \in Nat \ {0} /\ L \in Nat /\ L = h + D - 1
  <2>1. op.path \in Path
    BY DEF OperandSet
  <2>2. h \in Nat /\ L \in Nat
    BY <2>1, PathHas
  <2>3. D \in Nat \ {0}
    OBVIOUS
  <2> QED
    BY <2>2, <2>3 DEF OnTrail
<1>1. /\ p.root = op.path.root
      /\ \A i \in 1..h : p.parts[i] = op.path.parts[i]
      /\ ds[1].node = op.node
      /\ \A k \in 1..(D - 1) : /\ p.parts[h + k] \in DOMAIN Sub[ds[k].node]
                               /\ ds[k + 1].node = Sub[ds[k].node][p.parts[h + k]]
  BY DEF OnTrail
<1>2. /\ q.root = p.root /\ ~q.slash /\ Len(q.parts) = L + 1 /\ \A i \in 1..L : q.parts[i] = p.parts[i]
  OBVIOUS
<1>3. q.parts[L + 1] = n /\ Len(es) = D + 1 /\ (\A i \in 1..D : es[i].node = ds[i].node)
      /\ es[D + 1].node = Sub[ds[D].node][n] /\ n \in DOMAIN Sub[ds[D].node]
  OBVIOUS
<1> HIDE DEF h, D, L
<1>4. q.root = op.path.root /\ Len(q.parts) = h + Len(es) - 1
  BY <1>0, <1>1, <1>2, <1>3
<1>5. \A i \in 1..h : q.parts[i] = op.path.parts[i]
  <2>1. \A i \in 1..h : i \in 1..L
    BY <1>0
  <2> QED
    BY <1>1, <1>2, <2>1
<1>6. es[1].node = op.node
  <2>1. 1 \in 1..D
    BY <1>0
  <2> QED
    BY <1>1, <1>3, <2>1
<1>7. ASSUME NEW k \in 1..(Len(es) - 1)
      PROVE q.parts[h + k] \in DOMAIN Sub[es[k].node] /\ es[k + 1].node = Sub[es[k].node][q.parts[h + k]]
  <2>1. k \in 1..D
    BY <1>0, <1>3
  <2>2. CASE k = D
    <3>1. h + k = L + 1 /\ k + 1 = D + 1
      BY <1>0, <2>2
    <3> QED
      BY <1>3, <2>1, <2>2, <3>1
  <2>3. CASE k # D
    <3>1. k \in 1..(D - 1) /\ k + 1 \in 1..D /\ h + k \in 1..L
      BY <1>0, <2>1, <2>3
    <3>2. es[k].node = ds[k].node /\ es[k + 1].node = ds[k + 1].node /\ q.parts[h + k] = p.parts[h + k]
      BY <1>2, <1>3, <2>1, <3>1
    <3> QED
      BY <1>1, <3>1, <3>2
  <2> QED
    BY <2>2, <2>3
<1> QED
  BY <1>2, <1>4, <1>5, <1>6, <1>7 DEF OnTrail, h

\* One directory back.
LEMMA TrailShorter ==
  ASSUME NEW op \in OperandSet, NEW p \in Path, NEW ds \in Seq(Opened), Len(ds) > 1, OnTrail(op, p, ds),
         NEW es \in Seq(Opened), Len(es) = Len(ds) - 1, \A i \in 1..Len(es) : es[i] = ds[i]
  PROVE  OnTrail(op, Parent(p), es)
<1> DEFINE h == Len(op.path.parts)
           D == Len(ds)
           L == Len(p.parts)
           q == Parent(p)
<1>0. h \in Nat /\ D \in Nat \ {0} /\ D > 1 /\ L \in Nat /\ L = h + D - 1 /\ ~p.slash
  <2>1. op.path \in Path
    BY DEF OperandSet
  <2>2. h \in Nat /\ L \in Nat
    BY <2>1, PathHas
  <2>3. D \in Nat \ {0} /\ D > 1
    OBVIOUS
  <2> QED
    BY <2>2, <2>3 DEF OnTrail
<1>1. /\ p.root = op.path.root
      /\ \A i \in 1..h : p.parts[i] = op.path.parts[i]
      /\ ds[1].node = op.node
      /\ \A k \in 1..(D - 1) : /\ p.parts[h + k] \in DOMAIN Sub[ds[k].node]
                               /\ ds[k + 1].node = Sub[ds[k].node][p.parts[h + k]]
  BY DEF OnTrail
<1>2. q.root = p.root /\ ~q.slash /\ Len(q.parts) = L - 1 /\ \A i \in 1..(L - 1) : q.parts[i] = p.parts[i]
  <2>1. p.parts # <<>>
    <3>1. Len(p.parts) # 0
      BY <1>0
    <3> QED
      BY <3>1, EmptySeq
  <2> QED
    BY <1>0, <2>1, ParentIs
<1>3. Len(es) = D - 1 /\ \A i \in 1..(D - 1) : es[i] = ds[i]
  BY <1>0
<1> HIDE DEF h, D, L, q
<1>4. q.root = op.path.root /\ Len(q.parts) = h + Len(es) - 1
  <2>1. PICK m : m = Len(es)
    OBVIOUS
  <2>2. m = D - 1
    BY <1>3, <2>1
  <2>3. L - 1 = h + m - 1
    BY <1>0, <2>2
  <2> QED
    BY <1>1, <1>2, <2>1, <2>3
<1>5. \A i \in 1..h : q.parts[i] = op.path.parts[i]
  <2>1. \A i \in 1..h : i \in 1..(L - 1)
    BY <1>0
  <2> QED
    BY <1>1, <1>2, <2>1
<1>6. es[1].node = op.node
  <2>1. 1 \in 1..(D - 1)
    BY <1>0
  <2> QED
    BY <1>1, <1>3, <2>1
<1>7. ASSUME NEW k \in 1..(Len(es) - 1)
      PROVE q.parts[h + k] \in DOMAIN Sub[es[k].node] /\ es[k + 1].node = Sub[es[k].node][q.parts[h + k]]
  <2>1. k \in 1..(D - 1) /\ k + 1 \in 1..(D - 1) /\ h + k \in 1..(L - 1)
    BY <1>0, <1>3
  <2>2. es[k] = ds[k] /\ es[k + 1] = ds[k + 1] /\ q.parts[h + k] = p.parts[h + k]
    BY <1>2, <1>3, <2>1
  <2> QED
    BY <1>1, <2>1, <2>2
<1>8. OnTrail(op, q, es)
  BY <1>2, <1>4, <1>5, <1>6, <1>7 DEF OnTrail, h
<1> QED
  BY <1>8 DEF q

-----------------------------------------------------------------------------
\* The nodes at names, each below the one before, end at the node they resolve to.
LEMMA RouteFollows ==
  ASSUME NEW node, NEW names, Len(names) \in Nat, NEW at, at[0] = node,
         \A k \in 1..Len(names) : /\ at[k - 1] \in DOMAIN Sub /\ names[k] \in DOMAIN Sub[at[k - 1]]
                                  /\ at[k] = Sub[at[k - 1]][names[k]]
  PROVE  Resolve(node, names) = at[Len(names)]
<1> DEFINE n == Len(names)
           r == Route(node, names)
           P == {k \in Nat : r[k] = at[k]}
<1>0. n \in Nat
  OBVIOUS
<1>1. \A k \in 0..n : r[k] = ResolveStep(node, names, r, k)
  BY RouteAt
<1>2. \A k \in 1..n : /\ at[k - 1] \in DOMAIN Sub /\ names[k] \in DOMAIN Sub[at[k - 1]]
                      /\ at[k] = Sub[at[k - 1]][names[k]]
  OBVIOUS
<1> HIDE DEF n, r
<1>3. 0 \in P
  <2>1. 0 \in 0..n
    BY <1>0
  <2> QED
    BY <1>1, <2>1 DEF ResolveStep
<1>4. ASSUME NEW k \in 0..(n - 1), k \in P PROVE k + 1 \in P
  <2>1. k + 1 \in 0..n /\ k + 1 \in 1..n /\ (k + 1) - 1 = k /\ k + 1 # 0 /\ k + 1 \in Nat
    BY <1>0
  <2>2. r[k] = at[k]
    BY <1>4
  <2>3. PICK l : l = k + 1
    OBVIOUS
  <2>4. l \in 0..n /\ l \in 1..n /\ l - 1 = k /\ l # 0 /\ l \in Nat
    BY <2>1, <2>3
  <2>5. r[l] = ResolveStep(node, names, r, l)
    BY <1>1, <2>4
  <2>6. r[l] = at[l]
    BY <1>2, <2>2, <2>4, <2>5 DEF ResolveStep
  <2> QED
    BY <2>3, <2>4, <2>6
<1>5. n \in P
  <2> HIDE DEF P
  <2>1. \A k \in 0..n : k \in P
    BY <1>0, <1>3, <1>4, CountInduction
  <2> QED
    BY <1>0, <2>1
<1> QED
  BY <1>5 DEF n, r, Resolve

\* A sequence that holds another's elements first begins with it.
LEMMA BeginsWith ==
  ASSUME NEW W, NEW s \in Seq(W), NEW t \in Seq(W), Len(s) <= Len(t), \A i \in 1..Len(s) : t[i] = s[i]
  PROVE  IsPrefix(s, t)
<1>1. SubSeq(s, 1, Len(s)) = SubSeq(t, 1, Len(s))
  <2>1. PICK one : one = 1
    OBVIOUS
  <2>2. PICK n : n = Len(s)
    OBVIOUS
  <2>3. one \in Nat /\ n \in Int /\ 1 <= one /\ n <= Len(s) /\ n <= Len(t)
        /\ \A k \in one..n : s[k] = t[k]
    BY <2>1, <2>2
  <2>4. SubSeq(s, one, n) = SubSeq(t, one, n)
    BY <2>3, SameSubSeq
  <2> QED
    BY <2>1, <2>2, <2>4
<1> QED
  BY <1>1 DEF IsPrefix

\* An operand names itself.
LEMMA OperandNames ==
  ASSUME NEW op \in OperandSet
  PROVE  NamesFrom(op, op.path, op.node)
<1>1. op.path \in Path
  BY DEF OperandSet
<1>2. PICK s : s = op.path.parts
  OBVIOUS
<1>3. s \in Seq(STRING) /\ Len(s) \in Nat
  BY <1>1, <1>2, PathHas
<1>4. IsPrefix(s, s)
  BY <1>3, BeginsWith
<1>5. SubSeq(s, Len(s) + 1, Len(s)) = <<>>
  BY <1>3, SubSeqEmpty
<1>6. Resolve(op.node, <<>>) = op.node
  <2>1. PICK e : e = <<>>
    OBVIOUS
  <2>2. Len(e) = 0
    BY <2>1
  <2>3. \A k \in 0..Len(e) : Route(op.node, e)[k] = ResolveStep(op.node, e, Route(op.node, e), k)
    BY <2>2, RouteAt
  <2>4. Route(op.node, e)[0] = op.node
    BY <2>2, <2>3 DEF ResolveStep
  <2> QED
    BY <2>1, <2>2, <2>4 DEF Resolve
<1> QED
  BY <1>2, <1>4, <1>5, <1>6 DEF NamesFrom

\* What is called n in the topmost directory is named by the longer path.
LEMMA TrailNames ==
  ASSUME NEW op \in OperandSet, NEW p \in Path, NEW ds \in Seq(Opened), ds # <<>>, OnTrail(op, p, ds),
         NEW n \in DOMAIN Sub[ds[Len(ds)].node],
         NEW q \in Path, q.root = p.root, Len(q.parts) = Len(p.parts) + 1,
         \A i \in 1..Len(p.parts) : q.parts[i] = p.parts[i], q.parts[Len(p.parts) + 1] = n
  PROVE  NamesFrom(op, q, Sub[ds[Len(ds)].node][n])
<1> DEFINE h == Len(op.path.parts)
           D == Len(ds)
           L == Len(p.parts)
           node == Sub[ds[D].node][n]
<1>0. h \in Nat /\ D \in Nat \ {0} /\ L \in Nat /\ L = h + D - 1
      /\ op.path.parts \in Seq(STRING) /\ q.parts \in Seq(STRING)
  <2>1. op.path \in Path
    BY DEF OperandSet
  <2>2. h \in Nat /\ L \in Nat /\ op.path.parts \in Seq(STRING) /\ q.parts \in Seq(STRING)
    BY <2>1, PathHas
  <2>3. D \in Nat \ {0}
    OBVIOUS
  <2> QED
    BY <2>2, <2>3 DEF OnTrail
<1>1. /\ p.root = op.path.root
      /\ \A i \in 1..h : p.parts[i] = op.path.parts[i]
      /\ ds[1].node = op.node
      /\ \A k \in 1..(D - 1) : /\ p.parts[h + k] \in DOMAIN Sub[ds[k].node]
                               /\ ds[k + 1].node = Sub[ds[k].node][p.parts[h + k]]
  BY DEF OnTrail
<1>2. q.root = p.root /\ Len(q.parts) = L + 1 /\ (\A i \in 1..L : q.parts[i] = p.parts[i])
      /\ q.parts[L + 1] = n /\ n \in DOMAIN Sub[ds[D].node]
  OBVIOUS
<1>3. \A k \in 1..D : ds[k].node \in DOMAIN Sub
  <2>1. \A k \in 1..D : ds[k] \in Opened
    OBVIOUS
  <2> QED
    BY <2>1 DEF Opened
<1>4. PICK names : names = SubSeq(q.parts, h + 1, Len(q.parts))
  OBVIOUS
<1> HIDE DEF h, D, L, node
<1>5. Len(names) = D /\ \A i \in 1..D : names[i] = q.parts[h + i]
  <2>1. PICK hi : hi = h + D
    OBVIOUS
  <2>2. h + D <= Len(q.parts) /\ hi = Len(q.parts) /\ D \in Nat
    BY <1>0, <1>2, <2>1
  <2>3. names = SubSeq(q.parts, h + 1, hi)
    BY <1>4, <2>2
  <2>4. names \in Seq(STRING)
    BY <1>0, <2>1, <2>2, <2>3, PartIs
  <2> QED
    BY <1>0, <2>1, <2>2, <2>3, <2>4, PartIs
<1>6. IsPrefix(op.path.parts, q.parts)
  <2>1. h <= Len(q.parts) /\ \A i \in 1..h : i \in 1..L
    BY <1>0, <1>2
  <2>2. \A i \in 1..h : q.parts[i] = op.path.parts[i]
    BY <1>1, <1>2, <2>1
  <2> QED
    BY <1>0, <2>1, <2>2, BeginsWith DEF h
<1> DEFINE at == [k \in 0..D |-> IF k < D THEN ds[k + 1].node ELSE node]
<1>7. at[0] = op.node /\ at[D] = node
  <2>1. 0 \in 0..D /\ 0 < D /\ D \in 0..D /\ ~(D < D) /\ 0 + 1 = 1
    BY <1>0
  <2> QED
    BY <1>1, <2>1
<1>8. ASSUME NEW k \in 1..D
      PROVE at[k - 1] \in DOMAIN Sub /\ names[k] \in DOMAIN Sub[at[k - 1]] /\ at[k] = Sub[at[k - 1]][names[k]]
  <2>1. k - 1 \in 0..D /\ k - 1 < D /\ (k - 1) + 1 = k /\ k \in 0..D
    BY <1>0
  <2>2. at[k - 1] = ds[k].node
    BY <2>1
  <2>3. at[k] = IF k < D THEN ds[k + 1].node ELSE node
    BY <2>1
  <2>4. names[k] = q.parts[h + k]
    BY <1>5
  <2> HIDE DEF at
  <2>5. CASE k = D
    <3>1. h + k = L + 1 /\ ~(k < D)
      BY <1>0, <2>5
    <3>2. names[k] = n /\ at[k] = node
      BY <1>2, <2>3, <2>4, <3>1
    <3> QED
      BY <1>2, <1>3, <2>2, <2>5, <3>2 DEF node
  <2>6. CASE k # D
    <3>1. k < D /\ k \in 1..(D - 1) /\ h + k \in 1..L
      BY <1>0, <2>6
    <3>2. names[k] = p.parts[h + k] /\ at[k] = ds[k + 1].node
      BY <1>2, <2>3, <2>4, <3>1
    <3> QED
      BY <1>1, <1>3, <2>2, <3>1, <3>2
  <2> QED
    BY <2>5, <2>6
<1> HIDE DEF at
<1>9. Resolve(op.node, names) = node
  <2>1. Len(names) \in Nat
    BY <1>0, <1>5
  <2>2. \A k \in 1..Len(names) : /\ at[k - 1] \in DOMAIN Sub /\ names[k] \in DOMAIN Sub[at[k - 1]]
                                 /\ at[k] = Sub[at[k - 1]][names[k]]
    BY <1>5, <1>8
  <2>3. Resolve(op.node, names) = at[Len(names)]
    BY <1>7, <2>1, <2>2, RouteFollows
  <2> QED
    BY <1>5, <1>7, <2>3
<1> QED
  BY <1>1, <1>2, <1>4, <1>6, <1>9 DEF NamesFrom, h, node, D

\* The trail begins at the operand.
LEMMA TrailStart ==
  ASSUME NEW op \in OperandSet, NEW ds \in Seq(Opened), Len(ds) = 1, ds[1].node = op.node
  PROVE  OnTrail(op, op.path, ds)
<1>1. op.path \in Path
  BY DEF OperandSet
<1>2. PICK n : n = Len(op.path.parts)
  OBVIOUS
<1>3. n \in Nat
  BY <1>1, <1>2, PathHas
<1>4. n = n + Len(ds) - 1
  BY <1>3
<1> QED
  BY <1>2, <1>4 DEF OnTrail

-----------------------------------------------------------------------------
\* What a step in the topmost directory does: the name n is taken from those left.
ReadOn(n, rest) ==
  LET D == Len(dirs)
      node == Sub[dirs[D].node][n]
  IN /\ D \in Nat \ {0} /\ n \in dirs[D].left /\ n \in DOMAIN Sub[dirs[D].node] /\ n \in STRING
     /\ dirs[D].node \in DOMAIN Sub /\ node \in DOMAIN Kind
     /\ rest \in Seq(Opened) /\ Len(rest) = D /\ (\A i \in 1..(D - 1) : rest[i] = dirs[i])
     /\ rest[D].node = dirs[D].node /\ rest[D].left = dirs[D].left \ {n}

\* The directory it leads to is opened.
Enters(node, rest, ds) ==
  /\ node \in DOMAIN Sub
  /\ ds \in Seq(Opened) /\ Len(ds) = Len(rest) + 1 /\ (\A i \in 1..Len(rest) : ds[i] = rest[i])
  /\ ds[Len(rest) + 1] = [node |-> node, left |-> DOMAIN Sub[node]]

\* A directory that is opened has all its names left.
LEMMA DirIsOpened ==
  ASSUME NEW node \in DOMAIN Sub
  PROVE  [node |-> node, left |-> DOMAIN Sub[node]] \in Opened
BY WalkAssumption DEF Opened

\* NextInDir takes one name, and enters it, returns it, or passes it over.
LEMMA StepInDir ==
  ASSUME dirs \in Seq(Opened), NextInDir
  PROVE  \E n \in STRING, rest \in Seq(Opened) :
           /\ ReadOn(n, rest) /\ list' = list /\ posset' = posset
           /\ LET node == Sub[dirs[Len(dirs)].node][n]
              IN \/ Kind[node] = "gone" /\ dirs' = rest /\ UNCHANGED <<prefix, entry, walk>>
                 \/ /\ Kind[node] # "gone" /\ walk' = "entry"
                    /\ entry' = [path |-> Below(n), node |-> node]
                    /\ \/ Len(dirs) < RDIR_DEPTH /\ Enters(node, rest, dirs') /\ prefix' = Below(n)
                       \/ /\ ~(node \in DOMAIN Sub /\ Len(dirs) < RDIR_DEPTH)
                          /\ dirs' = rest /\ prefix' = prefix
<1> DEFINE D == Len(dirs)
<1>1. D \in Nat \ {0} /\ D \in 1..D /\ dirs[D] \in Opened
  <2>1. dirs # <<>>
    BY DEF NextInDir
  <2> QED
    BY <2>1
<1> DEFINE Others(n) == [dirs EXCEPT ![Len(dirs)].left = @ \ {n}]
<1>2. PICK n \in Top.left :
        LET node == Sub[Top.node][n]
        IN IF Kind[node] = "gone"
           THEN dirs' = Others(n) /\ UNCHANGED <<prefix, entry, walk>>
           ELSE /\ Yield(Below(n), node)
                /\ IF Kind[node] = "dir" /\ Len(dirs) < RDIR_DEPTH
                   THEN /\ dirs' = Append(Others(n), [node |-> node, left |-> DOMAIN Sub[node]])
                        /\ prefix' = Below(n)
                   ELSE dirs' = Others(n) /\ UNCHANGED prefix
  BY DEF NextInDir
<1>3. PICK rest : rest = Others(n)
  OBVIOUS
<1>4. PICK node : node = Sub[Top.node][n]
  OBVIOUS
<1>5. PICK o : o = [dirs[D] EXCEPT !.left = @ \ {n}]
  OBVIOUS
<1>6. dirs[D].node \in DOMAIN Sub /\ dirs[D].left \subseteq DOMAIN Sub[dirs[D].node]
      /\ dirs[D] \in [node : DOMAIN Sub, left : SUBSET STRING]
  BY <1>1 DEF Opened
<1>7. n \in DOMAIN Sub[dirs[D].node] /\ n \in STRING /\ node = Sub[dirs[D].node][n] /\ node \in DOMAIN Kind
  <2>1. n \in DOMAIN Sub[dirs[D].node] /\ node = Sub[dirs[D].node][n]
    BY <1>2, <1>4, <1>6 DEF Top
  <2>2. DOMAIN Sub[dirs[D].node] \subseteq STRING
        /\ Sub[dirs[D].node] \in [DOMAIN Sub[dirs[D].node] -> DOMAIN Kind]
    BY <1>6, WalkAssumption
  <2> QED
    BY <2>1, <2>2
<1>8. o \in Opened /\ o.node = dirs[D].node /\ o.left = dirs[D].left \ {n}
  <2>1. o \in [node : DOMAIN Sub, left : SUBSET STRING] /\ o.node = dirs[D].node /\ o.left = dirs[D].left \ {n}
    BY <1>5, <1>6
  <2> QED
    BY <1>6, <2>1 DEF Opened
<1>9. rest = [dirs EXCEPT ![D] = o]
  BY <1>3, <1>5
<1> HIDE DEF D
<1>10. rest \in Seq(Opened) /\ Len(rest) = Len(dirs)
       /\ \A i \in 1..Len(dirs) : rest[i] = IF i = D THEN o ELSE dirs[i]
  BY <1>1, <1>8, <1>9, ExceptSeq DEF D
<1>11. ReadOn(n, rest)
  <2>1. rest[D] = o /\ \A i \in 1..(D - 1) : rest[i] = dirs[i]
    BY <1>1, <1>10 DEF D
  <2> QED
    BY <1>1, <1>2, <1>6, <1>7, <1>8, <1>10, <2>1 DEF ReadOn, Top, D
<1>12. ASSUME Kind[node] = "dir", dirs' = Append(rest, [node |-> node, left |-> DOMAIN Sub[node]])
       PROVE  Enters(node, rest, dirs')
  <2>1. node \in DOMAIN Sub
    BY <1>7, <1>12, WalkAssumption
  <2>2. PICK x : x = [node |-> node, left |-> DOMAIN Sub[node]]
    OBVIOUS
  <2>3. x \in Opened
    BY <2>1, <2>2, DirIsOpened
  <2>4. Append(rest, x) \in Seq(Opened)
    BY <1>10, <2>3, AppendProperties
  <2>5. Len(Append(rest, x)) = Len(rest) + 1 /\ (\A i \in 1..Len(rest) : Append(rest, x)[i] = rest[i])
        /\ Append(rest, x)[Len(rest) + 1] = x
    BY <1>10, <2>3, <2>4, AppendProperties
  <2>6. dirs' = Append(rest, x)
    BY <1>12, <2>2
  <2> QED
    BY <2>1, <2>2, <2>4, <2>5, <2>6 DEF Enters
<1>13. node \in DOMAIN Sub <=> Kind[node] = "dir"
  BY <1>7, WalkAssumption
<1>14. \/ Kind[node] = "gone" /\ dirs' = rest /\ UNCHANGED <<prefix, entry, walk>>
       \/ /\ Kind[node] # "gone" /\ walk' = "entry"
          /\ entry' = [path |-> Below(n), node |-> node]
          /\ \/ Len(dirs) < RDIR_DEPTH /\ Enters(node, rest, dirs') /\ prefix' = Below(n)
             \/ /\ ~(node \in DOMAIN Sub /\ Len(dirs) < RDIR_DEPTH)
                /\ dirs' = rest /\ prefix' = prefix
  <2> HIDE DEF Others
  <2>1. IF Kind[node] = "gone"
        THEN dirs' = rest /\ UNCHANGED <<prefix, entry, walk>>
        ELSE /\ Yield(Below(n), node)
             /\ IF Kind[node] = "dir" /\ Len(dirs) < RDIR_DEPTH
                THEN /\ dirs' = Append(rest, [node |-> node, left |-> DOMAIN Sub[node]])
                     /\ prefix' = Below(n)
                ELSE dirs' = rest /\ UNCHANGED prefix
    BY <1>2, <1>3, <1>4
  <2> QED
    BY <1>12, <1>13, <2>1 DEF Yield
<1>15. list' = list /\ posset' = posset
  BY DEF NextInDir
<1> QED
  BY <1>4, <1>7, <1>10, <1>11, <1>14, <1>15 DEF D

\* EndOfDir closes the topmost directory, of which nothing is left, and cuts the path.
LEMMA StepOutOfDir ==
  ASSUME dirs \in Seq(Opened), EndOfDir
  PROVE  /\ Len(dirs) \in Nat \ {0} /\ dirs[Len(dirs)].left = {}
         /\ dirs' \in Seq(Opened) /\ Len(dirs') = Len(dirs) - 1 /\ (\A i \in 1..Len(dirs') : dirs'[i] = dirs[i])
         /\ prefix' = Parent(prefix) /\ UNCHANGED <<list, posset, entry, walk>>
<1>1. dirs # <<>> /\ dirs[Len(dirs)].left = {} /\ prefix' = Parent(prefix) /\ UNCHANGED <<list, posset, entry, walk>>
  BY DEF EndOfDir, Top
<1>2. PICK n : n = Len(dirs) - 1
  OBVIOUS
<1>3. Len(dirs) \in Nat \ {0} /\ n \in Nat
  BY <1>1, <1>2
<1>4. PICK a : a = 0
  OBVIOUS
<1>5. PICK hi : hi = a + n
  OBVIOUS
<1>6. a \in Nat /\ a + n <= Len(dirs) /\ a + 1 = 1 /\ hi = n
  BY <1>2, <1>3, <1>4, <1>5
<1>7. PICK b : b = SubSeq(dirs, a + 1, hi)
  OBVIOUS
<1>8. b \in Seq(Opened)
  BY <1>3, <1>5, <1>6, <1>7, PartIs
<1>9. Len(b) = n /\ \A i \in 1..n : b[i] = dirs[a + i]
  BY <1>3, <1>5, <1>6, <1>7, <1>8, PartIs
<1>10. \A i \in 1..n : a + i = i
  BY <1>4
<1>11. dirs' = b
  BY <1>2, <1>6, <1>7 DEF EndOfDir
<1> QED
  BY <1>1, <1>2, <1>3, <1>8, <1>9, <1>10, <1>11

\* NextOperand takes the first operand, and enters it, returns it, or passes it over.
LEMMA StepToOperand ==
  ASSUME NEW G, G \subseteq OperandSet, list \in Seq(G), NextOperand
  PROVE  \E op \in G :
           /\ op = list[1] /\ op.node \in DOMAIN Kind /\ op.path \in Path /\ dirs = <<>> /\ walk = "next"
           /\ list' \in Seq(G) /\ Len(list') = Len(list) - 1 /\ (\A i \in 1..Len(list') : list'[i] = list[i + 1])
           /\ \/ Kind[op.node] = "gone" /\ UNCHANGED <<dirs, prefix, entry, walk>>
              \/ /\ Kind[op.node] # "gone" /\ walk' = "entry" /\ entry' = [path |-> op.path, node |-> op.node]
                 /\ \/ /\ op.node \in DOMAIN Sub /\ prefix' = op.path
                       /\ dirs' = <<[node |-> op.node, left |-> DOMAIN Sub[op.node]]>>
                    \/ op.node \notin DOMAIN Sub /\ UNCHANGED <<dirs, prefix>>
<1>1. list # <<>> /\ dirs = <<>> /\ walk = "next" /\ list' = Tail(list)
  BY DEF NextOperand
<1>2. PICK op : op = Head(list)
  OBVIOUS
<1>3. op \in G /\ op = list[1]
  BY <1>1, <1>2
<1>4. op.node \in DOMAIN Kind /\ op.path \in Path
  BY <1>3 DEF OperandSet
<1>5. Tail(list) \in Seq(G)
  BY <1>1, FirstOK
<1>6. Len(Tail(list)) = Len(list) - 1 /\ \A i \in 1..Len(Tail(list)) : Tail(list)[i] = list[i + 1]
  <2>1. Len(list) \in Nat \ {0}
    BY <1>1
  <2>2. Len(Tail(list)) = Len(list) - 1
    BY <1>1
  <2>3. \A i \in 1..(Len(list) - 1) : Tail(list)[i] = list[i + 1]
    BY <1>1, <1>5, HeadTailProperties
  <2> QED
    BY <2>2, <2>3
<1>7. op.node \in DOMAIN Sub <=> Kind[op.node] = "dir"
  BY <1>4, WalkAssumption
<1>8. IF Kind[op.node] = "gone"
      THEN UNCHANGED <<dirs, prefix, entry, walk>>
      ELSE /\ Yield(op.path, op.node)
           /\ IF Kind[op.node] = "dir"
              THEN /\ dirs' = <<[node |-> op.node, left |-> DOMAIN Sub[op.node]]>>
                   /\ prefix' = op.path
              ELSE UNCHANGED <<dirs, prefix>>
  BY <1>2 DEF NextOperand
<1>9. \/ Kind[op.node] = "gone" /\ UNCHANGED <<dirs, prefix, entry, walk>>
      \/ /\ Kind[op.node] # "gone" /\ walk' = "entry" /\ entry' = [path |-> op.path, node |-> op.node]
         /\ \/ /\ op.node \in DOMAIN Sub /\ prefix' = op.path
               /\ dirs' = <<[node |-> op.node, left |-> DOMAIN Sub[op.node]]>>
            \/ op.node \notin DOMAIN Sub /\ UNCHANGED <<dirs, prefix>>
  BY <1>7, <1>8 DEF Yield
<1> QED
  BY <1>1, <1>3, <1>4, <1>5, <1>6, <1>9

-----------------------------------------------------------------------------
(* What the walk keeps: the directories it has opened exist, the path that is *)
(* kept leads from an operand to the topmost, and the entry is what its path  *)
(* names.                                                                     *)
Asked == {Operands[i] : i \in DOMAIN Operands}
TrailInv ==
  /\ prefix \in Path /\ dirs \in Seq(Opened) /\ list \in Seq(Asked)
  /\ dirs # <<>> => \E op \in Asked : OnTrail(op, prefix, dirs)
  /\ walk = "entry" => entry.node \in DOMAIN Kind /\ \E op \in Asked : NamesFrom(op, entry.path, entry.node)

\* The path still leads to the topmost directory when the walk goes on in it,
LEMMA TrailNextInDir == ASSUME Asked \subseteq OperandSet, TrailInv, Asked' = Asked, NextInDir PROVE TrailInv'
<1>1. prefix \in Path /\ dirs \in Seq(Opened) /\ list \in Seq(Asked) /\ dirs # <<>>
  BY DEF TrailInv, NextInDir
<1>2. PICK op \in Asked : OnTrail(op, prefix, dirs)
  BY <1>1 DEF TrailInv
<1>3. op \in OperandSet
  BY <1>2
<1>4. PICK n \in STRING, rest \in Seq(Opened) :
        /\ ReadOn(n, rest) /\ list' = list
        /\ LET node == Sub[dirs[Len(dirs)].node][n]
           IN \/ Kind[node] = "gone" /\ dirs' = rest /\ UNCHANGED <<prefix, entry, walk>>
              \/ /\ Kind[node] # "gone" /\ walk' = "entry"
                 /\ entry' = [path |-> Below(n), node |-> node]
                 /\ \/ Len(dirs) < RDIR_DEPTH /\ Enters(node, rest, dirs') /\ prefix' = Below(n)
                    \/ dirs' = rest /\ prefix' = prefix
  BY <1>1, StepInDir
<1> DEFINE D == Len(dirs)
           node == Sub[dirs[D].node][n]
<1>5. /\ D \in Nat \ {0} /\ n \in DOMAIN Sub[dirs[D].node] /\ node \in DOMAIN Kind
      /\ rest \in Seq(Opened) /\ Len(rest) = D /\ (\A i \in 1..(D - 1) : rest[i] = dirs[i])
      /\ rest[D].node = dirs[D].node
  BY <1>4 DEF ReadOn
<1>6. \A i \in 1..D : rest[i].node = dirs[i].node
  BY <1>5
<1>7. OnTrail(op, prefix, rest)
  <2>1. PICK h : h = Len(op.path.parts)
    OBVIOUS
  <2>2. \A k \in 1..(D - 1) : k \in 1..D /\ k + 1 \in 1..D
    BY <1>5
  <2>3. 1 \in 1..D
    BY <1>5
  <2>4. /\ prefix.root = op.path.root /\ Len(prefix.parts) = h + D - 1 /\ (D > 1 => ~prefix.slash)
        /\ \A i \in 1..h : prefix.parts[i] = op.path.parts[i]
        /\ dirs[1].node = op.node
        /\ \A k \in 1..(D - 1) : /\ prefix.parts[h + k] \in DOMAIN Sub[dirs[k].node]
                                 /\ dirs[k + 1].node = Sub[dirs[k].node][prefix.parts[h + k]]
    BY <1>2, <2>1 DEF OnTrail
  <2> HIDE DEF D
  <2>5. \A k \in 1..(D - 1) : /\ prefix.parts[h + k] \in DOMAIN Sub[rest[k].node]
                              /\ rest[k + 1].node = Sub[rest[k].node][prefix.parts[h + k]]
    BY <1>6, <2>2, <2>4
  <2> QED
    BY <1>5, <1>6, <2>1, <2>3, <2>4, <2>5 DEF OnTrail
<1>8. PICK q : q = Below(n)
  OBVIOUS
<1>9. /\ q \in Path /\ q.root = prefix.root /\ ~q.slash /\ Len(q.parts) = Len(prefix.parts) + 1
      /\ (\A i \in 1..Len(prefix.parts) : q.parts[i] = prefix.parts[i]) /\ q.parts[Len(prefix.parts) + 1] = n
  BY <1>1, <1>8, BelowIs
<1>10. NamesFrom(op, q, node)
  BY <1>1, <1>2, <1>3, <1>5, <1>9, TrailNames
<1>11. ASSUME Enters(node, rest, dirs') PROVE OnTrail(op, q, dirs')
  <2>1. PICK es : es = dirs'
    OBVIOUS
  <2>2. /\ es \in Seq(Opened) /\ Len(es) = D + 1 /\ (\A i \in 1..D : es[i] = rest[i])
        /\ es[D + 1].node = node
    BY <1>5, <1>11, <2>1 DEF Enters
  <2>3. \A i \in 1..D : es[i].node = dirs[i].node
    BY <1>6, <2>2
  <2>4. OnTrail(op, q, es)
    BY <1>1, <1>2, <1>3, <1>5, <1>9, <2>2, <2>3, TrailLonger
  <2> QED
    BY <2>1, <2>4
<1>12. dirs' \in Seq(Opened)
  BY <1>4, <1>5 DEF Enters
<1>13. prefix' \in Path /\ OnTrail(op, prefix', dirs')
  BY <1>1, <1>4, <1>7, <1>8, <1>9, <1>11
<1>14. walk' = "entry" => entry'.node \in DOMAIN Kind /\ NamesFrom(op, entry'.path, entry'.node)
  <2>1. walk = "next"
    BY DEF NextInDir
  <2>2. CASE walk' = walk
    BY <2>1, <2>2
  <2>3. CASE walk' # walk
    <3>1. entry' = [path |-> q, node |-> node]
      BY <1>4, <1>8, <2>3
    <3> QED
      BY <1>5, <1>10, <3>1
  <2> QED
    BY <2>2, <2>3
<1> HIDE DEF D, node
<1>15. list' \in Seq(Asked)
  BY <1>1, <1>4
<1>16. \E o \in Asked' : OnTrail(o, prefix', dirs')
  BY <1>2, <1>13
<1>17. walk' = "entry" => \E o \in Asked' : NamesFrom(o, entry'.path, entry'.node)
  BY <1>2, <1>14
<1> QED
  BY <1>12, <1>13, <1>14, <1>15, <1>16, <1>17 DEF TrailInv

\* when it leaves it,
LEMMA TrailEndOfDir == ASSUME Asked \subseteq OperandSet, TrailInv, Asked' = Asked, EndOfDir PROVE TrailInv'
<1>1. prefix \in Path /\ dirs \in Seq(Opened) /\ list \in Seq(Asked) /\ dirs # <<>>
  BY DEF TrailInv, EndOfDir
<1>2. PICK op \in Asked : OnTrail(op, prefix, dirs)
  BY <1>1 DEF TrailInv
<1>3. /\ Len(dirs) \in Nat \ {0}
      /\ dirs' \in Seq(Opened) /\ Len(dirs') = Len(dirs) - 1 /\ (\A i \in 1..Len(dirs') : dirs'[i] = dirs[i])
      /\ prefix' = Parent(prefix) /\ UNCHANGED <<list, posset, entry, walk>>
  BY <1>1, StepOutOfDir
<1>4. prefix' \in Path
  BY <1>1, <1>3, ParentIs
<1>5. ASSUME dirs' # <<>> PROVE OnTrail(op, prefix', dirs')
  <2>1. PICK es : es = dirs'
    OBVIOUS
  <2>2. es \in Seq(Opened) /\ Len(es) = Len(dirs) - 1 /\ \A i \in 1..Len(es) : es[i] = dirs[i]
    BY <1>3, <2>1
  <2>3. Len(es) # 0
    BY <1>5, <2>1, <2>2, EmptySeq
  <2>4. Len(dirs) > 1
    BY <1>3, <2>2, <2>3
  <2>5. op \in OperandSet
    BY <1>2
  <2>6. OnTrail(op, Parent(prefix), es)
    BY <1>1, <1>2, <2>2, <2>4, <2>5, TrailShorter
  <2> QED
    BY <1>3, <2>1, <2>6
<1>6. dirs' # <<>> => \E o \in Asked' : OnTrail(o, prefix', dirs')
  BY <1>2, <1>5
<1>7. walk' # "entry"
  BY <1>3 DEF EndOfDir
<1> QED
  BY <1>1, <1>3, <1>4, <1>6, <1>7 DEF TrailInv

\* when it begins at the next operand,
LEMMA TrailNextOperand == ASSUME Asked \subseteq OperandSet, TrailInv, Asked' = Asked, NextOperand PROVE TrailInv'
<1>1. prefix \in Path /\ dirs \in Seq(Opened) /\ list \in Seq(Asked)
  BY DEF TrailInv
<1>2. PICK op \in Asked :
        /\ op.node \in DOMAIN Kind /\ op.path \in Path /\ dirs = <<>> /\ walk = "next"
        /\ list' \in Seq(Asked)
        /\ \/ Kind[op.node] = "gone" /\ UNCHANGED <<dirs, prefix, entry, walk>>
           \/ /\ Kind[op.node] # "gone" /\ walk' = "entry" /\ entry' = [path |-> op.path, node |-> op.node]
              /\ \/ /\ op.node \in DOMAIN Sub /\ prefix' = op.path
                    /\ dirs' = <<[node |-> op.node, left |-> DOMAIN Sub[op.node]]>>
                 \/ op.node \notin DOMAIN Sub /\ UNCHANGED <<dirs, prefix>>
  BY <1>1, StepToOperand
<1>3. op \in OperandSet
  BY <1>2
<1>4. list' \in Seq(Asked')
  BY <1>2
<1>5. walk' = "entry" => entry'.node \in DOMAIN Kind /\ \E o \in Asked' : NamesFrom(o, entry'.path, entry'.node)
  BY <1>2, <1>3, OperandNames
<1>6. CASE UNCHANGED <<dirs, prefix>>
  BY <1>1, <1>2, <1>4, <1>5, <1>6 DEF TrailInv
<1>7. CASE op.node \in DOMAIN Sub /\ prefix' = op.path /\ dirs' = <<[node |-> op.node, left |-> DOMAIN Sub[op.node]]>>
  <2>1. PICK o : o = [node |-> op.node, left |-> DOMAIN Sub[op.node]]
    OBVIOUS
  <2>2. PICK es : es = <<o>>
    OBVIOUS
  <2>3. o \in Opened /\ o.node = op.node
    BY <1>7, <2>1, DirIsOpened
  <2>4. es \in Seq(Opened) /\ Len(es) = 1 /\ es[1] = o
    BY <2>2, <2>3
  <2>5. OnTrail(op, op.path, es)
    BY <1>3, <2>3, <2>4, TrailStart
  <2>6. dirs' = es
    BY <1>7, <2>1, <2>2
  <2>7. \E x \in Asked' : OnTrail(x, prefix', dirs')
    BY <1>2, <1>7, <2>5, <2>6
  <2>8. prefix' \in Path /\ dirs' \in Seq(Opened)
    BY <1>2, <1>7, <2>4, <2>6
  <2> QED
    BY <1>4, <1>5, <2>7, <2>8 DEF TrailInv
<1> QED
  BY <1>2, <1>6, <1>7

\* One step of the walk, and steps that leave it where it is.
LEMMA TrailStep == ASSUME Asked \subseteq OperandSet, TrailInv, Asked' = Asked, rdirnext PROVE TrailInv'
<1>1. CASE UnsetPos \/ NameOverrun \/ WalkEnds
  <2>1. UNCHANGED <<list, dirs, prefix>> /\ walk' # "entry"
    BY <1>1 DEF UnsetPos, NameOverrun, WalkEnds
  <2> QED
    BY <2>1 DEF TrailInv
<1> QED
  BY <1>1, TrailNextInDir, TrailEndOfDir, TrailNextOperand DEF rdirnext

\* and when it is closed or its entry was taken.
LEMMA TrailStays ==
  ASSUME TrailInv, Asked' = Asked, UNCHANGED <<list, prefix, entry>>, dirs' \in {dirs, <<>>}, walk' \in {walk, "next", "end", "closed"}
  PROVE  TrailInv'
<1>1. dirs' \in Seq(Opened)
  BY NoneOK DEF TrailInv
<1>2. dirs' # <<>> => \E op \in Asked' : OnTrail(op, prefix', dirs')
  BY DEF TrailInv
<1>3. walk' = "entry" => entry'.node \in DOMAIN Kind /\ \E op \in Asked' : NamesFrom(op, entry'.path, entry'.node)
  BY DEF TrailInv
<1> QED
  BY <1>1, <1>2, <1>3 DEF TrailInv

-----------------------------------------------------------------------------
(* The operands are arguments, and known.                                    *)
LEMMA OperandsAreArguments ==
  ASSUME given \in Args
  PROVE  \A i \in 1..(Len(given) + 1) : OperandsFrom(i) \in Seq({given[j] : j \in DOMAIN given})
<1> DEFINE n == Len(given)
           W == {given[j] : j \in DOMAIN given}
           Good(i) == OperandsFrom(i) \in Seq(W)
           P == {k \in Nat : \A i \in (n + 1 - k)..(n + 1) : Good(i)}
<1>0. n \in Nat /\ DOMAIN given = 1..n
  BY DEF Args
<1>1. ASSUME NEW i \in 1..n, \A j \in (i + 1)..(n + 1) : Good(j) PROVE Good(i)
  <2>0. given[i] \in W /\ given[i] \in Seq(STRING) /\ i + 1 \in (i + 1)..(n + 1)
    BY <1>0 DEF Args
  <2>1. CASE IsOperand(given[i])
    <3>1. Good(i + 1) /\ OperandsFrom(i) = <<given[i]>> \o OperandsFrom(i + 1)
      BY <1>1, <2>0, <2>1, MeaningCases
    <3>2. PICK o : o = OperandsFrom(i + 1)
      OBVIOUS
    <3>3. PICK g : g = given[i]
      OBVIOUS
    <3>4. o \in Seq(W) /\ g \in W
      BY <2>0, <3>1, <3>2, <3>3
    <3>5. PICK V : V = W
      OBVIOUS
    <3>6. <<g>> \in Seq(V)
      BY <3>4, <3>5, OneOK
    <3>7. <<g>> \o o \in Seq(V)
      BY <3>4, <3>5, <3>6, ConcatProperties
    <3> QED
      BY <3>1, <3>2, <3>3, <3>5, <3>7
  <2>2. CASE ~IsOperand(given[i]) /\ given[i] = <<"-", "-">>
    <3>1. OperandsFrom(i) = Rest(i)
      BY <2>2, MeaningCases
    <3>2. Rest(i) \in Seq(W)
      <4>1. \A k \in (i + 1)..n : given[k] \in W
        BY <1>0
      <4>2. i + 1 \in Int /\ n \in Int
        BY <1>0
      <4>3. PICK a : a = i + 1
        OBVIOUS
      <4>4. PICK b : b = n
        OBVIOUS
      <4>5. PICK V : V = W
        OBVIOUS
      <4>6. \A k \in a..b : given[k] \in V
        BY <4>1, <4>3, <4>4, <4>5
      <4>7. SubSeq(given, a, b) \in Seq(V)
        BY <4>2, <4>3, <4>4, <4>6, SubSeqProperties
      <4> QED
        BY <4>3, <4>4, <4>5, <4>7 DEF Rest
    <3> QED
      BY <3>1, <3>2
  <2>3. CASE ~IsOperand(given[i]) /\ given[i] # <<"-", "-">>
    <3> DEFINE word == Tail(given[i])
    <3>1. OperandsFrom(i) = OperandsFrom(After(word, i))
      BY <2>3, MeaningCases
    <3>2. Good(After(word, i))
      BY <1>1, AfterOK
    <3> QED
      BY <3>1, <3>2
  <2> QED
    BY <2>1, <2>2, <2>3
<1>2. 0 \in P
  <2>1. Good(n + 1)
    BY MeaningCases, NoneOK DEF Args
  <2> HIDE DEF Good
  <2> QED
    BY <1>0, <2>1
<1> HIDE DEF Good, W
<1>3. ASSUME NEW k \in 0..(n - 1), k \in P PROVE k + 1 \in P
  <2>1. n - k \in 1..n /\ \A j \in ((n - k) + 1)..(n + 1) : Good(j)
    BY <1>0, <1>3
  <2>2. Good(n - k)
    BY <1>1, <2>1
  <2>3. \A i \in (n + 1 - (k + 1))..(n + 1) : Good(i)
    BY <1>0, <2>1, <2>2
  <2> QED
    BY <1>3, <2>3
<1>4. n \in P
  <2> HIDE DEF P, n
  <2>1. \A k \in 0..n : k \in P
    BY <1>0, <1>2, <1>3, CountInduction
  <2> QED
    BY <1>0, <2>1
<1>5. \A i \in 1..(n + 1) : Good(i)
  BY <1>0, <1>4
<1> QED
  BY <1>5 DEF Good, W

\* What main takes for operands are entries of the table of operands.
LEMMA OperandsKnown ==
  ASSUME OptInv, parsed, given \in Lines
  PROVE  Operands \in Seq(OperandSet) /\ Asked \subseteq OperandSet /\ Operands \in Seq(Asked)
<1>1. given \in Args /\ argv \in Args /\ Len(argv) = Len(given) /\ optind \in 1..(Len(given) + 1) /\ Len(given) \in Nat
      /\ DOMAIN given = 1..Len(given)
  BY DEF OptInv, PlacesInv, Args
<1>2. \A t \in DOMAIN Operand : Operand[t] \in OperandSet
  BY OperandAssumption DEF OperandSet
<1>3. \A j \in DOMAIN given : given[j] \in DOMAIN Operand
  BY OperandAssumption
<1>4. ASSUME Stdin PROVE Operands \in Seq(OperandSet)
  <2>1. <<"stdin">> \in DOMAIN Operand
    BY OperandAssumption
  <2>2. PICK o : o = Operand[<<"stdin">>]
    OBVIOUS
  <2>3. o \in OperandSet
    BY <1>2, <2>1, <2>2
  <2>4. Operands = <<o>>
    BY <1>4, <2>2 DEF Operands
  <2> QED
    BY <2>3, <2>4
<1>5. ASSUME ~Stdin PROVE Operands \in Seq(OperandSet)
  <2>1. PICK n : n = Len(argv) + 1 - optind
    OBVIOUS
  <2>2. n \in Nat \ {0} /\ optind \in Nat \ {0} /\ optind + n - 1 = Len(given)
    BY <1>1, <1>5, <2>1 DEF Stdin
  <2>3. PICK W : W = {given[j] : j \in DOMAIN given}
    OBVIOUS
  <2>4. PICK s : s = SubSeq(argv, optind, Len(given))
    OBVIOUS
  <2>5. s \in Seq(W)
    <3>1. s = OperandsFrom(1)
      BY <2>4 DEF OptInv, OperandInv
    <3>2. 1 \in 1..(Len(given) + 1)
      BY <1>1
    <3> QED
      BY <1>1, <2>3, <3>1, <3>2, OperandsAreArguments
  <2>6. Len(s) = n /\ \A i \in 1..n : s[i] = argv[optind + i - 1]
    <3>1. PICK hi : hi = Len(given)
      OBVIOUS
    <3>2. optind \in Int /\ hi \in Int /\ \A k \in optind..hi : argv[k] \in Seq(STRING)
      BY <1>1, <3>1 DEF Args
    <3>3. s = SubSeq(argv, optind, hi)
      BY <2>4, <3>1
    <3>4. /\ Len(s) = IF optind <= hi THEN hi - optind + 1 ELSE 0
          /\ \A i \in 1..(hi - optind + 1) : s[i] = argv[optind + i - 1]
      BY <3>2, <3>3, SubSeqProperties
    <3>5. hi - optind + 1 = n /\ optind <= hi
      BY <2>2, <3>1
    <3> QED
      BY <3>4, <3>5
  <2>7. \A i \in 1..n : Operand[argv[optind + i - 1]] \in OperandSet
    <3>1. \A i \in 1..n : s[i] \in W
      BY <2>5, <2>6
    <3>2. \A w \in W : w \in DOMAIN Operand
      BY <1>3, <2>3
    <3> QED
      BY <1>2, <2>6, <3>1, <3>2
  <2>8. Operands = [i \in 1..n |-> Operand[argv[optind + i - 1]]]
    BY <1>5, <2>1 DEF Operands
  <2> QED
    BY <2>2, <2>7, <2>8
<1>6. Operands \in Seq(OperandSet)
  BY <1>4, <1>5
<1>7. DOMAIN Operands = 1..Len(Operands) /\ Len(Operands) \in Nat
      /\ \A i \in 1..Len(Operands) : Operands[i] \in OperandSet
  BY <1>6
<1>8. Asked \subseteq OperandSet /\ \A i \in 1..Len(Operands) : Operands[i] \in Asked
  BY <1>7 DEF Asked
<1>9. Operands \in Seq(Asked)
  BY <1>6, <1>8
<1> QED
  BY <1>6, <1>8, <1>9

-----------------------------------------------------------------------------
(* Where main is: while the merged file is built, and after it, the operands  *)
(* and the options are what they were when they had been parsed.              *)
Recursive == opts.recurse > 0 /\ ~Stdin
PhaseInv ==
  /\ given \in Lines
  /\ DOMAIN opts = DOMAIN Defaults /\ opts.filenmax \in Nat
  /\ main \in {"options", "select", "bench"} => build = "off"
  /\ main \in {"select", "build"} => parsed
  /\ build # "off" => parsed
  /\ build = "walk" => Recursive
  /\ build = "files" => ~Recursive
  /\ build = "off" => /\ walk = "closed" /\ list = <<>> /\ dirs = <<>> /\ prefix = NoPath
                      /\ fo = <<>> /\ st_fnum = 0 /\ st_flen = 0 /\ fno = <<>>

\* Every argument of -B stands for a number.
LEMMA BytesIs == ASSUME NEW arg PROVE Bytes(arg) \in Nat
BY LimitAssumption DEF Bytes

\* An option changes no other part of the options than their values, and keeps -B a number.
LEMMA OptionOK ==
  ASSUME DOMAIN opts = DOMAIN Defaults, opts.filenmax \in Nat, NEW opt, NEW arg, SetOption(opt, arg)
  PROVE  DOMAIN opts' = DOMAIN Defaults /\ opts'.filenmax \in Nat /\ main' \in {main, "crash", "usage"}
<1>1. DOMAIN opts = {"scmd", "beb", "recurse", "delim", "filenmax", "rep", "merge"}
  BY DEF Defaults
<1>2. main' \in {main, "crash", "usage"}
  BY DEF SetOption
<1>3. CASE opt = "B"
  <2>1. opts' = [opts EXCEPT !.filenmax = Bytes(arg)]
    BY <1>3 DEF SetOption
  <2>2. DOMAIN opts' = DOMAIN opts /\ opts'.filenmax = Bytes(arg)
    BY <1>1, <2>1
  <2> QED
    BY <1>2, <2>2, BytesIs
<1>4. CASE opt # "B"
  <2>1. opts' = opts \/ \E f \in {"scmd", "beb", "delim", "recurse", "merge", "rep"} : \E x : opts' = [opts EXCEPT ![f] = x]
    BY <1>4 DEF SetOption
  <2>2. DOMAIN opts' = DOMAIN opts /\ opts'.filenmax = opts.filenmax
    BY <1>1, <2>1
  <2> QED
    BY <1>2, <2>2
<1> QED
  BY <1>3, <1>4

\* What does not build leaves the file alone.
LEMMA OtherSteps ==
  ASSUME [Next]_vars
  PROVE  StartBuild \/ Build \/ UNCHANGED buildVars
BY DEF Next, Parse, HandleOption, StartSelect, Select, vars

\* What a step of bebuild does to its own state.
LEMMA BuildGoesOn ==
  ASSUME NEW filenmax, NEW delim, BuildNext(filenmax, delim)
  PROVE  /\ build \in {"walk", "files"} /\ build' \in {build, "built", "die", "exit", "undefined"}
<1>1. CASE Walk
  BY <1>1 DEF Walk
<1>2. CASE TakeEntry(filenmax)
  BY <1>2 DEF TakeEntry, MergeEntry
<1>3. CASE WalkDone
  BY <1>3 DEF WalkDone, EndBuild
<1>4. CASE NextFile(filenmax, delim)
  <2>1. build = "files" /\ build' \in {"die", "undefined", "exit", build}
    BY <1>4 DEF NextFile, SplitFile, MergeFile
  <2> QED
    BY <2>1
<1>5. CASE FilesDone
  BY <1>5 DEF FilesDone, EndBuild
<1> QED
  BY <1>1, <1>2, <1>3, <1>4, <1>5 DEF BuildNext

\* Once parsed the arguments stay, and from then on the operands.
LEMMA ParsedStays ==
  ASSUME parsed, [Next]_vars
  PROVE  parsed' = parsed /\ argv' = argv /\ optind' = optind /\ given' = given
<1>1. CASE Parse
  <2>1. FALSE
    BY <1>1 DEF Parse, getopt_long, EndOfArguments, SkipOperand, Looking, DoubleDash, LongOption, ShortOption,
                HandsOptions
  <2> QED
    BY <2>1
<1>2. CASE HandleOption \/ StartSelect \/ Select \/ StartBuild \/ Build \/ UNCHANGED vars
  <2>1. UNCHANGED optVars
    BY <1>2 DEF HandleOption, StartSelect, Select, StartBuild, Build, vars
  <2> QED
    BY <2>1 DEF optVars, Next, vars
<1> QED
  BY <1>1, <1>2 DEF Next

\* Once the command line is parsed no step changes the operands.
LEMMA OperandsStay ==
  ASSUME parsed, [Next]_vars
  PROVE  Operands' = Operands /\ Asked' = Asked /\ Stdin' = Stdin
<1>1. argv' = argv /\ optind' = optind
  BY ParsedStays
<1> QED
  BY <1>1 DEF Operands, Asked, Stdin

\* Once the merged file is begun no step changes the options.
LEMMA OptionsStay ==
  ASSUME PhaseInv, build # "off", [Next]_vars
  PROVE  opts' = opts
<1>1. main # "options"
  BY DEF PhaseInv
<1> QED
  BY <1>1 DEF Next, Parse, HandleOption, StartSelect, Select, StartBuild, Build, vars

\* PhaseInv holds at first,
LEMMA PhaseStart == Init => PhaseInv
<1> SUFFICES ASSUME Init PROVE PhaseInv
  OBVIOUS
<1>1. given \in Lines /\ opts = Defaults /\ main = "options"
  BY DEF Init
<1>2. /\ build = "off" /\ walk = "closed" /\ list = <<>> /\ dirs = <<>> /\ prefix = NoPath
      /\ fo = <<>> /\ st_fnum = 0 /\ st_flen = 0 /\ fno = <<>>
  BY DEF Init, BuildInit, WalkInit
<1>3. opts.filenmax = Bytes(<<>>)
  BY <1>1 DEF Defaults
<1> QED
  BY <1>1, <1>2, <1>3, BytesIs DEF PhaseInv

\* and every step keeps it.
LEMMA PhaseKept == PhaseInv /\ [Next]_vars => PhaseInv'
<1> SUFFICES ASSUME PhaseInv, [Next]_vars PROVE PhaseInv'
  OBVIOUS
<1>0. given' = given
  BY DEF Next, vars
<1>1. CASE UNCHANGED buildVars
  <2>0. UNCHANGED <<build, walk, list, dirs, prefix, fo, st_fnum, st_flen, fno>>
    BY <1>1 DEF buildVars, walkVars
  <2>1. CASE build = "off"
    <3>1. DOMAIN opts' = DOMAIN Defaults /\ opts'.filenmax \in Nat
      <4>1. opts' = opts \/ \E opt, arg : SetOption(opt, arg)
        BY DEF Next, Parse, HandleOption, StartSelect, Select, StartBuild, Build, vars
      <4> QED
        BY <4>1, OptionOK DEF PhaseInv
    <3>2. main' \in {"select", "build"} => parsed'
      <4>1. CASE main = "options"
        <5>1. main' \in {"select", "build"} => parsed
          <6>1. CASE HandleOption
            <7>1. main' \in {main, "crash", "usage"}
              BY <6>1, OptionOK DEF HandleOption, PhaseInv
            <7> QED
              BY <4>1, <7>1
          <6>2. CASE StartSelect
            BY <6>2 DEF StartSelect
          <6>3. CASE ~HandleOption /\ ~StartSelect
            BY <4>1, <6>3 DEF Next, Parse, Select, StartBuild, Build, vars
          <6> QED
            BY <6>1, <6>2, <6>3
        <5> QED
          BY <5>1, ParsedStays
      <4>2. CASE main # "options"
        <5>1. main' \in {"select", "build"} => main \in {"select", "build"}
          BY <4>2 DEF Next, Parse, HandleOption, StartSelect, Select, StartBuild, Build, vars
        <5> QED
          BY <5>1, ParsedStays DEF PhaseInv
      <4> QED
        BY <4>1, <4>2
    <3> QED
      BY <1>0, <2>0, <2>1, <3>1, <3>2 DEF PhaseInv
  <2>2. CASE build # "off"
    <3>1. parsed /\ main \notin {"options", "select", "bench"}
      BY <2>2 DEF PhaseInv
    <3>2. parsed' /\ opts' = opts /\ Stdin' = Stdin
      BY <2>2, <3>1, ParsedStays, OperandsStay, OptionsStay
    <3>3. main' \notin {"options", "select", "bench"}
      BY <3>1 DEF Next, Parse, HandleOption, StartSelect, Select, StartBuild, Build, vars
    <3> QED
      BY <1>0, <2>0, <2>2, <3>1, <3>2, <3>3 DEF PhaseInv, Recursive
  <2> QED
    BY <2>1, <2>2
<1>2. CASE StartBuild
  <2>1. main = "build" /\ main' = main /\ opts' = opts /\ build = "off" /\ parsed
    BY <1>2 DEF StartBuild, bebuild, PhaseInv
  <2>2. parsed' /\ Stdin' = Stdin
    BY <2>1, ParsedStays, OperandsStay
  <2>3. IF opts.recurse > 0 /\ ~Stdin THEN build' = "walk" ELSE build' = "files"
    BY <1>2 DEF StartBuild, bebuild
  <2> QED
    BY <1>0, <2>1, <2>2, <2>3 DEF PhaseInv, Recursive
<1>3. CASE Build
  <2>1. /\ main = "build" /\ opts' = opts /\ main' \in {"exit", "crash", main}
        /\ build \in {"walk", "files"} /\ build' \in {build, "built", "die", "exit", "undefined"}
    BY <1>3, BuildGoesOn DEF Build
  <2>2. parsed
    BY <2>1 DEF PhaseInv
  <2>3. parsed' /\ Stdin' = Stdin
    BY <2>2, ParsedStays, OperandsStay
  <2> QED
    BY <1>0, <2>1, <2>3 DEF PhaseInv, Recursive
<1> QED
  BY <1>1, <1>2, <1>3, OtherSteps

-----------------------------------------------------------------------------
(* The file that is written.                                                 *)
FileInv ==
  /\ fo \in Seq(FileWord) /\ InOrder(fo, st_fnum)
  /\ st_flen = Len(fo) + (LEN - 1) * st_fnum
  /\ opts.delim = "none" => st_flen <= opts.filenmax

\* A sequence of some words is one of more words.
LEMMA WordsIn == ASSUME NEW S, NEW T, S \subseteq T, NEW s \in Seq(S) PROVE s \in Seq(T)
OBVIOUS

\* The first n words of a file.
LEMMA FirstPart ==
  ASSUME NEW W, NEW d \in Seq(W), NEW n \in Nat, n <= Len(d)
  PROVE  SubSeq(d, 1, n) \in Seq(W) /\ Len(SubSeq(d, 1, n)) = n /\ (n = Len(d) => SubSeq(d, 1, n) = d)
<1>1. PICK a : a = 0
  OBVIOUS
<1>2. PICK hi : hi = a + n
  OBVIOUS
<1>3. a \in Nat /\ a + 1 = 1 /\ hi = n /\ a + n <= Len(d)
  BY <1>1, <1>2
<1>4. PICK b : b = SubSeq(d, a + 1, hi)
  OBVIOUS
<1>5. b \in Seq(W)
  BY <1>2, <1>3, <1>4, PartIs
<1>6. Len(b) = n /\ \A i \in 1..n : b[i] = d[a + i]
  BY <1>2, <1>3, <1>4, <1>5, PartIs
<1>7. \A i \in 1..n : b[i] = d[i]
  BY <1>1, <1>6
<1>8. n = Len(d) => b = d
  BY <1>5, <1>6, <1>7, SeqEqual
<1> QED
  BY <1>3, <1>4, <1>5, <1>6, <1>8

\* What is read of a file is a sequence of words.
LEMMA ReadIs ==
  ASSUME NEW node \in DOMAIN Data
  PROVE  Read(node) \in Seq(STRING)
<1>1. PICK d : d = Data[node]
  OBVIOUS
<1>2. d \in Seq(STRING) /\ Len(d) \in Nat /\ Insize \in Nat
  BY <1>1, DataAssumption
<1>3. PICK n : n = Shorter(Insize, Len(d))
  OBVIOUS
<1>4. n \in Nat /\ n <= Len(d)
  BY <1>2, <1>3 DEF Shorter
<1>5. SubSeq(d, 1, n) \in Seq(STRING)
  BY <1>2, <1>4, FirstPart
<1> QED
  BY <1>1, <1>3, <1>5 DEF Read

\* What the limit leaves of a file.
LEMMA KeptIs ==
  ASSUME NEW d \in Seq(STRING), NEW r \in Nat
  PROVE  /\ SubSeq(d, 1, Shorter(Len(d), r)) \in Seq(STRING)
         /\ Len(SubSeq(d, 1, Shorter(Len(d), r))) \in Nat /\ Len(SubSeq(d, 1, Shorter(Len(d), r))) <= r
         /\ Len(SubSeq(d, 1, Shorter(Len(d), r))) < r => SubSeq(d, 1, Shorter(Len(d), r)) = d
<1>1. PICK n : n = Shorter(Len(d), r)
  OBVIOUS
<1>2. n \in Nat /\ n <= Len(d) /\ n <= r /\ (n < r => n = Len(d))
  BY <1>1 DEF Shorter
<1>3. SubSeq(d, 1, n) \in Seq(STRING) /\ Len(SubSeq(d, 1, n)) = n /\ (n = Len(d) => SubSeq(d, 1, n) = d)
  BY <1>2, FirstPart
<1> QED
  BY <1>1, <1>2, <1>3

\* The counters of the merged file are numbers.
LEMMA FileNumbers ==
  ASSUME FileInv
  PROVE  st_fnum \in Nat /\ Len(fo) \in Nat /\ LEN - 1 \in Nat /\ LEN \in Nat \ {0} /\ (LEN - 1) * st_fnum \in Nat
         /\ st_flen \in Nat
<1>1. st_fnum \in Nat /\ Len(fo) \in Nat
  BY DEF FileInv, InOrder
<1>2. LEN - 1 \in Nat /\ LEN \in Nat \ {0}
  BY DataAssumption
<1>3. (LEN - 1) * st_fnum \in Nat
  BY <1>1, <1>2
<1> QED
  BY <1>1, <1>2, <1>3 DEF FileInv

\* A file more, or what the limit leaves of it; all of it while it does not bind.
LEMMA FileMerged ==
  ASSUME FileInv, opts' = opts, opts.filenmax \in Nat, NEW d, NEW kept \in Seq(STRING),
         Room(opts.filenmax) \in Nat, Len(kept) <= Room(opts.filenmax),
         Len(kept) < Room(opts.filenmax) => kept = d,
         fo' = Behind(fo, kept), st_fnum' = st_fnum + 1, st_flen' = st_flen + LEN + Len(kept)
  PROVE  /\ FileInv'
         /\ \A k \in 1..st_fnum : BlockOf(fo', k) = BlockOf(fo, k)
         /\ BlockOf(fo', st_fnum + 1) = kept
         /\ st_flen' < opts.filenmax => kept = d
         /\ st_flen <= opts.filenmax
<1>0. st_fnum \in Nat /\ Len(fo) \in Nat /\ LEN - 1 \in Nat /\ LEN \in Nat \ {0} /\ (LEN - 1) * st_fnum \in Nat
      /\ st_flen \in Nat
  BY FileNumbers
<1>1. PICK r : r = Room(opts.filenmax)
  OBVIOUS
<1>2. r \in Nat /\ st_flen + LEN + r = opts.filenmax
  BY <1>0, <1>1 DEF Room
<1>3. kept \in Seq(STRING) /\ Len(kept) \in Nat /\ Len(kept) <= r /\ (Len(kept) < r => kept = d)
  BY <1>1
<1>4. kept \in Seq(FileWord) /\ Length(Len(kept)) \in FileWord
  <2>1. STRING \subseteq FileWord
    BY DEF FileWord
  <2>2. kept \in Seq(FileWord)
    BY <2>1, WordsIn
  <2>3. Length(Len(kept)) \in FileWord
    BY <1>3 DEF FileWord
  <2> QED
    BY <2>2, <2>3
<1>5. fo \in Seq(FileWord) /\ InOrder(fo, st_fnum)
  BY DEF FileInv
<1>6. PICK g : g = Behind(fo, kept)
  OBVIOUS
<1>7. /\ InOrder(g, st_fnum + 1) /\ Len(g) = Len(fo) + 1 + Len(kept) /\ g \in Seq(FileWord)
      /\ \A k \in 1..st_fnum : BlockOf(g, k) = BlockOf(fo, k)
      /\ BlockOf(g, st_fnum + 1) = kept
  BY <1>4, <1>5, <1>6, OneBlockMore
<1>8. fo' = g
  BY <1>6
<1>9. (LEN - 1) * (st_fnum + 1) = (LEN - 1) * st_fnum + (LEN - 1)
  BY <1>0
<1>10. st_flen' = Len(g) + (LEN - 1) * (st_fnum + 1)
  <2>1. st_flen = Len(fo) + (LEN - 1) * st_fnum
    BY DEF FileInv
  <2>2. PICK w : w = (LEN - 1) * st_fnum
    OBVIOUS
  <2>3. PICK x : x = (LEN - 1) * (st_fnum + 1)
    OBVIOUS
  <2>4. w \in Nat /\ x = w + (LEN - 1) /\ st_flen = Len(fo) + w
    BY <1>0, <1>9, <2>1, <2>2, <2>3
  <2>5. st_flen' = Len(fo) + w + LEN + Len(kept)
    BY <2>4
  <2>6. Len(g) + x = Len(fo) + 1 + Len(kept) + (w + (LEN - 1))
    BY <1>7, <2>4
  <2>7. st_flen' = Len(g) + x
    <3>1. Len(fo) + w + LEN + Len(kept) = Len(fo) + 1 + Len(kept) + (w + (LEN - 1))
      BY <1>0, <1>3, <2>4
    <3> QED
      BY <2>5, <2>6, <3>1
  <2> QED
    BY <2>3, <2>7
<1>11. st_flen' <= opts.filenmax /\ (st_flen' < opts.filenmax => Len(kept) < r) /\ st_flen <= opts.filenmax
  BY <1>0, <1>2, <1>3
<1>12. FileInv'
  BY <1>7, <1>8, <1>10, <1>11 DEF FileInv
<1> QED
  BY <1>3, <1>7, <1>8, <1>11, <1>12

\* A file cut at a delimiter.
LEMMA FileSplit ==
  ASSUME FileInv, opts' = opts, opts.delim # "none", NEW d \in Seq(STRING), NEW filenmax, SplitFile(d, filenmax, opts.delim)
  PROVE  FileInv'
<1> DEFINE delim == opts.delim
           ends == Delims(d, delim)
           flen(e) == st_flen + (LEN - 1) * Turns(ends, e) + e
           last == Shorter(Len(d), Room(filenmax))
           full == {e \in ends : flen(e) >= filenmax \/ e >= last}
           stop == CHOOSE e \in full : \A f \in full : e <= f
<1>0. st_fnum \in Nat /\ Len(fo) \in Nat /\ LEN - 1 \in Nat /\ LEN \in Nat \ {0} /\ (LEN - 1) * st_fnum \in Nat
      /\ st_flen \in Nat
  BY FileNumbers
<1>1. CASE last = 0 \/ full = {}
  <2>1. UNCHANGED <<fo, st_fnum, st_flen>>
    BY <1>1 DEF SplitFile
  <2> QED
    BY <2>1 DEF FileInv
<1>2. CASE last # 0 /\ full # {}
  <2>1. fo' = fo \o SplitUpTo(d, ends, stop) /\ st_fnum' = st_fnum + Turns(ends, stop) /\ st_flen' = flen(stop)
    BY <1>2 DEF SplitFile
  <2>2. ends \in SUBSET (1..Len(d)) /\ Len(d) \in Nat
    BY DEF Delims
  <2>3. stop \in ends
    <3>1. full \in SUBSET Nat
      BY <2>2
    <3> HIDE DEF full
    <3>2. PICK m \in full : \A n \in full : m <= n
      BY <1>2, <3>1, LeastNumber
    <3>3. stop \in full
      BY <3>2
    <3> QED
      BY <3>3 DEF full
  <2>4. PICK s : s = stop
    OBVIOUS
  <2> HIDE DEF full, stop
  <2>5. PICK t : t = Turns(ends, s)
    OBVIOUS
  <2>6. fo' = CutFile(fo, d, delim, s) /\ st_fnum' = st_fnum + t /\ st_flen' = st_flen + (LEN - 1) * t + s
    BY <2>1, <2>4, <2>5 DEF CutFile
  <2>7. t \in Nat
    <3> DEFINE A == {i \in ends : i <= s}
    <3>1. IsFiniteSet(1..Len(d))
      BY <2>2, FS_Interval
    <3>2. A \in SUBSET (1..Len(d))
      BY <2>2
    <3> HIDE DEF A, ends
    <3>3. Cardinality(A) \in Nat
      BY <3>1, <3>2, FS_Subset, FS_CardinalityType
    <3> QED
      BY <2>5, <3>3 DEF Turns, A
  <2>8. fo \in Seq(FileWord) /\ InOrder(fo, st_fnum) /\ st_flen = Len(fo) + (LEN - 1) * st_fnum
    BY DEF FileInv
  <2>9. s \in Delims(d, delim) /\ s \in Delims(d, delim) \cup {0} /\ s \in Nat
    BY <2>2, <2>3, <2>4
  <2> HIDE DEF delim
  <2>10. InOrder(CutFile(fo, d, delim, s), st_fnum + Turns(Delims(d, delim), s))
    BY <2>8, <2>9, SplitOK
  <2>11. CutFile(fo, d, delim, s) \in Seq(FileWord) /\ Len(CutFile(fo, d, delim, s)) = Len(fo) + s
    BY <2>8, <2>9, CutAt
  <2>12. fo' \in Seq(FileWord) /\ Len(fo') = Len(fo) + s /\ InOrder(fo', st_fnum')
    BY <2>5, <2>6, <2>10, <2>11
  <2>13. st_flen' = Len(fo') + (LEN - 1) * st_fnum'
    <3>1. (LEN - 1) * (st_fnum + t) = (LEN - 1) * st_fnum + (LEN - 1) * t
      BY <1>0, <2>7
    <3>2. (LEN - 1) * t \in Nat
      BY <1>0, <2>7
    <3>3. PICK w : w = (LEN - 1) * t
      OBVIOUS
    <3>4. PICK x : x = (LEN - 1) * st_fnum
      OBVIOUS
    <3>5. w \in Nat /\ x \in Nat /\ st_flen = Len(fo) + x /\ (LEN - 1) * (st_fnum + t) = x + w
      BY <1>0, <2>8, <3>1, <3>2, <3>3, <3>4
    <3>6. st_flen' = Len(fo) + x + w + s
      BY <2>6, <3>3, <3>5
    <3>7. Len(fo) + x + w + s = Len(fo) + s + (x + w)
      BY <1>0, <2>9, <3>5
    <3> QED
      BY <2>6, <2>12, <3>5, <3>6, <3>7
  <2> QED
    BY <2>12, <2>13 DEF FileInv
<1> QED
  BY <1>1, <1>2

Contents == {Read(n) : n \in DOMAIN Data} \ {<<>>}

\* The room that is left is a number, which may be negative.
LEMMA RoomIs == ASSUME FileInv, opts.filenmax \in Nat PROVE Room(opts.filenmax) \in Int
BY FileNumbers DEF Room

\* What a file put behind the others does: the limit is kept, the blocks before stay, and
\* unless the limit is reached the new block is the whole file.
LEMMA MergeIs ==
  ASSUME FileInv, opts' = opts, opts.filenmax \in Nat, NEW d \in Seq(STRING), ~(Room(opts.filenmax) < 0),
         LET kept == SubSeq(d, 1, Shorter(Len(d), Room(opts.filenmax)))
         IN fo' = fo \o Block(kept) /\ st_fnum' = st_fnum + 1 /\ st_flen' = st_flen + LEN + Len(kept)
  PROVE  /\ FileInv'
         /\ \A k \in 1..st_fnum : BlockOf(fo', k) = BlockOf(fo, k)
         /\ st_flen' < opts.filenmax => BlockOf(fo', st_fnum + 1) = d
         /\ st_flen <= opts.filenmax
<1>1. PICK r : r = Room(opts.filenmax)
  OBVIOUS
<1>2. r \in Nat
  <2>1. r \in Int
    BY <1>1, RoomIs
  <2>2. ~(r < 0)
    BY <1>1
  <2> QED
    BY <2>1, <2>2
<1>3. PICK kept : kept = SubSeq(d, 1, Shorter(Len(d), r))
  OBVIOUS
<1>4. kept \in Seq(STRING) /\ Len(kept) <= r /\ (Len(kept) < r => kept = d)
  BY <1>2, <1>3, KeptIs
<1>5. fo' = Behind(fo, kept) /\ st_fnum' = st_fnum + 1 /\ st_flen' = st_flen + LEN + Len(kept)
  BY <1>1, <1>3 DEF Behind
<1>6. /\ FileInv'
      /\ \A k \in 1..st_fnum : BlockOf(fo', k) = BlockOf(fo, k)
      /\ BlockOf(fo', st_fnum + 1) = kept
      /\ st_flen' < opts.filenmax => kept = d
      /\ st_flen <= opts.filenmax
  BY <1>1, <1>2, <1>4, <1>5, FileMerged
<1> QED
  BY <1>6

\* What becomes of an entry: nothing is added, building ends, or its file is.
LEMMA EntryTaken ==
  ASSUME FileInv, opts' = opts, opts.filenmax \in Nat, entry.node \in DOMAIN Kind, TakeEntry(opts.filenmax)
  PROVE  /\ UNCHANGED <<list, posset, dirs, prefix, entry, fno>> /\ walk = "entry" /\ build = "walk"
         /\ \/ /\ UNCHANGED <<fo, st_fnum, st_flen, build>> /\ walk' = "next"
               /\ \A c \in Contents : ~Holds(entry.node, c)
            \/ UNCHANGED <<fo, st_fnum, st_flen, walk>> /\ build' \in {"die", "undefined"}
            \/ /\ FileInv' /\ build' = build /\ walk' \in {"next", "end"} /\ st_fnum' = st_fnum + 1
               /\ \A k \in 1..st_fnum : BlockOf(fo', k) = BlockOf(fo, k)
               /\ st_flen' \in Nat /\ st_flen <= st_flen'
               /\ st_flen' < opts.filenmax =>
                    /\ walk' = "next" /\ BlockOf(fo', st_fnum + 1) = Read(entry.node)
                    /\ Kind[entry.node] = "reg" /\ entry.node \notin Archive
<1>1. UNCHANGED <<list, posset, dirs, prefix, entry, fno>> /\ walk = "entry" /\ build = "walk"
  BY DEF TakeEntry
<1>2. CASE entry.node \in Archive \/ Kind[entry.node] \notin Regular
  <2>1. UNCHANGED <<fo, st_fnum, st_flen, build>> /\ walk' = "next"
    BY <1>2 DEF TakeEntry
  <2>2. \A c \in Contents : ~Holds(entry.node, c)
    BY <1>2 DEF Holds, Regular
  <2> QED
    BY <1>1, <2>1, <2>2
<1>3. CASE entry.node \notin Archive /\ Kind[entry.node] \in Regular
  <2>1. MergeEntry(opts.filenmax)
    BY <1>3 DEF TakeEntry
  <2>2. CASE Kind[entry.node] = "secret"
    BY <1>1, <2>1, <2>2 DEF MergeEntry
  <2>3. CASE Kind[entry.node] # "secret"
    <3>1. Kind[entry.node] = "reg" /\ entry.node \in DOMAIN Data
      BY <1>3, <2>3, DataAssumption DEF Regular
    <3>2. PICK d : d = Read(entry.node)
      OBVIOUS
    <3>3. d \in Seq(STRING)
      BY <3>1, <3>2, ReadIs
    <3>4. CASE Len(d) = 0
      <4>1. UNCHANGED <<fo, st_fnum, st_flen, build>> /\ walk' = "next"
        BY <2>1, <2>3, <3>2, <3>4 DEF MergeEntry
      <4>2. d = <<>>
        BY <3>3, <3>4, EmptySeq
      <4>3. \A c \in Contents : ~Holds(entry.node, c)
        BY <3>2, <4>2 DEF Holds, Contents
      <4> QED
        BY <1>1, <4>1, <4>3
    <3>5. CASE Len(d) # 0 /\ Room(opts.filenmax) < 0
      <4>1. build' = "undefined" /\ UNCHANGED <<fo, st_fnum, st_flen, walk>>
        BY <2>1, <2>3, <3>2, <3>5 DEF MergeEntry
      <4> QED
        BY <1>1, <4>1
    <3>6. CASE Len(d) # 0 /\ ~(Room(opts.filenmax) < 0)
      <4>1. LET kept == SubSeq(d, 1, Shorter(Len(d), Room(opts.filenmax)))
                flen == st_flen + LEN + Len(kept)
            IN /\ fo' = fo \o Block(kept) /\ st_fnum' = st_fnum + 1 /\ st_flen' = flen
               /\ IF flen >= opts.filenmax
                  THEN walk' = "end" /\ open' = open + 1
                  ELSE walk' = "next" /\ UNCHANGED open
               /\ UNCHANGED build
        BY <2>1, <2>3, <3>2, <3>6 DEF MergeEntry
      <4>2. /\ FileInv'
            /\ \A k \in 1..st_fnum : BlockOf(fo', k) = BlockOf(fo, k)
            /\ st_flen' < opts.filenmax => BlockOf(fo', st_fnum + 1) = d
        BY <3>3, <3>6, <4>1, MergeIs
      <4>3. PICK kept : kept = SubSeq(d, 1, Shorter(Len(d), Room(opts.filenmax)))
        OBVIOUS
      <4>4. /\ st_fnum' = st_fnum + 1 /\ st_flen' = st_flen + LEN + Len(kept) /\ build' = build
            /\ walk' = IF st_flen + LEN + Len(kept) >= opts.filenmax THEN "end" ELSE "next"
        BY <4>1, <4>3
      <4>5. Len(kept) \in Nat /\ st_flen \in Nat /\ LEN \in Nat
        <5>1. PICK r : r = Room(opts.filenmax)
          OBVIOUS
        <5>2. r \in Nat
          BY <3>6, <5>1, FileNumbers DEF Room
        <5> QED
          BY <3>3, <4>3, <5>1, <5>2, KeptIs, FileNumbers
      <4>6. st_flen' \in Nat /\ st_flen <= st_flen' /\ walk' \in {"next", "end"} /\ (st_flen' < opts.filenmax => walk' = "next")
        BY <4>4, <4>5
      <4> QED
        BY <1>1, <1>3, <3>1, <3>2, <4>2, <4>4, <4>6
    <3> QED
      BY <3>4, <3>5, <3>6
  <2> QED
    BY <2>2, <2>3
<1> QED
  BY <1>2, <1>3 DEF Regular

\* The next file, when the names are not walked.
LEMMA FileTaken ==
  ASSUME FileInv, opts' = opts, opts.filenmax \in Nat, fno \in Seq(OperandSet),
         NextFile(opts.filenmax, opts.delim)
  PROVE  FileInv' /\ fno' \in Seq(OperandSet)
<1>1. fno # <<>> /\ fno' = Tail(fno)
  BY DEF NextFile
<1>2. fno' \in Seq(OperandSet)
  BY <1>1
<1>3. PICK op : op = Head(fno)
  OBVIOUS
<1>4. PICK d : d = IF Kind[op.node] = "reg" THEN Read(op.node) ELSE <<>>
  OBVIOUS
<1>5. op \in OperandSet
  BY <1>1, <1>3
<1>6. d \in Seq(STRING)
  <2>1. CASE Kind[op.node] = "reg"
    <3>1. op.node \in DOMAIN Data
      BY <1>5, <2>1, DataAssumption DEF OperandSet
    <3> QED
      BY <1>4, <2>1, <3>1, ReadIs
  <2>2. CASE Kind[op.node] # "reg"
    BY <1>4, <2>2, NoneOK
  <2> QED
    BY <2>1, <2>2
<1>7. \/ UNCHANGED <<fo, st_fnum, st_flen>>
      \/ opts.delim # "none" /\ SplitFile(d, opts.filenmax, opts.delim)
      \/ MergeFile(d, opts.filenmax)
  BY <1>3, <1>4 DEF NextFile
<1>8. CASE UNCHANGED <<fo, st_fnum, st_flen>>
  BY <1>2, <1>8 DEF FileInv
<1>9. CASE opts.delim # "none" /\ SplitFile(d, opts.filenmax, opts.delim)
  BY <1>2, <1>6, <1>9, FileSplit
<1>10. CASE MergeFile(d, opts.filenmax)
  <2>1. CASE Room(opts.filenmax) < 0
    <3>1. UNCHANGED <<fo, st_fnum, st_flen>>
      BY <1>10, <2>1 DEF MergeFile
    <3> QED
      BY <1>2, <3>1 DEF FileInv
  <2>2. CASE ~(Room(opts.filenmax) < 0)
    <3>1. LET kept == SubSeq(d, 1, Shorter(Len(d), Room(opts.filenmax)))
          IN fo' = fo \o Block(kept) /\ st_fnum' = st_fnum + 1 /\ st_flen' = st_flen + LEN + Len(kept)
      BY <1>10, <2>2 DEF MergeFile
    <3>2. FileInv'
      BY <1>6, <2>2, <3>1, MergeIs
    <3> QED
      BY <1>2, <3>2
  <2> QED
    BY <2>1, <2>2
<1> QED
  BY <1>7, <1>8, <1>9, <1>10

-----------------------------------------------------------------------------
(* Sums over the elements of a sequence.                                     *)

\* Total is the sum over the domain.
LEMMA TotalIs == ASSUME NEW f PROVE Total(f) = SumOf(f, DOMAIN f)
BY DEF Total, SumOf

-----------------------------------------------------------------------------
(* The ways to contents: from a node, from what is left of a directory, from  *)
(* the open directories and from the operands not looked at.                  *)

Ways(c, k, node)  == WaysTo(c)[k][node]
LeftIn(c, k, o)   == Total([n \in o.left |-> Ways(c, k, Sub[o.node][n])])
InOpen(c, ds)     == Total([i \in DOMAIN ds |-> LeftIn(c, RDIR_DEPTH - i, ds[i])])
Ahead(c, l)       == Total([i \in DOMAIN l |-> Ways(c, RDIR_DEPTH, l[i].node)])

\* The ways from a node are those of its entries, with one directory less to go.
LEMMA WaysOpen ==
  ASSUME NEW c, NEW k \in 0..RDIR_DEPTH, NEW node \in DOMAIN Kind
  PROVE  Ways(c, k, node) =
           IF node \notin DOMAIN Sub THEN IF Holds(node, c) THEN 1 ELSE 0
           ELSE IF k = 0 THEN 0
           ELSE Total([n \in DOMAIN Sub[node] |-> Ways(c, k - 1, Sub[node][n])])
<1>1. WaysTo(c)[k] = WaysStep(c, WaysTo(c), k)
  BY WaysAt
<1>2. PICK f : f = WaysTo(c)[k]
  OBVIOUS
<1>3. f = WaysStep(c, WaysTo(c), k)
  BY <1>1, <1>2
<1>4. f[node] = IF node \notin DOMAIN Sub THEN IF Holds(node, c) THEN 1 ELSE 0
                ELSE IF k = 0 THEN 0
                ELSE Total([n \in DOMAIN Sub[node] |-> WaysTo(c)[k - 1][Sub[node][n]]])
  BY <1>3 DEF WaysStep
<1> QED
  BY <1>2, <1>4 DEF Ways

\* A directory has finitely many entries, all of them nodes.
LEMMA SubIs ==
  ASSUME NEW node \in DOMAIN Sub
  PROVE  IsFiniteSet(DOMAIN Sub[node]) /\ \A n \in DOMAIN Sub[node] : Sub[node][n] \in DOMAIN Kind
<1>1. IsFiniteSet(DOMAIN Sub[node]) /\ Sub[node] \in [DOMAIN Sub[node] -> DOMAIN Kind]
  BY WalkAssumption
<1> QED
  BY <1>1

\* Ways can be counted.
LEMMA WaysAreNumbers ==
  ASSUME NEW c
  PROVE  \A k \in 0..RDIR_DEPTH : \A node \in DOMAIN Kind : Ways(c, k, node) \in Nat
<1> DEFINE P == {k \in Nat : k <= RDIR_DEPTH => \A node \in DOMAIN Kind : Ways(c, k, node) \in Nat}
<1>0. RDIR_DEPTH \in Nat
  BY WalkAssumption
<1>1. 0 \in P
  <2>1. 0 \in 0..RDIR_DEPTH
    BY <1>0
  <2>2. ASSUME NEW node \in DOMAIN Kind PROVE Ways(c, 0, node) \in Nat
    <3>1. PICK z : z = 0
      OBVIOUS
    <3>2. Ways(c, z, node) = IF node \notin DOMAIN Sub THEN IF Holds(node, c) THEN 1 ELSE 0 ELSE 0
      BY <2>1, <3>1, WaysOpen
    <3> QED
      BY <3>1, <3>2
  <2> QED
    BY <2>2
<1>2. ASSUME NEW k \in 0..(RDIR_DEPTH - 1), k \in P PROVE k + 1 \in P
  <2>1. PICK m : m = k + 1
    OBVIOUS
  <2>2. m \in 0..RDIR_DEPTH /\ m # 0 /\ m - 1 = k /\ m \in Nat /\ k <= RDIR_DEPTH
    BY <1>0, <2>1
  <2>3. \A node \in DOMAIN Kind : Ways(c, k, node) \in Nat
    BY <1>2, <2>2
  <2>4. ASSUME NEW node \in DOMAIN Kind PROVE Ways(c, m, node) \in Nat
    <3>1. CASE node \notin DOMAIN Sub
      <4>1. Ways(c, m, node) = IF Holds(node, c) THEN 1 ELSE 0
        BY <2>2, <3>1, WaysOpen
      <4> QED
        BY <4>1
    <3>2. CASE node \in DOMAIN Sub
      <4>1. PICK f : f = [n \in DOMAIN Sub[node] |-> Ways(c, k, Sub[node][n])]
        OBVIOUS
      <4>2. Ways(c, m, node) = Total(f)
        BY <2>2, <3>2, <4>1, WaysOpen
      <4>3. IsFiniteSet(DOMAIN f) /\ \A n \in DOMAIN f : f[n] \in Nat
        BY <2>3, <3>2, <4>1, SubIs
      <4>4. SumOf(f, DOMAIN f) \in Nat
        BY <4>3, SumOfNaturals
      <4> QED
        BY <4>2, <4>4, TotalIs
    <3> QED
      BY <3>1, <3>2
  <2> QED
    BY <2>1, <2>2, <2>4
<1>3. \A k \in 0..RDIR_DEPTH : k \in P
  <2> HIDE DEF P
  <2> QED
    BY <1>0, <1>1, <1>2, CountInduction
<1> QED
  BY <1>0, <1>3

\* What is left of an open directory are entries of it.
LEMMA OpenedHas ==
  ASSUME NEW o \in Opened
  PROVE  /\ o.node \in DOMAIN Sub /\ o.left \subseteq DOMAIN Sub[o.node] /\ IsFiniteSet(o.left)
         /\ \A n \in o.left : Sub[o.node][n] \in DOMAIN Kind
<1>1. o.node \in DOMAIN Sub /\ o.left \subseteq DOMAIN Sub[o.node]
  BY DEF Opened
<1>2. IsFiniteSet(o.left)
  BY <1>1, SubIs, FS_Subset
<1> QED
  BY <1>1, <1>2, SubIs

\* The ways left in a directory can be counted; nothing left, no way left.
LEMMA LeftIs ==
  ASSUME NEW c, NEW k \in 0..RDIR_DEPTH, NEW o \in Opened
  PROVE  /\ LeftIn(c, k, o) \in Nat
         /\ o.left = {} => LeftIn(c, k, o) = 0
<1>1. PICK f : f = [n \in o.left |-> Ways(c, k, Sub[o.node][n])]
  OBVIOUS
<1>2. LeftIn(c, k, o) = SumOf(f, o.left)
  BY <1>1, TotalIs DEF LeftIn
<1>3. IsFiniteSet(o.left) /\ \A n \in o.left : f[n] \in Nat
  BY <1>1, OpenedHas, WaysAreNumbers
<1>4. SumOf(f, o.left) \in Nat
  BY <1>3, SumOfNaturals
<1> QED
  BY <1>2, <1>4, SumOfNone

\* A name taken from what is left takes its ways along.
LEMMA LeftOne ==
  ASSUME NEW c, NEW k \in 0..RDIR_DEPTH, NEW o \in Opened, NEW n \in o.left,
         NEW r \in Opened, r.node = o.node, r.left = o.left \ {n}
  PROVE  LeftIn(c, k, o) = Ways(c, k, Sub[o.node][n]) + LeftIn(c, k, r)
<1>1. PICK f : f = [m \in o.left |-> Ways(c, k, Sub[o.node][m])]
  OBVIOUS
<1>2. PICK g : g = [m \in r.left |-> Ways(c, k, Sub[r.node][m])]
  OBVIOUS
<1>3. LeftIn(c, k, o) = SumOf(f, o.left) /\ LeftIn(c, k, r) = SumOf(g, r.left)
  BY <1>1, <1>2, TotalIs DEF LeftIn
<1>4. IsFiniteSet(o.left) /\ IsFiniteSet(r.left) /\ \A m \in o.left : f[m] \in Int
  <2>1. IsFiniteSet(o.left) /\ IsFiniteSet(r.left) /\ \A m \in o.left : Sub[o.node][m] \in DOMAIN Kind
    BY OpenedHas
  <2>2. \A m \in o.left : Ways(c, k, Sub[o.node][m]) \in Nat
    BY <2>1, WaysAreNumbers
  <2> QED
    BY <1>1, <2>1, <2>2
<1>5. SumOf(f, o.left) = f[n] + SumOf(f, o.left \ {n})
  BY <1>4, SumTakesOut
<1>6. \A m \in r.left : f[m] \in Int /\ g[m] = f[m]
  BY <1>1, <1>2, <1>4
<1>7. SumOf(f, r.left) = SumOf(g, r.left)
  BY <1>4, <1>6, SumAgrees
<1>8. f[n] = Ways(c, k, Sub[o.node][n])
  BY <1>1
<1> QED
  BY <1>3, <1>5, <1>7, <1>8

\* A directory that was just opened.
LEMMA LeftAll ==
  ASSUME NEW c, NEW k \in 0..RDIR_DEPTH, k # 0, NEW node \in DOMAIN Sub
  PROVE  LeftIn(c, k - 1, [node |-> node, left |-> DOMAIN Sub[node]]) = Ways(c, k, node)
<1>1. node \in DOMAIN Kind
  BY WalkAssumption
<1>2. PICK o : o = [node |-> node, left |-> DOMAIN Sub[node]]
  OBVIOUS
<1>3. LeftIn(c, k - 1, o) = Total([n \in DOMAIN Sub[node] |-> Ways(c, k - 1, Sub[node][n])])
  BY <1>2 DEF LeftIn
<1>4. Ways(c, k, node) = Total([n \in DOMAIN Sub[node] |-> Ways(c, k - 1, Sub[node][n])])
  BY <1>1, WaysOpen
<1> QED
  BY <1>2, <1>3, <1>4

\* The ways left in the open directories, with the topmost apart.
LEMMA InOpenLast ==
  ASSUME NEW c, NEW ds \in Seq(Opened), NEW es \in Seq(Opened), Len(ds) <= RDIR_DEPTH,
         Len(ds) = Len(es) + 1, \A i \in 1..Len(es) : ds[i] = es[i]
  PROVE  /\ InOpen(c, ds) = InOpen(c, es) + LeftIn(c, RDIR_DEPTH - Len(ds), ds[Len(ds)])
         /\ InOpen(c, es) \in Int /\ LeftIn(c, RDIR_DEPTH - Len(ds), ds[Len(ds)]) \in Nat
<1>1. PICK n : n = Len(es)
  OBVIOUS
<1>2. n \in Nat /\ RDIR_DEPTH \in Nat /\ n + 1 <= RDIR_DEPTH /\ Len(ds) = n + 1
  BY <1>1, WalkAssumption
<1>3. PICK f : f = [i \in 1..(n + 1) |-> LeftIn(c, RDIR_DEPTH - i, ds[i])]
  OBVIOUS
<1>4. PICK g : g = [i \in 1..n |-> LeftIn(c, RDIR_DEPTH - i, es[i])]
  OBVIOUS
<1>5. InOpen(c, ds) = SumOf(f, 1..(n + 1)) /\ InOpen(c, es) = SumOf(g, 1..n)
  <2>1. DOMAIN ds = 1..(n + 1) /\ DOMAIN es = 1..n
    BY <1>1, <1>2
  <2>2. InOpen(c, ds) = Total(f) /\ InOpen(c, es) = Total(g)
    BY <1>3, <1>4, <2>1 DEF InOpen
  <2>3. DOMAIN f = 1..(n + 1) /\ DOMAIN g = 1..n
    BY <1>3, <1>4
  <2> QED
    BY <2>2, <2>3, TotalIs
<1>6. ASSUME NEW i \in 1..(n + 1) PROVE f[i] \in Nat
  <2>1. RDIR_DEPTH - i \in 0..RDIR_DEPTH /\ ds[i] \in Opened
    BY <1>2
  <2>2. f[i] = LeftIn(c, RDIR_DEPTH - i, ds[i])
    BY <1>3
  <2> QED
    BY <2>1, <2>2, LeftIs
<1>7. \A i \in 1..n : g[i] = f[i]
  BY <1>1, <1>2, <1>3, <1>4
<1>8. \A i \in 1..(n + 1) : f[i] \in Int
  BY <1>6
<1>9. SumOf(f, 1..(n + 1)) = SumOf(g, 1..n) + f[n + 1] /\ SumOf(g, 1..n) \in Int
  BY <1>2, <1>7, <1>8, SumWithLast
<1>10. f[n + 1] = LeftIn(c, RDIR_DEPTH - Len(ds), ds[Len(ds)]) /\ f[n + 1] \in Nat
  BY <1>2, <1>3, <1>6
<1> QED
  BY <1>5, <1>9, <1>10

\* No open directory, no ways left in them.
LEMMA InOpenNone == ASSUME NEW c PROVE InOpen(c, <<>>) = 0
<1>1. PICK f : f = [i \in DOMAIN <<>> |-> LeftIn(c, RDIR_DEPTH - i, <<>>[i])]
  OBVIOUS
<1>2. DOMAIN f = {}
  BY <1>1
<1> QED
  BY <1>1, <1>2, TotalIs, SumOfNone DEF InOpen

\* The ways from the operands not looked at, with the first apart.
LEMMA AheadFirst ==
  ASSUME NEW c, NEW l \in Seq(OperandSet), NEW t \in Seq(OperandSet), Len(l) = Len(t) + 1,
         \A i \in 1..Len(t) : t[i] = l[i + 1]
  PROVE  Ahead(c, l) = Ways(c, RDIR_DEPTH, l[1].node) + Ahead(c, t) /\ Ahead(c, t) \in Int
<1>1. PICK n : n = Len(t)
  OBVIOUS
<1>2. n \in Nat /\ Len(l) = n + 1 /\ DOMAIN l = 1..(n + 1) /\ DOMAIN t = 1..n
  BY <1>1
<1>3. PICK f : f = [i \in 1..(n + 1) |-> Ways(c, RDIR_DEPTH, l[i].node)]
  OBVIOUS
<1>4. PICK g : g = [i \in 1..n |-> Ways(c, RDIR_DEPTH, t[i].node)]
  OBVIOUS
<1>5. Ahead(c, l) = SumOf(f, 1..(n + 1)) /\ Ahead(c, t) = SumOf(g, 1..n)
  <2>1. Ahead(c, l) = Total(f) /\ Ahead(c, t) = Total(g)
    BY <1>2, <1>3, <1>4 DEF Ahead
  <2>2. DOMAIN f = 1..(n + 1) /\ DOMAIN g = 1..n
    BY <1>3, <1>4
  <2> QED
    BY <2>1, <2>2, TotalIs
<1>6. \A i \in 1..(n + 1) : f[i] \in Int
  <2>1. RDIR_DEPTH \in 0..RDIR_DEPTH
    BY WalkAssumption
  <2>2. ASSUME NEW i \in 1..(n + 1) PROVE f[i] \in Int
    <3>1. l[i] \in OperandSet
      BY <1>2
    <3>2. l[i].node \in DOMAIN Kind
      BY <3>1 DEF OperandSet
    <3> QED
      BY <1>3, <2>1, <3>2, WaysAreNumbers
  <2> QED
    BY <2>2
<1>7. ASSUME NEW i \in 1..n PROVE g[i] = f[i + 1]
  <2>1. i + 1 \in 1..(n + 1) /\ t[i] = l[i + 1]
    BY <1>1, <1>2
  <2> QED
    BY <1>3, <1>4, <2>1
<1>8. SumOf(f, 1..(n + 1)) = f[1] + SumOf(g, 1..n) /\ SumOf(g, 1..n) \in Int
  BY <1>2, <1>6, <1>7, SumWithFirst
<1>9. f[1] = Ways(c, RDIR_DEPTH, l[1].node)
  <2>1. 1 \in 1..(n + 1)
    BY <1>2
  <2> QED
    BY <1>3, <2>1
<1> QED
  BY <1>5, <1>8, <1>9

\* No operand, no ways from them.
LEMMA AheadNone == ASSUME NEW c PROVE Ahead(c, <<>>) = 0
<1>1. PICK f : f = [i \in DOMAIN <<>> |-> Ways(c, RDIR_DEPTH, <<>>[i].node)]
  OBVIOUS
<1>2. DOMAIN f = {}
  BY <1>1
<1> QED
  BY <1>1, <1>2, TotalIs, SumOfNone DEF Ahead

-----------------------------------------------------------------------------
(* What is owed while the walk goes on: as much as there are ways left.      *)

Here(c, w, e)        == IF w = "entry" /\ Holds(e.node, c) THEN 1 ELSE 0
Owed(c, w, e, ds, l) == Here(c, w, e) + (InOpen(c, ds) + Ahead(c, l))

\* Where no directory can be opened there is one way, if any.
LEMMA WaysToEntry ==
  ASSUME NEW c, NEW k \in 0..RDIR_DEPTH, NEW node \in DOMAIN Kind, ~(node \in DOMAIN Sub /\ k # 0)
  PROVE  Ways(c, k, node) = IF Holds(node, c) THEN 1 ELSE 0
<1>1. CASE node \notin DOMAIN Sub
  BY <1>1, WaysOpen
<1>2. CASE node \in DOMAIN Sub
  <2>1. k = 0 /\ Kind[node] = "dir"
    BY <1>2, WalkAssumption
  <2>2. ~Holds(node, c)
    BY <2>1 DEF Holds
  <2>3. Ways(c, k, node) = 0
    BY <1>2, <2>1, WaysOpen
  <2> QED
    BY <2>2, <2>3
<1> QED
  BY <1>1, <1>2

\* The directories below the topmost.
LEMMA FrontOf ==
  ASSUME NEW ds \in Seq(Opened), Len(ds) # 0
  PROVE  \E es \in Seq(Opened) : Len(ds) = Len(es) + 1 /\ \A i \in 1..Len(es) : es[i] = ds[i]
<1>1. PICK n : n = Len(ds) - 1
  OBVIOUS
<1>2. n \in Nat /\ Len(ds) = n + 1
  BY <1>1
<1>3. PICK es : es = [i \in 1..n |-> ds[i]]
  OBVIOUS
<1>4. es \in Seq(Opened) /\ Len(es) = n /\ \A i \in 1..n : es[i] = ds[i]
  BY <1>2, <1>3
<1> QED
  BY <1>2, <1>4

\* Nothing is lost when the walk goes on in a directory: what is returned, entered or passed
\* over is owed as the ways of that name were,
LEMMA OwedInDir ==
  ASSUME dirs \in Seq(Opened), Len(dirs) <= RDIR_DEPTH, NextInDir, NEW c, Ahead(c, list) \in Int
  PROVE  walk' \in {"next", "entry"} /\ Owed(c, walk', entry', dirs', list') = Owed(c, walk, entry, dirs, list)
<1>1. PICK n \in STRING, rest \in Seq(Opened) :
           /\ ReadOn(n, rest) /\ list' = list /\ posset' = posset
           /\ LET node == Sub[dirs[Len(dirs)].node][n]
              IN \/ Kind[node] = "gone" /\ dirs' = rest /\ UNCHANGED <<prefix, entry, walk>>
                 \/ /\ Kind[node] # "gone" /\ walk' = "entry"
                    /\ entry' = [path |-> Below(n), node |-> node]
                    /\ \/ Len(dirs) < RDIR_DEPTH /\ Enters(node, rest, dirs') /\ prefix' = Below(n)
                       \/ /\ ~(node \in DOMAIN Sub /\ Len(dirs) < RDIR_DEPTH)
                          /\ dirs' = rest /\ prefix' = prefix
  BY StepInDir
<1>2. PICK D : D = Len(dirs)
  OBVIOUS
<1>3. PICK node : node = Sub[dirs[D].node][n]
  OBVIOUS
<1>4. /\ D \in Nat \ {0} /\ n \in dirs[D].left /\ node \in DOMAIN Kind
      /\ rest \in Seq(Opened) /\ Len(rest) = D /\ (\A i \in 1..(D - 1) : rest[i] = dirs[i])
      /\ rest[D].node = dirs[D].node /\ rest[D].left = dirs[D].left \ {n}
  BY <1>1, <1>2, <1>3 DEF ReadOn
<1>5. PICK k : k = RDIR_DEPTH - D
  OBVIOUS
<1>6. k \in 0..RDIR_DEPTH /\ RDIR_DEPTH \in Nat /\ (D < RDIR_DEPTH <=> k # 0)
  BY <1>2, <1>4, <1>5, WalkAssumption
<1>7. walk = "next"
  BY DEF NextInDir
<1>8. Here(c, walk, entry) = 0
  BY <1>7 DEF Here
\* One name less is left of the topmost.
<1>9. InOpen(c, dirs) = Ways(c, k, node) + InOpen(c, rest) /\ InOpen(c, rest) \in Int /\ Ways(c, k, node) \in Nat
  <2>1. Len(dirs) # 0
    BY <1>2, <1>4
  <2>2. PICK es \in Seq(Opened) : Len(dirs) = Len(es) + 1 /\ \A i \in 1..Len(es) : es[i] = dirs[i]
    BY <2>1, FrontOf
  <2>3. Len(es) = D - 1 /\ Len(rest) = Len(es) + 1 /\ Len(rest) <= RDIR_DEPTH
    BY <1>2, <1>4, <2>2
  <2>4. (\A i \in 1..Len(es) : dirs[i] = es[i]) /\ \A i \in 1..Len(es) : rest[i] = es[i]
    BY <1>4, <2>2, <2>3
  <2>5. InOpen(c, dirs) = InOpen(c, es) + LeftIn(c, k, dirs[D]) /\ InOpen(c, es) \in Int
    BY <1>2, <1>5, <2>2, <2>4, InOpenLast
  <2>6. InOpen(c, rest) = InOpen(c, es) + LeftIn(c, k, rest[D]) /\ LeftIn(c, k, rest[D]) \in Nat
    BY <1>4, <1>5, <2>3, <2>4, InOpenLast
  <2>7. dirs[D] \in Opened /\ rest[D] \in Opened
    BY <1>2, <1>4
  <2>8. LeftIn(c, k, dirs[D]) = Ways(c, k, Sub[dirs[D].node][n]) + LeftIn(c, k, rest[D])
    <3>1. PICK o : o = dirs[D]
      OBVIOUS
    <3>2. PICK r : r = rest[D]
      OBVIOUS
    <3>3. o \in Opened /\ r \in Opened /\ n \in o.left /\ r.node = o.node /\ r.left = o.left \ {n}
      BY <1>4, <2>7, <3>1, <3>2
    <3>4. LeftIn(c, k, o) = Ways(c, k, Sub[o.node][n]) + LeftIn(c, k, r)
      BY <1>6, <3>3, LeftOne
    <3> QED
      BY <3>1, <3>2, <3>4
  <2>9. Ways(c, k, node) \in Nat
    BY <1>4, <1>6, WaysAreNumbers
  <2>10. PICK a : a = InOpen(c, es)
    OBVIOUS
  <2>11. PICK b : b = LeftIn(c, k, rest[D])
    OBVIOUS
  <2>12. PICK w : w = Ways(c, k, node)
    OBVIOUS
  <2>13. a \in Int /\ b \in Nat /\ w \in Nat /\ InOpen(c, dirs) = a + (w + b) /\ InOpen(c, rest) = a + b
    BY <1>3, <2>5, <2>6, <2>8, <2>9, <2>10, <2>11, <2>12
  <2>14. a + (w + b) = w + (a + b) /\ a + b \in Int
    BY <2>13
  <2> QED
    BY <2>12, <2>13, <2>14
\* The ways it leads to: the entry itself, or the directory that is opened.
<1>10. /\ walk' \in {"next", "entry"}
       /\ Here(c, walk', entry') + InOpen(c, dirs') = Ways(c, k, node) + InOpen(c, rest)
       /\ Here(c, walk', entry') \in Int /\ InOpen(c, dirs') \in Int
  <2>1. CASE Kind[node] = "gone" /\ dirs' = rest /\ UNCHANGED <<prefix, entry, walk>>
    <3>1. node \notin DOMAIN Sub /\ ~Holds(node, c)
      BY <1>4, <2>1, WalkAssumption DEF Holds
    <3>2. Ways(c, k, node) = 0
      BY <1>4, <1>6, <3>1, WaysToEntry
    <3>3. Here(c, walk', entry') = 0
      BY <1>7, <2>1 DEF Here
    <3> QED
      BY <1>7, <1>9, <2>1, <3>2, <3>3
  <2>2. CASE /\ walk' = "entry" /\ entry' = [path |-> Below(n), node |-> node]
             /\ Len(dirs) < RDIR_DEPTH /\ Enters(node, rest, dirs')
    <3>1. PICK ds : ds = dirs'
      OBVIOUS
    <3>2. PICK o : o = [node |-> node, left |-> DOMAIN Sub[node]]
      OBVIOUS
    <3>3. /\ node \in DOMAIN Sub /\ ds \in Seq(Opened) /\ Len(ds) = Len(rest) + 1
          /\ (\A i \in 1..Len(rest) : ds[i] = rest[i]) /\ ds[Len(ds)] = o
      BY <2>2, <3>1, <3>2 DEF Enters
    <3>4. Len(ds) <= RDIR_DEPTH /\ RDIR_DEPTH - Len(ds) = k - 1 /\ k # 0
      BY <1>2, <1>4, <1>5, <1>6, <2>2, <3>3
    <3>5. InOpen(c, ds) = InOpen(c, rest) + LeftIn(c, RDIR_DEPTH - Len(ds), ds[Len(ds)])
      BY <1>4, <3>3, <3>4, InOpenLast
    <3>6. InOpen(c, ds) = InOpen(c, rest) + LeftIn(c, k - 1, o)
      BY <3>3, <3>4, <3>5
    <3>7. LeftIn(c, k - 1, o) = Ways(c, k, node)
      BY <1>6, <3>2, <3>3, <3>4, LeftAll
    <3>8. Here(c, walk', entry') = 0
      <4>1. Kind[node] = "dir" /\ entry'.node = node
        BY <2>2, <3>3, WalkAssumption
      <4> QED
        BY <4>1 DEF Here, Holds
    <3>9. PICK x : x = Ways(c, k, node)
      OBVIOUS
    <3>10. PICK y : y = InOpen(c, rest)
      OBVIOUS
    <3>11. x \in Nat /\ y \in Int /\ InOpen(c, dirs') = y + x
      BY <1>9, <3>1, <3>6, <3>7, <3>9, <3>10
    <3>12. 0 + (y + x) = x + y /\ y + x \in Int
      BY <3>11
    <3> QED
      BY <2>2, <3>8, <3>9, <3>10, <3>11, <3>12
  <2>3. CASE /\ walk' = "entry" /\ entry' = [path |-> Below(n), node |-> node]
             /\ ~(node \in DOMAIN Sub /\ Len(dirs) < RDIR_DEPTH) /\ dirs' = rest
    <3>1. Ways(c, k, node) = IF Holds(node, c) THEN 1 ELSE 0
      BY <1>2, <1>4, <1>6, <2>3, WaysToEntry
    <3>2. Here(c, walk', entry') = IF Holds(node, c) THEN 1 ELSE 0
      BY <2>3 DEF Here
    <3> QED
      BY <1>9, <2>3, <3>1, <3>2
  <2> QED
    BY <1>1, <1>2, <1>3, <2>1, <2>2, <2>3
<1>11. list' = list
  BY <1>1
<1>12. Owed(c, walk', entry', dirs', list') = Owed(c, walk, entry, dirs, list)
  <2>1. PICK h : h = Here(c, walk', entry')
    OBVIOUS
  <2>2. PICK y : y = InOpen(c, dirs')
    OBVIOUS
  <2>3. PICK z : z = Ahead(c, list)
    OBVIOUS
  <2>4. h \in Int /\ y \in Int /\ z \in Int /\ InOpen(c, dirs) = h + y
    BY <1>9, <1>10, <2>1, <2>2, <2>3
  <2>5. h + (y + z) = 0 + ((h + y) + z)
    BY <2>4
  <2> QED
    BY <1>8, <1>11, <2>1, <2>2, <2>3, <2>4, <2>5 DEF Owed
<1> QED
  BY <1>10, <1>12

\* when it leaves one,
LEMMA OwedOutOfDir ==
  ASSUME dirs \in Seq(Opened), Len(dirs) <= RDIR_DEPTH, EndOfDir, NEW c
  PROVE  walk' \in {"next", "entry"} /\ Owed(c, walk', entry', dirs', list') = Owed(c, walk, entry, dirs, list)
<1>1. /\ Len(dirs) \in Nat \ {0} /\ dirs[Len(dirs)].left = {}
      /\ dirs' \in Seq(Opened) /\ Len(dirs') = Len(dirs) - 1 /\ (\A i \in 1..Len(dirs') : dirs'[i] = dirs[i])
      /\ UNCHANGED <<list, entry, walk>> /\ walk = "next"
  BY StepOutOfDir DEF EndOfDir
<1>2. PICK es : es = dirs'
  OBVIOUS
<1>3. es \in Seq(Opened) /\ Len(dirs) = Len(es) + 1 /\ \A i \in 1..Len(es) : dirs[i] = es[i]
  BY <1>1, <1>2
<1>4. InOpen(c, dirs) = InOpen(c, es) + LeftIn(c, RDIR_DEPTH - Len(dirs), dirs[Len(dirs)])
      /\ InOpen(c, es) \in Int
  BY <1>3, InOpenLast
<1>5. LeftIn(c, RDIR_DEPTH - Len(dirs), dirs[Len(dirs)]) = 0
  <2>1. RDIR_DEPTH - Len(dirs) \in 0..RDIR_DEPTH
    BY <1>1, WalkAssumption
  <2>2. PICK o : o = dirs[Len(dirs)]
    OBVIOUS
  <2>3. o \in Opened /\ o.left = {}
    BY <1>1, <2>2
  <2> QED
    BY <2>1, <2>2, <2>3, LeftIs
<1>6. InOpen(c, dirs) = InOpen(c, es)
  BY <1>4, <1>5
<1> QED
  BY <1>1, <1>2, <1>6 DEF Owed

\* or when it begins at the next operand.
LEMMA OwedByOperand ==
  ASSUME Asked \subseteq OperandSet, list \in Seq(Asked), NextOperand, NEW c
  PROVE  walk' \in {"next", "entry"} /\ Owed(c, walk', entry', dirs', list') = Owed(c, walk, entry, dirs, list)
<1>1. PICK op \in Asked :
        /\ op = list[1] /\ op.node \in DOMAIN Kind /\ dirs = <<>> /\ walk = "next"
        /\ list' \in Seq(Asked) /\ Len(list') = Len(list) - 1 /\ (\A i \in 1..Len(list') : list'[i] = list[i + 1])
        /\ \/ Kind[op.node] = "gone" /\ UNCHANGED <<dirs, prefix, entry, walk>>
           \/ /\ Kind[op.node] # "gone" /\ walk' = "entry" /\ entry' = [path |-> op.path, node |-> op.node]
              /\ \/ /\ op.node \in DOMAIN Sub /\ prefix' = op.path
                    /\ dirs' = <<[node |-> op.node, left |-> DOMAIN Sub[op.node]]>>
                 \/ op.node \notin DOMAIN Sub /\ UNCHANGED <<dirs, prefix>>
  BY StepToOperand
<1>2. PICK node : node = op.node
  OBVIOUS
<1>3. PICK k : k = RDIR_DEPTH
  OBVIOUS
<1>4. k \in 0..RDIR_DEPTH /\ k # 0 /\ node \in DOMAIN Kind
  BY <1>1, <1>2, <1>3, WalkAssumption
<1>5. Ahead(c, list) = Ways(c, k, node) + Ahead(c, list') /\ Ahead(c, list') \in Int
  <2>1. PICK t : t = list'
    OBVIOUS
  <2>2. list \in Seq(OperandSet) /\ t \in Seq(OperandSet)
    BY <1>1, <2>1, WordsIn
  <2>3. Len(list) \in Nat
    OBVIOUS
  <2>4. Len(list) = Len(t) + 1 /\ \A i \in 1..Len(t) : t[i] = list[i + 1]
    BY <1>1, <2>1, <2>3
  <2>5. Ahead(c, list) = Ways(c, RDIR_DEPTH, list[1].node) + Ahead(c, t) /\ Ahead(c, t) \in Int
    BY <2>2, <2>4, AheadFirst
  <2> QED
    BY <1>1, <1>2, <1>3, <2>1, <2>5
<1>6. Ways(c, k, node) \in Nat
  BY <1>4, WaysAreNumbers
<1>7. Here(c, walk, entry) = 0 /\ InOpen(c, dirs) = 0
  BY <1>1, InOpenNone DEF Here
<1>8. /\ walk' \in {"next", "entry"}
      /\ Here(c, walk', entry') + InOpen(c, dirs') = Ways(c, k, node)
      /\ Here(c, walk', entry') \in Int /\ InOpen(c, dirs') \in Int
  <2>1. CASE Kind[node] = "gone" /\ UNCHANGED <<dirs, entry, walk>>
    <3>1. node \notin DOMAIN Sub /\ ~Holds(node, c)
      BY <1>4, <2>1, WalkAssumption DEF Holds
    <3>2. Ways(c, k, node) = 0
      BY <1>4, <3>1, WaysToEntry
    <3> QED
      BY <1>1, <1>7, <2>1, <3>2
  <2>2. CASE /\ walk' = "entry" /\ entry' = [path |-> op.path, node |-> node]
             /\ node \in DOMAIN Sub /\ dirs' = <<[node |-> node, left |-> DOMAIN Sub[node]]>>
    <3>1. PICK o : o = [node |-> node, left |-> DOMAIN Sub[node]]
      OBVIOUS
    <3>2. PICK ds : ds = <<o>>
      OBVIOUS
    <3>3. o \in Opened
      BY <2>2, <3>1, DirIsOpened
    <3>4. ds \in Seq(Opened) /\ Len(ds) = 1 /\ ds[Len(ds)] = o
      BY <3>2, <3>3
    <3>5. PICK es : es = <<>>
      OBVIOUS
    <3>6. es \in Seq(Opened) /\ Len(es) = 0
      BY <3>5, NoneOK
    <3>7. Len(ds) <= RDIR_DEPTH /\ Len(ds) = Len(es) + 1 /\ \A i \in 1..Len(es) : ds[i] = es[i]
      BY <1>3, <1>4, <3>4, <3>6, WalkAssumption
    <3>8. InOpen(c, ds) = InOpen(c, es) + LeftIn(c, RDIR_DEPTH - Len(ds), ds[Len(ds)])
          /\ LeftIn(c, RDIR_DEPTH - Len(ds), ds[Len(ds)]) \in Nat
      BY <3>4, <3>6, <3>7, InOpenLast
    <3>9. RDIR_DEPTH - Len(ds) = k - 1
      BY <1>3, <3>4
    <3>10. LeftIn(c, k - 1, o) = Ways(c, k, node)
      BY <1>4, <2>2, <3>1, LeftAll
    <3>11. InOpen(c, ds) = Ways(c, k, node)
      BY <3>4, <3>5, <3>8, <3>9, <3>10, InOpenNone
    <3>12. Here(c, walk', entry') = 0
      <4>1. Kind[node] = "dir" /\ entry'.node = node
        BY <2>2, WalkAssumption
      <4> QED
        BY <4>1 DEF Here, Holds
    <3>13. dirs' = ds
      BY <2>2, <3>1, <3>2
    <3> QED
      BY <1>6, <2>2, <3>11, <3>12, <3>13
  <2>3. CASE walk' = "entry" /\ entry' = [path |-> op.path, node |-> node] /\ node \notin DOMAIN Sub /\ dirs' = dirs
    <3>1. Ways(c, k, node) = IF Holds(node, c) THEN 1 ELSE 0
      BY <1>4, <2>3, WaysToEntry
    <3>2. Here(c, walk', entry') = IF Holds(node, c) THEN 1 ELSE 0
      BY <2>3 DEF Here
    <3> QED
      BY <1>7, <2>3, <3>1, <3>2
  <2> QED
    BY <1>1, <1>2, <2>1, <2>2, <2>3
<1>9. Owed(c, walk', entry', dirs', list') = Owed(c, walk, entry, dirs, list)
  <2>1. PICK h : h = Here(c, walk', entry')
    OBVIOUS
  <2>2. PICK y : y = InOpen(c, dirs')
    OBVIOUS
  <2>3. PICK z : z = Ahead(c, list')
    OBVIOUS
  <2>4. h \in Int /\ y \in Int /\ z \in Int /\ Ahead(c, list) = (h + y) + z
    BY <1>5, <1>8, <2>1, <2>2, <2>3
  <2>5. h + (y + z) = 0 + (0 + ((h + y) + z))
    BY <2>4
  <2> QED
    BY <1>7, <2>1, <2>2, <2>3, <2>4, <2>5 DEF Owed
<1> QED
  BY <1>8, <1>9

\* A step of the walk leaves what is owed as it is; at the end nothing is.
LEMMA OwedStep ==
  ASSUME Asked \subseteq OperandSet, TrailInv, Len(dirs) <= RDIR_DEPTH, rdirnext, NEW c, Ahead(c, list) \in Int
  PROVE  /\ walk = "next"
         /\ walk' \in {"next", "entry"} => Owed(c, walk', entry', dirs', list') = Owed(c, walk, entry, dirs, list)
         /\ walk' = "end" => Owed(c, walk, entry, dirs, list) = 0
<1>0. dirs \in Seq(Opened) /\ list \in Seq(Asked)
  BY DEF TrailInv
<1>1. CASE NextInDir
  <2>1. walk = "next"
    BY <1>1 DEF NextInDir
  <2> QED
    BY <1>0, <1>1, <2>1, OwedInDir
<1>2. CASE EndOfDir
  <2>1. walk = "next"
    BY <1>2 DEF EndOfDir
  <2> QED
    BY <1>0, <1>2, <2>1, OwedOutOfDir
<1>3. CASE UnsetPos \/ NameOverrun
  BY <1>3 DEF UnsetPos, NameOverrun
<1>4. CASE NextOperand
  <2>1. walk = "next"
    BY <1>4 DEF NextOperand
  <2> QED
    BY <1>0, <1>4, <2>1, OwedByOperand
<1>5. CASE WalkEnds
  <2>1. walk = "next" /\ walk' = "end" /\ dirs = <<>> /\ list = <<>>
    BY <1>5 DEF WalkEnds
  <2>2. Here(c, walk, entry) = 0 /\ InOpen(c, dirs) = 0 /\ Ahead(c, list) = 0
    BY <2>1, InOpenNone, AheadNone DEF Here
  <2> QED
    BY <2>1, <2>2 DEF Owed
<1> QED
  BY <1>1, <1>2, <1>3, <1>4, <1>5 DEF rdirnext

\* The ways from the operands can be counted.
LEMMA AheadIsNumber == ASSUME NEW c, NEW l \in Seq(OperandSet) PROVE Ahead(c, l) \in Nat
<1>1. PICK f : f = [i \in DOMAIN l |-> Ways(c, RDIR_DEPTH, l[i].node)]
  OBVIOUS
<1>2. DOMAIN l = 1..Len(l) /\ Len(l) \in Nat
  OBVIOUS
<1>3. IsFiniteSet(1..Len(l))
  BY <1>2, FS_Interval
<1>4. ASSUME NEW i \in DOMAIN l PROVE f[i] \in Nat
  <2>1. l[i] \in OperandSet
    OBVIOUS
  <2>2. l[i].node \in DOMAIN Kind /\ RDIR_DEPTH \in 0..RDIR_DEPTH
    BY <2>1, WalkAssumption DEF OperandSet
  <2>3. Ways(c, RDIR_DEPTH, l[i].node) \in Nat
    BY <2>2, WaysAreNumbers
  <2> QED
    BY <1>1, <2>3
<1>5. PICK S : S = DOMAIN l
  OBVIOUS
<1>6. IsFiniteSet(S) /\ \A i \in S : f[i] \in Nat
  BY <1>2, <1>3, <1>4, <1>5
<1>7. SumOf(f, S) \in Nat
  BY <1>6, SumOfNaturals
<1>8. DOMAIN f = S
  BY <1>1, <1>5
<1> QED
  BY <1>1, <1>7, <1>8, TotalIs DEF Ahead

-----------------------------------------------------------------------------
(* What was seen and what is owed are all there is, while the limit does not  *)
(* bind.                                                                      *)
Seen(c, file, m) == Cardinality({k \in 1..m : BlockOf(file, k) = c})
CountInv ==
  st_flen < opts.filenmax =>
    \A c \in Contents :
      /\ build = "walk" /\ walk \in {"next", "entry"} =>
           Seen(c, fo, st_fnum) + Owed(c, walk, entry, dirs, list) = Ahead(c, Operands)
      /\ build = "walk" /\ walk = "end" => Seen(c, fo, st_fnum) = Ahead(c, Operands)
      /\ build = "built" /\ Recursive => Seen(c, fo, st_fnum) = Ahead(c, Operands)

\* In no block nothing was seen.
LEMMA SeenNone == ASSUME NEW c, NEW file PROVE Seen(c, file, 0) = 0
<1>1. {k \in 1..0 : BlockOf(file, k) = c} = {}
  OBVIOUS
<1> QED
  BY <1>1, FS_EmptySet DEF Seen

\* One block more is seen once more if it has the contents.
LEMMA SeenMore ==
  ASSUME NEW c, NEW m \in Nat, NEW file, NEW g, \A k \in 1..m : BlockOf(g, k) = BlockOf(file, k)
  PROVE  /\ Seen(c, file, m) \in Nat
         /\ Seen(c, g, m + 1) = (IF BlockOf(g, m + 1) = c THEN 1 ELSE 0) + Seen(c, file, m)
<1> DEFINE A == {k \in 1..m : BlockOf(file, k) = c}
           B == {k \in 1..(m + 1) : BlockOf(g, k) = c}
<1>1. IsFiniteSet(A) /\ Cardinality(A) \in Nat
  <2>1. IsFiniteSet(1..m)
    BY FS_Interval
  <2>2. A \in SUBSET (1..m)
    OBVIOUS
  <2> HIDE DEF A
  <2> QED
    BY <2>1, <2>2, FS_Subset, FS_CardinalityType
<1>2. m + 1 \notin A /\ 1..(m + 1) = (1..m) \cup {m + 1}
  OBVIOUS
<1>3. B = IF BlockOf(g, m + 1) = c THEN A \cup {m + 1} ELSE A
  <2>1. \A k : k \in 1..(m + 1) <=> k \in 1..m \/ k = m + 1
    BY <1>2
  <2>2. \A k \in 1..m : k \in A <=> BlockOf(g, k) = c
    OBVIOUS
  <2>3. \A k : k \in A => k \in 1..m
    OBVIOUS
  <2>4. \A k : k \in B <=> k \in 1..(m + 1) /\ BlockOf(g, k) = c
    OBVIOUS
  <2> HIDE DEF A, B
  <2>5. CASE BlockOf(g, m + 1) = c
    <3>1. \A k : k \in B <=> k \in A \cup {m + 1}
      BY <2>1, <2>2, <2>3, <2>4, <2>5
    <3> QED
      BY <2>5, <3>1
  <2>6. CASE BlockOf(g, m + 1) # c
    <3>1. \A k : k \in B <=> k \in A
      BY <2>1, <2>2, <2>3, <2>4, <2>6
    <3> QED
      BY <2>6, <3>1
  <2> QED
    BY <2>5, <2>6
<1> HIDE DEF A, B
<1>4. Cardinality(A \cup {m + 1}) = Cardinality(A) + 1
  BY <1>1, <1>2, FS_AddElement
<1>5. Cardinality(B) = (IF BlockOf(g, m + 1) = c THEN 1 ELSE 0) + Cardinality(A)
  BY <1>1, <1>3, <1>4
<1> QED
  BY <1>1, <1>5 DEF Seen, A, B

BuildInv ==
  /\ PhaseInv /\ FileInv /\ CountInv
  /\ fno \in Seq(OperandSet) /\ (build # "off" => TrailInv)

\* BuildInv holds at first;
LEMMA BuildStart == Init => BuildInv
<1> SUFFICES ASSUME Init PROVE BuildInv
  OBVIOUS
<1>1. PhaseInv
  BY PhaseStart
<1>2. build = "off" /\ fo = <<>> /\ st_fnum = 0 /\ st_flen = 0 /\ fno = <<>>
  BY DEF Init, BuildInit
<1>3. FileInv
  <2>1. Len(fo) = 0 /\ fo \in Seq(FileWord)
    BY <1>2, NoneOK
  <2>2. InOrder(fo, 0)
    <3>1. Len(fo) \in Nat
      BY <2>1
    <3>2. \A k \in 0..Len(fo) : Starts(fo)[k] = StartStep(fo, Starts(fo), k)
      BY <3>1, StartsAt
    <3>3. Starts(fo)[0] = 1
      BY <2>1, <3>2 DEF StartStep
    <3>4. 0 - 1 = -1 /\ 0..(0 - 1) = {}
      OBVIOUS
    <3> QED
      BY <2>1, <3>3, <3>4 DEF InOrder
  <2>3. (LEN - 1) * 0 = 0
    BY DataAssumption
  <2>4. opts.filenmax \in Nat
    BY <1>1 DEF PhaseInv
  <2> QED
    BY <1>2, <2>1, <2>2, <2>3, <2>4 DEF FileInv
<1>4. CountInv
  BY <1>2 DEF CountInv
<1>5. fno \in Seq(OperandSet)
  BY <1>2, NoneOK
<1> QED
  BY <1>1, <1>2, <1>3, <1>4, <1>5 DEF BuildInv

\* The ways left in the open directories can be counted.
LEMMA InOpenIsNumber ==
  ASSUME NEW c, NEW ds \in Seq(Opened), Len(ds) <= RDIR_DEPTH
  PROVE  InOpen(c, ds) \in Int
<1>1. CASE Len(ds) = 0
  <2>1. ds = <<>>
    BY <1>1, EmptySeq
  <2> QED
    BY <2>1, InOpenNone
<1>2. CASE Len(ds) # 0
  <2>1. PICK es \in Seq(Opened) : Len(ds) = Len(es) + 1 /\ \A i \in 1..Len(es) : es[i] = ds[i]
    BY <1>2, FrontOf
  <2>2. \A i \in 1..Len(es) : ds[i] = es[i]
    BY <2>1
  <2>3. /\ InOpen(c, ds) = InOpen(c, es) + LeftIn(c, RDIR_DEPTH - Len(ds), ds[Len(ds)])
        /\ InOpen(c, es) \in Int /\ LeftIn(c, RDIR_DEPTH - Len(ds), ds[Len(ds)]) \in Nat
    BY <2>1, <2>2, InOpenLast
  <2> QED
    BY <2>3
<1> QED
  BY <1>1, <1>2

\* What stays when the file is built, and after it.
LEMMA WhileBuilt ==
  ASSUME OptInv, BuildInv, [Next]_vars, parsed
  PROVE  /\ Operands \in Seq(OperandSet) /\ Operands \in Seq(Asked) /\ Asked \subseteq OperandSet
         /\ Operands' = Operands /\ Asked' = Asked /\ Stdin' = Stdin
         /\ PhaseInv' /\ opts.filenmax \in Nat
         /\ build # "off" => opts' = opts /\ (Recursive' <=> Recursive)
<1>1. given \in Lines /\ PhaseInv /\ opts.filenmax \in Nat
  BY DEF BuildInv, PhaseInv
<1>2. build # "off" => opts' = opts
  BY <1>1, OptionsStay
<1>3. Operands' = Operands /\ Asked' = Asked /\ Stdin' = Stdin
  BY OperandsStay
<1>4. build # "off" => (Recursive' <=> Recursive)
  BY <1>2, <1>3 DEF Recursive
<1> QED
  BY <1>1, <1>2, <1>3, <1>4, OperandsKnown, PhaseKept

\* steps outside bebuild keep it,
LEMMA OtherBuildKept == ASSUME OptInv, BuildInv, [Next]_vars, UNCHANGED buildVars PROVE BuildInv'
<1>0. UNCHANGED <<list, posset, dirs, prefix, entry, walk, fo, st_fnum, st_flen, fno, build>>
  BY DEF buildVars, walkVars
<1>1. PhaseInv' /\ fno' \in Seq(OperandSet)
  BY <1>0, PhaseKept DEF BuildInv
<1>2. CASE build = "off"
  <2>1. st_flen = 0
    BY <1>2 DEF BuildInv, PhaseInv
  <2>2. opts'.filenmax \in Nat
    BY <1>1 DEF PhaseInv
  <2>3. FileInv'
    BY <1>0, <2>1, <2>2 DEF BuildInv, FileInv
  <2>4. CountInv'
    BY <1>0, <1>2 DEF CountInv
  <2> QED
    BY <1>0, <1>1, <1>2, <2>3, <2>4 DEF BuildInv
<1>3. CASE build # "off"
  <2>1. parsed
    BY <1>3 DEF BuildInv, PhaseInv
  <2>2. opts' = opts /\ (Recursive' <=> Recursive) /\ Operands' = Operands /\ Asked' = Asked
    BY <1>3, <2>1, WhileBuilt
  <2>3. FileInv'
    BY <1>0, <2>2 DEF BuildInv, FileInv
  <2>4. CountInv'
    BY <1>0, <2>2 DEF BuildInv, CountInv
  <2>5. TrailInv'
    BY <1>0, <1>3, <2>2, TrailStays DEF BuildInv
  <2> QED
    BY <1>1, <2>3, <2>4, <2>5 DEF BuildInv
<1> QED
  BY <1>2, <1>3

\* its beginning does,
LEMMA StartBuildKept == ASSUME OptInv, BuildInv, [Next]_vars, StartBuild PROVE BuildInv'
<1>0. main = "build" /\ build = "off" /\ opts' = opts /\ UNCHANGED <<fo, st_fnum, st_flen>>
  BY DEF StartBuild, bebuild
<1>1. parsed /\ walk = "closed" /\ list = <<>> /\ dirs = <<>> /\ prefix = NoPath /\ fo = <<>> /\ st_fnum = 0 /\ st_flen = 0
  BY <1>0 DEF BuildInv, PhaseInv
<1>2. Operands \in Seq(OperandSet) /\ Operands \in Seq(Asked) /\ Operands' = Operands /\ Asked' = Asked /\ PhaseInv'
  BY <1>1, WhileBuilt
<1>3. \/ build' = "walk" /\ list' = Operands /\ walk' = "next" /\ dirs' = <<>> /\ prefix' = NoPath /\ fno' = fno
      \/ build' = "files" /\ fno' = Operands /\ UNCHANGED walkVars
  BY DEF StartBuild, bebuild, rdiropen
<1>4. FileInv'
  BY <1>0 DEF BuildInv, FileInv
<1>5. fno' \in Seq(OperandSet)
  BY <1>2, <1>3 DEF BuildInv
<1>6. TrailInv'
  <2>1. dirs' = <<>> /\ prefix' = NoPath /\ list' \in {Operands, <<>>} /\ walk' # "entry"
    BY <1>1, <1>3 DEF walkVars
  <2>2. dirs' \in Seq(Opened) /\ prefix' \in Path /\ list' \in Seq(Asked')
    BY <1>2, <2>1, NoneOK, NoPathOK
  <2> QED
    BY <2>1, <2>2 DEF TrailInv
<1>7. CountInv'
  <2>1. CASE build' = "walk" /\ list' = Operands /\ walk' = "next" /\ dirs' = <<>>
    <3>1. ASSUME NEW c \in Contents PROVE Seen(c, fo', st_fnum') + Owed(c, walk', entry', dirs', list') = Ahead(c, Operands')
      <4>1. Seen(c, fo', st_fnum') = 0
        BY <1>0, <1>1, SeenNone
      <4>2. Here(c, walk', entry') = 0 /\ InOpen(c, dirs') = 0
        BY <2>1, InOpenNone DEF Here
      <4>3. Ahead(c, Operands) \in Nat
        BY <1>2, AheadIsNumber
      <4>4. Owed(c, walk', entry', dirs', list') = 0 + (0 + Ahead(c, Operands))
        BY <2>1, <4>2 DEF Owed
      <4> QED
        BY <1>2, <4>1, <4>3, <4>4
    <3> QED
      BY <2>1, <3>1 DEF CountInv
  <2>2. CASE build' = "files"
    BY <2>2 DEF CountInv
  <2> QED
    BY <1>3, <2>1, <2>2
<1> QED
  BY <1>2, <1>4, <1>5, <1>6, <1>7 DEF BuildInv

\* the walk does,
LEMMA WalkBuildKept ==
  ASSUME OptInv, BuildInv, WalkInv, [Next]_vars, Walk PROVE BuildInv'
<1>0. build = "walk" /\ rdirnext /\ UNCHANGED <<fo, st_fnum, st_flen, fno, build>>
  BY DEF Walk
<1>1. parsed /\ TrailInv
  BY <1>0 DEF BuildInv, PhaseInv
<1>2. /\ Asked \subseteq OperandSet /\ Operands' = Operands /\ Asked' = Asked /\ PhaseInv'
      /\ opts' = opts /\ Operands \in Seq(OperandSet)
  BY <1>0, <1>1, WhileBuilt
<1>3. TrailInv'
  BY <1>0, <1>1, <1>2, TrailStep
<1>4. FileInv' /\ fno' \in Seq(OperandSet)
  BY <1>0, <1>2 DEF BuildInv, FileInv
<1>5. ASSUME NEW c \in Contents, st_flen < opts.filenmax
      PROVE  /\ walk' \in {"next", "entry"} =>
                  Seen(c, fo, st_fnum) + Owed(c, walk', entry', dirs', list') = Ahead(c, Operands)
             /\ walk' = "end" => Seen(c, fo, st_fnum) = Ahead(c, Operands)
  <2>1. Ahead(c, list) \in Int
    <3>1. list \in Seq(OperandSet)
      BY <1>1, <1>2, WordsIn DEF TrailInv
    <3> QED
      BY <3>1, AheadIsNumber
  <2>2. Len(dirs) <= RDIR_DEPTH
    BY DEF WalkInv, IsStack
  <2>3. /\ walk = "next"
        /\ walk' \in {"next", "entry"} => Owed(c, walk', entry', dirs', list') = Owed(c, walk, entry, dirs, list)
        /\ walk' = "end" => Owed(c, walk, entry, dirs, list) = 0
    BY <1>0, <1>1, <1>2, <2>1, <2>2, OwedStep
  <2>4. Seen(c, fo, st_fnum) + Owed(c, walk, entry, dirs, list) = Ahead(c, Operands)
    BY <1>0, <1>5, <2>3 DEF BuildInv, CountInv
  <2>5. Seen(c, fo, st_fnum) \in Nat
    BY SeenMore, FileNumbers DEF BuildInv
  <2> QED
    BY <2>3, <2>4, <2>5
<1>6. CountInv'
  BY <1>0, <1>2, <1>5 DEF CountInv
<1> QED
  BY <1>2, <1>3, <1>4, <1>6 DEF BuildInv

\* an entry that is taken or left out does,
LEMMA EntryBuildKept ==
  ASSUME OptInv, BuildInv, WalkInv, [Next]_vars, TakeEntry(opts.filenmax) PROVE BuildInv'
<1>0. build = "walk" /\ walk = "entry"
  BY DEF TakeEntry
<1>1. parsed /\ TrailInv /\ FileInv /\ entry.node \in DOMAIN Kind
  BY <1>0 DEF BuildInv, PhaseInv, TrailInv
<1>2. Operands' = Operands /\ Asked' = Asked /\ PhaseInv' /\ opts' = opts /\ opts.filenmax \in Nat
      /\ Operands \in Seq(OperandSet) /\ (Recursive' <=> Recursive)
  BY <1>0, <1>1, WhileBuilt
<1>3. /\ UNCHANGED <<list, posset, dirs, prefix, entry, fno>>
      /\ \/ /\ UNCHANGED <<fo, st_fnum, st_flen, build>> /\ walk' = "next"
            /\ \A c \in Contents : ~Holds(entry.node, c)
         \/ UNCHANGED <<fo, st_fnum, st_flen, walk>> /\ build' \in {"die", "undefined"}
         \/ /\ FileInv' /\ build' = build /\ walk' \in {"next", "end"} /\ st_fnum' = st_fnum + 1
            /\ \A k \in 1..st_fnum : BlockOf(fo', k) = BlockOf(fo, k)
            /\ st_flen' \in Nat /\ st_flen <= st_flen'
            /\ st_flen' < opts.filenmax =>
                 /\ walk' = "next" /\ BlockOf(fo', st_fnum + 1) = Read(entry.node)
                 /\ Kind[entry.node] = "reg" /\ entry.node \notin Archive
  BY <1>1, <1>2, EntryTaken
<1>4. TrailInv'
  <2>1. walk' \in {walk, "next", "end", "closed"}
    BY <1>3
  <2> QED
    BY <1>1, <1>2, <1>3, <2>1, TrailStays
<1>5. FileInv'
  BY <1>1, <1>2, <1>3 DEF FileInv
<1>6. fno' \in Seq(OperandSet)
  BY <1>3 DEF BuildInv
<1>7. CountInv'
  <2>1. CASE UNCHANGED <<fo, st_fnum, st_flen, build>> /\ walk' = "next" /\ \A c \in Contents : ~Holds(entry.node, c)
    <3>1. ASSUME NEW c \in Contents, st_flen < opts.filenmax
          PROVE  Seen(c, fo, st_fnum) + Owed(c, walk', entry', dirs', list') = Ahead(c, Operands)
      <4>1. Seen(c, fo, st_fnum) + Owed(c, walk, entry, dirs, list) = Ahead(c, Operands)
        BY <1>0, <3>1 DEF BuildInv, CountInv
      <4>2. Here(c, walk, entry) = 0 /\ Here(c, walk', entry') = 0
        BY <1>3, <2>1 DEF Here
      <4>3. Owed(c, walk', entry', dirs', list') = Owed(c, walk, entry, dirs, list)
        BY <1>3, <4>2 DEF Owed
      <4> QED
        BY <4>1, <4>3
    <3> QED
      BY <1>0, <1>2, <2>1, <3>1 DEF CountInv
  <2>2. CASE build' \in {"die", "undefined"}
    BY <2>2 DEF CountInv
  <2>3. CASE /\ FileInv' /\ build' = build /\ walk' \in {"next", "end"} /\ st_fnum' = st_fnum + 1
             /\ \A k \in 1..st_fnum : BlockOf(fo', k) = BlockOf(fo, k)
             /\ st_flen' \in Nat /\ st_flen <= st_flen'
             /\ st_flen' < opts.filenmax =>
                  /\ walk' = "next" /\ BlockOf(fo', st_fnum + 1) = Read(entry.node)
                  /\ Kind[entry.node] = "reg" /\ entry.node \notin Archive
    <3>1. ASSUME NEW c \in Contents, st_flen' < opts.filenmax
          PROVE  walk' = "next" /\ Seen(c, fo', st_fnum') + Owed(c, walk', entry', dirs', list') = Ahead(c, Operands)
      <4>1. st_flen < opts.filenmax
        <5>1. st_flen \in Nat
          BY <1>1, FileNumbers
        <5>2. st_flen' \in Nat
          BY <2>3
        <5> QED
          BY <1>2, <2>3, <3>1, <5>1, <5>2
      <4>2. Seen(c, fo, st_fnum) + Owed(c, walk, entry, dirs, list) = Ahead(c, Operands)
        BY <1>0, <4>1 DEF BuildInv, CountInv
      <4>3. walk' = "next" /\ BlockOf(fo', st_fnum + 1) = Read(entry.node)
            /\ Kind[entry.node] = "reg" /\ entry.node \notin Archive
        BY <2>3, <3>1
      <4>4. Holds(entry.node, c) <=> BlockOf(fo', st_fnum + 1) = c
        BY <4>3 DEF Holds
      <4>5. PICK h : h = Here(c, walk, entry)
        OBVIOUS
      <4>6. h = (IF BlockOf(fo', st_fnum + 1) = c THEN 1 ELSE 0) /\ h \in Nat /\ Here(c, walk', entry') = 0
        BY <1>0, <4>3, <4>4, <4>5 DEF Here
      <4>7. st_fnum \in Nat
        BY <1>1, FileNumbers
      <4>8. Seen(c, fo, st_fnum) \in Nat /\ Seen(c, fo', st_fnum + 1) = h + Seen(c, fo, st_fnum)
        BY <2>3, <4>6, <4>7, SeenMore
      <4>9. PICK r : r = InOpen(c, dirs) + Ahead(c, list)
        OBVIOUS
      <4>10. Owed(c, walk, entry, dirs, list) = h + r /\ Owed(c, walk', entry', dirs', list') = 0 + r
        BY <1>3, <4>5, <4>6, <4>9 DEF Owed
      <4>11. r \in Int
        <5>1. list \in Seq(OperandSet)
          BY <1>1, <1>2, WhileBuilt, WordsIn DEF TrailInv
        <5>2. Ahead(c, list) \in Nat
          BY <5>1, AheadIsNumber
        <5>3. InOpen(c, dirs) \in Int
          BY <1>1, InOpenIsNumber DEF TrailInv, WalkInv, IsStack
        <5> QED
          BY <4>9, <5>2, <5>3
      <4>12. PICK s : s = Seen(c, fo, st_fnum)
        OBVIOUS
      <4>13. s \in Nat /\ s + (h + r) = Ahead(c, Operands) /\ Seen(c, fo', st_fnum') = h + s
        BY <2>3, <4>2, <4>8, <4>10, <4>12
      <4>14. (h + s) + (0 + r) = s + (h + r)
        BY <4>6, <4>11, <4>13
      <4> QED
        BY <4>3, <4>10, <4>13, <4>14
    <3> QED
      BY <1>0, <1>2, <2>3, <3>1 DEF CountInv
  <2> QED
    BY <1>3, <2>1, <2>2, <2>3
<1> QED
  BY <1>2, <1>4, <1>5, <1>6, <1>7 DEF BuildInv

\* and so do the end of the walk and the loop over file names.
LEMMA DoneBuildKept ==
  ASSUME OptInv, BuildInv, [Next]_vars, WalkDone \/ FilesDone \/ NextFile(opts.filenmax, opts.delim) PROVE BuildInv'
<1>0. build \in {"walk", "files"}
  BY DEF WalkDone, FilesDone, NextFile
<1>1. parsed /\ TrailInv /\ FileInv
  BY <1>0 DEF BuildInv, PhaseInv
<1>2. Operands' = Operands /\ Asked' = Asked /\ PhaseInv' /\ opts' = opts /\ opts.filenmax \in Nat
      /\ (Recursive' <=> Recursive)
  BY <1>0, <1>1, WhileBuilt
<1>3. CASE WalkDone
  <2>1. /\ build = "walk" /\ walk = "end" /\ walk' = "closed" /\ dirs' = <<>> /\ UNCHANGED <<list, prefix, entry>>
        /\ build' \in {"undefined", "built"} /\ UNCHANGED <<fo, st_fnum, st_flen, fno>>
    BY <1>3 DEF WalkDone, rdirclose, EndBuild
  <2>2. TrailInv'
    BY <1>1, <1>2, <2>1, TrailStays
  <2>3. FileInv' /\ fno' \in Seq(OperandSet)
    BY <1>2, <2>1 DEF BuildInv, FileInv
  <2>4. st_flen < opts.filenmax => \A c \in Contents : Seen(c, fo, st_fnum) = Ahead(c, Operands)
    BY <2>1 DEF BuildInv, CountInv
  <2>5. CountInv'
    BY <1>2, <2>1, <2>4 DEF CountInv
  <2> QED
    BY <1>2, <2>2, <2>3, <2>5 DEF BuildInv
<1>4. CASE FilesDone
  <2>1. build = "files" /\ UNCHANGED <<walkVars, fo, st_fnum, st_flen, fno>> /\ build' # "walk"
    BY <1>4 DEF FilesDone, EndBuild
  <2>2. TrailInv'
    BY <1>1, <1>2, <2>1, TrailStays DEF walkVars
  <2>3. FileInv' /\ fno' \in Seq(OperandSet)
    BY <1>2, <2>1 DEF BuildInv, FileInv
  <2>4. ~Recursive
    BY <2>1 DEF BuildInv, PhaseInv
  <2>5. CountInv'
    BY <1>2, <2>1, <2>4 DEF CountInv
  <2> QED
    BY <1>2, <2>2, <2>3, <2>5 DEF BuildInv
<1>5. CASE NextFile(opts.filenmax, opts.delim)
  <2>1. build = "files" /\ UNCHANGED walkVars
    BY <1>5 DEF NextFile
  <2>2. build' \in {"die", "undefined", "exit", build}
    BY <1>5 DEF NextFile, SplitFile, MergeFile
  <2>3. TrailInv'
    BY <1>1, <1>2, <2>1, TrailStays DEF walkVars
  <2>4. FileInv' /\ fno' \in Seq(OperandSet)
    BY <1>1, <1>2, <1>5, FileTaken DEF BuildInv
  <2>5. CountInv'
    BY <2>1, <2>2 DEF CountInv
  <2> QED
    BY <1>2, <2>3, <2>4, <2>5 DEF BuildInv
<1> QED
  BY <1>3, <1>4, <1>5

\* Every step keeps BuildInv.
LEMMA BuildKept == OptInv /\ WalkInv /\ BuildInv /\ [Next]_vars => BuildInv'
<1> SUFFICES ASSUME OptInv, WalkInv, BuildInv, [Next]_vars PROVE BuildInv'
  OBVIOUS
<1>1. CASE StartBuild
  BY <1>1, StartBuildKept
<1>2. CASE Build
  <2>1. BuildNext(opts.filenmax, opts.delim)
    BY <1>2 DEF Build
  <2> QED
    BY <2>1, WalkBuildKept, EntryBuildKept, DoneBuildKept DEF BuildNext
<1>3. CASE UNCHANGED buildVars
  BY <1>3, OtherBuildKept
<1> QED
  BY <1>1, <1>2, <1>3, OtherSteps

(* rdirnext and bebuild, for every tree, every command line and every limit:  *)
(* the entry that is returned is what its path names, the file can be read    *)
(* back block by block and keeps the limit, and with -r every file is in it   *)
(* as often as there are ways to it.                                          *)
THEOREM MergedFileIsRight == Spec => []MergedFile
<1>1. BuildInv => MergedFile
  <2> SUFFICES ASSUME BuildInv PROVE MergedFile
    OBVIOUS
  <2>1. EntryIsNamed
    <3> SUFFICES ASSUME walk = "entry"
                 PROVE  \E i \in DOMAIN Operands : NamesFrom(Operands[i], entry.path, entry.node)
      BY DEF EntryIsNamed, NamesFrom
    <3>1. build # "off"
      BY DEF BuildInv, PhaseInv
    <3>2. PICK op \in Asked : NamesFrom(op, entry.path, entry.node)
      BY <3>1 DEF BuildInv, TrailInv
    <3> QED
      BY <3>2 DEF Asked
  <2>2. Blocks
    BY DEF BuildInv, FileInv, InOrder, Blocks
  <2>3. Complete
    <3> SUFFICES ASSUME build = "built", Recursive, st_flen < opts.filenmax, NEW c \in Contents
                 PROVE  Seen(c, fo, st_fnum) = Ahead(c, Operands)
      BY DEF Complete, Recursive, Contents, Seen, Ahead, Ways
    <3> QED
      BY DEF BuildInv, CountInv
  <2> QED
    BY <2>1, <2>2, <2>3 DEF MergedFile
<1>2. Init => WalkInv
  BY EmptyStack DEF Init, BuildInit, WalkInit, WalkInv
<1> QED
  BY <1>1, <1>2, OptAlways, OptStart, OptKept, WalkKept, BuildStart, BuildKept, PTL DEF Spec
=============================================================================
