----------------------------- MODULE RankProofs -----------------------------
(***************************************************************************)
(* What is proved of the ranking, for any table and any choice of -K: the  *)
(* types, that all points are given away, that a dominated result is       *)
(* behind and that a rank says how many are better.                        *)
(***************************************************************************)
EXTENDS Rank, DataInduction

-----------------------------------------------------------------------------
(* The invariant.                                                          *)

TableInv == plug \in Tables /\ rankmode \in RankModes

\* The duels of x fought so far, won and lost.
Fought(x, y) == LET lo == IF x < y THEN x ELSE y
                    hi == IF x < y THEN y ELSE x
                IN  lo < a \/ (lo = a /\ hi < b)
Met(x) == {y \in Index \ {x} : Fought(x, y)}
Won(x, S) == {y \in S : Wins(x, y) > Wins(y, x)}
Lost(x, S) == {y \in S : Wins(y, x) > Wins(x, y)}

DuelInv ==
  /\ a \in 1..k /\ b \in (a + 1)..(k + 1) /\ (a < k => b <= k)
  /\ \A x \in Index : copeland[x] = Cardinality(Won(x, Met(x))) - Cardinality(Lost(x, Met(x)))
  /\ SumOf(copeland, Index) = 0
  /\ borda = [x \in Index |-> 0]

\* The scores final_cmp sees.
ScoreInv ==
  /\ copeland = [x \in Index |-> IF plug[x].id > P_MCPY THEN Top ELSE Score(x)]
  /\ borda = borda_scores

\* The results in the places before a have their ranks: r is that of the first of
\* a stretch of identical ones.
Place(n) == rank[order[n]]
PlaceInv ==
  \A n \in 1..(a - 1) :
    /\ Place(n) \in 1..n
    /\ \A m \in Place(n)..n : Identical(order[m], order[n]) /\ Place(m) = Place(n)
    /\ \A m \in 1..(Place(n) - 1) : Place(m) < Place(n)
    /\ Place(n) > 1 => ~Identical(order[Place(n)], order[Place(n) - 1])

RankInv ==
  /\ TypeOK /\ TableInv
  /\ pc = "duels" => DuelInv
  /\ pc # "duels" => ScoreInv
  /\ pc \in {"rank", "done"} => order \in Sorted /\ a \in 2..(k + 1) /\ PlaceInv
  /\ pc = "done" => a > k

-----------------------------------------------------------------------------
(* Tables and duels.                                                       *)

LEMMA ThreeCriteria == IsFiniteSet(Criteria) /\ IsFiniteSet(rankmode \cap Criteria)
<1>1. IsFiniteSet({"ratio"} \cup {"comp"}) /\ IsFiniteSet({"ratio"})
  BY FS_Singleton, FS_AddElement
<1>2. IsFiniteSet(({"ratio"} \cup {"comp"}) \cup {"decomp"})
  BY <1>1, FS_AddElement
<1>3. ({"ratio"} \cup {"comp"}) \cup {"decomp"} = Criteria
  BY DEF Criteria
<1>4. IsFiniteSet(Criteria)
  BY <1>2, <1>3
<1> QED
  BY <1>4, FS_Subset

LEMMA TableIs ==
  ASSUME TableInv
  PROVE  /\ k \in Nat \ {0} /\ k < Top /\ Top \in Nat /\ Index = 1..k
         /\ IsFiniteSet(Index) /\ Cardinality(Index) = k
         /\ \A x \in Index : plug[x].id \in Nat /\ \A c \in Criteria : plug[x].v[c] \in Nat
         /\ rankmode \subseteq Criteria /\ IsFiniteSet(rankmode)
<1>1. plug \in Seq([id : Nat, v : [Criteria -> Nat]]) /\ Len(plug) \in 1..(Top - 1) /\ Top \in Nat
  BY TableAssumption, ModeAssumption DEF TableInv
<1>2. Index = 1..Len(plug) /\ Len(plug) \in Nat
  BY <1>1 DEF Index
<1>3. IsFiniteSet(1..Len(plug)) /\ Cardinality(1..Len(plug)) = Len(plug)
  <2>1. Len(plug) \in Int /\ 1 \in Int /\ ~(1 > Len(plug))
    BY <1>1, <1>2
  <2> HIDE DEF k
  <2> QED
    BY <2>1, FS_Interval
<1>4. k = Len(plug)
  BY <1>2, <1>3 DEF k
<1>5. ASSUME NEW x \in Index PROVE plug[x].id \in Nat /\ \A c \in Criteria : plug[x].v[c] \in Nat
  <2>0. x \in 1..Len(plug)
    BY <1>2
  <2>1. plug[x] \in [id : Nat, v : [Criteria -> Nat]]
    BY <1>1, <2>0, Element
  <2> QED
    BY <2>1
<1>6. rankmode \subseteq Criteria /\ rankmode \cap Criteria = rankmode
  BY ModeAssumption DEF TableInv
<1>7. k \in Nat \ {0} /\ k < Top /\ Index = 1..k /\ IsFiniteSet(Index) /\ Cardinality(Index) = k
  BY <1>1, <1>2, <1>3, <1>4
<1>8. IsFiniteSet(rankmode)
  BY <1>6, ThreeCriteria
<1> QED
  BY <1>1, <1>5, <1>6, <1>7, <1>8

LEMMA WinsType == ASSUME TableInv, NEW x, NEW y PROVE Wins(x, y) \in Nat
<1>1. {c \in rankmode : plug[x].v[c] < plug[y].v[c]} \in SUBSET rankmode /\ IsFiniteSet(rankmode)
  BY TableIs
<1> HIDE DEF TableInv
<1> QED
  BY <1>1, FS_Subset, FS_CardinalityType DEF Wins

LEMMA WinnerTurns ==
  ASSUME TableInv, NEW x, NEW y
  PROVE  /\ pairwise_winner(x, y) \in {-1, 0, 1}
         /\ pairwise_winner(y, x) = -pairwise_winner(x, y)
         /\ pairwise_winner(x, y) = 1 <=> Wins(x, y) > Wins(y, x)
         /\ pairwise_winner(x, y) = -1 <=> Wins(y, x) > Wins(x, y)
BY WinsType DEF pairwise_winner

\* Counting sets of results.
LEMMA CountsUp ==
  ASSUME TableInv, NEW S \in SUBSET Index
  PROVE  /\ IsFiniteSet(S) /\ Cardinality(S) \in Nat /\ Cardinality(S) <= k
         /\ \A y \in Index \ S : Cardinality(S \cup {y}) = Cardinality(S) + 1
<1>1. IsFiniteSet(Index) /\ Cardinality(Index) = k
  BY TableIs
<1> QED
  BY <1>1, FS_Subset, FS_CardinalityType, FS_AddElement

Net(x, S) == Cardinality(Won(x, S)) - Cardinality(Lost(x, S))

LEMMA NetRange ==
  ASSUME TableInv, NEW x, NEW S \in SUBSET Index
  PROVE  Net(x, S) \in (-k)..k
<1>1. Won(x, S) \in SUBSET Index /\ Lost(x, S) \in SUBSET Index
  BY DEF Won, Lost
<1>2. k \in Nat
  BY TableIs
<1> QED
  BY <1>1, <1>2, CountsUp DEF Net

\* One duel more.
LEMMA NetStep ==
  ASSUME TableInv, NEW x, NEW S \in SUBSET Index, NEW y \in Index \ S
  PROVE  Net(x, S \cup {y}) = Net(x, S) + pairwise_winner(x, y)
<1> DEFINE w == pairwise_winner(x, y)
<1>1. Won(x, S) \in SUBSET Index /\ Lost(x, S) \in SUBSET Index /\ y \notin Won(x, S) /\ y \notin Lost(x, S)
  BY DEF Won, Lost
<1>2. /\ Cardinality(Won(x, S)) \in Nat /\ Cardinality(Lost(x, S)) \in Nat
      /\ Cardinality(Won(x, S) \cup {y}) = Cardinality(Won(x, S)) + 1
      /\ Cardinality(Lost(x, S) \cup {y}) = Cardinality(Lost(x, S)) + 1
  BY <1>1, CountsUp
<1>3. /\ w \in {-1, 0, 1}
      /\ w = 1 <=> Wins(x, y) > Wins(y, x)
      /\ w = -1 <=> Wins(y, x) > Wins(x, y)
  BY WinnerTurns
<1> HIDE DEF w
<1>4. Won(x, S \cup {y}) = IF w = 1 THEN Won(x, S) \cup {y} ELSE Won(x, S)
  BY <1>3 DEF Won
<1>5. Lost(x, S \cup {y}) = IF w = -1 THEN Lost(x, S) \cup {y} ELSE Lost(x, S)
  BY <1>3 DEF Lost
<1> QED
  BY <1>2, <1>3, <1>4, <1>5 DEF Net, w

LEMMA DuelNext == ASSUME TypeOK, TableInv, pc = "duels", DuelInv, Duel PROVE DuelInv'
<1> DEFINE w == pairwise_winner(a, b)
<1>0. k \in Nat \ {0} /\ Index = 1..k /\ IsFiniteSet(Index)
  BY TableIs
<1>1. a \in Index /\ b \in Index /\ a < b /\ a \in Nat /\ b \in Nat /\ a < k /\ b <= k
  BY <1>0 DEF Duel, DuelInv
<1>2. /\ plug' = plug /\ rankmode' = rankmode /\ borda' = borda /\ k' = k /\ Index' = Index
      /\ copeland' = [copeland EXCEPT ![a] = @ + w, ![b] = @ - w]
      /\ IF b < k THEN b' = b + 1 /\ a' = a ELSE a' = a + 1 /\ b' = a + 2
  BY DEF Duel, k, Index
<1>3. a' \in 1..k' /\ b' \in (a' + 1)..(k' + 1) /\ (a' < k' => b' <= k')
  BY <1>0, <1>1, <1>2
<1>4. w \in Int /\ w \in {-1, 0, 1} /\ pairwise_winner(b, a) = -w
  BY WinnerTurns
<1>5. \A x \in Index : Met(x) \in SUBSET Index
  BY DEF Met
<1>6. \A x \in Index : copeland[x] = Net(x, Met(x)) /\ copeland[x] \in Int
  <2>1. \A x \in Index : copeland[x] = Net(x, Met(x))
    BY DEF DuelInv, Net
  <2>2. \A x \in Index : Net(x, Met(x)) \in Int
    BY <1>0, <1>5, NetRange
  <2> QED
    BY <2>1, <2>2
<1>7. /\ copeland'[a] = copeland[a] + w /\ copeland'[b] = copeland[b] - w
      /\ \A x \in Index : x # a /\ x # b => copeland'[x] = copeland[x]
  BY <1>1, <1>2 DEF TypeOK
<1>8. ASSUME NEW x \in Index, NEW y \in Index, x # y
      PROVE  Fought(x, y)' <=> Fought(x, y) \/ (x = a /\ y = b) \/ (x = b /\ y = a)
  BY <1>0, <1>1, <1>2, <1>8 DEF Fought
<1>9. /\ b \notin Met(a) /\ a \notin Met(b)
      /\ \A x \in Index : Met(x)' = IF x = a THEN Met(x) \cup {b} ELSE IF x = b THEN Met(x) \cup {a} ELSE Met(x)
  <2>1. b \notin Met(a) /\ a \notin Met(b)
    BY <1>1 DEF Met, Fought
  <2>2. ASSUME NEW x \in Index
        PROVE  {y \in Index \ {x} : Fought(x, y)'}
                 = IF x = a THEN Met(x) \cup {b} ELSE IF x = b THEN Met(x) \cup {a} ELSE Met(x)
    <3> DEFINE now == {y \in Index \ {x} : Fought(x, y)'}
    <3>1. CASE x = a
      <4>1. \A y \in Index \ {x} : Fought(x, y)' <=> Fought(x, y) \/ y = b
        BY <1>1, <1>8, <3>1
      <4>2. now = Met(x) \cup {b}
        <5>1. b \in Index \ {x}
          BY <1>1, <3>1
        <5>2. \A y : y \in now <=> y \in Met(x) \cup {b}
          BY <4>1, <5>1 DEF Met
        <5> HIDE DEF now
        <5> QED
          BY <5>2
      <4> QED
        BY <3>1, <4>2
    <3>2. CASE x = b
      <4>1. \A y \in Index \ {x} : Fought(x, y)' <=> Fought(x, y) \/ y = a
        BY <1>1, <1>8, <3>2
      <4>2. now = Met(x) \cup {a}
        <5>1. a \in Index \ {x}
          BY <1>1, <3>2
        <5>2. \A y : y \in now <=> y \in Met(x) \cup {a}
          BY <4>1, <5>1 DEF Met
        <5> HIDE DEF now
        <5> QED
          BY <5>2
      <4> QED
        BY <1>1, <3>2, <4>2
    <3>3. CASE x # a /\ x # b
      BY <1>1, <1>8, <3>3 DEF Met
    <3> QED
      BY <1>1, <3>1, <3>2, <3>3
  <2>3. \A x \in Index : Met(x)' = {y \in Index \ {x} : Fought(x, y)'}
    BY <1>2 DEF Met
  <2> QED
    BY <2>1, <2>2, <2>3
<1>10. \A x, S : Net(x, S)' = Net(x, S)
  BY <1>2 DEF Net, Won, Lost, Wins
<1>11. ASSUME NEW x \in Index PROVE copeland'[x] = Net(x, Met(x)')
  <2>1. CASE x = a
    <3>1. Net(a, Met(a) \cup {b}) = Net(a, Met(a)) + w
      BY <1>1, <1>5, <1>9, NetStep
    <3> QED
      BY <1>1, <1>6, <1>7, <1>9, <2>1, <3>1
  <2>2. CASE x = b
    <3>1. Net(b, Met(b) \cup {a}) = Net(b, Met(b)) - w
      <4>1. Net(b, Met(b) \cup {a}) = Net(b, Met(b)) + pairwise_winner(b, a)
        BY <1>1, <1>5, <1>9, NetStep
      <4> HIDE DEF w
      <4> QED
        BY <1>1, <1>4, <1>6, <4>1
    <3> QED
      BY <1>1, <1>6, <1>7, <1>9, <2>2, <3>1
  <2>3. CASE x # a /\ x # b
    BY <1>6, <1>7, <1>9, <2>3
  <2> QED
    BY <2>1, <2>2, <2>3
<1>12. SumOf(copeland', Index) = 0
  <2> DEFINE f == [copeland EXCEPT ![a] = @ + w]
  <2> HIDE DEF w
  <2>1. /\ f[a] = copeland[a] + w /\ (\A x \in Index \ {a} : f[x] = copeland[x])
        /\ \A x \in Index : f[x] \in Int
    BY <1>1, <1>4, <1>6 DEF TypeOK
  <2>2. /\ copeland'[b] = f[b] + (-w) /\ \A x \in Index \ {b} : copeland'[x] = f[x]
    BY <1>1, <1>4, <1>6, <1>7, <2>1
  <2> HIDE DEF f
  <2>a. /\ IsFiniteSet(Index) /\ a \in Index /\ b \in Index /\ w \in Int /\ -w \in Int
        /\ \A x \in Index : copeland[x] \in Int
    BY <1>0, <1>1, <1>4, <1>6
  <2>3. SumOf(f, Index) = SumOf(copeland, Index) + w
    BY <2>a, <2>1, SumChanges
  <2>b. \A x \in Index : f[x] \in Int
    BY <2>1
  <2>4. SumOf(copeland', Index) = SumOf(f, Index) + (-w)
    BY <2>a, <2>b, <2>2, SumChanges
  <2>5. SumOf(copeland, Index) = 0
    BY DEF DuelInv
  <2> QED
    BY <1>4, <2>3, <2>4, <2>5
<1>13. SumOf(copeland, Index)' = 0
  BY <1>2, <1>12
<1>14. \A x \in Index' : copeland'[x] = Cardinality(Won(x, Met(x)))' - Cardinality(Lost(x, Met(x)))'
  <2>1. \A x \in Index : copeland'[x] = Net(x, Met(x))'
    BY <1>10, <1>11
  <2> QED
    BY <1>2, <2>1 DEF Net
<1>15. borda' = [x \in Index' |-> 0]
  BY <1>2 DEF DuelInv
<1> QED
  BY <1>3, <1>13, <1>14, <1>15 DEF DuelInv

-----------------------------------------------------------------------------
(* Points.                                                                 *)

LEMMA ApartCount ==
  ASSUME TableInv, NEW S \in SUBSET Index, NEW T \in SUBSET Index, S \cap T = {}
  PROVE  Cardinality(S \cup T) = Cardinality(S) + Cardinality(T)
<1>1. IsFiniteSet(S) /\ IsFiniteSet(T) /\ Cardinality(S) \in Nat /\ Cardinality(T) \in Nat
  BY CountsUp
<1>2. Cardinality(S \cap T) = 0
  BY FS_EmptySet
<1>3. Cardinality(S \cup T) = Cardinality(S) + Cardinality(T) - Cardinality(S \cap T)
  BY <1>1, FS_Union
<1> QED
  BY <1>1, <1>2, <1>3

\* The points x does not get for criterion c against the results S.
Under(x, c, S) == {y \in S \ {x} : plug[y].v[c] < plug[x].v[c]}
NotOver(x, c, S) == {y \in S \ {x} : plug[y].v[c] <= plug[x].v[c]}
Missed(x, c, S) == Cardinality(Under(x, c, S)) + Cardinality(NotOver(x, c, S))

LEMMA PointsAre ==
  ASSUME TableInv, NEW x \in Index, NEW c \in Criteria
  PROVE  /\ PointsOf(x)[c] = Points(x, c) /\ Points(x, c) \in Nat
         /\ Points(x, c) = 2 * (k - 1) - Missed(x, c, Index) /\ Missed(x, c, Index) \in Nat
<1> DEFINE S == Ahead(x, c)
           T == Level(x, c)
<1>1. S \in SUBSET Index /\ T \in SUBSET Index /\ S \cap T = {} /\ x \notin S \cup T
  <2>1. \A y \in Index : plug[y].v[c] \in Nat
    BY TableIs
  <2> QED
    BY <2>1 DEF Ahead, Level
<1>2. Under(x, c, Index) = S /\ NotOver(x, c, Index) = S \cup T
  <2>1. \A y \in Index : plug[y].v[c] \in Nat
    BY TableIs
  <2> QED
    BY <2>1 DEF Under, NotOver, Ahead, Level
<1>3. /\ Cardinality(S) \in Nat /\ Cardinality(T) \in Nat
      /\ Cardinality(S \cup T) = Cardinality(S) + Cardinality(T)
      /\ Cardinality((S \cup T) \cup {x}) = Cardinality(S \cup T) + 1
      /\ Cardinality((S \cup T) \cup {x}) <= k
  <2> HIDE DEF S, T
  <2>1. (S \cup T) \cup {x} \in SUBSET Index /\ S \cup T \in SUBSET Index
    BY <1>1
  <2> QED
    BY <1>1, <2>1, ApartCount, CountsUp
<1>4. k \in Nat
  BY TableIs
<1>5. Points(x, c) = 2 * (k - 1 - Cardinality(S)) - Cardinality(T)
  BY DEF Points
<1>6. Missed(x, c, Index) = Cardinality(S) + Cardinality(S \cup T)
  BY <1>2 DEF Missed
<1> HIDE DEF S, T
<1>7. PointsOf(x)[c] = Points(x, c)
  BY DEF PointsOf
<1> QED
  BY <1>3, <1>4, <1>5, <1>6, <1>7

LEMMA BordaIs ==
  ASSUME TableInv, NEW x \in Index
  PROVE  borda_scores[x] = SumOf(PointsOf(x), rankmode) /\ borda_scores[x] \in Nat
<1>1. borda_scores[x] = SumOf(PointsOf(x), rankmode)
  BY DEF borda_scores, SumOf
<1>2. IsFiniteSet(rankmode) /\ \A c \in rankmode : PointsOf(x)[c] \in Nat
  BY TableIs, PointsAre
<1> QED
  BY <1>1, <1>2, SumOfNaturals

LEMMA BordaForm == borda_scores = [x \in Index |-> SumOf(PointsOf(x), rankmode)]
BY DEF borda_scores, SumOf

LEMMA Squares ==
  ASSUME NEW n \in Nat, NEW m \in Nat
  PROVE  /\ n * (n - 1) + 2 * n = (n + 1) * ((n + 1) - 1)
         /\ (m + 1) * n * (n - 1) = m * n * (n - 1) + n * (n - 1)
         /\ (2 * (n - 1)) * n = n * (n - 1) + n * (n - 1)
OBVIOUS

\* Among any of the results, every two of them share two points.
LEMMA MissedAdd ==
  ASSUME TableInv, NEW c \in Criteria, NEW S \in SUBSET Index, NEW z \in Index \ S
  PROVE  SumOf([x \in Index |-> Missed(x, c, S \cup {z})], S \cup {z})
           = SumOf([x \in Index |-> Missed(x, c, S)], S) + 2 * Cardinality(S)
<1> DEFINE v(x) == plug[x].v[c]
           U == S \cup {z}
           A == {x \in S : v(z) < v(x)}
           B == {x \in S : v(z) <= v(x)}
           f == [x \in Index |-> Missed(x, c, S)]
           g == [x \in Index |-> IF v(z) < v(x) THEN 1 ELSE 0]
           h == [x \in Index |-> IF v(z) <= v(x) THEN 1 ELSE 0]
           gh == [x \in Index |-> g[x] + h[x]]
           u == [x \in Index |-> Missed(x, c, U)]
<1>0. \A x \in Index : v(x) \in Nat
  BY TableIs
<1>1. IsFiniteSet(S) /\ Cardinality(S) \in Nat /\ z \notin S
  BY CountsUp
<1>2. SumOf(g, S) = Cardinality(A) /\ SumOf(h, S) = Cardinality(B)
  <2>1. A \in SUBSET S /\ (\A x \in A : g[x] = 1) /\ \A x \in S \ A : g[x] = 0
    OBVIOUS
  <2>2. B \in SUBSET S /\ (\A x \in B : h[x] = 1) /\ \A x \in S \ B : h[x] = 0
    OBVIOUS
  <2> HIDE DEF A, B, g, h
  <2> QED
    BY <1>1, <2>1, <2>2, SumCounts
<1>3. SumOf(gh, S) = SumOf(g, S) + SumOf(h, S)
  <2>1. \A x \in S : g[x] \in Int /\ h[x] \in Int /\ gh[x] = g[x] + h[x]
    OBVIOUS
  <2> HIDE DEF g, h, gh
  <2> QED
    BY <1>1, <2>1, SumOfSums
<1>4. ASSUME NEW x \in S PROVE u[x] = f[x] + gh[x] /\ f[x] \in Int /\ gh[x] \in Int
  <2>1. /\ Under(x, c, S) \in SUBSET Index /\ NotOver(x, c, S) \in SUBSET Index
        /\ z \notin Under(x, c, S) /\ z \notin NotOver(x, c, S)
    BY DEF Under, NotOver
  <2>2. Under(x, c, U) = IF v(z) < v(x) THEN Under(x, c, S) \cup {z} ELSE Under(x, c, S)
    BY <1>1 DEF Under
  <2>3. NotOver(x, c, U) = IF v(z) <= v(x) THEN NotOver(x, c, S) \cup {z} ELSE NotOver(x, c, S)
    BY <1>1 DEF NotOver
  <2>4. /\ Cardinality(Under(x, c, S)) \in Nat /\ Cardinality(NotOver(x, c, S)) \in Nat
        /\ Cardinality(Under(x, c, S) \cup {z}) = Cardinality(Under(x, c, S)) + 1
        /\ Cardinality(NotOver(x, c, S) \cup {z}) = Cardinality(NotOver(x, c, S)) + 1
    BY <2>1, CountsUp
  <2>5. u[x] = Missed(x, c, U) /\ f[x] = Missed(x, c, S)
        /\ gh[x] = (IF v(z) < v(x) THEN 1 ELSE 0) + (IF v(z) <= v(x) THEN 1 ELSE 0)
    OBVIOUS
  <2> HIDE DEF u, f, gh, v, U
  <2> QED
    BY <2>2, <2>3, <2>4, <2>5 DEF Missed
<1>5. SumOf(u, S) = SumOf(f, S) + SumOf(gh, S)
  <2> HIDE DEF u, f, gh
  <2> QED
    BY <1>1, <1>4, SumOfSums
<1>6. SumOf(f, S) \in Int
  <2> HIDE DEF f
  <2> QED
    BY <1>1, <1>4, SumTakesOut
<1>7. SumOf(u, U) = u[z] + SumOf(u, S)
  <2>1. u[z] \in Int /\ \A x \in S : u[x] \in Int
    <3>1. \A x \in U : Under(x, c, U) \in SUBSET Index /\ NotOver(x, c, U) \in SUBSET Index
      BY DEF Under, NotOver
    <3>2. \A x \in U : Cardinality(Under(x, c, U)) \in Nat /\ Cardinality(NotOver(x, c, U)) \in Nat
      BY <3>1, CountsUp
    <3> QED
      BY <3>2 DEF Missed
  <2> HIDE DEF u
  <2> QED
    BY <1>1, <2>1, SumTakesIn
<1>8. u[z] + Cardinality(A) + Cardinality(B) = 2 * Cardinality(S)
  <2> DEFINE C == {x \in S : v(x) < v(z)}
             D == {x \in S : v(x) <= v(z)}
  <2>1. Under(z, c, U) = C /\ NotOver(z, c, U) = D
    BY <1>1 DEF Under, NotOver
  <2>2. u[z] = Cardinality(C) + Cardinality(D)
    BY <2>1 DEF Missed
  <2>3. /\ A \in SUBSET Index /\ B \in SUBSET Index /\ C \in SUBSET Index /\ D \in SUBSET Index
        /\ A \cap D = {} /\ A \cup D = S /\ B \cap C = {} /\ B \cup C = S
    BY <1>0
  <2> HIDE DEF A, B, C, D
  <2>4. Cardinality(S) = Cardinality(A) + Cardinality(D) /\ Cardinality(S) = Cardinality(B) + Cardinality(C)
    BY <2>3, ApartCount
  <2>5. Cardinality(A) \in Nat /\ Cardinality(B) \in Nat /\ Cardinality(C) \in Nat /\ Cardinality(D) \in Nat
    BY <2>3, CountsUp
  <2> HIDE DEF u
  <2> QED
    BY <2>2, <2>4, <2>5
<1>9. Cardinality(A) \in Nat /\ Cardinality(B) \in Nat /\ u[z] \in Nat
  <2>1. A \in SUBSET Index /\ B \in SUBSET Index
    OBVIOUS
  <2>2. Under(z, c, U) \in SUBSET Index /\ NotOver(z, c, U) \in SUBSET Index
    BY DEF Under, NotOver
  <2>3. Cardinality(Under(z, c, U)) \in Nat /\ Cardinality(NotOver(z, c, U)) \in Nat
    BY <2>2, CountsUp
  <2> HIDE DEF A, B
  <2> QED
    BY <2>1, <2>3, CountsUp DEF Missed
<1> HIDE DEF u, f, gh, g, h, A, B
<1>10. SumOf(u, U) = SumOf(f, S) + 2 * Cardinality(S)
  BY <1>1, <1>2, <1>3, <1>5, <1>6, <1>7, <1>8, <1>9
<1> QED
  BY <1>10 DEF u, f

LEMMA MissedAll ==
  ASSUME TableInv, NEW c \in Criteria
  PROVE  SumOf([x \in Index |-> Missed(x, c, Index)], Index) = k * (k - 1)
<1> DEFINE of(S) == [x \in Index |-> Missed(x, c, S)]
           P == {S \in SUBSET Index : SumOf(of(S), S) = Cardinality(S) * (Cardinality(S) - 1)}
<1>1. {} \in P
  <2>1. SumOf(of({}), {}) = 0 /\ Cardinality({}) = 0
    BY SumOfNone, FS_EmptySet
  <2> QED
    BY <2>1
<1>2. ASSUME NEW S \in SUBSET Index, NEW z \in Index \ S, S \in P PROVE S \cup {z} \in P
  <2>1. Cardinality(S) \in Nat /\ Cardinality(S \cup {z}) = Cardinality(S) + 1
    BY CountsUp
  <2>2. SumOf(of(S \cup {z}), S \cup {z}) = SumOf(of(S), S) + 2 * Cardinality(S)
    BY MissedAdd
  <2>3. SumOf(of(S), S) = Cardinality(S) * (Cardinality(S) - 1)
    BY <1>2
  <2>4. SumOf(of(S \cup {z}), S \cup {z}) = Cardinality(S \cup {z}) * (Cardinality(S \cup {z}) - 1)
    <3> HIDE DEF of
    <3> QED
      BY <2>1, <2>2, <2>3, Squares
  <2> QED
    BY <2>4
<1>3. Index \in P
  <2>1. IsFiniteSet(Index)
    BY TableIs
  <2> HIDE DEF P
  <2> QED
    BY <1>1, <1>2, <2>1, SetInduction
<1>4. Cardinality(Index) = k
  BY TableIs
<1> QED
  BY <1>3, <1>4

\* All points of a criterion are given away.
LEMMA PointsAll ==
  ASSUME TableInv, NEW c \in Criteria
  PROVE  SumOf([x \in Index |-> Points(x, c)], Index) = k * (k - 1)
<1> DEFINE p == [x \in Index |-> Points(x, c)]
           m == [x \in Index |-> Missed(x, c, Index)]
           all == [x \in Index |-> 2 * (k - 1)]
<1>0. k \in Nat /\ IsFiniteSet(Index) /\ Cardinality(Index) = k
  BY TableIs
<1>1. \A x \in Index : p[x] \in Int /\ m[x] \in Int /\ all[x] = p[x] + m[x] /\ all[x] = 2 * (k - 1)
  BY <1>0, PointsAre
<1>2. SumOf(m, Index) = k * (k - 1)
  BY MissedAll
<1> HIDE DEF p, m, all
<1>3. SumOf(all, Index) = SumOf(p, Index) + SumOf(m, Index)
  BY <1>0, <1>1, SumOfSums
<1>4. SumOf(all, Index) = (2 * (k - 1)) * k
  <2>1. 2 * (k - 1) \in Int
    BY <1>0
  <2>2. SumOf(all, Index) = (2 * (k - 1)) * Cardinality(Index)
    BY <1>0, <1>1, <2>1, SumOfConstant
  <2> QED
    BY <1>0, <2>2
<1>5. SumOf(p, Index) \in Int
  BY <1>0, <1>1, SumTakesOut
<1>6. (2 * (k - 1)) * k = k * (k - 1) + k * (k - 1) /\ k * (k - 1) \in Int
  BY <1>0, Squares
<1>7. SumOf(p, Index) = k * (k - 1)
  BY <1>2, <1>3, <1>4, <1>5, <1>6
<1> QED
  BY <1>7 DEF p

LEMMA BordaAll ==
  ASSUME TableInv
  PROVE  SumOf(borda_scores, Index) = Cardinality(rankmode) * k * (k - 1)
<1> DEFINE of(C) == [x \in Index |-> SumOf(PointsOf(x), C)]
           P == {C \in SUBSET rankmode : SumOf(of(C), Index) = Cardinality(C) * k * (k - 1)}
<1>0. k \in Nat /\ IsFiniteSet(Index) /\ IsFiniteSet(rankmode) /\ rankmode \subseteq Criteria
  BY TableIs
<1>1. {} \in P
  <2>1. \A x \in Index : of({})[x] = 0
    BY SumOfNone
  <2>2. SumOf(of({}), Index) = 0 * Cardinality(Index)
    <3> HIDE DEF of
    <3> QED
      BY <1>0, <2>1, SumOfConstant
  <2>3. Cardinality({}) = 0 /\ Cardinality(Index) \in Nat
    BY <1>0, FS_EmptySet, FS_CardinalityType
  <2>4. SumOf(of({}), Index) = Cardinality({}) * k * (k - 1)
    <3> HIDE DEF of
    <3> QED
      BY <1>0, <2>2, <2>3
  <2> QED
    BY <2>4
<1>2. ASSUME NEW C \in SUBSET rankmode, NEW d \in rankmode \ C, C \in P PROVE C \cup {d} \in P
  <2> DEFINE f == of(C)
             g == [x \in Index |-> Points(x, d)]
             h == of(C \cup {d})
  <2>1. IsFiniteSet(C) /\ Cardinality(C) \in Nat /\ Cardinality(C \cup {d}) = Cardinality(C) + 1
        /\ d \in Criteria
    BY <1>0, FS_Subset, FS_CardinalityType, FS_AddElement
  <2>2. ASSUME NEW x \in Index PROVE h[x] = f[x] + g[x] /\ f[x] \in Int /\ g[x] \in Int
    <3>1. (\A c \in C : PointsOf(x)[c] \in Int) /\ PointsOf(x)[d] = Points(x, d) /\ Points(x, d) \in Int
      BY <1>0, PointsAre
    <3>2. SumOf(PointsOf(x), C \cup {d}) = PointsOf(x)[d] + SumOf(PointsOf(x), C)
      BY <2>1, <3>1, SumTakesIn
    <3>3. SumOf(PointsOf(x), C) \in Int
      BY <2>1, <3>1, SumTakesOut
    <3> QED
      BY <3>1, <3>2, <3>3
  <2>3. SumOf(g, Index) = k * (k - 1)
    BY <2>1, PointsAll
  <2>4. SumOf(f, Index) = Cardinality(C) * k * (k - 1)
    BY <1>2
  <2> HIDE DEF f, g, h
  <2>5. SumOf(h, Index) = SumOf(f, Index) + SumOf(g, Index)
    BY <1>0, <2>2, SumOfSums
  <2>6. SumOf(h, Index) = Cardinality(C \cup {d}) * k * (k - 1)
    BY <1>0, <2>1, <2>3, <2>4, <2>5, Squares
  <2> QED
    BY <2>6 DEF h
<1>3. rankmode \in P
  <2> HIDE DEF P
  <2> QED
    BY <1>0, <1>1, <1>2, SetInduction
<1>4. borda_scores = of(rankmode)
  <2>1. borda_scores = [x \in Index |-> borda_scores[x]]
    BY DEF borda_scores
  <2> QED
    BY <2>1, BordaIs
<1> QED
  BY <1>3, <1>4

-----------------------------------------------------------------------------
(* The invariant holds.                                                    *)

LEMMA ScoreIs == ASSUME TableInv, NEW x \in Index PROVE Score(x) = Net(x, Index) /\ Score(x) \in (-k)..k
<1>1. Score(x) = Net(x, Index)
  BY DEF Score, Net, Won, Lost
<1> QED
  BY <1>1, NetRange

\* A result does not win against itself.
LEMMA NetAlone == ASSUME TableInv, NEW x \in Index PROVE Net(x, Index \ {x}) = Net(x, Index)
<1>1. Wins(x, x) \in Nat
  BY WinsType
<1>2. Won(x, Index \ {x}) = Won(x, Index) /\ Lost(x, Index \ {x}) = Lost(x, Index)
  BY <1>1 DEF Won, Lost
<1> QED
  BY <1>2 DEF Net

\* With all duels fought the scores are wins less losses and add up to nothing.
LEMMA DuelsOver ==
  ASSUME TableInv, DuelInv, a >= k
  PROVE  SumOf(copeland, Index) = 0 /\ \A x \in Index : copeland[x] = Score(x)
<1>0. k \in Nat \ {0} /\ Index = 1..k /\ a = k
  BY TableIs DEF DuelInv
<1>1. ASSUME NEW x \in Index PROVE Met(x) = Index \ {x}
  <2>1. \A y \in Index \ {x} : Fought(x, y)
    BY <1>0 DEF Fought
  <2> QED
    BY <2>1 DEF Met
<1>2. \A x \in Index : copeland[x] = Net(x, Index \ {x})
  BY <1>1 DEF DuelInv, Net
<1> QED
  BY <1>2, NetAlone, ScoreIs DEF DuelInv

LEMMA RankInit == Init => RankInv
<1> SUFFICES ASSUME Init PROVE RankInv
  OBVIOUS
<1>1. TableInv
  BY DEF Init, TableInv
<1>2. /\ k \in Nat \ {0} /\ Index = 1..k /\ IsFiniteSet(Index)
      /\ rankmode \subseteq Criteria /\ Cardinality(Index) = k
  BY <1>1, TableIs
<1>3. \A x \in Index : plug[x].id \in Nat /\ plug[x].v \in [Criteria -> Nat]
  <2>1. plug \in Seq([id : Nat, v : [Criteria -> Nat]])
    BY <1>1, TableAssumption DEF TableInv
  <2>2. Index = 1..Len(plug)
    BY <2>1 DEF Index
  <2>3. \A x \in Index : plug[x] \in [id : Nat, v : [Criteria -> Nat]]
    BY <2>1, <2>2, Element
  <2> QED
    BY <2>3
<1>4. /\ pc = "duels" /\ a = 1 /\ b = 2
      /\ copeland = [x \in Index |-> 0] /\ borda = [x \in Index |-> 0]
      /\ order = [x \in Index |-> x] /\ rank = [x \in Index |-> 0]
  BY DEF Init
<1>5. TypeOK
  <2>1. copeland \in [Index -> ((-k)..k) \cup {Top}] /\ borda \in [Index -> Nat]
        /\ order \in [Index -> Index] /\ rank \in [Index -> 0..k]
    BY <1>2, <1>4
  <2> QED
    BY <1>2, <1>3, <1>4, <2>1 DEF TypeOK
<1>6. \A x \in Index : Met(x) = {}
  BY <1>2, <1>4 DEF Met, Fought
<1>7. \A x \in Index : Net(x, Met(x)) = 0
  <2>1. Won(1, {}) = {} /\ \A x : Won(x, {}) = {} /\ Lost(x, {}) = {}
    BY DEF Won, Lost
  <2>2. \A x \in Index : Cardinality(Won(x, Met(x))) = 0 /\ Cardinality(Lost(x, Met(x))) = 0
    BY <1>6, <2>1, FS_EmptySet
  <2> QED
    BY <2>2 DEF Net
<1>8. SumOf(copeland, Index) = 0
  <2>1. \A x \in Index : copeland[x] = 0
    BY <1>4
  <2>2. SumOf(copeland, Index) = 0 * Cardinality(Index)
    BY <1>2, <2>1, SumOfConstant
  <2> QED
    BY <1>2, <2>2
<1>9. DuelInv
  <2>1. \A x \in Index : copeland[x] = Cardinality(Won(x, Met(x))) - Cardinality(Lost(x, Met(x)))
    BY <1>4, <1>7 DEF Net
  <2>2. a \in 1..k /\ b \in (a + 1)..(k + 1) /\ (a < k => b <= k)
    BY <1>2, <1>4
  <2> QED
    BY <1>4, <1>8, <2>1, <2>2 DEF DuelInv
<1> QED
  BY <1>1, <1>4, <1>5, <1>9 DEF RankInv

\* The table stays as it is, and all that is defined by it.
LEMMA TableSame ==
  ASSUME TypeOK, plug' = plug, rankmode' = rankmode, pc' \in {"duels", "sort", "rank", "done"},
         a' \in 1..(k + 1), b' \in 2..(k + 2), copeland' \in [Index -> ((-k)..k) \cup {Top}],
         borda' \in [Index -> Nat], order' \in [Index -> Index], rank' \in [Index -> 0..k]
  PROVE  TypeOK'
<1>1. Index' = Index /\ k' = k
  BY DEF Index, k
<1>2. copeland' \in [Index -> (-k)..k \cup {Top}]
  OBVIOUS
<1> QED
  BY <1>1, <1>2 DEF TypeOK

LEMMA PairIn ==
  ASSUME NEW n \in Nat, NEW i \in 1..n, NEW j \in (i + 1)..(n + 1)
  PROVE  i \in 1..(n + 1) /\ j \in 2..(n + 2)
OBVIOUS

LEMMA RankDuel == ASSUME RankInv, Duel PROVE RankInv'
<1>0. TypeOK /\ TableInv /\ DuelInv /\ pc = "duels" /\ TableInv'
  BY DEF RankInv, Duel, TableInv
<1>1. DuelInv'
  BY <1>0, DuelNext
<1>2. /\ plug' = plug /\ rankmode' = rankmode /\ pc' = pc /\ borda' = borda /\ order' = order
      /\ rank' = rank /\ Index' = Index /\ k' = k
  BY DEF Duel, Index, k
<1>3. \A x \in Index : copeland'[x] \in (-k)..k
  <2>1. \A x \in Index : copeland'[x] = Net(x, Met(x))'
    BY <1>1, <1>2 DEF DuelInv, Net
  <2>2. \A x, S : Net(x, S)' = Net(x, S)
    BY <1>2 DEF Net, Won, Lost, Wins
  <2>3. \A x \in Index : Met(x)' \in SUBSET Index
    BY <1>2 DEF Met
  <2> QED
    BY <1>0, <2>1, <2>2, <2>3, NetRange
<1>4. copeland' \in [Index -> ((-k)..k) \cup {Top}]
  <2>1. DOMAIN copeland' = Index /\ copeland' = [x \in DOMAIN copeland' |-> copeland'[x]]
    BY <1>0 DEF TypeOK, Duel
  <2> QED
    BY <1>3, <2>1
<1>5. a' \in 1..(k + 1) /\ b' \in 2..(k + 2)
  <2>1. k \in Nat
    BY <1>0, TableIs
  <2>2. a' \in 1..k /\ b' \in (a' + 1)..(k + 1)
    BY <1>1, <1>2 DEF DuelInv
  <2> QED
    BY <2>1, <2>2, PairIn
<1>6. TypeOK'
  BY <1>0, <1>2, <1>4, <1>5, TableSame DEF TypeOK
<1> QED
  BY <1>0, <1>1, <1>2, <1>6 DEF RankInv

LEMMA RankBorda == ASSUME RankInv, Borda PROVE RankInv'
<1>0. TypeOK /\ TableInv /\ DuelInv /\ pc = "duels" /\ TableInv' /\ a >= k
  BY DEF RankInv, Borda, TableInv
<1>1. /\ plug' = plug /\ rankmode' = rankmode /\ pc' = "sort" /\ order' = order /\ a' = a /\ b' = b
      /\ rank' = rank /\ Index' = Index /\ k' = k
      /\ copeland' = [x \in Index |-> IF plug[x].id > P_MCPY THEN Top ELSE copeland[x]]
      /\ borda' = borda_scores
  BY DEF Borda, Index, k
<1>2. copeland' = [x \in Index |-> IF plug[x].id > P_MCPY THEN Top ELSE Score(x)]
  BY <1>0, <1>1, DuelsOver
<1>3. ScoreInv'
  <2>1. \A x : Score(x)' = Score(x)
    BY <1>1 DEF Score, Wins
  <2>2. borda_scores' = borda_scores
    <3>1. borda_scores = [x \in Index |-> SumOf(PointsOf(x), rankmode)]
      BY BordaForm
    <3>2. (borda_scores = [x \in Index |-> SumOf(PointsOf(x), rankmode)])'
      BY BordaForm, PTL
    <3>3. \A x : PointsOf(x)' = PointsOf(x)
      BY <1>1 DEF PointsOf, Points, Ahead, Level
    <3> QED
      BY <1>1, <3>1, <3>2, <3>3
  <2> QED
    BY <1>1, <1>2, <2>1, <2>2 DEF ScoreInv
<1>4. copeland' \in [Index -> ((-k)..k) \cup {Top}]
  BY <1>0, <1>2, ScoreIs
<1>5. borda' \in [Index -> Nat]
  <2>1. borda_scores = [x \in Index |-> borda_scores[x]]
    BY DEF borda_scores
  <2> QED
    BY <1>0, <1>1, <2>1, BordaIs
<1>6. TypeOK'
  BY <1>0, <1>1, <1>4, <1>5, TableSame DEF TypeOK
<1> QED
  BY <1>0, <1>1, <1>3, <1>6 DEF RankInv

LEMMA SameTable ==
  ASSUME plug' = plug, rankmode' = rankmode, copeland' = copeland, borda' = borda
  PROVE  /\ Index' = Index /\ k' = k /\ Sorted' = Sorted
         /\ \A x, y : Identical(x, y)' <=> Identical(x, y)
         /\ ScoreInv => ScoreInv'
<1>1. Index' = Index /\ k' = k
  BY DEF Index, k
<1>2. \A x, y : Identical(x, y)' <=> Identical(x, y)
  BY DEF Identical
<1>3. \A x, y : final_cmp(x, y)' <=> final_cmp(x, y)
  BY DEF final_cmp, SmallerIn, Smaller, SameIn
<1>4. Sorted' = Sorted
  BY <1>1, <1>3 DEF Sorted
<1>5. ASSUME ScoreInv PROVE ScoreInv'
  <2>1. \A x : Score(x)' = Score(x)
    BY <1>1 DEF Score, Wins
  <2>2. \A x : PointsOf(x)' = PointsOf(x)
    BY <1>1 DEF PointsOf, Points, Ahead, Level
  <2>3. borda_scores = [x \in Index |-> SumOf(PointsOf(x), rankmode)]
    BY BordaForm
  <2>4. (borda_scores = [x \in Index |-> SumOf(PointsOf(x), rankmode)])'
    BY BordaForm, PTL
  <2>5. borda_scores' = borda_scores
    BY <1>1, <2>2, <2>3, <2>4
  <2> QED
    BY <1>1, <1>5, <2>1, <2>5 DEF ScoreInv
<1> QED
  BY <1>1, <1>2, <1>4, <1>5

LEMMA RankSort == ASSUME RankInv, Sort PROVE RankInv'
<1>0. TypeOK /\ TableInv /\ ScoreInv /\ TableInv'
  BY DEF RankInv, Sort, TableInv
<1>1. /\ plug' = plug /\ rankmode' = rankmode /\ copeland' = copeland /\ borda' = borda /\ b' = b
      /\ pc' = "rank" /\ a' = 2 /\ order' \in Sorted /\ rank' = [rank EXCEPT ![order'[1]] = 1]
  BY DEF Sort
<1>2. Index' = Index /\ k' = k /\ Sorted' = Sorted /\ ScoreInv'
  BY <1>0, <1>1, SameTable
<1>3. k \in Nat \ {0} /\ Index = 1..k
  BY <1>0, TableIs
<1>4. order' \in [Index -> Index] /\ order'[1] \in Index /\ rank \in [Index -> 0..k]
  <2>1. 1 \in Index /\ order' \in [Index -> Index]
    BY <1>1, <1>3 DEF Sorted
  <2> QED
    BY <1>0, <2>1 DEF TypeOK
<1>5. rank' \in [Index -> 0..k] /\ rank'[order'[1]] = 1
  BY <1>1, <1>3, <1>4
<1>6. TypeOK'
  <2>1. a' \in 1..(k + 1)
    BY <1>1, <1>3
  <2> QED
    BY <1>0, <1>1, <1>4, <1>5, <2>1, TableSame DEF TypeOK
<1>7. PlaceInv'
  <2>1. \A n \in 1..(a' - 1) : n = 1
    BY <1>1
  <2>2. Place(1)' = 1
    BY <1>5 DEF Place
  <2>3. \A x : Identical(x, x)'
    BY DEF Identical
  <2> HIDE DEF Place
  <2> QED
    BY <2>1, <2>2, <2>3 DEF PlaceInv
<1>8. a' \in 2..(k' + 1)
  BY <1>1, <1>2, <1>3
<1> QED
  BY <1>0, <1>1, <1>2, <1>6, <1>7, <1>8 DEF RankInv

LEMMA RankStep == ASSUME RankInv, RankNext PROVE RankInv'
<1> DEFINE prev == order[a - 1]
           cur == order[a]
<1>0. TypeOK /\ TableInv /\ ScoreInv /\ TableInv' /\ PlaceInv /\ order \in Sorted /\ a \in 2..(k + 1)
  BY DEF RankInv, RankNext, TableInv
<1>1. /\ plug' = plug /\ rankmode' = rankmode /\ copeland' = copeland /\ borda' = borda /\ b' = b
      /\ pc' = "rank" /\ a' = a + 1 /\ order' = order /\ a <= k
      /\ rank' = [rank EXCEPT ![cur] = IF Identical(cur, prev) THEN rank[prev] ELSE a]
  BY DEF RankNext
<1>2. Index' = Index /\ k' = k /\ Sorted' = Sorted /\ ScoreInv'
      /\ \A x, y : Identical(x, y)' <=> Identical(x, y)
  BY <1>0, <1>1, SameTable
<1>3. k \in Nat \ {0} /\ Index = 1..k /\ a \in 2..k /\ a - 1 \in Index /\ a \in Index
  BY <1>0, <1>1, TableIs
<1>4. /\ order \in [Index -> Index] /\ rank \in [Index -> 0..k] /\ cur \in Index /\ prev \in Index
      /\ \A n, m \in Index : n # m => order[n] # order[m]
  BY <1>0, <1>3 DEF Sorted, TypeOK
<1>5. ASSUME NEW n \in 1..a
      PROVE  Place(n)' = IF n = a THEN IF Identical(cur, prev) THEN Place(n - 1) ELSE n ELSE Place(n)
  <2>1. n \in Index /\ Place(n)' = rank'[order[n]]
    BY <1>1, <1>3 DEF Place
  <2>2. CASE n = a
    <3>1. rank'[cur] = IF Identical(cur, prev) THEN rank[prev] ELSE a
      BY <1>1, <1>4
    <3> QED
      BY <2>1, <2>2, <3>1 DEF Place
  <2>3. CASE n # a
    <3>1. order[n] # cur /\ order[n] \in Index
      BY <1>3, <1>4, <2>1, <2>3
    <3> QED
      BY <1>1, <1>4, <2>1, <2>3, <3>1 DEF Place
  <2> QED
    BY <2>2, <2>3
<1>6. rank' \in [Index -> 0..k]
  <2>1. rank[prev] \in 0..k /\ a \in 0..k
    BY <1>3, <1>4
  <2> QED
    BY <1>1, <1>4, <2>1
<1>7. TypeOK'
  <2>1. a' \in 1..(k + 1) /\ b' \in 2..(k + 2)
    BY <1>0, <1>1, <1>3 DEF TypeOK
  <2>2. copeland' \in [Index -> ((-k)..k) \cup {Top}] /\ borda' \in [Index -> Nat]
        /\ order' \in [Index -> Index]
    BY <1>0, <1>1 DEF TypeOK
  <2>3. plug' = plug /\ rankmode' = rankmode /\ pc' \in {"duels", "sort", "rank", "done"}
    BY <1>0, <1>1 DEF TypeOK
  <2> QED
    BY <1>0, <1>6, <2>1, <2>2, <2>3, TableSame
<1>8. ASSUME NEW n \in 1..(a' - 1)
      PROVE  /\ Place(n)' \in 1..n
             /\ \A m \in Place(n)'..n : Identical(order[m], order[n]) /\ Place(m)' = Place(n)'
             /\ \A m \in 1..(Place(n)' - 1) : Place(m)' < Place(n)'
             /\ \A q : q = Place(n)' /\ q > 1 => ~Identical(order[q], order[q - 1])
  <2> DEFINE P(i) == /\ Place(i) \in 1..i
                     /\ \A m \in Place(i)..i : Identical(order[m], order[i]) /\ Place(m) = Place(i)
                     /\ \A m \in 1..(Place(i) - 1) : Place(m) < Place(i)
                     /\ Place(i) > 1 => ~Identical(order[Place(i)], order[Place(i) - 1])
  <2>1. a' - 1 = a /\ n \in 1..a
    BY <1>1, <1>3
  <2>2. \A i \in 1..(a - 1) : P(i)
    BY <1>0 DEF PlaceInv
  <2>3. \A i \in 1..(a - 1) : Place(i)' = Place(i)
    BY <1>3, <1>5
  <2>4. CASE n # a
    <3>1. n \in 1..(a - 1) /\ P(n)
      BY <1>3, <2>1, <2>2, <2>4
    <3>2. Place(n)' = Place(n) /\ \A m \in 1..n : Place(m)' = Place(m)
      BY <1>3, <2>3, <3>1
    <3> QED
      BY <3>1, <3>2
  <2>5. CASE n = a /\ Identical(cur, prev)
    <3>1. a - 1 \in 1..(a - 1) /\ P(a - 1) /\ Place(n)' = Place(a - 1)
      BY <1>3, <1>5, <2>1, <2>2, <2>5
    <3>2. ASSUME NEW m \in Place(n)'..n PROVE Identical(order[m], order[n]) /\ Place(m)' = Place(n)'
      <4>1. CASE m = a
        BY <2>5, <4>1 DEF Identical
      <4>2. CASE m # a
        <5>1. m \in Place(a - 1)..(a - 1) /\ m \in 1..(a - 1)
          BY <1>3, <2>5, <3>1, <4>2
        <5>2. Identical(order[m], prev) /\ Place(m) = Place(a - 1)
          BY <3>1, <5>1
        <5> QED
          BY <2>3, <2>5, <3>1, <5>1, <5>2 DEF Identical
      <4> QED
        BY <4>1, <4>2
    <3>3. \A m \in 1..(Place(n)' - 1) : m \in 1..(a - 1)
      BY <1>3, <3>1
    <3>4. Place(n)' \in 1..n
      BY <1>3, <2>5, <3>1
    <3>5. \A m \in 1..(Place(n)' - 1) : Place(m)' < Place(n)'
      BY <2>3, <3>1, <3>3
    <3> QED
      BY <3>1, <3>2, <3>4, <3>5
  <2>6. CASE n = a /\ ~Identical(cur, prev)
    <3>1. Place(n)' = n /\ n \in Nat
      BY <1>3, <1>5, <2>1, <2>6
    <3>2. \A m \in 1..(n - 1) : m \in 1..(a - 1) /\ Place(m)' = Place(m) /\ Place(m) \in 1..m
      BY <2>2, <2>3, <2>6
    <3>3. \A m \in n..n : m = n
      BY <3>1
    <3>4. \A m : Identical(m, m)
      BY DEF Identical
    <3>5. \A m \in n..n : Identical(order[m], order[n]) /\ Place(m)' = Place(n)'
      BY <3>3, <3>4
    <3>6. \A m \in 1..(n - 1) : Place(m)' < n
      BY <3>1, <3>2
    <3>7. \A q : q = n => ~Identical(order[q], order[q - 1])
      BY <2>6
    <3> QED
      BY <2>1, <3>1, <3>5, <3>6, <3>7
  <2> QED
    BY <2>4, <2>5, <2>6
<1>9. PlaceInv'
  <2>1. \A x, y : Identical(x, y)' <=> Identical(x, y)
    BY <1>2
  <2> HIDE DEF Place, Identical
  <2> QED
    BY <1>1, <1>8, <2>1 DEF PlaceInv
<1>10. a' \in 2..(k' + 1)
  BY <1>1, <1>2, <1>3
<1> QED
  BY <1>0, <1>1, <1>2, <1>7, <1>9, <1>10 DEF RankInv

LEMMA RankDone == ASSUME RankInv, Done \/ UNCHANGED vars PROVE RankInv'
<1>0. TypeOK /\ TableInv /\ TableInv' /\ k \in Nat
  BY TableIs DEF RankInv, Done, vars, TableInv
<1>1. /\ plug' = plug /\ rankmode' = rankmode /\ copeland' = copeland /\ borda' = borda /\ b' = b
      /\ a' = a /\ order' = order /\ rank' = rank
      /\ ((pc = "rank" /\ a > k /\ pc' = "done") \/ pc' = pc)
  BY DEF Done, vars
<1>2. Index' = Index /\ k' = k /\ Sorted' = Sorted /\ (ScoreInv => ScoreInv')
      /\ \A x, y : Identical(x, y)' <=> Identical(x, y)
  BY <1>1, SameTable
<1>3. TypeOK'
  BY <1>0, <1>1, <1>2, TableSame DEF TypeOK
<1>4. PlaceInv => PlaceInv'
  <2>1. \A n : Place(n)' = Place(n)
    BY <1>1 DEF Place
  <2> QED
    BY <1>1, <1>2, <2>1 DEF PlaceInv
<1>5. pc = "duels" => DuelInv'
  <2>1. \A x : Met(x)' = Met(x)
    BY <1>1, <1>2 DEF Met, Fought
  <2>2. \A x, S : Won(x, S)' = Won(x, S) /\ Lost(x, S)' = Lost(x, S)
    BY <1>1 DEF Won, Lost, Wins
  <2>3. \A x \in Index : /\ Cardinality(Won(x, Met(x)))' = Cardinality(Won(x, Met(x)))
                         /\ Cardinality(Lost(x, Met(x)))' = Cardinality(Lost(x, Met(x)))
    BY <2>1, <2>2
  <2>4. SumOf(copeland, Index)' = SumOf(copeland, Index)
    BY <1>1, <1>2
  <2> QED
    BY <1>1, <1>2, <2>3, <2>4 DEF RankInv, DuelInv
<1> QED
  BY <1>0, <1>1, <1>2, <1>3, <1>4, <1>5 DEF RankInv

LEMMA RankHolds == Spec => []RankInv
<1>1. RankInv /\ [Next]_vars => RankInv'
  BY RankDuel, RankBorda, RankSort, RankStep, RankDone DEF Next
<1> QED
  BY <1>1, RankInit, PTL DEF Spec
-----------------------------------------------------------------------------
(* A result that another one dominates.                                    *)

Dominates(x, y) ==
  /\ \A c \in rankmode : plug[x].v[c] <= plug[y].v[c]
  /\ \E c \in rankmode : plug[x].v[c] < plug[y].v[c]

LEMMA FewerOf ==
  ASSUME TableInv, NEW S \in SUBSET Index, NEW T \in SUBSET S
  PROVE  /\ Cardinality(T) <= Cardinality(S) /\ Cardinality(T) \in Nat /\ Cardinality(S) \in Nat
         /\ \A y \in S \ T : Cardinality(T) < Cardinality(S)
<1>1. IsFiniteSet(S) /\ T \in SUBSET Index
  BY CountsUp
<1>2. Cardinality(T) <= Cardinality(S) /\ Cardinality(T) \in Nat /\ Cardinality(S) \in Nat
  BY <1>1, FS_Subset, CountsUp
<1>3. ASSUME NEW y \in S \ T PROVE Cardinality(T) < Cardinality(S)
  <2>1. T \cup {y} \subseteq S /\ Cardinality(T \cup {y}) = Cardinality(T) + 1
    BY <1>1, <1>3, CountsUp
  <2>2. Cardinality(T \cup {y}) <= Cardinality(S)
    BY <1>1, <2>1, FS_Subset
  <2> QED
    BY <1>2, <2>1, <2>2
<1> QED
  BY <1>2, <1>3

LEMMA WinsMore ==
  ASSUME TableInv, NEW x \in Index, NEW y \in Index, Dominates(x, y)
  PROVE  /\ \A z \in Index : Wins(y, z) <= Wins(x, z) /\ Wins(z, x) <= Wins(z, y)
         /\ Wins(y, x) < Wins(x, y)
<1> DEFINE W(p, q) == {c \in rankmode : plug[p].v[c] < plug[q].v[c]}
<1>0. /\ IsFiniteSet(rankmode) /\ rankmode \subseteq Criteria
      /\ \A z \in Index : \A c \in rankmode : plug[z].v[c] \in Nat
  BY TableIs
<1>1. \A p, q : IsFiniteSet(W(p, q)) /\ Wins(p, q) = Cardinality(W(p, q)) /\ Wins(p, q) \in Nat
  <2>1. \A p, q : W(p, q) \in SUBSET rankmode /\ Wins(p, q) = Cardinality(W(p, q))
    BY DEF Wins
  <2> HIDE DEF W
  <2> QED
    BY <1>0, <2>1, FS_Subset, WinsType
<1>2. \A z \in Index : W(y, z) \subseteq W(x, z) /\ W(z, x) \subseteq W(z, y)
  BY <1>0 DEF Dominates
<1>3. W(y, x) = {} /\ W(x, y) # {}
  BY <1>0 DEF Dominates
<1> HIDE DEF W
<1>4. Cardinality(W(y, x)) = 0 /\ Cardinality(W(x, y)) # 0
  BY <1>1, <1>3, FS_EmptySet
<1>5. \A z \in Index : Wins(y, z) <= Wins(x, z) /\ Wins(z, x) <= Wins(z, y)
  BY <1>1, <1>2, FS_Subset
<1> QED
  BY <1>1, <1>4, <1>5

LEMMA ScoresMore ==
  ASSUME TableInv, NEW x \in Index, NEW y \in Index, Dominates(x, y)
  PROVE  Score(y) < Score(x)
<1>1. \A p, q : Wins(p, q) \in Nat
  BY WinsType
<1>2. /\ Won(y, Index) \in SUBSET Won(x, Index) /\ y \in Won(x, Index) \ Won(y, Index)
      /\ Lost(x, Index) \in SUBSET Lost(y, Index)
      /\ Won(x, Index) \in SUBSET Index /\ Lost(y, Index) \in SUBSET Index
  BY <1>1, WinsMore DEF Won, Lost
<1>3. /\ Cardinality(Won(y, Index)) < Cardinality(Won(x, Index))
      /\ Cardinality(Lost(x, Index)) <= Cardinality(Lost(y, Index))
      /\ Cardinality(Won(y, Index)) \in Nat /\ Cardinality(Won(x, Index)) \in Nat
      /\ Cardinality(Lost(y, Index)) \in Nat /\ Cardinality(Lost(x, Index)) \in Nat
  BY <1>2, FewerOf
<1> QED
  BY <1>3, ScoreIs DEF Net

\* The larger its value the more points a result misses.
LEMMA MissesMore ==
  ASSUME TableInv, NEW x \in Index, NEW y \in Index, NEW c \in Criteria, plug[x].v[c] <= plug[y].v[c]
  PROVE  /\ Missed(x, c, Index) <= Missed(y, c, Index)
         /\ plug[x].v[c] < plug[y].v[c] => Missed(x, c, Index) < Missed(y, c, Index)
<1> DEFINE Beaten(z) == {u \in Index : plug[u].v[c] < plug[z].v[c]}
           Even(z) == {u \in Index : plug[u].v[c] <= plug[z].v[c]}
<1>0. \A z \in Index : plug[z].v[c] \in Nat
  BY TableIs
<1>1. ASSUME NEW z \in Index
      PROVE  /\ Under(z, c, Index) = Beaten(z) /\ Even(z) \in SUBSET Index /\ Beaten(z) \in SUBSET Index
             /\ NotOver(z, c, Index) \in SUBSET Index
             /\ NotOver(z, c, Index) \cup {z} = Even(z) /\ z \in Index \ NotOver(z, c, Index)
  BY <1>0, <1>1 DEF Under, NotOver
<1>2. /\ Beaten(x) \in SUBSET Beaten(y) /\ Even(x) \in SUBSET Even(y)
      /\ plug[x].v[c] < plug[y].v[c] => y \in Even(y) \ Even(x)
  BY <1>0
<1>3. Beaten(y) \in SUBSET Index /\ Even(y) \in SUBSET Index
  OBVIOUS
<1> HIDE DEF Beaten, Even
<1>4. ASSUME NEW z \in Index
      PROVE  /\ Missed(z, c, Index) = Cardinality(Beaten(z)) + Cardinality(Even(z)) - 1
             /\ Cardinality(Beaten(z)) \in Nat /\ Cardinality(Even(z)) \in Nat
  <2>1. Cardinality(Even(z)) = Cardinality(NotOver(z, c, Index)) + 1
    BY <1>1, CountsUp
  <2>2. /\ Cardinality(Beaten(z)) \in Nat /\ Cardinality(Even(z)) \in Nat
        /\ Cardinality(NotOver(z, c, Index)) \in Nat
    BY <1>1, CountsUp
  <2>3. Missed(z, c, Index) = Cardinality(Beaten(z)) + Cardinality(NotOver(z, c, Index))
    BY <1>1 DEF Missed
  <2> QED
    BY <2>1, <2>2, <2>3
<1>5. /\ Cardinality(Beaten(x)) <= Cardinality(Beaten(y)) /\ Cardinality(Even(x)) <= Cardinality(Even(y))
      /\ plug[x].v[c] < plug[y].v[c] => Cardinality(Even(x)) < Cardinality(Even(y))
  BY <1>2, <1>3, FewerOf
<1> QED
  BY <1>4, <1>5

LEMMA BordaMore ==
  ASSUME TableInv, NEW x \in Index, NEW y \in Index, Dominates(x, y)
  PROVE  borda_scores[y] < borda_scores[x]
<1>0. IsFiniteSet(rankmode) /\ rankmode \subseteq Criteria /\ k \in Nat
  BY TableIs
<1>1. ASSUME NEW c \in rankmode
      PROVE  /\ PointsOf(y)[c] \in Int /\ PointsOf(x)[c] \in Int /\ PointsOf(y)[c] <= PointsOf(x)[c]
             /\ plug[x].v[c] < plug[y].v[c] => PointsOf(y)[c] < PointsOf(x)[c]
  <2>1. \A z \in Index : /\ PointsOf(z)[c] = 2 * (k - 1) - Missed(z, c, Index)
                         /\ Missed(z, c, Index) \in Nat
    BY <1>0, PointsAre
  <2>2. /\ Missed(x, c, Index) <= Missed(y, c, Index)
        /\ plug[x].v[c] < plug[y].v[c] => Missed(x, c, Index) < Missed(y, c, Index)
    BY <1>0, MissesMore DEF Dominates
  <2> QED
    BY <1>0, <2>1, <2>2
<1>2. PICK c \in rankmode : plug[x].v[c] < plug[y].v[c]
  BY DEF Dominates
<1>3. SumOf(PointsOf(y), rankmode) < SumOf(PointsOf(x), rankmode)
  BY <1>0, <1>1, <1>2, SumGrowsMore
<1> QED
  BY <1>3, BordaIs

\* Results with the same values have the same scores.
LEMMA SameScores ==
  ASSUME TableInv, NEW x \in Index, NEW y \in Index, plug[x].v = plug[y].v
  PROVE  Score(x) = Score(y) /\ borda_scores[x] = borda_scores[y]
<1>0. /\ IsFiniteSet(rankmode) /\ rankmode \subseteq Criteria /\ k \in Nat
      /\ \A c \in Criteria : plug[x].v[c] \in Nat
  BY TableIs
<1>1. Score(x) = Score(y)
  BY DEF Score, Wins
<1>2. ASSUME NEW c \in rankmode PROVE PointsOf(x)[c] \in Int /\ PointsOf(y)[c] = PointsOf(x)[c]
  <2>1. \A z \in {x, y} : /\ PointsOf(z)[c] = 2 * (k - 1) - Missed(z, c, Index)
                          /\ Missed(z, c, Index) \in Nat
    BY <1>0, PointsAre
  <2>2. Missed(x, c, Index) <= Missed(y, c, Index) /\ Missed(y, c, Index) <= Missed(x, c, Index)
    BY <1>0, MissesMore
  <2> QED
    BY <1>0, <2>1, <2>2
<1>3. SumOf(PointsOf(x), rankmode) = SumOf(PointsOf(y), rankmode)
  BY <1>0, <1>2, SumAgrees
<1> QED
  BY <1>1, <1>3, BordaIs

-----------------------------------------------------------------------------
(* The ranks.                                                              *)

LEMMA AllPlaced ==
  ASSUME RankInv, pc = "done"
  PROVE  /\ TypeOK /\ TableInv /\ ScoreInv
         /\ k \in Nat \ {0} /\ Index = 1..k /\ order \in [Index -> Index]
         /\ \A n, m \in Index : n # m => order[n] # order[m]
         /\ \A n, m \in Index : n < m => final_cmp(order[n], order[m])
         /\ \A x \in Index : \E n \in Index : order[n] = x
         /\ \A n \in Index :
              /\ Place(n) \in 1..n
              /\ \A m \in Place(n)..n : Identical(order[m], order[n]) /\ Place(m) = Place(n)
              /\ \A m \in 1..(Place(n) - 1) : Place(m) < Place(n)
              /\ Place(n) > 1 => ~Identical(order[Place(n)], order[Place(n) - 1])
<1>1. TypeOK /\ TableInv /\ ScoreInv /\ order \in Sorted /\ PlaceInv /\ a \in 2..(k + 1) /\ a > k
  BY DEF RankInv
<1>2. k \in Nat \ {0} /\ Index = 1..k /\ IsFiniteSet(Index)
  BY <1>1, TableIs
<1>3. a - 1 = k
  BY <1>1, <1>2
<1>4. /\ order \in [Index -> Index]
      /\ \A n, m \in Index : n # m => order[n] # order[m]
      /\ \A n, m \in Index : n < m => final_cmp(order[n], order[m])
  BY <1>1 DEF Sorted
<1>5. \A x \in Index : \E n \in Index : order[n] = x
  <2>1. order \in Injection(Index, Index)
    BY <1>4 DEF Injection, IsInjective
  <2>2. order \in Surjection(Index, Index)
    BY <1>2, <2>1, FS_Injection
  <2> QED
    BY <2>2 DEF Surjection
<1>6. \A n \in Index :
        /\ Place(n) \in 1..n
        /\ \A m \in Place(n)..n : Identical(order[m], order[n]) /\ Place(m) = Place(n)
        /\ \A m \in 1..(Place(n) - 1) : Place(m) < Place(n)
        /\ Place(n) > 1 => ~Identical(order[Place(n)], order[Place(n) - 1])
  BY <1>1, <1>2, <1>3 DEF PlaceInv
<1> QED
  BY <1>1, <1>2, <1>4, <1>5, <1>6

LEMMA BehindIf ==
  ASSUME RankInv, pc = "done", NEW x \in Index, NEW y \in Index, ~final_cmp(y, x), ~Identical(x, y)
  PROVE  rank[x] < rank[y]
<1>1. PICK m \in Index : order[m] = x
  BY AllPlaced
<1>2. PICK n \in Index : order[n] = y
  BY AllPlaced
<1>3. k \in Nat /\ Index = 1..k
  BY AllPlaced
<1>4. m # n
  BY <1>1, <1>2 DEF Identical
<1>5. m < n
  <2>1. ~(n < m)
    BY <1>1, <1>2, AllPlaced
  <2> QED
    BY <1>3, <1>4, <2>1
<1>6. Place(n) \in 1..n /\ ~(m \in Place(n)..n)
  BY <1>1, <1>2, AllPlaced
<1>7. m \in 1..(Place(n) - 1)
  BY <1>3, <1>5, <1>6
<1>8. Place(m) < Place(n)
  BY <1>7, AllPlaced
<1> QED
  BY <1>1, <1>2, <1>8 DEF Place

LEMMA DominatedBehind ==
  ASSUME RankInv, pc = "done", NEW x \in Index, NEW y \in Index,
         \/ plug[x].id > P_MCPY /\ plug[y].id <= P_MCPY
         \/ (plug[x].id > P_MCPY <=> plug[y].id > P_MCPY) /\ Dominates(x, y)
  PROVE  rank[x] < rank[y]
<1>0. TypeOK /\ TableInv /\ ScoreInv
  BY AllPlaced
<1>1. k \in Nat /\ Top \in Nat /\ k < Top /\ plug[x].id \in Nat /\ plug[y].id \in Nat
  BY <1>0, TableIs
<1>2. \A z \in {x, y} : /\ copeland[z] = IF plug[z].id > P_MCPY THEN Top ELSE Score(z)
                        /\ borda[z] = borda_scores[z] /\ borda[z] \in Nat
  BY <1>0, BordaIs DEF ScoreInv
<1>3. Score(x) \in (-k)..k /\ Score(y) \in (-k)..k
  BY <1>0, ScoreIs
<1>4. Dominates(x, y) => Score(y) < Score(x) /\ borda_scores[y] < borda_scores[x]
  BY <1>0, ScoresMore, BordaMore
<1>5. copeland[x] > copeland[y] \/ (copeland[x] = copeland[y] /\ borda[x] > borda[y])
  <2>1. plug[x].id > P_MCPY => copeland[x] = Top
    BY <1>2
  <2>2. plug[y].id > P_MCPY => copeland[y] = Top
    BY <1>2
  <2>3. ~(plug[x].id > P_MCPY) => copeland[x] = Score(x)
    BY <1>2
  <2>4. ~(plug[y].id > P_MCPY) => copeland[y] = Score(y)
    BY <1>2
  <2>5. plug[y].id <= P_MCPY => ~(plug[y].id > P_MCPY)
    BY <1>1 DEF P_MCPY
  <2>6. borda[x] = borda_scores[x] /\ borda[y] = borda_scores[y]
    BY <1>2
  <2> QED
    BY <1>1, <1>3, <1>4, <2>1, <2>2, <2>3, <2>4, <2>5, <2>6
<1>6. copeland[x] \in Int /\ copeland[y] \in Int
  BY <1>1, <1>2, <1>3
<1>7. ~final_cmp(y, x) /\ ~Identical(x, y)
  BY <1>2, <1>5, <1>6 DEF final_cmp, Identical
<1> QED
  BY <1>7, BehindIf

LEMMA BeforeBoth ==
  ASSUME NEW n \in Nat, NEW m \in Nat, NEW r \in 1..n, NEW p \in 1..m,
         p < r, ~(m \in r..n), ~(n \in p..m)
  PROVE  m \in 1..(r - 1)
<1>1. /\ r \in Nat /\ p \in Nat /\ 1 <= r /\ r <= n /\ 1 <= p /\ p <= m
      /\ m < r \/ n < m
      /\ n < p \/ m < n
  OBVIOUS
<1> QED
  BY <1>1

\* A rank is the number of the results with a smaller one, and one.
LEMMA RankCounts ==
  ASSUME RankInv, pc = "done", NEW x \in Index
  PROVE  rank[x] = 1 + Cardinality({y \in Index : rank[y] < rank[x]})
<1>0. /\ k \in Nat /\ Index = 1..k /\ order \in [Index -> Index]
      /\ \A n, m \in Index : n # m => order[n] # order[m]
  BY AllPlaced
<1>1. PICK n \in Index : order[n] = x
  BY AllPlaced
<1> DEFINE r == Place(n)
           Before == {y \in Index : rank[y] < rank[x]}
           f == [m \in 1..(r - 1) |-> order[m]]
<1>2. r = rank[x] /\ r \in 1..n /\ r \in Nat /\ n \in 1..k /\ r - 1 \in Nat
  <2>1. r = rank[x] /\ r \in 1..n
    BY <1>1, AllPlaced DEF Place
  <2> HIDE DEF r
  <2> QED
    BY <1>0, <2>1
<1>3. \A m \in 1..(r - 1) : order[m] \in Before
  <2>1. \A m \in 1..(r - 1) : Place(m) < r
    BY AllPlaced
  <2> QED
    <3> HIDE DEF r
    <3>1. \A m \in 1..(r - 1) : m \in Index
      BY <1>0, <1>2
    <3> QED
      BY <1>0, <1>2, <2>1, <3>1 DEF Place
<1>4. ASSUME NEW m \in Index, Place(m) < r PROVE m \in 1..(r - 1)
  <2>1. /\ Place(m) \in 1..m
        /\ \A q \in Place(m)..m : Place(q) = Place(m)
        /\ \A q \in r..n : Place(q) = r
    BY AllPlaced
  <2>2. ~(m \in r..n) /\ ~(n \in Place(m)..m)
    BY <1>4, <2>1
  <2>3. m \in 1..k /\ Place(m) \in Nat
    BY <1>0, <2>1
  <2> DEFINE p == Place(m)
  <2>4. p \in 1..m /\ p < r /\ ~(n \in p..m) /\ p \in Nat
    BY <1>4, <2>1, <2>2, <2>3
  <2>5. n \in Nat /\ m \in Nat
    BY <1>0
  <2> HIDE DEF p, r
  <2> QED
    BY <1>2, <2>2, <2>4, <2>5, BeforeBoth
<1>5. \A y \in Before : \E m \in 1..(r - 1) : order[m] = y
  <2>1. ASSUME NEW y \in Before PROVE \E m \in 1..(r - 1) : order[m] = y
    <3>1. PICK m \in Index : order[m] = y
      BY AllPlaced
    <3>2. Place(m) < r
      BY <1>2, <3>1 DEF Place
    <3> QED
      BY <1>4, <3>1, <3>2
  <2> QED
    BY <2>1
<1>6. ExistsBijection(1..(r - 1), Before)
  <2>1. \A m \in 1..(r - 1) : m \in Index
    BY <1>0, <1>2
  <2>2. f \in [1..(r - 1) -> Before]
    BY <1>3
  <2>3. f \in Injection(1..(r - 1), Before)
    BY <1>0, <2>1, <2>2 DEF Injection, IsInjective
  <2>4. f \in Surjection(1..(r - 1), Before)
    BY <1>5, <2>2 DEF Surjection
  <2> QED
    BY <2>3, <2>4 DEF ExistsBijection, Bijection
<1>7. Cardinality(Before) = r - 1
  <2> HIDE DEF Before, r
  <2> QED
    BY <1>2, <1>6, FS_CountingElements
<1> QED
  BY <1>2, <1>7

\* The order of the chosen criteria has no cycle.
LEMMA NoCycle ==
  ASSUME TableInv, rankmode = Criteria, NEW x \in Index, NEW y \in Index, NEW z \in Index,
         plug[x].v = plug[y].v, SmallerIn(x, z), SmallerIn(z, y) \/ SameIn(z, y)
  PROVE  FALSE
<1>1. \A u \in Index : plug[u].v["ratio"] \in Nat /\ plug[u].v["comp"] \in Nat /\ plug[u].v["decomp"] \in Nat
  BY TableIs DEF Criteria
<1> QED
  BY <1>1 DEF SmallerIn, SameIn, Smaller, Criteria

\* With all criteria chosen, what lies between two results of one class with the
\* same values is identical to them.
LEMMA SameRank ==
  ASSUME RankInv, pc = "done", rankmode = Criteria, NEW m \in Index, NEW n \in Index, m < n,
         plug[order[m]].id > P_MCPY <=> plug[order[n]].id > P_MCPY,
         plug[order[m]].v = plug[order[n]].v
  PROVE  Place(m) = Place(n)
<1> DEFINE x == order[m]
           y == order[n]
<1>0. TypeOK /\ TableInv /\ ScoreInv /\ k \in Nat /\ Index = 1..k /\ order \in [Index -> Index]
  BY AllPlaced
<1>1. x \in Index /\ y \in Index
  BY <1>0
<1>2. copeland[x] = copeland[y] /\ borda[x] = borda[y]
  BY <1>0, <1>1, SameScores DEF ScoreInv
<1>3. \A z \in Index : copeland[z] \in Int /\ borda[z] \in Int
  <2>1. Top \in Nat
    BY <1>0, TableIs
  <2>2. ASSUME NEW z \in Index PROVE copeland[z] \in ((-k)..k) \cup {Top} /\ borda[z] \in Nat
    BY <1>0 DEF TypeOK
  <2>3. ((-k)..k) \cup {Top} \subseteq Int
    BY <1>0, <2>1
  <2> QED
    BY <2>2, <2>3
<1>4. ASSUME NEW q \in m..n PROVE Identical(order[q], y)
  <2> DEFINE z == order[q]
  <2>1. q \in Index /\ z \in Index
    BY <1>0
  <2>2. CASE q = n
    BY <2>2 DEF Identical
  <2>3. CASE q = m
    BY <1>2, <2>3 DEF Identical
  <2>4. CASE q # m /\ q # n
    <3>1. final_cmp(x, z) /\ final_cmp(z, y)
      <4>1. m < q /\ q < n
        BY <1>0, <2>4
      <4> QED
        BY <2>1, <4>1, AllPlaced
    <3> HIDE DEF x, y, z
    <3>2. copeland[z] = copeland[y] /\ borda[z] = borda[y] /\ copeland[x] = copeland[z] /\ borda[x] = borda[z]
      BY <1>1, <1>2, <1>3, <2>1, <3>1 DEF final_cmp
    <3>3. /\ SmallerIn(x, z) \/ SameIn(x, z)
          /\ SmallerIn(z, y) \/ SameIn(z, y)
      BY <1>1, <1>3, <2>1, <3>1, <3>2 DEF final_cmp
    <3>4. SameIn(x, z)
      BY <1>0, <1>1, <2>1, <3>3, NoCycle DEF x, y
    <3> QED
      BY <3>2, <3>4 DEF SameIn, Identical, x, y, z
  <2> QED
    BY <2>2, <2>3, <2>4
<1>5. Place(n) \in 1..n /\ Place(n) <= m
  <2>1. SUFFICES ASSUME Place(n) \in 1..n, Place(n) > m PROVE FALSE
    BY <1>0, AllPlaced
  <2>2. Place(n) \in m..n /\ Place(n) - 1 \in m..n /\ Place(n) > 1
    BY <1>0, <2>1
  <2>3. Identical(order[Place(n)], y) /\ Identical(order[Place(n) - 1], y)
    BY <1>4, <2>2
  <2>4. ~Identical(order[Place(n)], order[Place(n) - 1])
    BY <2>2, AllPlaced
  <2> QED
    BY <2>3, <2>4 DEF Identical
<1>6. m \in Place(n)..n
  BY <1>0, <1>5
<1> QED
  BY <1>6, AllPlaced

-----------------------------------------------------------------------------
(* The theorems.                                                           *)

\* The variables of plugrank have their types.
THEOREM TypeCorrect == Spec => []TypeOK
<1>1. RankInv => TypeOK
  BY DEF RankInv
<1> QED
  BY <1>1, RankHolds, PTL

\* What is won in the duels of plugrank is lost in them, and borda_scores gives away
\* all points of every chosen criterion, whatever the ties.
THEOREM PointsGivenAwayCorrect == Spec => []PointsGivenAway
<1>1. ASSUME RankInv PROVE PointsGivenAway
  <2>0. TableInv
    BY <1>1 DEF RankInv
  <2>1. ASSUME pc = "duels", a >= k
        PROVE  /\ MapThenSumSet(LAMBDA x : copeland[x], Index) = 0
               /\ \A x \in Index : copeland[x] = Score(x)
    <3>1. DuelInv
      BY <1>1, <2>1 DEF RankInv
    <3> QED
      BY <2>0, <2>1, <3>1, DuelsOver DEF SumOf
  <2>2. ASSUME pc = "sort"
        PROVE  MapThenSumSet(LAMBDA x : borda[x], Index) = Cardinality(rankmode) * k * (k - 1)
    <3>1. borda = borda_scores
      BY <1>1, <2>2 DEF RankInv, ScoreInv
    <3>2. SumOf(borda, Index) = Cardinality(rankmode) * k * (k - 1)
      BY <2>0, <3>1, BordaAll
    <3> QED
      BY <3>2 DEF SumOf
  <2> QED
    BY <2>1, <2>2 DEF PointsGivenAway, Score
<1> QED
  BY <1>1, RankHolds, PTL

\* A codec that another one dominates in the chosen criteria has the worse rank, and
\* memcpy comes after all codecs.
THEOREM DominatedIsBehindCorrect == Spec => []DominatedIsBehind
<1>1. RankInv => DominatedIsBehind
  BY DominatedBehind DEF DominatedIsBehind, Dominates
<1> QED
  BY <1>1, RankHolds, PTL

\* A rank of plugrank is one more than the results with a smaller rank and, with all
\* criteria chosen, does not depend on what qsort makes of equal results.
THEOREM RankIsPlaceCorrect == Spec => []RankIsPlace
<1>1. ASSUME RankInv, pc = "done", rankmode = Criteria, NEW x \in Index, NEW y \in Index,
             plug[x].id > P_MCPY <=> plug[y].id > P_MCPY, plug[x].v = plug[y].v
      PROVE  rank[x] = rank[y]
  <2>1. PICK m \in Index : order[m] = x
    BY <1>1, AllPlaced
  <2>2. PICK n \in Index : order[n] = y
    BY <1>1, AllPlaced
  <2>3. k \in Nat /\ Index = 1..k
    BY <1>1, AllPlaced
  <2>4. m < n \/ n < m \/ m = n
    BY <2>3
  <2>5. Place(m) = Place(n)
    BY <1>1, <2>1, <2>2, <2>4, SameRank
  <2> QED
    BY <2>1, <2>2, <2>5 DEF Place
<1>2. RankInv => RankIsPlace
  BY <1>1, RankCounts DEF RankIsPlace
<1> QED
  BY <1>2, RankHolds, PTL
=============================================================================
