---------------------------- MODULE DataInduction ----------------------------
(***************************************************************************)
(* Induction over finite sets and over natural numbers, with a set in the  *)
(* place of the predicate, and what follows from it for sums: the facts    *)
(* that the proofs about counters and scores share.                        *)
(***************************************************************************)
EXTENDS Integers, Sequences, FiniteSets, FiniteSetsExt, FiniteSetTheorems, WellFoundedInduction, TLAPS

\* An element of a sequence.
LEMMA Element == ASSUME NEW S, NEW s \in Seq(S), NEW n \in 1..Len(s) PROVE s[n] \in S
OBVIOUS

\* A set of sets that holds {} and, with a set, the set with one more element of
\* S holds every finite S.
LEMMA SetInduction ==
  ASSUME NEW S, IsFiniteSet(S), NEW P, {} \in P,
         \A T \in SUBSET S : \A x \in S \ T : T \in P => T \cup {x} \in P
  PROVE  S \in P
<1> DEFINE Bad == (SUBSET S) \ P
<1> SUFFICES ASSUME S \notin P PROVE FALSE
  OBVIOUS
<1>1. Bad # {} /\ Bad \subseteq FiniteSubsetsOf(S)
  BY FS_FiniteSubsetsOfFinite
<1>2. PICK T \in Bad : \A y \in Bad : ~(<<y, T>> \in StrictSubsetOrdering(S))
  <2> HIDE DEF Bad
  <2> QED
    BY <1>1, FS_StrictSubsetOrderingWellFounded, WFMin
<1>3. PICK x \in T : TRUE
  BY <1>2
<1> DEFINE U == T \ {x}
<1>4. U \in SUBSET S /\ x \in S \ U /\ T = U \cup {x} /\ T \notin P
  BY <1>3
<1>5. U \in P
  BY <1>2, <1>4 DEF StrictSubsetOrdering
<1> HIDE DEF U
<1> QED
  BY <1>4, <1>5

\* Every set of numbers that is not empty has a least one.
LEMMA LeastNumber ==
  ASSUME NEW S \in SUBSET Nat, S # {}
  PROVE  \E m \in S : \A n \in S : m <= n
<1>1. PICK m \in S : \A n \in S : ~(<<n, m>> \in OpToRel(<, Nat))
  BY NatLessThanWellFounded, WFMin
<1>2. \A n \in S : ~(n < m)
  BY <1>1 DEF OpToRel
<1> QED
  BY <1>2

\* A set of numbers that holds 0 and, with a number below n, the next one holds
\* all from 0 to n.
LEMMA CountInduction ==
  ASSUME NEW n \in Nat, NEW P, 0 \in P, \A m \in 0..(n - 1) : m \in P => m + 1 \in P
  PROVE  \A m \in 0..n : m \in P
<1> DEFINE Bad == {m \in 0..n : m \notin P}
<1> SUFFICES ASSUME Bad # {} PROVE FALSE
  OBVIOUS
<1>1. PICK m \in Bad : \A k \in Bad : m <= k
  <2>1. Bad \in SUBSET Nat
    OBVIOUS
  <2> HIDE DEF Bad
  <2> QED
    BY <2>1, LeastNumber
<1>2. m # 0 /\ m - 1 \in 0..(n - 1) /\ m - 1 \notin Bad
  BY <1>1
<1>3. (m - 1) + 1 \in P
  BY <1>2
<1> QED
  BY <1>1, <1>3

-----------------------------------------------------------------------------
(* Sums over finite sets.                                                  *)

SumOf(f, S) == MapThenSumSet(LAMBDA x : f[x], S)

\* One step of the recursion MapThenSumSet is defined by.
Chosen(s) == CHOOSE x \in s : TRUE
SumStep(f, g, s) == IF s = {} THEN 0 ELSE f[Chosen(s)] + g[s \ {Chosen(s)}]

LEMMA SumIsRecursive ==
  ASSUME NEW f, NEW S
  PROVE  SumOf(f, S) = (CHOOSE g : g = [s \in SUBSET S |-> SumStep(f, g, s)])[S]
BY DEF SumOf, MapThenSumSet, MapThenFoldSet, SumStep, Chosen

\* The recursion has a solution: one for the sets of at most n elements gives one
\* for those of n + 1.
LEMMA SumIsDefined ==
  ASSUME NEW f, NEW S, IsFiniteSet(S)
  PROVE  \E g : g = [s \in SUBSET S |-> SumStep(f, g, s)]
<1> DEFINE Solves(g, n) == \A s \in SUBSET S : Cardinality(s) <= n => g[s] = SumStep(f, g, s)
           P == {n \in Nat : \E g : Solves(g, n)}
<1>1. \A s \in SUBSET S : /\ IsFiniteSet(s) /\ Cardinality(s) \in Nat
                          /\ Cardinality(s) <= Cardinality(S)
                          /\ Cardinality(s) = 0 => s = {}
                          /\ s # {} => /\ Chosen(s) \in s
                                       /\ Cardinality(s \ {Chosen(s)}) = Cardinality(s) - 1
  BY FS_Subset, FS_CardinalityType, FS_EmptySet, FS_RemoveElement DEF Chosen
<1>2. 0 \in P
  <2>1. Solves([s \in SUBSET S |-> 0], 0)
    BY <1>1 DEF SumStep
  <2> QED
    BY <2>1
<1>3. ASSUME NEW n \in 0..(Cardinality(S) - 1), n \in P PROVE n + 1 \in P
  <2>1. PICK g : Solves(g, n)
    BY <1>3
  <2> DEFINE h == [s \in SUBSET S |-> SumStep(f, g, s)]
  <2>2. ASSUME NEW s \in SUBSET S, Cardinality(s) <= n + 1 PROVE h[s] = SumStep(f, h, s)
    <3>1. CASE s = {}
      BY <3>1 DEF SumStep
    <3>2. CASE s # {}
      <4> DEFINE t == s \ {Chosen(s)}
      <4>1. t \in SUBSET S /\ Cardinality(t) <= n
        BY <1>1, <2>2, <3>2
      <4>2. g[t] = SumStep(f, g, t) /\ h[t] = SumStep(f, g, t)
        BY <2>1, <4>1
      <4> QED
        BY <3>2, <4>2 DEF SumStep
    <3> QED
      BY <3>1, <3>2
  <2>3. n + 1 \in Nat
    OBVIOUS
  <2> HIDE DEF h
  <2>4. Solves(h, n + 1)
    BY <2>2
  <2> HIDE DEF Solves
  <2> QED
    BY <2>3, <2>4
<1>4. Cardinality(S) \in P
  <2>1. Cardinality(S) \in Nat
    BY FS_CardinalityType
  <2> HIDE DEF P
  <2> QED
    BY <1>2, <1>3, <2>1, CountInduction
<1>5. PICK g : Solves(g, Cardinality(S))
  BY <1>4
<1> DEFINE h == [s \in SUBSET S |-> g[s]]
<1>6. ASSUME NEW s \in SUBSET S PROVE h[s] = SumStep(f, h, s)
  <2>1. h[s] = SumStep(f, g, s)
    BY <1>1, <1>5
  <2> QED
    BY <2>1 DEF SumStep
<1>7. h = [s \in SUBSET S |-> SumStep(f, h, s)]
  BY <1>6
<1> QED
  BY <1>7


\* Any solution gives the sum.
LEMMA SumIsUnique ==
  ASSUME NEW f, NEW S, IsFiniteSet(S), NEW h,
         \A s \in SUBSET S : h[s] = SumStep(f, h, s)
  PROVE  SumOf(f, S) = h[S]
<1> DEFINE g == CHOOSE q : q = [s \in SUBSET S |-> SumStep(f, q, s)]
           P == {n \in Nat : \A s \in SUBSET S : Cardinality(s) <= n => g[s] = h[s]}
<1>1. SumOf(f, S) = g[S]
  BY SumIsRecursive
<1>2. g = [s \in SUBSET S |-> SumStep(f, g, s)]
  BY SumIsDefined
<1>3. \A s \in SUBSET S : g[s] = SumStep(f, g, s)
  <2> HIDE DEF g
  <2> QED
    BY <1>2
<1>4. \A s \in SUBSET S : /\ Cardinality(s) \in Nat
                          /\ Cardinality(s) = 0 => s = {}
                          /\ s # {} => Cardinality(s \ {Chosen(s)}) = Cardinality(s) - 1
  BY FS_Subset, FS_CardinalityType, FS_EmptySet, FS_RemoveElement DEF Chosen
<1> HIDE DEF g
<1>5. 0 \in P
  <2>1. g[{}] = 0 /\ h[{}] = 0
    BY <1>3 DEF SumStep
  <2>2. ASSUME NEW s \in SUBSET S, Cardinality(s) <= 0 PROVE s = {}
    <3>1. Cardinality(s) \in Nat /\ (Cardinality(s) = 0 => s = {})
      BY <1>4
    <3> QED
      BY <2>2, <3>1
  <2> QED
    BY <2>1, <2>2
<1>6. ASSUME NEW n \in 0..(Cardinality(S) - 1), n \in P PROVE n + 1 \in P
  <2> SUFFICES ASSUME NEW s \in SUBSET S, Cardinality(s) <= n + 1 PROVE g[s] = h[s]
    OBVIOUS
  <2>1. CASE s = {}
    BY <1>3, <2>1 DEF SumStep
  <2>2. CASE s # {}
    <3>1. s \ {Chosen(s)} \in SUBSET S /\ Cardinality(s \ {Chosen(s)}) <= n
      BY <1>4, <2>2
    <3>2. g[s \ {Chosen(s)}] = h[s \ {Chosen(s)}]
      BY <1>6, <3>1
    <3> QED
      BY <1>3, <2>2, <3>2 DEF SumStep
  <2> QED
    BY <2>1, <2>2
<1>7. Cardinality(S) \in P
  <2>1. Cardinality(S) \in Nat
    BY FS_CardinalityType
  <2> HIDE DEF P
  <2> QED
    BY <1>5, <1>6, <2>1, CountInduction
<1> QED
  BY <1>1, <1>7

\* The sum of nothing, and the sum as the recursion takes it apart.
LEMMA SumOpens ==
  ASSUME NEW f, NEW S, IsFiniteSet(S)
  PROVE  SumOf(f, S) = IF S = {} THEN 0 ELSE f[Chosen(S)] + SumOf(f, S \ {Chosen(S)})
<1>1. PICK g : g = [s \in SUBSET S |-> SumStep(f, g, s)]
  BY SumIsDefined
<1>2. \A s \in SUBSET S : g[s] = SumStep(f, g, s)
  BY <1>1
<1>3. SumOf(f, S) = g[S]
  BY <1>2, SumIsUnique
<1>4. CASE S = {}
  BY <1>2, <1>3, <1>4 DEF SumStep
<1>5. CASE S # {}
  <2> DEFINE T == S \ {Chosen(S)}
  <2>1. T \in SUBSET S /\ IsFiniteSet(T)
    BY FS_Subset
  <2>2. \A s \in SUBSET T : g[s] = SumStep(f, g, s)
    BY <1>2, <2>1
  <2>3. SumOf(f, T) = g[T]
    <3> HIDE DEF T
    <3> QED
      BY <2>1, <2>2, SumIsUnique
  <2> QED
    BY <1>2, <1>3, <1>5, <2>3 DEF SumStep
<1> QED
  BY <1>4, <1>5

LEMMA SumOfNone == ASSUME NEW f PROVE SumOf(f, {}) = 0
BY SumOpens, FS_EmptySet

\* A sum of integers is one, and any element may be taken out of it.
LEMMA SumTakesOut ==
  ASSUME NEW S, IsFiniteSet(S), NEW f, \A x \in S : f[x] \in Int
  PROVE  /\ SumOf(f, S) \in Int
         /\ \A x \in S : SumOf(f, S) = f[x] + SumOf(f, S \ {x})
<1> DEFINE Holds(s) == /\ SumOf(f, s) \in Int
                       /\ \A x \in s : SumOf(f, s) = f[x] + SumOf(f, s \ {x})
           P == {n \in Nat : \A s \in SUBSET S : Cardinality(s) <= n => Holds(s)}
<1>1. \A s \in SUBSET S : /\ IsFiniteSet(s) /\ Cardinality(s) \in Nat
                          /\ Cardinality(s) = 0 => s = {}
                          /\ \A x \in s : Cardinality(s \ {x}) = Cardinality(s) - 1
                          /\ s # {} => Chosen(s) \in s
  BY FS_Subset, FS_CardinalityType, FS_EmptySet, FS_RemoveElement DEF Chosen
<1>2. 0 \in P
  BY <1>1, SumOfNone
<1>3. ASSUME NEW n \in 0..(Cardinality(S) - 1), n \in P PROVE n + 1 \in P
  <2>0. \A t \in SUBSET S : Cardinality(t) <= n => Holds(t)
    BY <1>3
  <2> SUFFICES ASSUME NEW s \in SUBSET S, Cardinality(s) <= n + 1 PROVE Holds(s)
    OBVIOUS
  <2>a. CASE s = {}
    BY <2>a, SumOfNone
  <2>b. SUFFICES ASSUME s # {} PROVE Holds(s)
    BY <2>a
  <2>1. PICK c \in s : SumOf(f, s) = f[c] + SumOf(f, s \ {c})
    BY <1>1, <2>b, SumOpens
  <2>2. ASSUME NEW x \in s PROVE s \ {x} \in SUBSET S /\ Cardinality(s \ {x}) <= n /\ Holds(s \ {x})
    <3>1. s \ {x} \in SUBSET S
      OBVIOUS
    <3>2. Cardinality(s \ {x}) <= n
      BY <1>1
    <3> HIDE DEF Holds
    <3> QED
      BY <2>0, <3>1, <3>2
  <2>3. ASSUME NEW x \in s, x # c PROVE SumOf(f, s) = f[x] + SumOf(f, s \ {x})
    <3>1. SumOf(f, s \ {c}) = f[x] + SumOf(f, (s \ {c}) \ {x})
      BY <2>2, <2>3
    <3>2. SumOf(f, s \ {x}) = f[c] + SumOf(f, (s \ {x}) \ {c})
      BY <2>2, <2>3
    <3>3. (s \ {c}) \ {x} = (s \ {x}) \ {c}
      OBVIOUS
    <3>4. SumOf(f, (s \ {c}) \ {x}) \in Int
      <4> DEFINE t == s \ {c}
      <4>1. t \in SUBSET S /\ x \in t /\ Cardinality(t) <= n
        BY <2>2, <2>3
      <4>2. t \ {x} \in SUBSET S /\ Cardinality(t \ {x}) <= n
        <5> HIDE DEF t
        <5> QED
          BY <1>1, <4>1
      <4> QED
        BY <2>0, <4>2
    <3>5. SumOf(f, s \ {c}) \in Int /\ SumOf(f, s \ {x}) \in Int /\ f[x] \in Int /\ f[c] \in Int
      BY <2>2, <2>3
    <3> DEFINE a == SumOf(f, s \ {c})
               b == SumOf(f, s \ {x})
               d == SumOf(f, (s \ {c}) \ {x})
    <3>6. a = f[x] + d /\ b = f[c] + d /\ SumOf(f, s) = f[c] + a
      BY <2>1, <3>1, <3>2, <3>3
    <3>7. a \in Int /\ b \in Int /\ d \in Int
      BY <3>4, <3>5
    <3> HIDE DEF a, b, d
    <3>8. SumOf(f, s) = f[x] + b
      BY <3>5, <3>6, <3>7
    <3> QED
      BY <3>8 DEF b
  <2>4. SumOf(f, s) \in Int
    <3>1. SumOf(f, s \ {c}) \in Int /\ f[c] \in Int
      BY <2>2
    <3> QED
      BY <2>1, <3>1
  <2> QED
    BY <2>1, <2>3, <2>4
<1>4. Cardinality(S) \in P
  <2>1. Cardinality(S) \in Nat
    BY FS_CardinalityType
  <2> HIDE DEF P
  <2> QED
    BY <1>2, <1>3, <2>1, CountInduction
<1> QED
  BY <1>4


\* A further element adds its number.
LEMMA SumTakesIn ==
  ASSUME NEW S, IsFiniteSet(S), NEW f, NEW y, y \notin S,
         \A x \in S : f[x] \in Int, f[y] \in Int
  PROVE  SumOf(f, S \cup {y}) = f[y] + SumOf(f, S)
<1> DEFINE T == S \cup {y}
<1>1. IsFiniteSet(T) /\ y \in T /\ (\A x \in T : f[x] \in Int) /\ T \ {y} = S
  BY FS_AddElement
<1> HIDE DEF T
<1>2. SumOf(f, T) = f[y] + SumOf(f, T \ {y})
  BY <1>1, SumTakesOut
<1> QED
  BY <1>1, <1>2 DEF T

\* The larger the numbers, the larger the sum; the same numbers, the same sum.
LEMMA SumGrows ==
  ASSUME NEW S, IsFiniteSet(S), NEW f, NEW g,
         \A x \in S : f[x] \in Int /\ g[x] \in Int /\ f[x] <= g[x]
  PROVE  SumOf(f, S) <= SumOf(g, S)
<1> DEFINE P == {T \in SUBSET S : SumOf(f, T) <= SumOf(g, T)}
<1>1. {} \in P
  BY SumOfNone
<1>2. ASSUME NEW T \in SUBSET S, NEW x \in S \ T, T \in P PROVE T \cup {x} \in P
  <2>1. IsFiniteSet(T)
    BY FS_Subset
  <2>2. SumOf(f, T) \in Int /\ SumOf(g, T) \in Int
    BY <2>1, SumTakesOut
  <2>3. SumOf(f, T \cup {x}) = f[x] + SumOf(f, T) /\ SumOf(g, T \cup {x}) = g[x] + SumOf(g, T)
    BY <2>1, SumTakesIn
  <2>4. f[x] \in Int /\ g[x] \in Int /\ f[x] <= g[x] /\ SumOf(f, T) <= SumOf(g, T)
    BY <1>2
  <2> QED
    BY <2>2, <2>3, <2>4
<1>3. S \in P
  <2> HIDE DEF P
  <2> QED
    BY <1>1, <1>2, SetInduction
<1> QED
  BY <1>3

LEMMA SumAgrees ==
  ASSUME NEW S, IsFiniteSet(S), NEW f, NEW g,
         \A x \in S : f[x] \in Int /\ g[x] = f[x]
  PROVE  SumOf(f, S) = SumOf(g, S)
<1>1. SumOf(f, S) <= SumOf(g, S) /\ SumOf(g, S) <= SumOf(f, S)
  BY SumGrows
<1>2. SumOf(f, S) \in Int /\ SumOf(g, S) \in Int
  BY SumTakesOut
<1> QED
  BY <1>1, <1>2

\* A constant, and the sum of sums.
LEMMA SumOfConstant ==
  ASSUME NEW S, IsFiniteSet(S), NEW f, NEW c \in Int, \A x \in S : f[x] = c
  PROVE  SumOf(f, S) = c * Cardinality(S)
<1> DEFINE P == {T \in SUBSET S : SumOf(f, T) = c * Cardinality(T)}
<1>1. {} \in P
  BY SumOfNone, FS_EmptySet
<1>2. ASSUME NEW T \in SUBSET S, NEW x \in S \ T, T \in P PROVE T \cup {x} \in P
  <2>1. IsFiniteSet(T) /\ Cardinality(T) \in Nat /\ Cardinality(T \cup {x}) = Cardinality(T) + 1
    BY FS_Subset, FS_CardinalityType, FS_AddElement
  <2>2. SumOf(f, T \cup {x}) = c + SumOf(f, T)
    BY <2>1, SumTakesIn
  <2>3. SumOf(f, T \cup {x}) = c * Cardinality(T \cup {x})
    BY <1>2, <2>1, <2>2
  <2> QED
    BY <2>3
<1>3. S \in P
  <2> HIDE DEF P
  <2> QED
    BY <1>1, <1>2, SetInduction
<1> QED
  BY <1>3

LEMMA SumOfSums ==
  ASSUME NEW S, IsFiniteSet(S), NEW f, NEW g, NEW h,
         \A x \in S : f[x] \in Int /\ g[x] \in Int /\ h[x] = f[x] + g[x]
  PROVE  SumOf(h, S) = SumOf(f, S) + SumOf(g, S)
<1> DEFINE P == {T \in SUBSET S : SumOf(h, T) = SumOf(f, T) + SumOf(g, T)}
<1>1. {} \in P
  BY SumOfNone
<1>2. ASSUME NEW T \in SUBSET S, NEW x \in S \ T, T \in P PROVE T \cup {x} \in P
  <2>1. IsFiniteSet(T)
    BY FS_Subset
  <2>2. SumOf(f, T) \in Int /\ SumOf(g, T) \in Int
    BY <2>1, SumTakesOut
  <2>3. (\A y \in T : h[y] \in Int) /\ h[x] \in Int
    OBVIOUS
  <2>4. /\ SumOf(f, T \cup {x}) = f[x] + SumOf(f, T)
        /\ SumOf(g, T \cup {x}) = g[x] + SumOf(g, T)
        /\ SumOf(h, T \cup {x}) = h[x] + SumOf(h, T)
    <3>1. SumOf(h, T \cup {x}) = h[x] + SumOf(h, T)
      BY <2>1, <2>3, SumTakesIn
    <3> QED
      BY <2>1, <3>1, SumTakesIn
  <2>5. SumOf(h, T) = SumOf(f, T) + SumOf(g, T) /\ f[x] \in Int /\ g[x] \in Int /\ h[x] = f[x] + g[x]
    BY <1>2
  <2>6. SumOf(h, T \cup {x}) = SumOf(f, T \cup {x}) + SumOf(g, T \cup {x})
    BY <2>2, <2>4, <2>5
  <2> QED
    BY <2>6
<1>3. S \in P
  <2> HIDE DEF P
  <2> QED
    BY <1>1, <1>2, SetInduction
<1> QED
  BY <1>3

\* One number more by d, the sum more by d.
LEMMA SumChanges ==
  ASSUME NEW S, IsFiniteSet(S), NEW f, NEW g, NEW y \in S, NEW d \in Int,
         \A x \in S : f[x] \in Int, \A x \in S \ {y} : g[x] = f[x], g[y] = f[y] + d
  PROVE  SumOf(g, S) = SumOf(f, S) + d
<1> DEFINE T == S \ {y}
<1>1. IsFiniteSet(T) /\ T \subseteq S /\ \A x \in T : f[x] \in Int /\ g[x] = f[x]
  BY FS_Subset
<1>2. SumOf(f, T) = SumOf(g, T) /\ SumOf(f, T) \in Int
  <2> HIDE DEF T
  <2>1. \A x \in T : f[x] \in Int
    BY <1>1
  <2> QED
    BY <1>1, <2>1, SumAgrees, SumTakesOut
<1>3. SumOf(f, S) = f[y] + SumOf(f, T)
  BY SumTakesOut
<1>4. \A x \in S : g[x] \in Int
  OBVIOUS
<1>5. SumOf(g, S) = g[y] + SumOf(g, T)
  BY <1>4, SumTakesOut
<1> HIDE DEF T
<1> QED
  BY <1>2, <1>3, <1>5

\* One number larger and none smaller, the sum larger.
LEMMA SumGrowsMore ==
  ASSUME NEW S, IsFiniteSet(S), NEW f, NEW g, NEW y \in S,
         \A x \in S : f[x] \in Int /\ g[x] \in Int /\ f[x] <= g[x], f[y] < g[y]
  PROVE  SumOf(f, S) < SumOf(g, S)
<1> DEFINE T == S \ {y}
<1>1. IsFiniteSet(T) /\ T \subseteq S
  BY FS_Subset
<1>2. SumOf(f, T) <= SumOf(g, T) /\ SumOf(f, T) \in Int /\ SumOf(g, T) \in Int
  <2>1. \A x \in T : f[x] \in Int /\ g[x] \in Int /\ f[x] <= g[x]
    BY <1>1
  <2> HIDE DEF T
  <2> QED
    BY <1>1, <2>1, SumGrows, SumTakesOut
<1>3. SumOf(f, S) = f[y] + SumOf(f, T) /\ SumOf(g, S) = g[y] + SumOf(g, T)
  BY SumTakesOut
<1>4. f[y] \in Int /\ g[y] \in Int
  OBVIOUS
<1> HIDE DEF T
<1> QED
  BY <1>2, <1>3, <1>4

\* The elements of A counted over S.
LEMMA SumCounts ==
  ASSUME NEW S, IsFiniteSet(S), NEW A \in SUBSET S, NEW f,
         \A x \in A : f[x] = 1, \A x \in S \ A : f[x] = 0
  PROVE  SumOf(f, S) = Cardinality(A)
<1> DEFINE P == {T \in SUBSET S : SumOf(f, T) = Cardinality(A \cap T)}
<1>1. {} \in P
  BY SumOfNone, FS_EmptySet
<1>2. ASSUME NEW T \in SUBSET S, NEW x \in S \ T, T \in P PROVE T \cup {x} \in P
  <2>1. IsFiniteSet(T) /\ IsFiniteSet(A \cap T) /\ Cardinality(A \cap T) \in Nat
    BY FS_Subset, FS_CardinalityType
  <2>0. \A y \in S : f[y] \in {0, 1}
    OBVIOUS
  <2>a. x \notin T /\ (\A y \in T : f[y] \in Int) /\ f[x] \in Int
    BY <2>0
  <2>2. SumOf(f, T \cup {x}) = f[x] + SumOf(f, T)
    BY <2>1, <2>a, SumTakesIn
  <2>3. CASE x \in A
    <3>1. A \cap (T \cup {x}) = (A \cap T) \cup {x}
      BY <2>3
    <3>2. Cardinality((A \cap T) \cup {x}) = Cardinality(A \cap T) + 1
      BY <2>1, FS_AddElement
    <3> QED
      BY <1>2, <2>1, <2>2, <2>3, <3>1, <3>2
  <2>4. CASE x \notin A
    <3>1. A \cap (T \cup {x}) = A \cap T
      BY <2>4
    <3>2. f[x] = 0
      BY <2>4
    <3>3. SumOf(f, T \cup {x}) = Cardinality(A \cap (T \cup {x}))
      BY <1>2, <2>1, <2>2, <3>1, <3>2
    <3> QED
      BY <3>3
  <2> QED
    BY <2>3, <2>4
<1>3. S \in P
  <2> HIDE DEF P
  <2> QED
    BY <1>1, <1>2, SetInduction
<1>4. A \cap S = A
  OBVIOUS
<1> QED
  BY <1>3, <1>4

LEMMA SumOfNaturals ==
  ASSUME NEW S, IsFiniteSet(S), NEW f, \A x \in S : f[x] \in Nat
  PROVE  SumOf(f, S) \in Nat
<1> DEFINE z == [x \in S |-> 0]
<1>1. SumOf(z, S) = 0 * Cardinality(S)
  <2>1. \A x \in S : z[x] = 0
    OBVIOUS
  <2> HIDE DEF z
  <2> QED
    BY <2>1, SumOfConstant
<1>2. SumOf(z, S) <= SumOf(f, S)
  <2>1. \A x \in S : z[x] \in Int /\ f[x] \in Int /\ z[x] <= f[x]
    OBVIOUS
  <2> HIDE DEF z
  <2> QED
    BY <2>1, SumGrows
<1>3. SumOf(f, S) \in Int /\ Cardinality(S) \in Nat
  BY SumTakesOut, FS_CardinalityType
<1> HIDE DEF z
<1> QED
  BY <1>1, <1>2, <1>3

\* Of numbers a part adds up to no more than all of them.
LEMMA SumOfPart ==
  ASSUME NEW S, IsFiniteSet(S), NEW T \in SUBSET S, NEW f, \A x \in S : f[x] \in Nat
  PROVE  SumOf(f, T) <= SumOf(f, S)
<1> DEFINE g == [x \in S |-> IF x \in T THEN f[x] ELSE 0]
           P == {U \in SUBSET S : SumOf(g, U) = SumOf(f, U \cap T)}
<1>0. \A x \in S : f[x] \in Int /\ g[x] \in Int /\ g[x] <= f[x]
                   /\ (x \in T => g[x] = f[x]) /\ (x \notin T => g[x] = 0)
  OBVIOUS
<1> HIDE DEF g
<1>1. {} \in P
  <2>1. {} \cap T = {}
    OBVIOUS
  <2> QED
    BY <2>1, SumOfNone
<1>2. ASSUME NEW U \in SUBSET S, NEW x \in S \ U, U \in P PROVE U \cup {x} \in P
  <2>1. IsFiniteSet(U) /\ IsFiniteSet(U \cap T) /\ (\A y \in U : g[y] \in Int) /\ (\A y \in U \cap T : f[y] \in Int)
    BY <1>0, FS_Subset
  <2>2. SumOf(g, U \cup {x}) = g[x] + SumOf(g, U)
    BY <1>0, <2>1, SumTakesIn
  <2>3. SumOf(g, U) = SumOf(f, U \cap T) /\ SumOf(g, U) \in Int
    BY <1>2, <2>1, SumTakesOut
  <2>4. SumOf(f, (U \cup {x}) \cap T) = g[x] + SumOf(f, U \cap T)
    <3>1. CASE x \in T
      <4>1. (U \cup {x}) \cap T = (U \cap T) \cup {x}
        BY <3>1
      <4> QED
        BY <1>0, <2>1, <3>1, <4>1, SumTakesIn
    <3>2. CASE x \notin T
      <4>1. (U \cup {x}) \cap T = U \cap T
        BY <3>2
      <4>2. g[x] = 0 /\ SumOf(f, U \cap T) \in Int
        BY <1>0, <2>3, <3>2
      <4>3. SumOf(f, (U \cup {x}) \cap T) = SumOf(f, U \cap T)
        BY <4>1
      <4> QED
        BY <4>2, <4>3
    <3> QED
      BY <3>1, <3>2
  <2> QED
    BY <2>2, <2>3, <2>4
<1>3. S \in P
  <2> HIDE DEF P
  <2> QED
    BY <1>1, <1>2, SetInduction
<1>4. SumOf(g, S) <= SumOf(f, S)
  BY <1>0, SumGrows
<1>5. S \cap T = T
  OBVIOUS
<1> QED
  BY <1>3, <1>4, <1>5

-----------------------------------------------------------------------------
(* Sums over the elements of a sequence.                                     *)

\* A sum over a sequence, with its last element apart,
LEMMA SumWithLast ==
  ASSUME NEW n \in Nat, NEW f, NEW g, \A i \in 1..(n + 1) : f[i] \in Int, \A i \in 1..n : g[i] = f[i]
  PROVE  SumOf(f, 1..(n + 1)) = SumOf(g, 1..n) + f[n + 1] /\ SumOf(g, 1..n) \in Int
<1>1. IsFiniteSet(1..n)
  BY FS_Interval
<1>2. 1..(n + 1) = (1..n) \cup {n + 1} /\ n + 1 \notin 1..n
  OBVIOUS
<1>3. \A i \in 1..n : f[i] \in Int
  OBVIOUS
<1>4. PICK S : S = 1..n
  OBVIOUS
<1>5. PICK m : m = n + 1
  OBVIOUS
<1>6. IsFiniteSet(S) /\ m \notin S /\ f[m] \in Int /\ (\A i \in S : f[i] \in Int) /\ 1..m = S \cup {m}
  BY <1>1, <1>2, <1>3, <1>4, <1>5
<1>7. SumOf(f, S \cup {m}) = f[m] + SumOf(f, S)
  BY <1>6, SumTakesIn
<1>8. \A i \in S : f[i] \in Int /\ g[i] = f[i]
  BY <1>4, <1>6
<1>9. SumOf(f, S) = SumOf(g, S)
  BY <1>6, <1>8, SumAgrees
<1>10. SumOf(f, S) \in Int
  BY <1>6, SumTakesOut
<1>11. SumOf(f, 1..m) = SumOf(g, S) + f[m]
  <2>1. PICK a : a = SumOf(f, S)
    OBVIOUS
  <2>2. a \in Int /\ f[m] \in Int /\ a = SumOf(g, S) /\ SumOf(f, 1..m) = f[m] + a
    BY <1>6, <1>7, <1>9, <1>10, <2>1
  <2>3. f[m] + a = a + f[m]
    BY <2>2
  <2> QED
    BY <2>2, <2>3
<1>12. SumOf(g, S) \in Int
  BY <1>9, <1>10
<1> QED
  BY <1>4, <1>5, <1>11, <1>12

\* and with its first.
LEMMA SumWithFirst ==
  ASSUME NEW n \in Nat, NEW f, NEW g, \A i \in 1..(n + 1) : f[i] \in Int, \A i \in 1..n : g[i] = f[i + 1]
  PROVE  SumOf(f, 1..(n + 1)) = f[1] + SumOf(g, 1..n) /\ SumOf(g, 1..n) \in Int
<1> DEFINE Good(k) == SumOf(f, 1..(k + 1)) = f[1] + SumOf(g, 1..k) /\ SumOf(g, 1..k) \in Int
           P == {k \in Nat : k <= n => Good(k)}
<1>0. \A i \in 1..n : i + 1 \in 1..(n + 1)
  OBVIOUS
<1>1. \A i \in 1..n : g[i] \in Int
  BY <1>0
<1>2. Good(0)
  <2>1. f[1] \in Int /\ 1..(0 + 1) = {} \cup {1} /\ 1..0 = {} /\ 1 \notin {}
    OBVIOUS
  <2>2. SumOf(f, {}) = 0 /\ SumOf(g, {}) = 0
    BY SumOfNone
  <2>3. IsFiniteSet({})
    BY FS_EmptySet
  <2>4. SumOf(f, {} \cup {1}) = f[1] + SumOf(f, {})
    BY <2>1, <2>3, SumTakesIn
  <2> QED
    BY <2>1, <2>2, <2>4
<1>3. ASSUME NEW k \in 0..(n - 1), Good(k) PROVE Good(k + 1)
  <2>1. PICK m : m = k + 1
    OBVIOUS
  <2>2. m \in Nat /\ m <= n /\ m + 1 <= n + 1 /\ k \in Nat /\ m \in 1..n
    BY <2>1
  <2>3. \A i \in 1..(m + 1) : f[i] \in Int
    BY <2>2
  <2>4. SumOf(f, 1..(m + 1)) = SumOf(f, 1..m) + f[m + 1]
    BY <2>2, <2>3, SumWithLast
  <2>5. \A i \in 1..(k + 1) : g[i] \in Int
    BY <1>1, <2>1, <2>2
  <2>6. SumOf(g, 1..(k + 1)) = SumOf(g, 1..k) + g[k + 1]
    BY <2>2, <2>5, SumWithLast
  <2>7. g[m] = f[m + 1] /\ g[m] \in Int
    BY <1>1, <2>2
  <2>8. SumOf(f, 1..m) = f[1] + SumOf(g, 1..k) /\ SumOf(g, 1..k) \in Int
    BY <1>3, <2>1
  <2>9. f[1] \in Int
    BY <2>2
  <2>10. SumOf(f, 1..(m + 1)) = f[1] + SumOf(g, 1..m) /\ SumOf(g, 1..m) \in Int
    BY <2>1, <2>4, <2>6, <2>7, <2>8, <2>9
  <2> QED
    BY <2>1, <2>10
<1> HIDE DEF Good
<1>4. 0 \in P
  BY <1>2
<1>5. ASSUME NEW k \in 0..(n - 1), k \in P PROVE k + 1 \in P
  BY <1>3, <1>5
<1>6. n \in P
  <2> HIDE DEF P
  <2>1. \A k \in 0..n : k \in P
    BY <1>4, <1>5, CountInduction
  <2> QED
    BY <2>1
<1>7. Good(n)
  BY <1>6
<1> QED
  BY <1>7 DEF Good
=============================================================================
