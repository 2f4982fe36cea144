-------------------------------- MODULE Rank --------------------------------
(***************************************************************************)
(* The ranking of the results in a report: plugrank and its helpers        *)
(* pairwise_winner, borda_scores and final_cmp (src/turbobench.c).         *)
(*                                                                         *)
(* Every two results duel over the chosen criteria; the Copeland score of  *)
(* a result is its duels won less its duels lost.  The Borda score gives   *)
(* points per criterion.  The results are sorted by score and numbered.    *)
(*                                                                         *)
(* The value of a criterion is a length or a time: less is better.  Borda  *)
(* scores are halves; they are kept doubled.                               *)
(***************************************************************************)
EXTENDS Integers, Sequences, FiniteSets, FiniteSetsExt

CONSTANTS
  Tables,    \* what is ranked: sequences of [id, v], sorted by libcmp
  RankModes, \* -K: the chosen criteria, subsets of Criteria
  Top        \* 1e15, above every Copeland score

Criteria == {"ratio", "comp", "decomp"}

\* plugrank returns when there is nothing to rank; a table has PLUGN + 1 entries.
ASSUME TableAssumption ==
  \A t \in Tables : t \in Seq([id : Nat, v : [Criteria -> Nat]]) /\ Len(t) \in 1..(Top - 1)
ASSUME ModeAssumption == RankModes \subseteq SUBSET Criteria /\ Top \in Nat

\* the id of imemcpy (plugin.cc: "must be 1")
P_MCPY == 1

VARIABLES
  plug, rankmode,  \* the table and -K
  pc,              \* "duels", "sort", "rank", "done"
  a, b,            \* the loops over pairs, and over order
  copeland, borda, \* scores, per index
  order,           \* indices, best first
  rank             \* per index, 0 before it is set

vars == <<plug, rankmode, pc, a, b, copeland, borda, order, rank>>

Index == DOMAIN plug
k == Cardinality(Index)

-----------------------------------------------------------------------------
(* Scores.                                                                 *)

Wins(x, y) == Cardinality({c \in rankmode : plug[x].v[c] < plug[y].v[c]})

\* Mistake: the duel goes to whoever wins at least as many criteria.
WinnerOrTie(x, y) == IF Wins(x, y) >= Wins(y, x) THEN 1 ELSE -1

\* 1: x wins, -1: y wins, 0: as many criteria each
pairwise_winner(x, y) ==
  IF Wins(x, y) > Wins(y, x) THEN 1 ELSE IF Wins(y, x) > Wins(x, y) THEN -1 ELSE 0

Ahead(x, c) == {y \in Index \ {x} : plug[y].v[c] < plug[x].v[c]}
Level(x, c) == {y \in Index \ {x} : plug[y].v[c] = plug[x].v[c]}

\* Mistake: those level with x keep all the points of the best place.
PointsOfBest(x, c) == 2 * (k - 1 - Cardinality(Ahead(x, c)))

\* The points of x for criterion c, doubled.
Points(x, c) == 2 * (k - 1 - Cardinality(Ahead(x, c))) - Cardinality(Level(x, c))

PointsOf(x) == [c \in Criteria |-> Points(x, c)]

borda_scores == [x \in Index |-> MapThenSumSet(LAMBDA c : PointsOf(x)[c], rankmode)]

-----------------------------------------------------------------------------
(* The order.                                                              *)

\* The chosen criteria are compared in turn.
Smaller(x, y, c, rest) == c \in rankmode /\ plug[x].v[c] < plug[y].v[c]
                          /\ \A e \in rest \cap rankmode : plug[x].v[e] = plug[y].v[e]
SmallerIn(x, y) == \/ Smaller(x, y, "ratio", {}) \/ Smaller(x, y, "comp", {"ratio"})
                   \/ Smaller(x, y, "decomp", {"ratio", "comp"})
SameIn(x, y) == \A c \in rankmode : plug[x].v[c] = plug[y].v[c]

\* Mistake: fewer points come first.
CmpAscending(x, y) ==
  \/ copeland[x] > copeland[y]
  \/ copeland[x] = copeland[y] /\ borda[x] < borda[y]
  \/ copeland[x] = copeland[y] /\ borda[x] = borda[y]
     /\ (SmallerIn(x, y) \/ (SameIn(x, y) /\ plug[x].id <= plug[y].id))

\* final_cmp puts x before y; with everything equal it says so of both
final_cmp(x, y) ==
  \/ copeland[x] > copeland[y]
  \/ copeland[x] = copeland[y] /\ borda[x] > borda[y]
  \/ copeland[x] = copeland[y] /\ borda[x] = borda[y]
     /\ (SmallerIn(x, y) \/ (SameIn(x, y) /\ plug[x].id <= plug[y].id))

\* what qsort may return
Sorted == {o \in [Index -> Index] : /\ \A x, y \in Index : x # y => o[x] # o[y]
                                    /\ \A x, y \in Index : x < y => final_cmp(o[x], o[y])}

\* Mistake: only results of the same codec can be identical.
IdenticalCodec(x, y) == plug[x].id = plug[y].id /\ copeland[x] = copeland[y] /\ borda[x] = borda[y]

Identical(x, y) ==
  copeland[x] = copeland[y] /\ borda[x] = borda[y] /\ \A c \in Criteria : plug[x].v[c] = plug[y].v[c]

-----------------------------------------------------------------------------
(* plugrank.                                                               *)

Init ==
  /\ plug \in Tables /\ rankmode \in RankModes
  /\ pc = "duels" /\ a = 1 /\ b = 2
  /\ copeland = [x \in Index |-> 0] /\ borda = [x \in Index |-> 0]
  /\ order = [x \in Index |-> x] /\ rank = [x \in Index |-> 0]

Duel ==
  /\ pc = "duels" /\ a < k /\ b <= k
  /\ LET w == pairwise_winner(a, b)
     IN  copeland' = [copeland EXCEPT ![a] = @ + w, ![b] = @ - w]
  /\ IF b < k THEN b' = b + 1 /\ a' = a ELSE a' = a + 1 /\ b' = a + 2
  /\ UNCHANGED <<plug, rankmode, pc, borda, order, rank>>

\* borda_scores, and the score of all but memcpy set to the top
Borda ==
  /\ pc = "duels" /\ a >= k
  /\ borda' = borda_scores
  /\ copeland' = [x \in Index |-> IF plug[x].id > P_MCPY THEN Top ELSE copeland[x]]
  /\ pc' = "sort"
  /\ UNCHANGED <<plug, rankmode, a, b, order, rank>>

\* qsort; the first gets rank 1
Sort ==
  /\ pc = "sort"
  /\ order' \in Sorted
  /\ rank' = [rank EXCEPT ![order'[1]] = 1]
  /\ a' = 2
  /\ pc' = "rank"
  /\ UNCHANGED <<plug, rankmode, b, copeland, borda>>

\* Mistake: the next rank, not the place.
RankNextDense ==
  /\ pc = "rank" /\ a <= k
  /\ LET prev == order[a - 1]  cur == order[a]
     IN  rank' = [rank EXCEPT ![cur] = IF Identical(cur, prev) THEN rank[prev] ELSE rank[prev] + 1]
  /\ a' = a + 1
  /\ UNCHANGED <<plug, rankmode, pc, b, copeland, borda, order>>

\* Mistake: the place counted from 2.
RankNextLater ==
  /\ pc = "rank" /\ a <= k
  /\ LET prev == order[a - 1]  cur == order[a]
     IN  rank' = [rank EXCEPT ![cur] = IF Identical(cur, prev) THEN rank[prev] ELSE a + 1]
  /\ a' = a + 1
  /\ UNCHANGED <<plug, rankmode, pc, b, copeland, borda, order>>

\* the next in order: the rank of the one before it if identical, else its place
RankNext ==
  /\ pc = "rank" /\ a <= k
  /\ LET prev == order[a - 1]  cur == order[a]
     IN  rank' = [rank EXCEPT ![cur] = IF Identical(cur, prev) THEN rank[prev] ELSE a]
  /\ a' = a + 1
  /\ UNCHANGED <<plug, rankmode, pc, b, copeland, borda, order>>

Done ==
  /\ pc = "rank" /\ a > k
  /\ pc' = "done"
  /\ UNCHANGED <<plug, rankmode, a, b, copeland, borda, order, rank>>

Next == Duel \/ Borda \/ Sort \/ RankNext \/ Done

Spec == Init /\ [][Next]_vars

-----------------------------------------------------------------------------
(* Properties.                                                             *)

\* The variables have their types.
TypeOK ==
  /\ \A x \in Index : plug[x].id \in Nat /\ plug[x].v \in [Criteria -> Nat]
  /\ rankmode \in SUBSET Criteria
  /\ pc \in {"duels", "sort", "rank", "done"}
  /\ a \in 1..(k + 1) /\ b \in 2..(k + 2)
  /\ copeland \in [Index -> (-k)..k \cup {Top}] /\ borda \in [Index -> Nat]
  /\ order \in [Index -> Index] /\ rank \in [Index -> 0..k]

\* Nothing is won that is not lost.  With all duels over, and before borda_scores, the
\* scores of all results add up to nothing, and those of one are its wins less its losses;
\* after it ("candidates tied on a criterion split the points they would occupy evenly",
\* src/turbobench.c:677) all the points of every criterion are given away, whatever the ties.
PointsGivenAway ==
  /\ pc = "duels" /\ a >= k =>
       /\ MapThenSumSet(LAMBDA x : copeland[x], Index) = 0
       /\ \A x \in Index : copeland[x] = Cardinality({y \in Index : Wins(x, y) > Wins(y, x)})
                                         - Cardinality({y \in Index : Wins(y, x) > Wins(x, y)})
  /\ pc = "sort" => MapThenSumSet(LAMBDA x : borda[x], Index) = Cardinality(rankmode) * k * (k - 1)

\* A codec at least as good in every chosen criterion as another one and better in
\* one has the better rank; memcpy comes after all codecs.
DominatedIsBehind ==
  pc = "done" => \A x, y \in Index :
    (\/ plug[x].id > P_MCPY /\ plug[y].id <= P_MCPY
     \/ (plug[x].id > P_MCPY <=> plug[y].id > P_MCPY)
        /\ (\A c \in rankmode : plug[x].v[c] <= plug[y].v[c])
        /\ (\E c \in rankmode : plug[x].v[c] < plug[y].v[c]))
    => rank[x] < rank[y]

\* A rank says how many are better: one more than the results with a smaller rank.
\* With all criteria chosen the ranks do not depend on what qsort makes of equal
\* results: different ranks mean different values.
RankIsPlace ==
  pc = "done" =>
    /\ \A x \in Index : rank[x] = 1 + Cardinality({y \in Index : rank[y] < rank[x]})
    /\ rankmode = Criteria =>
         \A x, y \in Index :
           (plug[x].id > P_MCPY <=> plug[y].id > P_MCPY) /\ plug[x].v = plug[y].v => rank[x] = rank[y]

\* "ONE global ranking using the Copeland pairwise method (primary) with a
\* Borda-count tie-break" (src/turbobench.c:724): who wins more duels than another, net of
\* those lost, has the better rank.
Score(x) == Cardinality({y \in Index : Wins(x, y) > Wins(y, x)})
            - Cardinality({y \in Index : Wins(y, x) > Wins(x, y)})
CopelandPrimary == pc = "done" => \A x, y \in Index : Score(x) > Score(y) => rank[x] < rank[y]
=============================================================================
