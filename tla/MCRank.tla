------------------------------- MODULE MCRank -------------------------------
(* Tables of three results with three values per criterion, in the order of libcmp. *)
EXTENDS Rank

Values == 1..3
Results == [ratio : Values, comp : Values, decomp : Values]
IdsOf == {<<2, 3, 4>>, <<2, 2, 1>>}

libcmp(x, y) == x.ratio < y.ratio \/ (x.ratio = y.ratio /\ x.decomp <= y.decomp)

Three == {[n \in 1..3 |-> [id |-> ids[n], v |-> <<x, y, z>>[n]]] :
            ids \in IdsOf, x \in Results, y \in Results, z \in Results}
SortedTables == {t \in Three : libcmp(t[1].v, t[2].v) /\ libcmp(t[2].v, t[3].v)}

\* all criteria, one, two, and none
Modes == {Criteria, {"ratio"}, {"comp", "decomp"}, {}}

\* real codecs only
CodecTables == {t \in SortedTables : \A n \in 1..3 : t[n].id > 1}
FullMode == {Criteria}
=============================================================================
