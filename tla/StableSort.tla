------------------------------ MODULE StableSort ------------------------------
(***************************************************************************)
(* Python's sorted() and its list comprehensions with a condition, by the  *)
(* positions of a list: which are taken, and which comes before which.     *)
(* Elements that the order does not tell apart stay as they came.          *)
(***************************************************************************)
EXTENDS Integers, FiniteSets, Sequences

\* The members of a set in an order given as pairs: k - 1 of them come before the k-th.
Arranged(I, R) == [k \in 1..Cardinality(I) |-> CHOOSE i \in I : Cardinality({j \in I : <<j, i>> \in R}) = k - 1]

Ascending(I) == Arranged(I, {p \in I \X I : p[1] < p[2]})

\* Of two positions, the one with the lesser element, else the one that was first.
Precedence(s, I, less) == {p \in I \X I : \/ <<s[p[1]], s[p[2]]>> \in less
                                          \/ p[1] < p[2] /\ <<s[p[2]], s[p[1]]>> \notin less}

\* sorted([s[i] for i in I], key=...), with the pairs of elements of which one's key is less.
SortedBy(s, I, less) ==
  LET places == Arranged(I, Precedence(s, I, less)) IN [k \in DOMAIN places |-> s[places[k]]]

\* [s[i] for i in I], I a set of positions.
Selected(s, I) == SortedBy(s, I, {})
=============================================================================
