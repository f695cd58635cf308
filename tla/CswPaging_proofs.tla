---------------------------- MODULE CswPaging_proofs ----------------------------
(***************************************************************************)
(* Proofs about the paged CSW harvest, for catalogues and pages of every   *)
(* size, every style of server and every number of attempts: types, that   *)
(* no record is listed twice, that errors get their own names, and that a  *)
(* walk which ends well has listed all it should.                          *)
(*                                                                         *)
(* The heart of PagingInv is that the list holds nothing from the position *)
(* the walk has reached on.  A page adds what lies between this position   *)
(* and the next one, and the next one lies behind the page, whichever      *)
(* attribute of the answer it comes from.                                  *)
(*                                                                         *)
(* WalkInv adds what is behind this position: all of it, and nothing else, *)
(* while max_records is not reached.  So a page that max_records cuts      *)
(* brings the list to exactly the first good records, which is counted by  *)
(* rank, the number of good records up to a place: the rank in the         *)
(* catalogue is the rank on the page plus what was listed before           *)
(* (RankParts, BudgetCut).                                                 *)
(***************************************************************************)
EXTENDS CswPaging, Lemmas

\* A page is a part of the catalogue, and what is counted on it is a number.
LEMMA PageSets ==
  ASSUME CswAssumption, NEW k
  PROVE  /\ IsFiniteSet(Places) /\ Span(k) \subseteq Places
         /\ Kept(k) \subseteq Iso(k) /\ Iso(k) \subseteq Span(k)
         /\ Cardinality(Iso(k)) \in Nat
         /\ Cardinality(Kept(k) \cap Good(k)) \in Nat
<1>1. IsFiniteSet(Places) BY FS_Interval DEF CswAssumption, Places
<1>2. /\ Span(k) \subseteq Places /\ Kept(k) \subseteq Iso(k)
      /\ Iso(k) \subseteq Span(k)
  BY DEF Span, Kept, Iso
<1>3. IsFiniteSet(Iso(k)) /\ IsFiniteSet(Kept(k) \cap Good(k))
  BY <1>1, <1>2, FS_Subset
<1> QED BY <1>1, <1>2, <1>3, FS_CardinalityType

\* The lengths a page can have.
LEMMA LengthType ==
  ASSUME NEW k \in Lengths
  PROVE  k \in Nat
BY DEF Lengths

\* Without other records on it, a page counts as many ISO records as it spans.
LEMMA FullPage ==
  ASSUME CswAssumption, TypeOK, NEW k \in Nat, Iso(k) # {},
         \A p \in Places : kind[p] # "other"
  PROVE  \A p \in Span(k) : p < start + Cardinality(Iso(k))
<1> DEFINE end == IF start + k - 1 <= Size THEN start + k - 1 ELSE Size
<1>1. /\ start \in Nat \ {0} /\ Size \in Nat
  BY DEF TypeOK, CswAssumption
<1>2. Iso(k) = Span(k) BY DEF Iso, Span
<1>3. Span(k) = start..end BY <1>1 DEF Span, Places
<1>4. start <= end BY <1>1, <1>2, <1>3
<1>5. Cardinality(Iso(k)) = end - start + 1
  BY <1>1, <1>2, <1>3, <1>4, FS_Interval
<1> QED BY <1>1, <1>3, <1>4, <1>5

\* The next position is a number; it lies behind the page if the last answer
\* was cut like the ISO page.
LEMMA NextPosition ==
  ASSUME CswAssumption, TypeOK, NEW k \in Nat, NEW a \in Nat, Iso(k) # {},
         Advance(k, a) # Done
  PROVE  /\ Advance(k, a) \in Nat \ {0}
         /\ a = k /\ ~Overlaps =>
              \A p \in Places : p >= Advance(k, a) => p \notin Span(k)
<1>1. /\ start \in Nat \ {0} /\ Size \in Nat /\ Cardinality(Iso(k)) \in Nat
  BY PageSets DEF TypeOK, CswAssumption
<1> DEFINE next == NextStart(k, a)
<1>2. next \in Int BY <1>1 DEF NextStart, NextRecord, Returned, Matches, No, Done
<1>3. Advance(k, a) = next /\ next > start BY <1>1, <1>2 DEF Advance, Done
<1>4. ASSUME a = k, ~Overlaps, NEW p \in Places, p >= next, p \in Span(k) PROVE FALSE
  <2>1. p \in Int /\ start <= p /\ p < start + k /\ p <= Size
    BY <1>1, <1>4 DEF Span, Places
  <2>2. CASE NextRecord(a) # No
    <3>1. next = NextRecord(a) BY <2>2 DEF NextStart
    <3> QED BY <1>1, <1>3, <1>4, <2>1, <2>2, <3>1 DEF NextRecord, No
  <2>3. CASE NextRecord(a) = No /\ Returned(a) > 0
    <3>1. Returned(a) = a /\ next = start + a
      BY <1>1, <2>3 DEF NextStart, Returned, No
    <3> QED BY <1>1, <1>4, <2>1, <3>1
  <2>4. CASE NextRecord(a) = No /\ ~(Returned(a) > 0)
    <3>1. next = start + Cardinality(Iso(k)) /\ Matches # No
      BY <1>1, <1>3, <2>4 DEF NextStart, Done
    <3>2. k > 0 BY <1>1, <2>1
    <3>3. style = "matches"
      <4>1. style \in Styles BY DEF TypeOK
      <4> QED BY <4>1, <1>1, <1>4, <2>1, <2>4, <3>1, <3>2
              DEF Styles, NextRecord, Returned, Matches, No
    <3>4. \A q \in Places : kind[q] # "other" BY <1>4, <3>3 DEF Overlaps
    <3> QED BY <1>1, <1>4, <2>1, <3>1, <3>4, FullPage
  <2> QED BY <2>2, <2>3, <2>4
<1> QED BY <1>1, <1>2, <1>3, <1>4

-----------------------------------------------------------------------------
(* Each action preserves PagingInv. *)

\* Before the first request the list is empty.
LEMMA InitInv == ASSUME CswAssumption, Init PROVE PagingInv
<1>1. start \in Nat \ {0} /\ tries \in 1..Attempts BY DEF Init, CswAssumption
<1>2. times \in [Places -> Nat] /\ name \in [Places -> Places \cup {NoName}] BY DEF Init
<1>3. TypeOK BY <1>1, <1>2 DEF Init, TypeOK
<1> QED BY <1>3 DEF Init, PagingInv, Once

\* The catalogue and the server stay what they are,
LEMMA SameCatalogue == ASSUME UNCHANGED setup PROVE Overlaps' <=> Overlaps
BY DEF setup, Overlaps

\* so that a step which touches neither list nor position keeps the invariant
\* if it does not enter a page.
LEMMA FailureInv ==
  ASSUME CswAssumption, PagingInv, TransientFailure \/ PermanentFailure
  PROVE  PagingInv'
<1> USE DEF PagingInv
<1>1. UNCHANGED <<setup, tries, abandoned, start, page, answered, list>>
  BY DEF TransientFailure, PermanentFailure
<1>2. phase' \in {"rest"} \cup Ended /\ job' \in {"connect", "page"}
  BY DEF TransientFailure, PermanentFailure, EndsAs, Ended, TypeOK
<1>3. phase' = "rest" => tries < Attempts
  BY DEF TransientFailure, PermanentFailure, EndsAs
<1>4. TypeOK' BY <1>1, <1>2 DEF TypeOK, setup, list
<1>5. Once' BY <1>1, SameCatalogue DEF Once, list
<1> QED BY <1>1, <1>2, <1>3, <1>4, <1>5 DEF Ended, list

\* A new attempt starts with an empty list.
LEMMA RestedInv == ASSUME CswAssumption, PagingInv, Rested PROVE PagingInv'
<1> USE DEF PagingInv, Rested, NewList
<1>1. times' = [p \in Places |-> 0] OBVIOUS
<1>2. phase' \in {"connect", "page"} BY DEF TypeOK
<1>3. tries' \in 1..Attempts BY DEF TypeOK, CswAssumption
<1>4. start' \in Nat \ {0} BY DEF TypeOK, CswAssumption
<1>5. name' \in [Places -> Places \cup {NoName}] /\ times' \in [Places -> Nat]
  OBVIOUS
<1>6. TypeOK' BY <1>2, <1>3, <1>4, <1>5 DEF TypeOK, setup
<1>7. Once' BY <1>1 DEF Once
<1> QED BY <1>1, <1>2, <1>6, <1>7

\* Cancelling changes no list.
LEMMA CancelInv == ASSUME CswAssumption, PagingInv, Cancel PROVE PagingInv'
<1> USE DEF PagingInv, Cancel
<1>1. /\ UNCHANGED <<setup, job, tries, start, page, answered, list>>
      /\ phase' \in {phase, "cancelled"} /\ abandoned' \in BOOLEAN
  BY DEF TypeOK
<1>2. TypeOK' BY <1>1 DEF TypeOK, setup, list, Ended
<1>3. Once' BY <1>1, SameCatalogue DEF Once, list
<1>4. Iso(page)' = Iso(page) BY <1>1 DEF Iso, Span, setup
<1> QED BY <1>1, <1>2, <1>3, <1>4, SameCatalogue DEF list

\* A connection made is followed by the first page, with an empty list.
LEMMA ConnectedInv == ASSUME CswAssumption, PagingInv, Connected PROVE PagingInv'
<1> USE DEF PagingInv, Connected, EndsAs
<1>1. /\ UNCHANGED <<setup, job, abandoned, start, page, answered, list>>
      /\ phase' \in {"page", "cancelled"}
      /\ times' = [p \in Places |-> 0]
  BY DEF list
<1>2. tries' \in 1..Attempts BY DEF CswAssumption
<1>3. TypeOK' BY <1>1, <1>2 DEF TypeOK, setup, list, Ended
<1>4. Once' BY <1>1 DEF Once
<1> QED BY <1>1, <1>3, <1>4

\* A page that goes into the list was not there, and what lies behind the next
\* position is not on it.
LEMMA TakePageInv ==
  ASSUME CswAssumption, PagingInv, phase \in {"page", "names"},
         NEW k \in Nat, NEW a \in Nat, Iso(k) # {}, TakePage(k, a),
         SameCut => a = k,
         UNCHANGED <<setup, job, tries, abandoned, blank>>,
         page' \in Nat, answered' \in Nat,
         name' \in [Places -> Places \cup {NoName}]
  PROVE  PagingInv'
<1> USE DEF PagingInv
<1>1. /\ times \in [Places -> Nat] /\ start \in Nat \ {0} /\ count \in Nat
  BY DEF TypeOK
<1>2. /\ times' \in [Places -> Nat]
      /\ \A p \in Places : times'[p] = times[p] + IF p \in Kept(k) THEN 1 ELSE 0
  BY <1>1 DEF TakePage
<1>3. count' \in Nat BY <1>1, PageSets DEF TakePage
<1>4. \/ phase' \in {"done", "cancelled"} /\ start' = start
      \/ phase' = "page" /\ start' = Advance(k, a) /\ Advance(k, a) # Done
  BY DEF TakePage, EndsAs
<1>5. start' \in Nat \ {0} BY <1>1, <1>4, NextPosition
<1>6. TypeOK' BY <1>2, <1>3, <1>4, <1>5 DEF TypeOK, setup, Ended
<1>7. ASSUME SameCut, ~Overlaps, NEW p \in Places
      PROVE  times'[p] <= 1 /\ (p \notin Span(k) /\ p >= start => times'[p] = 0)
  <2>1. p \in Kept(k) => p \in Span(k) BY PageSets
  <2>2. p \in Span(k) => p >= start BY DEF Span
  <2>3. times[p] <= 1 BY <1>7 DEF Once
  <2>4. p >= start => times[p] = 0 BY <1>7
  <2> QED BY <1>1, <1>2, <2>1, <2>2, <2>3, <2>4
<1>8. Once' BY <1>7, SameCatalogue DEF Once
<1>9. ASSUME phase' \in {"page", "names"}, SameCut, ~Overlaps,
             NEW p \in Places, p >= start'
      PROVE  times'[p] = 0
  <2>1. start' = Advance(k, a) /\ Advance(k, a) # Done /\ a = k BY <1>4, <1>9
  <2>2. p \notin Span(k) BY <1>9, <2>1, NextPosition
  <2>3. start' > start BY <1>1, <2>1 DEF Advance, Done, NextStart, NextRecord,
    Returned, Matches, No
  <2> QED BY <1>1, <1>5, <1>7, <1>9, <2>2, <2>3 DEF Places
<1> QED BY <1>4, <1>6, <1>8, <1>9, SameCatalogue

\* The ISO page arrives.
LEMMA PageArrivesInv ==
  ASSUME CswAssumption, PagingInv, NEW k, PageArrives(k)
  PROVE  PagingInv'
<1> USE DEF PagingInv
<1>1. k \in Nat /\ phase = "page" BY LengthType DEF PageArrives
<1>2. CASE Iso(k) # {} /\ Anonymous(k) = {}
  <2>1. TakePage(k, k) /\ UNCHANGED <<setup, job, tries, abandoned, name, blank>>
    BY <1>2 DEF PageArrives
  <2>2. /\ page' \in Nat /\ answered' \in Nat
        /\ name' \in [Places -> Places \cup {NoName}]
    BY <1>1, <2>1 DEF PageArrives, TypeOK
  <2> QED BY <1>1, <1>2, <2>1, <2>2, TakePageInv
<1>3. CASE ~(Iso(k) # {} /\ Anonymous(k) = {})
  <2>1. /\ UNCHANGED <<setup, job, tries, abandoned, start, count, times, name>>
        /\ page' = k /\ answered' = k
    BY <1>3 DEF PageArrives
  <2>2. \/ Iso(k) = {} /\ phase' \in {"done", "cancelled"} /\ blank' \in BOOLEAN
        \/ Iso(k) # {} /\ phase' = "names" /\ blank' = blank
    <3>1. CASE Iso(k) = {} BY <3>1 DEF PageArrives, EndsAs
    <3>2. CASE Iso(k) # {}
      <4>1. Anonymous(k) # {} BY <1>3, <3>2
      <4> QED BY <3>2, <4>1 DEF PageArrives
    <3> QED BY <3>1, <3>2
  <2>3. TypeOK' BY <1>1, <2>1, <2>2 DEF TypeOK, setup, Ended
  <2>4. Once' BY <2>1, SameCatalogue DEF Once
  <2>5. Iso(k)' = Iso(k) BY <2>1 DEF Iso, Span, setup
  <2> QED BY <1>1, <2>1, <2>2, <2>3, <2>4, <2>5, SameCatalogue
<1> QED BY <1>2, <1>3

\* The anonymous errors get their names, or stay without.
LEMMA NamesInv ==
  ASSUME CswAssumption, PagingInv,
         (\E a \in Places : NamesArrive(a)) \/ NamesFail
  PROVE  PagingInv'
<1> USE DEF PagingInv
<1>1. CASE NamesFail
  <2>1. /\ page \in Nat /\ answered \in Nat /\ answered = page /\ Iso(page) # {}
        /\ name \in [Places -> Places \cup {NoName}]
    BY <1>1 DEF NamesFail, TypeOK
  <2> QED BY <1>1, <2>1, TakePageInv DEF NamesFail
<1>2. ASSUME NEW a \in Places, NamesArrive(a) PROVE PagingInv'
  <2>1. a \in Nat /\ page \in Nat /\ Unmatched(a) \subseteq Places /\ Iso(page) # {}
    BY <1>2 DEF Places, TypeOK, Unmatched, Span, NamesArrive
  <2>2. name' \in [Places -> Places \cup {NoName}]
    <3> DEFINE ids(p) == {q \in Unmatched(a) :
                            Rank(Unmatched(a), q) = Rank(Anonymous(page), p)}
    <3>1. \A p \in Places :
            (IF p \notin Anonymous(page) THEN name[p]
             ELSE IF ids(p) = {} THEN NoName ELSE CHOOSE q \in ids(p) : TRUE)
            \in Places \cup {NoName}
      <4>1. TAKE p \in Places
      <4>2. name[p] \in Places \cup {NoName} BY DEF TypeOK
      <4>3. ids(p) # {} => (CHOOSE q \in ids(p) : TRUE) \in Places BY <2>1
      <4> HIDE DEF ids
      <4> QED BY <4>2, <4>3
    <3> QED BY <1>2, <3>1 DEF NamesArrive
  <2> QED BY <1>2, <2>1, <2>2, TakePageInv DEF NamesArrive
<1> QED BY <1>1, <1>2

\* Every step preserves the invariant.
LEMMA NextInv ==
  ASSUME CswAssumption, PagingInv, [Next]_vars
  PROVE  PagingInv'
<1>1. CASE TransientFailure \/ PermanentFailure BY <1>1, FailureInv
<1>2. CASE Rested BY <1>2, RestedInv
<1>3. CASE Cancel BY <1>3, CancelInv
<1>4. CASE Connected BY <1>4, ConnectedInv
<1>5. CASE \E k \in Places \cup {0} : PageArrives(k) BY <1>5, PageArrivesInv
<1>6. CASE (\E a \in Places : NamesArrive(a)) \/ NamesFail BY <1>6, NamesInv
<1>7. CASE UNCHANGED vars
  <2>1. TypeOK' BY <1>7 DEF vars, setup, list, TypeOK, PagingInv
  <2>2. Once' BY <1>7, SameCatalogue DEF vars, list, Once, PagingInv
  <2>3. Iso(page)' = Iso(page) BY <1>7 DEF vars, setup, Iso, Span
  <2> QED BY <1>7, <2>1, <2>2, <2>3, SameCatalogue DEF vars, list, PagingInv
<1> QED BY <1>1, <1>2, <1>3, <1>4, <1>5, <1>6, <1>7 DEF Next, Progress

-----------------------------------------------------------------------------
\* The invariant of the walk holds for catalogues of every size.
THEOREM PagingCorrect == Spec => []PagingInv
<1>1. Init => PagingInv BY CswAssumption, InitInv
<1>2. PagingInv /\ [Next]_vars => PagingInv' BY CswAssumption, NextInv
<1> QED BY <1>1, <1>2, PTL DEF Spec

\* Types of the walk; attempts never exceed their number.
THEOREM TypeCorrect == Spec => []TypeOK
<1>1. PagingInv => TypeOK BY DEF PagingInv
<1> QED BY <1>1, PagingCorrect, PTL

\* No record is listed twice, whatever the page borders, retries and second
\* requests, as long as the server cuts both answers of a page alike.
THEOREM OnceCorrect == Spec => []Once
<1>1. PagingInv => Once BY DEF PagingInv
<1> QED BY <1>1, PagingCorrect, PTL

-----------------------------------------------------------------------------
(* Counting by rank *)

\* Parts of the catalogue can be counted.
LEMMA PartOf ==
  ASSUME CswAssumption, NEW T \in SUBSET Places
  PROVE  /\ IsFiniteSet(T) /\ Cardinality(T) \in Nat /\ Cardinality(T) <= Size
         /\ \A p \in T : p \in Nat /\ 1 <= p /\ p <= Size
<1>1. Size \in Nat BY DEF CswAssumption
<1>2. IsFiniteSet(Places) /\ Cardinality(Places) = Size BY <1>1, FS_Interval DEF Places
<1>3. IsFiniteSet(T) /\ Cardinality(T) <= Size BY <1>2, FS_Subset
<1>4. Cardinality(T) \in Nat BY <1>3, FS_CardinalityType
<1> QED BY <1>1, <1>3, <1>4 DEF Places

\* Members of different rank: the rank grows with the place.
LEMMA RankGrows ==
  ASSUME CswAssumption, NEW T \in SUBSET Places, NEW p \in T, NEW q \in T, q < p
  PROVE  Rank(T, q) < Rank(T, p)
<1> DEFINE A == {r \in T : r <= q}
           B == {r \in T : r <= p}
<1>1. p \in Nat /\ q \in Nat BY PartOf
<1>2. A \subseteq B /\ p \in B /\ p \notin A
  <2>1. \A r \in T : r \in Nat BY PartOf
  <2>2. \A r \in T : r <= q => r <= p BY <1>1, <2>1
  <2>3. p <= p /\ ~(p <= q) BY <1>1
  <2> QED BY <2>2, <2>3
<1>3. IsFiniteSet(B) /\ Cardinality(A) \in Nat /\ Cardinality(B) \in Nat
  <2>1. A \in SUBSET Places /\ B \in SUBSET Places OBVIOUS
  <2> HIDE DEF A, B
  <2> QED BY <2>1, PartOf
<1>4. Cardinality(A) <= Cardinality(B) /\ Cardinality(A) # Cardinality(B)
  <2> HIDE DEF A, B
  <2> QED BY <1>2, <1>3, FS_Subset
<1> QED BY <1>3, <1>4 DEF Rank

\* The parts of a set in front of a place, and between two.
Under(T, s) == {q \in T : q < s}
Between(T, s, e) == {q \in T : s <= q /\ q < e}

\* Ranks when a set is cut at two places.
LEMMA RankParts ==
  ASSUME CswAssumption, NEW T \in SUBSET Places, NEW s \in Nat, NEW e \in Nat, s <= e
  PROVE  LET A == Under(T, s)
             B == Between(T, s, e)
         IN  /\ A \subseteq Places /\ B \subseteq Places
             /\ \A p \in A : Rank(T, p) \in Nat /\ Rank(T, p) <= Cardinality(A)
             /\ \A p \in B : /\ Rank(B, p) \in Nat /\ Rank(T, p) \in Nat
                             /\ Rank(T, p) = Cardinality(A) + Rank(B, p)
             /\ \A p \in T : p >= e => /\ Rank(T, p) \in Nat
                                      /\ Rank(T, p) > Cardinality(A) + Cardinality(B)
             /\ Cardinality(A) + Cardinality(B) <= Cardinality(T)
<1> DEFINE A == Under(T, s)
           B == Between(T, s, e)
<1> USE DEF Under, Between
<1>0. \A p \in T : p \in Nat BY PartOf
<1>1. /\ A \in SUBSET Places /\ B \in SUBSET Places
      /\ IsFiniteSet(A) /\ IsFiniteSet(B) /\ Cardinality(A) \in Nat /\ Cardinality(B) \in Nat
      /\ IsFiniteSet(T) /\ Cardinality(T) \in Nat
  BY PartOf
<1>2. A \cap B = {} BY <1>0
<1>3. Cardinality(A \cup B) = Cardinality(A) + Cardinality(B) BY <1>1, <1>2, DisjointParts
<1>4. Cardinality(A \cup B) <= Cardinality(T)
  <2>1. A \cup B \in SUBSET T OBVIOUS
  <2> QED BY <1>1, <2>1, FS_Subset
<1>5. ASSUME NEW p \in A PROVE Rank(T, p) \in Nat /\ Rank(T, p) <= Cardinality(A)
  <2> DEFINE R == {q \in T : q <= p}
  <2>1. R \in SUBSET A BY <1>0
  <2>2. Cardinality(R) \in Nat /\ Cardinality(R) <= Cardinality(A)
    <3> HIDE DEF R
    <3> QED BY <1>1, <2>1, FS_Subset, FS_CardinalityType
  <2> QED BY <2>2 DEF Rank
<1>6. ASSUME NEW p \in B
      PROVE  Rank(B, p) \in Nat /\ Rank(T, p) \in Nat /\ Rank(T, p) = Cardinality(A) + Rank(B, p)
  <2> DEFINE R == {q \in B : q <= p}
             All == {q \in T : q <= p}
  <2>1. All = A \cup R /\ A \cap R = {} BY <1>0
  <2>2. IsFiniteSet(R) /\ Cardinality(R) \in Nat BY <1>1, PartOf
  <2>3. Cardinality(All) = Cardinality(A) + Cardinality(R)
    <3> HIDE DEF All, R
    <3> QED BY <1>1, <2>1, <2>2, DisjointParts
  <2>4. Rank(B, p) = Cardinality(R) /\ Rank(T, p) = Cardinality(All) BY DEF Rank
  <2> QED BY <1>1, <2>2, <2>3, <2>4
<1>7. ASSUME NEW p \in T, p >= e
      PROVE  Rank(T, p) \in Nat /\ Rank(T, p) > Cardinality(A) + Cardinality(B)
  <2> DEFINE All == {q \in T : q <= p}
             S == A \cup B
  <2>1. S \subseteq All /\ p \in All /\ p \notin S BY <1>0, <1>7
  <2>2. IsFiniteSet(All) /\ Cardinality(All) \in Nat BY PartOf
  <2>3. Cardinality(S) <= Cardinality(All) /\ Cardinality(S) # Cardinality(All)
    <3> HIDE DEF All, S
    <3> QED BY <2>1, <2>2, FS_Subset
  <2>4. Rank(T, p) = Cardinality(All) BY DEF Rank
  <2> QED BY <1>1, <1>3, <2>2, <2>3, <2>4
<1> QED BY <1>1, <1>3, <1>4, <1>5, <1>6, <1>7

\* If the first m members of a set are not all of it, they are m.
LEMMA FullBudget ==
  ASSUME CswAssumption, NEW T \in SUBSET Places, NEW m \in Nat,
         NEW K, K = {q \in T : Rank(T, q) <= m}, K # T
  PROVE  Cardinality(K) \in Nat /\ Cardinality(K) >= m
<1> DEFINE Rest == T \ K
<1>1. Rest \in SUBSET Nat /\ Rest # {} BY PartOf
<1>2. PICK p \in Rest : \A q \in Rest : p <= q
  <2> HIDE DEF Rest
  <2> QED BY <1>1, LeastNumber
<1>3. p \in T /\ p \in Nat /\ ~(Rank(T, p) <= m) BY <1>1
<1> DEFINE A == {q \in T : q < p}
           R == {q \in T : q <= p}
<1>4. A \in SUBSET K
  <2>1. ASSUME NEW q \in T, q < p PROVE q \in K
    <3>1. q \in Nat BY PartOf
    <3> QED BY <1>2, <1>3, <2>1, <3>1
  <2> QED BY <2>1
<1>5. R = A \cup {p} /\ p \notin A
  <2>1. \A q \in T : q \in Nat BY PartOf
  <2>2. \A q \in T : q <= p <=> q < p \/ q = p BY <1>3, <2>1
  <2>3. ~(p < p) /\ p <= p BY <1>3
  <2> QED BY <1>3, <2>2, <2>3
<1>6. IsFiniteSet(A) /\ IsFiniteSet(K) /\ Cardinality(A) \in Nat /\ Cardinality(K) \in Nat
  <2>1. A \in SUBSET Places /\ K \in SUBSET Places OBVIOUS
  <2> HIDE DEF A
  <2> QED BY <2>1, PartOf
<1>7. Cardinality(R) = Cardinality(A) + 1
  <2> HIDE DEF A, R
  <2> QED BY <1>5, <1>6, FS_AddElement
<1>8. Cardinality(A) <= Cardinality(K)
  <2> HIDE DEF A
  <2> QED BY <1>4, <1>6, FS_Subset
<1>9. Rank(T, p) = Cardinality(R) BY DEF Rank
<1> QED BY <1>3, <1>6, <1>7, <1>8, <1>9

\* What a page that is cut to the budget adds to what was listed before.
LEMMA BudgetCut ==
  ASSUME CswAssumption, NEW T \in SUBSET Places, NEW s \in Nat, NEW e \in Nat, s <= e,
         NEW n \in Nat, Cardinality(Under(T, s)) < n,
         NEW K, K = {q \in Between(T, s, e) : Rank(Between(T, s, e), q) <= n - Cardinality(Under(T, s))}
  PROVE  /\ Cardinality(Under(T, s)) + Cardinality(K) < n => K = Between(T, s, e)
         /\ Cardinality(Under(T, s)) + Cardinality(K) >= n \/ (\A p \in T : p < e) =>
              Under(T, s) \cup K = {p \in T : Rank(T, p) <= n}
         /\ Cardinality(Under(T, s)) + Cardinality(K) <= Cardinality(T)
<1> DEFINE A == Under(T, s)
           B == Between(T, s, e)
<1>1. /\ A \subseteq Places /\ B \subseteq Places
      /\ \A p \in A : Rank(T, p) \in Nat /\ Rank(T, p) <= Cardinality(A)
      /\ \A p \in B : /\ Rank(B, p) \in Nat /\ Rank(T, p) \in Nat
                      /\ Rank(T, p) = Cardinality(A) + Rank(B, p)
      /\ \A p \in T : p >= e => /\ Rank(T, p) \in Nat
                               /\ Rank(T, p) > Cardinality(A) + Cardinality(B)
      /\ Cardinality(A) + Cardinality(B) <= Cardinality(T)
  BY RankParts
<1> USE DEF Under, Between
<1>2. Cardinality(A) \in Nat /\ Cardinality(B) \in Nat /\ IsFiniteSet(B) /\ Cardinality(T) \in Nat
  <2>1. A \in SUBSET Places /\ B \in SUBSET Places BY <1>1
  <2> QED BY <2>1, PartOf
<1>3. PICK m \in Nat : m = n - Cardinality(A)
  <2>1. \A c \in Nat : c < n => n - c \in Nat OBVIOUS
  <2> QED BY <1>2, <2>1
<1>4. Cardinality(K) \in Nat /\ Cardinality(K) <= Cardinality(B)
  BY <1>2, FS_Subset, FS_CardinalityType
<1>5. K # B => Cardinality(K) >= m
  <2>1. B \in SUBSET Places /\ K = {q \in B : Rank(B, q) <= m} BY <1>1, <1>3
  <2> QED BY <2>1, FullBudget
<1>6. ASSUME Cardinality(A) + Cardinality(K) >= n \/ \A p \in T : p < e, NEW p \in T
      PROVE  p \in A \cup K <=> Rank(T, p) <= n
  <2>0. p \in Nat BY PartOf
  <2>1. CASE p < s
    <3>1. p \in A BY <2>1
    <3>2. Rank(T, p) \in Nat /\ Rank(T, p) <= Cardinality(A) BY <1>1, <3>1
    <3> QED BY <1>2, <3>1, <3>2
  <2>2. CASE s <= p /\ p < e
    <3>1. p \in B /\ p \notin A BY <2>0, <2>2
    <3>2. Rank(B, p) \in Nat /\ Rank(T, p) = Cardinality(A) + Rank(B, p) BY <1>1, <3>1
    <3>3. Rank(B, p) <= m <=> Rank(T, p) <= n BY <1>2, <1>3, <3>2
    <3> QED BY <1>3, <3>1, <3>3
  <2>3. CASE e <= p
    <3>1. p \notin A \cup K BY <2>0, <2>3
    <3>2. Rank(T, p) \in Nat /\ Rank(T, p) > Cardinality(A) + Cardinality(B) BY <1>1, <2>0, <2>3
    <3>3. Cardinality(A) + Cardinality(K) >= n BY <1>6, <2>0, <2>3
    <3> QED BY <1>2, <1>4, <3>1, <3>2, <3>3
  <2> QED BY <2>0, <2>1, <2>2, <2>3
<1>7. Cardinality(A) + Cardinality(K) >= n \/ (\A p \in T : p < e) =>
        A \cup K = {p \in T : Rank(T, p) <= n}
  <2>1. A \cup K \subseteq T OBVIOUS
  <2> QED BY <1>6, <2>1
<1> QED BY <1>1, <1>2, <1>3, <1>4, <1>5, <1>7

-----------------------------------------------------------------------------
(* Names *)

\* How long a page can be.
LEMMA LengthBounds ==
  ASSUME CswAssumption, TypeOK, NEW k \in Lengths
  PROVE  /\ k \in Nat /\ k <= PageSize /\ PageSize \in Nat
         /\ start <= Size => k >= 1 /\ start + k - 1 <= Size
         /\ start > Size => k = 0
<1>1. start \in Nat \ {0} /\ Size \in Nat /\ PageSize \in Nat
  BY DEF TypeOK, CswAssumption, PageSize
<1>2. CASE start > Size BY <1>1, <1>2 DEF Lengths
<1>3. CASE start <= Size
  <2>0. Size - start + 1 \in Nat BY <1>1, <1>3
  <2>1. PICK I \in SUBSET Nat : I = {PageSize, Size - start + 1} BY <1>1, <2>0
  <2>2. Min(I) \in I /\ \A n \in I : Min(I) <= n BY <2>1, MinNumber
  <2>3. k \in 1..Min(I) BY <1>1, <1>3, <2>1 DEF Lengths
  <2>4. Min(I) \in Nat /\ Min(I) <= PageSize /\ Min(I) <= Size - start + 1 BY <2>1, <2>2
  <2> QED BY <1>1, <1>3, <2>3, <2>4
<1> QED BY <1>1, <1>2, <1>3

\* On a page whose errors and records before p are all anonymous or good, the
\* anonymous errors up to p are the Dublin Core identifiers left up to p.
LEMMA OwnName ==
  ASSUME CswAssumption, TypeOK, page \in Lengths, NEW p \in Anonymous(page),
         \A q \in Places : q < p /\ p - q < PageSize => kind[q] \notin {"bad", "other"},
         NEW q \in Unmatched(page), Rank(Unmatched(page), q) = Rank(Anonymous(page), p)
  PROVE  q = p
<1>1. /\ start \in Nat /\ page \in Nat /\ page <= PageSize /\ PageSize \in Nat
      /\ kind \in [Places -> Kinds]
  BY LengthBounds DEF TypeOK
<1>2. PICK U \in SUBSET Places : U = Unmatched(page) BY DEF Unmatched, Span
<1>3. p \in U BY <1>2 DEF Unmatched, Anonymous, Span, Good
<1>4. \A r \in Places : r \in Nat BY PartOf
<1>5. p \in Nat /\ q \in U /\ q \in Nat /\ p \in Places BY <1>2, <1>4 DEF Anonymous, Span
<1>6. ASSUME NEW r \in Places, r <= p PROVE r \in U <=> r \in Anonymous(page)
  <2>1. r \in Span(page) => start <= r /\ p < start + page BY DEF Span, Anonymous
  <2>2. r \in Span(page) /\ r # p => r < p /\ p - r < PageSize BY <1>1, <1>4, <1>5, <1>6, <2>1
  <2>3. r \in Span(page) => kind[r] \notin {"bad", "other"}
    <3>1. kind[p] = "anon" BY DEF Anonymous
    <3> QED BY <2>2, <3>1
  <2>4. kind[r] \in Kinds BY <1>1
  <2>5. r \in U => r \in Span(page) /\ kind[r] # "good" BY <1>2 DEF Unmatched, Good
  <2>6. r \in Anonymous(page) => r \in U BY <1>2 DEF Anonymous, Unmatched, Good
  <2> QED BY <2>3, <2>4, <2>5, <2>6 DEF Kinds, Anonymous
<1>7. {r \in U : r <= p} = {r \in Anonymous(page) : r <= p}
  <2>1. Anonymous(page) \subseteq Places BY DEF Anonymous, Span
  <2> QED BY <1>6, <2>1
<1>8. Rank(U, p) = Rank(U, q) BY <1>2, <1>7 DEF Rank
<1>9. \A r \in U : Rank(U, r) \in Nat
  <2>1. ASSUME NEW r \in U PROVE Rank(U, r) \in Nat
    <3>1. {t \in U : t <= r} \in SUBSET Places OBVIOUS
    <3> QED BY <3>1, PartOf DEF Rank
  <2> QED BY <2>1
<1>10. ~(p < q) /\ ~(q < p)
  <2>1. Rank(U, p) \in Nat /\ Rank(U, q) \in Nat BY <1>3, <1>5, <1>9
  <2>2. p < q => Rank(U, p) < Rank(U, q) BY <1>3, <1>5, RankGrows
  <2>3. q < p => Rank(U, q) < Rank(U, p) BY <1>3, <1>5, RankGrows
  <2> QED BY <1>8, <2>1, <2>2, <2>3
<1> QED BY <1>5, <1>10

\* No step gives an error the name of another record.
LEMMA NamedStep ==
  ASSUME CswAssumption, TypeOK, phase = "names" => page \in Lengths, NamedRight, [Next]_vars
  PROVE  NamedRight'
<1>1. CASE name' = name /\ kind' = kind BY <1>1 DEF NamedRight
<1>2. CASE Rested BY <1>2 DEF Rested, NewList, NamedRight
<1>3. ASSUME NEW a \in Places, NamesArrive(a) PROVE NamedRight'
  <2>1. kind' = kind BY <1>3 DEF NamesArrive, setup
  <2>2. ASSUME SameCut, NEW p \in Places,
               \A q \in Places : q < p /\ p - q < PageSize => kind[q] \notin {"bad", "other"}
        PROVE  name'[p] \in {p, NoName}
    <3>1. a = page /\ page \in Lengths BY <1>3, <2>2 DEF NamesArrive
    <3> DEFINE ids == {q \in Unmatched(page) : Rank(Unmatched(page), q) = Rank(Anonymous(page), p)}
    <3>2. CASE p \notin Anonymous(page)
      <4>1. name'[p] = name[p] BY <1>3, <3>2 DEF NamesArrive
      <4> QED BY <2>2, <4>1 DEF NamedRight
    <3>3. CASE p \in Anonymous(page)
      <4>1. name'[p] = IF ids = {} THEN NoName ELSE CHOOSE q \in ids : TRUE
        BY <1>3, <3>1, <3>3 DEF NamesArrive
      <4>2. \A q \in ids : q = p BY <2>2, <3>1, <3>3, OwnName
      <4> HIDE DEF ids
      <4> QED BY <4>1, <4>2
    <3> QED BY <3>2, <3>3
  <2> QED BY <2>1, <2>2 DEF NamedRight
<1>4. \/ name' = name /\ kind' = kind
      \/ Rested
      \/ \E a \in Places : NamesArrive(a)
  BY DEF Next, Progress, vars, setup, list, Connected, TransientFailure, PermanentFailure, PageArrives,
         NamesFail, Cancel
<1> QED BY <1>1, <1>2, <1>3, <1>4

-----------------------------------------------------------------------------
(* The whole catalogue *)

\* Where the walk goes on: behind the page, or nowhere if nothing is there.
LEMMA AdvanceIs ==
  ASSUME CswAssumption, TypeOK, Sound, NEW k \in Lengths, Iso(k) # {}
  PROVE  /\ start <= Size /\ k >= 1 /\ start + k - 1 <= Size
         /\ Advance(k, k) = Done => start + k > Size
         /\ Advance(k, k) # Done => Advance(k, k) = start + k
<1>0. start \in Nat \ {0} /\ Size \in Nat /\ k \in Nat /\ style \in Styles
  BY LengthBounds DEF TypeOK, CswAssumption
<1>1. start <= Size
  <2>1. PICK p \in Places : start <= p /\ p < start + k BY DEF Iso, Span
  <2> QED BY <1>0, <2>1 DEF Places
<1>2. k >= 1 /\ start + k - 1 <= Size BY <1>1, LengthBounds
<1>3. style = "matches" => Cardinality(Iso(k)) = k
  <2>1. ASSUME style = "matches" PROVE Iso(k) = start..(start + k - 1)
    <3>1. \A p \in Places : kind[p] # "other" BY <2>1 DEF Sound, Overlaps
    <3> QED BY <1>0, <1>2, <3>1 DEF Iso, Span, Places
  <2>2. Cardinality(start..(start + k - 1)) = k BY <1>0, <1>2, FS_Interval
  <2> QED BY <2>1, <2>2
<1>4. style \in {"next", "bare", "past", "returned", "count", "matches"}
  BY <1>0 DEF Styles, Sound
<1>5. CASE style \in {"next", "bare", "past"}
  <2>1. NextStart(k, k) = IF style \in {"next", "bare"} /\ start + k > Size THEN 0 ELSE start + k
    BY <1>0, <1>5 DEF NextStart, NextRecord, No
  <2>2. Matches \in {Size, No} BY DEF Matches
  <2>3. style = "past" => Matches = Size BY DEF Matches
  <2> QED BY <1>0, <1>1, <1>2, <1>5, <2>1, <2>2, <2>3 DEF Advance, Done, No
<1>6. CASE style \in {"returned", "count"}
  <2>1. NextStart(k, k) = start + k
    BY <1>0, <1>2, <1>6 DEF NextStart, NextRecord, Returned, No
  <2>2. Matches \in {Size, No} BY DEF Matches
  <2> QED BY <1>0, <1>1, <1>2, <1>6, <2>1, <2>2 DEF Advance, Done, No
<1>7. CASE style = "matches"
  <2>1. Matches = Size BY <1>7 DEF Matches
  <2>2. NextStart(k, k) = IF start + k <= Size THEN start + k ELSE 0
    BY <1>0, <1>3, <1>7, <2>1 DEF NextStart, NextRecord, Returned, No, Done
  <2> QED BY <1>0, <1>1, <1>2, <2>1, <2>2 DEF Advance, Done, No
<1> QED BY <1>1, <1>2, <1>4, <1>5, <1>6, <1>7

\* What Whole says of a walk that ends well.
AllTaken ==
  LET good == Wanted({"good"})
      kept == {p \in good : limit # NoLimit => Rank(good, p) <= limit}
  IN  /\ InList \cap good = kept
      /\ (limit = NoLimit \/ Cardinality(good) < limit) =>
           Wanted({"bad", "anon"}) \subseteq InList

\* What WalkInv says of the list.
UpToHere ==
  /\ start >= first
  /\ InList = {p \in Walked : kind[p] # "other"}
  /\ count = Cardinality({p \in Walked : kind[p] = "good"})
  /\ limit # NoLimit => count < limit

\* The good records up to here, and those of a page.
LEMMA GoodParts ==
  ASSUME CswAssumption, TypeOK, UpToHere, NEW k \in Nat
  PROVE  /\ Wanted({"good"}) \in SUBSET Places
         /\ {p \in Walked : kind[p] = "good"} = Under(Wanted({"good"}), start)
         /\ Good(k) = Between(Wanted({"good"}), start, start + k)
<1>1. start \in Nat /\ first \in Nat /\ \A p \in Places : p \in Nat
  BY PartOf DEF TypeOK, CswAssumption
<1>2. {p \in Walked : kind[p] = "good"} = Under(Wanted({"good"}), start)
  BY <1>1 DEF Walked, Under, Wanted
<1>3. \A p \in Places : p >= start => p >= first BY <1>1 DEF UpToHere
<1>4. Good(k) = Between(Wanted({"good"}), start, start + k)
  BY <1>1, <1>3 DEF Good, Span, Between, Wanted
<1> QED BY <1>2, <1>4 DEF Wanted

\* What a page adds to the list.
LEMMA PageAdds ==
  ASSUME CswAssumption, TypeOK, NEW k \in Nat, TakePage(k, k)
  PROVE  InList' = InList \cup Kept(k)
<1>1. \A p \in Places : times[p] \in Nat BY DEF TypeOK
<1>2. \A p \in Places : times'[p] = times[p] + IF p \in Kept(k) THEN 1 ELSE 0 BY DEF TakePage
<1>3. \A p \in Places : times'[p] > 0 <=> times[p] > 0 \/ p \in Kept(k) BY <1>1, <1>2
<1>4. Kept(k) \subseteq Places BY DEF Kept, Iso, Span
<1> QED BY <1>3, <1>4 DEF InList

\* A page goes into the list: it is all taken, or the budget is used up.
LEMMA WalkTake ==
  ASSUME CswAssumption, TypeOK, Sound, UpToHere, NEW k \in Lengths, Iso(k) # {}, TakePage(k, k),
         UNCHANGED setup
  PROVE  /\ phase' = "done" => AllTaken'
         /\ phase' = "page" => UpToHere'
<1>0. /\ start \in Nat /\ first \in Nat /\ Size \in Nat /\ k \in Nat /\ limit \in Nat /\ start + k \in Nat
      /\ start <= start + k /\ first <= start
      /\ \A p \in Places : p \in Nat /\ p <= Size
  BY LengthBounds, PartOf DEF TypeOK, CswAssumption, UpToHere
<1>1. /\ Advance(k, k) = Done => start + k > Size
      /\ Advance(k, k) # Done => Advance(k, k) = start + k
  BY AdvanceIs
<1>2. PICK T, A, B, K :
        /\ T = Wanted({"good"}) /\ A = Under(T, start) /\ B = Good(k) /\ K = Kept(k) \cap Good(k)
  OBVIOUS
<1>3. /\ T \in SUBSET Places /\ A = {p \in Walked : kind[p] = "good"}
      /\ B = Between(T, start, start + k) /\ count = Cardinality(A)
  BY <1>0, <1>2, GoodParts DEF UpToHere
<1>4. count' = Cardinality(A) + Cardinality(K) BY <1>2, <1>3 DEF TakePage
<1>5. /\ limit # NoLimit => K = {q \in B : Rank(B, q) <= limit - Cardinality(A)}
      /\ limit = NoLimit => K = B
      /\ K \subseteq B /\ A \subseteq Places /\ B \subseteq Places
  <2>1. Good(k) \subseteq Iso(k) /\ \A p \in Good(k) : kind[p] = "good" BY DEF Good, Iso
  <2>2. B \subseteq Places /\ A \subseteq Places BY <1>3 DEF Between, Under, Walked
  <2> QED BY <1>2, <1>3, <2>1, <2>2 DEF Kept
<1>6. /\ Cardinality(A) \in Nat /\ Cardinality(B) \in Nat /\ Cardinality(T) \in Nat
      /\ Cardinality(K) \in Nat
  <2>1. A \in SUBSET Places /\ B \in SUBSET Places /\ T \in SUBSET Places /\ K \in SUBSET Places
    BY <1>3, <1>5
  <2> QED BY <2>1, PartOf
<1>7. ASSUME limit # NoLimit
      PROVE  /\ Cardinality(A) + Cardinality(K) < limit => K = B
             /\ Cardinality(A) + Cardinality(K) >= limit \/ (\A p \in T : p < start + k) =>
                  A \cup K = {p \in T : Rank(T, p) <= limit}
             /\ Cardinality(A) + Cardinality(K) <= Cardinality(T)
  <2>1. Cardinality(Under(T, start)) < limit BY <1>2, <1>3, <1>7 DEF UpToHere
  <2>2. K = {q \in Between(T, start, start + k) :
               Rank(Between(T, start, start + k), q) <= limit - Cardinality(Under(T, start))}
    BY <1>2, <1>3, <1>5, <1>7
  <2>3. PICK s, e, n : s = start /\ e = start + k /\ n = limit OBVIOUS
  <2>4. s \in Nat /\ e \in Nat /\ s <= e /\ n \in Nat BY <1>0, <2>3
  <2>5. /\ T \in SUBSET Places /\ Cardinality(Under(T, s)) < n
        /\ K = {q \in Between(T, s, e) : Rank(Between(T, s, e), q) <= n - Cardinality(Under(T, s))}
    BY <1>3, <2>1, <2>2, <2>3
  <2>6. /\ Cardinality(Under(T, s)) + Cardinality(K) < n => K = Between(T, s, e)
        /\ Cardinality(Under(T, s)) + Cardinality(K) >= n \/ (\A p \in T : p < e) =>
             Under(T, s) \cup K = {p \in T : Rank(T, p) <= n}
        /\ Cardinality(Under(T, s)) + Cardinality(K) <= Cardinality(T)
    BY <2>4, <2>5, BudgetCut
  <2> QED BY <1>2, <1>3, <2>3, <2>6
<1>8. /\ InList' = InList \cup Kept(k) /\ InList = {p \in Walked : kind[p] # "other"}
      /\ InList \cap T = A /\ Kept(k) \cap T = K
  <2>1. InList' = InList \cup Kept(k) BY <1>0, PageAdds
  <2>2. InList = {p \in Walked : kind[p] # "other"} BY DEF UpToHere
  <2>3. InList \cap T = A BY <1>2, <1>3, <2>2 DEF Wanted, Walked
  <2>4. Kept(k) \subseteq Span(k) BY DEF Kept, Iso
  <2>5. \A p \in Span(k) : p \in T <=> p \in Good(k)
    <3>1. \A p \in Span(k) : p \in Places /\ p >= first BY <1>0 DEF Span
    <3> QED BY <1>2, <3>1 DEF Wanted, Good
  <2>6. Kept(k) \cap T = K BY <1>2, <2>4, <2>5
  <2> QED BY <2>1, <2>2, <2>3, <2>6
<1>9. \A p \in Iso(k) : kind[p] # "good" => p \in Kept(k) BY DEF Kept
<1>10. ASSUME phase' = "done" PROVE AllTaken'
  <2>1. (limit # NoLimit /\ Cardinality(A) + Cardinality(K) >= limit) \/ start + k > Size
    <3>1. (limit # NoLimit /\ count' >= limit) \/ Advance(k, k) = Done
      BY <1>10 DEF TakePage
    <3> QED BY <1>1, <1>4, <3>1
  <2>2. start + k > Size => \A p \in Places : p < start + k BY <1>0
  <2>3. A \cup K = {p \in T : limit # NoLimit => Rank(T, p) <= limit}
    <3>1. CASE limit # NoLimit BY <1>3, <1>7, <2>1, <2>2, <3>1
    <3>2. CASE limit = NoLimit
      <4>1. \A p \in T : p < start + k BY <1>3, <2>1, <2>2, <3>2
      <4>2. T = A \cup B BY <1>0, <1>2, <1>3, <4>1 DEF Under, Between
      <4> QED BY <1>5, <3>2, <4>2
    <3> QED BY <3>1, <3>2
  <2>4. InList' \cap T = A \cup K BY <1>8
  <2>5. ASSUME limit = NoLimit \/ Cardinality(T) < limit,
               NEW p \in Places, p >= first, kind[p] \in {"bad", "anon"}
        PROVE  p \in InList'
    <3>1. start + k > Size
      <4>1. limit # NoLimit => Cardinality(A) + Cardinality(K) <= Cardinality(T) BY <1>7
      <4> QED BY <1>0, <1>6, <2>1, <2>5, <4>1
    <3>2. CASE p < start BY <1>8, <2>5, <3>2 DEF Walked
    <3>3. CASE p >= start
      <4>1. p \in Iso(k) BY <2>2, <2>5, <3>1, <3>3 DEF Iso, Span
      <4> QED BY <1>8, <1>9, <2>5, <4>1
    <3> QED BY <1>0, <3>2, <3>3
  <2>6. Wanted({"good"})' = T /\ Wanted({"bad", "anon"})' = Wanted({"bad", "anon"}) /\ limit' = limit
    BY <1>2 DEF Wanted, setup
  <2>7. (limit = NoLimit \/ Cardinality(T) < limit) => Wanted({"bad", "anon"}) \subseteq InList'
    BY <2>5 DEF Wanted
  <2> QED BY <2>3, <2>4, <2>6, <2>7 DEF AllTaken, Rank
<1>11. ASSUME phase' = "page" PROVE UpToHere'
  <2>1. /\ ~(limit # NoLimit /\ Cardinality(A) + Cardinality(K) >= limit)
        /\ Advance(k, k) # Done /\ start' = start + k
    BY <1>1, <1>4, <1>11 DEF TakePage, EndsAs
  <2>2. limit # NoLimit => Cardinality(A) + Cardinality(K) < limit BY <1>0, <1>6, <2>1
  <2>3. K = B BY <1>5, <1>7, <2>2
  <2>4. Kept(k) = Iso(k)
    <3>1. \A p \in Iso(k) : kind[p] = "good" => p \in Good(k) BY DEF Iso, Good
    <3>2. Kept(k) \subseteq Iso(k) BY DEF Kept
    <3> QED BY <1>2, <1>9, <2>3, <3>1, <3>2
  <2>5. Walked' = Walked \cup Span(k)
    <3>1. \A p \in Places : first <= p /\ p < start + k <=>
                               (first <= p /\ p < start) \/ (start <= p /\ p < start + k)
      BY <1>0
    <3> QED BY <2>1, <3>1 DEF Walked, Span, setup
  <2>6. InList' = {p \in Walked' : kind'[p] # "other"}
    BY <1>8, <2>4, <2>5 DEF Iso, setup
  <2>7. {p \in Walked' : kind'[p] = "good"} = A \cup B BY <1>2, <1>3, <2>5 DEF Good, setup
  <2>8. Cardinality(A \cup B) = Cardinality(A) + Cardinality(B)
    <3>1. A \cap B = {} BY <1>0, <1>2, <1>3 DEF Under, Between
    <3>2. IsFiniteSet(A) /\ IsFiniteSet(B)
      <4>1. A \in SUBSET Places /\ B \in SUBSET Places BY <1>5
      <4> QED BY <4>1, PartOf
    <3> QED BY <3>1, <3>2, DisjointParts
  <2>9. count' = Cardinality({p \in Walked' : kind'[p] = "good"}) BY <1>4, <2>3, <2>7, <2>8
  <2>10. start' >= first' /\ (limit' # NoLimit => count' < limit')
    BY <1>0, <1>4, <2>1, <2>2 DEF setup
  <2> QED BY <2>6, <2>9, <2>10 DEF UpToHere
<1> QED BY <1>10, <1>11

\* A page without ISO records that ends the catalogue ends a walk that has all.
LEMMA WalkBlank ==
  ASSUME CswAssumption, TypeOK, Sound, UpToHere, NEW k \in Lengths, Iso(k) = {}, start + k > Size,
         UNCHANGED <<setup, times>>
  PROVE  AllTaken'
<1>0. /\ start \in Nat /\ first \in Nat /\ Size \in Nat /\ k \in Nat /\ limit \in Nat /\ start + k \in Nat
      /\ start <= start + k /\ first <= start
      /\ \A p \in Places : p \in Nat /\ p <= Size
  BY LengthBounds, PartOf DEF TypeOK, CswAssumption, UpToHere
<1>1. PICK T, A : T = Wanted({"good"}) /\ A = Under(T, start) OBVIOUS
<1>2. T \in SUBSET Places /\ A = {p \in Walked : kind[p] = "good"} /\ count = Cardinality(A)
  BY <1>0, <1>1, GoodParts DEF UpToHere
<1>3. \A p \in Places : p >= first /\ kind[p] # "other" => p \in Walked
  <2>1. ASSUME NEW p \in Places, p >= first, kind[p] # "other", ~(p < start) PROVE FALSE
    <3>1. p \in Iso(k) BY <1>0, <2>1 DEF Iso, Span
    <3> QED BY <3>1
  <2> QED BY <2>1 DEF Walked
<1>4. T = A BY <1>1, <1>2, <1>3 DEF Wanted, Under
<1>5. \A p \in T : limit # NoLimit => Rank(T, p) <= limit
  <2>1. ASSUME NEW p \in T, limit # NoLimit PROVE Rank(T, p) <= limit
    <3>1. \A q \in Under(T, start) : Rank(T, q) \in Nat /\ Rank(T, q) <= Cardinality(Under(T, start))
      BY <1>0, <1>2, RankParts
    <3>2. Rank(T, p) \in Nat /\ Rank(T, p) <= count BY <1>1, <1>2, <1>4, <3>1
    <3>3. count < limit /\ count \in Nat BY <2>1 DEF UpToHere, TypeOK
    <3> QED BY <1>0, <3>2, <3>3
  <2> QED BY <2>1
<1>6. InList = {p \in Walked : kind[p] # "other"} BY DEF UpToHere
<1>7. InList \cap T = T BY <1>1, <1>3, <1>6 DEF Wanted
<1>8. Wanted({"bad", "anon"}) \subseteq InList BY <1>3, <1>6 DEF Wanted
<1>9. /\ Wanted({"good"})' = T /\ Wanted({"bad", "anon"})' = Wanted({"bad", "anon"}) /\ limit' = limit
      /\ InList' = InList
  BY <1>1 DEF Wanted, setup, InList
<1> QED BY <1>5, <1>7, <1>8, <1>9 DEF AllTaken, Rank

-----------------------------------------------------------------------------
(* The walk *)

\* The three together: what is behind the walk while it goes on, the names, and
\* the whole catalogue when it has ended well.
WholeInv == PagingInv /\ WalkInv /\ NamedRight /\ Whole

\* Whole, in terms of AllTaken.
LEMMA WholeIs ==
  ASSUME phase = "done" /\ Sound /\ ~blank => AllTaken
  PROVE  Whole
BY DEF Whole, Sound, AllTaken

\* Whether a walk is sound, and how long a page can be, does not change with it.
LEMMA SameSound ==
  ASSUME UNCHANGED setup
  PROVE  /\ Sound' <=> Sound
         /\ UNCHANGED start => Lengths' = Lengths
BY DEF setup, Sound, Overlaps, Lengths, PageSize

\* A step that leaves position and list alone keeps what is behind the walk.
LEMMA SameWalk ==
  ASSUME UNCHANGED <<setup, start, count, times>>, UpToHere
  PROVE  UpToHere'
<1>1. InList' = InList /\ Walked' = Walked BY DEF InList, Walked, setup
<1> QED BY <1>1 DEF UpToHere, setup

\* At the start of a walk nothing is behind it.
LEMMA NewWalk ==
  ASSUME CswAssumption, TypeOK, start = first, count = 0, times = [p \in Places |-> 0]
  PROVE  UpToHere
<1>1. first \in Nat /\ limit \in Nat BY DEF TypeOK, CswAssumption
<1>2. \A p \in Places : p \in Nat BY PartOf
<1>3. Walked = {} BY <1>1, <1>2 DEF Walked
<1>4. InList = {} BY DEF InList
<1>5. Cardinality({p \in Walked : kind[p] = "good"}) = 0 BY <1>3, FS_EmptySet
<1> QED BY <1>1, <1>3, <1>4, <1>5 DEF UpToHere, NoLimit

\* A harvest begins with nothing behind it.
LEMMA WholeInit == ASSUME CswAssumption, Init PROVE WholeInv
<1>1. PagingInv BY InitInv
<1>2. TypeOK BY <1>1 DEF PagingInv
<1>3. UpToHere BY <1>2, NewWalk DEF Init
<1>4. WalkInv BY <1>3 DEF Init, WalkInv, UpToHere
<1>5. NamedRight BY DEF Init, NamedRight
<1>6. Whole BY DEF Init, Whole
<1> QED BY <1>1, <1>4, <1>5, <1>6 DEF WholeInv

\* A page in the list: the walk goes on with it behind, or has ended.
LEMMA TakeWhole ==
  ASSUME CswAssumption, WholeInv, NEW k \in Lengths, Iso(k) # {}, TakePage(k, k) \/ ~SameCut,
         phase \in {"page", "names"}, phase' \in {"page", "done", "cancelled"}, UNCHANGED setup
  PROVE  WalkInv' /\ Whole'
<1>1. TypeOK BY DEF WholeInv, PagingInv
<1>2. ASSUME Sound
      PROVE  (phase' = "done" => AllTaken') /\ (phase' = "page" => UpToHere')
  <2>1. UpToHere BY <1>2 DEF WholeInv, WalkInv, UpToHere
  <2>2. TakePage(k, k) BY <1>2 DEF Sound
  <2> QED BY <1>1, <1>2, <2>1, <2>2, WalkTake
<1>3. Sound' <=> Sound BY SameSound
<1>4. WalkInv' BY <1>2, <1>3 DEF WalkInv, UpToHere
<1>5. (phase = "done" /\ Sound /\ ~blank => AllTaken)' BY <1>2, <1>3
<1>6. (phase = "done" /\ Sound /\ ~blank => AllTaken)' => Whole' BY WholeIs, PTL
<1> QED BY <1>4, <1>5, <1>6

\* The ISO page arrives.
LEMMA WholePage ==
  ASSUME CswAssumption, WholeInv, NEW k, PageArrives(k)
  PROVE  WalkInv' /\ Whole'
<1>0. /\ TypeOK /\ k \in Lengths /\ k \in Nat /\ phase = "page" /\ UNCHANGED setup
      /\ start \in Nat /\ Size \in Nat
  BY LengthType DEF WholeInv, PagingInv, PageArrives, TypeOK, CswAssumption
<1>1. Sound => UpToHere BY <1>0 DEF WholeInv, WalkInv, UpToHere
<1>2. Sound' <=> Sound BY <1>0, SameSound
<1>3. CASE Iso(k) = {}
  <2>1. /\ phase' \in {"done", "cancelled"} /\ UNCHANGED <<start, count, times>>
        /\ blank' = (start + k <= Size)
    BY <1>3 DEF PageArrives, EndsAs
  <2>2. WalkInv' BY <2>1 DEF WalkInv
  <2>3. ASSUME Sound, ~blank' PROVE AllTaken'
    <3>0. ~(start + k <= Size) BY <2>1, <2>3, Zenon
    <3>1. start + k > Size BY <1>0, <3>0
    <3>2. UNCHANGED <<setup, times>> BY <1>0, <2>1
    <3> QED BY <1>0, <1>1, <1>3, <2>3, <3>1, <3>2, WalkBlank
  <2>4. (phase = "done" /\ Sound /\ ~blank => AllTaken)' BY <1>2, <2>3
  <2>5. (phase = "done" /\ Sound /\ ~blank => AllTaken)' => Whole' BY WholeIs, PTL
  <2> QED BY <2>2, <2>4, <2>5
<1>4. CASE Iso(k) # {} /\ Anonymous(k) # {}
  <2>1. phase' = "names" /\ page' = k /\ UNCHANGED <<start, count, times>>
    BY <1>4 DEF PageArrives
  <2>2. Lengths' = Lengths BY <1>0, <2>1, SameSound
  <2>3. Sound => UpToHere' BY <1>0, <1>1, <2>1, SameWalk
  <2>4. WalkInv' BY <1>0, <1>2, <2>1, <2>2, <2>3 DEF WalkInv, UpToHere
  <2> QED BY <2>1, <2>4 DEF Whole
<1>5. CASE Iso(k) # {} /\ Anonymous(k) = {}
  <2>1. TakePage(k, k) BY <1>5 DEF PageArrives
  <2>2. phase' \in {"page", "done", "cancelled"} BY <2>1 DEF TakePage, EndsAs
  <2> QED BY <1>0, <1>5, <2>1, <2>2, TakeWhole
<1> QED BY <1>3, <1>4, <1>5

\* The second request for the names of a page, answered or failed.
LEMMA WholeNames ==
  ASSUME CswAssumption, WholeInv, (\E a \in Places : NamesArrive(a)) \/ NamesFail
  PROVE  WalkInv' /\ Whole'
<1>0. /\ phase = "names" /\ UNCHANGED setup /\ page \in Lengths /\ answered = page /\ Iso(page) # {}
  BY DEF NamesArrive, NamesFail, WholeInv, WalkInv, PagingInv
<1>1. PICK a : TakePage(page, a) /\ (SameCut => a = page)
  BY <1>0 DEF NamesArrive, NamesFail
<1>2. phase' \in {"page", "done", "cancelled"} BY <1>1 DEF TakePage, EndsAs
<1>3. TakePage(page, page) \/ ~SameCut BY <1>1
<1> QED BY <1>0, <1>2, <1>3, TakeWhole

\* Every step preserves the invariant.
LEMMA WholeStep == ASSUME CswAssumption, WholeInv, [Next]_vars PROVE WholeInv'
<1>0. TypeOK /\ PagingInv /\ WalkInv /\ Whole /\ NamedRight BY DEF WholeInv, PagingInv
<1>1. PagingInv' /\ TypeOK'
  <2>1. PagingInv' BY <1>0, NextInv
  <2> QED BY <2>1 DEF PagingInv
<1>2. NamedRight'
  <2>1. phase = "names" => page \in Lengths BY <1>0 DEF WalkInv
  <2> QED BY <1>0, <2>1, NamedStep
<1>3. WalkInv' /\ Whole'
  <2>1. CASE TransientFailure \/ PermanentFailure
    <3>1. phase' \in {"rest", "failed", "cancelled"}
      BY <2>1 DEF TransientFailure, PermanentFailure, EndsAs
    <3> QED BY <3>1 DEF WalkInv, Whole
  <2>2. CASE Rested
    <3>1. /\ start' = first' /\ count' = 0 /\ times' = [p \in Places |-> 0]
          /\ phase' \in {"connect", "page"}
      BY <1>0, <2>2 DEF Rested, NewList, TypeOK, setup
    <3>2. (CswAssumption /\ TypeOK /\ start = first /\ count = 0 /\ times = [p \in Places |-> 0])'
      BY <1>1, <3>1
    <3>3. (CswAssumption /\ TypeOK /\ start = first /\ count = 0 /\ times = [p \in Places |-> 0])'
            => UpToHere'
      BY NewWalk, PTL
    <3> QED BY <3>1, <3>2, <3>3 DEF WalkInv, UpToHere, Whole
  <2>3. CASE Cancel \/ UNCHANGED vars
    <3>1. /\ UNCHANGED <<setup, start, count, times, page, blank>>
          /\ phase' \in {phase, "cancelled"}
      BY <2>3 DEF Cancel, vars, list
    <3>2. (Sound' <=> Sound) /\ Lengths' = Lengths BY <3>1, SameSound
    <3>3. UpToHere => UpToHere' BY <3>1, SameWalk
    <3>4. WalkInv'
      <4>1. CASE phase' = phase
        <5>1. phase' = "names" => page' \in Lengths' BY <1>0, <3>1, <3>2, <4>1 DEF WalkInv
        <5>2. phase' \in {"connect", "page", "names"} /\ Sound' => UpToHere'
          BY <1>0, <3>2, <3>3, <4>1 DEF WalkInv, UpToHere
        <5> QED BY <5>1, <5>2 DEF WalkInv, UpToHere
      <4>2. CASE phase' = "cancelled" BY <4>2 DEF WalkInv
      <4> QED BY <3>1, <4>1, <4>2
    <3>5. Whole'
      <4>1. InList' = InList /\ \A ks : Wanted(ks)' = Wanted(ks) BY <3>1 DEF InList, Wanted, setup
      <4>2. limit' = limit BY <3>1 DEF setup
      <4> QED BY <1>0, <3>1, <3>2, <4>1, <4>2 DEF Whole, Sound, Rank, Overlaps, setup
    <3> QED BY <3>4, <3>5
  <2>4. CASE Connected
    <3>1. /\ UNCHANGED <<setup, start, count, times>>
          /\ phase = "connect" /\ phase' \in {"page", "cancelled"}
      BY <2>4 DEF Connected, list, EndsAs
    <3>2. Sound' <=> Sound BY <3>1, SameSound
    <3>3. UpToHere => UpToHere' BY <3>1, SameWalk
    <3> QED BY <1>0, <3>1, <3>2, <3>3 DEF WalkInv, UpToHere, Whole
  <2>5. CASE \E k \in Places \cup {0} : PageArrives(k) BY <2>5, WholePage
  <2>6. CASE (\E a \in Places : NamesArrive(a)) \/ NamesFail BY <2>6, WholeNames
  <2> QED BY <2>1, <2>2, <2>3, <2>4, <2>5, <2>6 DEF Next, Progress
<1> QED BY <1>1, <1>2, <1>3 DEF WholeInv

-----------------------------------------------------------------------------
\* What the walk has behind it is in the list, and nothing else is.
THEOREM WalkCorrect == Spec => []WholeInv
<1>1. Init => WholeInv BY CswAssumption, WholeInit
<1>2. WholeInv /\ [Next]_vars => WholeInv' BY CswAssumption, WholeStep
<1> QED BY <1>1, <1>2, PTL DEF Spec

\* An anonymous error gets the identifier of its own record, unless the page
\* holds, before it, an error with an identifier or a record that is not ISO.
THEOREM NamedRightCorrect == Spec => []NamedRight
<1>1. WholeInv => NamedRight BY DEF WholeInv
<1> QED BY <1>1, WalkCorrect, PTL

\* A walk that ends well has the first good records up to max_records, and all
\* errors unless max_records ended it, whatever the sizes of the pages, the
\* attempts it took and the errors that were named on the way.
THEOREM WholeCorrect == Spec => []Whole
<1>1. WholeInv => Whole BY DEF WholeInv
<1> QED BY <1>1, WalkCorrect, PTL

=============================================================================
