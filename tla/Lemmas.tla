-------------------------------- MODULE Lemmas --------------------------------
(***************************************************************************)
(* Facts the proofs about several modules need: induction over the natural *)
(* numbers, stated with sets so that every prover can use it, functions    *)
(* defined by recursion, sequences without duplicates, and sorting: two    *)
(* orders of the same elements sort alike but for what has the same key.   *)
(***************************************************************************)
EXTENDS Integers, Sequences, SequencesExt, FiniteSetTheorems, SequenceTheorems, StableSort,
        WellFoundedInduction, TLAPS

\* Every set of natural numbers has a least element: the intervals below its
\* elements are ordered by inclusion, which is well-founded.
LEMMA LeastNumber ==
  ASSUME NEW T \in SUBSET Nat, T # {}
  PROVE  \E m \in T : \A n \in T : m <= n
<1> DEFINE R == StrictSubsetOrdering(Nat)
           F == FiniteSubsetsOf(Nat)
           Up == {0..m : m \in T}
<1>1. Up \subseteq F
  <2>1. \A m \in T : 0..m \subseteq Nat /\ IsFiniteSet(0..m) BY FS_Interval
  <2> QED BY <2>1 DEF FiniteSubsetsOf
<1>2. IsWellFoundedOn(R, F) BY FS_StrictSubsetOrderingWellFounded
<1>3. Up # {} OBVIOUS
<1> HIDE DEF R, F
<1>4. PICK x \in Up : \A y \in Up : <<y, x>> \notin R
  <2> HIDE DEF Up
  <2> QED BY <1>1, <1>2, <1>3, WFMin
<1>5. PICK m \in T : x = 0..m OBVIOUS
<1>6. ASSUME NEW n \in T, ~(m <= n) PROVE FALSE
  <2>1. 0..n \subseteq 0..m /\ m \in 0..m /\ m \notin 0..n BY <1>6
  <2>2. 0..n # 0..m BY <2>1
  <2>3. <<0..n, 0..m>> \in R BY <2>1, <2>2 DEF R, StrictSubsetOrdering
  <2> QED BY <1>4, <1>5, <2>3
<1> QED BY <1>6

\* It is the one called Min.
LEMMA MinNumber ==
  ASSUME NEW T \in SUBSET Nat, T # {}
  PROVE  Min(T) \in T /\ \A n \in T : Min(T) <= n
<1>1. \E m \in T : \A n \in T : m <= n BY LeastNumber
<1> QED BY <1>1 DEF Min

\* Induction: a set with 0 that is closed under successors holds every number.
LEMMA SetInduction ==
  ASSUME NEW S, 0 \in S, \A n \in Nat : n \in S => n + 1 \in S
  PROVE  Nat \subseteq S
<1> SUFFICES ASSUME Nat \ S # {} PROVE FALSE OBVIOUS
<1>1. PICK m \in Nat \ S : \A n \in Nat \ S : m <= n BY LeastNumber
<1>2. m # 0 /\ m - 1 \in Nat /\ ~(m <= m - 1) /\ (m - 1) + 1 = m BY <1>1
<1>3. m - 1 \in S BY <1>1, <1>2
<1> QED BY <1>1, <1>2, <1>3

\* The elements of two disjoint sets are counted one after the other.
LEMMA DisjointParts ==
  ASSUME NEW A, NEW B, IsFiniteSet(A), IsFiniteSet(B), A \cap B = {}
  PROVE  Cardinality(A \cup B) = Cardinality(A) + Cardinality(B)
<1>1. Cardinality(A) \in Nat /\ Cardinality(B) \in Nat BY FS_CardinalityType
<1>2. Cardinality(A \cap B) = 0 BY FS_EmptySet
<1>3. Cardinality(A \cup B) = Cardinality(A) + Cardinality(B) - Cardinality(A \cap B) BY FS_Union
<1> QED BY <1>1, <1>2, <1>3

\* The first n numbers are n.
LEMMA FirstNumbers ==
  ASSUME NEW n \in Nat
  PROVE  IsFiniteSet(1..n) /\ Cardinality(1..n) = n
<1>1. IsFiniteSet(1..n) /\ Cardinality(1..n) = IF 1 > n THEN 0 ELSE n - 1 + 1 BY FS_Interval
<1> QED BY <1>1

-----------------------------------------------------------------------------
(* Functions defined by recursion *)

\* A function on the first numbers: e at 0, and g makes each value of the one before.
Unrolled(f, S, e, g, N) == /\ f \in [0..N -> S]
                           /\ f[0] = e /\ \A n \in 1..N : f[n] = g[<<f[n - 1], n>>]

\* There is one.
LEMMA Recursion ==
  ASSUME NEW S, NEW e \in S, NEW g \in [S \X Nat -> S], NEW N \in Nat
  PROVE  \E f : Unrolled(f, S, e, g, N)
<1> DEFINE Good(k) == \E f : Unrolled(f, S, e, g, k)
           K == {k \in Nat : Good(k)}
<1>1. 0 \in K
  <2> DEFINE f == [n \in 0..0 |-> e]
  <2>1. f \in [0..0 -> S] /\ f[0] = e /\ \A n \in 1..0 : f[n] = g[<<f[n - 1], n>>] OBVIOUS
  <2> HIDE DEF f
  <2>2. Unrolled(f, S, e, g, 0) BY <2>1 DEF Unrolled
  <2> QED BY <2>2
<1>2. ASSUME NEW k \in Nat, k \in K PROVE k + 1 \in K
  <2>1. PICK f \in [0..k -> S] : f[0] = e /\ \A n \in 1..k : f[n] = g[<<f[n - 1], n>>]
    BY <1>2 DEF Unrolled
  <2> DEFINE last == g[<<f[k], k + 1>>]
             h == [n \in 0..k + 1 |-> IF n = k + 1 THEN last ELSE f[n]]
  <2>2. f[k] \in S /\ last \in S BY <2>1
  <2>3. h \in [0..k + 1 -> S]
    <3>1. \A n \in 0..k + 1 : n # k + 1 => n \in 0..k OBVIOUS
    <3>2. \A n \in 0..k + 1 : (IF n = k + 1 THEN last ELSE f[n]) \in S BY <2>1, <2>2, <3>1
    <3> HIDE DEF last
    <3> QED BY <3>2
  <2>4. h[0] = e BY <2>1
  <2>5. ASSUME NEW n \in 1..k + 1 PROVE h[n] = g[<<h[n - 1], n>>]
    <3>1. n - 1 \in 0..k /\ n - 1 \in 0..k + 1 /\ n - 1 # k + 1 /\ n \in 0..k + 1 OBVIOUS
    <3>2. h[n - 1] = f[n - 1] BY <3>1
    <3>3. CASE n = k + 1
      <4>1. h[n] = last /\ n - 1 = k BY <3>1, <3>3
      <4> HIDE DEF h
      <4> QED BY <3>2, <3>3, <4>1
    <3>4. CASE n # k + 1
      <4>1. h[n] = f[n] /\ n \in 1..k BY <3>1, <3>4
      <4> HIDE DEF h, last
      <4> QED BY <2>1, <3>2, <4>1
    <3> QED BY <3>3, <3>4
  <2> HIDE DEF h
  <2>6. Unrolled(h, S, e, g, k + 1) BY <2>3, <2>4, <2>5 DEF Unrolled
  <2> QED BY <2>6
<1> HIDE DEF K
<1>3. Nat \subseteq K BY <1>1, <1>2, SetInduction
<1> QED BY <1>3 DEF K

-----------------------------------------------------------------------------
(* Sequences without duplicates *)

\* What is left of a sequence behind its head.
LEMMA TailElements ==
  ASSUME NEW S, NEW s \in Seq(S), s # <<>>, IsInjective(s)
  PROVE  /\ Tail(s) \in Seq(S) /\ IsInjective(Tail(s))
         /\ ToSet(Tail(s)) = ToSet(s) \ {Head(s)}
         /\ \A i \in DOMAIN Tail(s) : Tail(s)[i] = s[i + 1]
<1>1. /\ Tail(s) \in Seq(S) /\ Len(Tail(s)) = Len(s) - 1 /\ Len(s) \in Nat \ {0}
      /\ \A i \in 1..Len(s) - 1 : Tail(s)[i] = s[i + 1]
      /\ Head(s) = s[1]
  OBVIOUS
<1>2. DOMAIN s = 1..Len(s) /\ DOMAIN Tail(s) = 1..Len(s) - 1 BY <1>1
<1>3. IsInjective(Tail(s)) BY <1>1, <1>2 DEF IsInjective
<1>4. \A j \in 2..Len(s) : s[j] = Tail(s)[j - 1] /\ j - 1 \in DOMAIN Tail(s) BY <1>1, <1>2
<1>5. ToSet(Tail(s)) \subseteq ToSet(s) \ {Head(s)} BY <1>1, <1>2 DEF IsInjective, ToSet
<1>6. ToSet(s) \ {Head(s)} \subseteq ToSet(Tail(s))
  <2>1. ASSUME NEW j \in DOMAIN s, s[j] # Head(s) PROVE s[j] \in ToSet(Tail(s))
    <3>1. j \in 2..Len(s) BY <2>1, <1>1, <1>2
    <3> QED BY <3>1, <1>4 DEF ToSet
  <2> QED BY <2>1 DEF ToSet
<1> QED BY <1>1, <1>2, <1>3, <1>5, <1>6

\* An element of a sequence is its head, or behind it.
LEMMA HeadOrTail ==
  ASSUME NEW S, NEW s \in Seq(S), NEW e \in ToSet(s)
  PROVE  e = Head(s) \/ e \in ToSet(Tail(s))
<1>1. PICK i \in DOMAIN s : e = s[i] BY DEF ToSet
<1>2. Len(s) \in Nat /\ DOMAIN s = 1..Len(s) /\ s # <<>> BY <1>1
<1>3. CASE i = 1 BY <1>1, <1>2, <1>3
<1>4. CASE i # 1
  <2>1. Tail(s) \in Seq(S) /\ Len(Tail(s)) = Len(s) - 1 BY <1>2
  <2>2. i - 1 \in 1..Len(s) - 1 /\ (i - 1) + 1 = i BY <1>1, <1>2, <1>4
  <2>3. Tail(s)[i - 1] = s[i] BY <1>2, <2>1, <2>2
  <2>4. DOMAIN Tail(s) = 1..Len(s) - 1 BY <2>1
  <2> QED BY <1>1, <2>2, <2>3, <2>4 DEF ToSet
<1> QED BY <1>3, <1>4

\* A sequence with one more element.
LEMMA AppendElements ==
  ASSUME NEW S, NEW s \in Seq(S), NEW e \in S, IsInjective(s), e \notin ToSet(s)
  PROVE  /\ Append(s, e) \in Seq(S) /\ IsInjective(Append(s, e))
         /\ ToSet(Append(s, e)) = ToSet(s) \cup {e}
         /\ \A i \in DOMAIN Append(s, e) :
              (i \in DOMAIN s /\ Append(s, e)[i] = s[i]) \/ Append(s, e)[i] = e
<1>1. /\ Append(s, e) \in Seq(S) /\ Len(Append(s, e)) = Len(s) + 1 /\ Len(s) \in Nat
      /\ \A i \in 1..Len(s) : Append(s, e)[i] = s[i]
      /\ Append(s, e)[Len(s) + 1] = e
  OBVIOUS
<1>2. DOMAIN s = 1..Len(s) /\ DOMAIN Append(s, e) = 1..Len(s) + 1 BY <1>1
<1>3. \A i \in DOMAIN Append(s, e) : (i \in DOMAIN s /\ Append(s, e)[i] = s[i]) \/ i = Len(s) + 1
  BY <1>1, <1>2
<1>4. IsInjective(Append(s, e)) BY <1>1, <1>2, <1>3 DEF IsInjective, ToSet
<1>5. ToSet(Append(s, e)) = ToSet(s) \cup {e} BY <1>1, <1>2, <1>3 DEF ToSet
<1> QED BY <1>1, <1>3, <1>4, <1>5

\* A sequence an element is taken from.
LEMMA RemoveAtElements ==
  ASSUME NEW S, NEW s \in Seq(S), NEW k \in DOMAIN s, IsInjective(s)
  PROVE  /\ RemoveAt(s, k) \in Seq(S) /\ IsInjective(RemoveAt(s, k))
         /\ Len(RemoveAt(s, k)) = Len(s) - 1
         /\ ToSet(RemoveAt(s, k)) = ToSet(s) \ {s[k]}
         /\ \A i \in DOMAIN RemoveAt(s, k) :
              \/ i \in DOMAIN s /\ RemoveAt(s, k)[i] = s[i]
              \/ i + 1 \in DOMAIN s /\ RemoveAt(s, k)[i] = s[i + 1]
<1> DEFINE r == RemoveAt(s, k)
<1>1. DOMAIN s = 1..Len(s) /\ Len(s) \in Nat /\ k \in 1..Len(s) OBVIOUS
<1>a. /\ SubSeq(s, 1, k - 1) \in Seq(S) /\ Len(SubSeq(s, 1, k - 1)) = k - 1
      /\ \A i \in 1..k - 1 : SubSeq(s, 1, k - 1)[i] = s[i]
  BY <1>1
<1>b. /\ SubSeq(s, k + 1, Len(s)) \in Seq(S) /\ Len(SubSeq(s, k + 1, Len(s))) = Len(s) - k
      /\ \A i \in 1..Len(s) - k : SubSeq(s, k + 1, Len(s))[i] = s[k + i]
  BY <1>1
<1>2. /\ r \in Seq(S) /\ Len(r) = Len(s) - 1
      /\ \A i \in 1..k - 1 : r[i] = s[i]
      /\ \A i \in k..Len(s) - 1 : r[i] = s[i + 1]
  <2> DEFINE a == SubSeq(s, 1, k - 1)
             b == SubSeq(s, k + 1, Len(s))
  <2>1. r = a \o b BY DEF RemoveAt
  <2>2. /\ a \in Seq(S) /\ Len(a) = k - 1 /\ \A i \in 1..k - 1 : a[i] = s[i]
        /\ b \in Seq(S) /\ Len(b) = Len(s) - k /\ \A i \in 1..Len(s) - k : b[i] = s[k + i]
    BY <1>a, <1>b
  <2> HIDE DEF a, b, r
  <2>3. r \in Seq(S) /\ Len(r) = Len(s) - 1
    <3>1. r \in Seq(S) /\ Len(r) = Len(a) + Len(b) BY <2>1, <2>2, ConcatProperties
    <3> QED BY <3>1, <2>2, <1>1
  <2>4. \A i \in 1..Len(s) - 1 : r[i] = IF i <= k - 1 THEN a[i] ELSE b[i - (k - 1)]
    <3>1. \A i \in 1..Len(a) + Len(b) : r[i] = IF i <= Len(a) THEN a[i] ELSE b[i - Len(a)]
      BY <2>1, <2>2, ConcatProperties
    <3> QED BY <3>1, <2>2, <1>1
  <2>5. ASSUME NEW i \in k..Len(s) - 1 PROVE r[i] = s[i + 1]
    <3>1. r[i] = b[i - (k - 1)] BY <2>4, <1>1
    <3>2. i - (k - 1) \in 1..Len(s) - k BY <1>1
    <3>3. b[i - (k - 1)] = s[k + (i - (k - 1))] BY <3>2, <2>2
    <3> QED BY <3>1, <3>3, <1>1
  <2>6. ASSUME NEW i \in 1..k - 1 PROVE r[i] = s[i]
    <3>1. i \in 1..Len(s) - 1 /\ i <= k - 1 BY <1>1
    <3> QED BY <3>1, <2>2, <2>4
  <2> QED BY <2>3, <2>5, <2>6
<1>3. DOMAIN r = 1..Len(s) - 1 BY <1>1, <1>2
<1> HIDE DEF r
<1>0. \A i \in DOMAIN r : \/ i < k /\ i \in DOMAIN s /\ r[i] = s[i]
                          \/ i >= k /\ i + 1 \in DOMAIN s /\ r[i] = s[i + 1]
  <2>1. ASSUME NEW i \in DOMAIN r, i >= k PROVE i + 1 \in DOMAIN s /\ r[i] = s[i + 1]
    <3> i \in k..Len(s) - 1 BY <2>1, <1>1, <1>3
    <3> QED BY <1>1, <1>2
  <2>2. ASSUME NEW i \in DOMAIN r, i < k PROVE i \in DOMAIN s /\ r[i] = s[i]
    <3> i \in 1..k - 1 BY <2>2, <1>1, <1>3
    <3> QED BY <1>1, <1>2
  <2>3. \A i \in DOMAIN r : i < k \/ i >= k BY <1>1, <1>3
  <2> QED BY <2>1, <2>2, <2>3
<1>4. IsInjective(r)
  <2>1. ASSUME NEW i \in DOMAIN r, NEW j \in DOMAIN r, r[i] = r[j] PROVE i = j
    <3> i \in Nat /\ j \in Nat BY <1>3
    <3> QED BY <2>1, <1>0, <1>1 DEF IsInjective
  <2> QED BY <2>1 DEF IsInjective
<1>5. ToSet(r) \subseteq ToSet(s) \ {s[k]}
  <2>1. ASSUME NEW i \in DOMAIN r PROVE r[i] \in ToSet(s) /\ r[i] # s[k]
    <3> i \in Nat BY <1>3
    <3> QED BY <1>0, <1>1 DEF IsInjective, ToSet
  <2> QED BY <2>1 DEF ToSet
<1>6. ToSet(s) \ {s[k]} \subseteq ToSet(r)
  <2>1. ASSUME NEW j \in DOMAIN s, s[j] # s[k] PROVE s[j] \in ToSet(r)
    <3>1. CASE j < k
      <4>0. j \in 1..k - 1 /\ j \in 1..Len(s) - 1 BY <3>1, <1>1
      <4>1. j \in DOMAIN r /\ r[j] = s[j] BY <4>0, <1>2, <1>3
      <4> QED BY <4>1 DEF ToSet
    <3>2. CASE j > k
      <4>0. j - 1 \in k..Len(s) - 1 /\ j - 1 \in 1..Len(s) - 1 /\ (j - 1) + 1 = j BY <3>2, <1>1
      <4>1. j - 1 \in DOMAIN r /\ r[j - 1] = s[j] BY <4>0, <1>2, <1>3
      <4> QED BY <4>1 DEF ToSet
    <3> QED BY <2>1, <3>1, <3>2, <1>1
  <2> QED BY <2>1 DEF ToSet
<1> QED BY <1>0, <1>2, <1>4, <1>5, <1>6 DEF r

\* The first element of a sequence that passes a test is where the search ends.
LEMMA FirstMatch ==
  ASSUME NEW S, NEW s \in Seq(S), NEW I \in SUBSET (1..Len(s)), I # {}
  PROVE  Min(I) \in I /\ \A i \in I : Min(I) <= i
<1>1. I \in SUBSET Nat OBVIOUS
<1> QED BY <1>1, MinNumber

\* A sequence without duplicates, without one element it may have.
LEMMA RemoveFirstElements ==
  ASSUME NEW S, NEW s \in Seq(S), NEW e, IsInjective(s)
  PROVE  /\ RemoveFirst(s, e) \in Seq(S) /\ IsInjective(RemoveFirst(s, e))
         /\ ToSet(RemoveFirst(s, e)) = ToSet(s) \ {e}
         /\ Len(RemoveFirst(s, e)) = Len(s) - (IF e \in ToSet(s) THEN 1 ELSE 0)
<1> DEFINE I == {i \in 1..Len(s) : s[i] = e}
<1>1. CASE I = {}
  <2>1. RemoveFirst(s, e) = s BY <1>1 DEF RemoveFirst
  <2>2. e \notin ToSet(s) BY <1>1 DEF ToSet
  <2>3. Len(s) \in Nat OBVIOUS
  <2> QED BY <2>1, <2>2, <2>3
<1>2. CASE I # {}
  <2>1. RemoveFirst(s, e) = RemoveAt(s, Min(I)) BY <1>2 DEF RemoveFirst, SelectInSeq
  <2>2. Min(I) \in I BY <1>2, FirstMatch
  <2>3. Min(I) \in DOMAIN s /\ s[Min(I)] = e BY <2>2
  <2> HIDE DEF I
  <2>4. PICK k \in DOMAIN s : k = Min(I) /\ s[k] = e BY <2>3
  <2>5. /\ RemoveAt(s, k) \in Seq(S) /\ IsInjective(RemoveAt(s, k))
        /\ Len(RemoveAt(s, k)) = Len(s) - 1 /\ ToSet(RemoveAt(s, k)) = ToSet(s) \ {s[k]}
    BY RemoveAtElements
  <2>6. e \in ToSet(s) BY <2>4 DEF ToSet
  <2> QED BY <2>1, <2>4, <2>5, <2>6
<1> QED BY <1>1, <1>2

-----------------------------------------------------------------------------
(* Sorting, by the positions of a list *)

\* What Arranged needs of an order, and SortedBy of what its keys say.
StrictOrder(I, R) ==
  /\ \A i \in I : <<i, i>> \notin R
  /\ \A i, j \in I : i # j => <<i, j>> \in R \/ <<j, i>> \in R
  /\ \A i, j, k \in I : <<i, j>> \in R /\ <<j, k>> \in R => <<i, k>> \in R
WeakOrder(E, less) ==
  /\ \A x, y \in E : <<x, y>> \in less => <<y, x>> \notin less
  /\ \A x, y, z \in E : <<x, z>> \in less => <<x, y>> \in less \/ <<y, z>> \in less

\* A sequence that has each member of a set once.
Enumerates(a, I) == /\ a \in [1..Cardinality(I) -> I]
                    /\ \A i \in I : \E k \in 1..Cardinality(I) : a[k] = i
                    /\ \A k, l \in 1..Cardinality(I) : a[k] = a[l] => k = l

\* What comes before one of two members comes before the other, and so does the one.
LEMMA BelowGrows ==
  ASSUME NEW I, IsFiniteSet(I), NEW R, StrictOrder(I, R), NEW i \in I, NEW j \in I, <<i, j>> \in R
  PROVE  Cardinality({m \in I : <<m, i>> \in R}) < Cardinality({m \in I : <<m, j>> \in R})
<1> DEFINE A == {m \in I : <<m, i>> \in R}
           B == {m \in I : <<m, j>> \in R}
<1>1. A \subseteq B /\ i \in B /\ i \notin A BY DEF StrictOrder
<1>2. IsFiniteSet(A) /\ IsFiniteSet(B) BY FS_Subset
<1>3. Cardinality(A) \in Nat /\ Cardinality(B) \in Nat BY <1>2, FS_CardinalityType
<1> HIDE DEF A, B
<1>4. Cardinality(A) <= Cardinality(B) /\ Cardinality(A) # Cardinality(B)
  BY <1>1, <1>2, FS_Subset
<1> QED BY <1>3, <1>4 DEF A, B

\* Arranged: every member once, in order.
LEMMA Arrangement ==
  ASSUME NEW I, IsFiniteSet(I), NEW R, StrictOrder(I, R)
  PROVE  /\ Enumerates(Arranged(I, R), I)
         /\ \A k, l \in 1..Cardinality(I) : k < l => <<Arranged(I, R)[k], Arranged(I, R)[l]>> \in R
         /\ \A k \in 1..Cardinality(I) : Cardinality({m \in I : <<m, Arranged(I, R)[k]>> \in R}) = k - 1
<1> DEFINE n == Cardinality(I)
           Below(i) == Cardinality({m \in I : <<m, i>> \in R})
           place == [i \in I |-> Below(i) + 1]
           a == Arranged(I, R)
<1>1. n \in Nat /\ IsFiniteSet(1..n) /\ Cardinality(1..n) = n
  <2>1. n \in Nat BY FS_CardinalityType
  <2> HIDE DEF n
  <2> QED BY <2>1, FirstNumbers
<1>2. ASSUME NEW i \in I PROVE Below(i) \in 0..n - 1
  <2> DEFINE A == {m \in I : <<m, i>> \in R}
  <2>1. A \subseteq I /\ A # I BY DEF StrictOrder
  <2>2. IsFiniteSet(A) /\ Cardinality(A) <= n /\ Cardinality(A) # n BY <2>1, FS_Subset
  <2>3. Cardinality(A) \in Nat BY <2>2, FS_CardinalityType
  <2> QED BY <1>1, <2>2, <2>3
<1>3. \A i, j \in I : <<i, j>> \in R => Below(i) < Below(j) BY BelowGrows
<1> HIDE DEF Below
<1>4. place \in [I -> 1..n]
  <2>1. \A i \in I : Below(i) + 1 \in 1..n BY <1>1, <1>2
  <2> QED BY <2>1
<1>5. \A i, j \in I : i # j => Below(i) # Below(j)
  <2>1. ASSUME NEW i \in I, NEW j \in I, i # j PROVE Below(i) # Below(j)
    <3>1. Below(i) \in Int /\ Below(j) \in Int BY <1>1, <1>2
    <3>2. <<i, j>> \in R \/ <<j, i>> \in R BY <2>1 DEF StrictOrder
    <3> QED BY <1>3, <3>1, <3>2
  <2> QED BY <2>1
<1>6. place \in Injection(I, 1..n)
  <2>1. ASSUME NEW i \in I, NEW j \in I, place[i] = place[j] PROVE i = j
    <3>1. Below(i) \in Int /\ Below(j) \in Int BY <1>1, <1>2
    <3>2. Below(i) + 1 = Below(j) + 1 BY <2>1
    <3> QED BY <1>5, <3>1, <3>2
  <2>2. DOMAIN place = I OBVIOUS
  <2> HIDE DEF place
  <2> QED BY <1>4, <2>1, <2>2 DEF Injection, IsInjective
<1>7. place \in Surjection(I, 1..n)
  <2> HIDE DEF place
  <2> QED BY <1>1, <1>6, FS_Injection
<1>8. ASSUME NEW k \in 1..n PROVE \E i \in I : Below(i) = k - 1
  <2>1. PICK i \in I : place[i] = k BY <1>7 DEF Surjection
  <2>2. Below(i) \in Int /\ Below(i) + 1 = k BY <1>1, <1>2, <2>1
  <2> QED BY <1>1, <2>2
<1>9. ASSUME NEW k \in 1..n PROVE a[k] \in I /\ Below(a[k]) = k - 1
  <2>1. a[k] = CHOOSE i \in I : Below(i) = k - 1 BY DEF Arranged, Below
  <2> HIDE DEF a
  <2> QED BY <1>8, <2>1
<1>10. a \in [1..n -> I]
  <2> DEFINE Chosen(k) == CHOOSE i \in I : Below(i) = k - 1
  <2>1. a = [k \in 1..n |-> Chosen(k)] BY DEF Arranged, Below
  <2>2. ASSUME NEW k \in 1..n PROVE Chosen(k) \in I BY <1>8
  <2> HIDE DEF a, Chosen
  <2> QED BY <2>1, <2>2
<1> HIDE DEF a, n
<1>11. \A i \in I : \E k \in 1..n : a[k] = i
  <2>1. ASSUME NEW i \in I PROVE \E k \in 1..n : a[k] = i
    <3>1. Below(i) + 1 \in 1..n /\ (Below(i) + 1) - 1 = Below(i) BY <1>1, <1>2
    <3>2. a[Below(i) + 1] \in I /\ Below(a[Below(i) + 1]) = Below(i) BY <1>9, <3>1
    <3>3. a[Below(i) + 1] = i BY <1>5, <3>2
    <3> QED BY <3>1, <3>3
  <2> QED BY <2>1
<1>12. \A k, l \in 1..n : a[k] = a[l] => k = l
  <2>1. ASSUME NEW k \in 1..n, NEW l \in 1..n, a[k] = a[l] PROVE k = l
    <3>1. Below(a[k]) = k - 1 /\ Below(a[l]) = l - 1 BY <1>9
    <3> QED BY <1>1, <2>1, <3>1
  <2> QED BY <2>1
<1>13. ASSUME NEW k \in 1..n, NEW l \in 1..n, k < l PROVE <<a[k], a[l]>> \in R
  <2>1. a[k] \in I /\ a[l] \in I /\ Below(a[k]) = k - 1 /\ Below(a[l]) = l - 1 BY <1>9
  <2>2. a[k] # a[l] BY <1>1, <1>12, <1>13
  <2>3. <<a[k], a[l]>> \in R \/ <<a[l], a[k]>> \in R BY <2>1, <2>2 DEF StrictOrder
  <2>4. <<a[l], a[k]>> \in R => l - 1 < k - 1 BY <1>3, <2>1
  <2> QED BY <1>1, <1>13, <2>3, <2>4
<1>14. \A k \in 1..n : Cardinality({m \in I : <<m, a[k]>> \in R}) = k - 1 BY <1>9 DEF Below
<1> QED BY <1>10, <1>11, <1>12, <1>13, <1>14 DEF a, n, Enumerates

\* Numbers in ascending order.
LEMMA Ascent ==
  ASSUME NEW I \in SUBSET Int, IsFiniteSet(I)
  PROVE  /\ Enumerates(Ascending(I), I)
         /\ \A k, l \in 1..Cardinality(I) : k < l => Ascending(I)[k] < Ascending(I)[l]
         /\ \A k \in 1..Cardinality(I) : Cardinality({m \in I : m < Ascending(I)[k]}) = k - 1
<1> DEFINE R == {p \in I \X I : p[1] < p[2]}
<1>1. \A i, j \in I : <<i, j>> \in R <=> i < j OBVIOUS
<1> HIDE DEF R
<1>2. StrictOrder(I, R) BY <1>1 DEF StrictOrder
<1>3. /\ Enumerates(Arranged(I, R), I)
      /\ \A k, l \in 1..Cardinality(I) : k < l => <<Arranged(I, R)[k], Arranged(I, R)[l]>> \in R
      /\ \A k \in 1..Cardinality(I) : Cardinality({m \in I : <<m, Arranged(I, R)[k]>> \in R}) = k - 1
  BY <1>2, Arrangement
<1>4. Ascending(I) = Arranged(I, R) BY DEF Ascending, R
<1>5. ASSUME NEW k \in 1..Cardinality(I) PROVE Cardinality({m \in I : m < Ascending(I)[k]}) = k - 1
  <2>1. Ascending(I)[k] \in I BY <1>3, <1>4 DEF Enumerates
  <2>2. {m \in I : m < Ascending(I)[k]} = {m \in I : <<m, Ascending(I)[k]>> \in R} BY <1>1, <2>1
  <2> QED BY <1>3, <1>4, <2>2
<1>6. \A k, l \in 1..Cardinality(I) : k < l => Ascending(I)[k] < Ascending(I)[l]
  BY <1>1, <1>3, <1>4 DEF Enumerates
<1> QED BY <1>3, <1>4, <1>5, <1>6

\* Where the first m numbers are, they are in their own places.
LEMMA AscentBegins ==
  ASSUME NEW I \in SUBSET Nat, 0 \notin I, IsFiniteSet(I), NEW k \in 1..Cardinality(I),
         1..Ascending(I)[k] \subseteq I
  PROVE  Ascending(I)[k] = k
<1>0. I \in SUBSET Int OBVIOUS
<1>a. Enumerates(Ascending(I), I) BY <1>0, Ascent
<1>1. PICK m \in I : m = Ascending(I)[k] BY <1>a DEF Enumerates
<1> DEFINE B == {j \in I : j < m}
<1>2. Cardinality(B) = k - 1 BY <1>0, <1>1, Ascent
<1>3. m \in Nat /\ m # 0 OBVIOUS
<1>4. PICK n \in Nat : m = n + 1
  <2>1. m - 1 \in Nat /\ m = (m - 1) + 1 BY <1>3
  <2> QED BY <2>1
<1>5. B = 1..n
  <2>1. ASSUME NEW j \in B PROVE j \in 1..n
    <3>1. j \in Nat /\ j # 0 /\ j < m OBVIOUS
    <3> QED BY <1>4, <3>1
  <2>2. ASSUME NEW j \in 1..n PROVE j \in B
    <3>1. j \in 1..m /\ j < m BY <1>4
    <3> QED BY <1>1, <3>1
  <2> HIDE DEF B
  <2> QED BY <2>1, <2>2
<1>6. Cardinality(B) = n BY <1>5, FirstNumbers
<1>7. k \in Int BY FS_CardinalityType
<1> QED BY <1>1, <1>2, <1>4, <1>6, <1>7

\* And so two sets that begin with them agree on those places.
LEMMA AscentsAgree ==
  ASSUME NEW I \in SUBSET Nat, 0 \notin I, IsFiniteSet(I), NEW J \in SUBSET Nat, 0 \notin J, IsFiniteSet(J),
         NEW k \in 1..Cardinality(I), 1..Ascending(I)[k] \subseteq I \cap J
  PROVE  k \in 1..Cardinality(J) /\ Ascending(J)[k] = Ascending(I)[k]
<1> DEFINE b == Ascending(J)
           n == Cardinality(J)
<1>0. k \in Nat /\ 1 <= k BY FS_CardinalityType
<1>1. Ascending(I)[k] = k BY AscentBegins
<1>2. k \in J BY <1>0, <1>1
<1>3. PICK l \in 1..n : b[l] = k BY <1>2, Ascent DEF Enumerates
<1>4. 1..b[l] \subseteq J BY <1>1, <1>3
<1>5. b[l] = l BY <1>4, AscentBegins
<1> QED BY <1>1, <1>3, <1>5

\* Positions are in a strict order when their elements' keys are in a weak one.
LEMMA PrecedenceOrder ==
  ASSUME NEW s, NEW I \in SUBSET Int, NEW less, WeakOrder({s[i] : i \in I}, less)
  PROVE  StrictOrder(I, Precedence(s, I, less))
<1> DEFINE R == Precedence(s, I, less)
           Less(i, j) == <<s[i], s[j]>> \in less
<1>1. \A i, j \in I : <<i, j>> \in R <=> Less(i, j) \/ (i < j /\ ~Less(j, i)) BY DEF Precedence
<1>2. \A i, j \in I : Less(i, j) => ~Less(j, i) BY DEF WeakOrder
<1>3. \A i, j, k \in I : Less(i, k) => Less(i, j) \/ Less(j, k) BY DEF WeakOrder
<1> HIDE DEF R, Less
<1>4. \A i \in I : <<i, i>> \notin R BY <1>1, <1>2
<1>5. \A i, j \in I : i # j => <<i, j>> \in R \/ <<j, i>> \in R BY <1>1
<1>6. \A i, j, k \in I : <<i, j>> \in R /\ <<j, k>> \in R => <<i, k>> \in R
  <2>1. ASSUME NEW i \in I, NEW j \in I, NEW k \in I, <<i, j>> \in R, <<j, k>> \in R
        PROVE  <<i, k>> \in R
    <3>1. Less(i, j) \/ (i < j /\ ~Less(j, i)) BY <1>1, <2>1
    <3>2. Less(j, k) \/ (j < k /\ ~Less(k, j)) BY <1>1, <2>1
    <3>3. i \in Int /\ j \in Int /\ k \in Int OBVIOUS
    <3>4. ~Less(j, i) /\ ~Less(k, j) BY <1>2, <3>1, <3>2
    <3>5. ~Less(k, i) BY <1>3, <3>4
    <3>6. Less(i, j) => Less(i, k) BY <1>3, <3>4
    <3>7. Less(j, k) => Less(i, k) BY <1>3, <3>4
    <3>8. CASE Less(i, k) BY <1>1, <3>8
    <3>9. CASE i < j /\ j < k
      <4>1. i < k BY <3>3, <3>9
      <4> QED BY <1>1, <3>5, <4>1
    <3> QED BY <3>1, <3>2, <3>6, <3>7, <3>8, <3>9
  <2> QED BY <2>1
<1>7. StrictOrder(I, R) BY <1>4, <1>5, <1>6 DEF StrictOrder
<1> QED BY <1>7 DEF R

\* What a sort returns: the elements at the positions, none of them before a lesser one.
LEMMA Sorting ==
  ASSUME NEW s, NEW I \in SUBSET Int, IsFiniteSet(I), NEW less, WeakOrder({s[i] : i \in I}, less)
  PROVE  \E a : /\ Enumerates(a, I)
                /\ SortedBy(s, I, less) = [k \in 1..Cardinality(I) |-> s[a[k]]]
                /\ \A k, l \in 1..Cardinality(I) :
                     k < l => \/ <<s[a[k]], s[a[l]]>> \in less
                              \/ a[k] < a[l] /\ <<s[a[l]], s[a[k]]>> \notin less
<1> DEFINE R == Precedence(s, I, less)
           a == Arranged(I, R)
<1>1. StrictOrder(I, R) BY PrecedenceOrder
<1>2. \A i, j \in I : <<i, j>> \in R => <<s[i], s[j]>> \in less \/ (i < j /\ <<s[j], s[i]>> \notin less)
  BY DEF Precedence
<1>3. SortedBy(s, I, less) = [k \in DOMAIN a |-> s[a[k]]] BY DEF SortedBy
<1> HIDE DEF R
<1>4. /\ Enumerates(a, I)
      /\ \A k, l \in 1..Cardinality(I) : k < l => <<a[k], a[l]>> \in R
  BY <1>1, Arrangement
<1> HIDE DEF a
<1>5. DOMAIN a = 1..Cardinality(I) /\ \A k \in 1..Cardinality(I) : a[k] \in I BY <1>4 DEF Enumerates
<1>6. \A k, l \in 1..Cardinality(I) :
         k < l => <<s[a[k]], s[a[l]]>> \in less \/ (a[k] < a[l] /\ <<s[a[l]], s[a[k]]>> \notin less)
  BY <1>2, <1>4, <1>5
<1> QED BY <1>3, <1>4, <1>5, <1>6

\* Nothing sorts differently: the elements stay in the order they had.
LEMMA Selection ==
  ASSUME NEW s, NEW I \in SUBSET Int, IsFiniteSet(I)
  PROVE  \E a : /\ Enumerates(a, I)
                /\ Selected(s, I) = [k \in 1..Cardinality(I) |-> s[a[k]]]
                /\ \A k, l \in 1..Cardinality(I) : k < l => a[k] < a[l]
<1> DEFINE none == {}
<1>1. WeakOrder({s[i] : i \in I}, none) BY DEF WeakOrder
<1>2. Selected(s, I) = SortedBy(s, I, none) BY DEF Selected
<1>3. \A x : x \notin none OBVIOUS
<1> HIDE DEF none
<1>4. PICK a : /\ Enumerates(a, I)
               /\ SortedBy(s, I, none) = [k \in 1..Cardinality(I) |-> s[a[k]]]
               /\ \A k, l \in 1..Cardinality(I) :
                     k < l => \/ <<s[a[k]], s[a[l]]>> \in none
                              \/ a[k] < a[l] /\ <<s[a[l]], s[a[k]]>> \notin none
  BY <1>1, Sorting
<1>5. \A k, l \in 1..Cardinality(I) : k < l => a[k] < a[l] BY <1>3, <1>4
<1> QED BY <1>2, <1>4, <1>5

-----------------------------------------------------------------------------
(* Two orders of the same elements sort alike *)

\* Positions of lists without duplicates that have the same elements there.
SameElements(s, I, t, J) == /\ {s[i] : i \in I} = {t[j] : j \in J}
                            /\ \A i, j \in I : s[i] = s[j] => i = j
                            /\ \A i, j \in J : t[i] = t[j] => i = j

LEMMA NoMore ==
  ASSUME NEW s, NEW I, NEW t, NEW J, SameElements(s, I, t, J), IsFiniteSet(J)
  PROVE  Cardinality(I) <= Cardinality(J)
<1> DEFINE Twin(i) == CHOOSE j \in J : t[j] = s[i]
           f == [i \in I |-> Twin(i)]
<1>1. ASSUME NEW i \in I PROVE Twin(i) \in J /\ t[Twin(i)] = s[i]
  <2>1. \E j \in J : t[j] = s[i] BY DEF SameElements
  <2> QED BY <2>1
<1> HIDE DEF Twin
<1>2. f \in [I -> J] BY <1>1
<1>3. ASSUME NEW i \in I, NEW j \in I, f[i] = f[j] PROVE i = j
  <2>1. s[i] = s[j] BY <1>1, <1>3
  <2> QED BY <2>1 DEF SameElements
<1>4. DOMAIN f = I OBVIOUS
<1> HIDE DEF f
<1>5. f \in Injection(I, J) BY <1>2, <1>3, <1>4 DEF Injection, IsInjective
<1> QED BY <1>5, FS_Injection

LEMMA AsMany ==
  ASSUME NEW s, NEW I, NEW t, NEW J, SameElements(s, I, t, J), IsFiniteSet(I), IsFiniteSet(J)
  PROVE  Cardinality(I) = Cardinality(J)
<1>1. Cardinality(I) <= Cardinality(J) BY NoMore
<1>2. SameElements(t, J, s, I) BY DEF SameElements
<1>3. Cardinality(J) <= Cardinality(I) BY <1>2, NoMore
<1>4. Cardinality(I) \in Nat /\ Cardinality(J) \in Nat BY FS_CardinalityType
<1> QED BY <1>1, <1>3, <1>4

\* The positions of a list of n elements as a sort leaves them.
SortsTo(s, I, less, n, a) ==
  /\ a \in [1..n -> I] /\ \A k, l \in 1..n : a[k] = a[l] => k = l
  /\ \A i \in I : \E k \in 1..n : a[k] = i
  /\ \A k, l \in 1..n : k < l => <<s[a[l]], s[a[k]]>> \notin less

\* Were the k-th of the one less than the k-th of the other, then k elements would be
\* less than that, for which there are k - 1 places.
LEMMA NotLess ==
  ASSUME NEW s, NEW I, NEW t, NEW J, SameElements(s, I, t, J), NEW n \in Nat, NEW less,
         WeakOrder({s[i] : i \in I}, less),
         NEW a, SortsTo(s, I, less, n, a), NEW b, SortsTo(t, J, less, n, b), NEW k \in 1..n
  PROVE  <<s[a[k]], t[b[k]]>> \notin less
<1> SUFFICES ASSUME <<s[a[k]], t[b[k]]>> \in less PROVE FALSE OBVIOUS
<1>a. /\ a \in [1..n -> I] /\ \A k1, l1 \in 1..n : a[k1] = a[l1] => k1 = l1
      /\ \A k1, l1 \in 1..n : k1 < l1 => <<s[a[l1]], s[a[k1]]>> \notin less
  BY DEF SortsTo
<1>b. /\ b \in [1..n -> J] /\ \A j \in J : \E k1 \in 1..n : b[k1] = j
      /\ \A k1, l1 \in 1..n : k1 < l1 => <<t[b[l1]], t[b[k1]]>> \notin less
  BY DEF SortsTo
<1> USE <1>a, <1>b
<1> DEFINE E == {s[i] : i \in I}
           f == [l \in 1..k |-> CHOOSE m \in 1..n : t[b[m]] = s[a[l]]]
<1>0. k \in Nat /\ 1 <= k /\ k <= n OBVIOUS
<1>c. E = {t[j] : j \in J} BY DEF SameElements
<1>1. \A m \in 1..n : s[a[m]] \in E /\ t[b[m]] \in E BY DEF SameElements
<1>2. \A x, y \in E : <<x, y>> \in less => <<y, x>> \notin less BY DEF WeakOrder
<1>3. \A x, y, z \in E : <<x, z>> \in less => <<x, y>> \in less \/ <<y, z>> \in less BY DEF WeakOrder
<1>4. \A x \in E : \E m \in 1..n : t[b[m]] = x
  <2>1. ASSUME NEW x \in E PROVE \E m \in 1..n : t[b[m]] = x
    <3>1. PICK j \in J : t[j] = x
      <4>1. x \in {t[j] : j \in J} BY <1>c
      <4> QED BY <4>1
    <3>2. PICK m \in 1..n : b[m] = j OBVIOUS
    <3> QED BY <3>1, <3>2
  <2> QED BY <2>1
<1> HIDE DEF E
<1>5. ASSUME NEW l \in 1..k PROVE l \in 1..n /\ f[l] \in 1..k - 1 /\ t[b[f[l]]] = s[a[l]]
  <2>1. l \in 1..n /\ l <= k BY <1>0
  <2>2. f[l] \in 1..n /\ t[b[f[l]]] = s[a[l]] BY <1>1, <1>4, <2>1
  <2>3. <<s[a[k]], s[a[l]]>> \notin less
    <3>1. CASE l = k BY <1>1, <1>2, <3>1
    <3>2. CASE l # k
      <4>1. l < k BY <2>1, <3>2
      <4> QED BY <2>1, <4>1
    <3> QED BY <3>1, <3>2
  <2>4. <<s[a[l]], t[b[k]]>> \in less BY <1>1, <1>3, <2>1, <2>3
  <2> HIDE DEF f
  <2>5. <<t[b[f[l]]], t[b[k]]>> \in less BY <2>2, <2>4
  <2>6. f[l] # k BY <1>1, <1>2, <2>5
  <2>7. ~(k < f[l]) BY <2>2, <2>5
  <2>8. f[l] \in 1..k - 1 BY <1>0, <2>2, <2>6, <2>7
  <2> QED BY <2>1, <2>2, <2>8
<1>6. f \in [1..k -> 1..k - 1]
  <2>1. \A l \in 1..k : f[l] \in 1..k - 1 BY <1>5
  <2>2. f = [l \in 1..k |-> f[l]] OBVIOUS
  <2> HIDE DEF f
  <2> QED BY <2>1, <2>2
<1> HIDE DEF f
<1>7. ASSUME NEW l \in 1..k, NEW m \in 1..k, f[l] = f[m] PROVE l = m
  <2>1. l \in 1..n /\ m \in 1..n /\ s[a[l]] = s[a[m]] BY <1>5, <1>7
  <2>2. a[l] = a[m] BY <2>1 DEF SameElements
  <2> QED BY <2>1, <2>2
<1>8. /\ IsFiniteSet(1..k) /\ Cardinality(1..k) = k
      /\ IsFiniteSet(1..k - 1) /\ Cardinality(1..k - 1) = k - 1
  <2>1. PICK m \in Nat : m = k - 1 BY <1>0
  <2> QED BY <1>0, <2>1, FirstNumbers
<1>9. Cardinality(1..k - 1) < Cardinality(1..k) BY <1>0, <1>8
<1>10. \E l, m \in 1..k : l # m /\ f[l] = f[m]
  <2> DEFINE S == 1..k
             T == 1..k - 1
  <2>1. f \in [S -> T] /\ IsFiniteSet(S) /\ IsFiniteSet(T) /\ Cardinality(T) < Cardinality(S)
    BY <1>6, <1>8, <1>9
  <2> HIDE DEF S, T
  <2>2. \E l, m \in S : l # m /\ f[l] = f[m] BY <2>1, FS_PigeonHole
  <2> QED BY <2>2 DEF S
<1> QED BY <1>7, <1>10

\* Two lists of members of a set whose k-th elements an order does not tell apart.
PlaceByPlace(u, v, E, less) ==
  /\ \E n \in Nat : DOMAIN u = 1..n /\ DOMAIN v = 1..n
  /\ \A k \in DOMAIN u : u[k] \in E /\ v[k] \in E /\ <<u[k], v[k]>> \notin less /\ <<v[k], u[k]>> \notin less

\* Sorted, the elements in one place have the same key.
LEMMA SortedAlike ==
  ASSUME NEW s, NEW I \in SUBSET Int, IsFiniteSet(I), NEW t, NEW J \in SUBSET Int, IsFiniteSet(J),
         SameElements(s, I, t, J), NEW less, WeakOrder({s[i] : i \in I}, less)
  PROVE  PlaceByPlace(SortedBy(s, I, less), SortedBy(t, J, less), {s[i] : i \in I}, less)
<1> DEFINE n == Cardinality(I)
           E == {s[i] : i \in I}
<1>1. n \in Nat /\ n = Cardinality(J) BY AsMany, FS_CardinalityType
<1>2. E = {t[j] : j \in J} BY DEF SameElements
<1>3. WeakOrder({t[j] : j \in J}, less) BY <1>2
<1>4. PICK a : /\ Enumerates(a, I) /\ SortedBy(s, I, less) = [k \in 1..n |-> s[a[k]]]
               /\ \A k, l \in 1..n : k < l => \/ <<s[a[k]], s[a[l]]>> \in less
                                              \/ a[k] < a[l] /\ <<s[a[l]], s[a[k]]>> \notin less
  BY Sorting
<1>5. PICK b : /\ Enumerates(b, J) /\ SortedBy(t, J, less) = [k \in 1..n |-> t[b[k]]]
               /\ \A k, l \in 1..n : k < l => \/ <<t[b[k]], t[b[l]]>> \in less
                                              \/ b[k] < b[l] /\ <<t[b[l]], t[b[k]]>> \notin less
  BY <1>1, <1>3, Sorting
<1> HIDE DEF n
<1>6. /\ a \in [1..n -> I] /\ (\A k, l \in 1..n : a[k] = a[l] => k = l)
      /\ \A i \in I : \E k \in 1..n : a[k] = i
  BY <1>4 DEF Enumerates, n
<1>7. /\ b \in [1..n -> J] /\ (\A k, l \in 1..n : b[k] = b[l] => k = l)
      /\ \A j \in J : \E k \in 1..n : b[k] = j
  BY <1>1, <1>5 DEF Enumerates
<1>8. \A k \in 1..n : s[a[k]] \in E /\ t[b[k]] \in E BY <1>2, <1>6, <1>7
<1>9. \A x, y \in E : <<x, y>> \in less => <<y, x>> \notin less BY DEF WeakOrder
<1>10. \A k, l \in 1..n : k < l => <<s[a[l]], s[a[k]]>> \notin less
  <2> HIDE DEF E
  <2> QED BY <1>4, <1>8, <1>9
<1>11. \A k, l \in 1..n : k < l => <<t[b[l]], t[b[k]]>> \notin less
  <2> HIDE DEF E
  <2> QED BY <1>5, <1>8, <1>9
<1>a. SortsTo(s, I, less, n, a) /\ SortsTo(t, J, less, n, b) BY <1>6, <1>7, <1>10, <1>11 DEF SortsTo
<1>12. ASSUME NEW k \in 1..n PROVE <<s[a[k]], t[b[k]]>> \notin less
  BY <1>1, <1>a, NotLess
<1>13. SameElements(t, J, s, I) BY DEF SameElements
<1>14. ASSUME NEW k \in 1..n PROVE <<t[b[k]], s[a[k]]>> \notin less
  BY <1>1, <1>3, <1>a, <1>13, NotLess
<1> HIDE DEF E
<1> QED BY <1>1, <1>4, <1>5, <1>8, <1>12, <1>14 DEF E, PlaceByPlace

=============================================================================
