-------------------------- MODULE ContextCache_proofs --------------------------
(***************************************************************************)
(* Proofs about the JSON-LD context loader, for any documents, references, *)
(* parses, cache sizes and life times.                                     *)
(*                                                                         *)
(* A fetch of a URL is an expense that the cache has to account for: as    *)
(* long as the URL is settled (cached, remembered as failed, or fetched by *)
(* a task that can be joined) one fetch needs no excuse, and whatever ends *)
(* this state is counted.                                                  *)
(***************************************************************************)
EXTENDS ContextCache, Lemmas

Entry == [url : Urls, expires : Nat]

\* No entry twice, and no URL twice.
OneEach(s) == IsInjective(s) /\ \A f, g \in ToSet(s) : f.url = g.url => f = g

\* The two dictionaries, by their contents.
DocumentsType == documents \in Seq(Urls) /\ Len(documents) <= MaxEntries /\ IsInjective(documents)
FailuresType == failures \in Seq(Entry) /\ Len(failures) <= MaxEntries /\ OneEach(failures)

\* The contents of the two dictionaries, as sets,
LEMMA CachedElement == ASSUME NEW u, documents \in Seq(Urls) PROVE Cached(u) <=> u \in ToSet(documents)
BY DEF Cached, Contains, ToSet

\* here the failures,
LEMMA FailedElement == ASSUME NEW u PROVE Failed(u) <=> \E f \in ToSet(failures) : f.url = u
BY DEF Failed, ToSet

\* and "each URL once" as TypeOK has it, by position.
LEMMA OneEachByIndex ==
  ASSUME NEW s \in Seq(Entry)
  PROVE  OneEach(s) <=> \A i, j \in DOMAIN s : s[i].url = s[j].url => i = j
BY DEF OneEach, IsInjective, ToSet

\* An entry is taken out.
LEMMA WithoutElements ==
  ASSUME NEW s \in Seq(Entry), OneEach(s), NEW u
  PROVE  /\ Without(s, u) \in Seq(Entry) /\ OneEach(Without(s, u))
         /\ ToSet(Without(s, u)) = {f \in ToSet(s) : f.url # u}
         /\ Len(Without(s, u)) = Len(s) - (IF \E f \in ToSet(s) : f.url = u THEN 1 ELSE 0)
<1> DEFINE I == {i \in 1..Len(s) : s[i].url = u}
<1>1. CASE I = {}
  <2>1. Without(s, u) = s BY <1>1 DEF Without, RemoveFirstMatch
  <2>2. \A f \in ToSet(s) : f.url # u BY <1>1 DEF ToSet
  <2>3. Len(s) \in Nat OBVIOUS
  <2> QED BY <2>1, <2>2, <2>3
<1>2. CASE I # {}
  <2>1. Without(s, u) = RemoveAt(s, Min(I)) BY <1>2 DEF Without, RemoveFirstMatch, SelectInSeq
  <2>2. Min(I) \in I BY <1>2, FirstMatch
  <2>3. Min(I) \in DOMAIN s /\ s[Min(I)].url = u BY <2>2
  <2> HIDE DEF I
  <2>4. PICK k \in DOMAIN s : k = Min(I) /\ s[k].url = u BY <2>3
  <2>5. /\ RemoveAt(s, k) \in Seq(Entry) /\ IsInjective(RemoveAt(s, k))
        /\ Len(RemoveAt(s, k)) = Len(s) - 1 /\ ToSet(RemoveAt(s, k)) = ToSet(s) \ {s[k]}
    BY RemoveAtElements DEF OneEach
  <2>6. s[k] \in ToSet(s) BY DEF ToSet
  <2>7. ToSet(s) \ {s[k]} = {f \in ToSet(s) : f.url # u} BY <2>4, <2>6 DEF OneEach
  <2> QED BY <2>1, <2>4, <2>5, <2>6, <2>7 DEF OneEach
<1> QED BY <1>1, <1>2

\* Too long a dictionary loses its oldest entries, never the last one.
LEMMA KeptElements ==
  ASSUME CacheAssumption, NEW S, NEW s \in Seq(S), IsInjective(s)
  PROVE  /\ Kept(s) \in Seq(S) /\ Len(Kept(s)) <= MaxEntries /\ IsInjective(Kept(s))
         /\ ToSet(Kept(s)) \subseteq ToSet(s)
         /\ ToSet(s) \subseteq ToSet(Kept(s)) \cup ToSet(Dropped(s))
         /\ Dropped(s) \in Seq(S)
         /\ s # <<>> => Last(s) \in ToSet(Kept(s))
<1>0. MaxEntries \in Nat \ {0} /\ Len(s) \in Nat /\ DOMAIN s = 1..Len(s) BY DEF CacheAssumption
<1>1. CASE Len(s) <= MaxEntries
  <2>1. Kept(s) = s /\ Dropped(s) = <<>> BY <1>0, <1>1 DEF Kept, Dropped
  <2>2. s # <<>> => Len(s) \in DOMAIN s BY <1>0
  <2> QED BY <1>1, <2>1, <2>2 DEF ToSet, Last
<1>2. CASE Len(s) > MaxEntries
  <2> DEFINE m == Len(s) - MaxEntries
             k == SubSeq(s, m + 1, Len(s))
             d == SubSeq(s, 1, m)
  <2>1. Kept(s) = k /\ Dropped(s) = d BY <1>2 DEF Kept, Dropped
  <2>2. m \in Nat /\ m < Len(s) /\ m + MaxEntries = Len(s) BY <1>0, <1>2
  <2>3. k \in Seq(S) /\ Len(k) = MaxEntries /\ \A i \in 1..MaxEntries : k[i] = s[m + i]
    BY <1>0, <2>2
  <2>4. d \in Seq(S) /\ Len(d) = m /\ \A i \in 1..m : d[i] = s[i]
    <3>1. PICK n \in Nat : n = m BY <2>2
    <3>2. \A i \in 1..n : s[i] \in S BY <1>0, <2>2, <3>1
    <3>3. PICK p : p = SubSeq(s, 1, n) OBVIOUS
    <3>4. /\ p \in Seq(S) /\ Len(p) = IF 1 <= n THEN n - 1 + 1 ELSE 0
          /\ \A i \in 1..n - 1 + 1 : p[i] = s[1 + i - 1]
      BY <3>2, <3>3, SubSeqProperties
    <3>5. Len(p) = n /\ \A i \in 1..n : p[i] = s[i] BY <3>1, <3>4
    <3> QED BY <3>1, <3>3, <3>4, <3>5
  <2> HIDE DEF k, d
  <2>5. DOMAIN k = 1..MaxEntries /\ DOMAIN d = 1..m BY <2>3, <2>4
  <2>6. IsInjective(k)
    <3>1. ASSUME NEW i \in DOMAIN k, NEW j \in DOMAIN k, k[i] = k[j] PROVE i = j
      <4>1. s[m + i] = s[m + j] /\ m + i \in DOMAIN s /\ m + j \in DOMAIN s BY <1>0, <2>2, <2>3, <2>5, <3>1
      <4>2. m + i = m + j BY <4>1 DEF IsInjective
      <4> QED BY <4>2, <2>2, <2>5
    <3> QED BY <3>1 DEF IsInjective
  <2>7. \A i \in DOMAIN k : m + i \in DOMAIN s BY <1>0, <2>2, <2>5
  <2>8. ToSet(k) \subseteq ToSet(s) BY <2>3, <2>5, <2>7 DEF ToSet
  <2>9. ASSUME NEW i \in DOMAIN s PROVE s[i] \in ToSet(k) \cup ToSet(d)
    <3>1. CASE i <= m
      <4>1. i \in 1..m BY <1>0, <2>2, <3>1
      <4> QED BY <4>1, <2>4, <2>5 DEF ToSet
    <3>2. CASE i > m
      <4>1. i - m \in 1..MaxEntries /\ m + (i - m) = i BY <1>0, <2>2, <3>2
      <4>2. k[i - m] = s[i] BY <4>1, <2>3
      <4> QED BY <4>1, <4>2, <2>5 DEF ToSet
    <3> QED BY <3>1, <3>2, <1>0, <2>2
  <2>10. Last(s) \in ToSet(k)
    <3>1. MaxEntries \in DOMAIN k /\ k[MaxEntries] = s[Len(s)] BY <1>0, <2>2, <2>3, <2>5
    <3> QED BY <3>1 DEF ToSet, Last
  <2>11. MaxEntries <= MaxEntries BY <1>0
  <2>12. ToSet(s) \subseteq ToSet(k) \cup ToSet(d) BY <2>9 DEF ToSet
  <2> QED BY <2>1, <2>3, <2>4, <2>6, <2>8, <2>10, <2>11, <2>12
<1> QED BY <1>0, <1>1, <1>2

\* What a counter of the history becomes.
LEMMA CountIs ==
  ASSUME NEW h \in [Urls -> Nat], NEW urls
  PROVE  /\ Count(h, urls) \in [Urls -> Nat]
         /\ \A u \in Urls : Count(h, urls)[u] = h[u] + (IF u \in urls THEN 1 ELSE 0)
BY DEF Count

-----------------------------------------------------------------------------
(* What the operations do to the dictionaries *)

\* The types of the dictionaries, as TypeOK has them.
LEMMA CacheTypes == TypeOK => DocumentsType /\ FailuresType
BY OneEachByIndex DEF TypeOK, DocumentsType, FailuresType, Entry

\* A dictionary whose entry u becomes the newest one.
LEMMA PutElements ==
  ASSUME CacheAssumption, NEW u \in Urls, DocumentsType
  PROVE  LET docs == Append(RemoveFirst(documents, u), u)
         IN  /\ docs \in Seq(Urls) /\ IsInjective(docs) /\ docs # <<>> /\ Last(docs) = u
             /\ ToSet(docs) = ToSet(documents) \cup {u}
             /\ Len(docs) = Len(documents) + (IF u \in ToSet(documents) THEN 0 ELSE 1)
<1> DEFINE r == RemoveFirst(documents, u)
<1>1. /\ r \in Seq(Urls) /\ IsInjective(r) /\ ToSet(r) = ToSet(documents) \ {u}
      /\ Len(r) = Len(documents) - (IF u \in ToSet(documents) THEN 1 ELSE 0)
  BY RemoveFirstElements DEF DocumentsType
<1>2. Len(documents) \in Nat BY DEF DocumentsType
<1> HIDE DEF r
<1>3. /\ Append(r, u) \in Seq(Urls) /\ IsInjective(Append(r, u)) /\ ToSet(Append(r, u)) = ToSet(r) \cup {u}
  BY <1>1, AppendElements
<1>4. Len(Append(r, u)) = Len(r) + 1 /\ Append(r, u)[Len(r) + 1] = u BY <1>1
<1>5. Append(r, u) # <<>> BY <1>1, AppendProperties
<1>6. Last(Append(r, u)) = u BY <1>4 DEF Last
<1>7. Len(Append(r, u)) = Len(documents) + (IF u \in ToSet(documents) THEN 0 ELSE 1) BY <1>1, <1>2, <1>4
<1> QED BY <1>1, <1>3, <1>5, <1>6, <1>7 DEF r

\* The failure of u becomes, or stays, the newest one.
LEMMA PutFailureElements ==
  ASSUME CacheAssumption, NEW u \in Urls, FailuresType, NEW f \in Entry, f.url = u
  PROVE  LET fs == Append(Without(failures, u), f)
         IN  /\ fs \in Seq(Entry) /\ OneEach(fs) /\ fs # <<>> /\ Last(fs) = f
             /\ ToSet(fs) = {g \in ToSet(failures) : g.url # u} \cup {f}
             /\ Failed(u) => Len(fs) = Len(failures)
<1> DEFINE r == Without(failures, u)
<1>1. /\ r \in Seq(Entry) /\ OneEach(r) /\ ToSet(r) = {g \in ToSet(failures) : g.url # u}
      /\ Len(r) = Len(failures) - (IF \E g \in ToSet(failures) : g.url = u THEN 1 ELSE 0)
  BY WithoutElements DEF FailuresType
<1>2. Len(failures) \in Nat BY DEF FailuresType
<1> HIDE DEF r
<1>3. f \notin ToSet(r) BY <1>1
<1>4. /\ Append(r, f) \in Seq(Entry) /\ IsInjective(Append(r, f)) /\ ToSet(Append(r, f)) = ToSet(r) \cup {f}
  BY <1>1, <1>3, AppendElements DEF OneEach
<1>5. OneEach(Append(r, f)) BY <1>1, <1>4 DEF OneEach
<1>6. Len(Append(r, f)) = Len(r) + 1 /\ Append(r, f)[Len(r) + 1] = f BY <1>1
<1>7. Append(r, f) # <<>> BY <1>1, AppendProperties
<1>8. Last(Append(r, f)) = f BY <1>6 DEF Last
<1>9. Failed(u) => Len(Append(r, f)) = Len(failures) BY <1>1, <1>2, <1>6, FailedElement
<1> QED BY <1>1, <1>4, <1>5, <1>7, <1>8, <1>9 DEF r

\* _put: u is cached, and every document that goes is counted.
LEMMA PutEffect ==
  ASSUME CacheAssumption, TypeOK, NEW u \in Urls, PutDocument(u)
  PROVE  /\ DocumentsType' /\ FailuresType' /\ evicted' \in [Urls -> Nat]
         /\ u \in ToSet(documents') /\ ToSet(documents') \subseteq ToSet(documents) \cup {u}
         /\ \A v \in Urls : evicted'[v] >= evicted[v]
         /\ \A v \in Urls : Cached(v) => Cached(v)' \/ evicted'[v] = evicted[v] + 1
         /\ \A v \in Urls \ {u} : Failed(v) => Failed(v)'
<1> DEFINE docs == Append(RemoveFirst(documents, u), u)
<1>0. DocumentsType /\ FailuresType /\ evicted \in [Urls -> Nat] BY CacheTypes DEF TypeOK
<1>1. /\ documents' = Kept(docs) /\ failures' = Without(failures, u)
      /\ evicted' = Count(evicted, ToSet(Dropped(docs)))
  BY DEF PutDocument
<1>2. /\ docs \in Seq(Urls) /\ IsInjective(docs) /\ docs # <<>> /\ Last(docs) = u
      /\ ToSet(docs) = ToSet(documents) \cup {u}
  BY <1>0, PutElements
<1> HIDE DEF docs
<1>3. /\ documents' \in Seq(Urls) /\ Len(documents') <= MaxEntries /\ IsInjective(documents')
      /\ ToSet(documents') \subseteq ToSet(docs) /\ ToSet(docs) \subseteq ToSet(documents') \cup ToSet(Dropped(docs))
      /\ u \in ToSet(documents')
  BY <1>1, <1>2, KeptElements
<1>4. /\ failures' \in Seq(Entry) /\ OneEach(failures')
      /\ ToSet(failures') = {f \in ToSet(failures) : f.url # u}
      /\ Len(failures') <= Len(failures)
  <2>1. Len(failures) \in Nat /\ failures \in Seq(Entry) /\ OneEach(failures) BY <1>0 DEF FailuresType
  <2>2. /\ failures' \in Seq(Entry) /\ OneEach(failures')
        /\ ToSet(failures') = {f \in ToSet(failures) : f.url # u}
        /\ Len(failures') = Len(failures) - (IF \E f \in ToSet(failures) : f.url = u THEN 1 ELSE 0)
    BY <1>1, <2>1, WithoutElements
  <2> QED BY <2>1, <2>2
<1>c. PICK D : D = ToSet(Dropped(docs)) OBVIOUS
<1>5. evicted' \in [Urls -> Nat] BY <1>0, <1>1, <1>c, CountIs
<1>6. \A v \in Urls : evicted'[v] = evicted[v] + (IF v \in D THEN 1 ELSE 0)
  <2>1. evicted' = Count(evicted, D) BY <1>1, <1>c
  <2> QED BY <2>1 DEF Count
<1>7. \A v \in Urls : evicted'[v] >= evicted[v]
  <2>1. ASSUME NEW v \in Urls PROVE evicted'[v] >= evicted[v]
    <3>1. evicted[v] \in Nat /\ evicted'[v] = evicted[v] + (IF v \in D THEN 1 ELSE 0) BY <1>0, <1>6
    <3> QED BY <3>1
  <2> QED BY <2>1
<1>8. ASSUME NEW v \in Urls, Cached(v) PROVE Cached(v)' \/ evicted'[v] = evicted[v] + 1
  <2>1. v \in ToSet(docs) BY <1>0, <1>2, <1>8, CachedElement DEF DocumentsType
  <2>2. CASE v \in ToSet(documents') BY <1>3, <2>2 DEF Cached, Contains, ToSet
  <2>3. CASE v \in ToSet(Dropped(docs)) BY <1>6, <1>c, <2>3
  <2> QED BY <1>3, <2>1, <2>2, <2>3
<1>9. ASSUME NEW v \in Urls \ {u}, Failed(v) PROVE Failed(v)'
  <2>1. PICK f \in ToSet(failures) : f.url = v BY <1>9, FailedElement
  <2>2. f \in ToSet(failures') BY <1>4, <2>1
  <2> QED BY <2>1, <2>2 DEF Failed, ToSet
<1>10. MaxEntries \in Nat /\ Len(failures) \in Nat /\ Len(failures') \in Nat
  BY <1>0, <1>4 DEF CacheAssumption, FailuresType
<1>11. FailuresType' BY <1>0, <1>4, <1>10 DEF FailuresType
<1>12. DocumentsType' BY <1>3 DEF DocumentsType
<1> QED BY <1>2, <1>3, <1>5, <1>7, <1>8, <1>9, <1>11, <1>12

\* _remember_failure: u is remembered as failed, or counted as forgotten.
LEMMA RememberEffect ==
  ASSUME CacheAssumption, TypeOK, NEW u \in Urls, RememberFailure(u)
  PROVE  /\ FailuresType' /\ expired' \in [Urls -> Nat]
         /\ \A v \in Urls : expired'[v] >= expired[v]
         /\ \A v \in Urls : v = u \/ Failed(v) => Failed(v)' \/ expired'[v] = expired[v] + 1
<1> DEFINE f == [url |-> u, expires |-> now + Ttl]
           fs == Append(Without(failures, u), f)
<1>0. FailuresType /\ expired \in [Urls -> Nat] /\ now + Ttl \in Nat
  BY CacheTypes, SMTT(40) DEF TypeOK, CacheAssumption
<1>1. CASE Ttl = 0
  <2>1. expired' = Count(expired, {u}) /\ failures' = failures BY <1>1 DEF RememberFailure
  <2>2. expired' \in [Urls -> Nat] BY <1>0, <2>1, CountIs
  <2>3. \A v \in Urls : expired'[v] = expired[v] + (IF v \in {u} THEN 1 ELSE 0) BY <2>1 DEF Count
  <2>4. ASSUME NEW v \in Urls PROVE expired'[v] >= expired[v]
    <3>1. expired[v] \in Nat /\ expired'[v] = expired[v] + (IF v \in {u} THEN 1 ELSE 0) BY <1>0, <2>3
    <3> QED BY <3>1
  <2>5. \A v \in Urls : Failed(v) => Failed(v)' BY <2>1 DEF Failed
  <2> QED BY <1>0, <2>1, <2>2, <2>3, <2>4, <2>5 DEF FailuresType
<1>2. CASE Ttl # 0
  <2>0. f \in Entry /\ f.url = u BY <1>0 DEF Entry
  <2>1. PICK D : D = {Dropped(fs)[i].url : i \in DOMAIN Dropped(fs)} OBVIOUS
  <2>2. failures' = Kept(fs) /\ expired' = Count(expired, D) BY <1>2, <2>1 DEF RememberFailure
  <2>a. FailuresType /\ f \in Entry /\ f.url = u BY <1>0, <2>0
  <2> HIDE DEF f
  <2>3. /\ fs \in Seq(Entry) /\ OneEach(fs) /\ fs # <<>> /\ Last(fs) = f
        /\ ToSet(fs) = {g \in ToSet(failures) : g.url # u} \cup {f}
    BY <2>a, PutFailureElements
  <2> HIDE DEF fs
  <2>4. /\ failures' \in Seq(Entry) /\ Len(failures') <= MaxEntries /\ IsInjective(failures')
        /\ ToSet(failures') \subseteq ToSet(fs) /\ ToSet(fs) \subseteq ToSet(failures') \cup ToSet(Dropped(fs))
        /\ f \in ToSet(failures')
    BY <2>2, <2>3, KeptElements DEF OneEach
  <2>5. FailuresType' BY <2>3, <2>4 DEF FailuresType, OneEach
  <2>6. expired' \in [Urls -> Nat] BY <1>0, <2>2, CountIs
  <2>7. \A v \in Urls : expired'[v] = expired[v] + (IF v \in D THEN 1 ELSE 0) BY <2>2 DEF Count
  <2>8. ASSUME NEW v \in Urls PROVE expired'[v] >= expired[v]
    <3>1. expired[v] \in Nat /\ expired'[v] = expired[v] + (IF v \in D THEN 1 ELSE 0) BY <1>0, <2>7
    <3> QED BY <3>1
  <2>9. ASSUME NEW v \in Urls, v = u \/ Failed(v) PROVE Failed(v)' \/ expired'[v] = expired[v] + 1
    <3>1. CASE v = u BY <2>0, <2>4, <3>1 DEF Failed, ToSet
    <3>2. CASE v # u
      <4>1. PICK g \in ToSet(failures) : g.url = v BY <2>9, <3>2, FailedElement
      <4>2. g \in ToSet(fs) BY <2>3, <3>2, <4>1
      <4>3. CASE g \in ToSet(failures') BY <4>1, <4>3 DEF Failed, ToSet
      <4>4. CASE g \in ToSet(Dropped(fs))
        <5>1. v \in D BY <2>1, <4>1, <4>4 DEF ToSet
        <5> QED BY <2>7, <5>1
      <4> QED BY <2>4, <4>2, <4>3, <4>4
    <3> QED BY <3>1, <3>2
  <2> QED BY <2>5, <2>6, <2>8, <2>9
<1> QED BY <1>1, <1>2

\* A failure that is no longer fresh is forgotten, and counted.
LEMMA ForgetEffect ==
  ASSUME CacheAssumption, TypeOK, NEW u \in Urls, Forget(u)
  PROVE  /\ FailuresType' /\ expired' \in [Urls -> Nat]
         /\ \A v \in Urls : expired'[v] >= expired[v]
         /\ \A v \in Urls : Failed(v) => Failed(v)' \/ expired'[v] = expired[v] + 1
         /\ Failed(u) => expired'[u] = expired[u] + 1
<1>0. FailuresType /\ expired \in [Urls -> Nat] BY CacheTypes DEF TypeOK
<1>1. failures' = Without(failures, u) BY DEF Forget
<1>2. FailuresType' /\ ToSet(failures') = {f \in ToSet(failures) : f.url # u}
  <2>1. Len(failures) \in Nat /\ failures \in Seq(Entry) /\ OneEach(failures) /\ Len(failures) <= MaxEntries
    BY <1>0 DEF FailuresType
  <2>2. /\ failures' \in Seq(Entry) /\ OneEach(failures')
        /\ ToSet(failures') = {f \in ToSet(failures) : f.url # u}
        /\ Len(failures') = Len(failures) - (IF \E f \in ToSet(failures) : f.url = u THEN 1 ELSE 0)
    BY <1>1, <2>1, WithoutElements
  <2>3. Len(failures') <= MaxEntries BY <2>1, <2>2 DEF CacheAssumption
  <2> QED BY <2>2, <2>3 DEF FailuresType
<1>3. PICK D : expired' = Count(expired, D) /\ (Failed(u) => D = {u})
  <2>1. CASE Failed(u) BY <2>1 DEF Forget
  <2>2. CASE ~Failed(u)
    <3>1. expired' = expired BY <2>2 DEF Forget
    <3>2. Count(expired, {}) = [v \in Urls |-> expired[v]] BY <1>0 DEF Count
    <3> QED BY <1>0, <2>2, <3>1, <3>2
  <2> QED BY <2>1, <2>2
<1>4. expired' \in [Urls -> Nat] BY <1>0, <1>3, CountIs
<1>5. \A v \in Urls : expired'[v] = expired[v] + (IF v \in D THEN 1 ELSE 0) BY <1>3 DEF Count
<1>6. ASSUME NEW v \in Urls PROVE expired'[v] >= expired[v]
  <2>1. expired[v] \in Nat /\ expired'[v] = expired[v] + (IF v \in D THEN 1 ELSE 0) BY <1>0, <1>5
  <2> QED BY <2>1
<1>7. Failed(u) => expired'[u] = expired[u] + 1 BY <1>3, <1>5
<1>8. ASSUME NEW v \in Urls, Failed(v) PROVE Failed(v)' \/ expired'[v] = expired[v] + 1
  <2>1. CASE v = u BY <1>7, <1>8, <2>1
  <2>2. CASE v # u
    <3>1. PICK f \in ToSet(failures) : f.url = v BY <1>8, FailedElement
    <3>2. f \in ToSet(failures') BY <1>2, <2>2, <3>1
    <3> QED BY <3>1, <3>2 DEF Failed, ToSet
  <2> QED BY <2>1, <2>2
<1> QED BY <1>2, <1>4, <1>6, <1>7, <1>8

\* A cached document becomes the newest one.
LEMMA TouchDocument ==
  ASSUME CacheAssumption, TypeOK, NEW u \in Urls, Cached(u),
         documents' = Append(RemoveFirst(documents, u), u)
  PROVE  DocumentsType' /\ ToSet(documents') = ToSet(documents)
<1>0. DocumentsType BY CacheTypes
<1>1. u \in ToSet(documents) BY <1>0, CachedElement DEF DocumentsType
<1>2. /\ documents' \in Seq(Urls) /\ IsInjective(documents')
      /\ ToSet(documents') = ToSet(documents) \cup {u}
      /\ Len(documents') = Len(documents) + (IF u \in ToSet(documents) THEN 0 ELSE 1)
  BY <1>0, PutElements
<1>3. Len(documents) \in Nat BY <1>0 DEF DocumentsType
<1>4. Len(documents') = Len(documents) BY <1>1, <1>2, <1>3
<1> QED BY <1>0, <1>1, <1>2, <1>4 DEF DocumentsType

\* A remembered failure becomes the newest one.
LEMMA TouchFailure ==
  ASSUME CacheAssumption, TypeOK, NEW u \in Urls, Failed(u),
         failures' = Append(Without(failures, u), FailureOf(u))
  PROVE  FailuresType' /\ \A v : Failed(v) => Failed(v)'
<1>0. FailuresType BY CacheTypes
<1>1. FailureOf(u) \in ToSet(failures) /\ FailureOf(u).url = u BY DEF Failed, FailureOf, ToSet
<1>2. FailureOf(u) \in Entry BY <1>0, <1>1 DEF FailuresType, ToSet
<1>3. PICK f \in Entry : f = FailureOf(u) /\ f.url = u BY <1>1, <1>2
<1>4. /\ failures' \in Seq(Entry) /\ OneEach(failures')
      /\ ToSet(failures') = {g \in ToSet(failures) : g.url # u} \cup {f}
      /\ Len(failures') = Len(failures)
  BY <1>0, <1>3, PutFailureElements
<1>5. ASSUME NEW v, Failed(v) PROVE Failed(v)'
  <2>1. PICK g \in ToSet(failures) : g.url = v BY <1>5, FailedElement
  <2>2. \E g2 \in ToSet(failures') : g2.url = v
    <3>1. CASE v = u BY <1>3, <1>4, <3>1
    <3>2. CASE v # u BY <1>4, <2>1, <3>2
    <3> QED BY <3>1, <3>2
  <2> QED BY <2>2 DEF Failed, ToSet
<1>6. FailuresType' BY <1>0, <1>4 DEF FailuresType
<1> QED BY <1>5, <1>6

-----------------------------------------------------------------------------
(* Callers *)

\* A caller at a reference: where it is, and what it asks for.
LEMMA ResolvesType ==
  ASSUME CacheAssumption, TypeOK, NEW c \in Callers,
         Resolves(c) \/ pc[c] = "await"
  PROVE  /\ frames[c] \in Seq(Frame) /\ frames[c] # <<>> /\ Len(frames[c]) \in Nat \ {0}
         /\ Top(c) \in Frame /\ Top(c).rest \in Seq(Urls) /\ Top(c).rest # <<>>
         /\ Url(c) \in Urls /\ Tail(Top(c).rest) \in Seq(Urls)
<1>1. frames[c] \in Seq(Frame) /\ frames[c] # <<>> /\ Top(c).rest # <<>>
  BY DEF TypeOK, Resolves, Inlining
<1>2. Len(frames[c]) \in Nat \ {0} BY <1>1
<1>3. Top(c) \in Frame BY <1>1, <1>2 DEF Top, Last
<1>4. Top(c).rest \in Seq(Urls) BY <1>3 DEF Frame
<1> QED BY <1>1, <1>2, <1>3, <1>4 DEF Url

\* The frames of a caller that goes into a document.
LEMMA EnterFrames ==
  ASSUME CacheAssumption, TypeOK, NEW c \in Callers, Resolves(c) \/ pc[c] = "await", Enter(c)
  PROVE  \E up \in Seq(Frame), new \in Frame :
           /\ frames' = [frames EXCEPT ![c] = Append(up, new)]
           /\ Len(up) = Len(frames[c])
           /\ \A i \in 1..Len(up) : i # Len(up) => up[i] = frames[c][i]
           /\ up[Len(up)].url = Top(c).url /\ up[Len(up)].rest = Tail(Top(c).rest)
           /\ new.url = Url(c) /\ new.rest = IF Url(c) \in Nulls THEN <<>> ELSE Refs[Url(c)]
           /\ pc' = [pc EXCEPT ![c] = "inline"]
<1> DEFINE fs == frames[c]
           up == Passed(fs)
           new == [url |-> Url(c), rest |-> IF Url(c) \in Nulls THEN <<>> ELSE Refs[Url(c)]]
<1>1. /\ fs \in Seq(Frame) /\ fs # <<>> /\ Len(fs) \in Nat \ {0}
      /\ Top(c) \in Frame /\ Url(c) \in Urls /\ Tail(Top(c).rest) \in Seq(Urls)
  BY ResolvesType
<1>2. new \in Frame BY <1>1 DEF Frame, CacheAssumption
<1>3. Top(c) = fs[Len(fs)] BY DEF Top, Last
<1>4. up = [fs EXCEPT ![Len(fs)] = [fs[Len(fs)] EXCEPT !.rest = Tail(fs[Len(fs)].rest)]] BY DEF Passed
<1>5. PICK e : e = [fs[Len(fs)] EXCEPT !.rest = Tail(fs[Len(fs)].rest)] OBVIOUS
<1>6. e \in Frame /\ e.url = Top(c).url /\ e.rest = Tail(Top(c).rest) BY <1>1, <1>3, <1>5 DEF Frame
<1>7. up = [fs EXCEPT ![Len(fs)] = e] BY <1>4, <1>5
<1>8. frames' = [frames EXCEPT ![c] = Append(up, new)] /\ pc' = [pc EXCEPT ![c] = "inline"]
  BY DEF Enter, GoTo, TypeOK
<1> HIDE DEF up
<1>9. /\ up \in Seq(Frame) /\ Len(up) = Len(fs) /\ up[Len(fs)] = e
      /\ \A i \in 1..Len(fs) : i # Len(fs) => up[i] = fs[i]
  BY <1>1, <1>6, <1>7
<1> QED BY <1>2, <1>6, <1>8, <1>9

\* The caller that goes on keeps the types of all callers.
CallersType ==
  /\ pc \in [Callers -> {"idle", "inline", "await"} \cup Ended]
  /\ frames \in [Callers -> Seq(Frame)]
  /\ waitsFor \in [Callers -> Nat]
  /\ \A c \in Callers : pc[c] = "await" =>
       /\ frames[c] # <<>> /\ Top(c).rest # <<>>
       /\ waitsFor[c] \in 1..Len(fetch[Url(c)])

States == {"running", "done", "failed"}

FetchType ==
  /\ fetch \in [Urls -> Seq(States)] /\ inflight \in [Urls -> Nat]
  /\ \A u \in Urls : inflight[u] \in 0..Len(fetch[u])

ClockType ==
  /\ now \in 0..MaxTime
  /\ evicted \in [Urls -> Nat] /\ expired \in [Urls -> Nat] /\ abandoned \in [Urls -> Nat]

\* TypeOK, part by part.
LEMMA TypeParts == TypeOK <=> DocumentsType /\ FailuresType /\ FetchType /\ CallersType /\ ClockType
BY OneEachByIndex DEF TypeOK, DocumentsType, FailuresType, FetchType, CallersType, ClockType, Entry, States

\* The same after a step.
LEMMA TypePartsNext ==
  (DocumentsType /\ FailuresType /\ FetchType /\ CallersType /\ ClockType)' => TypeOK'
BY TypeParts, PTL

\* Fetches are appended, and end.
Grows == fetch' \in [Urls -> Seq(States)] /\ \A u \in Urls : Len(fetch[u]) <= Len(fetch'[u])

\* A caller takes a step; the others wait as before.
LEMMA OthersWait ==
  ASSUME CacheAssumption, TypeOK, NEW c \in Callers, NEW label \in {"inline", "await"} \cup Ended,
         pc' = [pc EXCEPT ![c] = label], frames' \in [Callers -> Seq(Frame)],
         waitsFor' \in [Callers -> Nat],
         \A d \in Callers \ {c} : frames'[d] = frames[d] /\ waitsFor'[d] = waitsFor[d],
         Grows,
         label = "await" => /\ Resolves(c) /\ frames'[c] = frames[c]
                            /\ waitsFor'[c] \in 1..Len(fetch'[Url(c)])
  PROVE  CallersType'
<1>1. pc' \in [Callers -> {"idle", "inline", "await"} \cup Ended] BY DEF TypeOK
<1>2. ASSUME NEW d \in Callers, pc'[d] = "await"
      PROVE  /\ frames'[d] # <<>> /\ Top(d)'.rest # <<>>
             /\ waitsFor'[d] \in 1..Len(fetch'[Url(d)'])
  <2>1. CASE d # c
    <3>1. pc[d] = "await" BY <1>2, <2>1 DEF TypeOK
    <3>2. frames'[d] = frames[d] /\ waitsFor'[d] = waitsFor[d] BY <2>1
    <3>3. Top(d)' = Top(d) /\ Url(d)' = Url(d) BY <3>2 DEF Top, Url
    <3>4. Url(d) \in Urls BY <3>1, ResolvesType
    <3>a. fetch[Url(d)] \in Seq(States) /\ fetch'[Url(d)] \in Seq(States)
      BY <3>4 DEF Grows, TypeOK, States
    <3>5. /\ Len(fetch[Url(d)]) <= Len(fetch'[Url(d)]) /\ Len(fetch[Url(d)]) \in Nat
          /\ Len(fetch'[Url(d)]) \in Nat
      BY <3>4, <3>a DEF Grows
    <3>6. waitsFor[d] \in 1..Len(fetch[Url(d)]) BY <3>1 DEF TypeOK
    <3>7. waitsFor[d] \in 1..Len(fetch'[Url(d)]) BY <3>5, <3>6
    <3> QED BY <3>1, <3>2, <3>3, <3>7 DEF TypeOK
  <2>2. CASE d = c
    <3>1. label = "await" BY <1>2, <2>2 DEF TypeOK
    <3>2. Top(c)' = Top(c) /\ Url(c)' = Url(c) BY <3>1 DEF Top, Url
    <3> QED BY <2>2, <3>1, <3>2 DEF Resolves, Inlining
  <2> QED BY <2>1, <2>2
<1> QED BY <1>1, <1>2 DEF CallersType

\* No caller takes a step.
LEMMA AllWait ==
  ASSUME CacheAssumption, TypeOK, UNCHANGED callerVars, Grows
  PROVE  CallersType'
<1>1. ASSUME NEW d \in Callers, pc[d] = "await"
      PROVE  waitsFor[d] \in 1..Len(fetch'[Url(d)])
  <2>1. Url(d) \in Urls BY <1>1, ResolvesType
  <2>2. /\ Len(fetch[Url(d)]) <= Len(fetch'[Url(d)]) /\ Len(fetch[Url(d)]) \in Nat
        /\ Len(fetch'[Url(d)]) \in Nat
    BY <2>1 DEF Grows, TypeOK
  <2>3. waitsFor[d] \in 1..Len(fetch[Url(d)]) BY <1>1 DEF TypeOK
  <2> QED BY <2>2, <2>3
<1>2. \A d \in Callers : Top(d)' = Top(d) /\ Url(d)' = Url(d) BY DEF callerVars, Top, Url
<1> QED BY <1>1, <1>2 DEF callerVars, CallersType, TypeOK

\* Nothing is fetched.
LEMMA NoFetch == ASSUME TypeOK, UNCHANGED fetch PROVE Grows
BY DEF TypeOK, Grows, States

-----------------------------------------------------------------------------
(* Each step keeps the types. *)

\* A parse starts,
LEMMA StartType ==
  ASSUME CacheAssumption, TypeOK, NEW c \in Callers, Start(c)
  PROVE  TypeOK'
<1>1. UNCHANGED <<cacheVars, inflight, fetch, waitsFor, now, history>> BY DEF Start
<1>2. PICK label \in {"failed", "inline"} : pc' = [pc EXCEPT ![c] = label] BY DEF Start, GoTo
<1>3. /\ frames' \in [Callers -> Seq(Frame)] /\ \A d \in Callers \ {c} : frames'[d] = frames[d]
  <2>1. <<[url |-> NoUrl, rest |-> Payload[c]]>> \in Seq(Frame)
    <3>1. Payload[c] \in Seq(Urls) BY DEF CacheAssumption
    <3> QED BY <3>1 DEF Frame
  <2>2. \/ frames' = frames
        \/ frames' = [frames EXCEPT ![c] = <<[url |-> NoUrl, rest |-> Payload[c]]>>]
    BY DEF Start
  <2> QED BY <2>1, <2>2, ZenonT(40) DEF TypeOK
<1>4. CallersType'
  <2>1. Grows BY <1>1, NoFetch
  <2>2. label \in {"inline", "await"} \cup Ended /\ label # "await" BY DEF Ended
  <2>3. waitsFor' = waitsFor /\ waitsFor \in [Callers -> Nat] BY <1>1 DEF TypeOK
  <2> QED BY <1>2, <1>3, <2>1, <2>2, <2>3, OthersWait
<1>5. DocumentsType /\ FailuresType /\ FetchType /\ ClockType BY TypeParts
<1>6. DocumentsType' /\ FailuresType' /\ FetchType' /\ ClockType'
  BY <1>1, <1>5 DEF DocumentsType, FailuresType, FetchType, ClockType, cacheVars, history
<1> QED BY <1>4, <1>6, TypePartsNext

\* leaves a document,
LEMMA LeaveType ==
  ASSUME CacheAssumption, TypeOK, NEW c \in Callers, Leave(c)
  PROVE  TypeOK'
<1>1. UNCHANGED <<cacheVars, inflight, fetch, waitsFor, now, history>> BY DEF Leave
<1>0. pc[c] = "inline" /\ frames[c] # <<>> BY DEF Leave, Inlining
<1>2. PICK label \in {"inline", "done"} : pc' = [pc EXCEPT ![c] = label]
  <2>1. CASE Len(frames[c]) = 1 BY <2>1 DEF Leave, GoTo
  <2>2. CASE Len(frames[c]) # 1
    <3>1. pc' = pc BY <2>2 DEF Leave
    <3>2. pc = [pc EXCEPT ![c] = "inline"] BY <1>0 DEF TypeOK
    <3> QED BY <3>1, <3>2
  <2> QED BY <2>1, <2>2
<1>3. /\ frames' \in [Callers -> Seq(Frame)] /\ \A d \in Callers \ {c} : frames'[d] = frames[d]
  <2>1. frames[c] \in Seq(Frame) /\ frames[c] # <<>> BY <1>0 DEF TypeOK
  <2>2. Front(frames[c]) \in Seq(Frame)
    <3>1. Len(frames[c]) \in Nat \ {0} BY <2>1
    <3> QED BY <2>1, <3>1 DEF Front
  <2>3. frames' = [frames EXCEPT ![c] = Front(frames[c])] BY DEF Leave
  <2> QED BY <2>2, <2>3 DEF TypeOK
<1>4. CallersType'
  <2>1. Grows BY <1>1, NoFetch
  <2>2. label \in {"inline", "await"} \cup Ended /\ label # "await" BY DEF Ended
  <2>3. waitsFor' = waitsFor /\ waitsFor \in [Callers -> Nat] BY <1>1 DEF TypeOK
  <2> QED BY <1>2, <1>3, <2>1, <2>2, <2>3, OthersWait
<1>5. DocumentsType /\ FailuresType /\ FetchType /\ ClockType BY TypeParts
<1>6. DocumentsType' /\ FailuresType' /\ FetchType' /\ ClockType'
  BY <1>1, <1>5 DEF DocumentsType, FailuresType, FetchType, ClockType, cacheVars, history
<1> QED BY <1>4, <1>6, TypePartsNext

\* What Fail does to the callers.
LEMMA FailCallers ==
  ASSUME CacheAssumption, TypeOK, NEW c \in Callers, Fail(c), waitsFor' \in [Callers -> Nat],
         \A d \in Callers \ {c} : waitsFor'[d] = waitsFor[d], Grows
  PROVE  CallersType'
<1>1. pc' = [pc EXCEPT ![c] = "failed"] /\ frames' = frames BY DEF Fail, GoTo
<1>2. frames' \in [Callers -> Seq(Frame)] BY <1>1 DEF TypeOK
<1>3. "failed" \in {"inline", "await"} \cup Ended BY DEF Ended
<1> QED BY <1>1, <1>2, <1>3, OthersWait

\* What Enter does to the callers.
LEMMA EnterCallers ==
  ASSUME CacheAssumption, TypeOK, NEW c \in Callers, Resolves(c) \/ pc[c] = "await", Enter(c),
         waitsFor' \in [Callers -> Nat],
         \A d \in Callers \ {c} : waitsFor'[d] = waitsFor[d], Grows
  PROVE  CallersType'
<1>1. PICK up \in Seq(Frame), new \in Frame :
        /\ frames' = [frames EXCEPT ![c] = Append(up, new)]
        /\ Len(up) = Len(frames[c])
        /\ \A i \in 1..Len(up) : i # Len(up) => up[i] = frames[c][i]
        /\ up[Len(up)].url = Top(c).url /\ up[Len(up)].rest = Tail(Top(c).rest)
        /\ new.url = Url(c) /\ new.rest = IF Url(c) \in Nulls THEN <<>> ELSE Refs[Url(c)]
        /\ pc' = [pc EXCEPT ![c] = "inline"]
  BY EnterFrames
<1>2. Append(up, new) \in Seq(Frame) OBVIOUS
<1>3. frames' \in [Callers -> Seq(Frame)] /\ \A d \in Callers \ {c} : frames'[d] = frames[d]
  BY <1>1, <1>2 DEF TypeOK
<1> QED BY <1>1, <1>3, OthersWait

\* looks into the caches,
LEMMA LookupType ==
  ASSUME CacheAssumption, TypeOK, NEW c \in Callers, Reject(c) \/ Hit(c) \/ HitFailure(c)
  PROVE  TypeOK'
<1>0. Grows /\ waitsFor' = waitsFor /\ waitsFor \in [Callers -> Nat]
  <2>1. fetch' = fetch /\ waitsFor' = waitsFor BY DEF Reject, Hit, HitFailure
  <2> QED BY <2>1, NoFetch DEF TypeOK
<1>5. DocumentsType /\ FailuresType /\ FetchType /\ ClockType BY TypeParts
<1>a. FetchType' /\ ClockType'
  <2>1. UNCHANGED <<fetch, inflight, now, history>> BY DEF Reject, Hit, HitFailure, history
  <2> QED BY <1>5, <2>1 DEF FetchType, ClockType, history
<1>1. Resolves(c) /\ Url(c) \in Urls
  <2>1. Resolves(c) BY DEF Reject, Hit, HitFailure, LooksUp, Misses
  <2> QED BY <2>1, ResolvesType
<1>2. CASE Reject(c)
  <2>1. CallersType' BY <1>0, <1>2, FailCallers DEF Reject
  <2>2. DocumentsType' /\ FailuresType'
    BY <1>2, <1>5 DEF Reject, DocumentsType, FailuresType, cacheVars
  <2> QED BY <1>a, <2>1, <2>2, TypePartsNext
<1>3. CASE Hit(c)
  <2>1. CallersType' BY <1>0, <1>1, <1>3, EnterCallers DEF Hit
  <2>2. DocumentsType' BY <1>1, <1>3, TouchDocument DEF Hit
  <2>3. FailuresType' BY <1>3, <1>5 DEF Hit, FailuresType
  <2> QED BY <1>a, <2>1, <2>2, <2>3, TypePartsNext
<1>4. CASE HitFailure(c)
  <2>1. CallersType' BY <1>0, <1>4, FailCallers DEF HitFailure
  <2>2. FailuresType' BY <1>1, <1>4, TouchFailure DEF HitFailure, Fresh
  <2>3. DocumentsType' BY <1>4, <1>5 DEF HitFailure, DocumentsType
  <2> QED BY <1>a, <2>1, <2>2, <2>3, TypePartsNext
<1> QED BY <1>2, <1>3, <1>4

\* The fetch a caller starts is the last one of its URL.
LEMMA Started ==
  ASSUME CacheAssumption, TypeOK, NEW u \in Urls, fetch' = [fetch EXCEPT ![u] = Append(@, "running")]
  PROVE  /\ Grows /\ Len(fetch'[u]) = Len(fetch[u]) + 1 /\ Len(fetch[u]) \in Nat
         /\ fetch'[u][Len(fetch[u]) + 1] = "running"
         /\ \A n \in DOMAIN fetch[u] : fetch'[u][n] = fetch[u][n]
         /\ \A v \in Urls \ {u} : fetch'[v] = fetch[v]
<1>1. fetch[u] \in Seq(States) /\ fetch \in [Urls -> Seq(States)] BY DEF TypeOK, States
<1>2. fetch'[u] = Append(fetch[u], "running") BY <1>1
<1>3. \A v \in Urls \ {u} : fetch'[v] = fetch[v] BY <1>1
<1>4. /\ fetch'[u] \in Seq(States) /\ Len(fetch'[u]) = Len(fetch[u]) + 1 /\ Len(fetch[u]) \in Nat
      /\ fetch'[u][Len(fetch[u]) + 1] = "running"
      /\ \A n \in DOMAIN fetch[u] : fetch'[u][n] = fetch[u][n]
  BY <1>1, <1>2 DEF States
<1>5. fetch' \in [Urls -> Seq(States)] BY <1>1, <1>2, <1>4
<1>6. ASSUME NEW v \in Urls PROVE Len(fetch[v]) <= Len(fetch'[v])
  <2>1. fetch[v] \in Seq(States) BY <1>1
  <2>2. CASE v = u BY <1>4, <2>2
  <2>3. CASE v # u
    <3>1. fetch'[v] = fetch[v] /\ Len(fetch[v]) \in Nat BY <1>3, <2>1, <2>3
    <3> QED BY <3>1
  <2> QED BY <2>2, <2>3
<1> QED BY <1>3, <1>4, <1>5, <1>6 DEF Grows

\* joins or starts a fetch,
LEMMA AwaitType ==
  ASSUME CacheAssumption, TypeOK, NEW c \in Callers, Join(c) \/ StartFetch(c)
  PROVE  TypeOK'
<1> DEFINE u == Url(c)
<1>1. /\ Resolves(c) /\ u \in Urls /\ Forget(u) /\ pc' = [pc EXCEPT ![c] = "await"]
      /\ UNCHANGED <<documents, frames, now, evicted, abandoned>>
  <2>1. Resolves(c) BY DEF Join, StartFetch, LooksUp, Misses
  <2> QED BY <2>1, ResolvesType DEF Join, StartFetch, GoTo
<1>2. DocumentsType /\ FailuresType /\ FetchType /\ ClockType BY TypeParts
<1>3. DocumentsType' BY <1>1, <1>2 DEF DocumentsType
<1>4. FailuresType' /\ ClockType' BY <1>1, <1>2, ForgetEffect DEF ClockType
<1>5. frames' \in [Callers -> Seq(Frame)] BY <1>1 DEF TypeOK
<1>6. CASE Join(c)
  <2>1. UNCHANGED <<inflight, fetch>> /\ inflight[u] # 0 /\ waitsFor' = [waitsFor EXCEPT ![c] = inflight[u]]
    BY <1>6 DEF Join
  <2>2. Grows BY <2>1, NoFetch
  <2>3. FetchType' BY <1>2, <2>1 DEF FetchType
  <2>4. inflight[u] \in 1..Len(fetch[u]) /\ inflight[u] \in Nat
    <3>1. inflight[u] \in 0..Len(fetch[u]) /\ inflight[u] \in Nat BY <1>1 DEF TypeOK
    <3>2. fetch[u] \in Seq(States) BY <1>1 DEF TypeOK, States
    <3> QED BY <2>1, <3>1, <3>2
  <2>5. /\ waitsFor' \in [Callers -> Nat] /\ waitsFor'[c] \in 1..Len(fetch'[u])
        /\ \A d \in Callers \ {c} : waitsFor'[d] = waitsFor[d]
    BY <2>1, <2>4 DEF TypeOK
  <2>6. CallersType' BY <1>1, <1>5, <2>2, <2>5, OthersWait
  <2> QED BY <1>3, <1>4, <2>3, <2>6, TypePartsNext
<1>7. CASE StartFetch(c)
  <2> DEFINE n == Len(fetch[u]) + 1
  <2>1. /\ fetch' = [fetch EXCEPT ![u] = Append(@, "running")]
        /\ inflight' = [inflight EXCEPT ![u] = n] /\ waitsFor' = [waitsFor EXCEPT ![c] = n]
    BY <1>7 DEF StartFetch
  <2>2. /\ Grows /\ Len(fetch'[u]) = n /\ Len(fetch[u]) \in Nat
        /\ \A v \in Urls \ {u} : fetch'[v] = fetch[v]
    BY <1>1, <2>1, Started
  <2>3. FetchType'
    <3>1. inflight' \in [Urls -> Nat] BY <2>1, <2>2, <1>2 DEF FetchType
    <3>2. ASSUME NEW v \in Urls PROVE inflight'[v] \in 0..Len(fetch'[v])
      <4>1. CASE v = u
        <5>1. inflight'[v] = n BY <2>1, <4>1, <1>2 DEF FetchType
        <5> QED BY <2>2, <4>1, <5>1
      <4>2. CASE v # u BY <2>1, <2>2, <4>2, <1>2 DEF FetchType
      <4> QED BY <4>1, <4>2
    <3> QED BY <2>2, <3>1, <3>2 DEF FetchType, Grows
  <2>5. /\ waitsFor' \in [Callers -> Nat] /\ waitsFor'[c] = n
        /\ \A d \in Callers \ {c} : waitsFor'[d] = waitsFor[d]
    BY <2>1, <2>2 DEF TypeOK
  <2>6. waitsFor'[c] \in 1..Len(fetch'[u]) BY <2>2, <2>5
  <2>7. CallersType' BY <1>1, <1>5, <2>2, <2>5, <2>6, OthersWait
  <2> QED BY <1>3, <1>4, <2>3, <2>7, TypePartsNext
<1> QED BY <1>6, <1>7

\* wakes up or is cancelled.
LEMMA WakeType ==
  ASSUME CacheAssumption, TypeOK, NEW c \in Callers, Wake(c) \/ Cancel(c)
  PROVE  TypeOK'
<1>1. /\ pc[c] = "await" /\ Unregister(c) /\ UNCHANGED <<cacheVars, fetch, now, evicted, expired>>
      /\ waitsFor' = [waitsFor EXCEPT ![c] = 0]
  BY DEF Wake, Cancel, history
<1>2. Url(c) \in Urls /\ Grows BY <1>1, ResolvesType, NoFetch
<1>3. DocumentsType /\ FailuresType /\ FetchType /\ ClockType BY TypeParts
<1>4. DocumentsType' /\ FailuresType' BY <1>1, <1>3 DEF DocumentsType, FailuresType, cacheVars
<1>5. FetchType'
  <2>a. PICK i : i = (IF inflight[Url(c)] = waitsFor[c] THEN 0 ELSE inflight[Url(c)]) OBVIOUS
  <2>1. inflight' = [inflight EXCEPT ![Url(c)] = i] /\ i \in {0, inflight[Url(c)]}
    BY <1>1, <2>a DEF Unregister
  <2>2. /\ inflight' \in [Urls -> Nat]
        /\ \A u \in Urls : inflight'[u] = inflight[u] \/ inflight'[u] = 0
    BY <1>2, <1>3, <2>1 DEF FetchType
  <2>3. \A u \in Urls : 0 \in 0..Len(fetch[u])
    <3>1. \A u \in Urls : Len(fetch[u]) \in Nat BY <1>3 DEF FetchType
    <3> QED BY <3>1
  <2> QED BY <1>1, <1>3, <2>2, <2>3 DEF FetchType
<1>6. ClockType'
  <2>1. abandoned' \in [Urls -> Nat]
    <3>1. abandoned' = abandoned \/ \E D : abandoned' = Count(abandoned, D) BY DEF Wake, Cancel, history
    <3>2. ASSUME NEW D PROVE Count(abandoned, D) \in [Urls -> Nat] BY <1>3, CountIs DEF ClockType
    <3> QED BY <1>3, <3>1, <3>2 DEF ClockType
  <2> QED BY <1>1, <1>3, <2>1 DEF ClockType
<1>7. waitsFor' \in [Callers -> Nat] /\ \A d \in Callers \ {c} : waitsFor'[d] = waitsFor[d]
  BY <1>1 DEF TypeOK
<1>8. CallersType'
  <2>1. CASE Wake(c) /\ Enter(c) BY <1>1, <1>2, <1>7, <2>1, EnterCallers
  <2>2. CASE Wake(c) /\ Fail(c) BY <1>2, <1>7, <2>2, FailCallers
  <2>3. CASE Cancel(c)
    <3>1. pc' = [pc EXCEPT ![c] = "cancelled"] /\ frames' = frames BY <2>3 DEF Cancel, GoTo
    <3>2. frames' \in [Callers -> Seq(Frame)] BY <3>1 DEF TypeOK
    <3>3. "cancelled" \in {"inline", "await"} \cup Ended BY DEF Ended
    <3> QED BY <1>2, <1>7, <3>1, <3>2, <3>3, OthersWait
  <2>4. Wake(c) => Enter(c) \/ Fail(c) BY DEF Wake
  <2> QED BY <2>1, <2>2, <2>3, <2>4
<1> QED BY <1>4, <1>5, <1>6, <1>8, TypePartsNext

\* A fetch that ends.
LEMMA Ending ==
  ASSUME CacheAssumption, TypeOK, NEW u \in Urls, NEW n, NEW state \in {"done", "failed"},
         FetchEnds(u, n, state)
  PROVE  /\ Grows /\ n \in DOMAIN fetch[u] /\ fetch[u][n] = "running" /\ fetch'[u][n] = state
         /\ \A v \in Urls : Len(fetch'[v]) = Len(fetch[v]) /\ DOMAIN fetch'[v] = DOMAIN fetch[v]
         /\ \A v \in Urls : \A m \in DOMAIN fetch[v] :
              fetch'[v][m] = IF v = u /\ m = n THEN state ELSE fetch[v][m]
<1>1. /\ fetch \in [Urls -> Seq(States)] /\ n \in DOMAIN fetch[u] /\ fetch[u][n] = "running"
      /\ fetch' = [fetch EXCEPT ![u] = [fetch[u] EXCEPT ![n] = state]]
  BY DEF TypeOK, States, FetchEnds
<1>2. fetch[u] \in Seq(States) /\ state \in States BY <1>1 DEF States
<1>3. PICK s : s = [fetch[u] EXCEPT ![n] = state] OBVIOUS
<1>4. /\ s \in Seq(States) /\ Len(s) = Len(fetch[u]) /\ DOMAIN s = DOMAIN fetch[u]
      /\ \A m \in DOMAIN fetch[u] : s[m] = IF m = n THEN state ELSE fetch[u][m]
  BY <1>1, <1>2, <1>3, ExceptSeq
<1>5. fetch' \in [Urls -> Seq(States)] /\ fetch'[u] = s /\ \A v \in Urls \ {u} : fetch'[v] = fetch[v]
  BY <1>1, <1>3, <1>4
<1>6. ASSUME NEW v \in Urls
      PROVE  /\ Len(fetch'[v]) = Len(fetch[v]) /\ DOMAIN fetch'[v] = DOMAIN fetch[v]
             /\ Len(fetch[v]) <= Len(fetch'[v])
             /\ \A m \in DOMAIN fetch[v] : fetch'[v][m] = IF v = u /\ m = n THEN state ELSE fetch[v][m]
  <2>0. fetch[v] \in Seq(States) BY <1>1
  <2>a. Len(fetch[v]) \in Nat BY <2>0
  <2>1. CASE v = u BY <1>4, <1>5, <2>a, <2>1
  <2>2. CASE v # u
    <3>1. fetch'[v] = fetch[v] BY <1>5, <2>2
    <3> QED BY <2>2, <2>a, <3>1
  <2> QED BY <2>1, <2>2
<1> QED BY <1>1, <1>4, <1>5, <1>6 DEF Grows

\* A fetch ends,
LEMMA FetchStepType ==
  ASSUME CacheAssumption, TypeOK, NEW u \in Urls, NEW n, FetchStep(u, n)
  PROVE  TypeOK'
<1>1. \E state \in {"done", "failed"} : FetchEnds(u, n, state)
  BY DEF FetchStep, FetchSucceeds, FetchFails
<1>2. Grows /\ \A v \in Urls : Len(fetch'[v]) = Len(fetch[v]) BY <1>1, Ending
<1>3. UNCHANGED <<inflight, callerVars, now, abandoned>> BY DEF FetchStep, FetchSucceeds, FetchFails
<1>4. DocumentsType /\ FailuresType /\ FetchType /\ ClockType BY TypeParts
<1>5. CallersType' BY <1>2, <1>3, AllWait
<1>6. FetchType' BY <1>2, <1>3, <1>4 DEF FetchType, Grows
<1>7. DocumentsType' /\ FailuresType' /\ ClockType'
  <2>1. CASE FetchSucceeds(u, n)
    <3>1. PutDocument(u) /\ expired' = expired BY <2>1 DEF FetchSucceeds
    <3> QED BY <1>3, <1>4, <3>1, PutEffect DEF ClockType
  <2>2. CASE FetchFails(u, n)
    <3>1. RememberFailure(u) /\ UNCHANGED <<documents, evicted>> BY <2>2 DEF FetchFails
    <3> QED BY <1>3, <1>4, <3>1, RememberEffect DEF ClockType, DocumentsType
  <2> QED BY <2>1, <2>2 DEF FetchStep
<1> QED BY <1>5, <1>6, <1>7, TypePartsNext

\* and so for every step.
LEMMA TypeStep == ASSUME CacheAssumption, TypeOK, [Next]_vars PROVE TypeOK'
<1>1. ASSUME NEW c \in Callers, CallerStep(c) \/ Cancel(c) PROVE TypeOK'
  BY <1>1, StartType, LeaveType, LookupType, AwaitType, WakeType DEF CallerStep
<1>2. ASSUME NEW u \in Urls, NEW n \in 1..MaxFetches, FetchStep(u, n) PROVE TypeOK'
  BY <1>2, FetchStepType
<1>3. CASE Tick
  <2>1. UNCHANGED <<cacheVars, inflight, fetch, callerVars, history>> /\ now' = now + 1 /\ now < MaxTime
    BY <1>3 DEF Tick
  <2>2. now' \in 0..MaxTime BY <2>1 DEF TypeOK, CacheAssumption
  <2>3. DocumentsType /\ FailuresType /\ FetchType /\ ClockType BY TypeParts
  <2>4. DocumentsType' /\ FailuresType' /\ FetchType' /\ ClockType'
    BY <2>1, <2>2, <2>3 DEF DocumentsType, FailuresType, FetchType, ClockType, cacheVars, history
  <2>5. CallersType' BY <2>1, NoFetch, AllWait
  <2> QED BY <2>4, <2>5, TypePartsNext
<1>4. CASE UNCHANGED vars
  <2>1. UNCHANGED <<cacheVars, inflight, fetch, callerVars, now, history>> BY <1>4 DEF vars
  <2>3. DocumentsType /\ FailuresType /\ FetchType /\ ClockType BY TypeParts
  <2>4. DocumentsType' /\ FailuresType' /\ FetchType' /\ ClockType'
    BY <2>1, <2>3 DEF DocumentsType, FailuresType, FetchType, ClockType, cacheVars, history
  <2>5. CallersType' BY <2>1, NoFetch, AllWait
  <2> QED BY <2>4, <2>5, TypePartsNext
<1> QED BY <1>1, <1>2, <1>3, <1>4 DEF Next

\* The process starts with empty caches.
LEMMA TypeInit == ASSUME CacheAssumption, Init PROVE TypeOK
<1>1. documents = <<>> /\ failures = <<>> BY DEF Init
<1>2. DocumentsType BY <1>1 DEF DocumentsType, IsInjective, CacheAssumption
<1>3. FailuresType BY <1>1 DEF FailuresType, OneEach, IsInjective, ToSet, CacheAssumption
<1>4. FetchType BY DEF Init, FetchType
<1>5. CallersType BY DEF Init, CallersType
<1>6. ClockType BY DEF Init, ClockType, CacheAssumption
<1> QED BY <1>2, <1>3, <1>4, <1>5, <1>6, TypeParts

-----------------------------------------------------------------------------
(* The budget of fetches *)

BudgetOf(u) ==
  Len(fetch[u]) <= evicted[u] + expired[u] + abandoned[u] + (IF Settled(u) THEN 1 ELSE 0)

\* The counting of excuses: k fetches, three kinds of excuses, i and j tell
\* whether one fetch needs no excuse.
LEMMA Excuses ==
  ASSUME NEW k \in Nat, NEW a \in Nat, NEW b \in Nat, NEW c \in Nat, NEW i \in {0, 1},
         NEW a2 \in Nat, NEW b2 \in Nat, NEW c2 \in Nat, NEW j \in {0, 1},
         a2 >= a, b2 >= b, c2 >= c, k <= a + b + c + i,
         j >= i \/ a2 >= a + 1 \/ b2 >= b + 1 \/ c2 >= c + 1
  PROVE  k <= a2 + b2 + c2 + j
OBVIOUS

\* A URL that is not fetched again, and that loses what settles it only for an
\* excuse that is counted.
LEMMA BudgetKept ==
  ASSUME TypeOK, TypeOK', NEW u \in Urls, BudgetOf(u), Len(fetch'[u]) = Len(fetch[u]),
         evicted'[u] >= evicted[u], expired'[u] >= expired[u], abandoned'[u] >= abandoned[u],
         Settled(u) => \/ Settled(u)' \/ evicted'[u] >= evicted[u] + 1
                       \/ expired'[u] >= expired[u] + 1 \/ abandoned'[u] >= abandoned[u] + 1
  PROVE  BudgetOf(u)'
<1>1. /\ evicted[u] \in Nat /\ expired[u] \in Nat /\ abandoned[u] \in Nat
      /\ evicted'[u] \in Nat /\ expired'[u] \in Nat /\ abandoned'[u] \in Nat
  BY DEF TypeOK
<1>2. Len(fetch[u]) \in Nat
  <2>1. fetch[u] \in Seq(States) BY DEF TypeOK, States
  <2> QED BY <2>1
<1>3. PICK i \in {0, 1} : i = (IF Settled(u) THEN 1 ELSE 0) OBVIOUS
<1>4. PICK j \in {0, 1} : j = (IF Settled(u)' THEN 1 ELSE 0) OBVIOUS
<1>5. Len(fetch[u]) <= evicted[u] + expired[u] + abandoned[u] + i BY <1>3 DEF BudgetOf
<1>6. \/ j >= i \/ evicted'[u] >= evicted[u] + 1
      \/ expired'[u] >= expired[u] + 1 \/ abandoned'[u] >= abandoned[u] + 1
  BY <1>3, <1>4
<1>7. Len(fetch[u]) <= evicted'[u] + expired'[u] + abandoned'[u] + j
  <2>1. PICK k \in Nat, a \in Nat, b \in Nat, c \in Nat :
          k = Len(fetch[u]) /\ a = evicted[u] /\ b = expired[u] /\ c = abandoned[u]
    BY <1>1, <1>2
  <2>2. PICK a2 \in Nat, b2 \in Nat, c2 \in Nat :
          a2 = evicted'[u] /\ b2 = expired'[u] /\ c2 = abandoned'[u]
    BY <1>1
  <2>3. /\ a2 >= a /\ b2 >= b /\ c2 >= c /\ k <= a + b + c + i
        /\ j >= i \/ a2 >= a + 1 \/ b2 >= b + 1 \/ c2 >= c + 1
    BY ONLY <1>5, <1>6, <2>1, <2>2, evicted'[u] >= evicted[u], expired'[u] >= expired[u],
            abandoned'[u] >= abandoned[u]
  <2>4. k <= a2 + b2 + c2 + j BY <2>3, Excuses
  <2> QED BY <2>1, <2>2, <2>4
<1>8. Len(fetch'[u]) <= evicted'[u] + expired'[u] + abandoned'[u] + (IF Settled(u)' THEN 1 ELSE 0)
  BY <1>4, <1>7
<1> QED BY <1>8 DEF BudgetOf

\* What a URL's registered fetch is; none is ever registered as number 0.
LEMMA RunningIs ==
  ASSUME TypeOK, NEW u \in Urls
  PROVE  0 \notin Running(u) /\ Running(u) \subseteq 1..Len(fetch[u])
<1>1. fetch[u] \in Seq(States) BY DEF TypeOK, States
<1> QED BY <1>1 DEF Running

\* A waiter that goes takes a running fetch off the table only when it is
\* cancelled, and is counted then.
LEMMA LeavesTable ==
  ASSUME CacheAssumption, TypeOK, NEW c \in Callers, Wake(c) \/ Cancel(c), Url(c) \in Urls, NEW u \in Urls
  PROVE  /\ abandoned'[u] = abandoned[u] \/ abandoned'[u] = abandoned[u] + 1
         /\ \/ inflight'[u] = inflight[u] /\ abandoned'[u] = abandoned[u]
            \/ inflight'[u] = 0 /\ inflight[u] \notin Running(u) /\ abandoned'[u] = abandoned[u]
            \/ inflight'[u] = 0 /\ inflight[u] = waitsFor[c] /\ u = Url(c) /\ abandoned'[u] = abandoned[u] + 1
<1>0. abandoned \in [Urls -> Nat] /\ abandoned[u] \in Nat BY DEF TypeOK
<1>1. Unregister(c) BY DEF Wake, Cancel
<1>2. CASE u # Url(c)
  <2>1. inflight'[u] = inflight[u] BY <1>1, <1>2 DEF Unregister, TypeOK
  <2>2. abandoned' = abandoned \/ abandoned' = Count(abandoned, {Url(c)}) BY DEF Wake, Cancel, history
  <2>3. abandoned'[u] = abandoned[u]
    <3>1. ASSUME abandoned' = Count(abandoned, {Url(c)}) PROVE abandoned'[u] = abandoned[u]
      <4>1. abandoned'[u] = abandoned[u] + (IF u \in {Url(c)} THEN 1 ELSE 0) BY <3>1 DEF Count
      <4> QED BY <1>0, <1>2, <4>1
    <3> QED BY <2>2, <3>1
  <2> QED BY <2>1, <2>3
<1>3. CASE u = Url(c) /\ inflight[u] # waitsFor[c]
  <2>1. inflight'[u] = inflight[u] BY <1>1, <1>3 DEF Unregister, TypeOK
  <2>2. abandoned' = abandoned BY <1>3 DEF Wake, Cancel, history
  <2> QED BY <2>1, <2>2
<1>4. CASE u = Url(c) /\ inflight[u] = waitsFor[c]
  <2>1. inflight'[u] = 0 BY <1>1, <1>4 DEF Unregister, TypeOK
  <2>2. CASE Awaited(c) # "running"
    <3>1. inflight[u] \notin Running(u) BY <1>4, <2>2 DEF Running, Awaited
    <3>2. abandoned' = abandoned BY <2>2 DEF Wake, Cancel, history
    <3> QED BY <2>1, <3>1, <3>2
  <2>3. CASE Awaited(c) = "running"
    <3>1. Cancel(c) BY <2>3 DEF Wake
    <3>2. abandoned' = Count(abandoned, {u}) BY <1>4, <2>3, <3>1 DEF Cancel
    <3>3. abandoned'[u] = abandoned[u] + (IF u \in {u} THEN 1 ELSE 0) BY <3>2, <1>0, CountIs
    <3> QED BY <1>4, <2>1, <3>3
  <2> QED BY <2>2, <2>3
<1> QED BY <1>2, <1>3, <1>4

\* A step that starts no fetch keeps the budget of a URL.
LEMMA BudgetStepOf ==
  ASSUME CacheAssumption, TypeOK, TypeOK', [Next]_vars, NEW u \in Urls, BudgetOf(u),
         \A c \in Callers : StartFetch(c) => Url(c) # u
  PROVE  BudgetOf(u)'
<1>0. /\ documents \in Seq(Urls) /\ documents' \in Seq(Urls)
      /\ evicted[u] \in Nat /\ expired[u] \in Nat /\ abandoned[u] \in Nat
  BY DEF TypeOK
<1>a. fetch[u] \in Seq(States) BY DEF TypeOK, States
<1>1. ASSUME NEW c \in Callers, Start(c) \/ Leave(c) \/ Reject(c) PROVE BudgetOf(u)'
  <2>1. UNCHANGED <<cacheVars, inflight, fetch, history>> BY <1>1 DEF Start, Leave, Reject
  <2> QED BY <2>1 DEF BudgetOf, Settled, Cached, Failed, Running, cacheVars, history
<1>b. evicted'[u] \in Nat /\ expired'[u] \in Nat /\ abandoned'[u] \in Nat BY DEF TypeOK
<1>c. (Cached(u) <=> u \in ToSet(documents)) /\ (Cached(u)' <=> u \in ToSet(documents'))
  <2>1. DOMAIN documents = 1..Len(documents) /\ DOMAIN documents' = 1..Len(documents') BY <1>0
  <2>2. Cached(u) <=> u \in ToSet(documents) BY <2>1, Zenon DEF Cached, Contains, ToSet
  <2>3. Cached(u)' <=> u \in ToSet(documents') BY <2>1, Zenon DEF Cached, Contains, ToSet
  <2> QED BY <2>2, <2>3
<1>2. ASSUME NEW c \in Callers, Hit(c) PROVE BudgetOf(u)'
  <2>1. Resolves(c) /\ Cached(Url(c)) /\ documents' = Append(RemoveFirst(documents, Url(c)), Url(c))
    BY <1>2 DEF Hit, LooksUp
  <2>2. Url(c) \in Urls BY <2>1, ResolvesType
  <2>3. ToSet(documents') = ToSet(documents) BY <2>1, <2>2, TouchDocument
  <2>4. UNCHANGED <<failures, inflight, fetch, evicted, expired, abandoned>> BY <1>2 DEF Hit
  <2>5. Cached(u) => Cached(u)' BY <1>c, <2>3
  <2>6. Settled(u) => Settled(u)' BY <2>4, <2>5 DEF Settled, Failed, Running
  <2>7. /\ Len(fetch'[u]) = Len(fetch[u])
        /\ evicted'[u] >= evicted[u] /\ expired'[u] >= expired[u] /\ abandoned'[u] >= abandoned[u]
    BY <1>0, <2>4
  <2> QED BY <2>6, <2>7, BudgetKept
<1>3. ASSUME NEW c \in Callers, HitFailure(c) PROVE BudgetOf(u)'
  <2>1. Resolves(c) /\ Failed(Url(c)) /\ failures' = Append(Without(failures, Url(c)), FailureOf(Url(c)))
    BY <1>3 DEF HitFailure, Misses, LooksUp, Fresh
  <2>2. Url(c) \in Urls BY <2>1, ResolvesType
  <2>3. Failed(u) => Failed(u)' BY <2>1, <2>2, TouchFailure
  <2>4. UNCHANGED <<documents, inflight, fetch, evicted, expired, abandoned>> BY <1>3 DEF HitFailure, history
  <2>6. Settled(u) => Settled(u)' BY <2>3, <2>4 DEF Settled, Cached, Running
  <2>7. /\ Len(fetch'[u]) = Len(fetch[u])
        /\ evicted'[u] >= evicted[u] /\ expired'[u] >= expired[u] /\ abandoned'[u] >= abandoned[u]
    BY <1>0, <2>4
  <2> QED BY <2>6, <2>7, BudgetKept
<1>4. ASSUME NEW c \in Callers, Join(c) PROVE BudgetOf(u)'
  <2>1. Resolves(c) /\ Forget(Url(c)) /\ UNCHANGED <<documents, inflight, fetch, evicted, abandoned>>
    BY <1>4 DEF Join, Misses, LooksUp
  <2>2. Url(c) \in Urls BY <2>1, ResolvesType
  <2>3. expired'[u] >= expired[u] /\ (Failed(u) => Failed(u)' \/ expired'[u] = expired[u] + 1)
    BY <2>1, <2>2, ForgetEffect
  <2>4. expired'[u] = expired[u] + 1 => expired'[u] >= expired[u] + 1 BY <1>0
  <2>6. Settled(u) => Settled(u)' \/ expired'[u] >= expired[u] + 1
    BY <2>1, <2>3, <2>4 DEF Settled, Cached, Running
  <2>7. /\ Len(fetch'[u]) = Len(fetch[u])
        /\ evicted'[u] >= evicted[u] /\ expired'[u] >= expired[u] /\ abandoned'[u] >= abandoned[u]
    BY <1>0, <2>1, <2>3
  <2> QED BY <2>6, <2>7, BudgetKept
<1>5. ASSUME NEW c \in Callers, StartFetch(c) PROVE BudgetOf(u)'
  <2>1. /\ Resolves(c) /\ Forget(Url(c)) /\ UNCHANGED <<documents, evicted, abandoned>>
        /\ fetch' = [fetch EXCEPT ![Url(c)] = Append(@, "running")]
        /\ inflight' = [inflight EXCEPT ![Url(c)] = Len(fetch[Url(c)]) + 1]
    BY <1>5 DEF StartFetch, Misses, LooksUp
  <2>2. Url(c) \in Urls /\ Url(c) # u BY <1>5, <2>1, ResolvesType
  <2>3. expired'[u] >= expired[u] /\ (Failed(u) => Failed(u)' \/ expired'[u] = expired[u] + 1)
    BY <2>1, <2>2, ForgetEffect
  <2>4. fetch'[u] = fetch[u] /\ inflight'[u] = inflight[u] BY <2>1, <2>2 DEF TypeOK
  <2>5. expired'[u] = expired[u] + 1 => expired'[u] >= expired[u] + 1 BY <1>0
  <2>6. Settled(u) => Settled(u)' \/ expired'[u] >= expired[u] + 1
    BY <2>1, <2>3, <2>4, <2>5 DEF Settled, Cached, Running
  <2>7. /\ Len(fetch'[u]) = Len(fetch[u])
        /\ evicted'[u] >= evicted[u] /\ expired'[u] >= expired[u] /\ abandoned'[u] >= abandoned[u]
    <3>1. Len(fetch'[u]) = Len(fetch[u]) BY <2>4
    <3>2. evicted'[u] >= evicted[u] /\ abandoned'[u] >= abandoned[u] BY <1>0, <2>1
    <3> QED BY <2>3, <3>1, <3>2
  <2>8. BudgetOf(u) /\ u \in Urls /\ TypeOK /\ TypeOK' OBVIOUS
  <2> QED BY ONLY <2>6, <2>7, <2>8, BudgetKept
<1>6. ASSUME NEW c \in Callers, Wake(c) \/ Cancel(c) PROVE BudgetOf(u)'
  <2>1. /\ pc[c] = "await" /\ Unregister(c) /\ UNCHANGED <<cacheVars, fetch, evicted, expired>>
    BY <1>6 DEF Wake, Cancel, history
  <2>2. Url(c) \in Urls BY <2>1, ResolvesType
  <2>3. /\ abandoned'[u] = abandoned[u] \/ abandoned'[u] = abandoned[u] + 1
        /\ \/ inflight'[u] = inflight[u] \/ inflight[u] \notin Running(u)
           \/ abandoned'[u] = abandoned[u] + 1
    BY <1>6, <2>2, LeavesTable
  <2>4. abandoned'[u] >= abandoned[u] /\ (abandoned'[u] = abandoned[u] + 1 => abandoned'[u] >= abandoned[u] + 1)
    BY <1>0, <2>3
  <2>6. Settled(u) => Settled(u)' \/ abandoned'[u] >= abandoned[u] + 1
    BY <2>1, <2>3, <2>4 DEF Settled, Cached, Failed, Running, cacheVars
  <2>7. /\ Len(fetch'[u]) = Len(fetch[u])
        /\ evicted'[u] >= evicted[u] /\ expired'[u] >= expired[u] /\ abandoned'[u] >= abandoned[u]
    BY <1>0, <2>1, <2>4
  <2> QED BY <2>6, <2>7, BudgetKept
<1>7. ASSUME NEW v \in Urls, NEW n, FetchStep(v, n) PROVE BudgetOf(u)'
  <2>1. UNCHANGED <<inflight, callerVars, abandoned>> BY <1>7 DEF FetchStep, FetchSucceeds, FetchFails
  <2>2. PICK state \in {"done", "failed"} : FetchEnds(v, n, state)
    BY <1>7 DEF FetchStep, FetchSucceeds, FetchFails
  <2>3. /\ Len(fetch'[u]) = Len(fetch[u]) /\ DOMAIN fetch'[u] = DOMAIN fetch[u]
        /\ \A m \in DOMAIN fetch[u] : fetch'[u][m] = IF u = v /\ m = n THEN state ELSE fetch[u][m]
    BY <2>2, Ending
  <2>4. u # v => Running(u)' = Running(u) BY <2>3 DEF Running
  <2>5. CASE FetchSucceeds(v, n)
    <3>1. PutDocument(v) /\ expired' = expired BY <2>5 DEF FetchSucceeds
    <3>2. /\ evicted'[u] >= evicted[u] /\ (Cached(u) => Cached(u)' \/ evicted'[u] = evicted[u] + 1)
          /\ v \in ToSet(documents') /\ (u # v => (Failed(u) => Failed(u)'))
      BY <3>1, PutEffect
    <3>3. u = v => Cached(u)' BY <1>c, <3>2
    <3>4. evicted'[u] = evicted[u] + 1 => evicted'[u] >= evicted[u] + 1 BY <1>0
    <3>5. Settled(u) => Settled(u)' \/ evicted'[u] >= evicted[u] + 1
      BY <2>1, <2>4, <3>2, <3>3, <3>4 DEF Settled
    <3>6. expired'[u] >= expired[u] /\ abandoned'[u] >= abandoned[u] BY <1>0, <2>1, <3>1
    <3> QED BY <2>3, <3>2, <3>5, <3>6, BudgetKept
  <2>6. CASE FetchFails(v, n)
    <3>1. RememberFailure(v) /\ UNCHANGED <<documents, evicted>> BY <2>6 DEF FetchFails
    <3>2. /\ expired'[u] >= expired[u]
          /\ u = v \/ Failed(u) => Failed(u)' \/ expired'[u] = expired[u] + 1
      BY <3>1, RememberEffect
    <3>4. expired'[u] = expired[u] + 1 => expired'[u] >= expired[u] + 1 BY <1>0
    <3>5. Settled(u) => Settled(u)' \/ expired'[u] >= expired[u] + 1
      BY <2>1, <2>4, <3>1, <3>2, <3>4 DEF Settled, Cached
    <3>6. evicted'[u] >= evicted[u] /\ abandoned'[u] >= abandoned[u] BY <1>0, <2>1, <3>1
    <3> QED BY <2>3, <3>2, <3>5, <3>6, BudgetKept
  <2> QED BY <1>7, <2>5, <2>6 DEF FetchStep
<1>8. CASE Tick \/ UNCHANGED vars
  <2>1. UNCHANGED <<cacheVars, inflight, fetch, history>> BY <1>8 DEF Tick, vars
  <2> QED BY <2>1 DEF BudgetOf, Settled, Cached, Failed, Running, cacheVars, history
<1> QED BY <1>1, <1>2, <1>3, <1>4, <1>5, <1>6, <1>7, <1>8 DEF Next, CallerStep

\* A fetch is started only for a URL that nothing settles, but for a failure
\* that is forgotten with it.
LEMMA BudgetStartOf ==
  ASSUME CacheAssumption, TypeOK, TypeOK', NEW c \in Callers, StartFetch(c), Url(c) \notin Nulls,
         BudgetOf(Url(c))
  PROVE  BudgetOf(Url(c))'
<1>0. Resolves(c) /\ Misses(c) BY DEF StartFetch, Misses, LooksUp
<1>1. PICK u \in Urls : u = Url(c) BY <1>0, ResolvesType
<1>2. /\ fetch' = [fetch EXCEPT ![u] = Append(@, "running")]
      /\ inflight' = [inflight EXCEPT ![u] = Len(fetch[u]) + 1] /\ inflight[u] = 0
      /\ Forget(u) /\ UNCHANGED <<documents, frames, evicted, abandoned>>
  BY <1>1 DEF StartFetch
<1>3. ~Cached(u) /\ inflight[u] \notin Running(u) BY <1>0, <1>1, <1>2, RunningIs DEF Misses
<1>4. /\ Len(fetch'[u]) = Len(fetch[u]) + 1 /\ Len(fetch[u]) \in Nat
      /\ fetch'[u][Len(fetch[u]) + 1] = "running"
      /\ fetch' \in [Urls -> Seq(States)]
  BY <1>1, <1>2, Started DEF Grows
<1>5. Settled(u)'
  <2>1. inflight'[u] = Len(fetch'[u]) BY <1>1, <1>2, <1>4 DEF TypeOK
  <2>2. Len(fetch'[u]) \in DOMAIN fetch'[u]
    <3>1. fetch'[u] \in Seq(States) BY <1>4
    <3> QED BY <1>4, <3>1
  <2>3. fetch'[u][Len(fetch'[u])] = "running" BY <1>4
  <2> QED BY <2>1, <2>2, <2>3 DEF Settled, Running
<1>6. /\ expired[u] \in Nat /\ expired'[u] \in Nat /\ evicted[u] \in Nat /\ abandoned[u] \in Nat
      /\ expired'[u] >= expired[u] /\ (Failed(u) => expired'[u] = expired[u] + 1)
  <2>1. expired'[u] >= expired[u] /\ (Failed(u) => expired'[u] = expired[u] + 1) BY <1>2, ForgetEffect
  <2> QED BY <2>1 DEF TypeOK
<1>7. Settled(u) => Failed(u) BY <1>3 DEF Settled
<1>8. PICK i \in {0, 1} : i = (IF Settled(u) THEN 1 ELSE 0) OBVIOUS
<1>9. Len(fetch[u]) <= evicted[u] + expired[u] + abandoned[u] + i BY <1>1, <1>8 DEF BudgetOf
<1>10. expired[u] + i <= expired'[u] BY <1>6, <1>7, <1>8
<1>a. evicted'[u] = evicted[u] /\ abandoned'[u] = abandoned[u] BY <1>2
<1>b. PICK k \in Nat, a \in Nat, b \in Nat, e \in Nat, b2 \in Nat :
        k = Len(fetch[u]) /\ a = evicted[u] /\ b = expired[u] /\ e = abandoned[u] /\ b2 = expired'[u]
  BY <1>4, <1>6
<1>c. k <= a + b + e + i /\ b + i <= b2 BY ONLY <1>9, <1>10, <1>b
<1>11. k + 1 <= a + b2 + e + 1 BY ONLY <1>c, i \in {0, 1}, k \in Nat, a \in Nat, b \in Nat, e \in Nat, b2 \in Nat
<1>d. Len(fetch'[u]) <= evicted'[u] + expired'[u] + abandoned'[u] + 1 BY <1>4, <1>a, <1>b, <1>11
<1>12. BudgetOf(u)' BY <1>5, <1>d DEF BudgetOf
<1>13. Url(c)' = Url(c) BY <1>2 DEF Url, Top
<1> QED BY <1>1, <1>12, <1>13

\* The budget is kept by every step.
LEMMA BudgetStep ==
  ASSUME CacheAssumption, TypeOK, BudgetInv, [Next]_vars
  PROVE  BudgetInv'
<1>0. TypeOK' BY TypeStep
<1>1. ASSUME NEW u \in Urls \ Nulls PROVE BudgetOf(u)'
  <2>0. BudgetOf(u) BY DEF BudgetInv, BudgetOf
  <2>1. CASE \A c \in Callers : StartFetch(c) => Url(c) # u BY <1>0, <2>0, <2>1, BudgetStepOf
  <2>2. ASSUME NEW c \in Callers, StartFetch(c), Url(c) = u PROVE BudgetOf(u)'
    <3>1. UNCHANGED frames BY <2>2 DEF StartFetch
    <3>2. Url(c)' = Url(c) BY <3>1 DEF Url, Top
    <3>3. BudgetOf(Url(c))' BY <1>0, <2>0, <2>2, BudgetStartOf
    <3> QED BY <2>2, <3>2, <3>3 DEF BudgetOf
  <2> QED BY <2>1, <2>2
<1> QED BY <1>1 DEF BudgetInv, BudgetOf

\* For any documents, parses and sizes: types of the loader's state.
THEOREM TypeCorrect == Spec => []TypeOK
<1>1. Init => TypeOK BY CacheAssumption, TypeInit
<1>2. TypeOK /\ [Next]_vars => TypeOK' BY CacheAssumption, TypeStep
<1> QED BY <1>1, <1>2, PTL DEF Spec

\* A document is fetched again only if it was evicted, its failure forgotten, or
\* a waiter of its fetch cancelled.
THEOREM FetchBudgetCorrect == Spec => []FetchBudget
<1>1. Init => BudgetInv
  <2>1. ASSUME Init, NEW u \in Urls PROVE BudgetOf(u)
    <3>1. Len(fetch[u]) = 0 /\ evicted[u] = 0 /\ expired[u] = 0 /\ abandoned[u] = 0 BY <2>1 DEF Init
    <3>2. PICK i \in {0, 1} : i = (IF Settled(u) THEN 1 ELSE 0) OBVIOUS
    <3> QED BY <3>1, <3>2 DEF BudgetOf
  <2> QED BY <2>1 DEF BudgetInv, BudgetOf
<1>2. TypeOK /\ BudgetInv /\ [Next]_vars => BudgetInv' BY CacheAssumption, BudgetStep
<1>3. TypeOK /\ BudgetInv => FetchBudget
  <2> SUFFICES ASSUME TypeOK, BudgetInv, NEW u \in Urls \ Nulls
               PROVE  Len(fetch[u]) <= 1 + evicted[u] + expired[u] + abandoned[u]
    BY DEF FetchBudget
  <2>1. PICK i \in {0, 1} : i = (IF Settled(u) THEN 1 ELSE 0) OBVIOUS
  <2>2. Len(fetch[u]) <= evicted[u] + expired[u] + abandoned[u] + i BY <2>1 DEF BudgetInv
  <2>3. evicted[u] \in Nat /\ expired[u] \in Nat /\ abandoned[u] \in Nat BY DEF TypeOK
  <2>4. fetch[u] \in Seq(States) BY DEF TypeOK, States
  <2> QED BY <2>2, <2>3, <2>4
<1> QED BY <1>1, <1>2, <1>3, TypeCorrect, PTL DEF Spec

-----------------------------------------------------------------------------
(* Running fetches that can be joined *)

\* Nothing is fetched, registered or dropped.
LEMMA JoinKept ==
  ASSUME UNCHANGED <<fetch, inflight, abandoned>>, JoinInv
  PROVE  JoinInv'
BY DEF JoinInv, Running

\* A second fetch of a URL is started only when no fetch of it is registered, so
\* none runs unless one was dropped.
LEMMA JoinStart ==
  ASSUME CacheAssumption, TypeOK, JoinInv, NEW c \in Callers, StartFetch(c)
  PROVE  JoinInv'
<1>1. Resolves(c) BY DEF StartFetch, Misses, LooksUp
<1>2. PICK u \in Urls : u = Url(c) BY <1>1, ResolvesType
<1>3. /\ fetch' = [fetch EXCEPT ![u] = Append(@, "running")] /\ inflight[u] = 0
      /\ inflight' = [inflight EXCEPT ![u] = Len(fetch[u]) + 1] /\ abandoned' = abandoned
  BY <1>2 DEF StartFetch
<1>4. /\ Len(fetch'[u]) = Len(fetch[u]) + 1 /\ Len(fetch[u]) \in Nat
      /\ \A n \in DOMAIN fetch[u] : fetch'[u][n] = fetch[u][n]
      /\ \A v \in Urls \ {u} : fetch'[v] = fetch[v]
      /\ fetch \in [Urls -> Seq(States)] /\ fetch' \in [Urls -> Seq(States)]
  BY <1>2, <1>3, Started DEF Grows, TypeOK, States
<1>5. inflight'[u] = Len(fetch[u]) + 1 /\ \A v \in Urls \ {u} : inflight'[v] = inflight[v]
  BY <1>3 DEF TypeOK
<1>6. DOMAIN fetch[u] = 1..Len(fetch[u]) /\ DOMAIN fetch'[u] = 1..(Len(fetch[u]) + 1)
  <2>1. fetch[u] \in Seq(States) /\ fetch'[u] \in Seq(States) BY <1>4
  <2> QED BY <1>4, <2>1
<1>7. ASSUME NEW v \in Urls, abandoned'[v] = 0 PROVE Running(v)' \subseteq {inflight'[v]}
  <2>1. abandoned[v] = 0 /\ Running(v) \subseteq {inflight[v]} BY <1>3, <1>7 DEF JoinInv
  <2>2. CASE v # u
    <3>1. Running(v)' = Running(v) /\ inflight'[v] = inflight[v] BY <1>4, <1>5, <2>2 DEF Running
    <3> QED BY <2>1, <3>1
  <2>3. CASE v = u
    <3>1. Running(u) = {} BY <1>3, <2>1, <2>3, RunningIs
    <3>2. ASSUME NEW n \in Running(u)' PROVE n = Len(fetch[u]) + 1
      <4>1. n \in DOMAIN fetch'[u] /\ fetch'[u][n] = "running" BY DEF Running
      <4>2. n \in DOMAIN fetch[u] \/ n = Len(fetch[u]) + 1 BY <1>4, <1>6, <4>1
      <4>3. n \notin DOMAIN fetch[u] BY <1>4, <3>1, <4>1 DEF Running
      <4> QED BY <4>2, <4>3
    <3> QED BY <1>5, <2>3, <3>2
  <2> QED BY <2>2, <2>3
<1> QED BY <1>7 DEF JoinInv

\* A waiter that goes drops a running fetch only when it is counted.
LEMMA JoinLeave ==
  ASSUME CacheAssumption, TypeOK, JoinInv, NEW c \in Callers, Wake(c) \/ Cancel(c)
  PROVE  JoinInv'
<1>1. pc[c] = "await" /\ fetch' = fetch BY DEF Wake, Cancel
<1>2. Url(c) \in Urls BY <1>1, ResolvesType
<1>3. ASSUME NEW u \in Urls, abandoned'[u] = 0 PROVE Running(u)' \subseteq {inflight'[u]}
  <2>1. abandoned[u] \in Nat /\ abandoned[u] + 1 # 0 BY SMTT(40) DEF TypeOK
  <2>2. abandoned[u] = 0 BY <1>2, <1>3, <2>1, LeavesTable
  <2>3. inflight'[u] = inflight[u] \/ inflight[u] \notin Running(u) BY <1>2, <1>3, <2>1, LeavesTable
  <2>4. Running(u)' = Running(u) BY <1>1 DEF Running
  <2> QED BY <2>2, <2>3, <2>4 DEF JoinInv
<1> QED BY <1>3 DEF JoinInv

\* JoinInv is inductive.
LEMMA JoinStep ==
  ASSUME CacheAssumption, TypeOK, JoinInv, [Next]_vars
  PROVE  JoinInv'
<1>1. ASSUME NEW c \in Callers, CallerStep(c) \/ Cancel(c) PROVE JoinInv'
  <2>1. CASE Start(c) \/ Leave(c) \/ Reject(c) \/ Hit(c) \/ HitFailure(c) \/ Join(c)
    <3>1. UNCHANGED <<fetch, inflight, abandoned>>
      BY <2>1 DEF Start, Leave, Reject, Hit, HitFailure, Join, history
    <3> QED BY <3>1, JoinKept
  <2> QED BY <1>1, <2>1, JoinStart, JoinLeave DEF CallerStep
<1>2. ASSUME NEW v \in Urls, NEW n, FetchStep(v, n) PROVE JoinInv'
  <2>1. UNCHANGED <<inflight, abandoned>> BY <1>2 DEF FetchStep, FetchSucceeds, FetchFails
  <2>2. PICK state \in {"done", "failed"} : FetchEnds(v, n, state)
    BY <1>2 DEF FetchStep, FetchSucceeds, FetchFails
  <2>3. ASSUME NEW u \in Urls PROVE Running(u)' \subseteq Running(u)
    <3>1. /\ DOMAIN fetch'[u] = DOMAIN fetch[u]
          /\ \A m \in DOMAIN fetch[u] : fetch'[u][m] = IF u = v /\ m = n THEN state ELSE fetch[u][m]
      BY <2>2, Ending
    <3> QED BY <3>1 DEF Running
  <2> QED BY <2>1, <2>3 DEF JoinInv
<1>3. CASE Tick \/ UNCHANGED vars
  <2>1. UNCHANGED <<fetch, inflight, abandoned>> BY <1>3 DEF Tick, vars, history
  <2> QED BY <2>1, JoinKept
<1> QED BY <1>1, <1>2, <1>3 DEF Next

\* A fetch that runs can be joined by whoever asks, unless a cancelled waiter
\* took it off the table: waking waiters of earlier fetches never do.
THEOREM JoinableCorrect == Spec => []JoinableUnlessDropped
<1>1. Init => JoinInv BY DEF Init, JoinInv, Running
<1>2. TypeOK /\ JoinInv /\ [Next]_vars => JoinInv' BY CacheAssumption, JoinStep
<1>3. JoinInv => JoinableUnlessDropped BY DEF JoinInv, JoinableUnlessDropped
<1> QED BY <1>1, <1>2, <1>3, TypeCorrect, PTL DEF Spec

-----------------------------------------------------------------------------
(* Parses *)

\* FramesInv, caller by caller.
CallerInv(c) ==
  /\ pc[c] = "done" => ToSet(Payload[c]) \subseteq Complete
  /\ pc[c] = "await" => Url(c) \in Allowed
  /\ pc[c] \in {"inline", "await"} => \A i \in DOMAIN frames[c] : Carried(c, i)

CachedInv == \A u \in ToSet(documents) : Fetched(u)

\* FramesInv is these parts.
LEMMA FramesParts == FramesInv <=> CachedInv /\ \A c \in Callers : CallerInv(c)
BY DEF FramesInv, CallerInv, CachedInv

\* What is fetched stays fetched.
LEMMA FetchedStays ==
  ASSUME CacheAssumption, TypeOK, [Next]_vars, NEW u, Fetched(u)
  PROVE  Fetched(u)'
<1>1. PICK m \in DOMAIN fetch[u] : u \in Urls /\ fetch[u][m] = "done" BY DEF Fetched
<1>2. CASE fetch' = fetch BY <1>2 DEF Fetched
<1>3. ASSUME NEW c \in Callers, StartFetch(c) PROVE Fetched(u)'
  <2>1. Resolves(c) BY <1>3 DEF StartFetch, Misses, LooksUp
  <2>2. PICK v \in Urls : v = Url(c) BY <2>1, ResolvesType
  <2>3. fetch' = [fetch EXCEPT ![v] = Append(@, "running")] BY <1>3, <2>2 DEF StartFetch
  <2>4. /\ Grows /\ Len(fetch'[v]) = Len(fetch[v]) + 1 /\ Len(fetch[v]) \in Nat
        /\ \A n \in DOMAIN fetch[v] : fetch'[v][n] = fetch[v][n]
        /\ \A w \in Urls \ {v} : fetch'[w] = fetch[w]
    BY <2>3, Started
  <2>5. CASE u # v BY <1>1, <2>4, <2>5 DEF Fetched
  <2>6. CASE u = v
    <3>1. fetch[v] \in Seq(States) /\ fetch'[v] \in Seq(States) BY <2>4 DEF TypeOK, States, Grows
    <3>2. m \in DOMAIN fetch'[v] BY <1>1, <2>4, <2>6, <3>1
    <3> QED BY <1>1, <2>4, <2>6, <3>2 DEF Fetched
  <2> QED BY <2>5, <2>6
<1>4. ASSUME NEW v \in Urls, NEW n, FetchStep(v, n) PROVE Fetched(u)'
  <2>1. PICK state \in {"done", "failed"} : FetchEnds(v, n, state)
    BY <1>4 DEF FetchStep, FetchSucceeds, FetchFails
  <2>2. /\ n \in DOMAIN fetch[v] /\ fetch[v][n] = "running"
        /\ \A w \in Urls : Len(fetch'[w]) = Len(fetch[w]) /\ DOMAIN fetch'[w] = DOMAIN fetch[w]
        /\ \A w \in Urls : \A k \in DOMAIN fetch[w] :
             fetch'[w][k] = IF w = v /\ k = n THEN state ELSE fetch[w][k]
    BY <2>1, Ending
  <2>3. ~(u = v /\ m = n) BY <1>1, <2>2
  <2> QED BY <1>1, <2>2, <2>3 DEF Fetched
<1>5. \/ fetch' = fetch \/ \E c \in Callers : StartFetch(c)
      \/ \E v \in Urls, n \in 1..MaxFetches : FetchStep(v, n)
  BY DEF Next, CallerStep, vars, Start, Leave, Reject, Hit, HitFailure, Join, Wake, Cancel, Tick
<1> QED BY <1>2, <1>3, <1>4, <1>5

\* What is complete stays complete.
LEMMA CompleteStays ==
  ASSUME CacheAssumption, TypeOK, [Next]_vars
  PROVE  Complete \subseteq Complete'
<1>1. ASSUME NEW v \in Complete PROVE v \in Complete'
  <2>1. PICK S \in SUBSET Urls :
          /\ v \in S
          /\ \A u \in S : u \in Allowed /\ Fetched(u) /\ (u \notin Nulls => ToSet(Refs[u]) \subseteq S)
    BY DEF Complete
  <2>2. \A u \in S : u \in Allowed /\ Fetched(u)' /\ (u \notin Nulls => ToSet(Refs[u]) \subseteq S)
    BY <2>1, FetchedStays
  <2> QED BY <2>1, <2>2 DEF Complete
<1> QED BY <1>1

\* A complete document has complete references.
LEMMA CompleteBelow ==
  ASSUME NEW u \in Complete
  PROVE  u \in Urls /\ u \in Allowed /\ Fetched(u) /\ (u \notin Nulls => ToSet(Refs[u]) \subseteq Complete)
<1>1. PICK S \in SUBSET Urls :
        /\ u \in S
        /\ \A v \in S : v \in Allowed /\ Fetched(v) /\ (v \notin Nulls => ToSet(Refs[v]) \subseteq S)
  BY DEF Complete
<1>2. S \subseteq Complete BY <1>1 DEF Complete
<1> QED BY <1>1, <1>2

\* An accepted and fetched document whose references are complete is complete.
LEMMA CompleteIntro ==
  ASSUME NEW u \in Urls, u \in Allowed, Fetched(u), u \notin Nulls => ToSet(Refs[u]) \subseteq Complete
  PROVE  u \in Complete
<1> DEFINE S == Complete \cup {u}
<1>1. S \subseteq Urls BY CompleteBelow
<1>2. \A v \in S : v \in Allowed /\ Fetched(v) /\ (v \notin Nulls => ToSet(Refs[v]) \subseteq S)
  BY CompleteBelow
<1>3. S \in SUBSET Urls /\ u \in S BY <1>1
<1> HIDE DEF S
<1> QED BY <1>2, <1>3 DEF Complete

\* A document that a parse stays inside of.
LEMMA CarriedStays ==
  ASSUME CacheAssumption, TypeOK, [Next]_vars, NEW c \in Callers, frames'[c] = frames[c],
         NEW i, Carried(c, i)
  PROVE  Carried(c, i)'
<1>1. frames[c][i].url = NoUrl <=> i = 1 BY DEF Carried
<1>2. i # 1 => frames[c][i].url \in Allowed /\ Fetched(frames[c][i].url)' BY FetchedStays DEF Carried
<1>3. \A v \in References(c, frames[c][i].url) :
        \/ v \in ToSet(frames[c][i].rest) \cup Complete'
        \/ i < Len(frames[c]) /\ v = frames[c][i + 1].url
  BY CompleteStays DEF Carried
<1> QED BY <1>1, <1>2, <1>3 DEF Carried, References, Fetched

\* A parse that does not move.
LEMMA CallerStays ==
  ASSUME CacheAssumption, TypeOK, [Next]_vars, NEW c \in Callers,
         pc'[c] = pc[c], frames'[c] = frames[c], CallerInv(c)
  PROVE  CallerInv(c)'
<1>1. pc'[c] = "done" => ToSet(Payload[c]) \subseteq Complete' BY CompleteStays DEF CallerInv
<1>2. pc'[c] = "await" => Url(c)' \in Allowed BY DEF CallerInv, Url, Top
<1>3. pc'[c] \in {"inline", "await"} => \A i \in DOMAIN frames'[c] : Carried(c, i)'
  BY CarriedStays DEF CallerInv
<1> QED BY <1>1, <1>2, <1>3 DEF CallerInv

\* A parse that starts has its payload's references before it.
LEMMA StartInv ==
  ASSUME CacheAssumption, TypeOK, NEW c \in Callers, Start(c)
  PROVE  CallerInv(c)'
<1>1. pc'[c] \in {"failed", "inline"} BY DEF Start, GoTo, TypeOK
<1>2. ASSUME pc'[c] = "inline" PROVE \A i \in DOMAIN frames'[c] : Carried(c, i)'
  <2>1. frames'[c] = <<[url |-> NoUrl, rest |-> Payload[c]]>> BY <1>2 DEF Start, GoTo, TypeOK
  <2>2. DOMAIN frames'[c] = {1} /\ frames'[c][1].url = NoUrl /\ frames'[c][1].rest = Payload[c]
    BY <2>1
  <2> QED BY <2>2 DEF Carried, References
<1> QED BY <1>1, <1>2 DEF CallerInv

\* A parse that goes into a document has its references before it.
LEMMA EnterInv ==
  ASSUME CacheAssumption, TypeOK, [Next]_vars, NEW c \in Callers, CallerInv(c),
         Resolves(c) \/ pc[c] = "await", Enter(c), Url(c) \in Allowed, Fetched(Url(c))
  PROVE  CallerInv(c)'
<1>0. PICK n, u, rest : n = Len(frames[c]) /\ u = Url(c) /\ rest = frames[c][n].rest OBVIOUS
<1>1. PICK up \in Seq(Frame), new \in Frame :
        /\ frames' = [frames EXCEPT ![c] = Append(up, new)]
        /\ Len(up) = Len(frames[c])
        /\ \A i \in 1..Len(up) : i # Len(up) => up[i] = frames[c][i]
        /\ up[Len(up)].url = Top(c).url /\ up[Len(up)].rest = Tail(Top(c).rest)
        /\ new.url = Url(c) /\ new.rest = IF Url(c) \in Nulls THEN <<>> ELSE Refs[Url(c)]
        /\ pc' = [pc EXCEPT ![c] = "inline"]
  BY EnterFrames
<1>2. /\ frames[c] \in Seq(Frame) /\ n \in Nat \ {0} /\ Top(c) \in Frame /\ u \in Urls
      /\ Top(c).rest \in Seq(Urls)
  BY <1>0, ResolvesType
<1>3. PICK g : g = Append(up, new) OBVIOUS
<1>4. /\ frames'[c] = g /\ pc'[c] = "inline" BY <1>1, <1>3 DEF TypeOK
<1>5. /\ Len(g) = n + 1 /\ DOMAIN g = 1..n + 1 /\ g[n + 1] = new
      /\ \A i \in 1..n : g[i] = up[i]
  BY <1>0, <1>1, <1>2, <1>3
<1>6. Top(c) = frames[c][n] BY <1>0 DEF Top, Last
<1>7. \A i \in 1..n : g[i].url = frames[c][i].url BY <1>0, <1>1, <1>2, <1>5, <1>6
<1>8. /\ \A i \in 1..n : i # n => g[i].rest = frames[c][i].rest
      /\ g[n].rest = Tail(rest) /\ g[n + 1].url = Head(rest)
  <2>1. rest = Top(c).rest BY <1>0, <1>6
  <2>2. n \in 1..n BY <1>2
  <2>3. g[n].rest = Tail(rest) BY <1>0, <1>1, <1>5, <2>1, <2>2
  <2>4. g[n + 1].url = Head(rest) BY <1>1, <1>5, <2>1 DEF Url
  <2>5. ASSUME NEW i \in 1..n, i # n PROVE g[i].rest = frames[c][i].rest BY <1>0, <1>1, <1>5, <2>5
  <2> QED BY <2>3, <2>4, <2>5
<1>9. \A i \in 1..n : Carried(c, i)
  <2>1. DOMAIN frames[c] = 1..n BY <1>0, <1>2
  <2>2. pc[c] \in {"inline", "await"} BY DEF Resolves, Inlining
  <2> QED BY <2>1, <2>2 DEF CallerInv
<1>10. ASSUME NEW i \in 1..n PROVE Carried(c, i)'
  <2>0. PICK w : w = frames[c][i].url OBVIOUS
  <2>1. w = NoUrl <=> i = 1 BY <1>9, <2>0 DEF Carried
  <2>2. i # 1 => w \in Allowed /\ Fetched(w)' BY <1>9, <2>0, FetchedStays DEF Carried
  <2>3. ASSUME NEW v \in References(c, w)
        PROVE  v \in ToSet(g[i].rest) \cup Complete' \/ v = g[i + 1].url
    <3>1. \/ v \in ToSet(frames[c][i].rest) \cup Complete
          \/ i < n /\ v = frames[c][i + 1].url
      BY <1>0, <1>9, <2>0, <2>3 DEF Carried
    <3>2. CASE v \in Complete BY <3>2, CompleteStays
    <3>3. CASE i < n /\ v = frames[c][i + 1].url
      <4>1. i + 1 \in 1..n BY <1>2, <3>3
      <4> QED BY <1>7, <3>3, <4>1
    <3>4. CASE v \in ToSet(frames[c][i].rest) /\ i # n BY <1>8, <3>4
    <3>5. CASE v \in ToSet(frames[c][i].rest) /\ i = n
      <4>1. rest \in Seq(Urls) /\ v \in ToSet(rest) BY <1>0, <1>2, <1>6, <3>5
      <4>2. v = Head(rest) \/ v \in ToSet(Tail(rest)) BY <4>1, HeadOrTail
      <4> QED BY <1>8, <3>5, <4>2
    <3> QED BY <3>1, <3>2, <3>3, <3>4, <3>5
  <2>4. i < Len(frames'[c]) BY <1>2, <1>4, <1>5
  <2>5. frames'[c][i].url = w BY <1>4, <1>7, <2>0
  <2> QED BY <1>4, <2>1, <2>2, <2>3, <2>4, <2>5 DEF Carried, References, Fetched
<1>11. Carried(c, n + 1)'
  <2>1. u # NoUrl /\ n + 1 # 1 BY <1>2 DEF CacheAssumption
  <2>2. u \in Allowed /\ Fetched(u)' BY <1>0, FetchedStays
  <2>3. References(c, u) = ToSet(new.rest)
    <3>1. CASE u \in Nulls BY <1>0, <1>1, <2>1, <3>1 DEF References, ToSet
    <3>2. CASE u \notin Nulls BY <1>0, <1>1, <2>1, <3>2 DEF References
    <3> QED BY <3>1, <3>2
  <2>4. frames'[c][n + 1] = new /\ new.url = u BY <1>0, <1>1, <1>4, <1>5
  <2> QED BY <2>1, <2>2, <2>3, <2>4 DEF Carried, References, Fetched
<1>12. \A i \in DOMAIN frames'[c] : Carried(c, i)'
  <2>1. \A i \in DOMAIN frames'[c] : i \in 1..n \/ i = n + 1 BY <1>2, <1>4, <1>5
  <2> QED BY <1>10, <1>11, <2>1
<1> QED BY <1>4, <1>12 DEF CallerInv

\* A parse that is through with a document leaves it complete.
LEMMA LeaveInv ==
  ASSUME CacheAssumption, TypeOK, [Next]_vars, NEW c \in Callers, CallerInv(c), Leave(c)
  PROVE  CallerInv(c)'
<1> DEFINE n == Len(frames[c])
<1>1. /\ pc[c] = "inline" /\ frames[c] \in Seq(Frame) /\ frames[c] # <<>> /\ Top(c).rest = <<>>
  BY DEF Leave, Inlining, TypeOK
<1>2. n \in Nat \ {0} /\ DOMAIN frames[c] = 1..n /\ n \in 1..n /\ Top(c) = frames[c][n]
  BY <1>1 DEF Top, Last
<1>3. \A i \in 1..n : Carried(c, i) BY <1>1, <1>2 DEF CallerInv
<1>4. References(c, frames[c][n].url) \subseteq Complete
  <2>1. ~(n < n) BY <1>2
  <2>2. ToSet(frames[c][n].rest) = {} BY <1>1, <1>2 DEF ToSet
  <2> QED BY <1>2, <1>3, <2>1, <2>2 DEF Carried
<1>5. frames'[c] = Front(frames[c]) BY DEF Leave, TypeOK
<1>6. CASE n = 1
  <2>1. pc'[c] = "done" BY <1>6 DEF Leave, GoTo, TypeOK
  <2>2. frames[c][n].url = NoUrl BY <1>2, <1>3, <1>6 DEF Carried
  <2>3. ToSet(Payload[c]) \subseteq Complete BY <1>4, <2>2 DEF References
  <2> QED BY <2>1, <2>3, CompleteStays DEF CallerInv
<1>7. CASE n # 1
  <2>1. pc'[c] = "inline" BY <1>1, <1>7 DEF Leave
  <2>2. PICK u : u = frames[c][n].url OBVIOUS
  <2>3. u \in Allowed /\ Fetched(u) /\ u # NoUrl BY <1>2, <1>3, <1>7, <2>2 DEF Carried
  <2>4. u \in Complete
    <3>1. u \in Urls BY <2>3 DEF Fetched
    <3>2. u \notin Nulls => ToSet(Refs[u]) \subseteq Complete BY <1>4, <2>2, <2>3 DEF References
    <3> QED BY <2>3, <3>1, <3>2, CompleteIntro
  <2>5. PICK g : g = frames'[c] OBVIOUS
  <2>6. Len(g) = n - 1 /\ DOMAIN g = 1..n - 1 /\ \A i \in 1..n - 1 : g[i] = frames[c][i]
    BY <1>1, <1>2, <1>5, <2>5 DEF Front
  <2> HIDE DEF n
  <2>7. ASSUME NEW i \in 1..n - 1 PROVE Carried(c, i)'
    <3>0. i \in 1..n BY <1>2
    <3>1. g[i].url = NoUrl <=> i = 1 BY <1>3, <2>6, <3>0 DEF Carried
    <3>2. i # 1 => g[i].url \in Allowed /\ Fetched(g[i].url)'
      BY <1>3, <2>6, <3>0, FetchedStays DEF Carried
    <3>3. ASSUME NEW v \in References(c, g[i].url)
          PROVE  v \in ToSet(g[i].rest) \cup Complete' \/ (i < n - 1 /\ v = g[i + 1].url)
      <4>1. \/ v \in ToSet(g[i].rest) \cup Complete
            \/ i < n /\ v = frames[c][i + 1].url
        BY <1>3, <2>6, <3>0, <3>3 DEF Carried, n
      <4>2. CASE v \in ToSet(g[i].rest) \cup Complete BY <4>2, CompleteStays
      <4>3. CASE v = frames[c][i + 1].url /\ i = n - 1
        <5>1. i + 1 = n BY <1>2, <4>3
        <5> QED BY <2>2, <2>4, <4>3, <5>1, CompleteStays
      <4>4. CASE v = frames[c][i + 1].url /\ i # n - 1
        <5>1. i + 1 \in 1..n - 1 /\ i < n - 1 BY <1>2, <4>4
        <5> QED BY <2>6, <4>4, <5>1
      <4> QED BY <4>1, <4>2, <4>3, <4>4
    <3> QED BY <2>5, <2>6, <3>1, <3>2, <3>3 DEF Carried, References, Fetched
  <2>8. \A i \in DOMAIN frames'[c] : Carried(c, i)' BY <2>5, <2>6, <2>7
  <2> QED BY <2>1, <2>8 DEF CallerInv
<1> QED BY <1>6, <1>7

\* Only documents that were fetched are cached.
LEMMA CachedStep ==
  ASSUME CacheAssumption, TypeOK, [Next]_vars, CachedInv
  PROVE  CachedInv'
<1>1. CASE documents' = documents BY <1>1, FetchedStays DEF CachedInv
<1>2. ASSUME NEW c \in Callers, Hit(c) PROVE CachedInv'
  <2>1. Resolves(c) /\ Cached(Url(c)) /\ documents' = Append(RemoveFirst(documents, Url(c)), Url(c))
    BY <1>2 DEF Hit, LooksUp
  <2>2. ToSet(documents') = ToSet(documents) BY <2>1, ResolvesType, TouchDocument
  <2> QED BY <2>2, FetchedStays DEF CachedInv
<1>3. ASSUME NEW v \in Urls, NEW n, FetchSucceeds(v, n) PROVE CachedInv'
  <2>1. ToSet(documents') \subseteq ToSet(documents) \cup {v} BY <1>3, PutEffect DEF FetchSucceeds
  <2>2. n \in DOMAIN fetch[v] /\ fetch'[v][n] = "done" /\ DOMAIN fetch'[v] = DOMAIN fetch[v]
    BY <1>3, Ending DEF FetchSucceeds
  <2>3. Fetched(v)' BY <2>2 DEF Fetched
  <2> QED BY <2>1, <2>3, FetchedStays DEF CachedInv
<1>4. \/ documents' = documents \/ \E c \in Callers : Hit(c)
      \/ \E v \in Urls, n \in 1..MaxFetches : FetchSucceeds(v, n)
  BY DEF Next, CallerStep, FetchStep, FetchFails, vars, cacheVars,
         Start, Leave, Reject, HitFailure, Join, StartFetch, Wake, Cancel, Tick
<1> QED BY <1>1, <1>2, <1>3, <1>4

\* A step of a parse.
LEMMA CallerInvStep ==
  ASSUME CacheAssumption, TypeOK, [Next]_vars, CachedInv, NEW c \in Callers, CallerInv(c),
         CallerStep(c) \/ Cancel(c)
  PROVE  CallerInv(c)'
<1>1. CASE Start(c) BY <1>1, StartInv
<1>2. CASE Leave(c) BY <1>2, LeaveInv
<1>3. ASSUME pc'[c] \in {"failed", "cancelled"} PROVE CallerInv(c)' BY <1>3 DEF CallerInv
<1>4. CASE Reject(c) \/ HitFailure(c) \/ Cancel(c)
  <2>1. pc'[c] \in {"failed", "cancelled"} BY <1>4 DEF Reject, HitFailure, Cancel, Fail, GoTo, TypeOK
  <2> QED BY <1>3, <2>1
<1>5. CASE Hit(c)
  <2>1. Resolves(c) /\ Enter(c) /\ Cached(Url(c)) /\ Url(c) \in Allowed BY <1>5 DEF Hit, LooksUp
  <2>2. Url(c) \in ToSet(documents) BY <2>1, CachedElement DEF TypeOK
  <2>3. Fetched(Url(c)) BY <2>2 DEF CachedInv
  <2> QED BY <2>1, <2>3, EnterInv
<1>6. CASE Join(c) \/ StartFetch(c)
  <2>1. /\ pc'[c] = "await" /\ frames' = frames /\ Url(c) \in Allowed /\ pc[c] = "inline"
    BY <1>6 DEF Join, StartFetch, GoTo, Misses, LooksUp, Resolves, Inlining, TypeOK
  <2>2. Url(c)' = Url(c) BY <2>1 DEF Url, Top
  <2>3. \A i \in DOMAIN frames[c] : Carried(c, i)' BY <2>1, CarriedStays DEF CallerInv
  <2> QED BY <2>1, <2>2, <2>3 DEF CallerInv
<1>7. CASE Wake(c)
  <2>1. pc[c] = "await" BY <1>7 DEF Wake
  <2>2. CASE Awaited(c) = "done"
    <3>1. Enter(c) BY <1>7, <2>2 DEF Wake
    <3>2. Url(c) \in Allowed BY <2>1 DEF CallerInv
    <3>3. Url(c) \in Urls BY <2>1, ResolvesType
    <3>4. fetch[Url(c)] \in Seq(States) BY <3>3 DEF TypeOK, States
    <3>5. waitsFor[c] \in DOMAIN fetch[Url(c)] BY <2>1, <3>4 DEF TypeOK
    <3>6. Fetched(Url(c)) BY <2>2, <3>3, <3>5 DEF Fetched, Awaited
    <3> QED BY <2>1, <3>1, <3>2, <3>6, EnterInv
  <2>3. CASE Awaited(c) # "done"
    <3>1. pc'[c] = "failed" BY <1>7, <2>3 DEF Wake, Fail, GoTo, TypeOK
    <3> QED BY <1>3, <3>1
  <2> QED BY <2>2, <2>3
<1> QED BY <1>1, <1>2, <1>4, <1>5, <1>6, <1>7 DEF CallerStep

\* Only the caller that steps moves.
LEMMA OthersStay ==
  ASSUME CacheAssumption, TypeOK, NEW c \in Callers, CallerStep(c) \/ Cancel(c), NEW d \in Callers, d # c
  PROVE  pc'[d] = pc[d] /\ frames'[d] = frames[d]
<1>1. pc' = pc \/ \E label : pc' = [pc EXCEPT ![c] = label]
  BY DEF CallerStep, Cancel, Start, Leave, Reject, Hit, HitFailure, Join, StartFetch, Wake, Enter, Fail, GoTo
<1>2. frames' = frames \/ \E fs : frames' = [frames EXCEPT ![c] = fs]
  BY DEF CallerStep, Cancel, Start, Leave, Reject, Hit, HitFailure, Join, StartFetch, Wake, Enter, Fail
<1> QED BY <1>1, <1>2 DEF TypeOK

\* FramesInv is inductive.
LEMMA FramesStep ==
  ASSUME CacheAssumption, TypeOK, FramesInv, [Next]_vars
  PROVE  FramesInv'
<1>1. CachedInv /\ \A c \in Callers : CallerInv(c) BY FramesParts
<1>2. CachedInv' BY <1>1, CachedStep
<1>3. ASSUME NEW d \in Callers PROVE CallerInv(d)'
  <2>1. ASSUME NEW c \in Callers, CallerStep(c) \/ Cancel(c) PROVE CallerInv(d)'
    <3>1. CASE d = c BY <1>1, <2>1, <3>1, CallerInvStep
    <3>2. CASE d # c BY <1>1, <2>1, <3>2, OthersStay, CallerStays
    <3> QED BY <3>1, <3>2
  <2>2. CASE UNCHANGED <<pc, frames>> BY <1>1, <2>2, CallerStays
  <2>3. \/ \E c \in Callers : CallerStep(c) \/ Cancel(c)
        \/ UNCHANGED <<pc, frames>>
    BY DEF Next, vars, callerVars, FetchStep, FetchSucceeds, FetchFails, Tick
  <2> QED BY <2>1, <2>2, <2>3
<1>4. FramesInv' <=> CachedInv' /\ \A c \in Callers : CallerInv(c)' BY DEF FramesInv, CallerInv, CachedInv
<1> QED BY <1>2, <1>3, <1>4

\* What is within reach of complete documents is complete.
LEMMA BelowComplete ==
  ASSUME CacheAssumption, NEW urls, urls \subseteq Complete
  PROVE  Below(urls) \subseteq Complete
<1> DEFINE N == Cardinality(Urls)
           Step(g, n) == IF n = 0 THEN urls
                         ELSE g[n - 1] \cup UNION {ToSet(Refs[u]) : u \in g[n - 1] \ Nulls}
           grow[n \in 0..N] == IF n = 0 THEN urls
                                ELSE grow[n - 1] \cup UNION {ToSet(Refs[u]) : u \in grow[n - 1] \ Nulls}
           Good(k) == \E g : g = [n \in 0..k |-> Step(g, n)]
           S == {k \in Nat : Good(k)}
<1>0. N \in Nat BY FS_CardinalityType DEF CacheAssumption
<1>1. 0 \in S
  <2>1. [n \in 0..0 |-> urls] = [n \in 0..0 |-> Step([m \in 0..0 |-> urls], n)]
    <3>1. \A n \in 0..0 : n = 0 OBVIOUS
    <3> QED BY <3>1
  <2> QED BY <2>1
<1>2. ASSUME NEW k \in Nat, k \in S PROVE k + 1 \in S
  <2>1. PICK g : g = [n \in 0..k |-> Step(g, n)] BY <1>2
  <2> DEFINE last == g[k] \cup UNION {ToSet(Refs[u]) : u \in g[k] \ Nulls}
             h == [n \in 0..k + 1 |-> IF n = k + 1 THEN last ELSE g[n]]
  <2> HIDE DEF last
  <2>2. ASSUME NEW n \in 0..k + 1 PROVE h[n] = Step(h, n)
    <3>1. CASE n = k + 1
      <4>1. h[n] = last /\ h[n - 1] = g[k] /\ n # 0 BY <3>1
      <4> QED BY <4>1 DEF last
    <3>2. CASE n # k + 1
      <4>1. n \in 0..k /\ h[n] = g[n] BY <3>2
      <4>2. g[n] = Step(g, n) BY <2>1, <4>1
      <4>3. n # 0 => h[n - 1] = g[n - 1] BY <4>1
      <4> QED BY <4>1, <4>2, <4>3
    <3> QED BY <3>1, <3>2
  <2>3. h = [n \in 0..k + 1 |-> Step(h, n)] BY <2>2
  <2> HIDE DEF h
  <2>4. Good(k + 1) BY <2>3
  <2> QED BY <2>4
<1> HIDE DEF S
<1>3. Nat \subseteq S BY <1>1, <1>2, SetInduction
<1>4. Good(N) BY <1>0, <1>3 DEF S
<1>5. grow = [n \in 0..N |-> Step(grow, n)] BY <1>4
<1>6. Below(urls) = grow[N] BY DEF Below
<1> HIDE DEF grow, N
<1> DEFINE T == {n \in Nat : n \in 0..N => grow[n] \subseteq Complete}
<1>7. 0 \in T
  <2>1. 0 \in 0..N => grow[0] = urls BY <1>5
  <2> QED BY <2>1
<1>8. ASSUME NEW n \in Nat, n \in T PROVE n + 1 \in T
  <2>1. ASSUME n + 1 \in 0..N PROVE grow[n + 1] \subseteq Complete
    <3>1. n \in 0..N /\ n + 1 # 0 /\ (n + 1) - 1 = n BY <1>0, <2>1
    <3>2. grow[n] \subseteq Complete BY <1>8, <3>1
    <3>3. grow[n + 1] = Step(grow, n + 1) BY <1>5, <2>1
    <3>4. grow[n + 1] = grow[n] \cup UNION {ToSet(Refs[u]) : u \in grow[n] \ Nulls} BY <3>1, <3>3
    <3>5. \A u \in grow[n] \ Nulls : ToSet(Refs[u]) \subseteq Complete BY <3>2, CompleteBelow
    <3> QED BY <3>2, <3>4, <3>5
  <2> QED BY <2>1
<1> HIDE DEF T
<1>9. Nat \subseteq T BY <1>7, <1>8, SetInduction
<1>10. N \in T /\ N \in 0..N BY <1>0, <1>9
<1> QED BY <1>6, <1>10 DEF T

\* A parse that ends well has everything below its payload: every document in
\* reach was accepted and fetched, however the parses and fetches interleave.
THEOREM DoneCorrect == Spec => []DoneMeansComplete
<1>1. Init => FramesInv BY DEF Init, FramesInv, ToSet
<1>2. TypeOK /\ FramesInv /\ [Next]_vars => FramesInv' BY CacheAssumption, FramesStep
<1>3. FramesInv => DoneMeansComplete
  <2> SUFFICES ASSUME FramesInv, NEW c \in Callers, pc[c] = "done", NEW u \in Below(ToSet(Payload[c]))
               PROVE  u \in Allowed /\ \E n \in DOMAIN fetch[u] : fetch[u][n] = "done"
    BY DEF DoneMeansComplete
  <2>1. ToSet(Payload[c]) \subseteq Complete BY DEF FramesInv
  <2>2. u \in Complete BY CacheAssumption, <2>1, BelowComplete
  <2> QED BY <2>2, CompleteBelow DEF Fetched
<1> QED BY <1>1, <1>2, <1>3, TypeCorrect, PTL DEF Spec

=============================================================================
