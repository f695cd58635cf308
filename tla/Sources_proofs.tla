---------------------------- MODULE Sources_proofs ----------------------------
(***************************************************************************)
(* What the plugins promise of the records they read, whatever the         *)
(* protocol, the server, its listings and documents, and the bounds.       *)
(*                                                                         *)
(* StreamInv: handed counts the identifiers seen, and whatever is still    *)
(* to be yielded is one of Ids or blank; from it discovery implements      *)
(* UniqueStream.  ListingInv: what is announced (handed on, or waiting in  *)
(* a page) covers all that lies before the cursors, or in the documents    *)
(* visited; from it nothing that stays listed is missed.  BatchInv: what   *)
(* the thread has read is what the sets list, up to where it reads; from   *)
(* it every unit is answered.                                              *)
(***************************************************************************)
EXTENDS Sources, Lemmas

Listable == Ids \cup {Blank}
Places == IF protocol \in Linked THEN Urls ELSE IF protocol = "mycore_rest" THEN Int ELSE Nat
Items == {Found(e) : e \in Listable} \cup {Get(c) : c \in Places}

ServerOK == /\ protocol \in Cursor \cup Linked
            /\ limit \in Nat \ {0}
            /\ listing \in Seq(Listable)
            /\ \A u \in Urls : WellFormed(site[u])
TodoOK == todo \in Seq(Items)
Booked == /\ seen \subseteq Ids
          /\ handed = [i \in Ids |-> IF i \in seen THEN 1 ELSE 0]
StreamInv == ServerOK /\ TodoOK /\ Booked /\ phase \in {"running", "ended", "failed"}

-----------------------------------------------------------------------------
\* A discovery starts with nothing told.
LEMMA InitInv == Init => StreamInv
<1> SUFFICES ASSUME Init PROVE StreamInv
  OBVIOUS
<1>1. ServerOK
  <2>1. protocol \in Cursor \cup Linked /\ limit \in Nat \ {0}
    BY DiscoveryAssumption DEF Init
  <2>2. listing \in Seq(Listable)
    <3>1. listing \in Listings \/ listing = <<>>
      BY DEF Init
    <3>2. \A l \in Listings : l \in Seq(Ids \cup {Blank})
      BY DiscoveryAssumption
    <3>3. CASE listing \in Listings
      BY <3>2, <3>3 DEF Listable
    <3>4. CASE listing = <<>>
      BY <3>4
    <3> QED
      BY <3>1, <3>3, <3>4
  <2>3. \A u \in Urls : WellFormed(site[u])
    BY DiscoveryAssumption DEF Init
  <2> QED
    BY <2>1, <2>2, <2>3 DEF ServerOK
<1>2. TodoOK
  <2> DEFINE at == IF protocol \in Linked THEN EntryUrl ELSE IF protocol = "mycore_rest" THEN FromStart ELSE 0
  <2>1. at \in Places
    BY DiscoveryAssumption DEF Places, FromStart
  <2>2. todo = <<Get(at)>>
    BY DEF Init
  <2>3. Get(at) \in Items
    BY <2>1 DEF Items
  <2> HIDE DEF at
  <2> QED
    BY <2>2, <2>3 DEF TodoOK
<1>3. Booked
  BY DEF Init, Booked
<1> QED
  BY <1>1, <1>2, <1>3 DEF StreamInv, Init

\* Requests and entries are told apart by their first component.
LEMMA ItemKinds ==
  ASSUME NEW item \in Items
  PROVE  /\ item[1] = "get" => item[2] \in Places
         /\ item[1] = "list" => item[2] \in Listable
BY DEF Items, Found, Get

\* What is done next, and what is left.
LEMMA HeadItem ==
  ASSUME TodoOK, todo # <<>>
  PROVE  todo[1] \in Items /\ Tail(todo) \in Seq(Items)
BY HeadTailProperties DEF TodoOK

\* A page of entries, followed by at most one request.
LEMMA AnswerItems ==
  ASSUME NEW page \in Seq(Listable), NEW more \in Seq(Items)
  PROVE  [n \in DOMAIN page |-> Found(page[n])] \o more \in Seq(Items)
<1>1. \A n \in DOMAIN page : Found(page[n]) \in Items
  BY DEF Items
<1>2. [n \in DOMAIN page |-> Found(page[n])] \in Seq(Items)
  BY <1>1
<1> QED
  BY <1>2, ConcatProperties

\* The entries before a cursor can be counted,
LEMMA BeforeType ==
  ASSUME ServerOK, protocol \in Cursor, NEW at \in Places
  PROVE  Before(at) \in Nat
<1>1. CASE ~honest \/ protocol = "pubplant_json_array"
  BY <1>1 DEF Before
<1>2. CASE honest /\ protocol = "mycore_rest"
  <2> DEFINE passed == {n \in DOMAIN listing : listing[n] <= at}
  <2>1. DOMAIN listing = 1 .. Len(listing) /\ Len(listing) \in Nat
    BY DEF ServerOK
  <2>2. IsFiniteSet(passed)
    <3>1. passed \subseteq 1 .. Len(listing)
      BY <2>1
    <3>2. IsFiniteSet(1 .. Len(listing))
      BY <2>1, FS_Interval
    <3> HIDE DEF passed
    <3> QED
      BY <3>1, <3>2, FS_Subset
  <2>3. Cardinality(passed) \in Nat
    BY <2>2, FS_CardinalityType
  <2> QED
    BY <1>2, <2>3 DEF Before
<1>3. CASE honest /\ protocol \notin {"pubplant_json_array", "mycore_rest"}
  BY <1>3 DEF Before, Places, Cursor, Linked
<1> QED
  BY <1>1, <1>2, <1>3

\* so that a page consists of entries.
LEMMA PageType ==
  ASSUME ServerOK, protocol \in Cursor, NEW at \in Places
  PROVE  PageAt(at) \in Seq(Listable)
<1> DEFINE rest == SubSeq(listing, Before(at) + 1, Len(listing))
<1>1. Before(at) \in Nat /\ Len(listing) \in Nat /\ limit \in Nat
  BY BeforeType DEF ServerOK
<1>2. rest \in Seq(Listable)
  BY <1>1, SubSeqProperties DEF ServerOK
<1>3. Len(rest) > limit => SubSeq(rest, 1, limit) \in Seq(Listable)
  <2> HIDE DEF rest
  <2> QED
    BY <1>1, <1>2, SubSeqProperties
<1>4. PageAt(at) = rest \/ (Len(rest) > limit /\ PageAt(at) = SubSeq(rest, 1, limit))
  <2>1. Behind(at) = rest
    BY DEF Behind
  <2>2. Len(rest) \in Nat
    BY <1>2
  <2> HIDE DEF rest
  <2> QED
    BY <1>1, <2>1, <2>2 DEF PageAt
<1> QED
  BY <1>2, <1>3, <1>4

\* What a server with cursors answers,
LEMMA CursorItems ==
  ASSUME ServerOK, protocol \in Cursor, NEW at \in Places
  PROVE  CursorAnswer(at) \in Seq(Items)
<1> DEFINE page == PageAt(at)
           more == IF HasMore(at, page) THEN <<Get(NextCursor(at, page))>> ELSE <<>>
<1>1. page \in Seq(Listable)
  BY PageType
<1>2. more \in Seq(Items)
  <2>1. CASE ~HasMore(at, page)
    BY <2>1
  <2>2. CASE HasMore(at, page)
    <3> HIDE DEF page
    <3>1. Len(page) \in Nat /\ (Len(page) > 0 \/ page # <<>>)
      BY <1>1, <2>2, DiscoveryAssumption DEF HasMore
    <3>2. Len(page) \in Nat /\ Len(page) # 0
      BY <1>1, <3>1, EmptySeq
    <3>3. NextCursor(at, page) \in Places
      <4>1. CASE protocol = "mycore_rest"
        <5>1. page[Len(page)] \in Listable
          BY <1>1, <3>2
        <5>2. Listable \subseteq Int
          BY DiscoveryAssumption DEF Listable, Blank
        <5> QED
          BY <4>1, <5>1, <5>2 DEF NextCursor, Places, Linked
      <4>2. CASE protocol # "mycore_rest"
        <5>1. at \in Nat /\ Places = Nat
          BY <4>2 DEF Places, Cursor, Linked
        <5> QED
          BY <4>2, <5>1, <3>2, DiscoveryAssumption DEF NextCursor, Bounded
      <4> QED
        BY <4>1, <4>2
    <3>4. Get(NextCursor(at, page)) \in Items
      BY <3>3 DEF Items
    <3> QED
      BY <2>2, <3>4
  <2> QED
    BY <2>1, <2>2
<1>3. CursorAnswer(at) = [n \in DOMAIN page |-> Found(page[n])] \o more
  BY DEF CursorAnswer
<1> HIDE DEF page, more
<1> QED
  BY <1>1, <1>2, <1>3, AnswerItems

\* and what a linked document holds, is more to do.
LEMMA LinkedItems ==
  ASSUME ServerOK, protocol \in Linked, NEW url \in Urls, site[url].kind # "broken"
  PROVE  LinkedAnswer(url) \in Seq(Items)
<1> DEFINE doc == site[url]
           entries == [n \in DOMAIN doc.locs |-> IF doc.kind = "index" /\ doc.locs[n] # Blank
                                                 THEN Get(doc.locs[n]) ELSE Found(doc.locs[n])]
           more == IF doc.kind = "page" /\ doc.next # NoUrl THEN <<Get(doc.next)>> ELSE <<>>
<1>1. WellFormed(doc) /\ doc.kind # "broken"
  BY DEF ServerOK
<1>2. Places = Urls
  BY DEF Places
<1> HIDE DEF doc
<1>3. \A n \in DOMAIN doc.locs : entries[n] \in Items
  BY <1>1, <1>2 DEF WellFormed, Items, Listable
<1>4. entries \in Seq(Items)
  <2>1. doc.locs \in Seq(Listable \cup Urls)
    BY <1>1 DEF WellFormed, Listable
  <2>2. Len(doc.locs) \in Nat /\ DOMAIN doc.locs = 1 .. Len(doc.locs)
    BY <2>1
  <2> HIDE DEF entries
  <2>3. entries \in [1 .. Len(doc.locs) -> Items]
    BY <1>3, <2>2 DEF entries
  <2> QED
    BY <2>2, <2>3
<1>5. more \in Seq(Items)
  <2>1. doc.kind = "page" /\ doc.next # NoUrl => Get(doc.next) \in Items
    BY <1>1, <1>2 DEF WellFormed, Items
  <2> QED
    BY <2>1
<1>6. LinkedAnswer(url) = entries \o more
  BY DEF LinkedAnswer, doc
<1> HIDE DEF entries, more
<1> QED
  BY <1>4, <1>5, <1>6, ConcatProperties

-----------------------------------------------------------------------------
\* What the server does to its listing leaves it a sequence of entries.
LEMMA WithoutType ==
  ASSUME NEW s \in Seq(Listable), NEW n \in DOMAIN s
  PROVE  Without(s, n) \in Seq(Listable)
<1>1. n \in 1 .. Len(s) /\ Len(s) \in Nat
  OBVIOUS
<1>2. SubSeq(s, 1, n - 1) \in Seq(Listable) /\ SubSeq(s, n + 1, Len(s)) \in Seq(Listable)
  BY <1>1, SubSeqProperties
<1> QED
  BY <1>2, ConcatProperties DEF Without

\* An entry removed is covered above; here one comes in.
LEMMA WithType ==
  ASSUME NEW s \in Seq(Listable), NEW n \in 1 .. Len(s) + 1, NEW e \in Listable
  PROVE  With(s, n, e) \in Seq(Listable)
<1>1. n \in Nat /\ Len(s) \in Nat
  OBVIOUS
<1>2. SubSeq(s, 1, n - 1) \in Seq(Listable) /\ SubSeq(s, n, Len(s)) \in Seq(Listable)
  BY <1>1, SubSeqProperties
<1>3. <<e>> \in Seq(Listable)
  OBVIOUS
<1>4. SubSeq(s, 1, n - 1) \o <<e>> \in Seq(Listable)
  BY <1>2, <1>3, ConcatProperties
<1> QED
  BY <1>2, <1>4, ConcatProperties DEF With

\* A step that leaves the server's documents and what is to be done alone keeps them typed.
LEMMA Framed ==
  ASSUME ServerOK, TodoOK, UNCHANGED <<server, todo>>, listing' \in Seq(Listable)
  PROVE  ServerOK' /\ TodoOK'
<1>1. ServerOK'
  BY DEF ServerOK, server
<1>2. Items' = Items
  BY DEF Items, Places, server
<1> QED
  BY <1>1, <1>2 DEF TodoOK

-----------------------------------------------------------------------------
(* Every step keeps the invariant and is a step of UniqueStream, or none.  *)

\* A page is read,
LEMMA ReadPageStep ==
  ASSUME StreamInv, ReadPage
  PROVE  StreamInv' /\ UNCHANGED Stream!uvars
<1> DEFINE at == todo[1][2]
           answer == IF protocol \in Linked THEN LinkedAnswer(at) ELSE CursorAnswer(at)
<1>1. todo # <<>> /\ todo[1][1] = "get"
  BY DEF ReadPage, Asking
<1>2. at \in Places /\ Tail(todo) \in Seq(Items)
  BY <1>1, HeadItem, ItemKinds DEF StreamInv
<1>3. protocol \in Linked => site[at].kind # "broken"
  BY DEF ReadPage
<1>4. answer \in Seq(Items)
  <2>1. CASE protocol \in Linked
    <3>1. at \in Urls
      BY <1>2, <2>1 DEF Places
    <3> HIDE DEF at
    <3> QED
      BY <1>3, <2>1, <3>1, LinkedItems DEF StreamInv
  <2>2. CASE protocol \notin Linked
    <3>1. protocol \in Cursor
      BY <2>2 DEF StreamInv, ServerOK
    <3> HIDE DEF at
    <3> QED
      BY <1>2, <2>2, <3>1, CursorItems DEF StreamInv
  <2> QED
    BY <2>1, <2>2
<1>5. todo' = answer \o Tail(todo)
  BY DEF ReadPage
<1>6. UNCHANGED <<server, listing, seen, handed, result, phase>>
  BY DEF ReadPage
<1> HIDE DEF answer, at
<1>7. todo' \in Seq(Items)
  BY <1>2, <1>4, <1>5, ConcatProperties
<1>8. Items' = Items
  BY <1>6 DEF Items, Places, server
<1> QED
  BY <1>6, <1>7, <1>8 DEF StreamInv, ServerOK, TodoOK, Booked, Stream!uvars, server

\* a sitemap turns out to be known,
LEMMA SitemapKnownStep ==
  ASSUME StreamInv, SitemapKnown
  PROVE  StreamInv' /\ UNCHANGED Stream!uvars
<1>1. Tail(todo) \in Seq(Items)
  BY HeadItem DEF StreamInv, SitemapKnown, Asking
<1>2. todo' = Tail(todo) /\ UNCHANGED <<server, listing, seen, handed, result, phase>>
  BY DEF SitemapKnown
<1>3. Items' = Items
  BY <1>2 DEF Items, Places, server
<1> QED
  BY <1>1, <1>2, <1>3 DEF StreamInv, ServerOK, TodoOK, Booked, Stream!uvars, server

\* discovery ends or fails,
LEMMA EndingStep ==
  ASSUME StreamInv, RequestFails \/ End
  PROVE  StreamInv' /\ Stream!Stop
<1>1. /\ phase = "running" /\ phase' \in {"ended", "failed"}
      /\ UNCHANGED <<server, listing, todo, seen, handed, result>>
  BY DEF RequestFails, End, Asking
<1>2. ServerOK' /\ TodoOK'
  BY <1>1, Framed DEF StreamInv, ServerOK
<1> QED
  BY <1>1, <1>2 DEF StreamInv, Booked, Stream!Stop

\* an item is yielded,
LEMMA YieldStep ==
  ASSUME StreamInv, Yield
  PROVE  StreamInv' /\ Stream!Next
<1> DEFINE entry == todo[1][2]
<1>1. todo # <<>> /\ todo[1][1] = "list" /\ phase = "running"
  BY DEF Yield, Yielding
<1>2. entry \in Listable /\ Tail(todo) \in Seq(Items)
  BY <1>1, HeadItem, ItemKinds DEF StreamInv
<1>3. /\ result' = IF entry = Blank THEN <<"error", 0>>
                   ELSE IF entry \in seen THEN <<"skipped", entry>> ELSE <<"found", entry>>
      /\ seen' = IF entry = Blank THEN seen ELSE seen \cup {entry}
      /\ handed' = IF entry = Blank \/ entry \in seen THEN handed
                   ELSE [handed EXCEPT ![entry] = @ + 1]
  BY DEF Yield
<1>4. todo' = Tail(todo) /\ UNCHANGED <<server, listing, phase>>
  BY DEF Yield
<1>5. Items' = Items
  BY <1>4 DEF Items, Places, server
<1>6. ServerOK' /\ TodoOK'
  BY <1>2, <1>4, <1>5 DEF StreamInv, ServerOK, TodoOK, server
<1> HIDE DEF entry
<1>7. CASE entry = Blank
  <2>1. Booked' /\ Stream!Error
    BY <1>1, <1>3, <1>4, <1>7 DEF StreamInv, Booked, Stream!Error
  <2> QED
    BY <1>4, <1>6, <2>1 DEF StreamInv, Stream!Next
<1>8. CASE entry # Blank /\ entry \in seen
  <2>1. entry \in Ids /\ seen' = seen /\ handed' = handed /\ handed[entry] = 1
    BY <1>3, <1>8 DEF StreamInv, Booked
  <2>2. Booked' /\ Stream!Skip(entry)
    BY <1>1, <1>3, <1>4, <1>8, <2>1 DEF StreamInv, Booked, Stream!Skip
  <2> QED
    BY <1>4, <1>6, <2>1, <2>2 DEF StreamInv, Stream!Next
<1>9. CASE entry # Blank /\ entry \notin seen
  <2>1. entry \in Ids /\ handed[entry] = 0
    BY <1>2, <1>9 DEF StreamInv, Booked, Listable
  <2>2. handed' = [handed EXCEPT ![entry] = 1] /\ seen' = seen \cup {entry}
    BY <1>3, <1>9, <2>1 DEF StreamInv, Booked
  <2>3. Booked'
    BY <2>1, <2>2 DEF StreamInv, Booked
  <2>4. Stream!Hand(entry)
    BY <1>1, <1>3, <1>4, <1>9, <2>1, <2>2 DEF Stream!Hand
  <2> QED
    BY <1>4, <1>6, <2>1, <2>3, <2>4 DEF StreamInv, Stream!Next
<1> QED
  BY <1>7, <1>8, <1>9

\* or the server changes its listing.
LEMMA ServerStep ==
  ASSUME StreamInv, Removed \/ Added
  PROVE  StreamInv' /\ UNCHANGED Stream!uvars
<1>1. listing' \in Seq(Listable) /\ UNCHANGED <<server, client>>
  <2>1. CASE Removed
    BY <2>1, WithoutType DEF Removed, StreamInv, ServerOK
  <2>2. CASE Added
    <3>1. PICK i \in Ids \ Entries(listing), n \in 1 .. Len(listing) + 1 : listing' = With(listing, n, i)
      BY <2>2 DEF Added
    <3> QED
      BY <2>2, <3>1, WithType DEF Added, StreamInv, ServerOK, Listable
  <2> QED
    BY <2>1, <2>2
<1>2. ServerOK' /\ TodoOK'
  BY <1>1, Framed DEF StreamInv, client
<1> QED
  BY <1>1, <1>2 DEF StreamInv, Booked, Stream!uvars, client

\* Every step keeps it.
LEMMA StreamStep ==
  ASSUME StreamInv, [Next]_vars
  PROVE  StreamInv' /\ [Stream!Next]_(Stream!uvars)
<1>1. CASE ReadPage
  BY <1>1, ReadPageStep
<1>2. CASE SitemapKnown
  BY <1>2, SitemapKnownStep
<1>3. CASE RequestFails \/ End
  BY <1>3, EndingStep DEF Stream!Next
<1>4. CASE Yield
  BY <1>4, YieldStep
<1>5. CASE Removed \/ Added
  BY <1>5, ServerStep
<1>6. CASE UNCHANGED vars
  <2>1. UNCHANGED <<server, listing, client>>
    BY <1>6 DEF vars
  <2>2. ServerOK' /\ TodoOK'
    BY <2>1, Framed DEF StreamInv, ServerOK, client
  <2> QED
    BY <2>1, <2>2 DEF StreamInv, Booked, Stream!uvars, client
<1> QED
  BY <1>1, <1>2, <1>3, <1>4, <1>5, <1>6 DEF Next, Step

-----------------------------------------------------------------------------
(* Discovery keeps the promise of Protocol.discover() (protocol.py 49-67), for every
   protocol, page size, server, listing and set of linked documents: no identifier is
   handed on twice, none is called a duplicate before it was handed on. *)
THEOREM StreamCorrect == Spec => StreamSpec
<1>1. Init => Stream!Init
  BY DEF Init, Stream!Init
<1>2. Init => StreamInv
  BY InitInv
<1>3. StreamInv /\ [Next]_vars => StreamInv' /\ [Stream!Next]_(Stream!uvars)
  BY StreamStep
<1> QED
  BY <1>1, <1>2, <1>3, PTL DEF Spec, StreamSpec, Stream!Spec

-----------------------------------------------------------------------------
(* Nothing that stays listed is missed: what is announced covers, request  *)
(* by request, what lies before the cursors still to be asked for.         *)

Gets(s) == {s[n][2] : n \in {m \in DOMAIN s : s[m][1] = "get"}}
Lists(s) == {i \in Ids : Found(i) \in Entries(s)}

\* The elements of two sequences put together.
LEMMA BothParts ==
  ASSUME NEW S, NEW a \in Seq(S), NEW b \in Seq(S)
  PROVE  Entries(a \o b) = Entries(a) \cup Entries(b)
<1>1. /\ a \o b \in Seq(S) /\ Len(a \o b) = Len(a) + Len(b) /\ Len(a) \in Nat /\ Len(b) \in Nat
      /\ \A k \in 1..Len(a) + Len(b) : (a \o b)[k] = IF k <= Len(a) THEN a[k] ELSE b[k - Len(a)]
  BY ConcatProperties
<1>2. DOMAIN a = 1..Len(a) /\ DOMAIN b = 1..Len(b) /\ DOMAIN (a \o b) = 1..Len(a) + Len(b)
  BY <1>1
<1> DEFINE c == a \o b
<1>3. /\ \A k \in 1..Len(a) : k \in DOMAIN c /\ c[k] = a[k]
      /\ \A k \in 1..Len(b) : k + Len(a) \in DOMAIN c /\ c[k + Len(a)] = b[k]
  BY <1>1, <1>2
<1>4. \A k \in DOMAIN c : \/ k \in 1..Len(a) /\ c[k] = a[k]
                          \/ k - Len(a) \in 1..Len(b) /\ c[k] = b[k - Len(a)]
  BY <1>1, <1>2
<1> HIDE DEF c
<1>5. Entries(c) \subseteq Entries(a) \cup Entries(b) BY <1>2, <1>4 DEF Entries
<1>6. Entries(a) \cup Entries(b) \subseteq Entries(c) BY <1>2, <1>3 DEF Entries
<1> QED BY <1>5, <1>6 DEF c

\* The first element and those behind it.
LEMMA HeadPart ==
  ASSUME NEW S, NEW s \in Seq(S), s # <<>>
  PROVE  Entries(s) = {s[1]} \cup Entries(Tail(s))
<1>1. /\ Tail(s) \in Seq(S) /\ Len(Tail(s)) = Len(s) - 1 /\ Len(s) \in Nat \ {0}
      /\ \A k \in 1..Len(s) - 1 : Tail(s)[k] = s[k + 1]
  OBVIOUS
<1>2. DOMAIN s = 1..Len(s) /\ DOMAIN Tail(s) = 1..Len(s) - 1 BY <1>1
<1>3. \A k \in DOMAIN s : k = 1 \/ (k - 1 \in DOMAIN Tail(s) /\ s[k] = Tail(s)[k - 1]) BY <1>1, <1>2
<1>4. 1 \in DOMAIN s /\ \A k \in DOMAIN Tail(s) : k + 1 \in DOMAIN s /\ Tail(s)[k] = s[k + 1] BY <1>1, <1>2
<1>5. Entries(s) \subseteq {s[1]} \cup Entries(Tail(s)) BY <1>3, ZenonT(40) DEF Entries
<1>6. {s[1]} \cup Entries(Tail(s)) \subseteq Entries(s) BY <1>4 DEF Entries
<1> QED BY <1>5, <1>6

\* Requests, as elements.
LEMMA GetsAre ==
  ASSUME NEW s \in Seq(Items)
  PROVE  \A at : at \in Gets(s) <=> Get(at) \in Entries(s)
<1>1. \A n \in DOMAIN s : s[n] \in Items OBVIOUS
<1>2. \A n \in DOMAIN s : s[n][1] = "get" => s[n] = Get(s[n][2]) BY <1>1 DEF Items, Get, Found
<1> QED BY <1>2 DEF Gets, Entries, Get

\* What an answer adds to what is left of todo.
LEMMA AnswerParts ==
  ASSUME TodoOK, todo # <<>>, todo[1][1] = "get", NEW answer \in Seq(Items), todo' = answer \o Tail(todo),
         seen' = seen
  PROVE  /\ Announced' = Announced \cup Lists(answer)
         /\ Cursors \subseteq Cursors' \cup {todo[1][2]}
         /\ Cursors' \subseteq Cursors \cup Gets(answer)
         /\ Gets(answer) \subseteq Cursors'
<1>1. PICK old \in Seq(Items) : old = todo BY DEF TodoOK
<1>2. old # <<>> /\ Tail(old) \in Seq(Items) BY <1>1, HeadItem
<1>3. PICK new \in Seq(Items) : new = answer \o Tail(old) BY <1>2, ConcatProperties
<1>4. todo' = new BY <1>1, <1>3
<1>5. Cursors = Gets(old) /\ Cursors' = Gets(new) BY <1>1, <1>4 DEF Cursors, Gets
<1>6. Announced = seen \cup Lists(old) /\ Announced' = seen \cup Lists(new)
  BY <1>1, <1>4 DEF Announced, Lists
<1>7. Entries(old) = {old[1]} \cup Entries(Tail(old)) BY <1>2, HeadPart
<1>8. Entries(new) = Entries(answer) \cup Entries(Tail(old)) BY <1>2, <1>3, BothParts, ZenonT(40)
<1>9. old[1][1] = "get" /\ old[1] = Get(old[1][2])
  <2>1. old[1] \in Items BY <1>1, HeadItem
  <2> QED BY <1>1, <2>1 DEF Items, Get, Found
<1>10. \A i : Found(i) # old[1] BY <1>9 DEF Found, Get
<1>11. Announced' = Announced \cup Lists(answer) BY <1>6, <1>7, <1>8, <1>10 DEF Lists
<1>12. \A at : at \in Gets(old) <=> Get(at) \in Entries(old) BY GetsAre
<1>13. \A at : at \in Gets(new) <=> Get(at) \in Entries(new) BY GetsAre
<1>14. \A at : at \in Gets(answer) <=> Get(at) \in Entries(answer) BY GetsAre
<1>15. \A at : Get(at) = old[1] => at = old[1][2] BY <1>9 DEF Get
<1>16. Gets(old) \subseteq Gets(new) \cup {old[1][2]} BY <1>7, <1>8, <1>12, <1>13, <1>15
<1>17. Gets(new) \subseteq Gets(old) \cup Gets(answer) /\ Gets(answer) \subseteq Gets(new)
  BY <1>7, <1>8, <1>12, <1>13, <1>14
<1> QED BY <1>1, <1>5, <1>11, <1>16, <1>17

\* What is left when the head is yielded or dropped.
LEMMA TailParts ==
  ASSUME TodoOK, todo # <<>>, todo' = Tail(todo)
  PROVE  /\ todo[1][1] = "get" => /\ Cursors \subseteq Cursors' \cup {todo[1][2]} /\ Cursors' \subseteq Cursors
                                 /\ Lists(todo) = Lists(todo)'
         /\ todo[1][1] = "list" => /\ Cursors' = Cursors
                                  /\ Lists(todo) = Lists(todo)' \cup ({todo[1][2]} \cap Ids)
<1>1. PICK old \in Seq(Items) : old = todo BY DEF TodoOK
<1>2. old # <<>> /\ Tail(old) \in Seq(Items) /\ old[1] \in Items BY <1>1, HeadItem
<1>3. PICK new \in Seq(Items) : new = Tail(old) BY <1>2
<1>4. todo' = new BY <1>1, <1>3
<1>5. Cursors = Gets(old) /\ Cursors' = Gets(new) BY <1>1, <1>4 DEF Cursors, Gets
<1>6. Lists(todo) = Lists(old) /\ Lists(todo)' = Lists(new) BY <1>1, <1>4 DEF Lists
<1>7. Entries(old) = {old[1]} \cup Entries(new) BY <1>2, <1>3, HeadPart
<1>8. /\ old[1][1] = "get" => old[1] = Get(old[1][2])
      /\ old[1][1] = "list" => old[1] = Found(old[1][2])
  BY <1>2 DEF Items, Get, Found
<1>9. \A at : at \in Gets(old) <=> Get(at) \in Entries(old) BY GetsAre
<1>10. \A at : at \in Gets(new) <=> Get(at) \in Entries(new) BY GetsAre
<1>11. CASE old[1][1] = "get"
  <2>1. \A i : Found(i) # old[1] BY <1>11, <1>8 DEF Found, Get
  <2>2. \A at : Get(at) = old[1] => at = old[1][2] BY <1>11, <1>8 DEF Get
  <2>3. Lists(old) = Lists(new) BY <1>7, <2>1 DEF Lists
  <2>4. Gets(old) \subseteq Gets(new) \cup {old[1][2]} /\ Gets(new) \subseteq Gets(old)
    BY <1>7, <1>9, <1>10, <2>2
  <2> QED BY <1>1, <1>5, <1>6, <1>11, <2>3, <2>4
<1>12. CASE old[1][1] = "list"
  <2>1. \A at : Get(at) # old[1] BY <1>12, <1>8 DEF Found, Get
  <2>2. \A i : Found(i) = old[1] <=> i = old[1][2] BY <1>12, <1>8 DEF Found
  <2>3. Lists(old) = Lists(new) \cup ({old[1][2]} \cap Ids) BY <1>7, <2>2 DEF Lists
  <2>4. Gets(old) = Gets(new) BY <1>7, <1>9, <1>10, <2>1
  <2> QED BY <1>1, <1>5, <1>6, <1>12, <2>3, <2>4
<1> QED BY <1>1, <1>11, <1>12

\* A document that was read leaves its links to be asked for and its records to be handed on.
LEMMA LinkedParts ==
  ASSUME ServerOK, protocol \in Linked, NEW url \in Urls, site[url].kind # "broken"
  PROVE  /\ LinksOf(site[url]) \subseteq Gets(LinkedAnswer(url))
         /\ ListedIn(site[url]) \subseteq Lists(LinkedAnswer(url))
<1>1. PICK doc : doc = site[url] /\ WellFormed(doc) /\ doc.kind # "broken" BY DEF ServerOK
<1> DEFINE entries == [n \in DOMAIN doc.locs |-> IF doc.kind = "index" /\ doc.locs[n] # Blank
                                                 THEN Get(doc.locs[n]) ELSE Found(doc.locs[n])]
           more == IF doc.kind = "page" /\ doc.next # NoUrl THEN <<Get(doc.next)>> ELSE <<>>
<1>2. LinkedAnswer(url) = entries \o more BY <1>1 DEF LinkedAnswer
<1>3. LinkedAnswer(url) \in Seq(Items) BY LinkedItems
<1>4. doc.locs \in Seq(Listable \cup Urls) BY <1>1 DEF WellFormed, Listable
<1>5. Len(doc.locs) \in Nat /\ DOMAIN doc.locs = 1 .. Len(doc.locs) BY <1>4
<1> DEFINE S == {Get(u) : u \in Listable \cup Urls} \cup {Found(u) : u \in Listable \cup Urls}
<1>6. entries \in Seq(S) /\ more \in Seq(S)
  <2>1. \A n \in DOMAIN doc.locs : entries[n] \in S BY <1>4
  <2>2. entries \in [1 .. Len(doc.locs) -> S]
    <3> HIDE DEF S
    <3> QED BY <2>1, <1>5
  <2>3. doc.kind = "page" /\ doc.next # NoUrl => Get(doc.next) \in S BY <1>1 DEF WellFormed
  <2> HIDE DEF S, entries
  <2> QED BY <2>2, <2>3, <1>5
<1>7. Entries(LinkedAnswer(url)) = Entries(entries) \cup Entries(more)
  <2> HIDE DEF S, entries, more
  <2> QED BY <1>2, <1>6, BothParts
<1>8. \A n \in DOMAIN doc.locs : entries[n] \in Entries(entries) BY DEF Entries
<1>9. ASSUME NEW u \in LinksOf(doc) PROVE Get(u) \in Entries(LinkedAnswer(url))
  <2>1. u \in Urls /\ u # Blank /\ u # NoUrl BY <1>9, DiscoveryAssumption DEF LinksOf
  <2>2. CASE doc.kind = "index"
    <3>1. PICK n \in DOMAIN doc.locs : doc.locs[n] = u BY <1>9, <2>2 DEF LinksOf, Entries
    <3>2. entries[n] = Get(u) BY <2>1, <2>2, <3>1
    <3> HIDE DEF entries
    <3> QED BY <1>7, <1>8, <3>1, <3>2
  <2>3. CASE doc.kind = "page"
    <3>1. u = doc.next BY <1>9, <2>3 DEF LinksOf
    <3>2. more = <<Get(u)>> BY <2>1, <2>3, <3>1
    <3>3. Get(u) \in Entries(more) BY <3>2 DEF Entries
    <3> HIDE DEF entries, more
    <3> QED BY <1>7, <3>3
  <2>4. CASE doc.kind \notin {"index", "page"} BY <1>9, <2>4 DEF LinksOf
  <2> QED BY <2>2, <2>3, <2>4
<1>10. ASSUME NEW i \in ListedIn(doc) PROVE i \in Ids /\ Found(i) \in Entries(LinkedAnswer(url))
  <2>1. doc.kind # "index" /\ i \in Ids /\ i \in Entries(doc.locs) BY <1>10 DEF ListedIn
  <2>2. PICK n \in DOMAIN doc.locs : doc.locs[n] = i BY <2>1 DEF Entries
  <2>3. entries[n] = Found(i) BY <2>1, <2>2
  <2> HIDE DEF entries
  <2> QED BY <1>7, <1>8, <2>1, <2>2, <2>3
<1>11. \A at : at \in Gets(LinkedAnswer(url)) <=> Get(at) \in Entries(LinkedAnswer(url)) BY <1>3, GetsAre
<1> HIDE DEF entries, more, S
<1> QED BY <1>1, <1>9, <1>10, <1>11 DEF Lists

\* In a sorted listing the entries up to a cursor are the first ones.
LEMMA SortedBefore ==
  ASSUME NEW s \in Seq(Listable), Sorted(s), NEW at \in Int
  PROVE  {n \in DOMAIN s : s[n] <= at} = 1..Cardinality({n \in DOMAIN s : s[n] <= at})
<1> DEFINE passed == {n \in DOMAIN s : s[n] <= at}
           T == {m \in Nat \ {0} : m \notin passed}
<1>1. DOMAIN s = 1..Len(s) /\ Len(s) \in Nat OBVIOUS
<1>2. Listable \subseteq Int BY DiscoveryAssumption DEF Listable, Blank
<1>3. \A n \in DOMAIN s : s[n] \in Int
  <2>1. \A n \in DOMAIN s : s[n] \in Listable OBVIOUS
  <2> QED BY <1>2, <2>1
<1>4. \A m, n \in DOMAIN s : m < n /\ n \in passed => m \in passed
  <2> SUFFICES ASSUME NEW m \in DOMAIN s, NEW n \in DOMAIN s, m < n, n \in passed PROVE s[m] <= at OBVIOUS
  <2>1. s[m] < s[n] /\ s[n] <= at BY DEF Sorted
  <2> QED BY <2>1, <1>3
<1>5. Len(s) + 1 \in T BY <1>1
<1>6. PICK m \in T : \A n \in T : m <= n
  <2>1. T \in SUBSET Nat /\ T # {} BY <1>5
  <2> HIDE DEF T
  <2> QED BY <2>1, LeastNumber
<1>7. m \in Nat \ {0} /\ m \notin passed OBVIOUS
<1>8. passed \subseteq 1..(m - 1)
  <2> SUFFICES ASSUME NEW n \in passed PROVE n \in 1..(m - 1) OBVIOUS
  <2>1. n \in DOMAIN s /\ n \in 1..Len(s) BY <1>1
  <2>2. m < n => m \in DOMAIN s BY <1>1, <1>7, <2>1
  <2>3. ~(m < n) BY <1>4, <1>7, <2>1, <2>2
  <2> QED BY <1>1, <1>7, <2>1, <2>3
<1>9. 1..(m - 1) \subseteq passed
  <2> SUFFICES ASSUME NEW n \in 1..(m - 1), n \notin passed PROVE FALSE OBVIOUS
  <2>1. n \in T BY <1>7
  <2>2. m <= n BY <1>6, <2>1
  <2> QED BY <1>7, <2>2
<1>10. passed = 1..(m - 1) /\ m - 1 \in Nat BY <1>7, <1>8, <1>9
<1>11. Cardinality(1..(m - 1)) = m - 1 BY <1>7, FS_Interval
<1> HIDE DEF passed
<1> QED BY <1>10, <1>11 DEF passed

\* What a page holds: the entries behind the cursor, up to the end or the server's limit.
LEMMA PageIs ==
  ASSUME ServerOK, protocol \in Cursor, NEW at \in Places
  PROVE  /\ PageAt(at) \in Seq(Listable) /\ Before(at) \in Nat
         /\ \A n \in 1..Len(PageAt(at)) :
              Before(at) + n \in 1..Len(listing) /\ PageAt(at)[n] = listing[Before(at) + n]
         /\ \/ Before(at) + Len(PageAt(at)) >= Len(listing)
            \/ protocol # "pubplant_json_array" /\ Len(PageAt(at)) = limit
<1>1. PICK s \in Seq(Listable) : s = listing BY DEF ServerOK
<1>2. PICK k \in Nat : k = Before(at) BY BeforeType
<1>3. PICK m \in Nat : m = limit BY DEF ServerOK
<1>4. Len(s) \in Nat BY <1>1
<1>5. PICK rest \in Seq(Listable) : rest = SubSeq(s, k + 1, Len(s))
  <2>1. SubSeq(s, k + 1, Len(s)) \in Seq(Listable) BY <1>4, SubSeqProperties
  <2> QED BY <2>1
<1>6. /\ Len(rest) = IF k + 1 <= Len(s) THEN Len(s) - k ELSE 0
      /\ \A n \in 1..Len(rest) : rest[n] = s[k + n]
  BY <1>4, <1>5
<1>7. Behind(at) = rest BY <1>1, <1>2, <1>5 DEF Behind
<1>8. CASE protocol = "pubplant_json_array" \/ Len(rest) <= m
  <2>1. PageAt(at) = rest BY <1>3, <1>7, <1>8 DEF PageAt
  <2>2. \A n \in 1..Len(rest) : k + n \in 1..Len(s) /\ rest[n] = s[k + n] BY <1>4, <1>6
  <2>3. k + Len(rest) >= Len(s) BY <1>4, <1>6
  <2> QED BY <1>1, <1>2, <1>5, <2>1, <2>2, <2>3
<1>9. CASE protocol # "pubplant_json_array" /\ ~(Len(rest) <= m)
  <2>0. Len(rest) \in Nat BY <1>5
  <2>1. PICK page \in Seq(Listable) : page = SubSeq(rest, 1, m)
    <3>1. \A i \in 1..m : rest[i] \in Listable BY <1>5, <1>9, <2>0
    <3>2. SubSeq(rest, 1, m) \in Seq(Listable) BY <3>1, SubSeqProperties
    <3> QED BY <3>2
  <2>2. PageAt(at) = page BY <1>3, <1>7, <1>9, <2>1 DEF PageAt
  <2>3. Len(page) = m /\ \A n \in 1..m : page[n] = rest[n] BY <1>9, <2>0, <2>1
  <2>4. \A n \in 1..m : n \in 1..Len(rest) BY <1>9, <2>0
  <2>5. \A n \in 1..Len(page) : k + n \in 1..Len(s) /\ page[n] = s[k + n]
    <3>1. \A n \in 1..Len(rest) : k + n \in 1..Len(s) BY <1>4, <1>6
    <3> QED BY <1>6, <2>3, <2>4, <3>1
  <2> QED BY <1>1, <1>2, <1>3, <1>9, <2>1, <2>2, <2>3, <2>5
<1> QED BY <1>8, <1>9

\* A server that heeds the cursor counts the entries before it.
LEMMA BeforeIs ==
  ASSUME ServerOK, protocol \in Cursor, honest, NEW at \in Places,
         protocol = "mycore_rest" => Sorted(listing)
  PROVE  /\ protocol = "mycore_rest" => \A n \in DOMAIN listing : listing[n] <= at <=> n <= Before(at)
         /\ protocol \in Offset => Before(at) = at
         /\ protocol = "pubplant_json_array" => Before(at) = 0
<1>1. CASE protocol = "mycore_rest"
  <2>1. at \in Int BY <1>1 DEF Places, Linked
  <2>2. PICK s \in Seq(Listable) : s = listing BY DEF ServerOK
  <2>3. PICK P : P = {n \in DOMAIN s : s[n] <= at} OBVIOUS
  <2>4. Before(at) = Cardinality(P) BY <1>1, <2>2, <2>3 DEF Before
  <2>5. P = 1..Cardinality(P) BY <1>1, <2>1, <2>2, <2>3, SortedBefore
  <2>6. Cardinality(P) \in Nat BY <2>4, BeforeType
  <2>7. \A n \in DOMAIN s : n \in Nat \ {0} OBVIOUS
  <2>8. \A n \in DOMAIN s : n \in P <=> n <= Cardinality(P) BY <2>5, <2>6, <2>7
  <2> QED BY <1>1, <2>2, <2>3, <2>4, <2>8 DEF Offset
<1>2. CASE protocol # "mycore_rest" BY <1>2 DEF Before, Offset
<1> QED BY <1>1, <1>2

\* With a server one can trust, what a page leaves out lies behind the next cursor.
LEMMA PageCovers ==
  ASSUME ServerOK, protocol \in Cursor, Trustworthy, steady \subseteq Entries(listing) \cap Ids,
         protocol = "mycore_rest" => Sorted(listing), NEW at \in Places, Covered(at) \subseteq Announced
  PROVE  /\ ~HasMore(at, PageAt(at)) => steady \subseteq Announced \cup Entries(PageAt(at))
         /\ HasMore(at, PageAt(at)) =>
              Covered(NextCursor(at, PageAt(at))) \subseteq Announced \cup Entries(PageAt(at))
<1>1. PICK s \in Seq(Listable) : s = listing BY DEF ServerOK
<1>2. PICK k \in Nat : k = Before(at) BY BeforeType
<1>3. PICK m \in Nat \ {0} : m = limit BY DEF ServerOK
<1>4. PICK page \in Seq(Listable) : page = PageAt(at) BY PageIs
<1>5. PICK l \in Nat : l = Len(page) BY <1>4
<1>6. Len(s) \in Nat /\ DOMAIN s = 1..Len(s) /\ DOMAIN page = 1..l BY <1>1, <1>4, <1>5
<1>7. /\ \A n \in 1..l : k + n \in 1..Len(s) /\ page[n] = s[k + n]
      /\ k + l >= Len(s) \/ (protocol # "pubplant_json_array" /\ l = m)
  BY <1>1, <1>2, <1>3, <1>4, <1>5, PageIs
<1>8. /\ protocol = "mycore_rest" => \A n \in DOMAIN s : s[n] <= at <=> n <= k
      /\ protocol \in Offset => k = at
      /\ protocol = "pubplant_json_array" => k = 0
  BY <1>1, <1>2, BeforeIs DEF Trustworthy
<1>9. ASSUME NEW n \in DOMAIN s, s[n] \in steady, n <= k + l
      PROVE  s[n] \in Announced \cup Entries(page)
  <2>1. CASE n <= k
    <3>1. s[n] \in Covered(at)
      <4>1. CASE protocol = "mycore_rest" BY <1>8, <1>9, <2>1, <4>1 DEF Covered
      <4>2. CASE protocol \in Offset BY <1>1, <1>8, <1>9, <2>1, <4>2 DEF Covered, Offset
      <4>3. CASE protocol = "pubplant_json_array" BY <1>6, <1>8, <2>1, <4>3
      <4> QED BY <4>1, <4>2, <4>3 DEF Cursor, Offset
    <3> QED BY <3>1
  <2>2. CASE n > k
    <3>1. n - k \in 1..l /\ k + (n - k) = n BY <1>6, <1>9, <2>2
    <3>2. page[n - k] = s[n] BY <1>7, <3>1
    <3>3. n - k \in DOMAIN page BY <1>6, <3>1
    <3> QED BY <3>2, <3>3 DEF Entries
  <2> QED BY <1>6, <2>1, <2>2
<1>10. ASSUME ~HasMore(at, page) PROVE steady \subseteq Announced \cup Entries(page)
  <2>1. k + l >= Len(s)
    <3>1. CASE protocol = "mycore_solr"
      <4>1. k = at BY <1>8, <3>1 DEF Offset
      <4>2. page = <<>> \/ ~(k + l < Len(s)) BY <1>1, <1>5, <1>10, <3>1, <4>1 DEF HasMore
      <4>3. page = <<>> => l = 0 BY <1>5
      <4> QED BY <1>6, <1>7, <4>2, <4>3
    <3>2. CASE protocol \in {"mycore_rest", "regal_find"}
      <4>1. ~(l >= PageSize) BY <1>5, <1>10, <3>2 DEF HasMore
      <4>2. m >= PageSize BY <1>3, <3>2 DEF Trustworthy
      <4>3. PageSize \in Nat BY DiscoveryAssumption
      <4> QED BY <1>7, <4>1, <4>2, <4>3
    <3>3. CASE protocol = "pubplant_json_array" BY <1>7, <3>3
    <3> QED BY <3>1, <3>2, <3>3 DEF Cursor
  <2> SUFFICES ASSUME NEW i \in steady PROVE i \in Announced \cup Entries(page) OBVIOUS
  <2>2. PICK n \in DOMAIN s : s[n] = i BY <1>1 DEF Entries
  <2>3. n <= k + l BY <1>6, <2>1
  <2> QED BY <1>9, <2>2, <2>3
<1>11. ASSUME HasMore(at, page) PROVE Covered(NextCursor(at, page)) \subseteq Announced \cup Entries(page)
  <2> SUFFICES ASSUME NEW i \in Covered(NextCursor(at, page)) PROVE i \in Announced \cup Entries(page)
    OBVIOUS
  <2>1. CASE protocol = "mycore_rest"
    <3>1. l >= PageSize /\ PageSize \in Nat \ {0} BY <1>5, <1>11, <2>1, DiscoveryAssumption DEF HasMore
    <3>2. l \in 1..l BY <3>1
    <3>3. NextCursor(at, page) = s[k + l] BY <1>5, <1>7, <2>1, <3>2 DEF NextCursor
    <3>4. i \in steady /\ i <= s[k + l] BY <2>1, <3>3 DEF Covered, Offset
    <3>5. PICK n \in DOMAIN s : s[n] = i BY <1>1, <3>4 DEF Entries
    <3>6. k + l \in DOMAIN s BY <1>6, <1>7, <3>2
    <3>7. k + l < n => s[k + l] < s[n] BY <1>1, <2>1, <3>5, <3>6 DEF Sorted
    <3>8. s[n] \in Int /\ s[k + l] \in Int
      <4>1. Listable \subseteq Int BY DiscoveryAssumption DEF Listable, Blank
      <4>2. s[n] \in Listable /\ s[k + l] \in Listable BY <3>5, <3>6
      <4> QED BY <4>1, <4>2
    <3>9. n <= k + l BY <1>6, <3>4, <3>5, <3>7, <3>8
    <3> QED BY <1>9, <3>4, <3>5, <3>9
  <2>2. CASE protocol \in Offset
    <3>1. k = at /\ MaxOffset \in Nat BY <1>8, <2>2, DiscoveryAssumption
    <3>2. NextCursor(at, page) = Bounded(k + l) BY <1>5, <2>2, <3>1 DEF NextCursor, Offset
    <3>3. Bounded(k + l) \in Nat /\ Bounded(k + l) <= k + l BY <3>1 DEF Bounded
    <3>4. PICK n \in DOMAIN s : s[n] = i /\ n <= Bounded(k + l) /\ i \in steady
      BY <1>1, <2>2, <3>2 DEF Covered, Offset
    <3>5. n <= k + l BY <1>6, <3>3, <3>4
    <3> QED BY <1>9, <3>4, <3>5
  <2>3. CASE protocol = "pubplant_json_array" BY <1>11, <2>3 DEF HasMore
  <2> QED BY <2>1, <2>2, <2>3 DEF Cursor, Offset
<1> QED BY <1>4, <1>10, <1>11

\* What an answer of a cursor server holds.
LEMMA CursorParts ==
  ASSUME ServerOK, protocol \in Cursor, NEW at \in Places
  PROVE  /\ Entries(PageAt(at)) \cap Ids \subseteq Lists(CursorAnswer(at))
         /\ HasMore(at, PageAt(at)) => Gets(CursorAnswer(at)) = {NextCursor(at, PageAt(at))}
         /\ ~HasMore(at, PageAt(at)) => Gets(CursorAnswer(at)) = {}
<1>1. PICK page \in Seq(Listable) : page = PageAt(at) BY PageType
<1> DEFINE entries == [n \in DOMAIN page |-> Found(page[n])]
           more == IF HasMore(at, page) THEN <<Get(NextCursor(at, page))>> ELSE <<>>
           answer == CursorAnswer(at)
<1>2. answer = entries \o more BY <1>1 DEF CursorAnswer
<1>3. answer \in Seq(Items) BY CursorItems
<1> DEFINE S == {Get(NextCursor(at, page))} \cup {Found(e) : e \in Listable}
<1>4. Len(page) \in Nat /\ DOMAIN page = 1..Len(page) BY <1>1
<1>5. entries \in Seq(S) /\ more \in Seq(S)
  <2>1. \A n \in DOMAIN page : entries[n] \in S BY <1>1
  <2>2. entries \in [1..Len(page) -> S]
    <3> HIDE DEF S
    <3> QED BY <2>1, <1>4
  <2>3. Get(NextCursor(at, page)) \in S OBVIOUS
  <2> HIDE DEF S, entries
  <2> QED BY <2>2, <2>3, <1>4
<1>6. Entries(answer) = Entries(entries) \cup Entries(more)
  <2> HIDE DEF S, entries, more
  <2> QED BY <1>2, <1>5, BothParts
<1>7. \A i : i \in Entries(entries) <=> \E n \in DOMAIN page : i = Found(page[n]) BY DEF Entries
<1>8. /\ HasMore(at, page) => Entries(more) = {Get(NextCursor(at, page))}
      /\ ~HasMore(at, page) => Entries(more) = {}
  BY DEF Entries
<1>9. \A c : c \in Gets(answer) <=> Get(c) \in Entries(answer) BY <1>3, GetsAre
<1> HIDE DEF entries, more, answer, S
<1>10. \A c : Get(c) \notin Entries(entries) BY <1>7 DEF Get, Found
<1>11. \A c : Get(c) = Get(NextCursor(at, page)) <=> c = NextCursor(at, page) BY DEF Get
<1>12. Entries(page) \cap Ids \subseteq Lists(answer) BY <1>6, <1>7 DEF Lists, Entries
<1>13. HasMore(at, page) => Gets(answer) = {NextCursor(at, page)} BY <1>6, <1>8, <1>9, <1>10, <1>11
<1>14. ~HasMore(at, page) => Gets(answer) = {} BY <1>6, <1>8, <1>9, <1>10
<1> QED BY <1>1, <1>12, <1>13, <1>14 DEF answer

-----------------------------------------------------------------------------
\* Before the first request nothing is covered, and nothing has to be.
LEMMA ListingInitially == Init => ListingInv
<1> SUFFICES ASSUME Init PROVE ListingInv OBVIOUS
<1>1. PICK at : at = IF protocol \in Linked THEN EntryUrl ELSE IF protocol = "mycore_rest" THEN FromStart ELSE 0
  OBVIOUS
<1>2. todo = <<Get(at)>> /\ visited = {} /\ phase = "running" BY <1>1 DEF Init
<1>3. Cursors = {at} BY <1>2 DEF Cursors, Get
<1>4. ASSUME protocol \in Linked PROVE LinkedInv
  <2>1. at = EntryUrl BY <1>1, <1>4
  <2> QED BY <1>2, <1>3, <1>4, <2>1 DEF LinkedInv, Init
<1>5. ASSUME protocol \in Cursor PROVE CursorInv
  <2>1. protocol \notin Linked BY <1>5 DEF Cursor, Linked
  <2>2. steady \subseteq Entries(listing) \cap Ids BY <2>1 DEF Init
  <2>3. Covered(at) = {}
    <3>1. CASE protocol = "mycore_rest"
      <4>1. at = -1 BY <1>1, <2>1, <3>1 DEF FromStart
      <4>2. \A i \in steady : i \in Nat BY <2>2, DiscoveryAssumption
      <4> QED BY <3>1, <4>1, <4>2 DEF Covered, Offset
    <3>2. CASE protocol # "mycore_rest"
      <4>1. at = 0 BY <1>1, <2>1, <3>2
      <4>2. listing \in Seq(Listable) BY InitInv DEF StreamInv, ServerOK
      <4>3. \A n \in DOMAIN listing : n \in Nat \ {0}
        <5>1. PICK s \in Seq(Listable) : s = listing BY <4>2
        <5>2. \A n \in DOMAIN s : n \in Nat \ {0} OBVIOUS
        <5> QED BY <5>1, <5>2
      <4> QED BY <3>2, <4>1, <4>3 DEF Covered
    <3> QED BY <3>1, <3>2
  <2>4. protocol = "mycore_rest" => Sorted(listing) BY DEF Init
  <2> QED BY <1>3, <2>2, <2>3, <2>4 DEF CursorInv
<1> QED BY <1>2, <1>4, <1>5 DEF ListingInv

\* What a cursor covers depends on the protocol, the listing and what stays listed.
LEMMA CoveredSame ==
  ASSUME UNCHANGED <<protocol, listing, steady>>, NEW at
  PROVE  Covered(at)' = Covered(at)
BY DEF Covered

\* A page is read: what it holds joins what is announced.
LEMMA ListingReadPage == ASSUME StreamInv, ListingInv, ReadPage PROVE ListingInv'
<1>1. /\ todo # <<>> /\ todo[1][1] = "get" /\ phase = "running"
      /\ UNCHANGED <<protocol, honest, limit, site, listing, seen, phase, steady, shifted>>
  BY DEF ReadPage, Asking, server
<1>2. PICK at : at = todo[1][2] OBVIOUS
<1>3. at \in Places /\ at \in Cursors
  <2>1. todo[1] \in Items /\ todo \in Seq(Items) BY <1>1, HeadItem DEF StreamInv, TodoOK
  <2>2. 1 \in DOMAIN todo BY <1>1, <2>1
  <2> QED BY <1>1, <1>2, <2>1, <2>2, ItemKinds DEF Cursors
<1>4. PICK answer : answer = IF protocol \in Linked THEN LinkedAnswer(at) ELSE CursorAnswer(at) OBVIOUS
<1>5. todo' = answer \o Tail(todo) BY <1>2, <1>4 DEF ReadPage
<1>6. protocol \in Linked => site[at].kind # "broken" /\ at \in Urls
  BY <1>2, <1>3 DEF ReadPage, Places
<1>7. protocol \in Cursor <=> protocol \notin Linked BY DEF StreamInv, ServerOK, Cursor, Linked
<1>8. answer \in Seq(Items) BY <1>3, <1>4, <1>6, <1>7, LinkedItems, CursorItems DEF StreamInv
<1>9. /\ Announced' = Announced \cup Lists(answer)
      /\ Cursors \subseteq Cursors' \cup {at}
      /\ Cursors' \subseteq Cursors \cup Gets(answer)
      /\ Gets(answer) \subseteq Cursors'
  BY <1>1, <1>2, <1>5, <1>8, AnswerParts DEF StreamInv
<1>10. ASSUME protocol \in Linked PROVE LinkedInv'
  <2>1. visited' = visited \cup {at} BY <1>2, <1>10 DEF ReadPage
  <2>2. visited \cup Cursors \subseteq (visited \cup Cursors)' BY <1>9, <2>1
  <2>3. LinksOf(site[at]) \subseteq Cursors' /\ ListedIn(site[at]) \subseteq Announced'
    <3>1. answer = LinkedAnswer(at) BY <1>4, <1>10
    <3>2. LinksOf(site[at]) \subseteq Gets(answer) /\ ListedIn(site[at]) \subseteq Lists(answer)
      BY <1>6, <1>10, <3>1, LinkedParts DEF StreamInv
    <3> QED BY <1>9, <3>2
  <2>4. LinkedInv BY <1>10 DEF ListingInv
  <2>5. EntryUrl \in visited' \cup Cursors' BY <2>2, <2>4 DEF LinkedInv
  <2>6. ASSUME NEW u \in visited'
        PROVE  LinksOf(site[u]) \subseteq visited' \cup Cursors' /\ ListedIn(site[u]) \subseteq Announced'
    <3>1. CASE u = at BY <2>3, <3>1
    <3>2. CASE u # at
      <4>1. u \in visited BY <2>1, <2>6, <3>2
      <4>2. LinksOf(site[u]) \subseteq visited \cup Cursors /\ ListedIn(site[u]) \subseteq Announced
        BY <2>4, <4>1 DEF LinkedInv
      <4> QED BY <1>9, <2>2, <4>2
    <3> QED BY <3>1, <3>2
  <2>7. steady' = UNION {ListedIn(site[u]) : u \in Reached(site)} BY <1>1, <2>4 DEF LinkedInv
  <2>8. site' = site BY <1>1
  <2> QED BY <2>5, <2>6, <2>7, <2>8 DEF LinkedInv
<1>11. ASSUME protocol \in Cursor PROVE CursorInv'
  <2>1. CursorInv BY <1>11 DEF ListingInv
  <2>2. answer = CursorAnswer(at) BY <1>4, <1>7, <1>11
  <2>3. /\ (steady \subseteq Entries(listing) \cap Ids)'
        /\ (protocol = "mycore_rest" => Sorted(listing))'
    BY <1>1, <2>1 DEF CursorInv
  <2>4. Trustworthy' <=> Trustworthy BY <1>1 DEF Trustworthy
  <2>5. ASSUME Trustworthy
        PROVE  /\ Cursors' = {} => steady' \subseteq Announced'
               /\ \A c \in Cursors' : Covered(c)' \subseteq Announced'
    <3>1. PICK page \in Seq(Listable) : page = PageAt(at) BY <1>3, <1>11, PageType DEF StreamInv
    <3>2. Entries(page) \cap Ids \subseteq Lists(answer)
      BY <1>3, <1>11, <2>2, <3>1, CursorParts DEF StreamInv
    <3>3. Covered(at) \subseteq Announced BY <1>3, <2>1, <2>5 DEF CursorInv
    <3>4. /\ ~HasMore(at, page) => steady \subseteq Announced \cup Entries(page)
          /\ HasMore(at, page) => Covered(NextCursor(at, page)) \subseteq Announced \cup Entries(page)
      BY <1>3, <1>11, <2>1, <2>5, <3>1, <3>3, PageCovers DEF StreamInv, CursorInv
    <3>5. steady \subseteq Ids /\ \A c : Covered(c) \subseteq Ids
      BY <2>1 DEF CursorInv, Covered
    <3>6. \A c \in Cursors : Covered(c) \subseteq Announced BY <2>1, <2>5 DEF CursorInv
    <3>7. \A c : Covered(c)' = Covered(c) BY <1>1, CoveredSame
    <3>8. CASE HasMore(at, page)
      <4>1. Gets(answer) = {NextCursor(at, page)}
        BY <1>3, <1>11, <2>2, <3>1, <3>8, CursorParts DEF StreamInv
      <4>2. Covered(NextCursor(at, page)) \subseteq Announced' BY <1>9, <3>2, <3>4, <3>5, <3>8
      <4>3. Cursors' # {} BY <1>9, <4>1
      <4>4. ASSUME NEW c \in Cursors' PROVE Covered(c) \subseteq Announced'
        <5>1. c \in Cursors \/ c = NextCursor(at, page) BY <1>9, <4>1
        <5> QED BY <1>9, <3>6, <4>2, <5>1
      <4> QED BY <3>7, <4>3, <4>4
    <3>9. CASE ~HasMore(at, page)
      <4>1. Gets(answer) = {} BY <1>3, <1>11, <2>2, <3>1, <3>9, CursorParts DEF StreamInv
      <4>2. steady \subseteq Announced' BY <1>9, <3>2, <3>4, <3>5, <3>9
      <4>3. \A c \in Cursors' : Covered(c) \subseteq Announced' BY <1>9, <3>6, <4>1
      <4> QED BY <1>1, <3>7, <4>2, <4>3
    <3> QED BY <3>8, <3>9
  <2> QED BY <2>3, <2>4, <2>5 DEF CursorInv
<1> QED BY <1>1, <1>10, <1>11 DEF ListingInv

\* A step that announces the same and leaves the same to be asked for keeps the listing whole.
LEMMA ListingSame ==
  ASSUME ListingInv, phase' = "ended" => todo' = <<>>,
         UNCHANGED <<protocol, honest, limit, site, listing, visited, steady, shifted>>,
         Announced' = Announced, visited \cup Cursors \subseteq visited \cup Cursors',
         protocol \in Cursor => Cursors' = Cursors
  PROVE  ListingInv'
<1>1. protocol \in Linked => LinkedInv'
  <2> SUFFICES ASSUME protocol \in Linked PROVE LinkedInv' OBVIOUS
  <2>1. LinkedInv BY DEF ListingInv
  <2> QED BY <2>1 DEF LinkedInv
<1>2. protocol \in Cursor => CursorInv'
  <2> SUFFICES ASSUME protocol \in Cursor PROVE CursorInv' OBVIOUS
  <2>1. CursorInv BY DEF ListingInv
  <2>2. Trustworthy' <=> Trustworthy BY DEF Trustworthy
  <2>3. \A c : Covered(c)' = Covered(c) BY CoveredSame
  <2> QED BY <2>1, <2>2, <2>3 DEF CursorInv
<1> QED BY <1>1, <1>2 DEF ListingInv

\* An entry handed on, or skipped, was announced already;
LEMMA ListingYield == ASSUME StreamInv, ListingInv, Yield PROVE ListingInv'
<1>1. /\ todo # <<>> /\ todo[1][1] = "list" /\ phase = "running" /\ todo' = Tail(todo)
      /\ UNCHANGED <<protocol, honest, limit, site, listing, visited, phase, steady, shifted>>
  BY DEF Yield, Yielding, server
<1>2. PICK entry : entry = todo[1][2] OBVIOUS
<1>3. entry \in Listable BY <1>1, <1>2, HeadItem, ItemKinds DEF StreamInv
<1>4. Cursors' = Cursors /\ Lists(todo) = Lists(todo)' \cup ({entry} \cap Ids)
  BY <1>1, <1>2, TailParts DEF StreamInv
<1>5. seen' = IF entry = Blank THEN seen ELSE seen \cup {entry} BY <1>2 DEF Yield
<1>6. Announced = seen \cup Lists(todo) /\ Announced' = seen' \cup Lists(todo)' BY DEF Announced, Lists
<1>7. entry = Blank => entry \notin Ids BY DiscoveryAssumption DEF Blank
<1>8. Announced' = Announced BY <1>3, <1>4, <1>5, <1>6, <1>7 DEF Listable
<1> QED BY <1>1, <1>4, <1>8, ListingSame

\* a sitemap that is known was read;
LEMMA ListingSitemapKnown == ASSUME StreamInv, ListingInv, SitemapKnown PROVE ListingInv'
<1>1. /\ todo # <<>> /\ todo[1][1] = "get" /\ todo' = Tail(todo) /\ todo[1][2] \in visited
      /\ protocol = "xml" /\ phase = "running"
      /\ UNCHANGED <<protocol, honest, limit, site, listing, visited, seen, phase, steady, shifted>>
  BY DEF SitemapKnown, Asking, Known, server
<1>2. Cursors \subseteq Cursors' \cup {todo[1][2]} /\ Lists(todo) = Lists(todo)'
  BY <1>1, TailParts DEF StreamInv
<1>3. Announced' = Announced BY <1>1, <1>2 DEF Announced, Lists
<1>4. visited \cup Cursors \subseteq visited \cup Cursors' BY <1>1, <1>2
<1>5. protocol \notin Cursor BY <1>1 DEF Cursor
<1> QED BY <1>1, <1>3, <1>4, <1>5, ListingSame

\* an end, and nothing at all, change none of it.
LEMMA ListingEnding == ASSUME ListingInv, RequestFails \/ End \/ UNCHANGED vars PROVE ListingInv'
<1>1. /\ UNCHANGED <<protocol, honest, limit, site, listing, todo, visited, seen, steady, shifted>>
      /\ phase' = "ended" => todo = <<>>
  BY DEF RequestFails, End, vars, server, client, ListingInv
<1>2. Announced' = Announced /\ Cursors' = Cursors BY <1>1 DEF Announced, Cursors
<1> QED BY <1>1, <1>2, ListingSame

\* Taking an entry out: those before it keep their places, a sorted listing stays sorted.
LEMMA WithoutIs ==
  ASSUME NEW s \in Seq(Listable), NEW n \in DOMAIN s
  PROVE  /\ Without(s, n) \in Seq(Listable) /\ Len(Without(s, n)) = Len(s) - 1
         /\ \A k \in 1..Len(s) - 1 : Without(s, n)[k] = IF k < n THEN s[k] ELSE s[k + 1]
<1>1. n \in 1..Len(s) /\ Len(s) \in Nat OBVIOUS
<1>a. SubSeq(s, 1, n - 1) \in Seq(Listable) /\ SubSeq(s, n + 1, Len(s)) \in Seq(Listable)
  BY <1>1, SubSeqProperties
<1>b. PICK a \in Seq(Listable) : a = SubSeq(s, 1, n - 1) BY <1>a
<1>c. PICK b \in Seq(Listable) : b = SubSeq(s, n + 1, Len(s)) BY <1>a
<1>2. Len(a) = n - 1 /\ \A k \in 1..n - 1 : a[k] = s[k] BY <1>1, <1>b
<1>3. Len(b) = Len(s) - n /\ \A k \in 1..Len(s) - n : b[k] = s[n + k]
  <2>1. PICK L \in Nat : L = Len(s) BY <1>1
  <2>2. PICK m \in Int : m = n + 1 BY <1>1
  <2>3. \A i \in m..L : s[i] \in Listable BY <1>1, <2>1, <2>2
  <2>4. b = SubSeq(s, m, L) BY <1>c, <2>1, <2>2
  <2>5. /\ Len(b) = IF m <= L THEN L - m + 1 ELSE 0
        /\ \A k \in 1..L - m + 1 : b[k] = s[m + k - 1]
    BY <2>3, <2>4, SubSeqProperties
  <2>6. n \in Int /\ n <= L BY <1>1, <2>1
  <2>7. Len(b) = L - n BY <2>2, <2>5, <2>6
  <2>8. ASSUME NEW k \in 1..L - n PROVE b[k] = s[n + k]
    <3>1. k \in Int /\ 1 <= k /\ k <= L - n OBVIOUS
    <3>2. L - m + 1 = L - n BY <2>2, <2>6
    <3>3. k \in 1..L - m + 1 BY <3>2
    <3>4. m + k - 1 = n + k BY <2>2, <2>6, <3>1
    <3> QED BY <2>5, <3>3, <3>4
  <2> QED BY <2>1, <2>7, <2>8
<1>d. PICK c : c = a \o b OBVIOUS
<1>4. /\ c \in Seq(Listable) /\ c = Without(s, n) /\ Len(c) = Len(a) + Len(b)
      /\ \A k \in 1..Len(a) + Len(b) : c[k] = IF k <= Len(a) THEN a[k] ELSE b[k - Len(a)]
  BY <1>b, <1>c, <1>d, ConcatProperties DEF Without
<1>5. Len(c) = Len(s) - 1 BY <1>1, <1>2, <1>3, <1>4
<1>6. ASSUME NEW k \in 1..Len(s) - 1 PROVE c[k] = IF k < n THEN s[k] ELSE s[k + 1]
  <2>1. c[k] = IF k <= n - 1 THEN a[k] ELSE b[k - (n - 1)] BY <1>1, <1>2, <1>3, <1>4, SMTT(40)
  <2>2. CASE k < n BY <1>1, <1>2, <2>1, <2>2
  <2>3. CASE ~(k < n)
    <3>1. k - (n - 1) \in 1..Len(s) - n /\ n + (k - (n - 1)) = k + 1 BY <1>1, <2>3
    <3> QED BY <1>1, <1>3, <2>1, <2>3, <3>1
  <2> QED BY <2>2, <2>3
<1> QED BY <1>4, <1>5, <1>6

\* Putting one in, likewise.
LEMMA WithIs ==
  ASSUME NEW s \in Seq(Listable), NEW n \in 1..Len(s) + 1, NEW e \in Listable
  PROVE  /\ With(s, n, e) \in Seq(Listable) /\ Len(With(s, n, e)) = Len(s) + 1
         /\ \A k \in 1..Len(s) + 1 :
              With(s, n, e)[k] = IF k < n THEN s[k] ELSE IF k = n THEN e ELSE s[k - 1]
<1>1. n \in Nat \ {0} /\ Len(s) \in Nat /\ n <= Len(s) + 1 OBVIOUS
<1>a. SubSeq(s, 1, n - 1) \in Seq(Listable) /\ SubSeq(s, n, Len(s)) \in Seq(Listable)
  BY <1>1, SubSeqProperties
<1>b. PICK a \in Seq(Listable) : a = SubSeq(s, 1, n - 1) BY <1>a
<1>c. PICK b \in Seq(Listable) : b = SubSeq(s, n, Len(s)) BY <1>a
<1>2. Len(a) = n - 1 /\ \A k \in 1..n - 1 : a[k] = s[k] BY <1>1, <1>b
<1>3. Len(b) = Len(s) - n + 1 /\ \A k \in 1..Len(s) - n + 1 : b[k] = s[n + k - 1]
  BY <1>1, <1>c, SubSeqProperties
<1>d. PICK m : m = a \o <<e>> OBVIOUS
<1>4. m \in Seq(Listable) /\ Len(m) = n /\ \A k \in 1..n : m[k] = IF k < n THEN s[k] ELSE e
  <2>0. <<e>> \in Seq(Listable) OBVIOUS
  <2>1. PICK t \in Seq(Listable) : t = <<e>> BY <2>0
  <2>2. Len(t) = 1 /\ t[1] = e BY <2>1
  <2>3. /\ m \in Seq(Listable) /\ Len(m) = Len(a) + Len(t)
        /\ \A k \in 1..Len(a) + Len(t) : m[k] = IF k <= Len(a) THEN a[k] ELSE t[k - Len(a)]
    BY <1>d, <2>1, ConcatProperties
  <2>4. Len(a) + Len(t) = n BY <1>1, <1>2, <2>2
  <2>5. ASSUME NEW k \in 1..n PROVE m[k] = IF k < n THEN s[k] ELSE e
    <3>1. m[k] = IF k <= n - 1 THEN a[k] ELSE t[k - (n - 1)] BY <1>2, <2>3, <2>4
    <3>2. CASE k < n
      <4>1. k \in 1..n - 1 BY <1>1, <3>2
      <4> QED BY <1>2, <3>1, <3>2, <4>1
    <3>3. CASE ~(k < n)
      <4>1. k - (n - 1) = 1 /\ ~(k <= n - 1) BY <1>1, <3>3
      <4> QED BY <2>2, <3>1, <3>3, <4>1
    <3> QED BY <3>2, <3>3
  <2> QED BY <2>3, <2>4, <2>5
<1>e. PICK c : c = m \o b OBVIOUS
<1>5. /\ c \in Seq(Listable) /\ c = With(s, n, e) /\ Len(c) = Len(m) + Len(b)
      /\ \A k \in 1..Len(m) + Len(b) : c[k] = IF k <= Len(m) THEN m[k] ELSE b[k - Len(m)]
  <2>1. c = With(s, n, e) BY <1>b, <1>c, <1>d, <1>e DEF With
  <2>2. m \in Seq(Listable) BY <1>4
  <2> QED BY <1>e, <2>1, <2>2, ConcatProperties, ZenonT(40)
<1>6. Len(c) = Len(s) + 1 BY <1>1, <1>3, <1>4, <1>5
<1>7. ASSUME NEW k \in 1..Len(s) + 1
      PROVE  c[k] = IF k < n THEN s[k] ELSE IF k = n THEN e ELSE s[k - 1]
  <2>1. c[k] = IF k <= n THEN m[k] ELSE b[k - n] BY <1>1, <1>3, <1>4, <1>5
  <2>2. CASE k <= n
    <3>1. k \in 1..n BY <2>2
    <3> QED BY <1>1, <1>4, <2>1, <2>2, <3>1
  <2>3. CASE ~(k <= n)
    <3>1. k - n \in 1..Len(s) - n + 1 /\ n + (k - n) - 1 = k - 1 BY <1>1, <2>3
    <3> QED BY <1>1, <1>3, <2>1, <2>3, <3>1
  <2> QED BY <2>2, <2>3
<1> QED BY <1>5, <1>6, <1>7

\* Cursors are of the kind the protocol sends.
LEMMA CursorPlaces == TodoOK => Cursors \subseteq Places
<1> SUFFICES ASSUME TodoOK, NEW n \in DOMAIN todo, todo[n][1] = "get" PROVE todo[n][2] \in Places
  BY DEF Cursors
<1>1. todo[n] \in Items BY DEF TodoOK
<1> QED BY <1>1, ItemKinds

\* The listing changes under a discovery: what the cursors left behind stays announced.
LEMMA ListingChanges ==
  ASSUME ListingInv, Removed \/ Added, protocol \in Cursor,
         (steady \subseteq Entries(listing) \cap Ids)', (protocol = "mycore_rest" => Sorted(listing))',
         Trustworthy' => Trustworthy,
         steady' \subseteq steady, Trustworthy' => \A at \in Cursors : Covered(at)' \subseteq Covered(at)
  PROVE  ListingInv'
<1>1. UNCHANGED <<protocol, todo, visited, seen, phase>> BY DEF Removed, Added, server, client
<1>2. Cursors' = Cursors /\ Announced' = Announced BY <1>1 DEF Cursors, Announced
<1>3. protocol \notin Linked BY DEF Cursor, Linked
<1>4. CursorInv BY DEF ListingInv
<1>5. ASSUME Trustworthy'
      PROVE  /\ Cursors' = {} => steady' \subseteq Announced'
             /\ \A at \in Cursors' : Covered(at)' \subseteq Announced'
  <2>1. ASSUME NEW at \in Cursors PROVE Covered(at)' \subseteq Announced
    <3>1. Covered(at)' \subseteq Covered(at) BY <1>5
    <3>2. Covered(at) \subseteq Announced BY <1>4, <1>5 DEF CursorInv
    <3> QED BY <3>1, <3>2
  <2>2. Cursors = {} => steady \subseteq Announced BY <1>4, <1>5 DEF CursorInv
  <2> QED BY <1>2, <2>1, <2>2
<1>6. CursorInv' BY <1>5 DEF CursorInv
<1> QED BY <1>1, <1>3, <1>6 DEF ListingInv

\* An entry goes: the others keep their order, and those before an honest cursor their places.
LEMMA ListingRemoved == ASSUME StreamInv, ListingInv, Removed PROVE ListingInv'
<1>1. protocol \in Cursor /\ UNCHANGED server BY DEF Removed, Change
<1>2. PICK n \in DOMAIN listing :
        /\ listing' = Without(listing, n)
        /\ steady' = steady \cap Entries(Without(listing, n))
        /\ shifted' = (shifted \/ (protocol \in Offset /\ \E at \in Cursors : n <= at))
  BY DEF Removed
<1>3. PICK s \in Seq(Listable) : s = listing BY DEF StreamInv, ServerOK
<1>4. PICK t \in Seq(Listable) :
        t = Without(s, n) /\ Len(t) = Len(s) - 1
        /\ \A k \in 1..Len(s) - 1 : t[k] = IF k < n THEN s[k] ELSE s[k + 1]
  BY <1>2, <1>3, WithoutIs
<1>5. /\ Len(s) \in Nat /\ DOMAIN s = 1..Len(s) /\ n \in 1..Len(s) /\ DOMAIN t = 1..Len(s) - 1
      /\ listing' = t
  BY <1>2, <1>3, <1>4
<1>6. (steady \subseteq Entries(listing) \cap Ids)'
  <2>1. steady' = steady \cap Entries(t) BY <1>2, <1>3, <1>4
  <2>2. steady \subseteq Ids BY <1>1 DEF ListingInv, CursorInv
  <2> QED BY <1>5, <2>1, <2>2 DEF Entries
<1>7. ASSUME protocol = "mycore_rest" PROVE Sorted(t)
  <2>1. Sorted(s) BY <1>1, <1>3, <1>7 DEF ListingInv, CursorInv
  <2> SUFFICES ASSUME NEW j \in DOMAIN t, NEW k \in DOMAIN t, j < k PROVE t[j] < t[k] BY DEF Sorted
  <2>2. j \in 1..Len(s) - 1 /\ k \in 1..Len(s) - 1 BY <1>5
  <2>3. PICK p \in DOMAIN s : t[j] = s[p] /\ (IF j < n THEN p = j ELSE p = j + 1)
    BY <1>4, <1>5, <2>2
  <2>4. PICK q \in DOMAIN s : t[k] = s[q] /\ (IF k < n THEN q = k ELSE q = k + 1)
    BY <1>4, <1>5, <2>2
  <2>5. p < q BY <1>5, <2>2, <2>3, <2>4
  <2> QED BY <2>1, <2>3, <2>4, <2>5 DEF Sorted
<1>8. ASSUME Trustworthy'
      PROVE  ~shifted /\ ~(protocol \in Offset /\ \E at \in Cursors : n <= at)
  <2>1. ~shifted' BY <1>8 DEF Trustworthy
  <2> QED BY <1>2, <2>1, Zenon
<1>9. Trustworthy' => Trustworthy BY <1>1, <1>8 DEF Trustworthy, server
<1>10. ASSUME Trustworthy', NEW at \in Cursors, NEW i \in Covered(at)' PROVE i \in Covered(at)
  <2>1. protocol' = protocol BY <1>1 DEF server
  <2>2. i \in steady BY <1>2, <1>10 DEF Covered
  <2>3. CASE protocol = "mycore_rest" BY <1>10, <2>1, <2>2, <2>3 DEF Covered, Offset
  <2>4. CASE protocol \in Offset
    <3>1. ~(n <= at) BY <1>8, <1>10, <2>4
    <3>2. at \in Nat
      <4>1. Places = Nat BY <2>4 DEF Places, Offset, Linked
      <4> QED BY <4>1, CursorPlaces DEF StreamInv
    <3>3. PICK k \in DOMAIN t : k <= at /\ t[k] = i
      BY <1>5, <1>10, <2>1, <2>4 DEF Covered, Offset
    <3>4. k \in 1..Len(s) - 1 /\ k < n BY <1>5, <3>1, <3>2, <3>3
    <3>5. t[k] = s[k] /\ k \in DOMAIN s BY <1>4, <1>5, <3>4
    <3> QED BY <1>3, <2>2, <2>4, <3>3, <3>5 DEF Covered
  <2> QED BY <1>10, <2>1, <2>3, <2>4 DEF Covered
<1>11. (protocol = "mycore_rest" => Sorted(listing))' BY <1>1, <1>5, <1>7 DEF server
<1>12. steady' \subseteq steady BY <1>2
<1>13. Trustworthy' => \A at \in Cursors : Covered(at)' \subseteq Covered(at) BY <1>10
<1> QED BY <1>1, <1>6, <1>9, <1>11, <1>12, <1>13, ListingChanges

\* An entry comes: it was not listed all along, and moves the others behind the cursor if at all.
LEMMA ListingAdded == ASSUME StreamInv, ListingInv, Added PROVE ListingInv'
<1>1. protocol \in Cursor /\ UNCHANGED <<protocol, honest, limit, steady, shifted>>
  BY DEF Added, Change, server
<1>2. PICK e \in Ids \ Entries(listing), n \in 1..Len(listing) + 1 :
        /\ protocol = "mycore_rest" => Sorted(With(listing, n, e))
        /\ listing' = With(listing, n, e)
  BY DEF Added
<1>3. PICK s \in Seq(Listable) : s = listing BY DEF StreamInv, ServerOK
<1>a. e \in Listable /\ n \in 1..Len(s) + 1 BY <1>2, <1>3 DEF Listable
<1>b. PICK t : t = With(s, n, e) OBVIOUS
<1>4. /\ t \in Seq(Listable) /\ Len(t) = Len(s) + 1
      /\ \A k \in 1..Len(s) + 1 : t[k] = IF k < n THEN s[k] ELSE IF k = n THEN e ELSE s[k - 1]
  <2>1. /\ With(s, n, e) \in Seq(Listable) /\ Len(With(s, n, e)) = Len(s) + 1
        /\ \A k \in 1..Len(s) + 1 :
             With(s, n, e)[k] = IF k < n THEN s[k] ELSE IF k = n THEN e ELSE s[k - 1]
    BY <1>a, <1>3, WithIs
  <2> QED BY <1>b, <2>1
<1>5. /\ Len(s) \in Nat /\ DOMAIN s = 1..Len(s) /\ n \in 1..Len(s) + 1 /\ DOMAIN t = 1..Len(s) + 1
      /\ listing' = t
  BY <1>2, <1>3, <1>4, <1>a, <1>b
<1>6. steady \subseteq Entries(s) \cap Ids BY <1>1, <1>3 DEF ListingInv, CursorInv
<1>7. Entries(s) \subseteq Entries(t)
  <2> SUFFICES ASSUME NEW k \in DOMAIN s PROVE s[k] \in Entries(t) BY DEF Entries
  <2>1. CASE k < n
    <3>1. k \in 1..Len(s) + 1 BY <1>5
    <3> QED BY <1>4, <1>5, <2>1, <3>1 DEF Entries
  <2>2. CASE ~(k < n)
    <3>1. k + 1 \in 1..Len(s) + 1 /\ ~(k + 1 < n) /\ k + 1 # n /\ (k + 1) - 1 = k BY <1>5, <2>2
    <3>2. t[k + 1] = s[k] /\ k + 1 \in DOMAIN t BY <1>4, <1>5, <3>1
    <3> QED BY <3>2 DEF Entries
  <2> QED BY <2>1, <2>2
<1>8. (steady \subseteq Entries(listing) \cap Ids)'
  <2>1. Entries(listing)' = Entries(t) BY <1>5 DEF Entries
  <2> QED BY <1>1, <1>6, <1>7, <2>1
<1>9. Trustworthy' <=> Trustworthy BY <1>1 DEF Trustworthy
<1>10. ASSUME NEW at \in Cursors, NEW i \in Covered(at)' PROVE i \in Covered(at)
  <2>1. i \in steady BY <1>1, <1>10 DEF Covered
  <2>2. CASE protocol = "mycore_rest" BY <1>1, <1>10, <2>1, <2>2 DEF Covered, Offset
  <2>3. CASE protocol \in Offset
    <3>1. at \in Nat
      <4>1. Places = Nat BY <2>3 DEF Places, Offset, Linked
      <4> QED BY <4>1, CursorPlaces DEF StreamInv
    <3>2. PICK k \in DOMAIN t : k <= at /\ t[k] = i
      BY <1>1, <1>5, <1>10, <2>3 DEF Covered, Offset
    <3>3. k \in 1..Len(s) + 1 BY <1>5
    <3>4. i # e BY <1>2, <1>3, <1>6, <2>1
    <3>5. PICK p \in DOMAIN s : p <= at /\ s[p] = i
      <4>1. CASE k < n
        <5>1. k \in DOMAIN s /\ s[k] = i BY <1>4, <1>5, <3>2, <3>3, <4>1
        <5> QED BY <3>2, <5>1
      <4>2. CASE ~(k < n)
        <5>1. k # n BY <1>4, <3>2, <3>3, <3>4
        <5>2. k - 1 \in DOMAIN s /\ s[k - 1] = i BY <1>4, <1>5, <3>2, <3>3, <4>2, <5>1
        <5>3. k - 1 <= at BY <3>1, <3>2, <3>3
        <5> QED BY <5>2, <5>3
      <4> QED BY <4>1, <4>2
    <3> QED BY <1>3, <2>1, <2>3, <3>5 DEF Covered
  <2> QED BY <1>1, <1>10, <2>2, <2>3 DEF Covered
<1>11. (protocol = "mycore_rest" => Sorted(listing))' BY <1>1, <1>2, <1>5
<1>12. steady' \subseteq steady BY <1>1
<1> QED BY <1>1, <1>8, <1>9, <1>10, <1>11, <1>12, ListingChanges

\* ListingInv is inductive, given the types.
LEMMA ListingStep == ASSUME StreamInv, ListingInv, [Next]_vars PROVE ListingInv'
BY ListingReadPage, ListingSitemapKnown, ListingEnding, ListingYield, ListingRemoved, ListingAdded
   DEF Next, Step

\* At the end nothing is left to ask for or to hand on.
LEMMA ListingEnded == ASSUME StreamInv, ListingInv PROVE WholeListing
<1> SUFFICES ASSUME phase = "ended", Trustworthy, NEW i \in steady PROVE handed[i] = 1
  BY DEF WholeListing
<1>1. todo = <<>> BY DEF ListingInv
<1>2. Cursors = {} /\ Announced = seen BY <1>1 DEF Cursors, Announced, Entries
<1>3. i \in seen
  <2>1. CASE protocol \in Linked
    <3>1. LinkedInv BY <2>1 DEF ListingInv
    <3>2. PICK u \in Reached(site) : i \in ListedIn(site[u]) BY <3>1 DEF LinkedInv
    <3>3. u \in visited
      <4>1. EntryUrl \in visited \cap Urls /\ \A v \in visited \cap Urls : LinksOf(site[v]) \subseteq visited \cap Urls
        <5>1. \A v \in Urls : LinksOf(site[v]) \subseteq Urls BY DEF LinksOf
        <5> QED BY <1>2, <3>1, <5>1, DiscoveryAssumption DEF LinkedInv
      <4>2. visited \cap Urls \in SUBSET Urls OBVIOUS
      <4> QED BY <3>2, <4>1, <4>2 DEF Reached
    <3> QED BY <1>2, <3>1, <3>2, <3>3 DEF LinkedInv
  <2>2. CASE protocol \in Cursor BY <1>2, <2>2 DEF ListingInv, CursorInv
  <2> QED BY <2>1, <2>2 DEF StreamInv, ServerOK
<1> QED BY <1>3 DEF StreamInv, Booked

-----------------------------------------------------------------------------
(* A repository has one plugin.                                            *)

DiscoveryPart == \/ plugin = "generic" /\ StreamInv /\ ListingInv
                 \/ plugin # "generic" /\ phase = "running"

\* Only the generic plugin discovers.
LEMMA DiscoveryInit == SourcesInit => DiscoveryPart /\ Stream!Init
<1>1. Init /\ BatchIdle => DiscoveryPart
  BY InitInv, ListingInitially DEF BatchIdle, DiscoveryPart
<1>2. BatchInit /\ DiscoveryIdle => DiscoveryPart BY DEF BatchInit, DiscoveryIdle, DiscoveryPart
<1>3. Init \/ DiscoveryIdle => Stream!Init BY DEF Init, DiscoveryIdle, Stream!Init
<1> QED BY <1>1, <1>2, <1>3 DEF SourcesInit

\* It keeps to its steps, which are steps of a stream; any other plugin leaves all of it alone.
LEMMA DiscoveryStep ==
  ASSUME DiscoveryPart, [SourcesNext]_svars
  PROVE  DiscoveryPart' /\ [Stream!Next]_(Stream!uvars)
<1>1. plugin' = plugin
  BY DEF SourcesNext, SourcesStep, svars, bvars, Leave, BatchStep, RobotsAllow, ListingFails, LimiterPasses,
         ListRecords, ReadItem, SetEnds, TimePasses, ListArrives, ProcessUnit, Finish, threadVars
<1>2. CASE plugin = "generic"
  <2>1. [Next]_vars BY <1>2 DEF SourcesNext, SourcesStep, svars, Next
  <2>2. StreamInv /\ ListingInv BY <1>2 DEF DiscoveryPart
  <2> QED BY <1>1, <1>2, <2>1, <2>2, StreamStep, ListingStep DEF DiscoveryPart
<1>3. CASE plugin # "generic"
  <2>1. UNCHANGED vars BY <1>3 DEF SourcesNext, SourcesStep, svars
  <2> QED BY <1>1, <1>3, <2>1 DEF DiscoveryPart, Stream!uvars, vars, client
<1> QED BY <1>2, <1>3

(* Whichever plugin a repository has, its discovery is a stream without    *)
(* duplicates (protocol.py 49-67).                                         *)
THEOREM SourcesStreamCorrect == SourcesSpec => StreamSpec
<1>1. SourcesInit => DiscoveryPart /\ Stream!Init BY DiscoveryInit
<1>2. DiscoveryPart /\ [SourcesNext]_svars => DiscoveryPart' /\ [Stream!Next]_(Stream!uvars)
  BY DiscoveryStep
<1> QED BY <1>1, <1>2, PTL DEF SourcesSpec, StreamSpec, Stream!Spec

(* A discovery that ends normally has handed on all that was listed from   *)
(* beginning to end, for all protocols, page sizes, limits, listings and   *)
(* linked documents, however often the listing changes meanwhile, unless   *)
(* the server ignores the cursor or the page size, or an entry goes in     *)
(* front of an offset (mycore_solr.py 80-117, mycore_rest.py 72-104,       *)
(* regal_find.py 75-85, dcat_ap.py 89-106, xml.py 46-93).                  *)
THEOREM WholeListingCorrect == SourcesSpec => []WholeListing
<1>1. SourcesInit => DiscoveryPart BY DiscoveryInit
<1>2. DiscoveryPart /\ [SourcesNext]_svars => DiscoveryPart' BY DiscoveryStep
<1>3. DiscoveryPart => WholeListing
  <2>1. phase = "running" => WholeListing BY DEF WholeListing
  <2> QED BY <2>1, ListingEnded DEF DiscoveryPart
<1> QED BY <1>1, <1>2, <1>3, PTL DEF SourcesSpec

-----------------------------------------------------------------------------
(* The plugins that list first: what the thread has read at any moment is  *)
(* what the sets before list, and the part of the present one.             *)

Units == ListItems \ {"response"}
Outcome == {"arc", "error", "skipped"}

\* The units among the first items of a set, one item after the other.
LEMMA UnitsAre ==
  ASSUME NEW set \in Seq(ListItems)
  PROVE  /\ UnitsOf(set)[0] = <<>>
         /\ \A n \in 1..Len(set) : UnitsOf(set)[n] = IF set[n] = "response" THEN UnitsOf(set)[n - 1]
                                                    ELSE Append(UnitsOf(set)[n - 1], set[n])
         /\ \A n \in 0..Len(set) : UnitsOf(set)[n] \in Seq(Units)
<1>1. PICK N \in Nat : N = Len(set) OBVIOUS
<1>a. \A n \in 1..N : set[n] \in ListItems /\ (set[n] # "response" => set[n] \in Units)
  BY <1>1 DEF Units
<1> DEFINE Next1(s, n) == IF set[n] = "response" THEN s ELSE Append(s, set[n])
           g == [x \in Seq(Units) \X Nat |-> IF x[2] \in 1..N THEN Next1(x[1], x[2]) ELSE x[1]]
           Rule(U) == [n \in 0..N |-> IF n = 0 THEN <<>> ELSE Next1(U[n - 1], n)]
<1>2. \A s \in Seq(Units), n \in 1..N : Next1(s, n) \in Seq(Units) BY <1>a
<1>3. g \in [Seq(Units) \X Nat -> Seq(Units)]
  <2> HIDE DEF Next1
  <2> QED BY <1>2
<1>4. <<>> \in Seq(Units) OBVIOUS
<1>5. \A s \in Seq(Units), n \in 1..N : g[<<s, n>>] = Next1(s, n)
  <2> HIDE DEF Next1
  <2> QED OBVIOUS
<1> HIDE DEF g
<1>6. PICK f \in [0..N -> Seq(Units)] : f[0] = <<>> /\ \A n \in 1..N : f[n] = g[<<f[n - 1], n>>]
  <2>1. PICK S : S = Seq(Units) OBVIOUS
  <2>2. PICK e \in S : e = <<>> BY <1>4, <2>1
  <2>3. PICK r \in [S \X Nat -> S] : r = g BY <1>3, <2>1
  <2>4. N \in Nat /\ e \in S /\ r \in [S \X Nat -> S] BY <1>1, <2>2, <2>3
  <2>5. \E f : Unrolled(f, S, e, r, N) BY <2>4, Recursion
  <2> QED BY <2>1, <2>2, <2>3, <2>5 DEF Unrolled
<1>7. f = Rule(f)
  <2>1. ASSUME NEW n \in 0..N PROVE f[n] = Rule(f)[n]
    <3>1. CASE n = 0 BY <1>6, <3>1
    <3>2. CASE n # 0
      <4>1. n \in 1..N /\ n - 1 \in 0..N BY <1>1, <3>2
      <4>2. f[n - 1] \in Seq(Units) BY <1>6, <4>1
      <4>3. f[n] = Next1(f[n - 1], n) BY <1>5, <1>6, <4>1, <4>2
      <4> HIDE DEF Next1
      <4> QED BY <3>2, <4>3
    <3> QED BY <3>1, <3>2
  <2> HIDE DEF Next1
  <2> QED BY <1>6, <2>1
<1>8. PICK U : U = UnitsOf(set) OBVIOUS
<1>9. U = Rule(U)
  <2>1. U = CHOOSE V : V = Rule(V) BY <1>1, <1>8, Zenon DEF UnitsOf
  <2> HIDE DEF Rule
  <2> QED BY <1>7, <2>1
<1>10. U[0] = <<>> /\ \A n \in 1..N : U[n] = Next1(U[n - 1], n)
  <2> HIDE DEF Next1
  <2> QED BY <1>1, <1>9
<1> DEFINE T == {n \in Nat : n \in 0..N => U[n] \in Seq(Units)}
<1>11. 0 \in T BY <1>4, <1>10
<1>12. ASSUME NEW n \in Nat, n \in T PROVE n + 1 \in T
  <2>1. ASSUME n + 1 \in 0..N PROVE U[n + 1] \in Seq(Units)
    <3>1. n \in 0..N /\ n + 1 \in 1..N /\ (n + 1) - 1 = n BY <1>1, <2>1
    <3>2. U[n] \in Seq(Units) BY <1>12, <3>1
    <3>3. U[n + 1] = Next1(U[n], n + 1) BY <1>10, <3>1
    <3> HIDE DEF Next1
    <3> QED BY <1>2, <3>1, <3>2, <3>3
  <2> QED BY <2>1
<1> HIDE DEF T
<1>13. Nat \subseteq T BY <1>11, <1>12, SetInduction
<1>14. \A n \in 0..N : U[n] \in Seq(Units) BY <1>1, <1>13 DEF T
<1> QED BY <1>1, <1>8, <1>10, <1>14

\* The units of the first sets, one set after the other.
LEMMA GatheredIs ==
  ASSUME batch \in Batches
  PROVE  /\ Gathered[0] = <<>>
         /\ \A n \in 1..Len(batch) : Gathered[n] = Gathered[n - 1] \o UnitsOf(batch[n])[Len(batch[n])]
         /\ \A n \in 0..Len(batch) : Gathered[n] \in Seq(Units)
<1>0. PICK b \in Seq(Seq(ListItems)) : b = batch BY BatchAssumption
<1>1. PICK N \in Nat : N = Len(b) BY <1>0
<1> DEFINE Part(n) == UnitsOf(b[n])[Len(b[n])]
           g == [x \in Seq(Units) \X Nat |-> IF x[2] \in 1..N THEN x[1] \o Part(x[2]) ELSE x[1]]
           Rule(G) == [n \in 0..N |-> IF n = 0 THEN <<>> ELSE G[n - 1] \o Part(n)]
<1>a. ASSUME NEW n \in 1..N PROVE Part(n) \in Seq(Units)
  <2>1. PICK set \in Seq(ListItems) : set = b[n] BY <1>0, <1>1
  <2>2. Len(set) \in 0..Len(set) BY <2>1
  <2>3. UnitsOf(set)[Len(set)] \in Seq(Units) BY <2>1, <2>2, UnitsAre
  <2> QED BY <2>1, <2>3
<1> HIDE DEF Part
<1>2. \A s \in Seq(Units), n \in 1..N : s \o Part(n) \in Seq(Units) BY <1>a, ConcatProperties
<1>3. g \in [Seq(Units) \X Nat -> Seq(Units)] BY <1>2
<1>4. <<>> \in Seq(Units) OBVIOUS
<1>5. \A s \in Seq(Units), n \in 1..N : g[<<s, n>>] = s \o Part(n)
  <2>1. ASSUME NEW s \in Seq(Units), NEW n \in 1..N PROVE <<s, n>> \in Seq(Units) \X Nat BY <1>1
  <2> QED BY <2>1, Zenon
<1> HIDE DEF g
<1>6. PICK f \in [0..N -> Seq(Units)] : f[0] = <<>> /\ \A n \in 1..N : f[n] = g[<<f[n - 1], n>>]
  <2>1. PICK S : S = Seq(Units) OBVIOUS
  <2>2. PICK e \in S : e = <<>> BY <1>4, <2>1
  <2>3. PICK r \in [S \X Nat -> S] : r = g BY <1>3, <2>1
  <2>4. N \in Nat /\ e \in S /\ r \in [S \X Nat -> S] BY <1>1, <2>2, <2>3
  <2>5. \E f : Unrolled(f, S, e, r, N) BY <2>4, Recursion
  <2> QED BY <2>1, <2>2, <2>3, <2>5 DEF Unrolled
<1>7. f = Rule(f)
  <2>1. ASSUME NEW n \in 0..N PROVE f[n] = Rule(f)[n]
    <3>1. CASE n = 0 BY <1>6, <3>1
    <3>2. CASE n # 0
      <4>1. n \in 1..N /\ n - 1 \in 0..N BY <1>1, <3>2
      <4>2. f[n - 1] \in Seq(Units) BY <1>6, <4>1
      <4>3. f[n] = f[n - 1] \o Part(n) BY <1>5, <1>6, <4>1, <4>2
      <4> QED BY <3>2, <4>3
    <3> QED BY <3>1, <3>2
  <2> QED BY <1>6, <2>1
<1>8. PICK G : G = Gathered OBVIOUS
<1>9. G = Rule(G)
  <2>1. G = CHOOSE V : V = Rule(V) BY <1>0, <1>1, <1>8, Zenon DEF Gathered, Part
  <2> HIDE DEF Rule
  <2> QED BY <1>7, <2>1
<1>10. G[0] = <<>> /\ \A n \in 1..N : G[n] = G[n - 1] \o Part(n)
  <2>1. G = [n \in 0..N |-> IF n = 0 THEN <<>> ELSE G[n - 1] \o Part(n)] BY <1>9
  <2>2. G[0] = <<>> BY <1>1, <2>1
  <2>3. ASSUME NEW n \in 1..N PROVE G[n] = G[n - 1] \o Part(n)
    <3>1. n \in 0..N /\ n # 0 OBVIOUS
    <3> QED BY <2>1, <3>1, Zenon
  <2> QED BY <2>2, <2>3
<1> DEFINE T == {n \in Nat : n \in 0..N => G[n] \in Seq(Units)}
<1>11. 0 \in T BY <1>4, <1>10
<1>12. ASSUME NEW n \in Nat, n \in T PROVE n + 1 \in T
  <2>1. ASSUME n + 1 \in 0..N PROVE G[n + 1] \in Seq(Units)
    <3>1. n \in 0..N /\ n + 1 \in 1..N /\ (n + 1) - 1 = n BY <1>1, <2>1
    <3>2. G[n] \in Seq(Units) BY <1>12, <3>1
    <3>3. G[n + 1] = G[n] \o Part(n + 1) BY <1>10, <3>1
    <3> QED BY <1>2, <3>1, <3>2, <3>3
  <2> QED BY <2>1
<1> HIDE DEF T
<1>13. Nat \subseteq T BY <1>11, <1>12, SetInduction
<1>14. \A n \in 0..N : G[n] \in Seq(Units) BY <1>1, <1>13 DEF T
<1> QED BY <1>0, <1>1, <1>8, <1>10, <1>14 DEF Part

\* The first items of a set, and all sets before it, are sequences of units.
LEMMA ReadIs ==
  ASSUME batch \in Batches, NEW c \in 1..Len(batch)
  PROVE  /\ batch[c] \in Seq(ListItems) /\ Len(batch) \in Nat \ {0}
         /\ Gathered[c - 1] \in Seq(Units)
         /\ \A n \in 0..Len(batch[c]) : UnitsOf(batch[c])[n] \in Seq(Units)
<1>1. PICK b \in Seq(Seq(ListItems)) : b = batch /\ b # <<>> BY BatchAssumption
<1>2. Len(b) \in Nat \ {0} BY <1>1
<1>3. PICK set \in Seq(ListItems) : set = b[c] BY <1>1, <1>2
<1>4. \A n \in 0..Len(set) : UnitsOf(set)[n] \in Seq(Units) BY <1>3, UnitsAre
<1>5. c - 1 \in 0..Len(b) BY <1>1, <1>2
<1>6. Gathered[c - 1] \in Seq(Units) BY <1>1, <1>5, GatheredIs
<1> QED BY <1>1, <1>2, <1>3, <1>4, <1>6

\* An item is read.
LEMMA BatchReadItem == ASSUME BatchInv, ReadItem PROVE BatchInv'
<1>1. /\ batch \in Batches /\ scope \in 1..Len(batch) /\ place \in 0..Len(batch[scope])
      /\ units = Gathered[scope - 1] \o UnitsOf(batch[scope])[place]
  BY DEF BatchInv
<1>2. /\ thread = "read" /\ place < Len(batch[scope]) /\ place' = place + 1
      /\ units' = IF batch[scope][place + 1] = "response" THEN units ELSE Append(units, batch[scope][place + 1])
      /\ UNCHANGED <<plugin, batch, run, answers, thread, scope>>
  BY DEF ReadItem, threadVars
<1>3. PICK set \in Seq(ListItems) : set = batch[scope] BY <1>1, ReadIs
<1>4. PICK p \in Nat : p = place /\ p + 1 \in 1..Len(set) BY <1>1, <1>2, <1>3
<1>5. PICK a \in Seq(Units) : a = Gathered[scope - 1] BY <1>1, ReadIs
<1>6. p \in 0..Len(set) /\ (p + 1) - 1 = p BY <1>3, <1>4
<1>7. PICK u \in Seq(Units) : u = UnitsOf(set)[p] BY <1>3, <1>6, UnitsAre
<1>8. UnitsOf(set)[p + 1] = IF set[p + 1] = "response" THEN u ELSE Append(u, set[p + 1])
  BY <1>3, <1>4, <1>6, <1>7, UnitsAre
<1>9. set[p + 1] # "response" => set[p + 1] \in Units
  <2>1. set[p + 1] \in ListItems BY <1>3, <1>4
  <2> QED BY <2>1 DEF Units
<1>10. units = a \o u /\ units \in Seq(Units) BY <1>1, <1>3, <1>4, <1>5, <1>7, ConcatProperties
<1>11. units' = a \o UnitsOf(set)[p + 1]
  <2>1. CASE set[p + 1] = "response" BY <1>2, <1>3, <1>4, <1>8, <1>10, <2>1
  <2>2. CASE set[p + 1] # "response"
    <3>1. PICK x \in Units : x = set[p + 1] BY <1>9, <2>2
    <3>2. Append(a \o u, x) = a \o Append(u, x)
      <4>1. <<x>> \in Seq(Units) BY <3>1
      <4>2. Append(a \o u, x) = (a \o u) \o <<x>> BY <1>10, <3>1, AppendIsConcat
      <4>3. Append(u, x) = u \o <<x>> BY <1>7, <3>1, AppendIsConcat
      <4>4. (a \o u) \o <<x>> = a \o (u \o <<x>>)
        <5>1. PICK w \in Seq(Units) : w = <<x>> BY <4>1
        <5>2. a \in Seq(Units) /\ u \in Seq(Units) /\ w \in Seq(Units) BY <1>5, <1>7, <5>1
        <5>3. (a \o u) \o w = a \o (u \o w) BY ONLY <5>2, ConcatAssociative
        <5> QED BY <5>1, <5>3
      <4> QED BY <4>2, <4>3, <4>4
    <3> QED BY <1>2, <1>3, <1>4, <1>8, <1>10, <2>2, <3>1, <3>2
  <2> QED BY <2>1, <2>2
<1>12. units' = (Gathered[scope - 1] \o UnitsOf(batch[scope])[place])'
  <2>1. Gathered' = Gathered BY <1>2 DEF Gathered
  <2> QED BY <1>2, <1>3, <1>4, <1>5, <1>11, <2>1
<1>13. PICK q \in Seq(Seq(Outcome) \ {<<>>}) : q = answers /\ Len(q) <= Len(units) BY DEF BatchInv, Outcome
<1>14. /\ Len(units) <= Len(units')
       /\ \A n \in 1..Len(units) : units'[n] = units[n]
  <2>1. CASE units' = units BY <1>10, <2>1
  <2>2. CASE units' # units
    <3>1. PICK x \in Units : units' = Append(units, x) BY <1>2, <1>3, <1>4, <1>9, <2>2
    <3> QED BY <1>10, <3>1
  <2> QED BY <2>1, <2>2
<1>15. Len(units') \in Nat /\ Len(units) \in Nat
  <2>1. units' \in Seq(Units) BY <1>2, <1>3, <1>4, <1>9, <1>10
  <2> QED BY <1>10, <2>1
<1>16. (answers \in Seq(Seq({"arc", "error", "skipped"}) \ {<<>>}) /\ Len(answers) <= Len(units))'
  BY <1>2, <1>13, <1>14, <1>15 DEF Outcome
<1>17. (\A n \in DOMAIN answers : units[n] = "deleted" => answers[n] = <<"skipped">>)'
  <2>1. \A n \in DOMAIN q : n \in 1..Len(units) BY <1>13, <1>15
  <2>2. \A n \in DOMAIN q : units[n] = "deleted" => q[n] = <<"skipped">> BY <1>13 DEF BatchInv
  <2> QED BY <1>2, <1>13, <1>14, <2>1, <2>2
<1>18. (place \in 0..Len(batch[scope]))' BY <1>1, <1>2, <1>3, <1>4
<1>19. run \notin {"processing", "done"} BY <1>2 DEF BatchInv
<1> QED BY <1>1, <1>2, <1>12, <1>16, <1>17, <1>18, <1>19 DEF BatchInv

\* A set is read to its end.
LEMMA BatchSetEnds == ASSUME BatchInv, SetEnds PROVE BatchInv'
<1>1. /\ batch \in Batches /\ scope \in 1..Len(batch) /\ place \in 0..Len(batch[scope])
      /\ units = Gathered[scope - 1] \o UnitsOf(batch[scope])[place]
  BY DEF BatchInv
<1>2. /\ thread = "read" /\ place = Len(batch[scope]) /\ UNCHANGED <<plugin, batch, run, answers, units>>
      /\ IF scope < Len(batch) THEN thread' = "wait" /\ scope' = scope + 1 /\ place' = 0
                               ELSE thread' = "over" /\ UNCHANGED <<scope, place>>
  BY DEF SetEnds, threadVars
<1>3. Len(batch) \in Nat BY <1>1, ReadIs
<1>4. Gathered' = Gathered BY <1>2 DEF Gathered
<1>5. run \notin {"processing", "done"} BY <1>2 DEF BatchInv
<1>6. CASE scope < Len(batch)
  <2>1. PICK c \in 1..Len(batch) : c = scope /\ c + 1 \in 1..Len(batch) /\ (c + 1) - 1 = c
    BY <1>1, <1>3, <1>6
  <2>2. units = Gathered[c] BY <1>1, <1>2, <2>1, GatheredIs
  <2>3. c \in 0..Len(batch) BY <1>3, <2>1
  <2>4. PICK a \in Seq(Units) : a = Gathered[c] BY <1>1, <2>3, GatheredIs
  <2>5. PICK set \in Seq(ListItems) : set = batch[c + 1] BY <1>1, <2>1, ReadIs
  <2>6. UnitsOf(set)[0] = <<>> /\ Len(set) \in Nat BY <2>5, UnitsAre
  <2>7. a \o <<>> = a BY <2>4, ConcatEmptySeq
  <2>8. units' = (Gathered[scope - 1] \o UnitsOf(batch[scope])[place])'
    BY <1>2, <1>4, <1>6, <2>1, <2>2, <2>4, <2>5, <2>6, <2>7
  <2>9. (place \in 0..Len(batch[scope]) /\ scope \in 1..Len(batch))' BY <1>2, <1>6, <2>1, <2>5, <2>6
  <2> QED BY <1>1, <1>2, <1>5, <1>6, <2>8, <2>9 DEF BatchInv
<1>7. CASE ~(scope < Len(batch))
  <2>1. scope = Len(batch) BY <1>1, <1>3, <1>7
  <2>2. units' = (Gathered[scope - 1] \o UnitsOf(batch[scope])[place])' BY <1>1, <1>2, <1>4, <1>7
  <2>3. (place \in 0..Len(batch[scope]) /\ scope \in 1..Len(batch))' BY <1>1, <1>2, <1>7
  <2>4. (thread = "over" => scope = Len(batch) /\ place = Len(batch[scope]))' BY <1>2, <1>7, <2>1
  <2>5. (thread \in {"robots", "wait", "call"} => place = 0)' BY <1>2, <1>7
  <2> QED BY <1>1, <1>2, <1>5, <1>7, <2>2, <2>3, <2>4, <2>5 DEF BatchInv
<1> QED BY <1>6, <1>7

\* What becomes of a unit is a sequence of outcomes, and of a deleted record a skip.
LEMMA OutcomesAre ==
  ASSUME NEW unit \in Units, NEW v \in Verdicts
  PROVE  /\ OutcomesOf(unit, v) # Raised => OutcomesOf(unit, v) \in Seq(Outcome) \ {<<>>}
         /\ unit = "deleted" => OutcomesOf(unit, v) = <<"skipped">>
<1>1. <<"skipped">> \in Seq(Outcome) \ {<<>>} /\ OneError \in Seq(Outcome) \ {<<>>}
  BY DEF Outcome, OneError
<1>2. ASSUME NEW end PROVE Failure(end) = OneError \/ Failure(end) = Raised BY DEF Failure
<1>3. OrError(v.arcs) \in Seq(Outcome) \ {<<>>}
  <2>1. PICK n \in Nat : n = v.arcs BY BatchAssumption DEF Verdicts
  <2>2. CASE n = 0 BY <1>1, <2>1, <2>2 DEF OrError
  <2>3. CASE n # 0
    <3>1. Arcs(n) \in Seq(Outcome) /\ Len(Arcs(n)) = n BY <2>1 DEF Arcs, Outcome
    <3>2. Arcs(n) # <<>> BY <2>3, <3>1
    <3> QED BY <2>1, <2>3, <3>1, <3>2 DEF OrError
  <2> QED BY <2>2, <2>3
<1>4. /\ OaiOutcomes(v) # Raised => OaiOutcomes(v) \in Seq(Outcome) \ {<<>>}
      /\ InspireOutcomes(v) # Raised => InspireOutcomes(v) \in Seq(Outcome) \ {<<>>}
  BY <1>1, <1>2, <1>3 DEF OaiOutcomes, InspireOutcomes, Parsed
<1>5. unit \in {"deleted", "broken", "record"} BY DEF Units, ListItems
<1> QED BY <1>1, <1>4, <1>5 DEF OutcomesOf

\* A unit is processed, which the thread has left for good.
LEMMA BatchProcessUnit == ASSUME BatchInv, ProcessUnit PROVE BatchInv'
<1>1. /\ run = "processing" /\ Len(answers) < Len(units) /\ UNCHANGED <<plugin, batch, thread, scope, place, units>>
  BY DEF ProcessUnit
<1>2. PICK v \in Verdicts :
        LET outcomes == OutcomesOf(units[Len(answers) + 1], v)
        IN  /\ answers' = IF outcomes = Raised THEN answers ELSE Append(answers, outcomes)
            /\ run' = IF outcomes = Raised THEN "raised" ELSE run
  BY DEF ProcessUnit
<1>3. PICK a \in Seq(Seq(Outcome) \ {<<>>}) : a = answers BY DEF BatchInv, Outcome
<1>4. PICK u \in Seq(Units) : u = units
  <2>1. Gathered[scope - 1] \in Seq(Units) /\ UnitsOf(batch[scope])[place] \in Seq(Units) BY ReadIs DEF BatchInv
  <2> QED BY <2>1, ConcatProperties DEF BatchInv
<1>5. Len(a) \in Nat /\ Len(u) \in Nat /\ Len(a) + 1 \in 1..Len(u) BY <1>1, <1>3, <1>4
<1>6. PICK unit \in Units : unit = u[Len(a) + 1] BY <1>4, <1>5
<1>7. PICK o : o = OutcomesOf(unit, v) OBVIOUS
<1>8. /\ o # Raised => o \in Seq(Outcome) \ {<<>>}
      /\ unit = "deleted" => o = <<"skipped">>
  BY <1>2, <1>6, <1>7, OutcomesAre
<1>9. /\ answers' = IF o = Raised THEN a ELSE Append(a, o)
      /\ run' = IF o = Raised THEN "raised" ELSE run
  BY <1>2, <1>3, <1>4, <1>6, <1>7
<1>10. Gathered' = Gathered BY <1>1 DEF Gathered
<1>11. \A n \in DOMAIN a : u[n] = "deleted" => a[n] = <<"skipped">> BY <1>3, <1>4 DEF BatchInv
<1>12. /\ answers' \in Seq(Seq(Outcome) \ {<<>>}) /\ Len(answers') <= Len(u)
       /\ \A n \in DOMAIN answers' : u[n] = "deleted" => answers'[n] = <<"skipped">>
  <2>1. CASE o = Raised BY <1>3, <1>5, <1>9, <1>11, <2>1
  <2>2. CASE o # Raised
    <3>1. PICK S : S = Seq(Outcome) \ {<<>>} OBVIOUS
    <3>2. a \in Seq(S) /\ o \in S BY <1>3, <1>8, <2>2, <3>1
    <3>3. /\ Append(a, o) \in Seq(S) /\ Len(Append(a, o)) = Len(a) + 1
          /\ \A n \in 1..Len(a) : Append(a, o)[n] = a[n]
          /\ Append(a, o)[Len(a) + 1] = o
      BY <3>2, AppendProperties
    <3>4. DOMAIN Append(a, o) = 1..Len(a) + 1 /\ DOMAIN a = 1..Len(a) BY <3>2, <3>3
    <3>5. ASSUME NEW n \in DOMAIN Append(a, o), u[n] = "deleted" PROVE Append(a, o)[n] = <<"skipped">>
      <4>1. CASE n = Len(a) + 1 BY <1>6, <1>8, <3>3, <3>5, <4>1
      <4>2. CASE n # Len(a) + 1
        <5>1. n \in 1..Len(a) BY <1>5, <3>4, <4>2
        <5> QED BY <1>11, <3>3, <3>4, <3>5, <5>1
      <4> QED BY <4>1, <4>2
    <3> QED BY <1>5, <1>9, <2>2, <3>1, <3>3, <3>5
  <2> QED BY <2>1, <2>2
<1>13. run' \in {"processing", "raised"} BY <1>1, <1>9
<1> QED BY <1>1, <1>4, <1>10, <1>12, <1>13 DEF BatchInv, Outcome

\* BatchInv is inductive.
LEMMA BatchInitially == BatchInit => BatchInv
<1> SUFFICES ASSUME BatchInit PROVE BatchInv OBVIOUS
<1>1. /\ batch \in Batches /\ scope = 1 /\ place = 0 /\ units = <<>> /\ answers = <<>> /\ run = "listing"
      /\ thread \in {"robots", "read"}
  BY DEF BatchInit
<1>2. PICK b \in Seq(Seq(ListItems)) : b = batch /\ b # <<>> BY <1>1, BatchAssumption
<1>3. 1 \in 1..Len(b) BY <1>2
<1>4. PICK set \in Seq(ListItems) : set = b[1] BY <1>2, <1>3
<1>5. UnitsOf(set)[0] = <<>> /\ Gathered[0] = <<>> BY <1>1, <1>4, UnitsAre, GatheredIs
<1>6. 0 \in 0..Len(set) /\ <<>> \o <<>> = <<>> BY <1>4
<1> QED BY <1>1, <1>2, <1>3, <1>4, <1>5, <1>6 DEF BatchInv

\* Every step of the thread and of run() keeps it.
LEMMA BatchKeeps == ASSUME BatchInv, BatchStep \/ Leave \/ UNCHANGED bvars PROVE BatchInv'
<1>1. ASSUME UNCHANGED <<batch, scope, units, answers, place>>,
             thread' \in {"wait", "call"} => thread \in {"robots", "wait", "call"},
             thread' \notin {"robots"} \/ thread = "robots",
             thread' = "over" => thread = "over",
             run' \in {"processing", "done"} => thread' = "over",
             run' \in {"listing", "failed"} => answers = <<>>,
             run' = "done" => Len(answers) = Len(units)
      PROVE  BatchInv'
  <2>1. Gathered' = Gathered BY <1>1 DEF Gathered
  <2> QED BY <1>1, <2>1 DEF BatchInv
<1>2. CASE RobotsAllow \/ ListingFails \/ LimiterPasses \/ ListRecords \/ TimePasses
  BY <1>1, <1>2 DEF RobotsAllow, ListingFails, LimiterPasses, ListRecords, TimePasses, threadVars, BatchInv
<1>3. CASE ListArrives \/ Finish \/ Leave \/ UNCHANGED bvars
  BY <1>1, <1>3 DEF ListArrives, Finish, Leave, bvars, BatchInv
<1> QED BY <1>2, <1>3, BatchReadItem, BatchSetEnds, BatchProcessUnit DEF BatchStep

\* At its end all that was listed is answered.
LEMMA BatchEnded == BatchInv => BatchAnswered
<1> SUFFICES ASSUME BatchInv PROVE BatchAnswered OBVIOUS
<1>1. ASSUME run = "done" PROVE units = Listed /\ Len(answers) = Len(Listed)
  <2>1. scope = Len(batch) /\ place = Len(batch[scope]) /\ Len(answers) = Len(units) BY <1>1 DEF BatchInv
  <2>2. units = Gathered[scope] BY <2>1, GatheredIs DEF BatchInv
  <2> QED BY <2>1, <2>2 DEF Listed
<1>2. \A n \in DOMAIN answers : answers[n] # <<>>
  <2>1. PICK a \in Seq(Seq(Outcome) \ {<<>>}) : a = answers BY DEF BatchInv, Outcome
  <2>2. \A n \in DOMAIN a : a[n] \in Seq(Outcome) \ {<<>>} BY <2>1
  <2> QED BY <2>1, <2>2
<1> QED BY <1>1, <1>2 DEF BatchAnswered, BatchInv

BatchPart == \/ plugin = "generic" /\ run = "closed" /\ answers = <<>>
             \/ plugin # "generic" /\ BatchInv

(* A plugin that lists first yields nothing before the listing is whole,   *)
(* and nothing but the error if it fails; at the end every unit of every   *)
(* set, and nothing else, has outcomes, a deleted record a skip: for any   *)
(* number of sets and records, however thread, limiter and failures        *)
(* interleave (oai_pmh/plugin.py 143-162, harvest.py 70-99,                *)
(* inspire/plugin.py 64-113).                                              *)
THEOREM BatchCorrect == SourcesSpec => []BatchAnswered
<1>1. SourcesInit => BatchPart
  <2>1. BatchInit => plugin # "generic" BY DEF BatchInit
  <2> QED BY <2>1, BatchInitially DEF SourcesInit, BatchIdle, BatchPart
<1>2. BatchPart /\ [SourcesNext]_svars => BatchPart'
  <2> SUFFICES ASSUME BatchPart, [SourcesNext]_svars PROVE BatchPart' OBVIOUS
  <2>1. CASE plugin = "generic"
    <3>1. UNCHANGED bvars
      BY <2>1 DEF BatchPart, SourcesNext, SourcesStep, svars, Leave
    <3> QED BY <2>1, <3>1 DEF BatchPart, bvars
  <2>2. CASE plugin # "generic"
    <3>1. BatchStep \/ Leave \/ UNCHANGED bvars BY <2>2 DEF SourcesNext, SourcesStep, svars
    <3>2. plugin' = plugin
      BY <3>1 DEF bvars, Leave, BatchStep, RobotsAllow, ListingFails, LimiterPasses, ListRecords, ReadItem,
                  SetEnds, TimePasses, ListArrives, ProcessUnit, Finish, threadVars
    <3> QED BY <2>2, <3>1, <3>2, BatchKeeps DEF BatchPart
  <2> QED BY <2>1, <2>2
<1>3. BatchPart => BatchAnswered
  <2>1. plugin = "generic" /\ run = "closed" /\ answers = <<>> => BatchAnswered BY DEF BatchAnswered
  <2> QED BY <2>1, BatchEnded DEF BatchPart
<1> QED BY <1>1, <1>2, <1>3, PTL DEF SourcesSpec
=============================================================================
