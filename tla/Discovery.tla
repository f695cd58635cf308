------------------------------ MODULE Discovery ------------------------------
(***************************************************************************)
(* Discovery of the records of a repository by the protocols of the        *)
(* generic plugin (generic/protocol/*.py) and the de-duplication in        *)
(* Protocol.discover().                                                    *)
(*                                                                         *)
(* What a protocol still has to do is a sequence of items: an entry of a   *)
(* page to yield, or a request to make.  A request is replaced by what its *)
(* answer lists and, where the protocol sees more to come, by the next     *)
(* request.  The cursor protocols page through a listing that the server   *)
(* may change meanwhile; the linked ones (XML sitemaps, DCAT-AP catalogues)*)
(* walk through documents that name each other.                            *)
(***************************************************************************)
EXTENDS Integers, Sequences, FiniteSets

CONSTANTS Ids,          \* identifiers, in the order in which a server sorts them
          Urls,         \* sitemaps or catalogue pages
          EntryUrl,     \* where a linked protocol begins
          NoUrl,        \* hydra:nextPage is absent
          PageSize,     \* the page size asked for
          Limits,       \* what the server makes of it
          Listings,     \* listings of a cursor server
          Sites,        \* linked documents: [Urls -> documents]
          MaxOffset,    \* bound on offsets: all listings are shorter
          MaxChanges    \* bound on the changes of a listing

Blank == 0              \* an entry without identifier, or one that is no object
FromStart == -1         \* after_id is None

WellFormed(doc) == \/ doc.kind = "broken"
                   \/ doc.kind \in {"urlset", "page"} /\ doc.locs \in Seq(Ids \cup {Blank})
                      /\ (doc.kind = "page" => doc.next \in Urls \cup {NoUrl})
                   \/ doc.kind = "index" /\ doc.locs \in Seq(Urls \cup {Blank})

ASSUME DiscoveryAssumption == /\ Ids \subseteq Nat \ {0}
                              /\ EntryUrl \in Urls /\ NoUrl \notin Urls /\ Blank \notin Urls
                              /\ PageSize \in Nat \ {0} /\ Limits \subseteq Nat \ {0}
                              /\ MaxOffset \in Nat /\ MaxChanges \in Nat
                              /\ \A l \in Listings : l \in Seq(Ids \cup {Blank})
                              /\ \A s \in Sites, u \in Urls : WellFormed(s[u])

VARIABLES protocol,     \* the type-named child of generic.protocol
          honest,       \* the server heeds the cursor it is sent
          limit,        \* the longest page the server returns
          listing,      \* what a cursor server lists now
          site,         \* what a linked server serves
          todo,         \* entries to yield and requests to make
          visited,      \* seen_sitemaps (xml), visited (dcat_ap)
          seen,         \* identifiers discover() has let pass
          handed, result, phase,    \* what the plugin sees, as in UniqueStream
          changes,      \* how often the listing has changed
          steady,       \* identifiers listed all along
          shifted       \* an entry before an offset cursor has gone

server == <<protocol, honest, limit, site>>
client == <<todo, visited, seen, handed, result, phase>>
vars == <<server, listing, client, changes, steady, shifted>>

Cursor == {"mycore_solr", "mycore_rest", "regal_find", "pubplant_json_array"}
Linked == {"dcat_ap", "xml"}
Offset == {"mycore_solr", "regal_find"}

Entries(s) == {s[n] : n \in DOMAIN s}
Get(at) == <<"get", at>>
Found(entry) == <<"list", entry>>

Sorted(s) == \A m, n \in DOMAIN s : m < n => s[m] < s[n]

DocumentKinds == IF protocol = "xml" THEN {"urlset", "index"}
                 ELSE IF protocol = "dcat_ap" THEN {"page"} ELSE {}

\* Documents that a linked document leads to, and identifiers it lists.
LinksOf(doc) == CASE doc.kind = "index" -> Entries(doc.locs) \cap Urls
                  [] doc.kind = "page"  -> {doc.next} \cap Urls
                  [] OTHER -> {}
ListedIn(doc) == IF doc.kind \in {"urlset", "page"} THEN Entries(doc.locs) \cap Ids ELSE {}
\* What a walk that follows every link reads: all sets closed under links have it in common.
Reached(docs) ==
  {u \in Urls : \A closed \in SUBSET Urls :
      EntryUrl \in closed /\ (\A v \in closed : LinksOf(docs[v]) \subseteq closed) => u \in closed}

Init ==
  /\ protocol \in Cursor \cup Linked
  /\ honest \in (IF protocol \in Cursor THEN BOOLEAN ELSE {TRUE})
  /\ limit \in (IF protocol \in Cursor THEN Limits ELSE {PageSize})
  /\ listing \in (IF protocol \in Cursor THEN Listings ELSE {<<>>})
  /\ protocol = "mycore_rest" => Sorted(listing)
  /\ site \in Sites
  /\ \A u \in Urls : site[u].kind \in {"broken"} \cup DocumentKinds
  /\ todo = <<Get(IF protocol \in Linked THEN EntryUrl
                  ELSE IF protocol = "mycore_rest" THEN FromStart ELSE 0)>>
  /\ visited = {} /\ seen = {} /\ phase = "running"
  /\ handed = [i \in Ids |-> 0] /\ result = <<"none", 0>>
  /\ changes = 0 /\ shifted = FALSE
  /\ steady = IF protocol \in Linked THEN UNION {ListedIn(site[u]) : u \in Reached(site)}
              ELSE Entries(listing) \cap Ids

-----------------------------------------------------------------------------
(* The answers of a cursor server and what the protocols make of them.     *)

\* What lies before the cursor: mycore_rest sends the last identifier, the others an offset.
Before(at) == IF ~honest \/ protocol = "pubplant_json_array" THEN 0
              ELSE IF protocol = "mycore_rest" THEN Cardinality({n \in DOMAIN listing : listing[n] <= at})
              ELSE at

Behind(at) == SubSeq(listing, Before(at) + 1, Len(listing))

PageAt(at) == LET rest == Behind(at)
              IN  IF protocol = "pubplant_json_array" \/ Len(rest) <= limit THEN rest
                  ELSE SubSeq(rest, 1, limit)

\* Bug: the last entry that numFound counts is left out.
HasMore_Early(at, page) == page # <<>> /\ Len(page) >= PageSize /\ at + Len(page) + 1 < Len(listing)

\* mycore_solr trusts numFound, the two others take a short page for the last.
HasMore(at, page) ==
  \/ /\ protocol = "mycore_solr"
     /\ page # <<>> /\ at + Len(page) < Len(listing)
  \/ protocol \in {"mycore_rest", "regal_find"} /\ Len(page) >= PageSize

\* An offset behind every listing asks for the same as any other.
Bounded(at) == IF at > MaxOffset THEN MaxOffset ELSE at

NextCursor(at, page) == IF protocol = "mycore_rest" THEN page[Len(page)] ELSE Bounded(at + Len(page))

CursorAnswer(at) ==
  LET page == PageAt(at)
  IN  [n \in DOMAIN page |-> Found(page[n])]
      \o (IF HasMore(at, page) THEN <<Get(NextCursor(at, page))>> ELSE <<>>)

\* A urlset lists records, a sitemapindex further sitemaps; a blank <loc> is an
\* error in both.  A catalogue page lists its datasets and then names the next page.
LinkedAnswer(url) ==
  LET doc == site[url]
  IN  [n \in DOMAIN doc.locs |-> IF doc.kind = "index" /\ doc.locs[n] # Blank THEN Get(doc.locs[n])
                                 ELSE Found(doc.locs[n])]
      \o (IF doc.kind = "page" /\ doc.next # NoUrl THEN <<Get(doc.next)>> ELSE <<>>)

-----------------------------------------------------------------------------
Asking == phase = "running" /\ todo # <<>> /\ todo[1][1] = "get"
Yielding == phase = "running" /\ todo # <<>> /\ todo[1][1] = "list"
\* Bug: only sitemaps remember where they have been.
Known_Sitemaps(url) == protocol = "xml" /\ url \in visited

Known(url) == protocol \in Linked /\ url \in visited

\* _fetch_page, _fetch_array, _fetch_page_graph, _fetch_sitemap: an answer the protocol accepts.
ReadPage ==
  /\ Asking
  /\ LET at == todo[1][2]
     IN  /\ ~Known(at)
         /\ protocol \in Linked => site[at].kind # "broken"
         /\ todo' = (IF protocol \in Linked THEN LinkedAnswer(at) ELSE CursorAnswer(at)) \o Tail(todo)
         /\ visited' = IF protocol \in Linked THEN visited \cup {at} ELSE visited
  /\ UNCHANGED <<server, listing, seen, handed, result, phase, changes, steady, shifted>>

\* A sitemap met a second time is left out.
SitemapKnown ==
  /\ Asking /\ protocol = "xml" /\ Known(todo[1][2])
  /\ todo' = Tail(todo)
  /\ UNCHANGED <<server, listing, visited, seen, handed, result, phase, changes, steady, shifted>>

\* HTTP and transport errors, an answer of the wrong form, and a catalogue page met again.
RequestFails ==
  /\ Asking /\ (protocol = "xml" => ~Known(todo[1][2]))
  /\ phase' = "failed"
  /\ UNCHANGED <<server, listing, todo, visited, seen, handed, result, changes, steady, shifted>>

\* Bug: records are told apart on a page only.
Yield_Forgetful ==
  /\ Yielding
  /\ LET entry == todo[1][2]
     IN  /\ result' = <<IF entry = Blank THEN "error" ELSE "found", entry>>
         /\ handed' = IF entry = Blank THEN handed ELSE [handed EXCEPT ![entry] = @ + 1]
         /\ seen' = IF Len(todo) > 1 THEN seen \cup {entry} ELSE {}
  /\ todo' = Tail(todo)
  /\ UNCHANGED <<server, listing, visited, phase, changes, steady, shifted>>

\* discover(): a new identifier is handed on, a known one skipped, an error handed through.
Yield ==
  /\ Yielding
  /\ LET entry == todo[1][2]
     IN  /\ result' = IF entry = Blank THEN <<"error", 0>>
                      ELSE IF entry \in seen THEN <<"skipped", entry>> ELSE <<"found", entry>>
         /\ seen' = IF entry = Blank THEN seen ELSE seen \cup {entry}
         /\ handed' = IF entry = Blank \/ entry \in seen THEN handed
                      ELSE [handed EXCEPT ![entry] = @ + 1]
  /\ todo' = Tail(todo)
  /\ UNCHANGED <<server, listing, visited, phase, changes, steady, shifted>>

End ==
  /\ phase = "running" /\ todo = <<>>
  /\ phase' = "ended"
  /\ UNCHANGED <<server, listing, todo, visited, seen, handed, result, changes, steady, shifted>>

-----------------------------------------------------------------------------
(* The repository's server changes its listing between two requests.       *)

Cursors == {todo[n][2] : n \in {m \in DOMAIN todo : todo[m][1] = "get"}}
Without(s, n) == SubSeq(s, 1, n - 1) \o SubSeq(s, n + 1, Len(s))
With(s, n, e) == SubSeq(s, 1, n - 1) \o <<e>> \o SubSeq(s, n, Len(s))

Change == phase = "running" /\ protocol \in Cursor /\ changes < MaxChanges

Removed ==
  /\ Change
  /\ \E n \in DOMAIN listing :
       /\ listing' = Without(listing, n)
       /\ steady' = steady \cap Entries(Without(listing, n))
       /\ shifted' = (shifted \/ (protocol \in Offset /\ \E at \in Cursors : n <= at))
  /\ changes' = changes + 1
  /\ UNCHANGED <<server, client>>

Added ==
  /\ Change
  /\ \E i \in Ids \ Entries(listing), n \in 1 .. Len(listing) + 1 :
       /\ protocol = "mycore_rest" => Sorted(With(listing, n, i))
       /\ listing' = With(listing, n, i)
  /\ changes' = changes + 1
  /\ UNCHANGED <<server, client, steady, shifted>>

-----------------------------------------------------------------------------
Step == ReadPage \/ SitemapKnown \/ RequestFails \/ Yield \/ End
Next == Step \/ Removed \/ Added

\* The pipeline pulls, and every request has a timeout.
Spec == Init /\ [][Next]_vars /\ WF_vars(Step)

-----------------------------------------------------------------------------
TypeOK ==
  /\ protocol \in Cursor \cup Linked
  /\ honest \in BOOLEAN /\ limit \in Limits \cup {PageSize}
  /\ seen \subseteq Ids /\ visited \subseteq Urls
  /\ handed \in [Ids -> {0, 1}]
  /\ phase \in {"running", "ended", "failed"}
  /\ changes \in 0 .. MaxChanges /\ shifted \in BOOLEAN
  /\ steady \subseteq Ids

\* What goes wrong with paging although every answer is well-formed: a server that
\* ignores the cursor, one that returns shorter pages than the protocol asked for, and
\* an entry removed in front of an offset.
Trustworthy ==
  /\ honest /\ ~shifted
  /\ protocol \in {"mycore_rest", "regal_find"} => limit >= PageSize

\* Identifiers that were handed on, or wait in a page that was read.
Announced == seen \cup {i \in Ids : Found(i) \in Entries(todo)}

\* What lies before a cursor: smaller identifiers, or the places counted by an offset.
Covered(at) == {i \in steady : \/ protocol = "mycore_rest" /\ i <= at
                               \/ protocol \in Offset /\ \E n \in DOMAIN listing : n <= at /\ listing[n] = i}

LinkedInv ==
  /\ EntryUrl \in visited \cup Cursors
  /\ \A u \in visited : /\ LinksOf(site[u]) \subseteq visited \cup Cursors
                        /\ ListedIn(site[u]) \subseteq Announced
  /\ steady = UNION {ListedIn(site[u]) : u \in Reached(site)}

CursorInv ==
  /\ steady \subseteq Entries(listing) \cap Ids
  /\ protocol = "mycore_rest" => Sorted(listing)
  /\ Trustworthy => /\ Cursors = {} => steady \subseteq Announced
                    /\ \A at \in Cursors : Covered(at) \subseteq Announced

ListingInv ==
  /\ phase = "ended" => todo = <<>>
  /\ protocol \in Linked => LinkedInv
  /\ protocol \in Cursor => CursorInv

(* A discovery that ends normally has handed on every identifier that was listed from
   beginning to end, whatever else came and went meanwhile (mycore_solr.py 80-117,
   mycore_rest.py 72-104, regal_find.py 75-85, dcat_ap.py 89-106, xml.py 46-93). *)
WholeListing == phase = "ended" /\ Trustworthy => \A i \in steady : handed[i] = 1

(* Discovery keeps the promise of Protocol.discover() (protocol.py 49-67): no identifier
   twice, and no skip of one that was not handed on. *)
Stream == INSTANCE UniqueStream WITH status <- phase
StreamSpec == Stream!Spec
=============================================================================
