----------------------------- MODULE ContextCache -----------------------------
(***************************************************************************)
(* The JSON-LD context loader of the process                               *)
(* (parsing/jsonld_context_loader.py): parsers of all repositories resolve *)
(* the remote contexts of their payloads through one cache of documents    *)
(* (least recently used first out), one cache of recent failures and one   *)
(* table of fetches in flight.                                             *)
(*                                                                         *)
(* A document is abstracted to the references it holds.  The loader's lock *)
(* is never held across a suspension, so each locked section is one step.  *)
(* Times are whole units of the monotonic clock.                           *)
(***************************************************************************)
EXTENDS Integers, FiniteSets, Sequences, SequencesExt

CONSTANTS
  Urls,         \* context URLs
  NoUrl,        \* stands for the payload itself
  Refs,         \* Refs[u]: the remote references of u's document, in order
  Nulls,        \* URLs whose document is JSON null
  Callers,      \* parses that materialise a payload
  Payload,      \* Payload[c]: the remote references of c's payload, in order
  Allowed,      \* URLs the parser configuration accepts
  MaxEntries,   \* jsonld_context_cache_max_entries
  Ttl,          \* negative_cache_ttl_seconds
  MaxTime,      \* bound on the clock
  MaxFetches    \* bound on the fetches of one URL

ASSUME CacheAssumption ==
  /\ IsFiniteSet(Urls) /\ NoUrl \notin Urls
  /\ Refs \in [Urls -> Seq(Urls)]
  /\ Nulls \subseteq Urls
  /\ Payload \in [Callers -> Seq(Urls)]
  /\ Allowed \subseteq Urls
  /\ MaxEntries \in Nat \ {0}
  /\ Ttl \in Nat /\ MaxTime \in Nat /\ MaxFetches \in Nat

VARIABLES
  documents,   \* cached URLs, least recently used first
  failures,    \* remembered failures in the same order, [url, expires]
  inflight,    \* inflight[u]: number of the fetch registered for u, 0 if none
  fetch,       \* fetch[u]: the states of the fetches of u so far
  pc,          \* where each caller is
  frames,      \* documents a caller is inlining, outermost first, [url, rest]
  waitsFor,    \* the fetch a caller awaits (of the URL it is at)
  now,
  evicted,     \* history: how often each document was evicted,
  expired,     \* how often its failure was forgotten,
  abandoned    \* and how often its running fetch was dropped from inflight

cacheVars == <<documents, failures>>
callerVars == <<pc, frames, waitsFor>>
history == <<evicted, expired, abandoned>>
vars == <<cacheVars, inflight, fetch, callerVars, now, history>>

Init ==
  /\ documents = <<>>
  /\ failures = <<>>
  /\ inflight = [u \in Urls |-> 0]
  /\ fetch = [u \in Urls |-> <<>>]
  /\ pc = [c \in Callers |-> "idle"]
  /\ frames = [c \in Callers |-> <<>>]
  /\ waitsFor = [c \in Callers |-> 0]
  /\ now = 0
  /\ evicted = [u \in Urls |-> 0]
  /\ expired = [u \in Urls |-> 0]
  /\ abandoned = [u \in Urls |-> 0]

-----------------------------------------------------------------------------
(* The two ordered dictionaries *)

Cached(u) == Contains(documents, u)

\* pop: a dictionary has one entry for u, or none.
Without(s, u) == RemoveFirstMatch(s, LAMBDA f : f.url = u)

\* The last MaxEntries entries, and the entries before them.
Kept(s) == IF Len(s) > MaxEntries THEN SubSeq(s, Len(s) - MaxEntries + 1, Len(s)) ELSE s
Dropped(s) == IF Len(s) > MaxEntries THEN SubSeq(s, 1, Len(s) - MaxEntries) ELSE <<>>

Failed(u) == \E i \in DOMAIN failures : failures[i].url = u
FailureOf(u) == failures[CHOOSE i \in DOMAIN failures : failures[i].url = u]

Count(h, urls) == [u \in Urls |-> h[u] + (IF u \in urls THEN 1 ELSE 0)]

\* _put
PutDocument(u) ==
  LET docs == Append(RemoveFirst(documents, u), u)
  IN  /\ documents' = Kept(docs)
      /\ failures' = Without(failures, u)
      /\ evicted' = Count(evicted, ToSet(Dropped(docs)))

\* Nothing is remembered.
RememberFailure_Never(u) == UNCHANGED <<failures, expired>>

\* _remember_failure
RememberFailure(u) ==
  LET fs == Append(Without(failures, u), [url |-> u, expires |-> now + Ttl])
  IN  IF Ttl = 0
        THEN expired' = Count(expired, {u}) /\ UNCHANGED failures
        ELSE /\ failures' = Kept(fs)
             /\ expired' = Count(expired, {Dropped(fs)[i].url : i \in DOMAIN Dropped(fs)})

-----------------------------------------------------------------------------
(* A caller: materialize_payload_contexts *)

GoTo(c, label) == pc' = [pc EXCEPT ![c] = label]

Inlining(c) == pc[c] = "inline" /\ frames[c] # <<>>

\* The reference the caller resolves next.
Top(c) == Last(frames[c])
Url(c) == Head(Top(c).rest)

\* The URLs whose documents the caller is inside of.
Stack(c) == {frames[c][i].url : i \in DOMAIN frames[c]} \ {NoUrl}

\* Every remote of the payload is tested before the first fetch.
Start(c) ==
  /\ pc[c] = "idle"
  /\ IF ~(ToSet(Payload[c]) \subseteq Allowed)
       THEN GoTo(c, "failed") /\ UNCHANGED frames
       ELSE /\ GoTo(c, "inline")
            /\ frames' = [frames EXCEPT ![c] = <<[url |-> NoUrl, rest |-> Payload[c]]>>]
  /\ UNCHANGED <<cacheVars, inflight, fetch, waitsFor, now, history>>

\* The innermost document's next reference is behind it.
Passed(fs) == [fs EXCEPT ![Len(fs)].rest = Tail(@)]

\* The references of a document are not followed.
Enter_Flat(c) ==
  /\ frames' = [frames EXCEPT ![c] = Passed(frames[c])]
  /\ GoTo(c, "inline")

\* The document of Url(c) is there: the caller inlines its references, then
\* goes on behind it.  A JSON null holds none.
Enter(c) ==
  /\ frames' = [frames EXCEPT ![c] =
       Append(Passed(frames[c]),
              [url |-> Url(c), rest |-> IF Url(c) \in Nulls THEN <<>> ELSE Refs[Url(c)]])]
  /\ GoTo(c, "inline")

Fail(c) == GoTo(c, "failed") /\ UNCHANGED frames

\* Everything in the innermost document is inlined.
Leave(c) ==
  /\ Inlining(c) /\ Top(c).rest = <<>>
  /\ frames' = [frames EXCEPT ![c] = Front(@)]
  /\ IF Len(frames[c]) = 1 THEN GoTo(c, "done") ELSE UNCHANGED pc
  /\ UNCHANGED <<cacheVars, inflight, fetch, waitsFor, now, history>>

Resolves(c) == Inlining(c) /\ Top(c).rest # <<>>

\* A document that includes itself is not noticed.
Reject_Unchecked(c) ==
  /\ Resolves(c) /\ Url(c) \notin Allowed
  /\ Fail(c)
  /\ UNCHANGED <<cacheVars, inflight, fetch, waitsFor, now, history>>

\* A reference that is not accepted, or that leads back into a document being
\* inlined, ends the parse.
Reject(c) ==
  /\ Resolves(c)
  /\ Url(c) \notin Allowed \/ Url(c) \in Stack(c)
  /\ Fail(c)
  /\ UNCHANGED <<cacheVars, inflight, fetch, waitsFor, now, history>>

LooksUp(c) == Resolves(c) /\ Url(c) \in Allowed \ Stack(c)

\* ensure_document_cached: a cached document.  A JSON null is stored, but not
\* told from a miss.
Hit(c) ==
  /\ LooksUp(c)
  /\ Cached(Url(c)) /\ Url(c) \notin Nulls
  /\ documents' = Append(RemoveFirst(documents, Url(c)), Url(c))
  /\ Enter(c)
  /\ UNCHANGED <<failures, inflight, fetch, waitsFor, now, evicted, expired,
                 abandoned>>

Misses(c) == LooksUp(c) /\ (~Cached(Url(c)) \/ Url(c) \in Nulls)

Fresh(u) == Failed(u) /\ now < FailureOf(u).expires

\* A failure is remembered and fresh.
HitFailure(c) ==
  /\ Misses(c) /\ Fresh(Url(c))
  /\ failures' = Append(Without(failures, Url(c)), FailureOf(Url(c)))
  /\ Fail(c)
  /\ UNCHANGED <<documents, inflight, fetch, waitsFor, now, history>>

Forget(u) ==
  /\ failures' = Without(failures, u)
  /\ expired' = IF Failed(u) THEN Count(expired, {u}) ELSE expired

\* A fetch is in flight: the caller joins it.
Join(c) ==
  /\ Misses(c) /\ ~Fresh(Url(c)) /\ inflight[Url(c)] # 0
  /\ Forget(Url(c))
  /\ waitsFor' = [waitsFor EXCEPT ![c] = inflight[Url(c)]]
  /\ GoTo(c, "await")
  /\ UNCHANGED <<documents, inflight, fetch, frames, now, evicted, abandoned>>

\* No fetch is in flight: the caller starts one.
StartFetch(c) ==
  LET u == Url(c)  n == Len(fetch[Url(c)]) + 1
  IN  /\ Misses(c) /\ ~Fresh(u) /\ inflight[u] = 0
      /\ Len(fetch[u]) < MaxFetches
      /\ Forget(u)
      /\ fetch' = [fetch EXCEPT ![u] = Append(@, "running")]
      /\ inflight' = [inflight EXCEPT ![u] = n]
      /\ waitsFor' = [waitsFor EXCEPT ![c] = n]
      /\ GoTo(c, "await")
      /\ UNCHANGED <<documents, frames, now, evicted, abandoned>>

Awaited(c) == fetch[Url(c)][waitsFor[c]]

\* Whatever fetch is registered is taken off the table.
Unregister_Any(c) == inflight' = [inflight EXCEPT ![Url(c)] = 0]

\* The finally of ensure_document_cached: the fetch is taken off the table if
\* it is still the one registered.
Unregister(c) ==
  inflight' = [inflight EXCEPT ![Url(c)] = IF @ = waitsFor[c] THEN 0 ELSE @]

Wake(c) ==
  /\ pc[c] = "await" /\ Awaited(c) # "running"
  /\ Unregister(c)
  /\ IF Awaited(c) = "done" THEN Enter(c) ELSE Fail(c)
  /\ waitsFor' = [waitsFor EXCEPT ![c] = 0]
  /\ UNCHANGED <<cacheVars, fetch, now, history>>

\* The waiter is cancelled; shield keeps the fetch going, the finally block
\* takes it off the table.
Cancel(c) ==
  /\ pc[c] = "await"
  /\ Unregister(c)
  /\ GoTo(c, "cancelled")
  /\ waitsFor' = [waitsFor EXCEPT ![c] = 0]
  /\ abandoned' = IF Awaited(c) = "running" /\ inflight[Url(c)] = waitsFor[c]
                    THEN Count(abandoned, {Url(c)}) ELSE abandoned
  /\ UNCHANGED <<cacheVars, fetch, frames, now, evicted, expired>>

-----------------------------------------------------------------------------
(* The fetch tasks: _fetch_and_store *)

FetchEnds(u, n, state) ==
  /\ n \in DOMAIN fetch[u] /\ fetch[u][n] = "running"
  /\ fetch' = [fetch EXCEPT ![u][n] = state]

FetchSucceeds(u, n) ==
  /\ FetchEnds(u, n, "done")
  /\ PutDocument(u)
  /\ UNCHANGED <<inflight, callerVars, now, expired, abandoned>>

\* A network or server failure, an answer that is not JSON, or the end of
\* the repository whose HTTP client the fetch uses (that of its first caller).
FetchFails(u, n) ==
  /\ FetchEnds(u, n, "failed")
  /\ RememberFailure(u)
  /\ UNCHANGED <<documents, inflight, callerVars, now, evicted, abandoned>>

-----------------------------------------------------------------------------
Tick ==
  /\ now < MaxTime
  /\ now' = now + 1
  /\ UNCHANGED <<cacheVars, inflight, fetch, callerVars, history>>

CallerStep(c) ==
  \/ Start(c)
  \/ Leave(c)
  \/ Reject(c)
  \/ Hit(c)
  \/ HitFailure(c)
  \/ Join(c)
  \/ StartFetch(c)
  \/ Wake(c)

FetchStep(u, n) == FetchSucceeds(u, n) \/ FetchFails(u, n)

Next ==
  \/ \E c \in Callers : CallerStep(c) \/ Cancel(c)
  \/ \E u \in Urls, n \in 1..MaxFetches : FetchStep(u, n)
  \/ Tick

\* Ready callers run, and every fetch is answered or times out.
Fairness ==
  /\ \A c \in Callers : WF_vars(CallerStep(c))
  /\ \A u \in Urls, n \in 1..MaxFetches : WF_vars(FetchStep(u, n))

Spec == Init /\ [][Next]_vars

FairSpec == Spec /\ Fairness

-----------------------------------------------------------------------------
(* Properties *)

Frame == [url : Urls \cup {NoUrl}, rest : Seq(Urls)]

Ended == {"done", "failed", "cancelled"}

\* Types and sizes of the cache's state; each URL at most once in each order; a
\* waiter knows the fetch and the reference it waits for.
TypeOK ==
  /\ documents \in Seq(Urls) /\ Len(documents) <= MaxEntries /\ IsInjective(documents)
  /\ failures \in Seq([url : Urls, expires : Nat]) /\ Len(failures) <= MaxEntries
  /\ \A i, j \in DOMAIN failures : failures[i].url = failures[j].url => i = j
  /\ fetch \in [Urls -> Seq({"running", "done", "failed"})]
  /\ inflight \in [Urls -> Nat] /\ \A u \in Urls : inflight[u] \in 0..Len(fetch[u])
  /\ pc \in [Callers -> {"idle", "inline", "await"} \cup Ended]
  /\ frames \in [Callers -> Seq(Frame)]
  /\ waitsFor \in [Callers -> Nat]
  /\ \A c \in Callers : pc[c] = "await" =>
       /\ frames[c] # <<>> /\ Top(c).rest # <<>>
       /\ waitsFor[c] \in 1..Len(fetch[Url(c)])
  /\ now \in 0..MaxTime
  /\ \A h \in {evicted, expired, abandoned} : h \in [Urls -> Nat]

\* "fetched at most once" with every excuse the code has: a URL is fetched again
\* only after its document was evicted, its failure forgotten, or a waiter was
\* cancelled while the fetch ran.
FetchBudget ==
  \A u \in Urls \ Nulls :
    Len(fetch[u]) <= 1 + evicted[u] + expired[u] + abandoned[u]

Running(u) == {n \in DOMAIN fetch[u] : fetch[u][n] = "running"}

\* What keeps the budget: a fetch that has no excuse yet is running for whoever
\* asks, or it has left a document or a failure behind.
Settled(u) == Cached(u) \/ Failed(u) \/ inflight[u] \in Running(u)

BudgetInv ==
  \A u \in Urls \ Nulls :
    Len(fetch[u]) <= evicted[u] + expired[u] + abandoned[u] + (IF Settled(u) THEN 1 ELSE 0)

\* A running fetch that no cancelled waiter dropped can be joined, even when
\* waiters of an earlier fetch of the same URL have not woken up yet.
JoinableUnlessDropped ==
  \A u \in Urls : abandoned[u] = 0 /\ Running(u) # {} => inflight[u] \in Running(u)

\* What keeps it: without such a waiter, only the registered fetch runs.
JoinInv == \A u \in Urls : abandoned[u] = 0 => Running(u) \subseteq {inflight[u]}

\* The documents within reach of some URLs.
Below(urls) ==
  LET grow[n \in 0..Cardinality(Urls)] ==
        IF n = 0 THEN urls
        ELSE grow[n - 1] \cup UNION {ToSet(Refs[u]) : u \in grow[n - 1] \ Nulls}
  IN  grow[Cardinality(Urls)]

\* A parse that ends well has every document it needed fetched, for all the
\* nesting below its payload.
DoneMeansComplete ==
  \A c \in Callers : pc[c] = "done" =>
    \A u \in Below(ToSet(Payload[c])) :
      u \in Allowed /\ \E n \in DOMAIN fetch[u] : fetch[u][n] = "done"

Fetched(u) == u \in Urls /\ \E n \in DOMAIN fetch[u] : fetch[u][n] = "done"

\* The references a caller follows in the document of u, or in its payload.
References(c, u) ==
  IF u = NoUrl THEN ToSet(Payload[c]) ELSE IF u \in Nulls THEN {} ELSE ToSet(Refs[u])

\* The accepted documents that are fetched, with everything below them.
Complete ==
  UNION {S \in SUBSET Urls :
           \A u \in S : u \in Allowed /\ Fetched(u) /\ (u \notin Nulls => ToSet(Refs[u]) \subseteq S)}

\* What carries a parse: in each document it is inside of, a reference is still
\* to come, or complete, or the document entered next.
Carried(c, i) ==
  LET f == frames[c][i]
  IN  /\ f.url = NoUrl <=> i = 1
      /\ i # 1 => f.url \in Allowed /\ Fetched(f.url)
      /\ \A v \in References(c, f.url) :
           \/ v \in ToSet(f.rest) \cup Complete
           \/ i < Len(frames[c]) /\ v = frames[c][i + 1].url

FramesInv ==
  /\ \A u \in ToSet(documents) : Fetched(u)
  /\ \A c \in Callers :
       /\ pc[c] = "done" => ToSet(Payload[c]) \subseteq Complete
       /\ pc[c] = "await" => Url(c) \in Allowed
       /\ pc[c] \in {"inline", "await"} => \A i \in DOMAIN frames[c] : Carried(c, i)

\* Contexts that include each other, failing fetches and cancelled neighbours
\* end a parse or let it finish; no parse waits for ever.  (Unless the bound on
\* fetches stops it.)
ParsesEnd ==
  \A c \in Callers : []<>(pc[c] \in Ended \/ \E u \in Urls : Len(fetch[u]) = MaxFetches)

=============================================================================
