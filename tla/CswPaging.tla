------------------------------- MODULE CswPaging -------------------------------
(***************************************************************************)
(* The paged harvest of a CSW catalogue (inspire/csw_client.py): one       *)
(* thread walks the pages of a GetRecords query while the event loop       *)
(* waits, and starts the whole walk again after a transient failure.       *)
(*                                                                         *)
(* The catalogue is a row of places.  A record in a place parses ("good"), *)
(* fails to parse but has an identifier ("bad"), fails and has none        *)
(* ("anon"), or is no ISO record ("other").  How the server fills in the   *)
(* paging attributes of an answer is its style.  Errors without identifier *)
(* are named by a second request for the page, in Dublin Core, whose       *)
(* answer replaces the first one in the client.                            *)
(***************************************************************************)
EXTENDS Integers, FiniteSets, FiniteSetsExt

CONSTANTS
  Size,         \* number of places of the catalogue
  Limits,       \* values of max_records, NoLimit for None
  Firsts,       \* values of the query's startPosition
  ChunkSize,    \* chunk_size, or maxRecords of the query
  Advertised,   \* MaxRecordDefault of the capabilities, 0 if there is none
  Attempts,     \* 1 + retry_attempts
  SameCut       \* the server cuts the Dublin Core page where it cut the ISO page

Kinds == {"good", "bad", "anon", "other"}

Styles == {
  "next",       \* nextrecord, 0 at the end, and matches
  "bare",       \* nextrecord, 0 at the end
  "past",       \* nextrecord, behind the last record at the end, and matches
  "stuck",      \* nextrecord, always the position asked for
  "returned",   \* returned and matches
  "count",      \* returned
  "matches",    \* matches
  "none"}

Places == 1..Size

NoLimit == 0
NoName == 0

ASSUME CswAssumption ==
  /\ Size \in Nat
  /\ Limits \subseteq Nat
  /\ Firsts \subseteq Nat \ {0}
  /\ ChunkSize \in Nat \ {0}
  /\ Advertised \in Nat
  /\ Attempts \in Nat \ {0}
  /\ SameCut \in BOOLEAN

VARIABLES
  kind, style,   \* the catalogue and the server's style, fixed
  limit, first,  \* max_records and the start of the query, fixed
  phase,         \* what the client is doing
  job,           \* what it will try again after a pause
  tries,         \* number of the attempt
  abandoned,     \* the harvest was cancelled, the thread goes on
  start,         \* start_position
  page,          \* length of the ISO page being worked on
  answered,      \* length of the page of the last answer, whatever its schema
  count,         \* records_yielded
  times,         \* how often the record in each place is in the list
  name,          \* the place whose identifier was given to an anonymous error
  blank          \* history: the walk ended at a page without ISO records

setup == <<kind, style, limit, first>>
list == <<count, times, name, blank>>
vars == <<setup, phase, job, tries, abandoned, start, page, answered, list>>

Ended == {"done", "failed", "cancelled"}

Init ==
  /\ kind \in [Places -> Kinds]
  /\ style \in Styles
  /\ limit \in Limits
  /\ first \in Firsts
  /\ phase = "connect" /\ job = "connect"
  /\ tries = 1
  /\ abandoned = FALSE
  /\ start = first
  /\ page = 0 /\ answered = 0
  /\ count = 0
  /\ times = [p \in Places |-> 0]
  /\ name = [p \in Places |-> NoName]
  /\ blank = FALSE

\* The page size asked for: the advertised one if it is lower.
PageSize ==
  IF Advertised # 0 /\ Advertised < ChunkSize THEN Advertised ELSE ChunkSize

-----------------------------------------------------------------------------
(* Requests that fail: _retry_async *)

EndsAs(outcome) == phase' = IF abandoned THEN "cancelled" ELSE outcome

\* An OSError, a timeout or an answer that is not XML.  A failed Dublin Core
\* request is only logged (see NamesFail), unless the answer is not XML.
TransientFailure ==
  /\ phase \in {"connect", "page", "names"}
  /\ EndsAs(IF tries < Attempts THEN "rest" ELSE "failed")
  /\ job' = IF phase = "connect" THEN "connect" ELSE "page"
  /\ UNCHANGED <<setup, tries, abandoned, start, page, answered, list>>

\* A 4xx answer or a ValueError is not tried again.
PermanentFailure ==
  /\ phase \in {"connect", "page"}
  /\ EndsAs("failed")
  /\ UNCHANGED <<setup, job, tries, abandoned, start, page, answered, list>>

NewList ==
  /\ start' = first
  /\ count' = 0
  /\ times' = [p \in Places |-> 0]
  /\ name' = [p \in Places |-> NoName]
  /\ blank' = FALSE

\* Attempts are not counted.
Rested_Uncounted ==
  /\ phase = "rest"
  /\ phase' = job
  /\ NewList
  /\ UNCHANGED <<setup, job, tries, abandoned, page, answered>>

\* The pause is over: the whole walk begins again, with a new list.
Rested ==
  /\ phase = "rest"
  /\ phase' = job
  /\ tries' = tries + 1
  /\ NewList
  /\ UNCHANGED <<setup, job, abandoned, page, answered>>

\* The harvest's task is cancelled.  A request in the thread goes on.
Cancel ==
  /\ phase \notin Ended /\ ~abandoned
  /\ IF phase = "rest" THEN phase' = "cancelled" /\ UNCHANGED abandoned
                       ELSE abandoned' = TRUE /\ UNCHANGED phase
  /\ UNCHANGED <<setup, job, tries, start, page, answered, list>>

Connected ==
  /\ phase = "connect"
  /\ EndsAs("page")
  /\ tries' = 1
  /\ UNCHANGED <<setup, job, abandoned, start, page, answered, list>>

-----------------------------------------------------------------------------
(* One page *)

Span(k) == {p \in Places : start <= p /\ p < start + k}

Iso(k) == {p \in Span(k) : kind[p] # "other"}
Good(k) == {p \in Span(k) : kind[p] = "good"}
Anonymous(k) == {p \in Span(k) : kind[p] = "anon"}

\* The how-manieth element of S its member p is.
Rank(S, p) == Cardinality({q \in S : q <= p})

\* _limit_page_to_max_records: errors are always kept, good records while the
\* budget lasts.
Kept(k) ==
  {p \in Iso(k) : kind[p] = "good" /\ limit # NoLimit =>
                    Rank(Good(k), p) <= limit - count}

\* The paging attributes of the last answer, which had a records, for the
\* position asked for.
No == -1

NextRecord(a) ==
  IF style \in {"next", "bare"} /\ start + a > Size THEN 0
  ELSE IF style \in {"next", "bare", "past"} THEN start + a
  ELSE IF style = "stuck" THEN start
  ELSE No

Returned(a) == IF style \in {"returned", "count"} THEN a ELSE No
Matches == IF style \in {"bare", "count", "none"} THEN No ELSE Size

Done == 0

\* _next_start_position: nextrecord, or the number returned, or the length of
\* the parsed batch as long as records are left; Done when there is no more.
NextStart(k, a) ==
  LET batch == Cardinality(Iso(k))
  IN  IF NextRecord(a) # No THEN NextRecord(a)
      ELSE IF Returned(a) > 0 THEN start + Returned(a)
      ELSE IF Matches # No /\ start + batch <= Matches THEN start + batch
      ELSE Done

\* The last record is taken for the end.
Advance_Early(k, a) ==
  LET next == NextStart(k, a)
  IN  IF next <= start \/ (Matches # No /\ next >= Matches) THEN Done ELSE next

\* A server that does not move on is asked again.
Advance_Trusting(k, a) ==
  LET next == NextStart(k, a)
  IN  IF next = Done \/ (Matches # No /\ next > Matches) THEN Done ELSE next

\* _advance_start_position: a server that does not move on is not asked again.
Advance(k, a) ==
  LET next == NextStart(k, a)
  IN  IF next <= start \/ (Matches # No /\ next > Matches) THEN Done ELSE next

\* The list takes the ISO page of k records; the walk goes on from where the
\* last answer, of a records, leads, or ends.
TakePage(k, a) ==
  LET full == limit # NoLimit /\ count' >= limit
  IN  /\ times' = [p \in Places |-> times[p] + IF p \in Kept(k) THEN 1 ELSE 0]
      /\ count' = count + Cardinality(Kept(k) \cap Good(k))
      /\ IF full \/ Advance(k, a) = Done
           THEN EndsAs("done") /\ UNCHANGED start
           ELSE phase' = "page" /\ start' = Advance(k, a)

\* The server answers with at least one record if there is one, and with no
\* more than it was asked for.
Lengths == IF start > Size THEN {0} ELSE 1..Min({PageSize, Size - start + 1})

\* _fetch_and_parse_page: a page without ISO records ends the walk; one with
\* anonymous errors needs their names first.
PageArrives(k) ==
  /\ phase = "page" /\ k \in Lengths
  /\ page' = k /\ answered' = k
  /\ IF Iso(k) = {}
       THEN /\ EndsAs("done")
            /\ blank' = (start + k <= Size)
            /\ UNCHANGED <<start, count, times, name>>
       ELSE /\ IF Anonymous(k) # {}
                 THEN phase' = "names" /\ UNCHANGED <<start, count, times>>
                 ELSE TakePage(k, k)
            /\ UNCHANGED <<name, blank>>
  /\ UNCHANGED <<setup, job, tries, abandoned>>

\* The identifiers of records that parsed are not set aside.
Unmatched_All(a) == Span(a)

\* The Dublin Core identifiers, of a records, that no parsed record has.
Unmatched(a) == Span(a) \ Good(page)

\* _apply_dc_fallback: the i-th anonymous error gets the i-th of them.
NamesArrive(a) ==
  /\ phase = "names" /\ a \in Lengths /\ (SameCut => a = page)
  /\ answered' = a
  /\ name' = [p \in Places |->
       LET ids == {q \in Unmatched(a) :
                     Rank(Unmatched(a), q) = Rank(Anonymous(page), p)}
       IN  IF p \notin Anonymous(page) THEN name[p]
           ELSE IF ids = {} THEN NoName ELSE CHOOSE q \in ids : TRUE]
  /\ TakePage(page, a)
  /\ UNCHANGED <<setup, job, tries, abandoned, page, blank>>

\* The second request fails: the errors stay anonymous, the first answer is
\* still the last one.
NamesFail ==
  /\ phase = "names"
  /\ TakePage(page, answered)
  /\ UNCHANGED <<setup, job, tries, abandoned, page, answered, name, blank>>

-----------------------------------------------------------------------------
Progress ==
  \/ Connected
  \/ TransientFailure
  \/ PermanentFailure
  \/ Rested
  \/ \E k \in Places \cup {0} : PageArrives(k)
  \/ \E a \in Places : NamesArrive(a)
  \/ NamesFail

Next == Progress \/ Cancel

Spec == Init /\ [][Next]_vars

\* Every request is answered or times out, and pauses end.
FairSpec == Spec /\ WF_vars(Progress)

-----------------------------------------------------------------------------
(* Properties *)

\* Types of the walk; attempts stay within their number, positions and counters
\* are numbers whatever the server answers.
TypeOK ==
  /\ kind \in [Places -> Kinds] /\ style \in Styles
  /\ limit \in Limits /\ first \in Firsts
  /\ phase \in {"connect", "page", "names", "rest"} \cup Ended
  /\ job \in {"connect", "page"}
  /\ tries \in 1..Attempts
  /\ abandoned \in BOOLEAN /\ blank \in BOOLEAN
  /\ start \in Nat \ {0}
  /\ page \in Nat /\ answered \in Nat
  /\ count \in Nat
  /\ times \in [Places -> Nat]
  /\ name \in [Places -> Places \cup {NoName}]

\* The fallback on the batch length counts ISO records only, so that it walks
\* back over the others.
Overlaps == style = "matches" /\ \E p \in Places : kind[p] = "other"

\* No record is in the list twice: not at the border of two pages, not after a
\* retry, not when the Dublin Core answer has replaced the ISO answer.
Once == SameCut /\ ~Overlaps => \A p \in Places : times[p] <= 1

InList == {p \in Places : times[p] > 0}
Wanted(kinds) == {p \in Places : p >= first /\ kind[p] \in kinds}

\* A walk that ends well has the first good records up to max_records, and
\* all errors unless max_records ended it: nothing is lost between two pages,
\* at the last record, by the trimming, or by the second request.  Servers that
\* do not say where to go on are exempt, and a page without any ISO record.
Whole ==
  phase = "done" /\ SameCut /\ ~Overlaps /\ ~blank /\ style \notin {"stuck", "none"} =>
    LET good == Wanted({"good"})
        kept == {p \in good : limit # NoLimit => Rank(good, p) <= limit}
    IN  /\ InList \cap good = kept
        /\ (limit = NoLimit \/ Cardinality(good) < limit) =>
             Wanted({"bad", "anon"}) \subseteq InList

\* An anonymous error gets the identifier of its own record, unless the page
\* holds, before it, an error with an identifier or a record that is not ISO.
NamedRight ==
  SameCut => \A p \in Places :
    \/ name[p] \in {p, NoName}
    \/ \E q \in Places : q < p /\ p - q < PageSize /\ kind[q] \in {"bad", "other"}

\* The inductive invariant behind Once: as long as a walk goes on, nothing from
\* its position on is in the list.
PagingInv ==
  /\ TypeOK
  /\ Once
  /\ phase = "rest" => tries < Attempts
  /\ phase = "connect" => times = [p \in Places |-> 0]
  /\ phase = "names" => answered = page /\ Iso(page) # {}
  /\ phase \in {"page", "names"} /\ SameCut /\ ~Overlaps =>
       \A p \in Places : p >= start => times[p] = 0

\* The inductive invariant behind Whole and NamedRight: what the walk has behind
\* it is in the list, nothing else is, and the limit is not reached yet.
Walked == {p \in Places : first <= p /\ p < start}
Sound == SameCut /\ ~Overlaps /\ style \notin {"stuck", "none"}

WalkInv ==
  /\ phase = "names" => page \in Lengths
  /\ phase \in {"connect", "page", "names"} /\ Sound =>
       /\ start >= first
       /\ InList = {p \in Walked : kind[p] # "other"}
       /\ count = Cardinality({p \in Walked : kind[p] = "good"})
       /\ limit # NoLimit => count < limit

\* However the requests fail and wherever it is cancelled, the harvest ends.
Ends == <>(phase \in Ended)

=============================================================================
