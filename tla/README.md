# A formal model of the FAIRagro middleware harvester

This directory holds TLA+ specifications of the harvester: modules that model its components,
TLC configurations that check them on small instances, and proofs that TLAPS checks for every
value of the constants. Paths below are relative to
`src/middleware/<package>/src/middleware/<package>/` unless they start with `src/`.

## 1. The system

The harvester visits a list of configured repositories one after the other. For each it opens a
plugin that discovers records, maps them to ARCs (research objects) and yields outcomes (an ARC,
an error of one record, a skipped record, an error of discovery); the outcomes become an upload
stream to the middleware API, and everything that happened goes into a report and an exit code.

| Component | State | Operations | Interacts with |
|---|---|---|---|
| Bounded pipeline (`generic/pipeline.py`) | queue of results, semaphore, `_PipelineRun` (active_workers, discovery_finished, complete_signaled, shutdown, tasks) | producer, workers, sentinel, stream, close | plugins feed it, the upload pulls from it |
| Generic plugin (`generic/plugin.py`) | expected dataset count, protocol, HTTP client | `run`, `_process_result`, error mapping | pipeline, protocols, parsers |
| Protocol discovery (`generic/protocol/*`) | paging cursor, visited documents, seen identifiers | one `_discover` per protocol, de-duplication | HTTP client |
| Polite HTTP client (`contracts/nice_http_client.py`) | robots.txt cache, last request per host, host locks | `get_with_policy`, `retry_get`, `wait_for_host`, `is_allowed` | every network access |
| JSON-LD context loader (`parsing/jsonld_context_loader.py`) | LRU cache of documents, remembered failures, fetches in flight | `ensure_document_cached`, materialise, imports | workers of the pipeline share one loader |
| Inspire plugin (`inspire/plugin.py`, `csw_client.py`, `capabilities.py`) | start position, page size clamp, connection | paged GetRecords, ISO/DC fall-back, retries | its own outcome stream |
| OAI-PMH plugin (`oai_pmh/*`) | rate limiter, units | discovery units, process unit | its own outcome stream |
| Upload (`harvester/upload.py`) | `ArcStreamState` | `arc_stream`, `execute_harvest_upload` | pulls outcomes, pushes ARCs |
| Report (`harvester/reporting.py`, `errors.py`) | harvest report entries | record outcome, abort, failure | written by the orchestrator and by uploads |
| Orchestrator (`harvester/orchestrator.py`, `main.py`) | repositories, heartbeat task, exit code | gather, run repository, record failure | everything |
| Heartbeat and health check (`orchestrator.py`, `healthcheck.py`) | time stamp file | touch, check age | container runtime |
| Configuration (`harvester/config.py`, `generic/config.py`, `payload/mapper_config.py`, `parsing/parser_config.py`) | a repository's entry | validation, making of the plugin | orchestrator |
| ISO 19139 parser (`inspire/iso_parser.py`) | none | lists of entries | Inspire mapper |
| Payload mappers (`payload/*`) | the ARC being built | reading a graph, contacts, identifiers, tables, comments | run in the pipeline's workers and on the event loop |
| Scripts and automation (`src/scripts/ai`) | what GitHub keeps: reviews, comments, threads, labels, issues | rounds of review, follow-up issues | agents, workflows, people |

Hard behaviour: the pipeline's interleavings of discovery, workers, consumer, cancellation and
close; single-flight fetching under cancellation; retries and server advice; paging against a
server whose totals change; partial failure of an upload whose outcomes must nevertheless be
accounted for exactly once in the report; records that come back in another order, under other
identifiers or with other persons; agents and workflows that act on GitHub's state at once.

What makes each component correct:

| Component | Properties that matter |
|---|---|
| Bounded pipeline | a stream that ends normally has handed over every outcome once; it always ends; permits balance; discovery never runs far ahead of a slow upload; nothing is queued once the caller has left |
| Protocol discovery, CSW paging, OAI-PMH | every record of the repository is listed, none twice; paging ends; a retry forgets what the failed attempt had collected; an error is reported for the record it is about |
| Polite HTTP client | requests to a host keep their distance, also when tasks are cancelled; a disallowed URL is not asked for; the server's advice is honoured; every request ends |
| JSON-LD context loader | one fetch per document while it is kept; waiters of a fetch all find its result; a finished document is complete; nobody waits for ever, not even on cyclic contexts |
| Upload and report | every ARC and every record error is counted once; only a whole stream completes the API harvest; no failed harvest looks clean |
| Orchestrator | one report entry per repository, whatever fails; nothing is written to a closed entry; the run always comes to an exit code |
| Heartbeat and health check | a working harvester never looks dead |
| Configuration | what is accepted can be built, and its records fit its mapper |
| Mappers | the order of a graph does not matter; a person is one contact with every role; different records do not collide and a record keeps its identifier; columns pair what belongs together; no comment is lost |
| Automation | no finding is closed unseen; every summary and every named follow-up is dealt with; no second issue for one id |

## 2. Plan

The modules, in the order in which they were written:

1. `Pipeline`, the bounded pipeline, and `OutcomeStream`, what it promises to its caller; proofs
   in `Pipeline_proofs`.
2. `Harvest`, the run from the orchestrator to the exit code; proofs in `Harvest_proofs`.
3. `ContextCache`, single-flight fetching of JSON-LD contexts; proofs in `ContextCache_proofs`.
4. `PoliteHttp`, robots.txt, rate limit and retries; proofs in `PoliteHttp_proofs`.
5. `CswPaging`, the walk through a CSW catalogue; proofs in `CswPaging_proofs`.
6. `Discovery`, the six protocols of the generic plugin, and `UniqueStream`, what
   `Protocol.discover()` promises.
7. `Processing` (what becomes of one record) and `BatchPlugins` (OAI-PMH and Inspire, which list
   first), composed with `Discovery` in `Sources`; proofs about all of them in `Sources_proofs`.
8. `ReviewRounds` and `FollowUps`, composed in `Automation`.
9. `StableSort` (Python's `sorted` and list comprehensions), `StableGraph`, `Contacts`, `Records`, `Tables`, `Comments` (the mappers' algorithms),
   `Configuration` and `Heartbeat`, put side by side in `Algorithms`; proofs about the parts of
   `Algorithms` and `Automation` in `Parts_proofs`.

`Lemmas` holds what several proofs need: induction over the natural numbers in a form that speaks
of sets, functions defined by recursion, sequences without duplicates, and sorting.

Every invariant and action property of the runs is now a theorem; what is left to the runs alone
is liveness (section 6).

## 3. Modules and code

Each action is at most one stretch of code between two awaits that suspend. asyncio runs such a
stretch without interruption, so no finer interleaving exists, except where the code uses a
thread (CSW). A cancelled task receives its `CancelledError` at its next step, whatever it
waited for; a task cancelled before its first step never runs at all.

### Pipeline and OutcomeStream

`queue`, `permits`, `activeWorkers`, `discoveryFinished`, `completeSignaled` and `shutdown` are
the fields of `_PipelineRun`, its semaphore and its queue. `pc` says where each task is (task 0
is the producer, task *i* the worker of item *i*), `made` and `sent` how many outcomes a task
has and how many of them it has queued, `delivered` what the caller received. `cancelled`,
`raising`, `aborting` and `errors` are what an asyncio `TaskGroup` keeps: a task that raises
makes the group cancel the others and its parent, the task that runs the consumer.

| Action | Code |
|---|---|
| `Discover`, `PutSignal`, `SpawnWorker`, `DiscoveryEnds` | `_run_discovery_producer` |
| `DiscoveryFails`, `PutDiscoveryError`, `DiscoveryCrashes` | its exception handler, and exceptions it does not list |
| `Process`, `PutOutcome`, `ProcessCrashes` | `_run_pipeline_worker` and the `process` of `plugin.py` |
| `ProducerFinally`, `WorkerFinally`, `SignalCompleteIfIdle`, `PutSentinel` | the `finally` blocks; the put of the sentinel is a step of its own because it awaits |
| `Receive`, `ReceiveSentinel`, `Resume`, `Close`, `ConsumerCancelled`, `Exit` | `_stream_pipeline_results`, `run_bounded_pipeline` |
| `Start`, `DeliverCancel`, `OnTaskError`, `CancelParent`, `CancelExit` | asyncio: first step of a task, cancellation, `TaskGroup` |

`OutcomeStream` has no queue, no tasks and no sentinel: items are taken, resolved to outcomes,
delivered once and in order, and the stream is complete only when nothing is missing.
`StreamSpec` in `Pipeline` instantiates it (`taken <- found`, `over <- discoveryFinished`,
`status <- Status`) and is checked as a property of the runs.

Closing is modelled where the generator is suspended at its `yield`. Closing it while it waits
in `results.get()` is not possible in asyncio: `aclose()` of a running asynchronous generator
raises `RuntimeError`, so the comment at `generic/pipeline.py:208`, which counts that case among
those the `finally` block handles, describes a case that cannot occur.

### Harvest

One `pc` per repository: `ready`, `expect` (get_expected_datasets), `create`, `pull` (the stream
runs), `submit` (the API client is busy), `drain`, `complete`, `failReported` and `failError`
(the client fails the harvest), `close` (`aclose` of the stream), and how the task ended:
`returned`, `raised`, or `dropped` before its scope was open. `submitted`, `recordErrors`,
`pluginErrors` are `ArcStreamState`; `pending` and `itemErrors` belong to the API client;
`scopes`, `closed`, `named`, `harvested`, `failed`, `skipped`, `issues` are the report; `api` is
the state of the harvest at the server, which the harvester may not know: the answer to a
create, complete or fail request may be lost after the server has acted.

| Action | Code |
|---|---|
| `BeginRepository`, `Expected`, `CloseRepository`, `CloseCancelled` | `run_repository` with `_record_repository_failure` |
| `TakeArc`, `TakeSkipped`, `TakeRecordError`, `TakePluginError`, `StreamEnds`, `StreamRaises` | `arc_stream` |
| `CreateHarvest` ... `FailHarvest` | `execute_harvest_upload` around the external API client |
| `RecordUploadOutcomes`, `RecordUploadAborted`, `NameHarvest` | `reporting.py`, `errors.py` (the harvest id found in an exception) |
| `PipelineAborts` | the task group of the generic plugin cancels the uploading task |
| `StartRun`, `Gather`, `GatherInterrupted`, `ExitRun`, `ClientCloseFails` | `run_orchestrator`, `main` |

Payloads, messages and identifiers are left out: the report counts.

### ContextCache

`documents` and `failures` are the two ordered dictionaries, `inflight` the table of fetches,
`fetch` the state of every fetch so far. A caller is a parse that walks down the references of
its payload, `frames` the documents it is inlining. A document is the sequence of references in
it; references in `@context` and in `@import` are treated alike. `Hit`, `Join`, `StartFetch`,
`HitFailure` and `Reject` are the branches of `ensure_document_cached`; `FetchSucceeds` and
`FetchFails` are `_fetch_and_store`; `Wake` is the code behind the shared await with its
`finally`; `Cancel` cancels the waiter, not the shielded fetch. The code does not suspend
between two hits of one parse; the model lets other parses step in between, which allows more
behaviour, never less.

`FetchBudget` states the promise "fetched at most once" together with every excuse: eviction, an
expired failure, and a waiter cancelled while the fetch ran. The last one contradicts the
docstring (see section 7).

### PoliteHttp

A task asks for one URL: robots.txt check (`Ask`, and if needed its own pass through the line
for robots.txt, `RobotsRead` or `RobotsFails`), the host's lock and delay (`Acquire`, `Awake`,
`Admit`: `wait_for_host`), the request (`GetEnds`, `GetTransient`, `GetNoAnswer`) and
`retry_get` (`Backoff`, `Retry`). `line` is the lock of a host with its waiters. There is no
clock: `age` is the time since a host's stamp and `left` what a sleeper has left, both in whole
units, ages counted up to `Horizon`, which is assumed to cover every delay that is compared with
them. `quiet`, `owed`, `read`, `unread` and `knew` are history for the properties.
Jitter is in whole units. Waits in the connection pool and redirects to other hosts are the
transport's and left out.

### CswPaging

`kind` and `style` are the catalogue and the server: which records parse, which fail with or
without an identifier, which are no ISO records, and which paging attributes an answer has
(`nextrecord`, `returned`, `matches`, none, or a `nextrecord` that never moves). They are chosen
at the start and do not change. `phase` is where the thread is, `times[p]` how often the record
in place `p` is in the list, `name[p]` the record under whose identifier its error is reported.
`Connected`, `PageArrives`, `NamesArrive`, `NamesFail`, `TransientFailure`, `PermanentFailure`
and `Rested` follow `csw_client.py` from the connection to the retries. The Dublin Core request
replaces the answer in OWSLib's object, so that its cursor decides where the walk goes on;
`SameCut` says that the server cuts both answers of a page at the same place. `Cancel` leaves
the thread running: it goes on to its end and only the retries of the event loop stop.

A page is never longer than asked for, and an answer that holds a service exception is not
modelled (OWSLib keeps the earlier answer). `get_record_count` and the choice of the query
filter are left out.

### UniqueStream, Discovery

`todo` holds what a protocol still has to yield or to ask for. An answer puts its entries, and
the next request if the protocol sees more to come, in front of it: `CursorAnswer` for the
protocols that page through a listing, `LinkedAnswer` for sitemaps and catalogues that name
further documents. `HasMore`, `NextCursor` and `Before` say how each protocol pages
(`mycore_solr`: offset and numFound; `mycore_rest`: behind the last identifier; `regal_find`:
offset until a short page; `pubplant_json_array`: one answer). `ReadPage`, `SitemapKnown`,
`RequestFails`, `Yield` and `End` are the steps of the generator; `seen` is the memory of
`discover()`. `Removed` and `Added` are the repository, which changes between two requests.
`steady` (listed from beginning to end) and `shifted` (an entry in front of an offset has gone)
are history.

`UniqueStream` knows neither pages nor cursors: an identifier is handed out at most once, a skip
names one handed out before, nothing follows the end. `StreamSpec` in `Discovery` instantiates it
(`status <- phase`).

### Processing, BatchPlugins, Sources

`Verdicts` are the ways parser, payload kind and mapper may answer; `OaiOutcomes` and
`InspireOutcomes` what the plugins make of them. `BatchPlugins` has two processes: the listing
thread (`RobotsAllow`, `LimiterPasses`, `ListRecords`, `ReadItem`, `SetEnds`, `ListingFails`) and
`run()` (`ListArrives`, `ProcessUnit`, `Finish`, `Leave`). `Sources` is one repository under the
plugin that `_create_plugin` builds: either a behaviour of `Discovery` or one of `BatchPlugins`,
the variables of the other standing still.

### ReviewRounds, FollowUps, Automation

`ReviewRounds`: which summary findings are answered is stored nowhere; `Answered` derives it from
the reviews and comments the query returns, as `answered_suppressed_review_ids` does, including
the windows of the query and time stamps of a second. `Gate`, `Fetch`, `Resolve`,
`ReplyToReview`, `RoundEnds` are the agent's commands, `CallFails` their failure;
`FinderReviews`, `PersonReviews`, `Chat`, `UserWorks` are others.

`FollowUps`: runs (`Collect`, `Find`, `ListLabels`, `MakeLabel`, `Create`) that may overlap, each
call separate because each is a call of `gh`; `GhFails` before or after the call has an effect;
`People` add trailers, close issues and remove labels.

The two commands share no state, so `Automation` runs the one or the other.

### StableGraph, Contacts, Records, Tables, Comments, Configuration, Heartbeat, Algorithms

- `StableSort`: `SortedBy` and `Selected` are `sorted` and a comprehension with a condition, said by
  the positions of a list: the k-th of the result is the one that k - 1 come before, and elements
  whose keys do not differ stay as they came. Nothing is recursive, so that one can prove about it.
- `StableGraph`: a graph is read twice, each time in an order of its own; `answers` is what the
  accessors of `ResourceView` said. Texts are numbers with two spellings each, blank nodes the
  chain of labels below them.
- `Contacts`: the persons of a record, field by field, become `contacts`; `Matching` and `Merged`
  are `add_contact`, `ListGivenless` the entries that cannot be a person.
- `Records`: `Identifier` is the precedence of each mapper, `Read` one harvest unit; `arcs`
  remembers every ARC handed over, so that two nights can be compared.
- `Tables`: a list with two fields an entry becomes two columns (`Columns`); `StudyTables` and
  `AssayTables` are the tables a record gets, chained by their inputs and outputs.
- `Comments`: what each mapper appends, then `Serialise` with `MergeDuplicates` and
  `DropDateModified`.
- `Configuration`: `LiftOmittedMapper`, `Validate`, `CreatePlugin`, `ProcessUnit` take an entry
  from the file to its first record.
- `Heartbeat`: `Touch`, `TouchRefused`, time and a loop that is late; `Healthy` is the probe.

They share no state. `Algorithms` is their disjoint union: each behaviour is one of one part, and
one run checks them all.

## 4. Runs

Passing runs:

| Run | Instance | States | What it shows |
|---|---|---|---|
| `pipeline_nominal` | 2 workers, 6 items, one of them reported by discovery itself | 633,089 | permits, look-ahead bound, silence after shutdown, the stream ends |
| `pipeline_faulty` | 2 workers, 3 items of up to 2 outcomes, uncaught exceptions in two workers and in discovery | 165,901 | a complete stream is complete; refinement of `OutcomeStream` |
| `harvest_run` | 2 repositories, one pipelined with up to 3 outcomes and 2 submissions in flight, one of unknown type, interrupts | 34,973 | one entry each, no silent failure, the books balance, only whole streams complete, closed entries stay closed, the run exits |
| `context_mixed` | 2 parses, 4 contexts with a cycle, a JSON null and a shared document, cache of 2, failures that expire | 25,792 | fetch budget, joinable fetches, complete results, parses end |
| `polite_requests` | 2 tasks with 2 retries each on one host with a Crawl-delay above the interval, one of them disallowed; advice of 0, below and above the cap, and a date | 68,184 | spacing, Crawl-delay, robots.txt, Retry-After, every request ends, under cancellation |
| `csw_pages` | every catalogue of 4 records, 8 styles of server, pages of 1 or 2, max_records 0, 1, 2, start at 1 or 2, one retry | 1,108,128 | no record twice, none lost, errors get their own names, the walk ends |
| `sources` | six protocols: every listing of up to 3 entries with blanks and duplicates and 2 changes of it, servers with short pages and ones that ignore the cursor, every sitemap tree and catalogue of 3 documents; OAI-PMH and Inspire: up to 2 sets of 2 items | 590,284 | nothing listed is lost, every unit is answered, the listing ends; refinement of `UniqueStream` |
| `automation` | 3 reviews, 1 thread, windows of 2, 1 upset, 2 seconds; 2 runs, 2 ids, 1 failing call, 1 edit | 280,126 | no review closed unseen, all triaged, issues reused, ids followed up |
| `algorithms` | graphs of up to 2 objects under 2 predicates, 3 persons, 6 datasets in 3 readings, lists of 2, 3 comments, configurations of up to 5 keys, a late heartbeat | 214,112 | one property for each of the seven parts |

Why these bounds suffice. *Pipeline*: two workers are the least that can overlap with each
other, with discovery and with the caller; a full queue, exhausted permits and a producer that
waits for one with an item in its hand need five items, so six exceed the look-ahead bound.
*Harvest*: the actions of one repository touch no other's entry, so two are enough to see one
fail, get stuck or be interrupted while the other works; three outcomes allow an ARC answered,
one in flight or rejected and an error in the same upload. *ContextCache*: two parses can race
as waiters, cancelled waiters and owners; a cache of two among four contexts evicts in the
middle of a nesting; `MaxFetches = 4` lets each of the excuses be used, and all of them together,
and is the reason for the escape clause in `ParsesEnd`. *PoliteHttp*: two tasks make a holder and
a waiter; what holds of longer lines is proved for every number of tasks (section 6); time beyond
the longest delay is one state. *CswPaging*: four records in pages of one or two give a first, a
middle and a last page border, and a page on which good and bad records and errors with and
without identifier meet. *Discovery*: pages of two among three entries have a border that an
insertion or a deletion can shift; three documents are enough for a loop that does not contain
the entry point. *ReviewRounds*: windows of two with three reviews and more comments lose entries
on either side; two seconds are enough to have two posts in one and two in different ones.
*FollowUps*: two runs can be in every pair of places; the third attempt, after a failure, is the
first run again. *Records*: the keys have a pair that sanitising makes equal, a title without a
slug, pages with one and with two datasets, and datasets that differ in one field. *Tables* and
*Comments*: a shift needs an incomplete entry in front of a complete one; a duplicate in the
middle needs three comments. *Configuration*: four keys are enough for an accepted entry with a
protocol, five for every way of having one too many.

Runs that refute a documented claim:

| Run | Claim | What the code does |
|---|---|---|
| `pipeline_sentinel` | `NoBlockedSentinel` (`generic/pipeline.py:93-94`) | the shutdown flag is tested before the await on the queue; a task already on its way to put the sentinel blocks on the full queue, and the task group waits for it |
| `harvest_abort` | `AbortCounted` (harvest-report spec, 54-55) | an uncaught exception in a worker cancels the uploading task; the submitted ARCs are never counted |
| `review_mentioned` | `OpenUntilNamed` (`src/scripts/ai/README.md:91-93`) | any comment that contains a review's anchor closes it, triage reply or not |

`StreamEnds` is checked without uncaught exceptions: with them it fails, for the reason
`pipeline_sentinel` shows.

`CHECK_DEADLOCK FALSE` appears where the system stops: a parse, a stream, a listing or a record
that has ended has no further step, and neither has a review when nobody does anything more. For
the pipeline, `StreamEnds` is the stronger statement.

## 5. Fairness

Weak fairness of each task's steps (`ProducerStep`, `WorkerStep`, `ConsumerStep`,
`RepositoryStep`, `CallerStep`, `Step`, `Progress`): the event loop runs every ready task, and
every await that is modelled as one step (an HTTP request, an API call) has a timeout, so it
ends one way or the other. `CallerStep` in `Pipeline` means that the caller of the stream pulls
again or closes it, which the upload does. `FetchStep` is the shielded fetch with the timeout of
its client; `Tick` is time. In `Harvest` the main task and each repository are fair. No fairness
is assumed of cancellation, interrupts, aborts or of a particular outcome of a request. In
`PoliteHttp`, `Tick` may come while a task is ready: the delay of the loop is time too.

`SourcesStep` is fair because the upload pulls, requests have timeouts and scythe counts its
retries; the server's changes, and leaving early, are not. Fairness of the agent's steps
(`AgentStep`) and of each run (`RunStep`) says that the commands are run again and again, as
`scripts/ai` and the scheduled workflow have it; failing calls, reviewers and people are free.
`Algorithms` has no fairness: its properties are invariants.

## 6. Proofs

All theorems are proved for every value of the constants that satisfies the named assumptions of
the modules; those assumptions are also evaluated in every run. Two bear more than types:
`ContextCache` has finitely many URLs (what is within reach of a payload is computed in as many
rounds), and in `Discovery` an entry without an identifier is not also the address of a document.
Every invariant named here was checked by TLC on the run of its module before it was proved.

- **Pipeline** (at least one worker; any number of items and outcomes). `CoreInv` = types plus
  `PermitsConserved` is inductive by itself: each `finally` block returns the permit its task
  holds, and a worker dropped before its first step keeps both permit and count, so they still
  balance (`TypeCorrect`, `PermitsCorrect`). Completeness needs more. `SentinelInv`: completion is
  signalled only when discovery has finished and no worker is counted, at most one task ever holds
  the sentinel, and it is last in the queue. `DeliveryInv`: every outcome counted as sent is in the
  queue or delivered, and as long as nothing went wrong, a task that ended sent everything. Without
  the first, an outcome might be queued behind the sentinel; without the second, an empty queue
  would say nothing. Together (`PipelineCorrect`) they give `CompleteMeansDelivered`
  (`DeliveryCorrect`).

  `LeavingInv` says that once the consumer has left, or the group aborts, every task that still
  works has a `CancelledError` waiting for it. So, whatever crashes, nothing is taken, made or
  delivered any more, and at most the sentinel is queued (`OnlySentinelAfterShutdown`). That not
  even the sentinel is (`QuietCorrect`), and that discovery never runs more than
  2 × `worker_tasks` + 1 items ahead (`BackpressureCorrect`), is proved under the hypothesis
  `NoFaults`, which is the configuration of the run that checks them: neither discovery nor
  `process()` raises anything but what its caller catches. Both fail without it, and the model
  shows how: a task past its test of the shutdown flag still queues the sentinel if it was a crash
  that aborted the group, and a crashed worker gives its permit back before the group has
  reacted, so that discovery takes one item more. `CalmInv` is what `NoFaults` adds to the
  invariant.

  `PipelineImplementsStream` shows that each step is one of `OutcomeStream` or none, crashes,
  cancellations and closes included. Apart from the invariants above it needs `OrderInv`, that an
  outcome is queued once and behind its predecessors from the same task.
- **Harvest** (finitely many repositories). `HarvestInv` has four parts per repository: `Books`
  (before the upload ends `failed` counts the record errors only; after it, everything submitted
  is harvested or failed), `Verdict` (what `pc` implies for the API harvest), `ScopeLife` (a scope
  is open exactly while its task works) and `Traces` (whoever did not complete has left an issue or
  a failure). A step of one repository leaves the others' parts alone (`Frame`, `StepOf`), so the
  proof is one repository at a time. `AccountedCorrect`, `CompletedCorrect`,
  `NeverSilentCorrect`, `OneEntryCorrect` and `FrozenCorrect` follow.
- **ContextCache**. `FetchBudget` is not inductive: a fetch that has just been started must have
  had its excuse. `BudgetInv` keeps one excuse in hand while nobody could find the document: a URL
  is `Settled` when it is cached, its failure is remembered or its registered fetch runs, and only
  then the first fetch counts against it (`FetchBudgetCorrect`). `JoinableCorrect` rests on
  `JoinInv`: unless a cancelled waiter dropped one, no fetch runs but the registered one, although
  `Wake` clears the table on behalf of whichever fetch it waited for. `DoneCorrect` is about
  nesting of any depth. `Complete` is the largest set of accepted, fetched documents that contains
  whatever they refer to; `FramesInv` says that in every document a parse is inside of each
  reference is still to come, or `Complete`, or the document entered next, so that leaving a
  document makes it `Complete` even if the references go in a circle.
- **PoliteHttp** (delays are numbers, `Horizon` covers them). `SpacingInv`: what a sleeper has left
  and the age of its host make up the delay, and only the head of a line sleeps. The sum is what
  does not change when time passes; the lock is what keeps the age from being reset meanwhile. The
  lemmas on lines (join, leave from any place, head) carry the cancellations.
  `AdmissionsSpacedCorrect` and `CrawlDelayKeptCorrect` are action properties proved from it.
  `RobotsInv`: a disallowed URL is past its check only where the cache held "allow all", and only
  a failed fetch of robots.txt ever writes that (`ForbiddenCorrect`). `OwedInv`: the sleep before a
  retry covers what the server asked for, and whoever does not wait for a retry owes nothing
  (`RetryAfterCorrect`).
- **CswPaging**. `PagingInv`: nothing from the position of the walk on is in the list.
  `NextPosition` shows that the next position lies behind the page for every style of server; a
  retry starts with an empty list. `OnceCorrect` follows for catalogues, pages and limits of every
  size. `WalkInv` is the converse: of what the walk has behind it everything is in the list, as
  many good records as it has counted, and the limit is not reached. The step that takes a page
  counts its records by their places (lemmas on `Rank`), and from the counts follows where the
  limit cuts the page (`WholeCorrect`). `NamedRightCorrect` compares the place of an anonymous
  error on the page with its place among the entries that Dublin Core names.
- **Discovery and BatchPlugins** (identifiers are positive numbers, the page size is at least one,
  listings and documents are well-formed). For the refinement the invariant says that `handed`
  counts exactly the identifiers in `seen` and that whatever is still to be yielded is an
  identifier of the repository or blank; the work is in showing that an answer of any server, for
  any cursor, is again of that form. Then each step is one of `UniqueStream` or none
  (`SourcesStreamCorrect`). `ListingInv` carries `WholeListing`: for the protocols that page, all
  identifiers that stay listed and lie before a cursor in use are announced, handed out or to be
  yielded, whatever was inserted or deleted, and without a cursor left all of them are; for those
  that follow links, the visited documents and those still to be visited contain the entry and
  whatever visited ones link to, so that at the end they contain all that can be reached
  (`WholeListingCorrect`). `BatchInv` says that the units are those of the sets done and of the
  part of the set at hand, with one answer to each that `run()` is through with (`BatchCorrect`).
- **Contacts, Records, Configuration, Heartbeat**. `OnePersonOnce` is inductive with the types. The
  case that makes it hold is a person who has a name in common with a contact, where one of the two
  has an ORCID: it takes the ORCID over, and nobody else has it, or it would have matched that one
  first. `RolesKept` needs that merging never changes a name and never replaces an ORCID
  (`ContactsCorrect`, `PersonsDistinct`). `RecordsInv` ties every ARC to the identifier its mapper
  makes of a record that could be mapped; `IdsCorrect` is then a comparison of mappers, pair by
  pair. `ConfigurationInv` keeps a validated entry as it was accepted and shows that what was built
  is what it says (`AcceptedBuildsCorrect`). `HeartbeatInv`: every refused touch has cost an
  interval and a delay at most, and the interval that is running is not over (`HealthyCorrect`).
- **StableGraph**. `SortedAlike` in `Lemmas`: two lists of the same distinct elements, sorted by a
  key, are alike place by place but for elements of one key. Were the k-th of one less than the
  k-th of the other, the k elements up to it would be less than that one too, and there are k - 1
  places before it. What remains is about the keys: that each is a weak order, which for blank
  nodes and labels is a comparison of lists by their first difference (`SmallerSplits`), and that
  what a key does not tell apart is shown alike (`AlikeShown`). `GraphInv` says that a reading
  answers what some order of the graph's objects gives. `FieldsOrderFree` follows without further
  hypotheses: titles, texts, resources and labels come out the same. `OrderFreeCorrect` adds the
  members of lists and the DOIs, and with them the whole of `OrderFree`, under two hypotheses that
  the instance of the run satisfies and the code does need: `ToldApart` (blank nodes that agree in
  the three levels `_node_sort_key` looks at agree below) and `SingleDois` (no `PropertyValue` has
  two DOIs). Section 7 says what happens otherwise.
- **Tables**. `TablesInv`: what was mapped is what `Columns`, `StudyTables` and `AssayTables` make of
  the record as it is. `AscentsAgree`: if all entries up to one are complete, then it has the same
  place in both columns, whatever is missing behind it. The tables chain because each is one of a
  few and follows one of a few (`PartsChain`) (`TablesCorrect`).
- **Comments**. `CommentsInv`: the crate is `MergeDuplicates` and `DropDateModified` of what was
  appended. Merging keeps one comment a name, at the place of the first, with each value of that
  name once (`MergedIs`, `ValueOnce`), and dropping takes only the one name (`DroppedIs`)
  (`CommentsCorrect`).
- **ReviewRounds and FollowUps**. `AnswersShown`: whoever answers names a review that a fetch has
  reported, since the review an agent works on is one, and what is reported stays so. All that is
  answered is then shown or mentioned, whatever the windows of the query return and in whatever
  order the replies are taken (`NoneLostCorrect`, whose lemmas unroll the two recursions of
  `Answered`). `NoneSeen`: of the issues there were when a run looked, none carries the label of
  its id now; issues are closed and lose labels, and the model has nobody reopen one or put a
  label back by hand (`ReusedCorrect`).

Most proofs speak of one step and of data without recursion. Where a definition is recursive
(`UnitsOf`, `Gathered`, `Below`, `AfterPosts`, `AfterSeconds`), the induction is over a set of
numbers: `SetInduction` in `Lemmas` follows from the well-foundedness of finite sets, and
`Recursion` gives the function that solves the equations. No module under proof declares a
RECURSIVE operator.

Only model-checked: the liveness properties (`StreamEnds`, `RunExits`, `ParsesEnd`, `RequestsEnd`,
`Ends`, `SourceEnds`, `AllTriaged`, `Followed`) and everything that depends on ENABLED, which are
beyond the prover.

## 7. Where code and documents differ

The three runs above refute documented claims. Met while modelling, and described by the actions
of the modules:

- A worker cancelled before its first step never enters its `try` block, so its permit and its
  place in `active_workers` are not given back, contrary to the comment at
  `generic/pipeline.py:110-112`. It happens only when the pipeline is stopping.
- After a repository-level plugin error, ARCs the API has rejected are counted as harvested
  (`harvester/upload.py:167`), while the harvest-report spec (138, 69) counts accepted ones
  only.
- A stream with a repository-level error and no ARCs fails the harvest
  (`harvester/upload.py:64`); the async-concurrency spec (139-140) expects an empty, completed
  one.
- Two tasks may both fetch robots.txt, and the second answer replaces the first one's rules
  (`contracts/nice_http_client.py:315`), although the html-jsonld-dataset design (59) has it
  cached per host for the lifetime of a harvest run.
- A Retry-After shorter than the local backoff is not used
  (`contracts/nice_http_client.py:410`); the nice-http-client design (28-29) says that the
  header takes precedence.
- A retry does not pass `wait_for_host` again (`contracts/nice_http_client.py:412`), so that
  requests to one host may come closer together than `max_requests_per_second`, "Maximum number of
  requests per second sent to the same host" (75-76), allows. `AdmissionsSpaced` speaks of the
  requests that do pass it.
- When all repositories fail, the exit code is 0 if any of them had created an API harvest: it
  looks for harvest ids, which failed harvests have too (`AllRepositoriesFailed` in `Harvest`);
  the async-concurrency spec (150-151) expects a non-zero exit.
- A cancelled waiter takes a fetch that still runs off the table
  (`parsing/jsonld_context_loader.py:264`), so that the next caller fetches again; the docstring
  (243-244) promises one fetch.
- A page without ISO records ends the walk (`inspire/csw_client.py:427`) although more may
  follow, and without `nextrecord` and `returned` the walk advances by the number of ISO records
  (604-620), not by that of all records as the comment at 431-432 has it. An error that follows,
  on one page, an error with an identifier of its own may be reported under that one's
  identifier (663). `Whole`, `Once` and `NamedRight` exempt exactly these cases.
- `mycore_rest` and `regal_find` take a page shorter than the one they asked for as the last
  (`mycore_rest.py:102`, `regal_find.py:83`): a server that caps its pages below that ends the
  discovery early, and one that ignores the cursor is asked for ever. A record deleted in front of
  an offset hides another. `WholeListing` and `SourceEnds` exempt these (`Trustworthy`, `honest`).
- A record of which the generic plugin's mapper makes no ARC leaves no trace; the two other plugins
  report an error.
- A `PropertyValue` with two values that are DOIs gives the one that the graph yields first
  (`stable_graph.py:548`), and blank nodes that agree in three levels keep the order the graph
  yields them in (442); the instance of `OrderFree` has neither, and `OrderFreeCorrect` excludes
  both.
- INSPIRE records whose identifier is a URL are named after their titles, so that two with one
  title overwrite each other; identifiers that sanitising makes equal do so as well. `IdsApart`
  counts both as stated. A page that gains a second dataset re-mints the identifier of the first;
  `IdsLast` speaks of records that stay alone in their unit.
- Lists of ISO records whose entries lack a field are shifted against each other behind that entry
  (`iso_parser.py:413`), and so are the Regal, CKAN and funding columns; `Paired` speaks of the
  entries before it.
- The INSPIRE and PhenoRoam mappers append persons without looking for the same one.
- Protocol and parser are not compared by the configuration: an entry whose parser cannot read what
  its protocol hands over is accepted, and every record of it is an error. A Regal entry without a
  base URL that can be derived is accepted and fails when its plugin is made, even if its mapper
  has a base of its own (`generic/plugin.py:99`).

## 8. Not modelled

- How documents are parsed (HTML, JSON-LD, RDF/XML, XML, ISO 19139) and what single values become
  (publications, dates, licenses, placeholders, ontology terms, bounds of coverage): copies of one
  value, without a state or a choice that depends on another. That parsers and mappers may refuse
  is in `Processing`.
- Two repositories with one rdi: report entries are looked up by it (`orchestrator.py:149`), and the
  failure of the second would be taken for recorded. `Harvest` gives each repository a name of its
  own. The limits of single configuration values, the spelling of URLs (`HttpUrl` writes a base with
  capitals or a default port anew, so that it differs from the plugin's), and the settings of the
  API client are left out.
- The generic plugin's inner generator is not closed by `run()` when the harvest leaves it early;
  the event loop's finalizer does so later. `Harvest` closes the stream in one step and `Pipeline`
  allows the close at any time; that the finalizer runs at all is asyncio's promise.
- Which client the shared fetch of a context runs on: when the repository that came first closes
  its client, the failure is remembered for the others. It is one outcome of `FetchFails`.
- In `scripts/ai`: which pull request a search finds, texts, arguments, and the scripts that run
  once.
- Tests, the demo environment, packaging and deployment, logging, tracing, formatting of messages
  and URLs.
