---------------------------- MODULE BatchPlugins ----------------------------
(***************************************************************************)
(* The plugins that list a repository in a thread before they process the  *)
(* first record: OAI-PMH (oai_pmh/plugin.py, harvest.py, client.py) and    *)
(* Inspire (inspire/plugin.py; its paging is CswPaging).                   *)
(* The thread asks for one set after the other; the answers are read       *)
(* lazily, so that a set may fail after some of its records.               *)
(***************************************************************************)
EXTENDS Processing, Integers

CONSTANTS Batches,      \* possible repositories: sequences of sets of records, as sequences
          Interval      \* 1 / max_requests_per_second, in units of time

ListItems == {"record", "deleted", "broken", "response"}

ASSUME BatchAssumption == /\ Interval \in Nat /\ MaxArcs \in Nat
                          /\ \A b \in Batches : b # <<>> /\ b \in Seq(Seq(ListItems))

VARIABLES plugin,       \* "oai_pmh" or "inspire"
          batch,        \* the sets that the plugin lists
          thread,       \* where the listing thread is: "robots", "wait", "call", "read", "over", "raised"
          scope, place, \* the set it lists and how many of its items it has read
          since,        \* time since the limiter's last request (Interval: long ago or never)
          units,        \* what it has listed
          run,          \* where run() is: "listing", "processing", "done", "failed", "raised", "closed"
          answers       \* what run() has yielded, for one unit after the other

bvars == <<plugin, batch, thread, scope, place, since, units, run, answers>>
threadVars == <<plugin, batch, run, answers>>

BatchInit ==
  /\ plugin \in {"oai_pmh", "inspire"}
  /\ batch \in Batches
  /\ plugin = "inspire" => Len(batch) = 1 /\ \A n \in DOMAIN batch[1] : batch[1][n] \in {"record", "broken"}
  /\ thread = IF plugin = "oai_pmh" THEN "robots" ELSE "read"
  /\ scope = 1 /\ place = 0 /\ since = Interval
  /\ units = <<>> /\ run = "listing" /\ answers = <<>>

\* check_robots_allowed: an unreadable robots.txt allows.
RobotsAllow ==
  /\ thread = "robots" /\ thread' = "wait"
  /\ UNCHANGED <<threadVars, scope, place, since, units>>

\* Disallowed, an invalid endpoint, an error no handler expects, a request that fails for good.
ListingFails ==
  /\ thread \in {"robots", "call", "read"} /\ thread' = "raised"
  /\ UNCHANGED <<threadVars, scope, place, since, units>>

\* RateLimiter.wait: ListRecords for the next set is put off until the interval is over.
LimiterPasses ==
  /\ thread = "wait" /\ since >= Interval
  /\ thread' = "call" /\ since' = 0
  /\ UNCHANGED <<threadVars, scope, place, units>>

ListRecords ==
  /\ thread = "call" /\ thread' = "read"
  /\ UNCHANGED <<threadVars, scope, place, since, units>>

\* iter_discovery_units: an item of the answer. Responses between pages carry no record, a
\* record set aside by the server is skipped, one without metadata is an error of its own.
ReadItem ==
  /\ thread = "read" /\ place < Len(batch[scope])
  /\ LET item == batch[scope][place + 1]
     IN  units' = IF item = "response" THEN units ELSE Append(units, item)
  /\ place' = place + 1
  /\ UNCHANGED <<threadVars, thread, scope, since>>

\* The set is read: on to the next, or the listing is over.
SetEnds ==
  /\ thread = "read" /\ place = Len(batch[scope])
  /\ IF scope < Len(batch) THEN /\ thread' = "wait" /\ scope' = scope + 1 /\ place' = 0
                           ELSE /\ thread' = "over" /\ UNCHANGED <<scope, place>>
  /\ UNCHANGED <<threadVars, since, units>>

TimePasses ==
  /\ since < Interval /\ thread \notin {"over", "raised"} /\ since' = since + 1
  /\ UNCHANGED <<threadVars, thread, scope, place, units>>

-----------------------------------------------------------------------------
\* run(): the thread's list arrives as a whole, or its exception becomes the only outcome.
ListArrives ==
  /\ run = "listing" /\ thread \in {"over", "raised"}
  /\ run' = IF thread = "over" THEN "processing" ELSE "failed"
  /\ UNCHANGED <<plugin, batch, thread, scope, place, since, units, answers>>

OutcomesOf(unit, v) ==
  CASE unit = "deleted" -> <<"skipped">>
    [] unit = "broken"  -> OneError
    [] unit = "record"  -> IF plugin = "oai_pmh" THEN OaiOutcomes(v) ELSE InspireOutcomes(v)

\* _process_unit, or the body of Inspire's loop, and the outcomes it yields.
ProcessUnit ==
  /\ run = "processing" /\ Len(answers) < Len(units)
  /\ \E v \in Verdicts :
       LET outcomes == OutcomesOf(units[Len(answers) + 1], v)
       IN  /\ answers' = IF outcomes = Raised THEN answers ELSE Append(answers, outcomes)
           /\ run' = IF outcomes = Raised THEN "raised" ELSE run
  /\ UNCHANGED <<plugin, batch, thread, scope, place, since, units>>

Finish ==
  /\ run = "processing" /\ Len(answers) = Len(units)
  /\ run' = "done"
  /\ UNCHANGED <<plugin, batch, thread, scope, place, since, units, answers>>

\* The upload leaves early: run() ends, the thread goes on to the end of its listing.
Leave ==
  /\ run \in {"listing", "processing"} /\ run' = "closed"
  /\ UNCHANGED <<plugin, batch, thread, scope, place, since, units, answers>>

BatchStep == \/ RobotsAllow \/ ListingFails \/ LimiterPasses \/ ListRecords \/ ReadItem \/ SetEnds
             \/ TimePasses \/ ListArrives \/ ProcessUnit \/ Finish

-----------------------------------------------------------------------------
\* What the repository lists, in order: the units among the first items of a set, and those
\* of the first sets.
UnitsOf(set) ==
  LET U[n \in 0 .. Len(set)] == IF n = 0 THEN <<>>
                                ELSE IF set[n] = "response" THEN U[n - 1] ELSE Append(U[n - 1], set[n])
  IN  U
Gathered ==
  LET G[n \in 0 .. Len(batch)] == IF n = 0 THEN <<>> ELSE G[n - 1] \o UnitsOf(batch[n])[Len(batch[n])]
  IN  G
Listed == Gathered[Len(batch)]

BatchInv ==
  /\ batch \in Batches /\ scope \in 1 .. Len(batch) /\ place \in 0 .. Len(batch[scope])
  /\ units = Gathered[scope - 1] \o UnitsOf(batch[scope])[place]
  /\ thread \in {"robots", "wait", "call"} => place = 0
  /\ thread = "over" => scope = Len(batch) /\ place = Len(batch[scope])
  /\ run \in {"processing", "done"} => thread = "over"
  /\ run \in {"listing", "failed"} => answers = <<>>
  /\ run = "done" => Len(answers) = Len(units)
  /\ answers \in Seq(Seq({"arc", "error", "skipped"}) \ {<<>>}) /\ Len(answers) <= Len(units)
  /\ \A n \in DOMAIN answers : units[n] = "deleted" => answers[n] = <<"skipped">>

(* A batch plugin yields nothing before its listing is whole; if the listing fails, the error
   is all there is, whatever was listed already.  Otherwise every unit of every set, also one
   that several sets share, is answered in order, and none is left without an outcome
   (oai_pmh/plugin.py 143-162, harvest.py 70-99, inspire/plugin.py 64-113). *)
BatchAnswered ==
  /\ run \in {"listing", "failed"} => answers = <<>>
  /\ \A n \in DOMAIN answers :
       /\ answers[n] # <<>>
       /\ units[n] = "deleted" => answers[n] = <<"skipped">>
  /\ run = "done" => units = Listed /\ Len(answers) = Len(Listed)
=============================================================================
