------------------------------- MODULE Harvest -------------------------------
(***************************************************************************)
(* One run of the harvester: run_orchestrator gathers one task per         *)
(* configured repository; each task opens a report scope, streams the      *)
(* outcomes of its plugin into one API harvest and accounts for every ARC  *)
(* on the scope; main turns the finished report into an exit code.         *)
(* (harvester/orchestrator.py, upload.py, reporting.py, main.py)           *)
(*                                                                         *)
(* The API client is external.  From how upload.py and its tests use it:   *)
(* harvest_arcs creates a harvest, pulls ARCs from the stream, submits at  *)
(* most MaxConcurrency of them at a time, collects per-item errors, and    *)
(* completes the harvest; if the stream or a submission raises, it fails   *)
(* the harvest and raises.                                                 *)
(***************************************************************************)
EXTENDS Integers, FiniteSets

CONSTANTS
  Repos,            \* configured repositories
  Known,            \* repositories whose plugin type is registered
  Pipelined,        \* repositories whose plugin runs a task group (generic)
  MaxOutcomes,      \* bound: outcomes one plugin stream yields
  MaxConcurrency,   \* submissions the API client keeps in flight
  MayInterrupt      \* whether the process may be interrupted

ASSUME HarvestAssumption ==
  /\ IsFiniteSet(Repos)
  /\ Known \subseteq Repos
  /\ Pipelined \subseteq Known
  /\ MaxOutcomes \in Nat
  /\ MaxConcurrency \in Nat \ {0}
  /\ MayInterrupt \in BOOLEAN

VARIABLES
  pc,            \* where the task of each repository is
  submitted,     \* state.submitted: ARCs handed to the API client
  pending,       \* submissions in flight
  itemErrors,    \* per-item errors the client has collected
  recordErrors,  \* record-level errors the plugin yielded
  pluginErrors,  \* repository-level errors the plugin yielded
  scopes,        \* report entries opened for each repository
  closed,        \* repositories whose scope is closed
  named,         \* repositories whose entry names its harvest (harvest_id)
  harvested,     \* counters of each repository's entry
  failed,
  skipped,
  issues,        \* repository-level issues of each entry
  api,           \* the API harvest of each repository
  cancelled,     \* tasks with a CancelledError to deliver
  cut,           \* tasks whose upload was cut short by a CancelledError
  over,          \* plugin streams that have ended or raised
  main,          \* where main() is
  interrupted,   \* the process was interrupted
  exitCode,
  emitted        \* the report was printed

uploadVars == <<submitted, pending, itemErrors, recordErrors, pluginErrors>>
counters == <<harvested, failed, skipped>>
entryVars == <<scopes, closed, named, counters, issues>>
taskVars == <<cancelled, cut, over>>
mainVars == <<main, interrupted, exitCode, emitted>>
vars == <<pc, uploadVars, entryVars, api, taskVars, mainVars>>

Labels == {"ready", "expect", "create", "pull", "submit", "drain", "complete",
           "failReported", "failError", "close", "closeCancelled",
           "returned", "raised", "dropped"}
Ended == {"returned", "raised", "dropped"}
Uploading == {"create", "pull", "submit", "drain", "complete", "failReported",
              "failError"}

NoExit == -1

Init ==
  /\ pc = [r \in Repos |-> "ready"]
  /\ submitted = [r \in Repos |-> 0]
  /\ pending = [r \in Repos |-> 0]
  /\ itemErrors = [r \in Repos |-> 0]
  /\ recordErrors = [r \in Repos |-> 0]
  /\ pluginErrors = [r \in Repos |-> 0]
  /\ scopes = [r \in Repos |-> 0]
  /\ closed = {}
  /\ named = {}
  /\ harvested = [r \in Repos |-> 0]
  /\ failed = [r \in Repos |-> 0]
  /\ skipped = [r \in Repos |-> 0]
  /\ issues = [r \in Repos |-> 0]
  /\ api = [r \in Repos |-> "none"]
  /\ cancelled = {}
  /\ cut = {}
  /\ over = {}
  /\ main = "start"
  /\ interrupted = FALSE
  /\ exitCode = NoExit
  /\ emitted = FALSE

-----------------------------------------------------------------------------
(* run_repository up to the upload *)

At(r, label) == main = "running" /\ pc[r] = label /\ r \notin cancelled

GoTo(r, label) == pc' = [pc EXCEPT ![r] = label]

\* The task ends with an exception that is recorded as an issue of the
\* repository (_record_repository_failure), and the scope is closed.  These
\* exceptions come from the plugin and carry no harvest id.
RecordFailure(r, label) ==
  /\ issues' = [issues EXCEPT ![r] = @ + 1]
  /\ closed' = closed \cup {r}
  /\ GoTo(r, label)
  /\ UNCHANGED <<named, counters>>

\* open_repository raises: the task ends before its scope is there.
OpenFails(r) ==
  /\ At(r, "ready")
  /\ GoTo(r, "dropped")
  /\ UNCHANGED <<uploadVars, entryVars, api, taskVars, mainVars>>

\* open_repository, the lookup of the plugin type, _create_plugin and run(),
\* which only creates the generator: nothing suspends before the scope is open
\* and the plugin there or the failure recorded.
BeginRepository(r, raises) ==
  /\ At(r, "ready")
  /\ scopes' = [scopes EXCEPT ![r] = 1]
  /\ IF r \notin Known \/ raises
       THEN RecordFailure(r, "returned")
       ELSE GoTo(r, "expect") /\ UNCHANGED <<closed, named, counters, issues>>
  /\ UNCHANGED <<uploadVars, api, taskVars, mainVars>>

\* get_expected_datasets() returns, or raises before the stream has started.
Expected(r, raises) ==
  /\ At(r, "expect")
  /\ IF raises
       THEN RecordFailure(r, "returned")
       ELSE GoTo(r, "create") /\ UNCHANGED <<closed, named, counters, issues>>
  /\ UNCHANGED <<scopes, uploadVars, api, taskVars, mainVars>>

-----------------------------------------------------------------------------
(* execute_harvest_upload: what each end of harvest_arcs records *)

NameHarvest(r, hasId) == named' = IF hasId THEN named \cup {r} ELSE named

\* record_upload_outcomes: max(submitted - len(errors), 0) ARCs were harvested.
RecordUploadOutcomes(r, errors, hasId) ==
  /\ NameHarvest(r, hasId)
  /\ failed' = [failed EXCEPT ![r] = @ + errors]
  /\ harvested' = IF submitted[r] > errors
                    THEN [harvested EXCEPT ![r] = @ + (submitted[r] - errors)]
                    ELSE harvested
  /\ UNCHANGED <<scopes, closed, skipped, issues>>

\* An upload that aborts before it submitted anything leaves no issue.
RecordUploadAborted_NoIssue(r, hasId) ==
  /\ NameHarvest(r, hasId)
  /\ failed' = [failed EXCEPT ![r] = @ + submitted[r]]
  /\ UNCHANGED <<scopes, closed, harvested, skipped, issues>>

\* record_upload_aborted.
RecordUploadAborted(r, hasId) ==
  /\ NameHarvest(r, hasId)
  /\ IF submitted[r] = 0
       THEN issues' = [issues EXCEPT ![r] = @ + 1] /\ UNCHANGED failed
       ELSE failed' = [failed EXCEPT ![r] = @ + submitted[r]] /\ UNCHANGED issues
  /\ UNCHANGED <<scopes, closed, harvested, skipped>>

\* The stream has yielded: what arc_stream does with the outcome.
Yielded(r) == submitted[r] + recordErrors[r] + pluginErrors[r] + skipped[r]

CanYield(r) == At(r, "pull") /\ Yielded(r) < MaxOutcomes

TakeArc(r) ==
  /\ CanYield(r)
  /\ submitted' = [submitted EXCEPT ![r] = @ + 1]
  /\ pending' = [pending EXCEPT ![r] = @ + 1]
  /\ GoTo(r, "submit")
  /\ UNCHANGED <<itemErrors, recordErrors, pluginErrors, entryVars, api, taskVars,
                 mainVars>>

TakeSkipped(r) ==
  /\ CanYield(r)
  /\ skipped' = [skipped EXCEPT ![r] = @ + 1]
  /\ UNCHANGED <<pc, uploadVars, scopes, closed, named, harvested, failed, issues, api,
                 taskVars, mainVars>>

TakeRecordError(r) ==
  /\ CanYield(r)
  /\ recordErrors' = [recordErrors EXCEPT ![r] = @ + 1]
  /\ failed' = [failed EXCEPT ![r] = @ + 1]
  /\ UNCHANGED <<pc, submitted, pending, itemErrors, pluginErrors, scopes, closed,
                 named, harvested, skipped, issues, api, taskVars, mainVars>>

TakePluginError(r) ==
  /\ CanYield(r)
  /\ pluginErrors' = [pluginErrors EXCEPT ![r] = @ + 1]
  /\ issues' = [issues EXCEPT ![r] = @ + 1]
  /\ UNCHANGED <<pc, submitted, pending, itemErrors, recordErrors, scopes, closed,
                 named, counters, api, taskVars, mainVars>>

\* A recorded plugin error is not raised.
StreamEnds_Completes(r) ==
  /\ At(r, "pull")
  /\ GoTo(r, "drain")
  /\ over' = over \cup {r}
  /\ UNCHANGED <<uploadVars, entryVars, api, cancelled, cut, mainVars>>

\* The plugin stream ends; after a repository-level error arc_stream raises
\* ReportedRepositoryError.
StreamEnds(r) ==
  /\ At(r, "pull")
  /\ GoTo(r, IF pluginErrors[r] > 0 THEN "failReported" ELSE "drain")
  /\ over' = over \cup {r}
  /\ UNCHANGED <<uploadVars, entryVars, api, cancelled, cut, mainVars>>

\* The plugin raises; a task group that aborts while the stream is being pulled
\* raises too (its parent is suspended inside the generator).
StreamRaises(r) ==
  /\ At(r, "pull")
  /\ GoTo(r, "failError")
  /\ over' = over \cup {r}
  /\ UNCHANGED <<uploadVars, entryVars, api, cancelled, cut, mainVars>>

\* The generator is suspended at a yield: it has handed out an ARC and nobody
\* has asked for the next one.  Its workers go on running.
Suspended(r) == submitted[r] > 0 /\ pc[r] # "pull" /\ r \notin over

\* A worker of a suspended pipeline ends with an exception no handler catches:
\* the task group cancels its parent, this very task.
PipelineAborts(r) ==
  /\ main = "running" /\ r \in Pipelined /\ r \notin cancelled
  /\ pc[r] \notin Ended /\ Suspended(r)
  /\ cancelled' = cancelled \cup {r}
  /\ over' = over \cup {r}
  /\ UNCHANGED <<pc, uploadVars, entryVars, api, cut, mainVars>>

-----------------------------------------------------------------------------
(* harvest_arcs *)

CreateHarvest(r) ==
  /\ At(r, "create")
  /\ api' = [api EXCEPT ![r] = "RUNNING"]
  /\ GoTo(r, "pull")
  /\ UNCHANGED <<uploadVars, entryVars, taskVars, mainVars>>

\* Creating the harvest fails, or its answer is lost: no id is known.
CreateFails(r, lost) ==
  /\ At(r, "create")
  /\ api' = IF lost THEN [api EXCEPT ![r] = "RUNNING"] ELSE api
  /\ RecordUploadAborted(r, FALSE)
  /\ GoTo(r, "close")
  /\ UNCHANGED <<uploadVars, taskVars, mainVars>>

\* The client asks for the next ARC.
PullNext(r) ==
  /\ At(r, "submit")
  /\ pending[r] < MaxConcurrency
  /\ GoTo(r, "pull")
  /\ UNCHANGED <<uploadVars, entryVars, api, taskVars, mainVars>>

\* One submission is answered; a duplicate or invalid ARC is a per-item error.
Answer(r, ok) ==
  /\ main = "running" /\ pc[r] \in {"pull", "submit", "drain"} /\ pending[r] > 0
  /\ pending' = [pending EXCEPT ![r] = @ - 1]
  /\ itemErrors' = IF ok THEN itemErrors ELSE [itemErrors EXCEPT ![r] = @ + 1]
  /\ UNCHANGED <<pc, submitted, recordErrors, pluginErrors, entryVars, api,
                 taskVars, mainVars>>

\* A submission fails for good: the API is gone or no longer has the harvest.
SubmissionFails(r) ==
  /\ main = "running" /\ pc[r] \in {"submit", "drain"} /\ r \notin cancelled
  /\ pending[r] > 0
  /\ GoTo(r, "failError")
  /\ UNCHANGED <<uploadVars, entryVars, api, taskVars, mainVars>>

Drained(r) ==
  /\ At(r, "drain")
  /\ pending[r] = 0
  /\ GoTo(r, "complete")
  /\ UNCHANGED <<uploadVars, entryVars, api, taskVars, mainVars>>

CompleteHarvest(r) ==
  /\ At(r, "complete")
  /\ api' = [api EXCEPT ![r] = "COMPLETED"]
  /\ RecordUploadOutcomes(r, itemErrors[r], TRUE)
  /\ GoTo(r, "close")
  /\ UNCHANGED <<uploadVars, taskVars, mainVars>>

\* Completing raises; the API may have completed the harvest all the same.
CompleteFails(r, status, hasId) ==
  /\ At(r, "complete")
  /\ api' = [api EXCEPT ![r] = status]
  /\ RecordUploadAborted(r, hasId)
  /\ GoTo(r, "close")
  /\ UNCHANGED <<uploadVars, taskVars, mainVars>>

\* A reported error goes on to record_upload_aborted.
FailHarvest_NoReturn(r, status, hasId) ==
  /\ api' = [api EXCEPT ![r] = status]
  /\ \/ /\ At(r, "failReported")
        /\ harvested' = [harvested EXCEPT ![r] = @ + submitted[r]]
        /\ failed' = [failed EXCEPT ![r] = @ + submitted[r]]
        /\ NameHarvest(r, hasId)
        /\ UNCHANGED <<scopes, closed, skipped, issues>>
     \/ At(r, "failError") /\ RecordUploadAborted(r, hasId)
  /\ GoTo(r, "close")
  /\ UNCHANGED <<uploadVars, taskVars, mainVars>>

\* The client has failed the harvest, or tried to, and raises again.
FailHarvest(r, status, hasId) ==
  /\ api' = [api EXCEPT ![r] = status]
  /\ \/ At(r, "failReported") /\ RecordUploadOutcomes(r, 0, hasId)
     \/ At(r, "failError") /\ RecordUploadAborted(r, hasId)
  /\ GoTo(r, "close")
  /\ UNCHANGED <<uploadVars, taskVars, mainVars>>

-----------------------------------------------------------------------------
(* The end of run_repository *)

\* plugin_gen.aclose(), then scope.close().
CloseRepository(r, raises) ==
  /\ At(r, "close")
  /\ IF raises
       THEN RecordFailure(r, "returned")
       ELSE /\ closed' = closed \cup {r}
            /\ GoTo(r, "returned")
            /\ UNCHANGED <<named, counters, issues>>
  /\ UNCHANGED <<scopes, uploadVars, api, taskVars, mainVars>>

\* The same with a CancelledError in flight, which an exception of aclose()
\* would replace.
CloseCancelled(r, raises) ==
  /\ At(r, "closeCancelled")
  /\ RecordFailure(r, IF raises THEN "returned" ELSE "raised")
  /\ UNCHANGED <<scopes, uploadVars, api, taskVars, mainVars>>

\* CancelledError reaches the task.  execute_harvest_upload catches Exception
\* only, so nothing is recorded for the ARCs already submitted.  What the client
\* does with the harvest is its own affair; a completion may be under way.
DeliverCancel(r, status) ==
  /\ main = "running" /\ r \in cancelled
  /\ cancelled' = cancelled \ {r}
  /\ \/ /\ pc[r] = "ready"
        /\ GoTo(r, "dropped")
        /\ UNCHANGED <<entryVars, api, cut, over>>
     \/ /\ pc[r] \in {"expect", "close", "closeCancelled"}
        /\ RecordFailure(r, "raised")
        /\ UNCHANGED <<scopes, api, cut, over>>
     \/ /\ pc[r] \in Uploading
        /\ status = "COMPLETED" => pc[r] = "complete"
        /\ api' = [api EXCEPT ![r] = status]
        /\ cut' = cut \cup {r}
        /\ over' = IF pc[r] = "pull" THEN over \cup {r} ELSE over
        /\ GoTo(r, "closeCancelled")
        /\ UNCHANGED entryVars
  /\ UNCHANGED <<uploadVars, mainVars>>

PluginStep(r) ==
  \/ TakeArc(r)
  \/ TakeSkipped(r)
  \/ TakeRecordError(r)
  \/ TakePluginError(r)
  \/ StreamEnds(r)
  \/ StreamRaises(r)

ClientStep(r) ==
  \/ CreateHarvest(r)
  \/ \E lost \in BOOLEAN : CreateFails(r, lost)
  \/ PullNext(r)
  \/ \E ok \in BOOLEAN : Answer(r, ok)
  \/ SubmissionFails(r)
  \/ Drained(r)
  \/ CompleteHarvest(r)
  \/ \E status \in {"RUNNING", "COMPLETED", "FAILED"}, hasId \in BOOLEAN :
       CompleteFails(r, status, hasId)
  \/ \E status \in {"RUNNING", "FAILED"}, hasId \in BOOLEAN :
       FailHarvest(r, status, hasId)

TaskStep(r) ==
  \/ OpenFails(r)
  \/ \E raises \in BOOLEAN : \/ BeginRepository(r, raises)
                             \/ Expected(r, raises)
                             \/ CloseRepository(r, raises)
                             \/ CloseCancelled(r, raises)
  \/ \E status \in {"none", "RUNNING", "COMPLETED", "FAILED"} :
       /\ status = "none" => api[r] = "none"
       /\ DeliverCancel(r, status)

RepositoryStep(r) == PluginStep(r) \/ ClientStep(r) \/ TaskStep(r)

-----------------------------------------------------------------------------
(* run_orchestrator and main *)

\* The configuration cannot be loaded, or the API client cannot be opened.
StartFails ==
  /\ main = "start"
  /\ main' = "exited"
  /\ exitCode' = 1
  /\ UNCHANGED <<pc, uploadVars, entryVars, api, taskVars, interrupted, emitted>>

StartRun ==
  /\ main = "start"
  /\ main' = "running"
  /\ UNCHANGED <<pc, uploadVars, entryVars, api, taskVars, interrupted, exitCode,
                 emitted>>

\* The main task is interrupted: gather cancels every task that has not ended.
Interrupt ==
  /\ MayInterrupt
  /\ main = "running" /\ ~interrupted
  /\ interrupted' = TRUE
  /\ cancelled' = {r \in Repos : pc[r] \notin Ended}
  /\ UNCHANGED <<pc, uploadVars, entryVars, api, cut, over, main, exitCode, emitted>>

AllEnded == \A r \in Repos : pc[r] \in Ended

\* No scope for a task that ended before it had opened one.
Gather_Drops ==
  /\ main = "running" /\ AllEnded /\ ~interrupted
  /\ main' = "finished"
  /\ UNCHANGED <<pc, uploadVars, entryVars, api, taskVars, interrupted, exitCode,
                 emitted>>

\* The failure is recorded again on the scope run_repository has closed.
Gather_RecordsAgain ==
  /\ main = "running" /\ AllEnded /\ ~interrupted
  /\ LET escaped == {r \in Repos : pc[r] # "returned"}
     IN  /\ scopes' = [r \in Repos |-> IF r \in escaped THEN 1 ELSE scopes[r]]
         /\ issues' = [r \in Repos |-> IF r \in escaped THEN issues[r] + 1 ELSE issues[r]]
         /\ closed' = closed \cup escaped
  /\ main' = "finished"
  /\ UNCHANGED <<pc, uploadVars, named, counters, api, taskVars, interrupted,
                 exitCode, emitted>>

\* The run goes on only with tasks that returned normally.
Gather_ReturnedOnly ==
  /\ main = "running" /\ ~interrupted /\ \A r \in Repos : pc[r] = "returned"
  /\ main' = "finished"
  /\ UNCHANGED <<pc, uploadVars, entryVars, api, taskVars, interrupted, exitCode,
                 emitted>>

\* gather returns; _ensure_gather_failure_recorded opens a scope only for a
\* task that ended with an exception before it had one.
Gather ==
  /\ main = "running" /\ AllEnded /\ ~interrupted
  /\ LET escaped == {r \in Repos : pc[r] # "returned" /\ scopes[r] = 0}
     IN  /\ scopes' = [r \in Repos |-> IF r \in escaped THEN scopes[r] + 1 ELSE scopes[r]]
         /\ issues' = [r \in Repos |-> IF r \in escaped THEN issues[r] + 1 ELSE issues[r]]
         /\ closed' = closed \cup escaped
  /\ main' = "finished"
  /\ UNCHANGED <<pc, uploadVars, named, counters, api, taskVars, interrupted,
                 exitCode, emitted>>

\* gather raises CancelledError: there is no report to emit, and the process ends
\* with the status of the interrupt (1 stands for any failure).
GatherInterrupted ==
  /\ main = "running" /\ AllEnded /\ interrupted
  /\ main' = "exited"
  /\ exitCode' = 1
  /\ UNCHANGED <<pc, uploadVars, entryVars, api, taskVars, interrupted, emitted>>

AllRepositoriesFailed == Repos # {} /\ named = {}

ExitRun ==
  /\ main = "finished"
  /\ main' = "exited"
  /\ exitCode' = IF AllRepositoriesFailed THEN 1 ELSE 0
  /\ emitted' = TRUE
  /\ UNCHANGED <<pc, uploadVars, entryVars, api, taskVars, interrupted>>

\* Closing the API client raises: main reports an error and has no report.
ClientCloseFails ==
  /\ main = "finished"
  /\ main' = "exited"
  /\ exitCode' = 1
  /\ UNCHANGED <<pc, uploadVars, entryVars, api, taskVars, interrupted, emitted>>

MainStep == StartFails \/ StartRun \/ Gather \/ GatherInterrupted \/ ExitRun \/ ClientCloseFails

Terminated == main = "exited" /\ UNCHANGED vars

Next ==
  \/ MainStep
  \/ \E r \in Repos : RepositoryStep(r) \/ PipelineAborts(r)
  \/ Interrupt
  \/ Terminated

\* The event loop runs every ready task, and every request is answered or times
\* out; the plugin stream is finite.
Fairness == WF_vars(MainStep) /\ \A r \in Repos : WF_vars(RepositoryStep(r))

Spec == Init /\ [][Next]_vars

FairSpec == Spec /\ Fairness

-----------------------------------------------------------------------------
(* Properties *)

\* The types of the run's state.
TypeOK ==
  /\ pc \in [Repos -> Labels]
  /\ submitted \in [Repos -> Nat]
  /\ pending \in [Repos -> Nat]
  /\ itemErrors \in [Repos -> Nat]
  /\ recordErrors \in [Repos -> Nat]
  /\ pluginErrors \in [Repos -> Nat]
  /\ scopes \in [Repos -> 0..1]
  /\ closed \subseteq Repos
  /\ named \subseteq Repos
  /\ harvested \in [Repos -> Nat]
  /\ failed \in [Repos -> Nat]
  /\ skipped \in [Repos -> Nat]
  /\ issues \in [Repos -> Nat]
  /\ api \in [Repos -> {"none", "RUNNING", "COMPLETED", "FAILED"}]
  /\ cancelled \subseteq Repos
  /\ cut \subseteq Repos
  /\ over \subseteq Repos
  /\ main \in {"start", "running", "finished", "exited"}
  /\ interrupted \in BOOLEAN
  /\ exitCode \in {NoExit, 0, 1}
  /\ emitted \in BOOLEAN

\* Every ARC handed to the API client and every record error ends up in the
\* report exactly once, as harvested or failed, however the upload ended: normal
\* answers, per-item errors, an upload that aborts, a reported plugin error, a
\* lost completion.  Only a cancelled upload is exempt (see AbortCounted).
Accounted ==
  \A r \in Repos : pc[r] \in Ended /\ r \notin cut =>
    harvested[r] + failed[r] = submitted[r] + recordErrors[r]

\* A COMPLETED harvest lets the API retire what it did not see again: so the
\* stream had ended without a repository-level error and every submission had
\* been answered.
CompletedMeansWhole ==
  \A r \in Repos : api[r] = "COMPLETED" =>
    /\ pluginErrors[r] = 0
    /\ pending[r] = 0
    /\ pc[r] \in {"close", "closeCancelled"} \cup Ended

\* A repository whose API harvest did not complete never looks clean: its entry
\* holds an issue or a failed dataset by the time the report is emitted.
NeverSilent ==
  \A r \in Repos : emitted /\ api[r] # "COMPLETED" =>
    issues[r] + failed[r] > 0

\* A finished run has one closed entry per repository, and the emitted report
\* names a harvest only if the API has created it.
OneEntryEach ==
  /\ main = "finished" => \A r \in Repos : scopes[r] = 1 /\ r \in closed
  /\ \A r \in Repos : r \in named => api[r] # "none"

EntryOf(r) == <<scopes[r], {r} \cap named, harvested[r], failed[r], skipped[r], issues[r]>>

Frozen(r) ==
  /\ r \in closed => EntryOf(r)' = EntryOf(r) /\ r \in closed'
  /\ EntryOf(r)' # EntryOf(r) => scopes'[r] = 1

FrozenStep == \A r \in Repos : Frozen(r)

\* Nothing is recorded on a scope once it is closed, nor before it is opened.
FrozenAfterClose == [][FrozenStep]_vars

\* However the repositories fail, the run comes to an exit code.
RunExits == <>(main = "exited")

-----------------------------------------------------------------------------
(* The inductive invariant behind the safety properties *)

\* Nothing is counted before the stream is pulled, every submission in flight or
\* rejected is one of the submitted, and the report follows the record errors
\* until the upload has ended, then balances.
Books(r) ==
  /\ pc[r] \in {"ready", "expect", "create"} =>
       /\ submitted[r] = 0 /\ recordErrors[r] = 0
       /\ pluginErrors[r] = 0 /\ pending[r] = 0
  /\ pending[r] + itemErrors[r] <= submitted[r]
  /\ pc[r] \in {"ready", "expect"} \cup Uploading =>
       harvested[r] = 0 /\ failed[r] = recordErrors[r]
  /\ pc[r] \in {"close"} \cup Ended /\ r \notin cut =>
       harvested[r] + failed[r] = submitted[r] + recordErrors[r]
  /\ pc[r] = "closeCancelled" => r \in cut

\* What the task knows of its API harvest.
Verdict(r) ==
  /\ pc[r] \in {"drain", "complete"} => pluginErrors[r] = 0
  /\ pc[r] = "complete" => pending[r] = 0
  /\ api[r] = "COMPLETED" =>
       /\ pluginErrors[r] = 0 /\ pending[r] = 0
       /\ pc[r] \in {"close", "closeCancelled"} \cup Ended
  /\ pc[r] \in Uploading \ {"create"} => api[r] # "none"
  /\ r \in named => api[r] # "none"

\* The scope is open exactly while its task works, and Gather gives one to the
\* tasks that never had it.
ScopeLife(r) ==
  /\ pc[r] = "ready" \/ (pc[r] = "dropped" /\ main \in {"start", "running"}) => scopes[r] = 0
  /\ pc[r] \notin {"ready", "dropped"} => scopes[r] = 1
  /\ r \in closed <=> scopes[r] = 1 /\ pc[r] \in Ended
  /\ main = "finished" => scopes[r] = 1 /\ pc[r] \in Ended
  /\ emitted => main = "exited"

\* Every harvest that did not complete has left its trace.
Traces(r) ==
  /\ pluginErrors[r] <= issues[r]
  /\ pc[r] = "failReported" => pluginErrors[r] > 0
  /\ (pc[r] \in {"close", "returned", "raised"} \/ main = "finished" \/ emitted)
     /\ api[r] # "COMPLETED" => issues[r] + failed[r] > 0

\* The inductive invariant: it implies Accounted, CompletedMeansWhole,
\* NeverSilent and OneEntryEach.
HarvestInv ==
  /\ TypeOK
  /\ \A r \in Repos : Books(r) /\ Verdict(r) /\ ScopeLife(r) /\ Traces(r)

-----------------------------------------------------------------------------
(* What the repository's documents say and the code does not do *)

\* openspec/specs/harvest-report/spec.md:54-55: "On catastrophic upload abort:
\* call record_failed once per submitted ARC".
AbortCounted ==
  \A r \in Repos : pc[r] \in {"returned", "raised"} =>
    harvested[r] + failed[r] >= submitted[r]

=============================================================================
