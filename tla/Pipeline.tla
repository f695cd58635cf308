------------------------------ MODULE Pipeline ------------------------------
(***************************************************************************)
(* The bounded producer / worker / consumer pipeline of the generic        *)
(* harvester plugin: run_bounded_pipeline in                               *)
(* middleware/generic/src/middleware/generic/pipeline.py.                  *)
(*                                                                         *)
(* One discovery producer takes items from a discovery stream, spawns at   *)
(* most WorkerTasks worker tasks, and every task puts outcomes in a queue  *)
(* of WorkerTasks slots.  The consumer is an asynchronous generator: it    *)
(* hands the queued outcomes to its caller until it meets the completion   *)
(* sentinel.  Producer and workers live in an asyncio.TaskGroup whose      *)
(* parent is the task that runs the consumer.                              *)
(*                                                                         *)
(* asyncio runs a task without interruption between two awaits that        *)
(* suspend; every action below is at most one such stretch.  A cancelled   *)
(* task receives CancelledError at its next step, whatever it waited for.  *)
(***************************************************************************)
EXTENDS Integers, Sequences, FiniteSets

CONSTANTS
  WorkerTasks,      \* worker_tasks: permits, and slots of the results queue
  MaxItems,         \* bound: items the discovery stream may yield
  MaxOutcomes,      \* bound: outcomes one item may map to
  SignalItems,      \* items discovery may itself report as failed or skipped
  FaultyItems,      \* items whose process() may raise what no handler catches
  FaultyDiscovery   \* whether discovery may raise what no handler catches

ASSUME PipelineAssumption ==
  /\ WorkerTasks \in Nat \ {0}
  /\ MaxItems \in Nat
  /\ MaxOutcomes \in Nat \ {0}
  /\ SignalItems \subseteq 1..MaxItems
  /\ FaultyItems \subseteq 1..MaxItems
  /\ FaultyDiscovery \in BOOLEAN

Producer == 0
Items == 1..MaxItems
Tasks == {Producer} \cup Items         \* the worker of item i is task i

Unknown == -1                          \* process() has not returned yet

\* An outcome is <<source, number>>; source 0 is a failure of discovery itself.
Outcomes == Tasks \X (1..MaxOutcomes)
Sentinel == <<-1, 0>>                  \* _PIPELINE_COMPLETE

PC == {"none", "new", "discover", "putSignal", "acquire", "putError",
       "process", "put", "putSentinel", "crashed", "dropped", "ended"}

VARIABLES
  pc,                 \* where each pipeline task is
  found,              \* items taken from the discovery stream
  made,               \* outcomes each source maps to, or Unknown
  sent,               \* outcomes of each source put in the queue
  queue,              \* results
  permits,            \* value of the semaphore
  activeWorkers,      \* run.active_workers
  discoveryFinished,  \* run.discovery_finished
  completeSignaled,   \* run.complete_signaled
  shutdown,           \* run.shutdown
  cancelled,          \* tasks with a CancelledError to deliver
  raising,            \* tasks in their finally block with an exception in flight
  aborting,           \* the task group has cancelled its tasks
  errors,             \* the task group holds an exception of a task
  consumer,           \* "get", "yield" (with the caller), "exit", "done"
  leftBy,             \* why the consumer left its loop
  parentCancelled,    \* the consumer's task has a CancelledError to deliver
  delivered           \* outcomes handed to the caller

taskVars == <<pc, found, made, sent>>
runVars == <<permits, activeWorkers, discoveryFinished, completeSignaled>>
groupVars == <<cancelled, raising, aborting, errors>>
consumerVars == <<consumer, leftBy, parentCancelled, delivered>>
vars == <<taskVars, queue, runVars, shutdown, groupVars, consumerVars>>

-----------------------------------------------------------------------------
(* The task group and the queue *)

Done(t) == pc[t] \in {"none", "dropped", "ended"}

\* Tasks a cancel() reaches: those created and not finished.
Running == {t \in Tasks : ~Done(t) /\ pc[t] # "crashed"}

QueueFull == Len(queue) = WorkerTasks

Init ==
  /\ pc = [t \in Tasks |-> IF t = Producer THEN "new" ELSE "none"]
  /\ found = 0
  /\ made = [t \in Tasks |-> Unknown]
  /\ sent = [t \in Tasks |-> 0]
  /\ queue = <<>>
  /\ permits = WorkerTasks
  /\ activeWorkers = 0
  /\ discoveryFinished = FALSE
  /\ completeSignaled = FALSE
  /\ shutdown = FALSE
  /\ cancelled = {}
  /\ raising = {}
  /\ aborting = FALSE
  /\ errors = FALSE
  /\ consumer = "get"
  /\ leftBy = "none"
  /\ parentCancelled = FALSE
  /\ delivered = {}

-----------------------------------------------------------------------------
(* The finally blocks.  Each ends with _signal_complete_if_idle, run by     *)
(* task t: finished and active are the flag and the counter it reads.       *)

\* Mutant: the sentinel is queued although discovery is still running.
SignalCompleteIfIdle_Discovering(t, finished, active, raises) ==
  LET idle == active = 0 /\ ~completeSignaled
      wait == idle /\ ~shutdown
  IN /\ completeSignaled' = (completeSignaled \/ idle)
     /\ pc' = [pc EXCEPT ![t] = IF wait THEN "putSentinel"
                                ELSE IF raises THEN "crashed" ELSE "ended"]
     /\ raising' = IF wait /\ raises THEN raising \cup {t} ELSE raising

SignalCompleteIfIdle(t, finished, active, raises) ==
  LET idle == finished /\ active = 0 /\ ~completeSignaled
      wait == idle /\ ~shutdown
  IN /\ completeSignaled' = (completeSignaled \/ idle)
     /\ pc' = [pc EXCEPT ![t] = IF wait THEN "putSentinel"
                                ELSE IF raises THEN "crashed" ELSE "ended"]
     /\ raising' = IF wait /\ raises THEN raising \cup {t} ELSE raising

ProducerFinally(raises) ==
  /\ discoveryFinished' = TRUE
  /\ SignalCompleteIfIdle(Producer, TRUE, activeWorkers, raises)
  /\ UNCHANGED <<permits, activeWorkers>>

\* Mutant: the permit is not released.
WorkerFinally_KeepsPermit(w, raises) ==
  /\ activeWorkers' = activeWorkers - 1
  /\ SignalCompleteIfIdle(w, discoveryFinished, activeWorkers - 1, raises)
  /\ UNCHANGED <<permits, discoveryFinished>>

\* Mutant: only the producer signals completion.
WorkerFinally_NoSignal(w, raises) ==
  /\ activeWorkers' = activeWorkers - 1
  /\ permits' = permits + 1
  /\ pc' = [pc EXCEPT ![w] = IF raises THEN "crashed" ELSE "ended"]
  /\ UNCHANGED <<discoveryFinished, completeSignaled, raising>>

WorkerFinally(w, raises) ==
  /\ activeWorkers' = activeWorkers - 1
  /\ permits' = permits + 1
  /\ SignalCompleteIfIdle(w, discoveryFinished, activeWorkers - 1, raises)
  /\ UNCHANGED discoveryFinished

GoTo(t, label) ==
  /\ pc' = [pc EXCEPT ![t] = label]
  /\ UNCHANGED <<runVars, raising>>

\* Mutant: an unbounded queue.
Put_Unbounded(outcome) == queue' = Append(queue, outcome)

Put(outcome) ==
  /\ ~QueueFull
  /\ queue' = Append(queue, outcome)

PutNext(i) ==
  /\ Put(<<i, sent[i] + 1>>)
  /\ sent' = [sent EXCEPT ![i] = @ + 1]

-----------------------------------------------------------------------------
(* The discovery producer *)

At(t, label) == pc[t] = label /\ t \notin cancelled

Start(t) ==
  /\ At(t, "new")
  /\ GoTo(t, IF t = Producer THEN "discover" ELSE "process")
  /\ UNCHANGED <<found, made, sent, queue, shutdown, cancelled, aborting,
                 errors, consumerVars>>

\* Discovery yields an item: a ready outcome (a record failure or a skipped
\* record), which is queued as it is, or work for a worker.
Discover(isSignal) ==
  /\ At(Producer, "discover")
  /\ found < MaxItems
  /\ isSignal => found + 1 \in SignalItems
  /\ found' = found + 1
  /\ IF shutdown
       THEN ProducerFinally(FALSE) /\ UNCHANGED made
       ELSE /\ GoTo(Producer, IF isSignal THEN "putSignal" ELSE "acquire")
            /\ made' = IF isSignal THEN [made EXCEPT ![found + 1] = 1] ELSE made
  /\ UNCHANGED <<sent, queue, shutdown, cancelled, aborting, errors,
                 consumerVars>>

PutSignal ==
  /\ At(Producer, "putSignal")
  /\ PutNext(found)
  /\ GoTo(Producer, "discover")
  /\ UNCHANGED <<found, made, shutdown, cancelled, aborting, errors,
                 consumerVars>>

\* semaphore.acquire(), the recheck of shutdown, the counter and create_task:
\* nothing suspends between them.
SpawnWorker ==
  /\ At(Producer, "acquire")
  /\ permits > 0
  /\ IF shutdown
       THEN ProducerFinally(FALSE)
       ELSE /\ permits' = permits - 1
            /\ activeWorkers' = activeWorkers + 1
            /\ pc' = [pc EXCEPT ![Producer] = "discover", ![found] = "new"]
            /\ UNCHANGED <<discoveryFinished, completeSignaled, raising>>
  /\ UNCHANGED <<found, made, sent, queue, shutdown, cancelled, aborting,
                 errors, consumerVars>>

DiscoveryEnds ==
  /\ At(Producer, "discover")
  /\ ProducerFinally(FALSE)
  /\ UNCHANGED <<found, made, sent, queue, shutdown, cancelled, aborting,
                 errors, consumerVars>>

\* Discovery raises one of _DISCOVERY_EXCEPTIONS: the error is an outcome.
DiscoveryFails ==
  /\ At(Producer, "discover")
  /\ IF shutdown
       THEN ProducerFinally(FALSE) /\ UNCHANGED made
       ELSE /\ GoTo(Producer, "putError")
            /\ made' = [made EXCEPT ![Producer] = 1]
  /\ UNCHANGED <<found, sent, queue, shutdown, cancelled, aborting, errors,
                 consumerVars>>

PutDiscoveryError ==
  /\ At(Producer, "putError")
  /\ PutNext(Producer)
  /\ ProducerFinally(FALSE)
  /\ UNCHANGED <<found, made, shutdown, cancelled, aborting, errors,
                 consumerVars>>

\* Discovery raises an exception outside _DISCOVERY_EXCEPTIONS.
DiscoveryCrashes ==
  /\ FaultyDiscovery
  /\ At(Producer, "discover")
  /\ ProducerFinally(TRUE)
  /\ UNCHANGED <<found, made, sent, queue, shutdown, cancelled, aborting,
                 errors, consumerVars>>

-----------------------------------------------------------------------------
(* The workers *)

\* process() returns n outcomes; with none left to put, the worker finishes.
Process(w, n) ==
  /\ At(w, "process")
  /\ made' = [made EXCEPT ![w] = n]
  /\ IF n = 0 THEN WorkerFinally(w, FALSE) ELSE GoTo(w, "put")
  /\ UNCHANGED <<found, sent, queue, shutdown, cancelled, aborting, errors,
                 consumerVars>>

PutOutcome(w) ==
  /\ At(w, "put")
  /\ PutNext(w)
  /\ IF sent[w] + 1 = made[w] THEN WorkerFinally(w, FALSE) ELSE GoTo(w, "put")
  /\ UNCHANGED <<found, made, shutdown, cancelled, aborting, errors,
                 consumerVars>>

ProcessCrashes(w) ==
  /\ w \in FaultyItems
  /\ At(w, "process")
  /\ WorkerFinally(w, TRUE)
  /\ UNCHANGED <<found, made, sent, queue, shutdown, cancelled, aborting,
                 errors, consumerVars>>

-----------------------------------------------------------------------------
(* Producer or worker *)

PutSentinel(t) ==
  /\ At(t, "putSentinel")
  /\ Put(Sentinel)
  /\ pc' = [pc EXCEPT ![t] = IF t \in raising THEN "crashed" ELSE "ended"]
  /\ raising' = raising \ {t}
  /\ UNCHANGED <<found, made, sent, runVars, shutdown, cancelled, aborting,
                 errors, consumerVars>>

\* CancelledError reaches a task.  A task that never ran has no finally block
\* to run; one that waits to put the sentinel is past its finally block, and
\* the CancelledError replaces the exception it had in flight.
DeliverCancel(t) ==
  /\ t \in cancelled
  /\ cancelled' = cancelled \ {t}
  /\ \/ /\ pc[t] = "new"
        /\ GoTo(t, "dropped")
     \/ /\ pc[t] = "putSentinel"
        /\ pc' = [pc EXCEPT ![t] = "ended"]
        /\ raising' = raising \ {t}
        /\ UNCHANGED runVars
     \/ /\ pc[t] \in {"discover", "putSignal", "acquire", "putError"}
        /\ ProducerFinally(FALSE)
     \/ /\ pc[t] \in {"process", "put"}
        /\ WorkerFinally(t, FALSE)
  /\ UNCHANGED <<found, made, sent, queue, shutdown, aborting, errors,
                 consumerVars>>

\* Mutant: the exception of a task is dropped.
OnTaskError_Swallowed(t) ==
  /\ pc[t] = "crashed"
  /\ pc' = [pc EXCEPT ![t] = "ended"]
  /\ UNCHANGED <<found, made, sent, queue, runVars, shutdown, groupVars,
                 consumerVars>>

\* The done callback of a task that ended with an exception: the task group
\* keeps the exception and, the first time, cancels its tasks and its parent.
OnTaskError(t) ==
  /\ pc[t] = "crashed"
  /\ pc' = [pc EXCEPT ![t] = "ended"]
  /\ errors' = TRUE
  /\ aborting' = TRUE
  /\ IF aborting
       THEN UNCHANGED <<cancelled, parentCancelled>>
       ELSE /\ cancelled' = Running
            /\ parentCancelled' = (consumer \in {"get", "yield"})
  /\ UNCHANGED <<found, made, sent, queue, runVars, shutdown, raising,
                 consumer, leftBy, delivered>>

TaskStep(t) ==
  \/ Start(t)
  \/ PutSentinel(t)
  \/ DeliverCancel(t)
  \/ OnTaskError(t)

ProducerStep ==
  \/ TaskStep(Producer)
  \/ \E isSignal \in BOOLEAN : Discover(isSignal)
  \/ PutSignal
  \/ SpawnWorker
  \/ DiscoveryEnds
  \/ DiscoveryFails
  \/ PutDiscoveryError
  \/ DiscoveryCrashes

WorkerStep(w) ==
  \/ TaskStep(w)
  \/ \E n \in 0..MaxOutcomes : Process(w, n)
  \/ PutOutcome(w)
  \/ ProcessCrashes(w)

-----------------------------------------------------------------------------
(* The consumer and its caller *)

Receive ==
  /\ consumer = "get" /\ ~parentCancelled
  /\ queue # <<>> /\ Head(queue) # Sentinel
  /\ queue' = Tail(queue)
  /\ delivered' = delivered \cup {Head(queue)}
  /\ consumer' = "yield"
  /\ UNCHANGED <<taskVars, runVars, shutdown, groupVars, leftBy,
                 parentCancelled>>

Leave(reason) ==
  /\ consumer' = "exit"
  /\ leftBy' = reason
  /\ shutdown' = TRUE

ReceiveSentinel ==
  /\ consumer = "get" /\ ~parentCancelled
  /\ queue # <<>> /\ Head(queue) = Sentinel
  /\ queue' = Tail(queue)
  /\ Leave("complete")
  /\ UNCHANGED <<taskVars, runVars, groupVars, parentCancelled, delivered>>

\* The caller asks for the next outcome.
Resume ==
  /\ consumer = "yield" /\ ~parentCancelled
  /\ consumer' = "get"
  /\ UNCHANGED <<taskVars, queue, runVars, shutdown, groupVars, leftBy,
                 parentCancelled, delivered>>

\* Mutant: the consumer leaves without cancelling its tasks.
Close_NoCancel ==
  /\ consumer = "yield"
  /\ Leave("closed")
  /\ parentCancelled' = FALSE
  /\ UNCHANGED <<taskVars, queue, runVars, groupVars, delivered>>

\* aclose(): GeneratorExit at the yield.  A caller that was cancelled while it
\* held an outcome closes the generator too.
Close ==
  /\ consumer = "yield"
  /\ Leave("closed")
  /\ cancelled' = cancelled \cup Running
  /\ parentCancelled' = FALSE
  /\ UNCHANGED <<taskVars, queue, runVars, raising, aborting, errors,
                 delivered>>

\* CancelledError in results.get(): the task group aborts as the body raised.
ConsumerCancelled ==
  /\ consumer = "get" /\ parentCancelled
  /\ Leave("cancelled")
  /\ aborting' = TRUE
  /\ cancelled' = IF aborting THEN cancelled ELSE cancelled \cup Running
  /\ parentCancelled' = FALSE
  /\ UNCHANGED <<taskVars, queue, runVars, raising, errors, delivered>>

\* TaskGroup.__aexit__ returns once every task has ended.
Exit ==
  /\ consumer = "exit"
  /\ \A t \in Tasks : Done(t)
  /\ consumer' = "done"
  /\ UNCHANGED <<taskVars, queue, runVars, shutdown, groupVars, leftBy,
                 parentCancelled, delivered>>

\* Someone cancels the consumer's task, e.g. the orchestrator is interrupted.
CancelParent ==
  /\ ~parentCancelled
  /\ consumer \in {"get", "yield"}
  /\ parentCancelled' = TRUE
  /\ UNCHANGED <<taskVars, queue, runVars, shutdown, groupVars, consumer,
                 leftBy, delivered>>

\* The same while __aexit__ waits: it aborts the group once and goes on waiting.
CancelExit ==
  /\ consumer = "exit" /\ ~aborting
  /\ aborting' = TRUE
  /\ cancelled' = cancelled \cup Running
  /\ leftBy' = "cancelled"
  /\ UNCHANGED <<taskVars, queue, runVars, shutdown, raising, errors,
                 consumer, parentCancelled, delivered>>

ConsumerStep == Receive \/ ReceiveSentinel \/ ConsumerCancelled \/ Exit

CallerStep == Resume \/ Close

Terminated == consumer = "done" /\ UNCHANGED vars

Next ==
  \/ ProducerStep
  \/ \E w \in Items : WorkerStep(w)
  \/ ConsumerStep
  \/ CallerStep
  \/ CancelParent
  \/ CancelExit
  \/ Terminated

\* The event loop runs every task that is ready; the caller of the generator
\* asks for the next outcome or closes it (run_repository does, in a finally).
Fairness ==
  /\ WF_vars(ProducerStep)
  /\ \A w \in Items : WF_vars(WorkerStep(w))
  /\ WF_vars(ConsumerStep)
  /\ WF_vars(CallerStep)

Spec == Init /\ [][Next]_vars

FairSpec == Spec /\ Fairness

-----------------------------------------------------------------------------
(* Properties *)

\* How the stream ended for the caller: an exception of a task wins.
Status == IF consumer # "done" THEN "open" ELSE IF errors THEN "failed" ELSE leftBy

TaskTypes ==
  /\ pc \in [Tasks -> PC]
  /\ found \in 0..MaxItems
  /\ made \in [Tasks -> {Unknown} \cup 0..MaxOutcomes]
  /\ sent \in [Tasks -> 0..MaxOutcomes]

QueueType == queue \in Seq(Outcomes \cup {Sentinel}) /\ Len(queue) <= WorkerTasks

RunTypes ==
  /\ permits \in 0..WorkerTasks
  /\ activeWorkers \in 0..WorkerTasks
  /\ discoveryFinished \in BOOLEAN
  /\ completeSignaled \in BOOLEAN
  /\ shutdown \in BOOLEAN

GroupTypes ==
  /\ cancelled \subseteq Tasks
  /\ raising \subseteq Tasks
  /\ aborting \in BOOLEAN
  /\ errors \in BOOLEAN

ConsumerTypes ==
  /\ consumer \in {"get", "yield", "exit", "done"}
  /\ leftBy \in {"none", "complete", "closed", "cancelled"}
  /\ parentCancelled \in BOOLEAN
  /\ delivered \subseteq Outcomes

\* The types of the pipeline's state; the queue never holds more than
\* worker_tasks results, and the permits and the worker counter stay in range.
TypeOK == TaskTypes /\ QueueType /\ RunTypes /\ GroupTypes /\ ConsumerTypes

\* Workers that have a permit: the running ones, and those cancelled before
\* their first step, whose finally block never returned it.
Holding == {w \in Items : pc[w] \in {"new", "process", "put", "dropped"}}

\* Permits and the worker counter agree with each other and with the workers
\* that really exist, through every cancellation, crash and close: no permit
\* is lost or returned twice (_run_pipeline_worker's finally).
PermitsConserved ==
  /\ permits + activeWorkers = WorkerTasks
  /\ activeWorkers = Cardinality(Holding)

\* Items discovery has yielded whose outcomes the caller has not all received.
InFlight ==
  {i \in 1..found : \/ made[i] = Unknown
                    \/ \E k \in 1..made[i] : <<i, k>> \notin delivered}

\* Backpressure: however slow the caller, discovery runs at most 2 *
\* worker_tasks items ahead of it, plus the one the producer holds.
Backpressure == Cardinality(InFlight) <= 2 * WorkerTasks + 1

\* A stream that ends normally has handed over every outcome of every item.
CompleteMeansDelivered ==
  Status = "complete" =>
    /\ discoveryFinished
    /\ \A i \in 1..found : made[i] # Unknown
    /\ \A s \in Tasks : \A k \in 1..made[s] : <<s, k>> \in delivered

\* Once the consumer has left, no task queues anything, no item is taken up,
\* and permits only come back.
QuietAfterShutdown ==
  [][shutdown => /\ queue' = queue
                 /\ found' = found
                 /\ permits' >= permits]_vars

\* The stream ends, whatever the order of tasks, cancellations and closes:
\* no full queue, missing permit or missing sentinel blocks it for ever.
StreamEnds == <>(consumer = "done")

\* pipeline.py:93-94: once the consumer has left, a cancelled worker is not
\* blocked on a full queue waiting to enqueue the sentinel.
NoBlockedSentinel ==
  consumer = "exit" =>
    ~ \E t \in Tasks : At(t, "putSentinel") /\ QueueFull

-----------------------------------------------------------------------------
(* The inductive invariant behind CompleteMeansDelivered *)

Queued(o) == \E j \in 1..Len(queue) : queue[j] = o

\* No exception has reached the task group and no one has closed or cancelled.
Clean == ~errors /\ leftBy \in {"none", "complete"}

Settled(t) == made[t] # Unknown /\ sent[t] = made[t]

Pending(i) == pc[Producer] \in {"putSignal", "acquire"} /\ i = found

TaskInv ==
  /\ pc[Producer] \notin {"none", "process", "put"}
  /\ \A w \in Items :
       /\ pc[w] \notin {"discover", "putSignal", "acquire", "putError"}
       /\ w > found => pc[w] = "none" /\ made[w] = Unknown
       /\ pc[w] \in {"new", "process", "dropped"} => made[w] = Unknown
       /\ pc[w] = "put" => sent[w] < made[w]
  /\ \A t \in Tasks : IF made[t] = Unknown THEN sent[t] = 0 ELSE sent[t] <= made[t]
  /\ pc[Producer] \in {"putSignal", "acquire"} => found \in Items /\ pc[found] = "none"
  /\ pc[Producer] = "putSignal" => made[found] = 1 /\ sent[found] = 0
  /\ pc[Producer] = "acquire" => made[found] = Unknown
  /\ pc[Producer] \in {"new", "discover", "putSignal", "acquire", "dropped"}
       => made[Producer] = Unknown
  /\ pc[Producer] = "putError" => made[Producer] = 1 /\ sent[Producer] = 0

SentinelInv ==
  /\ discoveryFinished <=> pc[Producer] \in {"putSentinel", "crashed", "ended"}
  /\ completeSignaled => discoveryFinished /\ activeWorkers = 0
  /\ \A t \in Tasks : pc[t] = "putSentinel" =>
       /\ completeSignaled /\ ~Queued(Sentinel) /\ leftBy # "complete"
       /\ \A u \in Tasks : pc[u] = "putSentinel" => u = t
  /\ Queued(Sentinel) => completeSignaled /\ leftBy # "complete"
  /\ \A j \in 1..Len(queue) : queue[j] = Sentinel => j = Len(queue)
  /\ leftBy = "complete" => completeSignaled /\ queue = <<>>
  /\ shutdown <=> leftBy # "none"
  /\ consumer \in {"get", "yield"} <=> leftBy = "none"

\* Every outcome counted as sent is in the queue or with the caller.
Covered ==
  \A t \in Tasks : \A k \in 1..sent[t] : Queued(<<t, k>>) \/ <<t, k>> \in delivered

\* As long as nothing went wrong, a task that has ended left nothing unsent.
CleanInv ==
  /\ cancelled = {}
  /\ \A w \in Items :
       /\ pc[w] # "dropped"
       /\ pc[w] \in {"putSentinel", "ended"} /\ w \notin raising => Settled(w)
  /\ \A i \in 1..found : pc[i] = "none" => Settled(i) \/ Pending(i)
  /\ discoveryFinished => made[Producer] = Unknown \/ Settled(Producer)

DeliveryInv ==
  /\ Covered
  /\ \A t \in raising : pc[t] = "putSentinel"
  /\ consumer = "done" => \A t \in Tasks : Done(t)
  /\ Clean => CleanInv

\* A task that still has its finally block before it.
Alive(t) == pc[t] \in {"new", "discover", "putSignal", "acquire", "putError",
                       "process", "put"}

\* Why no outcome is lost: whatever is in the queue was counted as sent, the
\* sentinel comes last and only after every worker and discovery have settled.
PipelineInv == TaskInv /\ SentinelInv /\ DeliveryInv

-----------------------------------------------------------------------------
(* The invariants behind QuietAfterShutdown, Backpressure and StreamSpec *)

\* Once the consumer has left, or the group aborts, every task that is still
\* working has a CancelledError waiting for it.
LeavingInv ==
  aborting \/ shutdown => \A t \in Tasks : Alive(t) => t \in cancelled

\* Neither discovery nor process() raises anything but what its caller catches.
NoFaults == FaultyItems = {} /\ ~FaultyDiscovery

\* Then only the consumer's exit aborts the group, and it also reaches a task
\* that waits to put the sentinel.
CalmInv ==
  /\ ~errors /\ raising = {}
  /\ \A t \in Tasks : pc[t] # "crashed"
  /\ aborting => shutdown
  /\ shutdown => \A t \in Tasks : pc[t] = "putSentinel" => t \in cancelled

\* An outcome is queued once, counted as sent, and behind its predecessors.
InOrder(j) ==
  LET s == queue[j][1]
      n == queue[j][2]
  IN /\ n <= sent[s]
     /\ queue[j] \notin delivered
     /\ \A i \in 1..(j - 1) : queue[i] # queue[j]
     /\ \A k \in 1..(n - 1) :
          <<s, k>> \in delivered \/ \E i \in 1..(j - 1) : queue[i] = <<s, k>>

OrderInv ==
  /\ \A o \in delivered : o[2] <= sent[o[1]]
  /\ \A j \in 1..Len(queue) : queue[j] # Sentinel => InOrder(j)

-----------------------------------------------------------------------------
\* The pipeline implements the stream of outcomes its callers rely on.
Stream == INSTANCE OutcomeStream WITH
  taken <- found, over <- discoveryFinished, status <- Status

\* Every step of queue, workers and sentinel is a step of the stream or none.
StreamSpec == Stream!Spec

=============================================================================
