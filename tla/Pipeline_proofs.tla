-------------------------- MODULE Pipeline_proofs --------------------------
(***************************************************************************)
(* Proofs about the bounded pipeline, for every number of items, outcomes  *)
(* and workers, with crashes, cancellations and closes.                    *)
(***************************************************************************)
EXTENDS Pipeline, FiniteSetTheorems, TLAPS

\* Where the finally block of a task may leave it.
Ends == {"putSentinel", "crashed", "ended"}

\* What the assumption on the constants gives, in the form the leaves use.
LEMMA Constants ==
  /\ WorkerTasks \in Nat /\ WorkerTasks > 0
  /\ MaxItems \in Nat /\ MaxOutcomes \in Nat /\ MaxOutcomes > 0
  /\ Producer \in Tasks /\ Producer \notin Items
  /\ Items \subseteq Tasks
  /\ \A i \in Items : i \in Nat /\ i >= 1 /\ i <= MaxItems
  /\ Sentinel \notin Outcomes
BY PipelineAssumption
   DEF PipelineAssumption, Producer, Items, Tasks, Sentinel, Outcomes

-----------------------------------------------------------------------------
(* The workers that hold a permit *)

\* The workers that hold a permit can be counted.
LEMMA HoldingFinite == IsFiniteSet(Holding) /\ Cardinality(Holding) \in Nat
<1>1. IsFiniteSet(Items)
  BY FS_Interval, Constants DEF Items
<1>2. Holding \subseteq Items
  BY DEF Holding
<1>3. QED  BY <1>1, <1>2, FS_Subset, FS_CardinalityType

\* A worker that gets a permit adds one to the count.
LEMMA HoldingAdd ==
  ASSUME NEW w, w \notin Holding, Holding' = Holding \cup {w}
  PROVE  Cardinality(Holding') = Cardinality(Holding) + 1
BY HoldingFinite, FS_AddElement

\* A worker that returns its permit takes one from the count, which was not 0.
LEMMA HoldingRemove ==
  ASSUME NEW w, w \in Holding, Holding' = Holding \ {w}
  PROVE  /\ Cardinality(Holding') = Cardinality(Holding) - 1
         /\ Cardinality(Holding) >= 1
<1>1. Cardinality(Holding') = Cardinality(Holding) - 1
  BY HoldingFinite, FS_RemoveElement
<1>2. IsFiniteSet(Holding \ {w}) /\ Cardinality(Holding \ {w}) \in Nat
  BY HoldingFinite, FS_RemoveElement, FS_CardinalityType
<1>3. QED  BY <1>1, <1>2, HoldingFinite

\* A task changes its label, and neither or both labels hold a permit.
LEMMA HoldingSame ==
  ASSUME TaskTypes, NEW t \in Tasks, NEW l,
         pc' = [pc EXCEPT ![t] = l],
         t \in Items => (t \in Holding <=> l \in {"new", "process", "put", "dropped"})
  PROVE  Holding' = Holding
BY DEF TaskTypes, Holding

\* A step that moves neither permits nor holders keeps the account.
LEMMA PermitsUnchanged ==
  ASSUME PermitsConserved, Holding' = Holding, UNCHANGED runVars
  PROVE  PermitsConserved'
BY DEF PermitsConserved, runVars

-----------------------------------------------------------------------------
(* The finally blocks *)

\* Both finally blocks leave the task at the sentinel or at its end.
LEMMA FinallyLabel ==
  ASSUME TaskTypes, RunTypes, GroupTypes,
         NEW t \in Tasks, NEW f, NEW a, NEW r, SignalCompleteIfIdle(t, f, a, r)
  PROVE  /\ \E l \in Ends : pc' = [pc EXCEPT ![t] = l]
         /\ pc' \in [Tasks -> PC]
         /\ completeSignaled' \in BOOLEAN
         /\ raising' \subseteq Tasks
<1>1. \E l \in Ends : pc' = [pc EXCEPT ![t] = l]
  BY DEF SignalCompleteIfIdle, Ends
<1>2. Ends \subseteq PC
  BY DEF Ends, PC
<1>3. pc' \in [Tasks -> PC]
  BY <1>1, <1>2 DEF TaskTypes
<1>4. completeSignaled' \in BOOLEAN
  BY DEF SignalCompleteIfIdle
<1>5. raising' \subseteq Tasks
  BY DEF SignalCompleteIfIdle, GroupTypes
<1>6. QED  BY <1>1, <1>3, <1>4, <1>5

\* The producer's finally block touches no permit.
LEMMA ProducerEnds ==
  ASSUME TypeOK, PermitsConserved, NEW r, ProducerFinally(r),
         shutdown' \in BOOLEAN
  PROVE  /\ \E l \in Ends : pc' = [pc EXCEPT ![Producer] = l]
         /\ pc' \in [Tasks -> PC]
         /\ RunTypes' /\ raising' \subseteq Tasks /\ PermitsConserved'
<1> USE Constants DEF ProducerFinally, TypeOK
<1>1. PICK l \in Ends : pc' = [pc EXCEPT ![Producer] = l]
  BY FinallyLabel
<1>2. Holding' = Holding
  BY <1>1 DEF TaskTypes, Holding
<1>3. PermitsConserved'
  BY <1>2 DEF PermitsConserved
<1>4. discoveryFinished' \in BOOLEAN
  OBVIOUS
<1>5. RunTypes'
  BY <1>4, FinallyLabel DEF RunTypes
<1>6. QED  BY <1>1, <1>3, <1>5, FinallyLabel

\* A worker's finally block returns its permit.
LEMMA WorkerEnds ==
  ASSUME TypeOK, PermitsConserved, NEW w \in Items, w \in Holding,
         NEW r, WorkerFinally(w, r), shutdown' \in BOOLEAN
  PROVE  /\ \E l \in Ends : pc' = [pc EXCEPT ![w] = l]
         /\ pc' \in [Tasks -> PC]
         /\ RunTypes' /\ raising' \subseteq Tasks /\ PermitsConserved'
<1> USE Constants DEF WorkerFinally, TypeOK
<1>1. PICK l \in Ends : pc' = [pc EXCEPT ![w] = l]
  BY FinallyLabel
<1>2. Holding' = Holding \ {w}
  BY <1>1 DEF TaskTypes, Holding, Ends
<1>3. /\ Cardinality(Holding') = Cardinality(Holding) - 1
      /\ Cardinality(Holding) >= 1
  BY <1>2, HoldingRemove
<1>4. permits' \in 0..WorkerTasks /\ activeWorkers' \in 0..WorkerTasks
  BY <1>3, HoldingFinite DEF PermitsConserved, RunTypes
<1>5. PermitsConserved'
  BY <1>3, HoldingFinite DEF PermitsConserved, RunTypes
<1>6. RunTypes'
  BY <1>4, FinallyLabel DEF RunTypes
<1>7. QED  BY <1>1, <1>5, <1>6, FinallyLabel

-----------------------------------------------------------------------------
(* Types, permits and the shape of the tasks are preserved together. *)

CoreInv == TypeOK /\ PermitsConserved /\ TaskInv

\* The empty pipeline satisfies the core invariant.
LEMMA CoreInit == Init => CoreInv
<1> SUFFICES ASSUME Init PROVE CoreInv
  OBVIOUS
<1> USE Constants DEF Init
<1>1. pc \in [Tasks -> PC]
  BY DEF PC
<1>2. TaskTypes
  BY <1>1 DEF TaskTypes
<1>3. QueueType
  BY DEF QueueType
<1>4. RunTypes
  <2>1. permits \in 0..WorkerTasks /\ activeWorkers \in 0..WorkerTasks
    OBVIOUS
  <2>2. QED  BY <2>1, Zenon DEF RunTypes
<1>5. GroupTypes
  BY DEF GroupTypes
<1>6. ConsumerTypes
  BY DEF ConsumerTypes
<1>7. Holding = {}
  BY DEF Holding
<1>8. PermitsConserved
  BY <1>7, FS_EmptySet DEF PermitsConserved
<1>9. TaskInv
  BY DEF TaskInv, Unknown
<1>10. QED
  BY <1>2, <1>3, <1>4, <1>5, <1>6, <1>8, <1>9 DEF CoreInv, TypeOK

\* What a step of the consumer or its caller leaves to show.
LEMMA CoreConsumer ==
  ASSUME CoreInv, UNCHANGED <<taskVars, runVars>>,
         QueueType', shutdown' \in BOOLEAN, GroupTypes', ConsumerTypes'
  PROVE  CoreInv'
<1> USE DEF CoreInv, TypeOK, taskVars, runVars
<1>1. TaskTypes' /\ RunTypes'
  BY DEF TaskTypes, RunTypes
<1>2. PermitsConserved'
  BY PermitsUnchanged DEF Holding
<1>3. TaskInv'
  BY DEF TaskInv
<1>4. QED  BY <1>1, <1>2, <1>3

\* What a step of a task t that moves to label l leaves to show.
LEMMA CoreGoTo ==
  ASSUME CoreInv, NEW t \in Tasks, NEW l \in PC, GoTo(t, l),
         t \in Items => (t \in Holding <=> l \in {"new", "process", "put", "dropped"}),
         UNCHANGED <<shutdown, aborting, errors, consumerVars>>,
         cancelled' \subseteq Tasks,
         found' \in 0..MaxItems,
         made' \in [Tasks -> {Unknown} \cup 0..MaxOutcomes],
         sent' \in [Tasks -> 0..MaxOutcomes],
         QueueType'
  PROVE  TypeOK' /\ PermitsConserved'
<1> USE DEF CoreInv, TypeOK, GoTo
<1>1. TaskTypes'
  BY DEF TaskTypes
<1>2. RunTypes'
  BY DEF RunTypes, runVars
<1>3. GroupTypes'
  BY DEF GroupTypes
<1>4. ConsumerTypes'
  BY DEF ConsumerTypes, consumerVars
<1>5. PermitsConserved'
  BY HoldingSame, PermitsUnchanged
<1>6. QED  BY <1>1, <1>2, <1>3, <1>4, <1>5

\* What a step that runs a finally block leaves to show.
LEMMA CoreEnd ==
  ASSUME CoreInv, pc' \in [Tasks -> PC], RunTypes', raising' \subseteq Tasks,
         UNCHANGED <<aborting, errors, consumerVars>>,
         cancelled' \subseteq Tasks,
         found' \in 0..MaxItems,
         made' \in [Tasks -> {Unknown} \cup 0..MaxOutcomes],
         sent' \in [Tasks -> 0..MaxOutcomes],
         QueueType'
  PROVE  TypeOK'
<1> USE DEF CoreInv, TypeOK
<1>1. TaskTypes'
  BY DEF TaskTypes
<1>2. GroupTypes'
  BY DEF GroupTypes
<1>3. ConsumerTypes'
  BY DEF ConsumerTypes, consumerVars
<1>4. QED  BY <1>1, <1>2, <1>3

\* The queue keeps its type if it does not change,
LEMMA QueueSame ==
  ASSUME QueueType, queue' = queue
  PROVE  QueueType'
BY DEF QueueType

\* if a task puts an outcome or the sentinel,
LEMMA QueuePut ==
  ASSUME QueueType, NEW o \in Outcomes \cup {Sentinel}, Put(o)
  PROVE  QueueType'
BY Constants DEF QueueType, Put, QueueFull

\* and if the consumer takes one.
LEMMA QueueGet ==
  ASSUME QueueType, queue # <<>>, queue' = Tail(queue)
  PROVE  QueueType' /\ Head(queue) \in Outcomes \cup {Sentinel}
BY Constants DEF QueueType

-----------------------------------------------------------------------------
(* Each action preserves CoreInv. *)

\* A task's first step.
LEMMA CoreStart ==
  ASSUME CoreInv, NEW t \in Tasks, Start(t)
  PROVE  CoreInv'
<1> DEFINE l == IF t = Producer THEN "discover" ELSE "process"
<1> USE Constants DEF Start, At, CoreInv, TypeOK
<1>1. l \in PC /\ GoTo(t, l) /\ (l = "discover" <=> t = Producer) /\ l \in {"discover", "process"}
  BY DEF PC
<1> HIDE DEF l
<1>2. TypeOK' /\ PermitsConserved'
  BY <1>1, CoreGoTo, QueueSame DEF TaskTypes, GroupTypes, Holding
<1>3. TaskInv'
  BY <1>1 DEF TaskInv, TaskTypes, GoTo
<1>4. QED  BY <1>2, <1>3

\* Discovery yields an item.
LEMMA CoreDiscover ==
  ASSUME CoreInv, NEW isSignal \in BOOLEAN, Discover(isSignal)
  PROVE  CoreInv'
<1> USE Constants DEF CoreInv, TypeOK
<1>1. found' = found + 1 /\ found + 1 \in Items /\ found' \in 0..MaxItems
  BY DEF Discover, TaskTypes, Items
<1>2. CASE shutdown
  <2>1. ProducerFinally(FALSE) /\ UNCHANGED made
    BY <1>2, Zenon DEF Discover
  <2>2. shutdown' \in BOOLEAN
    BY DEF Discover, RunTypes
  <2>3. PICK l \in Ends : pc' = [pc EXCEPT ![Producer] = l]
    BY <2>1, <2>2, ProducerEnds
  <2>4. TypeOK' /\ PermitsConserved'
    BY <1>1, <2>1, <2>2, ProducerEnds, CoreEnd, QueueSame
       DEF Discover, TaskTypes, GroupTypes
  <2>5. TaskInv'
    BY <1>1, <2>1, <2>3 DEF TaskInv, TaskTypes, Discover, At, Ends
  <2>6. QED  BY <2>4, <2>5
<1>3. CASE ~shutdown
  <2> DEFINE l == IF isSignal THEN "putSignal" ELSE "acquire"
  <2>1. /\ GoTo(Producer, l)
        /\ made' = IF isSignal THEN [made EXCEPT ![found + 1] = 1] ELSE made
    BY <1>3, Zenon DEF Discover
  <2>2. /\ l \in PC /\ l \in {"putSignal", "acquire"}
        /\ (isSignal <=> l = "putSignal")
    BY DEF PC
  <2> HIDE DEF l
  <2>3. TypeOK' /\ PermitsConserved'
    BY <1>1, <2>1, <2>2, CoreGoTo, QueueSame
       DEF Discover, TaskTypes, GroupTypes
  <2>4. TaskInv'
    BY <1>1, <2>1, <2>2 DEF TaskInv, TaskTypes, Discover, At, GoTo, Unknown
  <2>5. QED  BY <2>3, <2>4
<1>4. QED  BY <1>2, <1>3

\* The producer puts an outcome of its own.
LEMMA CorePutSignal ==
  ASSUME CoreInv, PutSignal
  PROVE  CoreInv'
<1> USE Constants DEF CoreInv, TypeOK, PutSignal, At
<1>0. found \in Items /\ made[found] = 1 /\ sent[found] = 0
  BY DEF TaskInv
<1>1. sent[found] + 1 = 1 /\ sent' = [sent EXCEPT ![found] = 1]
  BY <1>0 DEF PutNext
<1>2. Put(<<found, 1>>) /\ <<found, 1>> \in Outcomes
  BY <1>0, <1>1 DEF PutNext, Outcomes
<1>3. "discover" \in PC
  BY DEF PC
<1>4. TypeOK' /\ PermitsConserved'
  BY <1>0, <1>1, <1>2, <1>3, CoreGoTo, QueuePut DEF TaskTypes, GroupTypes
<1>5. TaskInv'
  BY <1>0, <1>1 DEF TaskInv, TaskTypes, GoTo, Unknown
<1>6. QED  BY <1>4, <1>5

\* The producer gets a permit and creates a worker.
LEMMA CoreSpawnWorker ==
  ASSUME CoreInv, SpawnWorker
  PROVE  CoreInv'
<1> USE Constants DEF CoreInv, TypeOK
<1>1. /\ pc[Producer] = "acquire" /\ found \in Items
      /\ pc[found] = "none" /\ made[found] = Unknown
  BY DEF SpawnWorker, At, TaskInv
<1>2. CASE shutdown
  <2>1. ProducerFinally(FALSE)
    BY <1>2, Zenon DEF SpawnWorker
  <2>2. shutdown' \in BOOLEAN
    BY DEF SpawnWorker, RunTypes
  <2>3. PICK l \in Ends : pc' = [pc EXCEPT ![Producer] = l]
    BY <2>1, <2>2, ProducerEnds
  <2>4. TypeOK' /\ PermitsConserved'
    BY <2>1, <2>2, ProducerEnds, CoreEnd, QueueSame
       DEF SpawnWorker, TaskTypes, GroupTypes
  <2>5. TaskInv'
    BY <1>1, <2>3 DEF TaskInv, TaskTypes, SpawnWorker, Ends
  <2>6. QED  BY <2>4, <2>5
<1>3. CASE ~shutdown
  <2>1. /\ permits' = permits - 1 /\ activeWorkers' = activeWorkers + 1
        /\ pc' = [pc EXCEPT ![Producer] = "discover", ![found] = "new"]
        /\ UNCHANGED <<discoveryFinished, completeSignaled, raising>>
    BY <1>3, Zenon DEF SpawnWorker
  <2>2. found \notin Holding /\ Holding' = Holding \cup {found}
    BY <1>1, <2>1 DEF Holding, TaskTypes
  <2>3. Cardinality(Holding') = Cardinality(Holding) + 1
    BY <2>2, HoldingAdd
  <2>4. /\ permits' \in 0..WorkerTasks /\ activeWorkers' \in 0..WorkerTasks
        /\ PermitsConserved'
    BY <2>1, <2>3, HoldingFinite DEF PermitsConserved, RunTypes, SpawnWorker
  <2>5. RunTypes'
    BY <2>1, <2>4 DEF RunTypes, SpawnWorker
  <2>6. pc' \in [Tasks -> PC]
    BY <1>1, <2>1 DEF TaskTypes, PC
  <2>7. TypeOK'
    BY <2>1, <2>5, <2>6, CoreEnd, QueueSame DEF SpawnWorker, TaskTypes, GroupTypes
  <2>8. TaskInv'
    BY <1>1, <2>1 DEF TaskInv, TaskTypes, SpawnWorker
  <2>9. QED  BY <2>4, <2>7, <2>8
<1>4. QED  BY <1>2, <1>3

\* A step that ends in the producer's finally block.
LEMMA CoreProducerEnd ==
  ASSUME CoreInv, NEW r, ProducerFinally(r),
         pc[Producer] \in {"discover", "putSignal", "acquire", "putError"},
         UNCHANGED <<found, shutdown, aborting, errors, consumerVars>>,
         cancelled' \subseteq Tasks, QueueType',
         \/ UNCHANGED <<made, sent>>
         \/ UNCHANGED made /\ made[Producer] = 1 /\ sent' = [sent EXCEPT ![Producer] = 1]
  PROVE  CoreInv'
<1> USE Constants DEF CoreInv, TypeOK
<1>1. shutdown' \in BOOLEAN
  BY DEF RunTypes
<1>2. PICK l \in Ends : pc' = [pc EXCEPT ![Producer] = l]
  BY <1>1, ProducerEnds
<1>3. TypeOK' /\ PermitsConserved'
  BY <1>1, ProducerEnds, CoreEnd DEF TaskTypes
<1>4. TaskInv'
  BY <1>2 DEF TaskInv, TaskTypes, Ends, Unknown
<1>5. QED  BY <1>3, <1>4

\* Discovery is exhausted, or sees the shutdown.
LEMMA CoreDiscoveryEnds ==
  ASSUME CoreInv, DiscoveryEnds \/ DiscoveryCrashes
  PROVE  CoreInv'
<1>1. PICK r : ProducerFinally(r)
  BY DEF DiscoveryEnds, DiscoveryCrashes
<1>2. QED
  BY <1>1, CoreProducerEnd, QueueSame
     DEF DiscoveryEnds, DiscoveryCrashes, At, CoreInv, TypeOK, GroupTypes

\* Discovery raises.
LEMMA CoreDiscoveryFails ==
  ASSUME CoreInv, DiscoveryFails
  PROVE  CoreInv'
<1> USE Constants DEF CoreInv, TypeOK
<1>1. CASE shutdown
  <2>1. ProducerFinally(FALSE) /\ UNCHANGED made
    BY <1>1, Zenon DEF DiscoveryFails
  <2>2. QED
    BY <2>1, CoreProducerEnd, QueueSame DEF DiscoveryFails, At, GroupTypes
<1>2. CASE ~shutdown
  <2>1. GoTo(Producer, "putError") /\ made' = [made EXCEPT ![Producer] = 1]
    BY <1>2, Zenon DEF DiscoveryFails
  <2>2. "putError" \in PC
    BY DEF PC
  <2>3. TypeOK' /\ PermitsConserved'
    BY <2>1, <2>2, CoreGoTo, QueueSame DEF DiscoveryFails, TaskTypes, GroupTypes
  <2>4. TaskInv'
    BY <2>1 DEF TaskInv, TaskTypes, DiscoveryFails, At, GoTo, Unknown
  <2>5. QED  BY <2>3, <2>4
<1>3. QED  BY <1>1, <1>2

\* The producer puts the error of discovery.
LEMMA CorePutDiscoveryError ==
  ASSUME CoreInv, PutDiscoveryError
  PROVE  CoreInv'
<1> USE Constants DEF CoreInv, TypeOK, PutDiscoveryError, At
<1>1. made[Producer] = 1 /\ sent[Producer] = 0
  BY DEF TaskInv
<1>2. sent[Producer] + 1 = 1 /\ sent' = [sent EXCEPT ![Producer] = 1]
  BY <1>1 DEF PutNext
<1>3. Put(<<Producer, 1>>) /\ <<Producer, 1>> \in Outcomes
  BY <1>2 DEF PutNext, Outcomes
<1>4. QueueType'
  BY <1>3, QueuePut
<1>5. QED
  BY <1>1, <1>2, <1>4, CoreProducerEnd DEF GroupTypes

\* A worker processes its item.
LEMMA CoreProcess ==
  ASSUME CoreInv, NEW w \in Items, NEW n \in 0..MaxOutcomes, Process(w, n)
  PROVE  CoreInv'
<1> USE Constants DEF CoreInv, TypeOK
<1>1. /\ pc[w] = "process" /\ made[w] = Unknown /\ sent[w] = 0
      /\ made' = [made EXCEPT ![w] = n]
  BY DEF Process, At, TaskInv
<1>2. w \in Holding /\ w <= found
  BY <1>1 DEF Holding, TaskInv, TaskTypes
<1>3. made' \in [Tasks -> {Unknown} \cup 0..MaxOutcomes]
  BY <1>1 DEF TaskTypes
<1>4. CASE n = 0
  <2>1. WorkerFinally(w, FALSE) /\ shutdown' \in BOOLEAN
    BY <1>4 DEF Process, RunTypes
  <2>2. PICK l \in Ends : pc' = [pc EXCEPT ![w] = l]
    BY <1>2, <2>1, WorkerEnds
  <2>3. TypeOK' /\ PermitsConserved'
    BY <1>2, <1>3, <2>1, WorkerEnds, CoreEnd, QueueSame
       DEF Process, TaskTypes, GroupTypes
  <2>4. TaskInv'
    BY <1>1, <1>2, <1>4, <2>2 DEF TaskInv, TaskTypes, Process, Ends, Unknown
  <2>5. QED  BY <2>3, <2>4
<1>5. CASE n # 0
  <2>1. GoTo(w, "put")
    BY <1>5 DEF Process
  <2>2. "put" \in PC
    BY DEF PC
  <2>3. TypeOK' /\ PermitsConserved'
    BY <1>2, <1>3, <2>1, <2>2, CoreGoTo, QueueSame DEF Process, TaskTypes, GroupTypes
  <2>4. TaskInv'
    BY <1>1, <1>2, <1>5, <2>1 DEF TaskInv, TaskTypes, Process, GoTo, Unknown
  <2>5. QED  BY <2>3, <2>4
<1>6. QED  BY <1>4, <1>5

\* A step that ends in a worker's finally block, after it put its last outcome
\* or none.
LEMMA CoreWorkerEnd ==
  ASSUME CoreInv, NEW w \in Items, NEW r, WorkerFinally(w, r),
         pc[w] \in {"process", "put"},
         UNCHANGED <<found, made, shutdown, aborting, errors, consumerVars>>,
         cancelled' \subseteq Tasks, QueueType',
         sent' \in [Tasks -> 0..MaxOutcomes],
         \/ UNCHANGED sent
         \/ sent' = [sent EXCEPT ![w] = made[w]] /\ made[w] \in Nat
  PROVE  CoreInv'
<1> USE Constants DEF CoreInv, TypeOK
<1>1. shutdown' \in BOOLEAN /\ w \in Holding
  BY DEF RunTypes, Holding
<1>2. PICK l \in Ends : pc' = [pc EXCEPT ![w] = l]
  BY <1>1, WorkerEnds
<1>3. TypeOK' /\ PermitsConserved'
  BY <1>1, WorkerEnds, CoreEnd DEF TaskTypes
<1>4. TaskInv'
  BY <1>2 DEF TaskInv, TaskTypes, Ends, Unknown
<1>5. QED  BY <1>3, <1>4

\* A worker puts an outcome.
LEMMA CorePutOutcome ==
  ASSUME CoreInv, NEW w \in Items, PutOutcome(w)
  PROVE  CoreInv'
<1> USE Constants DEF CoreInv, TypeOK
<1>1. /\ pc[w] = "put" /\ sent[w] < made[w] /\ sent[w] \in Nat
      /\ made[w] \in 0..MaxOutcomes
  BY DEF PutOutcome, At, TaskInv, TaskTypes, Unknown
<1>2. /\ sent' = [sent EXCEPT ![w] = sent[w] + 1]
      /\ sent' \in [Tasks -> 0..MaxOutcomes]
      /\ Put(<<w, sent[w] + 1>>) /\ <<w, sent[w] + 1>> \in Outcomes
  BY <1>1 DEF PutOutcome, PutNext, TaskTypes, Outcomes
<1>3. QueueType'
  BY <1>2, QueuePut
<1>4. CASE sent[w] + 1 = made[w]
  <2>1. WorkerFinally(w, FALSE)
    BY <1>4 DEF PutOutcome
  <2>2. made[w] \in Nat /\ sent' = [sent EXCEPT ![w] = made[w]]
    <3>1. sent' = [sent EXCEPT ![w] = made[w]]
      BY <1>2, <1>4, Zenon
    <3>2. made[w] \in Nat
      BY <1>1
    <3>3. QED  BY <3>1, <3>2
  <2>3. /\ UNCHANGED <<found, made, shutdown, aborting, errors, consumerVars>>
        /\ cancelled' \subseteq Tasks
    BY DEF PutOutcome, GroupTypes
  <2>4. QED
    BY <1>1, <1>2, <1>3, <2>1, <2>2, <2>3, CoreWorkerEnd
<1>5. CASE sent[w] + 1 # made[w]
  <2>1. GoTo(w, "put")
    BY <1>5 DEF PutOutcome
  <2>2. "put" \in PC /\ w \in Holding
    BY <1>1 DEF PC, Holding
  <2>3. TypeOK' /\ PermitsConserved'
    BY <1>2, <1>3, <2>1, <2>2, CoreGoTo DEF PutOutcome, TaskTypes, GroupTypes
  <2>4. TaskInv'
    BY <1>1, <1>2, <1>5, <2>1 DEF TaskInv, TaskTypes, PutOutcome, GoTo, Unknown
  <2>5. QED  BY <2>3, <2>4
<1>6. QED  BY <1>4, <1>5

\* A worker raises what nobody catches.
LEMMA CoreProcessCrashes ==
  ASSUME CoreInv, NEW w \in Items, ProcessCrashes(w)
  PROVE  CoreInv'
BY CoreWorkerEnd, QueueSame
   DEF ProcessCrashes, At, CoreInv, TypeOK, GroupTypes, TaskTypes

\* A task gets its sentinel into the queue.
LEMMA CorePutSentinel ==
  ASSUME CoreInv, NEW t \in Tasks, PutSentinel(t)
  PROVE  CoreInv'
<1> USE Constants DEF CoreInv, TypeOK
<1> DEFINE l == IF t \in raising THEN "crashed" ELSE "ended"
<1>1. pc[t] = "putSentinel" /\ pc' = [pc EXCEPT ![t] = l] /\ l \in {"crashed", "ended"}
  BY DEF PutSentinel, At
<1> HIDE DEF l
<1>2. QueueType'
  BY QueuePut DEF PutSentinel
<1>3. pc' \in [Tasks -> PC] /\ RunTypes'
  BY <1>1 DEF TaskTypes, PC, PutSentinel, RunTypes, runVars
<1>4. TypeOK'
  BY <1>2, <1>3, CoreEnd DEF PutSentinel, TaskTypes, GroupTypes
<1>5. Holding' = Holding
  BY <1>1, HoldingSame DEF Holding
<1>6. PermitsConserved'
  BY <1>5, PermitsUnchanged DEF PutSentinel
<1>7. TaskInv'
  BY <1>1 DEF TaskInv, TaskTypes, PutSentinel
<1>8. QED  BY <1>4, <1>6, <1>7

\* A cancelled task wakes up.
LEMMA CoreDeliverCancel ==
  ASSUME CoreInv, NEW t \in Tasks, DeliverCancel(t)
  PROVE  CoreInv'
<1> USE Constants DEF CoreInv, TypeOK
<1>1. cancelled' \subseteq Tasks /\ QueueType'
  BY QueueSame DEF DeliverCancel, GroupTypes
<1>2. CASE pc[t] = "new" /\ GoTo(t, "dropped")
  <2>1. "dropped" \in PC
    BY DEF PC
  <2>2. TypeOK' /\ PermitsConserved'
    BY <1>1, <1>2, <2>1, CoreGoTo DEF DeliverCancel, TaskTypes, Holding
  <2>3. TaskInv'
    BY <1>2 DEF TaskInv, TaskTypes, DeliverCancel, GoTo
  <2>4. QED  BY <2>2, <2>3
<1>3. CASE /\ pc[t] = "putSentinel" /\ pc' = [pc EXCEPT ![t] = "ended"]
           /\ raising' = raising \ {t} /\ UNCHANGED runVars
  <2>1. pc' \in [Tasks -> PC] /\ RunTypes'
    BY <1>3 DEF TaskTypes, PC, DeliverCancel, RunTypes, runVars
  <2>2. TypeOK'
    BY <1>1, <1>3, <2>1, CoreEnd DEF DeliverCancel, TaskTypes, GroupTypes
  <2>3. Holding' = Holding
    BY <1>3, HoldingSame DEF Holding
  <2>4. PermitsConserved'
    BY <1>3, <2>3, PermitsUnchanged
  <2>5. TaskInv'
    BY <1>3 DEF TaskInv, TaskTypes, DeliverCancel
  <2>6. QED  BY <2>2, <2>4, <2>5
<1>4. CASE /\ pc[t] \in {"discover", "putSignal", "acquire", "putError"}
           /\ ProducerFinally(FALSE)
  <2>1. t = Producer
    BY <1>4 DEF TaskInv, Tasks, Items, Producer
  <2>2. QED
    BY <1>1, <1>4, <2>1, CoreProducerEnd DEF DeliverCancel
<1>5. CASE pc[t] \in {"process", "put"} /\ WorkerFinally(t, FALSE)
  <2>1. t \in Items
    BY <1>5 DEF TaskInv, Tasks, Items, Producer
  <2>2. QED
    BY <1>1, <1>5, <2>1, CoreWorkerEnd DEF DeliverCancel, TaskTypes
<1>6. QED
  BY <1>2, <1>3, <1>4, <1>5 DEF DeliverCancel

\* The task group reacts to a task that raised.
LEMMA CoreOnTaskError ==
  ASSUME CoreInv, NEW t \in Tasks, OnTaskError(t)
  PROVE  CoreInv'
<1> USE Constants DEF CoreInv, TypeOK
<1>1. pc[t] = "crashed" /\ pc' = [pc EXCEPT ![t] = "ended"]
  BY DEF OnTaskError
<1>2. TaskTypes'
  BY <1>1 DEF OnTaskError, TaskTypes, PC
<1>3. QueueType' /\ RunTypes'
  BY QueueSame DEF OnTaskError, RunTypes, runVars
<1>4. cancelled' \subseteq Tasks
  BY DEF OnTaskError, GroupTypes, Running
<1>5. errors' \in BOOLEAN /\ aborting' \in BOOLEAN /\ raising' \subseteq Tasks
  BY DEF OnTaskError, GroupTypes
<1>6. parentCancelled' \in BOOLEAN
  <2>1. CASE aborting
    BY <2>1, Zenon DEF OnTaskError, ConsumerTypes
  <2>2. CASE ~aborting
    <3>1. parentCancelled' = (consumer \in {"get", "yield"})
      BY <2>2, Zenon DEF OnTaskError
    <3>2. QED  BY <3>1
  <2>3. QED  BY <2>1, <2>2
<1>7. GroupTypes' /\ ConsumerTypes'
  BY <1>4, <1>5, <1>6 DEF OnTaskError, GroupTypes, ConsumerTypes
<1>8. Holding' = Holding
  BY <1>1, HoldingSame DEF Holding
<1>9. PermitsConserved'
  BY <1>8, PermitsUnchanged DEF OnTaskError
<1>10. TaskInv'
  BY <1>1 DEF TaskInv, TaskTypes, OnTaskError
<1>11. QED  BY <1>2, <1>3, <1>7, <1>9, <1>10

-----------------------------------------------------------------------------
(* The consumer's steps, and the theorem *)

\* The consumer takes an outcome.
LEMMA CoreReceive ==
  ASSUME CoreInv, Receive
  PROVE  CoreInv'
<1> USE DEF Receive, CoreInv, TypeOK
<1>1. QueueType' /\ Head(queue) \in Outcomes
  BY QueueGet
<1>2. GroupTypes' /\ shutdown' \in BOOLEAN
  BY DEF GroupTypes, groupVars, RunTypes
<1>3. ConsumerTypes'
  BY <1>1 DEF ConsumerTypes
<1>4. QED  BY <1>1, <1>2, <1>3, CoreConsumer

\* The consumer takes the sentinel.
LEMMA CoreReceiveSentinel ==
  ASSUME CoreInv, ReceiveSentinel
  PROVE  CoreInv'
<1> USE DEF ReceiveSentinel, Leave, CoreInv, TypeOK
<1>1. QueueType'
  BY QueueGet
<1>2. GroupTypes' /\ shutdown' \in BOOLEAN
  BY DEF GroupTypes, groupVars
<1>3. ConsumerTypes'
  BY DEF ConsumerTypes
<1>4. QED  BY <1>1, <1>2, <1>3, CoreConsumer

\* The consumer's other steps change no task.
LEMMA CoreMoves ==
  ASSUME CoreInv, Resume \/ Exit \/ CancelParent
  PROVE  CoreInv'
<1> USE DEF Resume, Exit, CancelParent, CoreInv, TypeOK
<1>1. QueueType' /\ GroupTypes' /\ shutdown' \in BOOLEAN
  BY QueueSame DEF GroupTypes, groupVars, RunTypes
<1>2. ConsumerTypes'
  BY DEF ConsumerTypes
<1>3. UNCHANGED <<taskVars, runVars>>
  OBVIOUS
<1>4. QED  BY <1>1, <1>2, <1>3, CoreConsumer

\* The consumer leaves and cancels the tasks.
LEMMA CoreCancels ==
  ASSUME CoreInv, Close \/ ConsumerCancelled \/ CancelExit
  PROVE  CoreInv'
<1> USE DEF Close, ConsumerCancelled, CancelExit, Leave, CoreInv, TypeOK
<1>1. QueueType' /\ shutdown' \in BOOLEAN
  BY QueueSame DEF RunTypes
<1>2. cancelled' \subseteq Tasks
  BY DEF GroupTypes, Running
<1>3. raising' = raising /\ errors' = errors /\ aborting' \in BOOLEAN
  BY DEF GroupTypes
<1>4. GroupTypes'
  BY <1>2, <1>3 DEF GroupTypes
<1>5. ConsumerTypes'
  BY DEF ConsumerTypes
<1>6. UNCHANGED <<taskVars, runVars>>
  OBVIOUS
<1>7. QED  BY <1>1, <1>4, <1>5, <1>6, CoreConsumer

\* Every step preserves the core invariant.
LEMMA CoreStep == CoreInv /\ [Next]_vars => CoreInv'
<1> SUFFICES ASSUME CoreInv, [Next]_vars PROVE CoreInv'
  OBVIOUS
<1>1. ASSUME NEW t \in Tasks, TaskStep(t) PROVE CoreInv'
  BY <1>1, CoreStart, CorePutSentinel, CoreDeliverCancel, CoreOnTaskError DEF TaskStep
<1>2. CASE ProducerStep
  BY <1>1, <1>2, Constants, CoreDiscover, CorePutSignal, CoreSpawnWorker,
     CoreDiscoveryEnds, CoreDiscoveryFails, CorePutDiscoveryError DEF ProducerStep
<1>3. ASSUME NEW w \in Items, WorkerStep(w) PROVE CoreInv'
  BY <1>1, <1>3, Constants, CoreProcess, CorePutOutcome, CoreProcessCrashes
     DEF WorkerStep
<1>4. CASE ConsumerStep \/ CallerStep \/ CancelParent \/ CancelExit
  BY <1>4, CoreReceive, CoreReceiveSentinel, CoreMoves, CoreCancels
     DEF ConsumerStep, CallerStep
<1>5. CASE UNCHANGED vars
  <2>1. UNCHANGED <<taskVars, runVars, queue, shutdown, groupVars, consumerVars>>
    BY <1>5 DEF vars
  <2>2. QueueType' /\ shutdown' \in BOOLEAN /\ GroupTypes' /\ ConsumerTypes'
    BY <2>1, QueueSame
       DEF CoreInv, TypeOK, RunTypes, GroupTypes, groupVars, ConsumerTypes, consumerVars
  <2>3. QED  BY <2>1, <2>2, CoreConsumer
<1>6. QED
  BY <1>2, <1>3, <1>4, <1>5 DEF Next, Terminated

\* The core invariant holds in every reachable state.
LEMMA CoreCorrect == Spec => []CoreInv
BY CoreInit, CoreStep, PTL DEF Spec

\* Every variable keeps its type: in particular the queue never holds more than
\* worker_tasks results and at most worker_tasks workers are counted.
THEOREM TypeCorrect == Spec => []TypeOK
<1>1. CoreInv => TypeOK
  BY DEF CoreInv
<1>2. QED  BY <1>1, CoreCorrect, PTL

\* The semaphore, the worker counter and the workers that exist agree in every
\* reachable state: no crash, cancellation or close loses or doubles a permit.
THEOREM PermitsCorrect == Spec => []PermitsConserved
<1>1. CoreInv => PermitsConserved
  BY DEF CoreInv
<1>2. QED  BY <1>1, CoreCorrect, PTL

-----------------------------------------------------------------------------
(* What the caller of the pipeline's stream relies on: no outcome is lost,  *)
(* nothing happens after it has left, discovery stays within its bound, and *)
(* the pipeline implements OutcomeStream.                                   *)

\* A put adds its outcome to the queued ones.
LEMMA QueuedPut ==
  ASSUME QueueType, NEW o, Put(o), NEW x
  PROVE  Queued(x)' <=> Queued(x) \/ x = o
<1>1. /\ Len(queue') = Len(queue) + 1 /\ queue'[Len(queue) + 1] = o
      /\ \A j \in 1..Len(queue) : queue'[j] = queue[j]
      /\ Len(queue) \in Nat
  BY DEF Put, QueueType
<1>2. QED  BY <1>1 DEF Queued

\* A get loses none but the head.
LEMMA QueuedGet ==
  ASSUME QueueType, queue # <<>>, queue' = Tail(queue), NEW x
  PROVE  /\ Queued(x)' => Queued(x)
         /\ Queued(x) => Queued(x)' \/ x = Head(queue)
<1>1. /\ Len(queue) \in Nat /\ Len(queue) >= 1 /\ Len(queue') = Len(queue) - 1
      /\ Head(queue) = queue[1]
      /\ \A j \in 1..Len(queue') : queue'[j] = queue[j + 1]
  BY DEF QueueType
<1>2. Queued(x)' => Queued(x)
  BY <1>1 DEF Queued
<1>3. ASSUME Queued(x), x # Head(queue) PROVE Queued(x)'
  <2>1. PICK j \in 1..Len(queue) : queue[j] = x
    BY <1>3 DEF Queued
  <2>2. j # 1
    BY <1>1, <1>3, <2>1
  <2>3. j - 1 \in 1..Len(queue') /\ queue'[j - 1] = x
    BY <1>1, <2>1, <2>2
  <2>4. QED  BY <2>3 DEF Queued
<1>4. QED  BY <1>2, <1>3

\* While the producer or a holder of a permit is alive, no sentinel exists.
LEMMA AliveNotSignaled ==
  ASSUME CoreInv, SentinelInv,
         pc[Producer] \notin Ends \/ Holding # {}
  PROVE  ~completeSignaled
<1>1. activeWorkers = 0 => Holding = {}
  BY HoldingFinite, FS_EmptySet DEF CoreInv, PermitsConserved
<1>2. QED
  BY <1>1 DEF SentinelInv, Ends

\* Before completion is signalled there is no sentinel anywhere.
LEMMA NoSentinel ==
  ASSUME SentinelInv, ~completeSignaled
  PROVE  /\ ~Queued(Sentinel) /\ leftBy # "complete"
         /\ \A t \in Tasks : pc[t] # "putSentinel"
BY DEF SentinelInv

\* Putting outcomes brings no sentinel into the queue.
LEMMA NoSentinelPut ==
  ASSUME QueueType, ~Queued(Sentinel),
         queue' = queue \/ \E o \in Outcomes : Put(o)
  PROVE  ~Queued(Sentinel)'
<1>1. CASE queue' = queue
  BY <1>1 DEF Queued
<1>2. ASSUME NEW o \in Outcomes, Put(o) PROVE ~Queued(Sentinel)'
  <2>1. Queued(Sentinel)' <=> Queued(Sentinel) \/ Sentinel = o
    BY <1>2, QueuedPut
  <2>2. QED  BY <2>1, Constants
<1>3. QED  BY <1>1, <1>2

\* A step before the sentinel exists, and that does not create it.
LEMMA SentinelMove ==
  ASSUME CoreInv, SentinelInv, ~completeSignaled, ~completeSignaled',
         UNCHANGED <<discoveryFinished, shutdown, leftBy, consumer>>,
         \A u \in Tasks : pc'[u] # "putSentinel",
         pc'[Producer] \in Ends <=> pc[Producer] \in Ends,
         queue' = queue \/ \E o \in Outcomes : Put(o)
  PROVE  SentinelInv'
<1>1. ~Queued(Sentinel)'
  BY NoSentinel, NoSentinelPut DEF CoreInv, TypeOK
<1>2. \A j \in 1..Len(queue') : queue'[j] # Sentinel
  BY <1>1 DEF Queued
<1>3. leftBy' # "complete"
  BY NoSentinel
<1>4. QED
  BY <1>1, <1>2, <1>3 DEF SentinelInv, Ends

\* A finally block of a task that was alive.
LEMMA SentinelFinally ==
  ASSUME CoreInv, SentinelInv, ~completeSignaled,
         NEW t \in Tasks, NEW f \in BOOLEAN, NEW a, NEW r,
         SignalCompleteIfIdle(t, f, a, r),
         f /\ a = 0 => discoveryFinished' /\ activeWorkers' = 0,
         discoveryFinished' <=> pc'[Producer] \in Ends,
         UNCHANGED <<shutdown, leftBy, consumer>>,
         queue' = queue \/ \E o \in Outcomes : Put(o)
  PROVE  SentinelInv'
<1>1. ~Queued(Sentinel)'
  BY NoSentinel, NoSentinelPut DEF CoreInv, TypeOK
<1>2. \A j \in 1..Len(queue') : queue'[j] # Sentinel
  BY <1>1 DEF Queued
<1>3. leftBy' # "complete"
  BY NoSentinel
<1>4. completeSignaled' => discoveryFinished' /\ activeWorkers' = 0
  BY DEF SignalCompleteIfIdle
<1>5. \A u \in Tasks : pc'[u] = "putSentinel" => u = t /\ completeSignaled'
  BY NoSentinel DEF SignalCompleteIfIdle, CoreInv, TypeOK, TaskTypes
<1>6. QED
  BY <1>1, <1>2, <1>3, <1>4, <1>5 DEF SentinelInv, Ends

-----------------------------------------------------------------------------
(* Preservation of SentinelInv *)

\* SentinelInv holds initially,
LEMMA SentinelInit == Init => SentinelInv
<1> SUFFICES ASSUME Init PROVE SentinelInv
  OBVIOUS
<1>1. Len(queue) = 0 /\ \A t \in Tasks : pc[t] # "putSentinel"
  BY DEF Init
<1>2. ~Queued(Sentinel)
  BY <1>1 DEF Queued
<1>3. pc[Producer] = "new"
  BY Constants DEF Init
<1>4. QED
  BY <1>1, <1>2, <1>3 DEF Init, SentinelInv

\* when the producer's finally block runs,
LEMMA SentinelProducer ==
  ASSUME CoreInv, SentinelInv, CoreInv',
         \/ \E isSignal \in BOOLEAN : Discover(isSignal)
         \/ PutSignal \/ SpawnWorker \/ DiscoveryEnds \/ DiscoveryFails
         \/ PutDiscoveryError \/ DiscoveryCrashes
  PROVE  SentinelInv'
<1> USE Constants
<1>1. /\ pc[Producer] \in {"discover", "putSignal", "acquire", "putError"}
      /\ UNCHANGED <<shutdown, leftBy, consumer>>
  BY DEF Discover, PutSignal, SpawnWorker, DiscoveryEnds, DiscoveryFails,
         PutDiscoveryError, DiscoveryCrashes, At, consumerVars
<1>2. ~completeSignaled /\ pc[Producer] \notin Ends
  BY <1>1, AliveNotSignaled DEF Ends
<1>3. \A u \in Tasks : pc[u] # "putSentinel"
  BY <1>2, NoSentinel
<1>4. queue' = queue \/ \E o \in Outcomes : Put(o)
  <2>1. CASE PutSignal
    <3>1. PutNext(found) /\ found \in Items /\ sent[found] = 0
      BY <2>1 DEF PutSignal, At, CoreInv, TaskInv
    <3>2. <<found, sent[found] + 1>> \in Outcomes
      BY <3>1 DEF Outcomes
    <3>3. QED  BY <3>1, <3>2 DEF PutNext
  <2>2. CASE PutDiscoveryError
    <3>1. PutNext(Producer) /\ sent[Producer] = 0
      BY <2>2 DEF PutDiscoveryError, At, CoreInv, TaskInv
    <3>2. <<Producer, sent[Producer] + 1>> \in Outcomes
      BY <3>1 DEF Outcomes
    <3>3. QED  BY <3>1, <3>2 DEF PutNext
  <2>3. QED
    BY <2>1, <2>2 DEF Discover, SpawnWorker, DiscoveryEnds, DiscoveryFails,
       DiscoveryCrashes
<1>5. ASSUME NEW r, ProducerFinally(r) PROVE SentinelInv'
  <2>1. SignalCompleteIfIdle(Producer, TRUE, activeWorkers, r)
        /\ discoveryFinished' = TRUE /\ activeWorkers' = activeWorkers
    BY <1>5 DEF ProducerFinally
  <2>2. pc'[Producer] \in Ends
    BY <2>1, FinallyLabel DEF CoreInv, TypeOK, TaskTypes
  <2>3. QED
    BY <1>1, <1>2, <1>4, <2>1, <2>2, SentinelFinally
<1>6. ASSUME ~completeSignaled', discoveryFinished' = discoveryFinished,
             \A u \in Tasks : pc'[u] # "putSentinel", pc'[Producer] \notin Ends
      PROVE  SentinelInv'
  BY <1>1, <1>2, <1>4, <1>6, SentinelMove
<1>7. ASSUME NEW l \in {"discover", "putSignal", "acquire", "putError"},
             GoTo(Producer, l)
      PROVE  SentinelInv'
  <2>1. completeSignaled' = completeSignaled /\ discoveryFinished' = discoveryFinished
    BY <1>7 DEF GoTo, runVars
  <2>2. \A u \in Tasks : pc'[u] # "putSentinel"
    BY <1>3, <1>7 DEF GoTo, CoreInv, TypeOK, TaskTypes
  <2>3. pc'[Producer] \notin Ends
    BY <1>7 DEF GoTo, CoreInv, TypeOK, TaskTypes, Ends
  <2>4. QED  BY <1>2, <1>6, <2>1, <2>2, <2>3
<1>8. ASSUME pc' = [pc EXCEPT ![Producer] = "discover", ![found] = "new"],
             UNCHANGED <<discoveryFinished, completeSignaled>>
      PROVE  SentinelInv'
  <2>1. \A u \in Tasks : pc'[u] # "putSentinel"
    BY <1>3, <1>8 DEF CoreInv, TypeOK, TaskTypes
  <2>2. pc'[Producer] \notin Ends
    BY <1>8 DEF CoreInv, TypeOK, TaskTypes, Ends
  <2>3. QED  BY <1>2, <1>6, <1>8, <2>1, <2>2
<1>9. QED
  <2>1. ASSUME NEW isSignal \in BOOLEAN, Discover(isSignal) PROVE SentinelInv'
    BY <1>5, <1>7, <2>1, Zenon DEF Discover
  <2>2. CASE PutSignal
    BY <1>7, <2>2 DEF PutSignal
  <2>3. CASE SpawnWorker
    BY <1>5, <1>8, <2>3, Zenon DEF SpawnWorker
  <2>4. CASE DiscoveryEnds \/ DiscoveryCrashes \/ PutDiscoveryError
    BY <1>5, <2>4 DEF DiscoveryEnds, DiscoveryCrashes, PutDiscoveryError
  <2>5. CASE DiscoveryFails
    BY <1>5, <1>7, <2>5, Zenon DEF DiscoveryFails
  <2>6. QED  BY <2>1, <2>2, <2>3, <2>4, <2>5

\* A worker that holds a permit runs its finally block.
LEMMA SentinelWorkerEnd ==
  ASSUME CoreInv, SentinelInv, NEW w \in Items, w \in Holding,
         NEW r, WorkerFinally(w, r),
         UNCHANGED <<shutdown, leftBy, consumer>>,
         queue' = queue \/ \E o \in Outcomes : Put(o)
  PROVE  SentinelInv'
<1> USE Constants
<1>1. ~completeSignaled
  BY AliveNotSignaled
<1>2. /\ SignalCompleteIfIdle(w, discoveryFinished, activeWorkers - 1, r)
      /\ discoveryFinished' = discoveryFinished
      /\ activeWorkers' = activeWorkers - 1 /\ discoveryFinished \in BOOLEAN
  BY DEF WorkerFinally, CoreInv, TypeOK, RunTypes
<1>3. pc'[Producer] = pc[Producer]
  BY <1>2 DEF SignalCompleteIfIdle, CoreInv, TypeOK, TaskTypes
<1>4. discoveryFinished' <=> pc'[Producer] \in Ends
  BY <1>2, <1>3 DEF SentinelInv, Ends
<1>5. discoveryFinished /\ activeWorkers - 1 = 0
        => discoveryFinished' /\ activeWorkers' = 0
  BY <1>2
<1>6. w \in Tasks
  BY DEF Tasks, Items
<1> DEFINE left == activeWorkers - 1
<1>7. SignalCompleteIfIdle(w, discoveryFinished, left, r)
      /\ (discoveryFinished /\ left = 0 => discoveryFinished' /\ activeWorkers' = 0)
  BY <1>2, <1>5
<1> HIDE DEF left
<1>8. QED
  BY <1>1, <1>2, <1>4, <1>6, <1>7, SentinelFinally

\* when a worker's does,
LEMMA SentinelWorker ==
  ASSUME CoreInv, SentinelInv, CoreInv', NEW w \in Items,
         \/ \E n \in 0..MaxOutcomes : Process(w, n)
         \/ PutOutcome(w) \/ ProcessCrashes(w)
  PROVE  SentinelInv'
<1> USE Constants
<1>1. /\ w \in Holding /\ UNCHANGED <<shutdown, leftBy, consumer>>
  BY DEF Process, PutOutcome, ProcessCrashes, At, consumerVars, Holding
<1>2. ~completeSignaled /\ \A u \in Tasks : pc[u] # "putSentinel"
  BY <1>1, AliveNotSignaled, NoSentinel
<1>3. queue' = queue \/ \E o \in Outcomes : Put(o)
  <2>1. CASE PutOutcome(w)
    <3>1. PutNext(w) /\ sent[w] < made[w] /\ sent[w] \in Nat /\ made[w] \in 0..MaxOutcomes
      BY <2>1 DEF PutOutcome, At, CoreInv, TaskInv, TypeOK, TaskTypes, Unknown
    <3>2. <<w, sent[w] + 1>> \in Outcomes
      BY <3>1 DEF Outcomes
    <3>3. QED  BY <3>1, <3>2 DEF PutNext
  <2>2. QED  BY <2>1 DEF Process, ProcessCrashes
<1>4. ASSUME NEW r, WorkerFinally(w, r) PROVE SentinelInv'
  BY <1>1, <1>3, <1>4, SentinelWorkerEnd
<1>5. ASSUME GoTo(w, "put") PROVE SentinelInv'
  <2>1. /\ ~completeSignaled' /\ discoveryFinished' = discoveryFinished
    BY <1>2, <1>5 DEF GoTo, runVars
  <2>2. pc'[Producer] = pc[Producer] /\ \A u \in Tasks : pc'[u] # "putSentinel"
    BY <1>2, <1>5 DEF GoTo, CoreInv, TypeOK, TaskTypes
  <2>3. QED  BY <1>1, <1>2, <1>3, <2>1, <2>2, SentinelMove
<1>6. QED
  BY <1>4, <1>5 DEF Process, PutOutcome, ProcessCrashes

\* when a task takes its first step,
LEMMA SentinelStart ==
  ASSUME CoreInv, SentinelInv, NEW t \in Tasks, Start(t)
  PROVE  SentinelInv'
<1> USE Constants
<1> DEFINE l == IF t = Producer THEN "discover" ELSE "process"
<1>1. /\ pc[t] = "new" /\ GoTo(t, l) /\ l \in {"discover", "process"}
      /\ UNCHANGED <<queue, shutdown, leftBy, consumer>>
  BY DEF Start, At, consumerVars
<1> HIDE DEF l
<1>2. t \in Holding \/ t = Producer
  BY <1>1 DEF Holding, Tasks, Items, Producer
<1>3. ~completeSignaled /\ \A u \in Tasks : pc[u] # "putSentinel"
  BY <1>1, <1>2, AliveNotSignaled, NoSentinel DEF Ends
<1>4. ~completeSignaled' /\ discoveryFinished' = discoveryFinished
  BY <1>1, <1>3 DEF GoTo, runVars
<1>5. /\ pc'[Producer] \in Ends <=> pc[Producer] \in Ends
      /\ \A u \in Tasks : pc'[u] # "putSentinel"
  BY <1>1, <1>3 DEF GoTo, CoreInv, TypeOK, TaskTypes, Ends
<1>6. QED  BY <1>1, <1>3, <1>4, <1>5, SentinelMove

\* when an outcome is put,
LEMMA SentinelPut ==
  ASSUME CoreInv, SentinelInv, NEW t \in Tasks, PutSentinel(t)
  PROVE  SentinelInv'
<1> USE Constants
<1>1. /\ pc[t] = "putSentinel" /\ Put(Sentinel)
      /\ \E l \in {"crashed", "ended"} : pc' = [pc EXCEPT ![t] = l]
      /\ UNCHANGED <<runVars, shutdown, leftBy, consumer>>
  BY DEF PutSentinel, At, consumerVars
<1>2. /\ completeSignaled /\ ~Queued(Sentinel) /\ leftBy # "complete"
      /\ \A u \in Tasks : pc[u] = "putSentinel" => u = t
  BY <1>1 DEF SentinelInv
<1>3. \A u \in Tasks : pc'[u] # "putSentinel"
  BY <1>1, <1>2 DEF CoreInv, TypeOK, TaskTypes
<1>4. /\ Len(queue') = Len(queue) + 1 /\ Len(queue) \in Nat
      /\ \A j \in 1..Len(queue) : queue'[j] = queue[j]
  BY <1>1 DEF Put, CoreInv, TypeOK, QueueType
<1>5. \A j \in 1..Len(queue') : queue'[j] = Sentinel => j = Len(queue')
  BY <1>2, <1>4 DEF Queued
<1>6. pc'[Producer] \in Ends <=> pc[Producer] \in Ends
  BY <1>1 DEF CoreInv, TypeOK, TaskTypes, Ends
<1>7. QED
  BY <1>1, <1>2, <1>3, <1>5, <1>6 DEF SentinelInv, runVars, Ends

\* A step that leaves the queue, the run and the consumer's exit alone, and
\* where tasks only leave the label "putSentinel".
LEMMA SentinelFrame ==
  ASSUME SentinelInv, UNCHANGED <<queue, runVars, shutdown>>,
         leftBy' = leftBy, consumer' = consumer,
         \A u \in Tasks : pc'[u] = "putSentinel" => pc[u] = "putSentinel",
         pc'[Producer] \in Ends <=> pc[Producer] \in Ends
  PROVE  SentinelInv'
BY DEF SentinelInv, Queued, runVars, Ends

\* when a cancelled task wakes up,
LEMMA SentinelDeliverCancel ==
  ASSUME CoreInv, SentinelInv, NEW t \in Tasks, DeliverCancel(t)
  PROVE  SentinelInv'
<1> USE Constants
<1>1. UNCHANGED <<queue, shutdown, leftBy, consumer>>
  BY DEF DeliverCancel, consumerVars
<1>2. CASE \/ pc[t] = "new" /\ GoTo(t, "dropped")
           \/ /\ pc[t] = "putSentinel" /\ pc' = [pc EXCEPT ![t] = "ended"]
              /\ UNCHANGED runVars
  <2>1. /\ UNCHANGED runVars
        /\ \A u \in Tasks : pc'[u] = "putSentinel" => pc[u] = "putSentinel"
        /\ pc'[Producer] \in Ends <=> pc[Producer] \in Ends
    BY <1>2 DEF GoTo, CoreInv, TypeOK, TaskTypes, Ends
  <2>2. QED  BY <1>1, <2>1, SentinelFrame
<1>3. CASE /\ pc[t] \in {"discover", "putSignal", "acquire", "putError"}
           /\ ProducerFinally(FALSE)
  <2>1. t = Producer
    BY <1>3 DEF CoreInv, TaskInv, Tasks, Items, Producer
  <2>2. ~completeSignaled
    BY <1>3, <2>1, AliveNotSignaled DEF Ends
  <2>3. /\ SignalCompleteIfIdle(Producer, TRUE, activeWorkers, FALSE)
        /\ discoveryFinished' = TRUE /\ activeWorkers' = activeWorkers
    BY <1>3 DEF ProducerFinally
  <2>4. pc'[Producer] \in Ends
    BY <2>3, FinallyLabel DEF CoreInv, TypeOK, TaskTypes
  <2>5. QED  BY <1>1, <2>2, <2>3, <2>4, SentinelFinally
<1>4. CASE pc[t] \in {"process", "put"} /\ WorkerFinally(t, FALSE)
  <2>1. t \in Items /\ t \in Holding
    BY <1>4 DEF CoreInv, TaskInv, Tasks, Items, Producer, Holding
  <2>2. QED  BY <1>1, <1>4, <2>1, SentinelWorkerEnd
<1>5. QED
  BY <1>2, <1>3, <1>4 DEF DeliverCancel

\* when the task group reacts to an error,
LEMMA SentinelOnTaskError ==
  ASSUME CoreInv, SentinelInv, NEW t \in Tasks, OnTaskError(t)
  PROVE  SentinelInv'
<1>1. /\ \A u \in Tasks : pc'[u] = "putSentinel" => pc[u] = "putSentinel"
      /\ pc'[Producer] \in Ends <=> pc[Producer] \in Ends
  BY Constants DEF OnTaskError, CoreInv, TypeOK, TaskTypes, Ends
<1>2. QED
  BY <1>1, SentinelFrame DEF OnTaskError

\* and when the consumer moves.
LEMMA SentinelConsumer ==
  ASSUME CoreInv, SentinelInv,
         ConsumerStep \/ CallerStep \/ CancelParent \/ CancelExit
  PROVE  SentinelInv'
<1>1. UNCHANGED <<taskVars, runVars>>
  BY DEF ConsumerStep, CallerStep, Receive, ReceiveSentinel, Resume, Close,
         ConsumerCancelled, Exit, CancelParent, CancelExit
<1>2. CASE queue' = queue
  <2>1. \/ leftBy' = leftBy /\ shutdown' = shutdown
           /\ (consumer' \in {"get", "yield"} <=> consumer \in {"get", "yield"})
        \/ /\ leftBy' \in {"closed", "cancelled"} /\ shutdown' = TRUE
           /\ consumer' = "exit"
        \/ leftBy' = "cancelled" /\ shutdown' = shutdown /\ consumer' = consumer /\ consumer = "exit"
    BY <1>2 DEF ConsumerStep, CallerStep, Receive, ReceiveSentinel, Resume, Close,
         ConsumerCancelled, Exit, CancelParent, CancelExit, Leave, CoreInv, TypeOK, QueueType
  <2>2. QED
    BY <1>1, <1>2, <2>1 DEF SentinelInv, Queued, taskVars, runVars
<1>3. CASE Receive \/ ReceiveSentinel
  <2>1. /\ queue # <<>> /\ queue' = Tail(queue) /\ consumer = "get"
    BY <1>3 DEF Receive, ReceiveSentinel
  <2>2. Queued(Sentinel)' => Queued(Sentinel)
    BY <2>1, QueuedGet DEF CoreInv, TypeOK
  <2>3. /\ Len(queue) \in Nat /\ Len(queue) >= 1 /\ Len(queue') = Len(queue) - 1
        /\ Head(queue) = queue[1]
        /\ \A j \in 1..Len(queue') : queue'[j] = queue[j + 1]
    BY <2>1 DEF CoreInv, TypeOK, QueueType
  <2>4. \A j \in 1..Len(queue') : queue'[j] = Sentinel => j = Len(queue')
    BY <2>3 DEF SentinelInv
  <2>5. CASE Receive
    BY <1>1, <2>1, <2>2, <2>4, <2>5 DEF SentinelInv, Receive, taskVars, runVars
  <2>6. CASE ReceiveSentinel
    <3>1. Queued(Sentinel) /\ Len(queue) = 1
      <4>1. queue[1] = Sentinel /\ 1 \in 1..Len(queue)
        BY <2>3, <2>6 DEF ReceiveSentinel
      <4>2. QED  BY <4>1 DEF SentinelInv, Queued
    <3>2. Len(queue') = 0 /\ queue' = <<>>
      BY <2>1, <2>3, <3>1 DEF CoreInv, TypeOK, QueueType
    <3>3. completeSignaled /\ \A t \in Tasks : pc[t] # "putSentinel"
      BY <3>1 DEF SentinelInv
    <3>4. ~Queued(Sentinel)'
      BY <3>2 DEF Queued
    <3>5. QED
      BY <1>1, <2>4, <2>6, <3>2, <3>3, <3>4
         DEF SentinelInv, ReceiveSentinel, Leave, taskVars, runVars
  <2>7. QED  BY <1>3, <2>5, <2>6
<1>4. QED
  BY <1>2, <1>3 DEF ConsumerStep, CallerStep, Resume, Close, ConsumerCancelled,
     Exit, CancelParent, CancelExit

\* So every step preserves SentinelInv.
LEMMA SentinelStep == CoreInv /\ SentinelInv /\ [Next]_vars => SentinelInv'
<1> SUFFICES ASSUME CoreInv, SentinelInv, [Next]_vars PROVE SentinelInv'
  OBVIOUS
<1>1. CoreInv'
  BY CoreStep
<1>2. ASSUME NEW t \in Tasks, TaskStep(t) PROVE SentinelInv'
  BY <1>2, SentinelStart, SentinelPut, SentinelDeliverCancel, SentinelOnTaskError
     DEF TaskStep
<1>3. CASE ProducerStep
  BY <1>1, <1>2, <1>3, Constants, SentinelProducer DEF ProducerStep
<1>4. ASSUME NEW w \in Items, WorkerStep(w) PROVE SentinelInv'
  BY <1>1, <1>2, <1>4, Constants, SentinelWorker DEF WorkerStep
<1>5. CASE ConsumerStep \/ CallerStep \/ CancelParent \/ CancelExit
  BY <1>5, SentinelConsumer
<1>6. CASE UNCHANGED vars
  BY <1>6, SentinelFrame DEF vars, taskVars, consumerVars
<1>7. QED
  BY <1>3, <1>4, <1>5, <1>6 DEF Next, Terminated

-----------------------------------------------------------------------------
(* Preservation of Covered: what was sent is queued or delivered. *)

\* Nothing is sent, and the queue loses nothing that is not delivered.
LEMMA CoverSame ==
  ASSUME Covered, sent' = sent, delivered \subseteq delivered',
         \A x : Queued(x) => Queued(x)' \/ x \in delivered'
  PROVE  Covered'
BY DEF Covered

\* What was sent stays covered when queue and deliveries do not change,
LEMMA CoverFrame ==
  ASSUME Covered, UNCHANGED <<sent, queue, delivered>>
  PROVE  Covered'
BY CoverSame DEF Queued

\* when an outcome is put,
LEMMA CoverPut ==
  ASSUME TypeOK, Covered, NEW i \in Tasks, PutNext(i), delivered' = delivered
  PROVE  Covered'
<1>1. /\ Put(<<i, sent[i] + 1>>)
      /\ \A t \in Tasks : sent[t] \in Nat
      /\ \A t \in Tasks : sent'[t] = IF t = i THEN sent[i] + 1 ELSE sent[t]
  BY DEF PutNext, TypeOK, TaskTypes
<1>2. \A x : Queued(x)' <=> Queued(x) \/ x = <<i, sent[i] + 1>>
  BY <1>1, QueuedPut DEF TypeOK
<1>3. ASSUME NEW t \in Tasks, NEW k \in 1..sent'[t]
      PROVE  Queued(<<t, k>>)' \/ <<t, k>> \in delivered'
  <2>1. k \in 1..sent[t] \/ (t = i /\ k = sent[i] + 1)
    BY <1>1
  <2>2. CASE k \in 1..sent[t]
    BY <1>2, <2>2 DEF Covered
  <2>3. CASE t = i /\ k = sent[i] + 1
    BY <1>2, <2>3
  <2>4. QED  BY <2>1, <2>2, <2>3
<1>4. QED  BY <1>3 DEF Covered

\* when the sentinel is put,
LEMMA CoverPutSentinel ==
  ASSUME TypeOK, Covered, Put(Sentinel), UNCHANGED <<sent, delivered>>
  PROVE  Covered'
<1>1. \A x : Queued(x) => Queued(x)'
  BY QueuedPut DEF TypeOK
<1>2. QED  BY <1>1, CoverSame

\* and when the consumer takes an outcome.
LEMMA CoverReceive ==
  ASSUME TypeOK, Covered, Receive
  PROVE  Covered'
<1>1. /\ queue # <<>> /\ queue' = Tail(queue) /\ sent' = sent
      /\ delivered' = delivered \cup {Head(queue)}
  BY DEF Receive, taskVars
<1>2. \A x : Queued(x) => Queued(x)' \/ x = Head(queue)
  BY <1>1, QueuedGet DEF TypeOK
<1>3. QED  BY <1>1, <1>2, CoverSame

\* The sentinel is no outcome: taking it from the queue uncovers nothing.
LEMMA CoverReceiveSentinel ==
  ASSUME TypeOK, TaskInv, Covered, ReceiveSentinel
  PROVE  Covered'
<1>1. /\ queue # <<>> /\ queue' = Tail(queue) /\ sent' = sent
      /\ delivered' = delivered /\ Head(queue) = Sentinel
  BY DEF ReceiveSentinel, taskVars
<1>2. \A x : Queued(x) => Queued(x)' \/ x = Sentinel
  BY <1>1, QueuedGet DEF TypeOK
<1>3. ASSUME NEW t \in Tasks, NEW k \in 1..sent[t]
      PROVE  <<t, k>> # Sentinel
  BY DEF Sentinel, Tasks, Producer, Items
<1>4. QED  BY <1>1, <1>2, <1>3 DEF Covered

-----------------------------------------------------------------------------
(* Preservation of DeliveryInv *)

AllInv == CoreInv /\ SentinelInv /\ DeliveryInv

\* While all is well and a task with a permit, or the producer, is alive, the
\* consumer has not left.
LEMMA NotShutdown ==
  ASSUME AllInv, NEW t \in Tasks, Alive(t), Clean
  PROVE  ~shutdown /\ ~completeSignaled
<1>1. t \in Holding \/ (t = Producer /\ pc[Producer] \notin Ends)
  BY DEF Alive, AllInv, CoreInv, TaskInv, Holding, Tasks, Items, Producer, Ends
<1>2. ~completeSignaled
  BY <1>1, AliveNotSignaled DEF AllInv
<1>3. QED
  BY <1>2 DEF AllInv, SentinelInv, Clean

\* What a step of a live task that is not cancelled has to show.
LEMMA DeliveryTask ==
  ASSUME AllInv, NEW t \in Tasks, Alive(t),
         UNCHANGED <<errors, leftBy, consumer>>, Covered',
         pc' \in [Tasks -> PC], \A u \in Tasks \ {t} : pc'[u] = pc[u] \/ pc[u] = "none",
         raising' = raising \/ (raising' = raising \cup {t} /\ pc'[t] = "putSentinel"),
         Clean => CleanInv'
  PROVE  DeliveryInv'
<1>1. t \notin raising
  BY DEF AllInv, DeliveryInv, Alive
<1>2. consumer # "done"
  BY DEF AllInv, DeliveryInv, Alive, Done
<1>3. \A u \in raising' : pc'[u] = "putSentinel"
  <2>1. ASSUME NEW u \in raising PROVE pc'[u] = "putSentinel"
    BY <1>1, <2>1 DEF AllInv, DeliveryInv, CoreInv, TypeOK, GroupTypes
  <2>2. QED  BY <2>1
<1>4. QED
  BY <1>2, <1>3 DEF DeliveryInv, Clean

\* The finally block of t: it ends at one of Ends, and t is raising if it was
\* to raise and still has the sentinel to put.
LEMMA FinallyRaising ==
  ASSUME TaskTypes, NEW t \in Tasks, NEW f, NEW a, NEW r \in BOOLEAN,
         SignalCompleteIfIdle(t, f, a, r)
  PROVE  /\ pc'[t] \in Ends /\ \A u \in Tasks \ {t} : pc'[u] = pc[u]
         /\ raising' = raising \/ (raising' = raising \cup {t} /\ pc'[t] = "putSentinel")
         /\ r /\ pc'[t] \in {"putSentinel", "ended"} /\ ~shutdown => t \in raising'
<1>1. PICK l \in Ends : pc' = [pc EXCEPT ![t] = l]
  BY DEF SignalCompleteIfIdle, Ends
<1>2. pc'[t] = l /\ \A u \in Tasks \ {t} : pc'[u] = pc[u]
  BY <1>1 DEF TaskTypes
<1> DEFINE wait == f /\ a = 0 /\ ~completeSignaled /\ ~shutdown
<1>3. CASE wait
  BY <1>2, <1>3 DEF SignalCompleteIfIdle, TaskTypes
<1>4. CASE ~wait
  <2>1. raising' = raising
    BY <1>4, Zenon DEF SignalCompleteIfIdle
  <2>2. pc' = [pc EXCEPT ![t] = IF r THEN "crashed" ELSE "ended"]
    BY <1>4, Zenon DEF SignalCompleteIfIdle
  <2>3. r => pc'[t] = "crashed"
    BY <2>2 DEF TaskTypes
  <2>4. QED  BY <1>2, <2>1, <2>3
<1>5. QED  BY <1>3, <1>4

\* CleanInv after a step of a live worker.
LEMMA CleanWorker ==
  ASSUME AllInv, NEW w \in Items, Clean,
         UNCHANGED <<cancelled, found, discoveryFinished>>,
         \A u \in Tasks \ {w} :
           pc'[u] = pc[u] /\ made'[u] = made[u] /\ sent'[u] = sent[u],
         raising' = raising \/ raising' = raising \cup {w},
         pc'[w] # "dropped" /\ pc'[w] # "none",
         pc'[w] \in {"putSentinel", "ended"} /\ w \notin raising' => Settled(w)'
  PROVE  CleanInv'
<1> USE Constants DEF AllInv, DeliveryInv
<1>1. CleanInv /\ pc'[Producer] = pc[Producer]
  OBVIOUS
<1>2. ASSUME NEW v \in Items
      PROVE  /\ pc'[v] # "dropped"
             /\ pc'[v] \in {"putSentinel", "ended"} /\ v \notin raising' => Settled(v)'
  BY <1>1 DEF CleanInv, Settled
<1>3. ASSUME NEW i \in 1..found', pc'[i] = "none" PROVE Settled(i)' \/ Pending(i)'
  <2>1. found \in 0..MaxItems
    BY DEF CoreInv, TypeOK, TaskTypes
  <2>2. i \in Items /\ i # w /\ i \in 1..found
    BY <1>3, <2>1 DEF Items
  <2>3. pc[i] = "none" /\ made'[i] = made[i] /\ sent'[i] = sent[i]
    BY <1>3, <2>2
  <2>4. QED  BY <1>1, <2>2, <2>3 DEF CleanInv, Settled, Pending
<1>4. discoveryFinished' => made'[Producer] = Unknown \/ Settled(Producer)'
  BY <1>1 DEF CleanInv, Settled
<1>5. QED  BY <1>1, <1>2, <1>3, <1>4 DEF CleanInv

\* DeliveryInv is preserved by a worker's end,
LEMMA DeliveryWorker ==
  ASSUME AllInv, NEW w \in Items,
         \/ \E n \in 0..MaxOutcomes : Process(w, n)
         \/ PutOutcome(w) \/ ProcessCrashes(w)
  PROVE  DeliveryInv'
<1> USE Constants
<1>1. /\ Alive(w) /\ w \in Tasks
      /\ UNCHANGED <<errors, leftBy, consumer, found, cancelled, delivered, shutdown>>
  BY DEF Process, PutOutcome, ProcessCrashes, At, consumerVars, Alive
<1>2. AllInv /\ TaskTypes /\ Covered /\ TaskInv /\ TypeOK
  BY DEF AllInv, CoreInv, TypeOK, DeliveryInv
<1>3. CoreInv' /\ pc' \in [Tasks -> PC]
  <2>1. Next
    BY DEF Next, WorkerStep
  <2>2. QED  BY <2>1, CoreStep DEF AllInv, CoreInv, TypeOK, TaskTypes
<1>4. ASSUME NEW r \in BOOLEAN, WorkerFinally(w, r)
      PROVE  /\ pc'[w] \in Ends /\ \A u \in Tasks \ {w} : pc'[u] = pc[u]
             /\ raising' = raising \/ (raising' = raising \cup {w} /\ pc'[w] = "putSentinel")
             /\ r /\ pc'[w] \in {"putSentinel", "ended"} /\ ~shutdown => w \in raising'
             /\ discoveryFinished' = discoveryFinished
  BY <1>1, <1>2, <1>4, FinallyRaising DEF WorkerFinally
<1>5. ASSUME GoTo(w, "put")
      PROVE  /\ pc'[w] = "put" /\ \A u \in Tasks \ {w} : pc'[u] = pc[u]
             /\ raising' = raising /\ discoveryFinished' = discoveryFinished
  BY <1>2, <1>5 DEF GoTo, TaskTypes, runVars
<1>6. ASSUME NEW n \in 0..MaxOutcomes, Process(w, n) PROVE DeliveryInv'
  <2>1. /\ made' = [made EXCEPT ![w] = n] /\ sent' = sent /\ queue' = queue
        /\ IF n = 0 THEN WorkerFinally(w, FALSE) ELSE GoTo(w, "put")
        /\ pc[w] = "process"
    BY <1>6 DEF Process, At
  <2>2. made'[w] = n /\ sent'[w] = 0 /\ \A u \in Tasks \ {w} : made'[u] = made[u]
    BY <1>1, <1>2, <2>1 DEF TaskTypes, TaskInv
  <2>3. Covered'
    BY <1>1, <1>2, <2>1, CoverFrame
  <2>4. CASE n = 0
    <3>1. WorkerFinally(w, FALSE)
      BY <2>1, <2>4
    <3>2. Settled(w)'
      BY <2>2, <2>4 DEF Settled, Unknown
    <3>3. Clean => CleanInv'
      BY <1>1, <1>2, <1>4, <2>1, <2>2, <3>1, <3>2, CleanWorker DEF Ends
    <3>4. QED  BY <1>1, <1>2, <1>3, <1>4, <2>3, <3>1, <3>3, DeliveryTask
  <2>5. CASE n # 0
    <3>1. GoTo(w, "put")
      BY <2>1, <2>5
    <3>2. Clean => CleanInv'
      BY <1>1, <1>2, <1>5, <2>1, <2>2, <3>1, CleanWorker
    <3>3. QED  BY <1>1, <1>2, <1>3, <1>5, <2>3, <3>1, <3>2, DeliveryTask
  <2>6. QED  BY <2>4, <2>5
<1>7. CASE PutOutcome(w)
  <2>1. /\ PutNext(w) /\ made' = made /\ sent' = [sent EXCEPT ![w] = @ + 1]
        /\ IF sent[w] + 1 = made[w] THEN WorkerFinally(w, FALSE) ELSE GoTo(w, "put")
    BY <1>7 DEF PutOutcome, PutNext
  <2>2. sent'[w] = sent[w] + 1 /\ \A u \in Tasks \ {w} : sent'[u] = sent[u]
    BY <1>1, <1>2, <2>1 DEF TaskTypes
  <2>3. Covered'
    BY <1>1, <1>2, <2>1, CoverPut
  <2>4. CASE sent[w] + 1 = made[w]
    <3>1. WorkerFinally(w, FALSE)
      BY <2>1, <2>4, Zenon
    <3>2. Settled(w)'
      <4>1. sent[w] \in Nat
        BY <1>1, <1>2 DEF TaskTypes
      <4>2. QED  BY <2>1, <2>2, <2>4, <4>1 DEF Settled, Unknown
    <3>3. Clean => CleanInv'
      BY <1>1, <1>2, <1>4, <2>1, <2>2, <3>1, <3>2, CleanWorker DEF Ends
    <3>4. QED  BY <1>1, <1>2, <1>3, <1>4, <2>3, <3>1, <3>3, DeliveryTask
  <2>5. CASE sent[w] + 1 # made[w]
    <3>1. GoTo(w, "put")
      BY <2>1, <2>5, Zenon
    <3>2. Clean => CleanInv'
      BY <1>1, <1>2, <1>5, <2>1, <2>2, <3>1, CleanWorker
    <3>3. QED  BY <1>1, <1>2, <1>3, <1>5, <2>3, <3>1, <3>2, DeliveryTask
  <2>6. QED  BY <2>4, <2>5
<1>8. CASE ProcessCrashes(w)
  <2>1. WorkerFinally(w, TRUE) /\ UNCHANGED <<made, sent, queue>>
    BY <1>8 DEF ProcessCrashes
  <2>2. Covered'
    BY <1>1, <1>2, <2>1, CoverFrame
  <2>3. Clean => ~shutdown
    BY <1>1, <1>2, NotShutdown
  <2>4. Clean => CleanInv'
    BY <1>1, <1>2, <1>4, <2>1, <2>3, CleanWorker DEF Ends
  <2>5. QED  BY <1>1, <1>2, <1>3, <1>4, <2>1, <2>2, <2>4, DeliveryTask
<1>9. QED  BY <1>6, <1>7, <1>8

\* CleanInv after a step of the producer: of the other tasks it touches at most
\* one that does not exist yet.
LEMMA CleanProducer ==
  ASSUME AllInv, Clean, cancelled' = cancelled,
         raising' = raising \/ raising' = raising \cup {Producer},
         \A w \in Items :
           \/ pc'[w] = pc[w] /\ made'[w] = made[w] /\ sent'[w] = sent[w]
           \/ pc'[w] = pc[w] /\ pc[w] = "none"
           \/ pc'[w] = "new",
         \A i \in 1..found' : pc'[i] = "none" => Settled(i)' \/ Pending(i)',
         discoveryFinished' => made'[Producer] = Unknown \/ Settled(Producer)'
  PROVE  CleanInv'
<1>1. CleanInv
  BY DEF AllInv, DeliveryInv
<1>2. ASSUME NEW w \in Items
      PROVE  /\ pc'[w] # "dropped"
             /\ pc'[w] \in {"putSentinel", "ended"} /\ w \notin raising' => Settled(w)'
  BY <1>1, Constants DEF CleanInv, Settled
<1>3. QED  BY <1>1, <1>2 DEF CleanInv

\* by the producer's,
LEMMA DeliveryProducer ==
  ASSUME AllInv,
         \/ \E isSignal \in BOOLEAN : Discover(isSignal)
         \/ PutSignal \/ SpawnWorker \/ DiscoveryEnds \/ DiscoveryFails
         \/ PutDiscoveryError \/ DiscoveryCrashes
  PROVE  DeliveryInv'
<1> USE Constants
<1>1. /\ pc[Producer] \in {"discover", "putSignal", "acquire", "putError"}
      /\ Alive(Producer)
      /\ UNCHANGED <<errors, leftBy, consumer, cancelled, delivered, shutdown>>
  BY DEF Discover, PutSignal, SpawnWorker, DiscoveryEnds, DiscoveryFails,
         PutDiscoveryError, DiscoveryCrashes, At, consumerVars, Alive
<1>2. TaskTypes /\ Covered /\ TaskInv /\ TypeOK /\ SentinelInv
  BY DEF AllInv, CoreInv, TypeOK, DeliveryInv
<1>3. pc' \in [Tasks -> PC]
  <2>1. Next
    BY DEF Next, ProducerStep
  <2>2. QED  BY <2>1, CoreStep DEF AllInv, CoreInv, TypeOK, TaskTypes
<1>4. /\ pc[Producer] \notin Ends /\ ~discoveryFinished
      /\ Clean => ~shutdown /\ CleanInv
  BY <1>1, <1>2, NotShutdown DEF AllInv, DeliveryInv, SentinelInv, Ends
<1>5. ASSUME NEW r \in BOOLEAN, ProducerFinally(r)
      PROVE  /\ pc'[Producer] \in Ends /\ \A u \in Items : pc'[u] = pc[u]
             /\ \A u \in Tasks \ {Producer} : pc'[u] = pc[u]
             /\ \/ raising' = raising
                \/ raising' = raising \cup {Producer} /\ pc'[Producer] = "putSentinel"
  <2> DEFINE finished == TRUE
  <2>1. SignalCompleteIfIdle(Producer, finished, activeWorkers, r)
    BY <1>5 DEF ProducerFinally
  <2> HIDE DEF finished
  <2>2. \A u \in Items : u \in Tasks \ {Producer}
    OBVIOUS
  <2>3. QED  BY <1>2, <2>1, <2>2, FinallyRaising
<1>6. ASSUME NEW l \in PC, GoTo(Producer, l)
      PROVE  /\ pc'[Producer] = l /\ \A u \in Items : pc'[u] = pc[u]
             /\ \A u \in Tasks \ {Producer} : pc'[u] = pc[u]
             /\ raising' = raising /\ discoveryFinished' = discoveryFinished
  BY <1>2, <1>6 DEF GoTo, TaskTypes, runVars
<1>7. {"discover", "putSignal", "acquire", "putError"} \subseteq PC
  BY DEF PC
<1>8. found \in 0..MaxItems
  BY <1>2 DEF TaskTypes
\* Away from "putSignal" and "acquire", every item without a worker is settled.
<1>9. ASSUME Clean, pc[Producer] \notin {"putSignal", "acquire"},
             NEW i \in 1..found, pc[i] = "none"
      PROVE  Settled(i)
  BY <1>4, <1>9 DEF CleanInv, Pending
\* A finally block that leaves the outcomes alone, or has sent the error.
<1>10. ASSUME NEW r \in BOOLEAN, ProducerFinally(r), found' = found,
              pc[Producer] \notin {"putSignal", "acquire"}, Covered',
              \A w \in Items : made'[w] = made[w] /\ sent'[w] = sent[w],
              made'[Producer] = Unknown \/ Settled(Producer)'
       PROVE  DeliveryInv'
  <2>1. ASSUME Clean PROVE CleanInv'
    <3>1. ASSUME NEW i \in 1..found', pc'[i] = "none" PROVE Settled(i)'
      <4>1. i \in Items
        BY <1>8, <1>10 DEF Items
      <4>2. QED  BY <1>5, <1>9, <1>10, <2>1, <3>1, <4>1 DEF Settled
    <3>2. QED  BY <1>1, <1>5, <1>10, <2>1, <3>1, CleanProducer
  <2>2. QED  BY <1>1, <1>3, <1>5, <1>10, <2>1, DeliveryTask
\* Leaving because the consumer has left.
<1>11. ASSUME ProducerFinally(FALSE), shutdown, Covered' PROVE DeliveryInv'
  BY <1>1, <1>3, <1>4, <1>5, <1>11, DeliveryTask
<1>12. ASSUME NEW isSignal \in BOOLEAN, Discover(isSignal) PROVE DeliveryInv'
  <2>1. /\ pc[Producer] = "discover" /\ found' = found + 1 /\ found < MaxItems
        /\ UNCHANGED <<sent, queue>>
    BY <1>12 DEF Discover, At
  <2>2. Covered'
    BY <1>1, <1>2, <2>1, CoverFrame
  <2>3. CASE shutdown
    <3>1. ProducerFinally(FALSE)
      BY <1>12, <2>3 DEF Discover
    <3>2. QED  BY <1>11, <2>2, <2>3, <3>1
  <2>4. CASE ~shutdown
    <3> DEFINE l == IF isSignal THEN "putSignal" ELSE "acquire"
    <3>1. /\ GoTo(Producer, l) /\ l \in {"putSignal", "acquire"} /\ l \in PC
          /\ made' = IF isSignal THEN [made EXCEPT ![found + 1] = 1] ELSE made
      BY <1>7, <1>12, <2>4 DEF Discover
    <3> HIDE DEF l
    <3>2. /\ \A u \in Tasks \ {found + 1} : made'[u] = made[u]
          /\ pc[found + 1] = "none" /\ found + 1 \in Items
      BY <1>2, <1>8, <2>1, <3>1 DEF TaskTypes, TaskInv, Items
    <3>3. ASSUME Clean PROVE CleanInv'
      <4>1. ASSUME NEW i \in 1..found', pc'[i] = "none"
            PROVE  Settled(i)' \/ Pending(i)'
        <5>1. CASE i = found + 1
          BY <1>6, <2>1, <3>1, <5>1 DEF Pending
        <5>2. CASE i # found + 1
          <6>1. i \in 1..found /\ i \in Items
            BY <1>8, <2>1, <5>2 DEF Items
          <6>2. pc[i] = "none"
            BY <1>6, <3>1, <4>1, <6>1
          <6>3. Settled(i)
            BY <1>9, <2>1, <3>3, <6>1, <6>2
          <6>4. QED  BY <2>1, <3>2, <5>2, <6>1, <6>3 DEF Settled
        <5>3. QED  BY <5>1, <5>2
      <4>2. ~discoveryFinished'
        BY <1>4, <1>6, <3>1
      <4>3. ASSUME NEW w \in Items
            PROVE  \/ pc'[w] = pc[w] /\ made'[w] = made[w] /\ sent'[w] = sent[w]
                   \/ pc'[w] = pc[w] /\ pc[w] = "none"
        BY <1>6, <2>1, <3>1, <3>2
      <4>4. QED  BY <1>1, <1>6, <3>1, <3>3, <4>1, <4>2, <4>3, CleanProducer
    <3>4. QED  BY <1>1, <1>3, <1>6, <2>2, <3>1, <3>3, DeliveryTask
  <2>5. QED  BY <2>3, <2>4
<1>13. CASE PutSignal
  <2>1. /\ pc[Producer] = "putSignal" /\ UNCHANGED <<found, made>>
        /\ PutNext(found) /\ sent' = [sent EXCEPT ![found] = @ + 1]
        /\ GoTo(Producer, "discover") /\ "discover" \in PC
    BY <1>7, <1>13 DEF PutSignal, At, PutNext
  <2>2. /\ found \in Items /\ pc[found] = "none" /\ sent'[found] = 1 /\ made[found] = 1
        /\ \A u \in Tasks \ {found} : sent'[u] = sent[u]
    BY <1>2, <2>1 DEF TaskTypes, TaskInv
  <2>3. Covered'
    BY <1>1, <1>2, <2>1, <2>2, CoverPut
  <2>4. ASSUME Clean PROVE CleanInv'
    <3>1. ASSUME NEW i \in 1..found', pc'[i] = "none" PROVE Settled(i)'
      <4>1. CASE i = found
        BY <2>1, <2>2, <4>1 DEF Settled, Unknown
      <4>2. CASE i # found
        <5>1. i \in Items /\ i \in 1..found
          BY <1>8, <2>1 DEF Items
        <5>2. Settled(i)
          BY <1>4, <1>6, <2>1, <2>4, <3>1, <4>2, <5>1 DEF CleanInv, Pending
        <5>3. QED  BY <2>1, <2>2, <4>2, <5>1, <5>2 DEF Settled
      <4>3. QED  BY <4>1, <4>2
    <3>2. ASSUME NEW w \in Items
          PROVE  \/ pc'[w] = pc[w] /\ made'[w] = made[w] /\ sent'[w] = sent[w]
                 \/ pc'[w] = pc[w] /\ pc[w] = "none"
      BY <1>6, <2>1, <2>2
    <3>3. ~discoveryFinished'
      BY <1>4, <1>6, <2>1
    <3>4. QED  BY <1>1, <1>6, <2>1, <2>4, <3>1, <3>2, <3>3, CleanProducer
  <2>5. QED  BY <1>1, <1>3, <1>6, <2>1, <2>3, <2>4, DeliveryTask
<1>14. CASE SpawnWorker
  <2>1. pc[Producer] = "acquire" /\ UNCHANGED <<found, made, sent, queue>>
    BY <1>14 DEF SpawnWorker, At
  <2>2. Covered'
    BY <1>1, <1>2, <2>1, CoverFrame
  <2>3. CASE shutdown
    <3>1. ProducerFinally(FALSE)
      BY <1>14, <2>3, Zenon DEF SpawnWorker
    <3>2. QED  BY <1>11, <2>2, <2>3, <3>1
  <2>4. CASE ~shutdown
    <3>1. /\ pc' = [pc EXCEPT ![Producer] = "discover", ![found] = "new"]
          /\ UNCHANGED <<discoveryFinished, completeSignaled, raising>>
      BY <1>14, <2>4, Zenon DEF SpawnWorker
    <3>2. /\ found \in Items /\ pc[found] = "none" /\ pc'[found] = "new"
          /\ \A u \in Tasks \ {Producer, found} : pc'[u] = pc[u]
      BY <1>2, <2>1, <3>1 DEF TaskTypes, TaskInv
    <3>3. ASSUME Clean PROVE CleanInv'
      <4>1. ASSUME NEW i \in 1..found', pc'[i] = "none" PROVE Settled(i)'
        <5>1. i \in Items /\ i \in 1..found /\ i # found
          BY <1>8, <2>1, <3>2, <4>1 DEF Items
        <5>2. Settled(i)
          BY <1>4, <3>2, <3>3, <4>1, <5>1 DEF CleanInv, Pending
        <5>3. QED  BY <2>1, <5>2 DEF Settled
      <4>2. ASSUME NEW w \in Items
            PROVE  \/ pc'[w] = pc[w] /\ made'[w] = made[w] /\ sent'[w] = sent[w]
                   \/ pc'[w] = "new"
        BY <2>1, <3>2
      <4>3. QED  BY <1>1, <1>4, <3>1, <3>3, <4>1, <4>2, CleanProducer
    <3>4. \A u \in Tasks \ {Producer} : pc'[u] = pc[u] \/ pc[u] = "none"
      BY <3>2
    <3>5. QED  BY <1>1, <1>3, <2>2, <3>1, <3>3, <3>4, DeliveryTask
  <2>5. QED  BY <2>3, <2>4
<1>15. CASE DiscoveryEnds \/ DiscoveryCrashes
  <2>1. /\ pc[Producer] = "discover" /\ UNCHANGED <<found, made, sent, queue>>
        /\ \E r \in BOOLEAN : ProducerFinally(r)
    BY <1>15 DEF DiscoveryEnds, DiscoveryCrashes, At
  <2>2. made[Producer] = Unknown
    BY <1>2, <2>1 DEF TaskInv
  <2>3. Covered'
    BY <1>1, <1>2, <2>1, CoverFrame
  <2>4. QED  BY <1>10, <2>1, <2>2, <2>3
<1>16. CASE DiscoveryFails
  <2>1. pc[Producer] = "discover" /\ UNCHANGED <<found, sent, queue>>
    BY <1>16 DEF DiscoveryFails, At
  <2>2. Covered'
    BY <1>1, <1>2, <2>1, CoverFrame
  <2>3. CASE shutdown
    <3>1. ProducerFinally(FALSE)
      BY <1>16, <2>3 DEF DiscoveryFails
    <3>2. QED  BY <1>11, <2>2, <2>3, <3>1
  <2>4. CASE ~shutdown
    <3>1. /\ GoTo(Producer, "putError") /\ "putError" \in PC
          /\ made' = [made EXCEPT ![Producer] = 1]
      BY <1>7, <1>16, <2>4 DEF DiscoveryFails
    <3>2. \A u \in Items : made'[u] = made[u]
      BY <1>2, <3>1 DEF TaskTypes
    <3>3. ASSUME Clean PROVE CleanInv'
      <4>1. ASSUME NEW i \in 1..found', pc'[i] = "none" PROVE Settled(i)'
        <5>1. i \in Items /\ i \in 1..found
          BY <1>8, <2>1 DEF Items
        <5>2. Settled(i)
          BY <1>6, <1>9, <2>1, <3>1, <3>3, <4>1, <5>1
        <5>3. QED  BY <2>1, <3>2, <5>1, <5>2 DEF Settled
      <4>2. ~discoveryFinished'
        BY <1>4, <1>6, <3>1
      <4>3. QED  BY <1>1, <1>6, <2>1, <3>1, <3>2, <3>3, <4>1, <4>2, CleanProducer
    <3>4. QED  BY <1>1, <1>3, <1>6, <2>2, <3>1, <3>3, DeliveryTask
  <2>5. QED  BY <2>3, <2>4
<1>17. CASE PutDiscoveryError
  <2>1. /\ pc[Producer] = "putError" /\ UNCHANGED <<found, made>>
        /\ PutNext(Producer) /\ sent' = [sent EXCEPT ![Producer] = @ + 1]
        /\ ProducerFinally(FALSE)
    BY <1>17 DEF PutDiscoveryError, At, PutNext
  <2>2. /\ made[Producer] = 1 /\ sent'[Producer] = 1
        /\ \A u \in Items : sent'[u] = sent[u]
    BY <1>2, <2>1 DEF TaskTypes, TaskInv
  <2>3. Covered'
    BY <1>1, <1>2, <2>1, CoverPut
  <2>4. Settled(Producer)'
    BY <2>1, <2>2 DEF Settled, Unknown
  <2>5. QED  BY <1>10, <2>1, <2>2, <2>3, <2>4
<1>18. QED
  BY <1>12, <1>13, <1>14, <1>15, <1>16, <1>17

\* A step that changes no task, no outcome and no flag of the producer.
LEMMA CleanFrame ==
  ASSUME AllInv, Clean, UNCHANGED <<taskVars, discoveryFinished, cancelled, raising>>
  PROVE  CleanInv'
BY DEF AllInv, DeliveryInv, CleanInv, Settled, Pending, taskVars

\* by a task's first step,
LEMMA DeliveryStart ==
  ASSUME AllInv, NEW t \in Tasks, Start(t)
  PROVE  DeliveryInv'
<1> USE Constants
<1> DEFINE l == IF t = Producer THEN "discover" ELSE "process"
<1>1. /\ pc[t] = "new" /\ GoTo(t, l) /\ l \in {"discover", "process"}
      /\ t \in Items => l = "process"
      /\ UNCHANGED <<found, made, sent, queue, errors, leftBy, consumer, cancelled, delivered>>
  BY DEF Start, At, consumerVars
<1> HIDE DEF l
<1>2. TaskTypes /\ Covered /\ TaskInv /\ Alive(t)
  BY <1>1 DEF AllInv, CoreInv, TypeOK, DeliveryInv, Alive
<1>3. /\ pc' = [pc EXCEPT ![t] = l] /\ pc' \in [Tasks -> PC] /\ pc'[t] = l
      /\ \A u \in Tasks \ {t} : pc'[u] = pc[u]
      /\ raising' = raising /\ discoveryFinished' = discoveryFinished
  BY <1>1, <1>2 DEF GoTo, TaskTypes, runVars, PC
<1>4. Covered'
  BY <1>1, <1>2, CoverFrame
<1>5. ASSUME Clean PROVE CleanInv'
  <2>1. CASE t \in Items
    BY <1>1, <1>3, <1>5, <2>1, CleanWorker
  <2>2. CASE t = Producer
    <3>1. \A w \in Items : pc'[w] = pc[w]
      BY <1>3, <2>2
    <3>2. CleanInv
      BY <1>5 DEF AllInv, DeliveryInv
    <3>3. ASSUME NEW i \in 1..found', pc'[i] = "none" PROVE Settled(i)'
      <4>1. found \in 0..MaxItems
        BY <1>2 DEF TaskTypes
      <4>2. i \in Items
        BY <1>1, <4>1 DEF Items
      <4>3. QED  BY <1>1, <2>2, <3>1, <3>2, <3>3, <4>2 DEF CleanInv, Settled, Pending
    <3>4. discoveryFinished' => made'[Producer] = Unknown \/ Settled(Producer)'
      BY <1>1, <1>3, <3>2 DEF CleanInv, Settled
    <3>5. QED  BY <1>1, <1>3, <1>5, <3>1, <3>3, <3>4, CleanProducer
  <2>3. QED  BY <2>1, <2>2 DEF Tasks, Producer, Items
<1>6. QED  BY <1>1, <1>2, <1>3, <1>4, <1>5, DeliveryTask

\* by the put of the sentinel,
LEMMA DeliveryPutSentinel ==
  ASSUME AllInv, NEW t \in Tasks, PutSentinel(t)
  PROVE  DeliveryInv'
<1> USE Constants
<1>1. /\ pc[t] = "putSentinel" /\ Put(Sentinel)
      /\ pc' = [pc EXCEPT ![t] = IF t \in raising THEN "crashed" ELSE "ended"]
      /\ raising' = raising \ {t}
      /\ UNCHANGED <<found, made, sent, discoveryFinished, errors, leftBy, consumer,
                     cancelled, delivered>>
  BY DEF PutSentinel, At, consumerVars, runVars
<1>2. TypeOK /\ TaskTypes /\ Covered
  BY DEF AllInv, CoreInv, TypeOK, DeliveryInv
<1>3. /\ \A u \in Tasks \ {t} : pc'[u] = pc[u]
      /\ pc'[t] = IF t \in raising THEN "crashed" ELSE "ended"
  BY <1>1, <1>2 DEF TaskTypes
<1>4. Covered'
  BY <1>1, <1>2, CoverPutSentinel
<1>5. \A u \in raising' : pc'[u] = "putSentinel"
  BY <1>1, <1>3 DEF AllInv, DeliveryInv, CoreInv, TypeOK, GroupTypes
<1>6. consumer' # "done"
  BY <1>1 DEF AllInv, DeliveryInv, Done
<1>7. ASSUME Clean PROVE CleanInv'
  <2>1. CleanInv
    BY <1>7 DEF AllInv, DeliveryInv
  <2>2. ASSUME NEW w \in Items
        PROVE  /\ pc'[w] # "dropped"
               /\ pc'[w] \in {"putSentinel", "ended"} /\ w \notin raising' => Settled(w)'
    BY <1>1, <1>3, <2>1 DEF CleanInv, Settled
  <2>3. ASSUME NEW i \in 1..found', pc'[i] = "none" PROVE Settled(i)' \/ Pending(i)'
    <3>1. found \in 0..MaxItems
      BY <1>2 DEF TaskTypes
    <3>2. i \in Items /\ pc[i] = "none"
      BY <1>1, <1>3, <2>3, <3>1 DEF Items
    <3>3. pc[Producer] \in {"putSignal", "acquire"} => pc'[Producer] = pc[Producer]
      BY <1>1, <1>3
    <3>4. QED  BY <1>1, <2>1, <3>2, <3>3 DEF CleanInv, Settled, Pending
  <2>4. discoveryFinished' => made'[Producer] = Unknown \/ Settled(Producer)'
    BY <1>1, <2>1 DEF CleanInv, Settled
  <2>5. QED  BY <1>1, <2>1, <2>2, <2>3, <2>4 DEF CleanInv
<1>8. QED  BY <1>1, <1>4, <1>5, <1>6, <1>7 DEF DeliveryInv, Clean

\* Once a task is cancelled, nothing is clean any more.
LEMMA DeliveryCancel ==
  ASSUME AllInv, NEW t \in Tasks, DeliverCancel(t)
  PROVE  DeliveryInv'
<1> USE Constants
<1>1. /\ t \in cancelled
      /\ pc[t] \in {"new", "putSentinel", "discover", "putSignal", "acquire",
                    "putError", "process", "put"}
      /\ UNCHANGED <<sent, queue, errors, leftBy, consumer, delivered>>
  BY DEF DeliverCancel, consumerVars
<1>2. TaskTypes /\ Covered /\ \A u \in raising : pc[u] = "putSentinel" /\ u \in Tasks
  BY DEF AllInv, CoreInv, TypeOK, DeliveryInv, GroupTypes
<1>3. Covered'
  BY <1>1, <1>2, CoverFrame
<1>4. consumer' # "done"
  BY <1>1 DEF AllInv, DeliveryInv, Done
<1>5. ~Clean'
  <2>1. ~Clean
    BY <1>1 DEF AllInv, DeliveryInv, CleanInv
  <2>2. QED  BY <1>1, <2>1 DEF Clean
<1>6. \A u \in raising' : pc'[u] = "putSentinel"
  <2>1. CASE \/ pc[t] = "new" /\ GoTo(t, "dropped")
             \/ /\ pc[t] = "putSentinel" /\ pc' = [pc EXCEPT ![t] = "ended"]
                /\ raising' = raising \ {t}
    BY <1>2, <2>1 DEF GoTo, TaskTypes
  <2>2. ASSUME NEW f, NEW a, SignalCompleteIfIdle(t, f, a, FALSE),
               pc[t] # "putSentinel"
        PROVE  \A u \in raising' : pc'[u] = "putSentinel"
    <3> DEFINE r == FALSE
    <3>1. SignalCompleteIfIdle(t, f, a, r) /\ r \in BOOLEAN
      BY <2>2
    <3> HIDE DEF r
    <3>2. QED  BY <1>2, <2>2, <3>1, FinallyRaising
  <2>3. CASE pc[t] \in {"process", "put"} /\ WorkerFinally(t, FALSE)
    BY <2>2, <2>3 DEF WorkerFinally
  <2>4. CASE /\ pc[t] \in {"discover", "putSignal", "acquire", "putError"}
             /\ ProducerFinally(FALSE)
    <3>1. t = Producer
      BY <2>4 DEF AllInv, CoreInv, TaskInv, Tasks, Items, Producer
    <3> DEFINE f == TRUE
    <3>2. SignalCompleteIfIdle(Producer, f, activeWorkers, FALSE)
      BY <2>4 DEF ProducerFinally
    <3> HIDE DEF f
    <3>3. QED  BY <2>2, <2>4, <3>1, <3>2
  <2>5. QED  BY <2>1, <2>3, <2>4 DEF DeliverCancel
<1>7. QED  BY <1>3, <1>4, <1>5, <1>6 DEF DeliveryInv

\* by the task group's reaction to an error,
LEMMA DeliveryOnTaskError ==
  ASSUME AllInv, NEW t \in Tasks, OnTaskError(t)
  PROVE  DeliveryInv'
<1>1. /\ pc[t] = "crashed" /\ pc' = [pc EXCEPT ![t] = "ended"] /\ errors' = TRUE
      /\ UNCHANGED <<sent, queue, raising, consumer, delivered>>
  BY DEF OnTaskError
<1>2. TaskTypes /\ Covered /\ \A u \in raising : pc[u] = "putSentinel" /\ u \in Tasks
  BY DEF AllInv, CoreInv, TypeOK, DeliveryInv, GroupTypes
<1>3. Covered'
  BY <1>1, <1>2, CoverFrame
<1>4. \A u \in raising' : pc'[u] = "putSentinel"
  BY <1>1, <1>2 DEF TaskTypes
<1>5. consumer' # "done"
  BY <1>1 DEF AllInv, DeliveryInv, Done
<1>6. QED  BY <1>1, <1>3, <1>4, <1>5 DEF DeliveryInv, Clean

\* and by the consumer's steps.
LEMMA DeliveryConsumer ==
  ASSUME AllInv, ConsumerStep \/ CallerStep \/ CancelParent \/ CancelExit \/ UNCHANGED vars
  PROVE  DeliveryInv'
<1>1. UNCHANGED <<taskVars, runVars, raising, errors>>
  BY DEF ConsumerStep, CallerStep, Receive, ReceiveSentinel, Resume, Close,
         ConsumerCancelled, Exit, CancelParent, CancelExit, groupVars, vars
<1>2. TypeOK /\ TaskInv /\ Covered /\ SentinelInv
  BY DEF AllInv, CoreInv, DeliveryInv
<1>3. Covered'
  <2>1. CASE Receive
    BY <1>2, <2>1, CoverReceive
  <2>2. CASE ReceiveSentinel
    BY <1>2, <2>2, CoverReceiveSentinel
  <2>3. CASE UNCHANGED <<queue, delivered>>
    BY <1>1, <1>2, <2>3, CoverFrame DEF taskVars
  <2>4. QED
    BY <2>1, <2>2, <2>3 DEF ConsumerStep, CallerStep, Resume, Close,
       ConsumerCancelled, Exit, CancelParent, CancelExit, vars, consumerVars
<1>4. \A t \in raising' : pc'[t] = "putSentinel"
  BY <1>1 DEF AllInv, DeliveryInv, taskVars
<1>5. consumer' = "done" => \A t \in Tasks : Done(t)'
  BY <1>1 DEF AllInv, DeliveryInv, taskVars, Done, ConsumerStep, CallerStep, Receive,
     ReceiveSentinel, Resume, Close, ConsumerCancelled, Exit, CancelParent, CancelExit,
     Leave, vars, consumerVars
<1>6. ASSUME Clean' PROVE CleanInv'
  <2>1. Clean /\ cancelled' = cancelled
    BY <1>1, <1>2, <1>6 DEF Clean, SentinelInv, ConsumerStep, CallerStep, Receive,
       ReceiveSentinel, Resume, Close, ConsumerCancelled, Exit, CancelParent, CancelExit,
       Leave, vars, consumerVars, groupVars
  <2>2. QED  BY <1>1, <2>1, CleanFrame DEF runVars
<1>7. QED  BY <1>3, <1>4, <1>5, <1>6 DEF DeliveryInv

-----------------------------------------------------------------------------
(* The theorem *)

\* DeliveryInv holds initially.
LEMMA DeliveryInit == Init => DeliveryInv
<1> SUFFICES ASSUME Init PROVE DeliveryInv
  OBVIOUS
<1>1. \A t \in Tasks : sent[t] = 0 /\ pc[t] \in {"new", "none"}
  BY DEF Init
<1>2. Covered
  BY <1>1 DEF Covered
<1>3. raising = {} /\ consumer # "done" /\ found = 0 /\ cancelled = {}
      /\ ~discoveryFinished
  BY DEF Init
<1>4. CleanInv
  BY <1>1, <1>3, Constants DEF CleanInv
<1>5. QED  BY <1>2, <1>3, <1>4 DEF DeliveryInv

\* Every step preserves the whole invariant.
LEMMA AllStep == AllInv /\ [Next]_vars => AllInv'
<1> SUFFICES ASSUME AllInv, [Next]_vars PROVE AllInv'
  OBVIOUS
<1>1. CoreInv' /\ SentinelInv'
  BY CoreStep, SentinelStep DEF AllInv
<1>2. ASSUME NEW t \in Tasks, TaskStep(t) PROVE DeliveryInv'
  BY <1>2, DeliveryStart, DeliveryPutSentinel, DeliveryCancel, DeliveryOnTaskError
     DEF TaskStep
<1>3. ASSUME ProducerStep PROVE DeliveryInv'
  BY <1>2, <1>3, Constants, DeliveryProducer DEF ProducerStep
<1>4. ASSUME NEW w \in Items, WorkerStep(w) PROVE DeliveryInv'
  BY <1>2, <1>4, Constants, DeliveryWorker DEF WorkerStep
<1>5. ASSUME ConsumerStep \/ CallerStep \/ CancelParent \/ CancelExit \/ UNCHANGED vars
      PROVE  DeliveryInv'
  BY <1>5, DeliveryConsumer
<1>6. DeliveryInv'
  BY <1>3, <1>4, <1>5 DEF Next, Terminated
<1>7. QED  BY <1>1, <1>6 DEF AllInv

\* The whole invariant holds in every reachable state.
LEMMA AllCorrect == Spec => []AllInv
<1>1. Init => AllInv
  BY CoreInit, SentinelInit, DeliveryInit DEF AllInv
<1>2. QED  BY <1>1, AllStep, PTL DEF Spec

\* The invariant TLC checks as PipelineInv is inductive together with the types
\* and the permits, so it holds for every number of workers and items.
THEOREM PipelineCorrect == Spec => []PipelineInv
<1>1. AllInv => PipelineInv
  BY DEF AllInv, CoreInv, PipelineInv
<1>2. QED  BY <1>1, AllCorrect, PTL

\* With the whole invariant, a complete stream has delivered everything.
LEMMA AllDelivered == AllInv => CompleteMeansDelivered
<1> SUFFICES ASSUME AllInv, Status = "complete"
             PROVE  /\ discoveryFinished
                    /\ \A i \in 1..found : made[i] # Unknown
                    /\ \A s \in Tasks : \A k \in 1..made[s] : <<s, k>> \in delivered
  BY DEF CompleteMeansDelivered
<1> USE Constants
<1>1. consumer = "done" /\ ~errors /\ leftBy = "complete"
  BY DEF Status
<1>2. /\ CleanInv /\ completeSignaled /\ discoveryFinished /\ queue = <<>>
      /\ \A t \in Tasks : Done(t)
  BY <1>1 DEF AllInv, DeliveryInv, SentinelInv, Clean
<1>3. TaskTypes /\ TaskInv /\ Covered /\ \A t \in raising : pc[t] = "putSentinel" /\ t \in Tasks
  BY DEF AllInv, CoreInv, TypeOK, DeliveryInv, GroupTypes
<1>4. raising = {}
  BY <1>2, <1>3 DEF Done
<1>5. ASSUME NEW i \in 1..found PROVE Settled(i)
  <2>1. found \in 0..MaxItems
    BY <1>3 DEF TaskTypes
  <2>2. i \in Items
    BY <2>1 DEF Items
  <2>3. pc[i] \in {"none", "ended"}
    BY <1>2, <2>2 DEF CleanInv, Done
  <2>4. ~Pending(i)
    BY <1>2 DEF Done, Pending
  <2>5. QED  BY <1>2, <1>4, <2>2, <2>3, <2>4 DEF CleanInv
<1>6. ASSUME NEW s \in Tasks PROVE made[s] = Unknown \/ Settled(s)
  <2>1. CASE s = Producer
    BY <1>2, <2>1 DEF CleanInv
  <2>2. CASE s \in Items /\ s > found
    BY <1>3, <2>2 DEF TaskInv
  <2>3. CASE s \in Items /\ ~(s > found)
    <3>1. s \in 1..found
      BY <1>3, <2>3 DEF TaskTypes, Items
    <3>2. QED  BY <1>5, <3>1
  <2>4. QED  BY <2>1, <2>2, <2>3 DEF Tasks, Items, Producer
<1>7. ASSUME NEW s \in Tasks, NEW k \in 1..made[s] PROVE <<s, k>> \in delivered
  <2>1. made[s] # Unknown
    BY DEF Unknown
  <2>2. k \in 1..sent[s]
    BY <1>6, <2>1 DEF Settled
  <2>3. ~Queued(<<s, k>>)
    BY <1>2 DEF Queued
  <2>4. QED  BY <1>3, <2>2, <2>3 DEF Covered
<1>8. QED  BY <1>2, <1>5, <1>7 DEF Settled

\* No outcome is lost: a stream that ends with the sentinel and without an
\* exception has handed every outcome of every discovered item to the caller,
\* and discovery had ended (_signal_complete_if_idle's condition is enough).
THEOREM DeliveryCorrect == Spec => []CompleteMeansDelivered
BY AllDelivered, AllCorrect, PTL

-----------------------------------------------------------------------------
(* After the consumer has left *)

\* A working task that is not cancelled: nobody has left yet.
LEMMA WorkingMeansOpen ==
  ASSUME LeavingInv, NEW t \in Tasks, Alive(t), t \notin cancelled
  PROVE  ~aborting /\ ~shutdown
BY DEF LeavingInv

\* The steps of a task of its own accord: it is working, not cancelled, and
\* none of them touches the group or the consumer.
LEMMA OwnStep ==
  ASSUME \/ \E t \in Tasks : Start(t)
         \/ \E isSignal \in BOOLEAN : Discover(isSignal)
         \/ PutSignal \/ SpawnWorker \/ DiscoveryEnds \/ DiscoveryFails
         \/ PutDiscoveryError \/ DiscoveryCrashes
         \/ \E w \in Items : \/ \E n \in 0..MaxOutcomes : Process(w, n)
                             \/ PutOutcome(w) \/ ProcessCrashes(w)
  PROVE  /\ \E t \in Tasks : Alive(t) /\ t \notin cancelled
         /\ UNCHANGED <<shutdown, cancelled, aborting, errors, consumerVars>>
BY Constants
   DEF Start, Discover, PutSignal, SpawnWorker, DiscoveryEnds, DiscoveryFails,
       PutDiscoveryError, DiscoveryCrashes, Process, PutOutcome, ProcessCrashes,
       At, Alive

\* So none of them happens after the consumer has left or the group aborted.
LEMMA OwnStepOpen ==
  ASSUME LeavingInv,
         \/ \E t \in Tasks : Start(t)
         \/ \E isSignal \in BOOLEAN : Discover(isSignal)
         \/ PutSignal \/ SpawnWorker \/ DiscoveryEnds \/ DiscoveryFails
         \/ PutDiscoveryError \/ DiscoveryCrashes
         \/ \E w \in Items : \/ \E n \in 0..MaxOutcomes : Process(w, n)
                             \/ PutOutcome(w) \/ ProcessCrashes(w)
  PROVE  /\ ~aborting /\ ~shutdown /\ ~aborting' /\ ~shutdown'
         /\ UNCHANGED <<errors, consumerVars, cancelled>>
<1>1. PICK t \in Tasks : Alive(t) /\ t \notin cancelled
  BY OwnStep
<1>2. ~aborting /\ ~shutdown
  BY <1>1, WorkingMeansOpen
<1>3. QED  BY <1>2, OwnStep

\* A cancelled task that wakes up moves to one of these labels.
LEMMA CancelLabel ==
  ASSUME TaskTypes, TaskInv, NEW t \in Tasks, DeliverCancel(t)
  PROVE  /\ pc'[t] \in Ends \cup {"dropped"}
         /\ \A u \in Tasks \ {t} : pc'[u] = pc[u]
<1>1. CASE pc[t] = "new" /\ GoTo(t, "dropped")
  BY <1>1 DEF GoTo, TaskTypes
<1>2. CASE pc[t] = "putSentinel" /\ pc' = [pc EXCEPT ![t] = "ended"]
  BY <1>2 DEF TaskTypes, Ends
<1>3. ASSUME NEW f, NEW a, SignalCompleteIfIdle(t, f, a, FALSE)
      PROVE  pc'[t] \in Ends /\ \A u \in Tasks \ {t} : pc'[u] = pc[u]
  <2> DEFINE r == FALSE
  <2>1. SignalCompleteIfIdle(t, f, a, r) /\ r \in BOOLEAN
    BY <1>3
  <2> HIDE DEF r
  <2>2. QED  BY <2>1, FinallyRaising
<1>4. CASE pc[t] \in {"process", "put"} /\ WorkerFinally(t, FALSE)
  BY <1>3, <1>4 DEF WorkerFinally
<1>5. CASE /\ pc[t] \in {"discover", "putSignal", "acquire", "putError"}
           /\ ProducerFinally(FALSE)
  <2>1. t = Producer
    BY <1>5 DEF TaskInv, Tasks, Items, Producer
  <2> DEFINE f == TRUE
  <2>2. SignalCompleteIfIdle(t, f, activeWorkers, FALSE)
    BY <1>5, <2>1 DEF ProducerFinally
  <2> HIDE DEF f
  <2>3. QED  BY <1>3, <2>2
<1>6. QED
  BY <1>1, <1>2, <1>4, <1>5 DEF DeliverCancel

\* LeavingInv holds initially,
LEMMA LeavingInit == Init => LeavingInv
BY DEF Init, LeavingInv

\* and is preserved: whoever leaves or aborts cancels every running task, and
\* the sentinel is received only when no task is working any more.
LEMMA LeavingStep == AllInv /\ LeavingInv /\ [Next]_vars => LeavingInv'
<1> SUFFICES ASSUME AllInv, LeavingInv, [Next]_vars PROVE LeavingInv'
  OBVIOUS
<1>1. TaskTypes /\ TaskInv /\ TypeOK /\ SentinelInv /\ CoreInv
  BY DEF AllInv, CoreInv, TypeOK
<1>2. ASSUME NEW t \in Tasks, Alive(t) PROVE t \in Running
  BY <1>2 DEF Alive, Running, Done
<1>3. ASSUME NEW t \in Tasks, TaskStep(t) PROVE LeavingInv'
  <2>1. CASE Start(t)
    BY <2>1, OwnStepOpen DEF LeavingInv
  <2>2. CASE PutSentinel(t)
    <3>1. pc'[t] \in {"crashed", "ended"} /\ \A u \in Tasks \ {t} : pc'[u] = pc[u]
      BY <1>1, <2>2 DEF PutSentinel, TaskTypes
    <3>2. UNCHANGED <<aborting, shutdown, cancelled>>
      BY <2>2 DEF PutSentinel
    <3>3. QED  BY <3>1, <3>2 DEF LeavingInv, Alive
  <2>3. CASE DeliverCancel(t)
    <3>1. UNCHANGED <<aborting, shutdown>> /\ cancelled' = cancelled \ {t}
      BY <2>3 DEF DeliverCancel
    <3>2. /\ pc'[t] \in Ends \cup {"dropped"}
          /\ \A u \in Tasks \ {t} : pc'[u] = pc[u]
      BY <1>1, <2>3, CancelLabel
    <3>3. QED  BY <3>1, <3>2 DEF LeavingInv, Alive, Ends
  <2>4. CASE OnTaskError(t)
    <3>1. pc'[t] = "ended" /\ \A u \in Tasks \ {t} : pc'[u] = pc[u]
      BY <1>1, <2>4 DEF OnTaskError, TaskTypes
    <3>2. cancelled' = Running \/ (aborting /\ cancelled' = cancelled)
      BY <2>4, Zenon DEF OnTaskError
    <3>3. QED  BY <1>2, <3>1, <3>2 DEF LeavingInv, Alive
  <2>5. QED  BY <1>3, <2>1, <2>2, <2>3, <2>4 DEF TaskStep
<1>4. ASSUME ProducerStep PROVE LeavingInv'
  BY <1>3, <1>4, Constants, OwnStepOpen DEF ProducerStep, LeavingInv
<1>5. ASSUME NEW w \in Items, WorkerStep(w) PROVE LeavingInv'
  BY <1>3, <1>5, Constants, OwnStepOpen DEF WorkerStep, LeavingInv
<1>6. CASE Close \/ ConsumerCancelled \/ CancelExit
  <2>1. pc' = pc /\ (cancelled' = cancelled \cup Running \/ (aborting /\ cancelled' = cancelled))
    BY <1>6 DEF Close, ConsumerCancelled, CancelExit, taskVars
  <2>2. QED  BY <1>2, <2>1 DEF LeavingInv, Alive
<1>7. CASE ReceiveSentinel
  <2>1. pc' = pc
    BY <1>7 DEF ReceiveSentinel, taskVars
  <2>2. Queued(Sentinel)
    <3>1. Len(queue) \in Nat /\ Len(queue) >= 1 /\ Head(queue) = queue[1]
      BY <1>1, <1>7 DEF ReceiveSentinel, TypeOK, QueueType
    <3>2. QED  BY <1>7, <3>1 DEF ReceiveSentinel, Queued
  <2>3. completeSignaled
    BY <1>1, <2>2 DEF SentinelInv
  <2>4. pc[Producer] \in Ends /\ Holding = {}
    BY <1>1, <2>3, AliveNotSignaled
  <2>5. \A t \in Tasks : ~Alive(t)
    BY <1>1, <2>4 DEF Alive, Holding, TaskInv, Ends, Tasks, Items, Producer
  <2>6. QED  BY <2>1, <2>5 DEF LeavingInv, Alive
<1>8. CASE Receive \/ Resume \/ Exit \/ CancelParent \/ UNCHANGED vars
  BY <1>8 DEF Receive, Resume, Exit, CancelParent, LeavingInv, Alive, taskVars,
     groupVars, vars
<1>9. QED
  BY <1>4, <1>5, <1>6, <1>7, <1>8
     DEF Next, ConsumerStep, CallerStep, Terminated

\* In every reachable state.
LEMMA LeavingCorrect == Spec => [](AllInv /\ LeavingInv)
<1>1. Init => LeavingInv
  BY LeavingInit
<1>2. QED  BY <1>1, LeavingStep, AllCorrect, PTL DEF Spec

-----------------------------------------------------------------------------
(* Silence *)

\* A finally block that runs after the consumer has left puts no sentinel.
LEMMA FinallyShut ==
  ASSUME shutdown, NEW t \in Tasks, NEW f, NEW a, NEW r \in BOOLEAN,
         SignalCompleteIfIdle(t, f, a, r)
  PROVE  /\ pc' = [pc EXCEPT ![t] = IF r THEN "crashed" ELSE "ended"]
         /\ raising' = raising
BY DEF SignalCompleteIfIdle

\* Once the consumer has left, the tasks only wind up: no item is taken, no
\* outcome is made, queued or delivered, and permits only come back.  At most a
\* sentinel still reaches the queue.
LEMMA WindUp ==
  ASSUME AllInv, LeavingInv, [Next]_vars, shutdown
  PROVE  /\ UNCHANGED <<shutdown, found, made, delivered>>
         /\ permits' >= permits
         /\ \/ queue' = queue
            \/ /\ queue' = Append(queue, Sentinel)
               /\ \E t \in Tasks : At(t, "putSentinel")
<1>1. permits \in Nat /\ consumer \in {"exit", "done"} /\ TypeOK
  BY Constants DEF AllInv, CoreInv, TypeOK, RunTypes, SentinelInv, ConsumerTypes
<1>2. permits >= permits /\ permits + 1 >= permits
  BY <1>1
<1>3. ASSUME NEW t \in Tasks, TaskStep(t)
      PROVE  /\ UNCHANGED <<shutdown, found, made, delivered>>
             /\ permits' >= permits
             /\ \/ queue' = queue
                \/ /\ queue' = Append(queue, Sentinel)
                   /\ \E u \in Tasks : At(u, "putSentinel")
  <2>1. ~Start(t)
    BY OwnStepOpen
  <2>2. CASE PutSentinel(t)
    BY <1>2, <2>2 DEF PutSentinel, Put, runVars, consumerVars
  <2>3. CASE DeliverCancel(t)
    <3>1. UNCHANGED <<shutdown, found, made, delivered, queue>>
      BY <2>3 DEF DeliverCancel, consumerVars
    <3>2. permits' = permits \/ permits' = permits + 1
      BY <2>3 DEF DeliverCancel, ProducerFinally, WorkerFinally, GoTo, runVars
    <3>3. QED  BY <1>2, <3>1, <3>2
  <2>4. CASE OnTaskError(t)
    BY <1>2, <2>4 DEF OnTaskError, runVars
  <2>5. QED  BY <1>3, <2>1, <2>2, <2>3, <2>4 DEF TaskStep
<1>4. CASE ProducerStep
  BY <1>3, <1>4, Constants, OwnStepOpen DEF ProducerStep
<1>5. ASSUME NEW w \in Items PROVE WorkerStep(w) => TaskStep(w)
  BY OwnStepOpen DEF WorkerStep
<1>6. CASE ConsumerStep \/ CallerStep \/ CancelParent \/ CancelExit \/ UNCHANGED vars
  BY <1>1, <1>2, <1>6
     DEF ConsumerStep, CallerStep, Receive, ReceiveSentinel, Resume, Close,
         ConsumerCancelled, Exit, CancelParent, CancelExit, vars, taskVars,
         runVars, consumerVars
<1>7. QED
  BY <1>3, <1>4, <1>5, <1>6, Constants DEF Next, Terminated

\* CalmInv holds initially,
LEMMA CalmInit == Init => CalmInv
BY DEF Init, CalmInv

\* A finally block of a task that raises nothing.
LEMMA FinallyCalm ==
  ASSUME TaskTypes, CalmInv, NEW t \in Tasks, NEW f, NEW a,
         SignalCompleteIfIdle(t, f, a, FALSE)
  PROVE  /\ raising' = raising
         /\ \A u \in Tasks : pc'[u] # "crashed"
         /\ shutdown => \A u \in Tasks : pc'[u] = "putSentinel" => pc[u] = "putSentinel"
  <1>1. raising' = raising
    BY DEF SignalCompleteIfIdle
  <1>2. pc' = [pc EXCEPT ![t] = "putSentinel"] \/ pc' = [pc EXCEPT ![t] = "ended"]
    BY DEF SignalCompleteIfIdle
  <1>3. shutdown => pc' = [pc EXCEPT ![t] = "ended"]
    BY DEF SignalCompleteIfIdle
  <1>4. QED  BY <1>1, <1>2, <1>3 DEF TaskTypes, CalmInv

\* and without faults every step preserves it.
LEMMA CalmStep ==
  NoFaults /\ AllInv /\ LeavingInv /\ CalmInv /\ [Next]_vars => CalmInv'
<1> SUFFICES ASSUME NoFaults, AllInv, LeavingInv, CalmInv, [Next]_vars PROVE CalmInv'
  OBVIOUS
<1> USE Constants
<1>1. TaskTypes /\ TaskInv /\ TypeOK /\ SentinelInv /\ GroupTypes
  BY DEF AllInv, CoreInv, TypeOK
<1>2. ASSUME NEW t \in Tasks, ~aborting', ~shutdown', errors' = errors,
             raising' = raising, \A u \in Tasks : pc'[u] # "crashed"
      PROVE  CalmInv'
  BY <1>2 DEF CalmInv
<1>3. ASSUME NEW t \in Tasks, NEW l, l # "crashed", GoTo(t, l)
      PROVE  raising' = raising /\ \A u \in Tasks : pc'[u] # "crashed"
  BY <1>1, <1>3 DEF GoTo, CalmInv, TaskTypes
<1>4. ASSUME ProducerFinally(FALSE)
      PROVE  raising' = raising /\ \A u \in Tasks : pc'[u] # "crashed"
  <2> DEFINE f == TRUE
  <2>1. SignalCompleteIfIdle(Producer, f, activeWorkers, FALSE)
    BY <1>4 DEF ProducerFinally
  <2> HIDE DEF f
  <2>2. QED  BY <1>1, <2>1, FinallyCalm
<1>5. ASSUME NEW w \in Items, WorkerFinally(w, FALSE)
      PROVE  raising' = raising /\ \A u \in Tasks : pc'[u] # "crashed"
  BY <1>1, <1>5, FinallyCalm DEF WorkerFinally
<1>6. ASSUME NEW t \in Tasks, TaskStep(t) PROVE CalmInv'
  <2>1. CASE Start(t)
    <3>1. GoTo(t, "discover") \/ GoTo(t, "process")
      BY <2>1 DEF Start
    <3>2. raising' = raising /\ \A u \in Tasks : pc'[u] # "crashed"
      BY <1>3, <3>1
    <3>3. QED  BY <1>2, <2>1, <3>2, OwnStepOpen
  <2>2. CASE PutSentinel(t)
    BY <1>1, <2>2 DEF PutSentinel, CalmInv, TaskTypes
  <2>3. CASE DeliverCancel(t)
    <3>1. UNCHANGED <<shutdown, aborting, errors>> /\ cancelled' = cancelled \ {t}
      BY <2>3 DEF DeliverCancel
    <3>2. /\ pc'[t] \in Ends \cup {"dropped"}
          /\ \A u \in Tasks \ {t} : pc'[u] = pc[u]
      BY <1>1, <2>3, CancelLabel
    <3>3. CASE pc[t] = "new" /\ GoTo(t, "dropped")
      BY <1>1, <3>1, <3>3 DEF GoTo, CalmInv, TaskTypes
    <3>4. CASE /\ pc[t] = "putSentinel" /\ pc' = [pc EXCEPT ![t] = "ended"]
               /\ raising' = raising \ {t}
      BY <1>1, <3>1, <3>4 DEF CalmInv, TaskTypes
    <3>5. ASSUME NEW f, NEW a, SignalCompleteIfIdle(t, f, a, FALSE),
                 pc[t] # "putSentinel"
          PROVE  CalmInv'
      BY <1>1, <3>1, <3>5, FinallyCalm DEF CalmInv
    <3>6. CASE pc[t] \in {"process", "put"} /\ WorkerFinally(t, FALSE)
      BY <3>5, <3>6 DEF WorkerFinally
    <3>7. CASE /\ pc[t] \in {"discover", "putSignal", "acquire", "putError"}
               /\ ProducerFinally(FALSE)
      <4>1. t = Producer
        BY <1>1, <3>7 DEF TaskInv, Tasks, Items, Producer
      <4> DEFINE f == TRUE
      <4>2. SignalCompleteIfIdle(t, f, activeWorkers, FALSE)
        BY <3>7, <4>1 DEF ProducerFinally
      <4> HIDE DEF f
      <4>3. QED  BY <3>5, <3>7, <4>2
    <3>8. QED  BY <2>3, <3>3, <3>4, <3>6, <3>7 DEF DeliverCancel
  <2>4. ~OnTaskError(t)
    BY DEF OnTaskError, CalmInv
  <2>5. QED  BY <1>6, <2>1, <2>2, <2>3, <2>4 DEF TaskStep
<1>7. ASSUME \/ \E isSignal \in BOOLEAN : Discover(isSignal)
             \/ PutSignal \/ SpawnWorker \/ DiscoveryEnds \/ DiscoveryFails
             \/ PutDiscoveryError
      PROVE  CalmInv'
  <2>1. ~aborting' /\ ~shutdown' /\ ~shutdown /\ errors' = errors
    BY <1>7, OwnStepOpen DEF consumerVars
  <2>2. \/ \E l \in {"putSignal", "acquire", "discover", "putError"} : GoTo(Producer, l)
        \/ ProducerFinally(FALSE)
        \/ /\ pc' = [pc EXCEPT ![Producer] = "discover", ![found] = "new"]
           /\ raising' = raising
    BY <1>7, <2>1, Zenon
       DEF Discover, PutSignal, SpawnWorker, DiscoveryEnds, DiscoveryFails, PutDiscoveryError
  <2>3. raising' = raising /\ \A u \in Tasks : pc'[u] # "crashed"
    <3>1. ASSUME NEW l \in {"putSignal", "acquire", "discover", "putError"}, GoTo(Producer, l)
          PROVE  raising' = raising /\ \A u \in Tasks : pc'[u] # "crashed"
      BY <1>3, <3>1
    <3>2. ASSUME pc' = [pc EXCEPT ![Producer] = "discover", ![found] = "new"]
          PROVE  \A u \in Tasks : pc'[u] # "crashed"
      BY <1>1, <3>2 DEF CalmInv, TaskTypes
    <3>3. QED  BY <1>4, <2>2, <3>1, <3>2
  <2>4. QED  BY <1>2, <2>1, <2>3
<1>8. ASSUME NEW w \in Items, NEW n \in 0..MaxOutcomes, Process(w, n) \/ PutOutcome(w)
      PROVE  CalmInv'
  <2>1. ~aborting' /\ ~shutdown' /\ errors' = errors
    BY <1>8, OwnStepOpen
  <2>2. GoTo(w, "put") \/ WorkerFinally(w, FALSE)
    BY <1>8, Zenon DEF Process, PutOutcome
  <2>3. raising' = raising /\ \A u \in Tasks : pc'[u] # "crashed"
    BY <1>3, <1>5, <2>2
  <2>4. QED  BY <1>2, <2>1, <2>3
<1>9. ~DiscoveryCrashes /\ \A w \in Items : ~ProcessCrashes(w)
  BY DEF DiscoveryCrashes, ProcessCrashes, NoFaults
<1>10. CASE Close \/ ConsumerCancelled \/ CancelExit
  <2>1. /\ pc' = pc /\ UNCHANGED <<raising, errors>> /\ shutdown'
        /\ (cancelled' = cancelled \cup Running \/ (aborting /\ cancelled' = cancelled))
    BY <1>1, <1>10 DEF Close, ConsumerCancelled, CancelExit, taskVars, Leave, SentinelInv
  <2>2. ASSUME NEW t \in Tasks, pc[t] = "putSentinel" PROVE t \in Running
    BY <2>2 DEF Running, Done
  <2>3. QED  BY <2>1, <2>2 DEF CalmInv
<1>11. CASE ReceiveSentinel
  <2>1. pc' = pc /\ UNCHANGED <<raising, errors, aborting, cancelled>> /\ shutdown'
    BY <1>11 DEF ReceiveSentinel, taskVars, groupVars, Leave
  <2>2. Queued(Sentinel)
    <3>1. Len(queue) \in Nat /\ Len(queue) >= 1 /\ Head(queue) = queue[1]
      BY <1>1, <1>11 DEF ReceiveSentinel, TypeOK, QueueType
    <3>2. QED  BY <1>11, <3>1 DEF ReceiveSentinel, Queued
  <2>3. \A t \in Tasks : pc[t] # "putSentinel"
    BY <1>1, <2>2 DEF SentinelInv
  <2>4. QED  BY <2>1, <2>3 DEF CalmInv
<1>12. CASE Receive \/ Resume \/ Exit \/ CancelParent \/ UNCHANGED vars
  BY <1>12 DEF Receive, Resume, Exit, CancelParent, CalmInv, taskVars, groupVars, vars
<1>13. QED
  BY <1>6, <1>7, <1>8, <1>9, <1>10, <1>11, <1>12
     DEF Next, ProducerStep, WorkerStep, ConsumerStep, CallerStep, Terminated

\* Without faults, all of it holds in every reachable state.
LEMMA CalmCorrect == ASSUME NoFaults PROVE Spec => [](AllInv /\ LeavingInv /\ CalmInv)
<1>1. AllInv /\ LeavingInv /\ CalmInv /\ [Next]_vars => CalmInv'
  BY CalmStep
<1>2. QED  BY <1>1, CalmInit, LeavingCorrect, PTL DEF Spec

\* Whatever raises, closes or cancels: once the consumer has left, no item is
\* taken up, no outcome is made, queued or delivered, and permits only come
\* back; at most one task that was already past its shutdown test still queues
\* the sentinel (pipeline.py:97-102).
THEOREM OnlySentinelAfterShutdown ==
  Spec => [][shutdown => /\ queue' \in {queue, Append(queue, Sentinel)}
                         /\ UNCHANGED <<found, made, delivered>>
                         /\ permits' >= permits]_vars
<1>1. AllInv /\ LeavingInv /\ [Next]_vars
        => [shutdown => /\ queue' \in {queue, Append(queue, Sentinel)}
                        /\ UNCHANGED <<found, made, delivered>>
                        /\ permits' >= permits]_vars
  BY WindUp
<1>2. QED  BY <1>1, LeavingCorrect, PTL DEF Spec

\* If nothing raises what its caller does not catch, nothing at all is queued
\* after the consumer has left.
THEOREM QuietCorrect == ASSUME NoFaults PROVE Spec => QuietAfterShutdown
<1>1. AllInv /\ LeavingInv /\ CalmInv /\ [Next]_vars
        => [shutdown => /\ queue' = queue
                        /\ found' = found
                        /\ permits' >= permits]_vars
  BY WindUp DEF CalmInv, At
<1>2. QED  BY <1>1, CalmCorrect, PTL DEF Spec, QuietAfterShutdown

-----------------------------------------------------------------------------
(* Backpressure *)

\* The items that have an outcome in the queue.
QueuedItems == {queue[j][1] : j \in 1..Len(queue)}

\* They are at most as many as the queue has slots.
LEMMA QueuedItemsBound ==
  ASSUME QueueType
  PROVE  IsFiniteSet(QueuedItems) /\ Cardinality(QueuedItems) <= WorkerTasks
<1> DEFINE S == 1..Len(queue)
           f == [j \in S |-> queue[j][1]]
<1>1. Len(queue) \in Nat /\ Len(queue) <= WorkerTasks
  BY DEF QueueType
<1>2. IsFiniteSet(S) /\ Cardinality(S) = Len(queue)
  <2>1. /\ IsFiniteSet(S)
        /\ Cardinality(S) = IF 1 > Len(queue) THEN 0 ELSE Len(queue) - 1 + 1
    BY <1>1, FS_Interval
  <2>2. QED  BY <1>1, <2>1
<1>3. f \in Surjection(S, QueuedItems)
  BY DEF Surjection, QueuedItems
<1>4. IsFiniteSet(QueuedItems) /\ Cardinality(QueuedItems) <= Cardinality(S)
  BY <1>2, <1>3, FS_Surjection
<1>5. QED
  BY <1>1, <1>2, <1>4, FS_CardinalityType, Constants

\* Two sets of at most m and n elements have at most m + n together.
LEMMA UnionBound ==
  ASSUME NEW S, NEW T, IsFiniteSet(S), IsFiniteSet(T),
         NEW m \in Nat, NEW n \in Nat, Cardinality(S) <= m, Cardinality(T) <= n
  PROVE  IsFiniteSet(S \cup T) /\ Cardinality(S \cup T) <= m + n
<1>1. IsFiniteSet(S \cap T)
  BY FS_Intersection
<1>2. /\ Cardinality(S) \in Nat /\ Cardinality(T) \in Nat
      /\ Cardinality(S \cap T) \in Nat
  BY <1>1, FS_CardinalityType
<1>3. /\ IsFiniteSet(S \cup T)
      /\ Cardinality(S \cup T) = Cardinality(S) + Cardinality(T) - Cardinality(S \cap T)
  BY FS_Union
<1>4. QED  BY <1>2, <1>3

\* As long as the consumer has not left, an item in flight has a worker with a
\* permit, or an outcome in the queue, or the producer holds it.
LEMMA InFlightWhere ==
  ASSUME AllInv, CalmInv, Clean
  PROVE  InFlight \subseteq Holding \cup QueuedItems \cup {found}
<1> SUFFICES ASSUME NEW i \in InFlight, i \notin Holding, i # found \/ ~Pending(i)
             PROVE  i \in QueuedItems
  BY DEF Pending
<1> USE Constants
<1>1. /\ TaskTypes /\ TaskInv /\ Covered /\ CleanInv /\ raising = {}
      /\ \A t \in Tasks : pc[t] # "crashed"
  BY DEF AllInv, CoreInv, TypeOK, DeliveryInv, CalmInv
<1>2. i \in 1..found /\ i \in Items /\ i \in Tasks
  BY <1>1 DEF InFlight, TaskTypes, Items
<1>3. pc[i] \in {"none", "putSentinel", "ended"}
  BY <1>1, <1>2 DEF Holding, TaskTypes, TaskInv, PC
<1>4. ~Pending(i)
  BY DEF Pending
<1>5. Settled(i)
  BY <1>1, <1>2, <1>3, <1>4 DEF CleanInv
<1>6. PICK k \in 1..made[i] : <<i, k>> \notin delivered
  BY <1>5 DEF InFlight, Settled
<1>7. Queued(<<i, k>>)
  BY <1>1, <1>2, <1>5, <1>6 DEF Covered, Settled
<1>8. QED  BY <1>7 DEF Queued, QueuedItems

\* So there are at most 2 * worker_tasks + 1 of them.
LEMMA BackpressureClean == AllInv /\ CalmInv /\ Clean => Backpressure
<1> SUFFICES ASSUME AllInv, CalmInv, Clean PROVE Backpressure
  OBVIOUS
<1> USE Constants
<1>1. IsFiniteSet(Holding) /\ Cardinality(Holding) <= WorkerTasks
  BY HoldingFinite DEF AllInv, CoreInv, TypeOK, PermitsConserved, RunTypes
<1>2. IsFiniteSet(QueuedItems) /\ Cardinality(QueuedItems) <= WorkerTasks
  BY QueuedItemsBound DEF AllInv, CoreInv, TypeOK
<1>3. IsFiniteSet({found}) /\ Cardinality({found}) <= 1
  <2>1. IsFiniteSet({found}) /\ Cardinality({found}) = 1
    BY FS_Singleton, Zenon
  <2>2. QED  BY <2>1
<1> DEFINE B == Holding \cup QueuedItems
           W == WorkerTasks + WorkerTasks
<1>4. IsFiniteSet(B) /\ Cardinality(B) <= W
  BY <1>1, <1>2, UnionBound
<1>5. W \in Nat /\ W = 2 * WorkerTasks
  OBVIOUS
<1> HIDE DEF B, W
<1>6. IsFiniteSet(B \cup {found}) /\ Cardinality(B \cup {found}) <= W + 1
  BY <1>3, <1>4, <1>5, UnionBound
<1>7. InFlight \subseteq B \cup {found}
  BY InFlightWhere DEF B
<1>8. /\ Cardinality(InFlight) <= Cardinality(B \cup {found})
      /\ Cardinality(InFlight) \in Nat /\ Cardinality(B \cup {found}) \in Nat
  BY <1>6, <1>7, FS_Subset, FS_CardinalityType
<1>9. QED  BY <1>5, <1>6, <1>8 DEF Backpressure

\* Taking the last step of the consumer changes nothing that is in flight.
LEMMA LeaveStep ==
  ASSUME [Next]_vars, LeavingInv, ~shutdown, shutdown'
  PROVE  UNCHANGED <<found, made, delivered>>
<1>1. ASSUME NEW t \in Tasks PROVE ~TaskStep(t)
  BY OwnStepOpen DEF TaskStep, PutSentinel, DeliverCancel, OnTaskError
<1>2. ~ProducerStep /\ \A w \in Items : ~WorkerStep(w)
  BY <1>1, Constants, OwnStepOpen DEF ProducerStep, WorkerStep
<1>3. QED
  BY <1>2
     DEF Next, Terminated, ConsumerStep, CallerStep, Receive, ReceiveSentinel,
         Resume, Close, ConsumerCancelled, Exit, CancelParent, CancelExit, vars, taskVars

\* No step takes more items than the permits and the queue allow, and after the
\* consumer has left none is taken at all.
LEMMA BackpressureStep ==
  ASSUME NoFaults
  PROVE  AllInv /\ LeavingInv /\ CalmInv /\ Backpressure /\ [Next]_vars
           => Backpressure'
<1>1. (AllInv /\ CalmInv /\ Clean => Backpressure)'
  BY BackpressureClean, PTL
<1> SUFFICES ASSUME AllInv, LeavingInv, CalmInv, Backpressure, [Next]_vars
             PROVE  Backpressure'
  OBVIOUS
<1>2. AllInv' /\ CalmInv'
  BY AllStep, CalmStep
<1>3. CASE ~shutdown'
  <2>1. Clean'
    BY <1>2, <1>3 DEF AllInv, SentinelInv, CalmInv, Clean
  <2>2. QED  BY <1>1, <1>2, <2>1
<1>4. CASE shutdown'
  <2>1. UNCHANGED <<found, made, delivered>>
    BY <1>4, WindUp, LeaveStep
  <2>2. InFlight' = InFlight
    BY <2>1 DEF InFlight
  <2>3. QED  BY <2>2 DEF Backpressure
<1>5. QED  BY <1>3, <1>4

\* However slow the caller, discovery runs at most 2 * worker_tasks items ahead
\* of it, plus the one the producer holds (semaphore and maxsize).
THEOREM BackpressureCorrect == ASSUME NoFaults PROVE Spec => []Backpressure
<1>1. Init => AllInv /\ CalmInv /\ Clean
  BY CoreInit, SentinelInit, DeliveryInit, CalmInit DEF AllInv, Init, Clean
<1>2. Init => Backpressure
  BY <1>1, BackpressureClean
<1>3. QED  BY <1>2, BackpressureStep, CalmCorrect, PTL DEF Spec

-----------------------------------------------------------------------------
(* The order of the outcomes *)

\* An outcome in the queue that is not the sentinel.
LEMMA QueueElement ==
  ASSUME QueueType, NEW j \in 1..Len(queue), queue[j] # Sentinel
  PROVE  /\ queue[j] \in Outcomes /\ queue[j] = <<queue[j][1], queue[j][2]>>
         /\ queue[j][1] \in Tasks /\ queue[j][2] \in Nat /\ queue[j][2] >= 1
<1>1. queue[j] \in Outcomes
  BY DEF QueueType
<1>2. QED  BY <1>1, Constants DEF Outcomes

\* The order holds initially,
LEMMA OrderInit == Init => OrderInv
<1> SUFFICES ASSUME Init PROVE OrderInv
  OBVIOUS
<1>1. delivered = {} /\ Len(queue) = 0
  BY DEF Init
<1>2. QED  BY <1>1 DEF OrderInv

\* in steps that move no outcome,
LEMMA OrderFrame ==
  ASSUME OrderInv, UNCHANGED <<sent, queue, delivered>>
  PROVE  OrderInv'
<1>1. ASSUME NEW j, InOrder(j) PROVE InOrder(j)'
  BY <1>1 DEF InOrder
<1>2. QED  BY <1>1 DEF OrderInv

\* when a task puts its next outcome,
LEMMA OrderPut ==
  ASSUME TypeOK, Covered, OrderInv, NEW i \in Tasks, PutNext(i),
         delivered' = delivered
  PROVE  OrderInv'
<1> USE Constants
<1> DEFINE o == <<i, sent[i] + 1>>
<1>1. /\ \A t \in Tasks : sent[t] \in Nat
      /\ \A t \in Tasks : sent'[t] = IF t = i THEN sent[i] + 1 ELSE sent[t]
      /\ delivered \subseteq Outcomes
  BY DEF PutNext, TypeOK, TaskTypes, ConsumerTypes
<1>2. \A t \in Tasks : sent[t] <= sent'[t]
  BY <1>1
<1>3. /\ Len(queue) \in Nat /\ Len(queue') = Len(queue) + 1
      /\ queue'[Len(queue) + 1] = o
      /\ \A j \in 1..Len(queue) : queue'[j] = queue[j]
  BY DEF PutNext, Put, TypeOK, QueueType
<1>4. ASSUME NEW x \in delivered' PROVE x[2] <= sent'[x[1]]
  <2>1. x \in Outcomes /\ x[2] <= sent[x[1]]
    BY <1>1, <1>4 DEF OrderInv
  <2>2. x[1] \in Tasks /\ x[2] \in Nat
    BY <2>1 DEF Outcomes
  <2>3. QED  BY <1>1, <1>2, <2>1, <2>2
<1>5. ASSUME NEW j \in 1..Len(queue), queue'[j] # Sentinel PROVE InOrder(j)'
  <2>1. queue'[j] = queue[j] /\ \A m \in 1..(j - 1) : queue'[m] = queue[m]
    BY <1>3
  <2>2. InOrder(j)
    BY <1>5, <2>1 DEF OrderInv
  <2>3. queue[j][1] \in Tasks /\ queue[j][2] \in Nat
    BY <1>5, <2>1, QueueElement DEF TypeOK
  <2>4. queue[j][2] <= sent'[queue[j][1]]
    BY <1>1, <1>2, <2>2, <2>3 DEF InOrder
  <2>5. QED  BY <2>1, <2>2, <2>4 DEF InOrder
<1>6. ASSUME NEW j, j = Len(queue) + 1 PROVE InOrder(j)'
  <2>1. queue'[j] = o /\ o[1] = i /\ o[2] = sent[i] + 1
    BY <1>3, <1>6
  <2>2. o[2] <= sent'[o[1]]
    BY <1>1, <2>1
  <2>3. o \notin delivered'
    BY <1>1, <2>1 DEF OrderInv
  <2>4. ASSUME NEW m \in 1..(j - 1) PROVE queue'[m] # queue'[j]
    <3>1. m \in 1..Len(queue) /\ queue'[m] = queue[m]
      BY <1>3, <1>6
    <3>2. CASE queue[m] = Sentinel
      BY <2>1, <3>1, <3>2 DEF Sentinel, Tasks, Producer, Items
    <3>3. CASE queue[m] # Sentinel
      <4>1. queue[m][2] <= sent[queue[m][1]]
        BY <3>1, <3>3 DEF OrderInv, InOrder
      <4>2. QED  BY <1>1, <2>1, <3>1, <4>1
    <3>4. QED  BY <3>2, <3>3
  <2>5. ASSUME NEW k \in 1..sent[i]
        PROVE  \/ <<i, k>> \in delivered'
               \/ \E m \in 1..(j - 1) : queue'[m] = <<i, k>>
    <3>1. Queued(<<i, k>>) \/ <<i, k>> \in delivered
      BY <2>5 DEF Covered
    <3>2. ASSUME NEW m \in 1..Len(queue), queue[m] = <<i, k>>
          PROVE  m \in 1..(j - 1) /\ queue'[m] = <<i, k>>
      BY <1>3, <1>6, <3>2
    <3>3. QED  BY <3>1, <3>2 DEF Queued
  <2>6. o[2] - 1 = sent[i]
    BY <1>1, <2>1
  <2>7. QED  BY <2>1, <2>2, <2>3, <2>4, <2>5, <2>6 DEF InOrder
<1>7. \A j \in 1..Len(queue') : j \in 1..Len(queue) \/ j = Len(queue) + 1
  BY <1>3
<1>8. QED  BY <1>4, <1>5, <1>6, <1>7 DEF OrderInv

\* when the sentinel is put,
LEMMA OrderPutSentinel ==
  ASSUME TypeOK, OrderInv, Put(Sentinel), UNCHANGED <<sent, delivered>>
  PROVE  OrderInv'
<1>1. /\ Len(queue) \in Nat /\ Len(queue') = Len(queue) + 1
      /\ queue'[Len(queue) + 1] = Sentinel
      /\ \A j \in 1..Len(queue) : queue'[j] = queue[j]
  BY DEF Put, TypeOK, QueueType
<1>2. ASSUME NEW j \in 1..Len(queue'), queue'[j] # Sentinel PROVE InOrder(j)'
  <2>1. j \in 1..Len(queue) /\ queue'[j] = queue[j]
        /\ \A m \in 1..(j - 1) : queue'[m] = queue[m]
    BY <1>1, <1>2
  <2>2. InOrder(j)
    BY <1>2, <2>1 DEF OrderInv
  <2>3. QED  BY <2>1, <2>2 DEF InOrder
<1>3. QED  BY <1>2 DEF OrderInv

\* and when the consumer takes the first outcome.
LEMMA OrderReceive ==
  ASSUME TypeOK, OrderInv, Receive
  PROVE  OrderInv'
<1>1. /\ queue # <<>> /\ queue' = Tail(queue) /\ sent' = sent
      /\ delivered' = delivered \cup {Head(queue)} /\ Head(queue) # Sentinel
  BY DEF Receive, taskVars
<1>2. /\ Len(queue) \in Nat /\ Len(queue) >= 1 /\ Len(queue') = Len(queue) - 1
      /\ Head(queue) = queue[1]
      /\ \A j \in 1..Len(queue') : queue'[j] = queue[j + 1]
  BY <1>1 DEF TypeOK, QueueType
<1>3. ASSUME NEW x \in delivered' PROVE x[2] <= sent'[x[1]]
  <2>1. InOrder(1)
    BY <1>1, <1>2 DEF OrderInv
  <2>2. QED  BY <1>1, <1>2, <1>3, <2>1 DEF OrderInv, InOrder
<1>4. ASSUME NEW j \in 1..Len(queue'), queue'[j] # Sentinel PROVE InOrder(j)'
  <2>1. /\ j + 1 \in 1..Len(queue) /\ queue'[j] = queue[j + 1] /\ j \in Nat
        /\ \A m \in 1..(j - 1) : m + 1 \in 1..((j + 1) - 1) /\ queue'[m] = queue[m + 1]
    BY <1>2, <1>4
  <2>2. InOrder(j + 1)
    BY <1>4, <2>1 DEF OrderInv
  <2>3. queue[1] # queue[j + 1] /\ queue'[j] \notin delivered'
    BY <1>1, <1>2, <2>1, <2>2 DEF InOrder
  <2>4. \A m \in 1..(j - 1) : queue'[m] # queue'[j]
    BY <2>1, <2>2 DEF InOrder
  <2>5. ASSUME NEW k \in 1..(queue'[j][2] - 1)
        PROVE  \/ <<queue'[j][1], k>> \in delivered'
               \/ \E m \in 1..(j - 1) : queue'[m] = <<queue'[j][1], k>>
    <3>1. \/ <<queue[j + 1][1], k>> \in delivered
          \/ \E m \in 1..((j + 1) - 1) : queue[m] = <<queue[j + 1][1], k>>
      BY <2>1, <2>2, <2>5 DEF InOrder
    <3>2. ASSUME NEW m \in 1..((j + 1) - 1), m # 1, queue[m] = <<queue[j + 1][1], k>>
          PROVE  m - 1 \in 1..(j - 1) /\ queue'[m - 1] = <<queue'[j][1], k>>
      BY <1>2, <1>4, <2>1, <3>2
    <3>3. QED  BY <1>1, <1>2, <2>1, <3>1, <3>2
  <2>6. queue'[j][2] <= sent'[queue'[j][1]]
    BY <1>1, <2>1, <2>2 DEF InOrder
  <2>7. QED  BY <2>3, <2>4, <2>5, <2>6 DEF InOrder
<1>5. QED  BY <1>3, <1>4 DEF OrderInv

\* The sentinel is taken from a queue that holds nothing else.
LEMMA OrderReceiveSentinel ==
  ASSUME TypeOK, SentinelInv, OrderInv, ReceiveSentinel
  PROVE  OrderInv'
<1>1. /\ queue # <<>> /\ queue' = Tail(queue) /\ Head(queue) = Sentinel
      /\ UNCHANGED <<sent, delivered>>
  BY DEF ReceiveSentinel, taskVars
<1>2. /\ Len(queue) \in Nat /\ Len(queue) >= 1 /\ Len(queue') = Len(queue) - 1
      /\ Head(queue) = queue[1]
  BY <1>1 DEF TypeOK, QueueType
<1>3. Len(queue') = 0
  <2>1. 1 \in 1..Len(queue) /\ queue[1] = Sentinel
    BY <1>1, <1>2
  <2>2. 1 = Len(queue)
    <3>1. \A j \in 1..Len(queue) : queue[j] = Sentinel => j = Len(queue)
      BY DEF SentinelInv
    <3>2. QED  BY <2>1, <3>1
  <2>3. Len(queue') = 1 - 1
    BY <1>2, <2>2, Zenon
  <2>4. QED  BY <2>3
<1>4. \A j \in 1..Len(queue') : FALSE
  BY <1>3
<1>5. QED  BY <1>1, <1>4 DEF OrderInv

\* So every step keeps the order.
LEMMA OrderStep == AllInv /\ OrderInv /\ [Next]_vars => OrderInv'
<1> SUFFICES ASSUME AllInv, OrderInv, [Next]_vars PROVE OrderInv'
  OBVIOUS
<1>1. TypeOK /\ TaskTypes /\ TaskInv /\ Covered /\ SentinelInv
  BY DEF AllInv, CoreInv, TypeOK, DeliveryInv
<1>2. ASSUME NEW t \in Tasks, TaskStep(t) PROVE OrderInv'
  <2>1. CASE PutSentinel(t)
    BY <1>1, <2>1, OrderPutSentinel DEF PutSentinel, consumerVars
  <2>2. CASE Start(t) \/ DeliverCancel(t) \/ OnTaskError(t)
    BY <2>2, OrderFrame DEF Start, DeliverCancel, OnTaskError, consumerVars
  <2>3. QED  BY <1>2, <2>1, <2>2 DEF TaskStep
<1>3. ASSUME ProducerStep PROVE OrderInv'
  <2>1. CASE PutSignal
    <3>1. found \in Tasks
      BY <1>1, <2>1, Constants DEF PutSignal, At, TaskInv
    <3>2. QED  BY <1>1, <2>1, <3>1, OrderPut DEF PutSignal, consumerVars
  <2>2. CASE PutDiscoveryError
    BY <1>1, <2>2, Constants, OrderPut DEF PutDiscoveryError, consumerVars
  <2>3. CASE \/ \E isSignal \in BOOLEAN : Discover(isSignal)
             \/ SpawnWorker \/ DiscoveryEnds \/ DiscoveryFails \/ DiscoveryCrashes
    BY <2>3, OrderFrame
       DEF Discover, SpawnWorker, DiscoveryEnds, DiscoveryFails, DiscoveryCrashes,
           consumerVars
  <2>4. QED  BY <1>2, <1>3, <2>1, <2>2, <2>3, Constants DEF ProducerStep
<1>4. ASSUME NEW w \in Items, WorkerStep(w) PROVE OrderInv'
  <2>1. CASE PutOutcome(w)
    BY <1>1, <2>1, Constants, OrderPut DEF PutOutcome, consumerVars
  <2>2. CASE ProcessCrashes(w) \/ \E n \in 0..MaxOutcomes : Process(w, n)
    BY <2>2, OrderFrame DEF ProcessCrashes, Process, consumerVars
  <2>3. QED  BY <1>2, <1>4, <2>1, <2>2, Constants DEF WorkerStep
<1>5. CASE Receive \/ ReceiveSentinel
  BY <1>1, <1>5, OrderReceive, OrderReceiveSentinel
<1>6. CASE \/ Resume \/ Close \/ ConsumerCancelled \/ Exit
           \/ CancelParent \/ CancelExit \/ UNCHANGED vars
  BY <1>6, OrderFrame
     DEF Resume, Close, ConsumerCancelled, Exit, CancelParent, CancelExit, vars,
         taskVars, consumerVars
<1>7. QED
  BY <1>3, <1>4, <1>5, <1>6 DEF Next, ConsumerStep, CallerStep, Terminated

-----------------------------------------------------------------------------
(* The pipeline implements the stream *)

\* The sources of the stream are the tasks of the pipeline.
LEMMA SourcesAreTasks == Stream!Sources = Tasks
BY PipelineAssumption DEF PipelineAssumption, Stream!Sources, Tasks, Producer, Items

\* A pipeline at its start is a stream at its start.
LEMMA StreamInit == Init => Stream!Init
BY SourcesAreTasks DEF Init, Stream!Init, Status, Unknown, Stream!Unknown

\* Of an outcome that was sent one also knows that it was made.
LEMMA SentMeansMade ==
  ASSUME TaskTypes, TaskInv, NEW o \in Outcomes, o[2] <= sent[o[1]]
  PROVE  o \in Stream!Made
<1>1. o[1] \in Tasks /\ o[2] \in 1..MaxOutcomes
  BY DEF Outcomes
<1>2. sent[o[1]] \in Nat /\ made[o[1]] \in Int
  BY <1>1, Constants DEF TaskTypes, Unknown
<1>3. o[2] <= made[o[1]]
  <2>1. IF made[o[1]] = Unknown THEN sent[o[1]] = 0 ELSE sent[o[1]] <= made[o[1]]
    BY <1>1 DEF TaskInv
  <2>2. o[2] \in Nat /\ o[2] >= 1
    BY <1>1
  <2>3. QED  BY <1>2, <2>1, <2>2
<1>4. QED  BY <1>1, <1>3, SourcesAreTasks DEF Stream!Made, Outcomes

\* A step of the stream in which nothing the caller can see changes.
LEMMA StreamStutter ==
  ASSUME UNCHANGED <<found, discoveryFinished, made, delivered>>, Status' = Status
  PROVE  UNCHANGED Stream!vars
BY DEF Stream!vars

\* A step in which at most discovery ends.
LEMMA StreamEnd ==
  ASSUME UNCHANGED <<found, made, delivered>>, Status' = Status,
         discoveryFinished' = TRUE \/ discoveryFinished' = discoveryFinished
  PROVE  [Stream!Next]_(Stream!vars)
<1>1. CASE discoveryFinished' = TRUE
  BY <1>1 DEF Stream!Next, Stream!EndDiscovery
<1>2. CASE discoveryFinished' = discoveryFinished
  BY <1>2, StreamStutter
<1>3. QED  BY <1>1, <1>2

\* A working task's step keeps the stream open.
LEMMA StatusOpen ==
  ASSUME AllInv, NEW t \in Tasks, ~Done(t), consumer' = consumer
  PROVE  Status = "open" /\ Status' = "open"
BY DEF AllInv, DeliveryInv, Status

\* Every step of the producer is a step of the stream: it takes an item, reports
\* its own failure, or ends.
LEMMA StreamProducer ==
  ASSUME AllInv, LeavingInv,
         \/ \E isSignal \in BOOLEAN : Discover(isSignal)
         \/ PutSignal \/ SpawnWorker \/ DiscoveryEnds \/ DiscoveryFails
         \/ PutDiscoveryError \/ DiscoveryCrashes
  PROVE  [Stream!Next]_(Stream!vars)
<1> USE Constants
<1>1. ~shutdown /\ UNCHANGED consumerVars
  BY OwnStepOpen
<1>2. pc[Producer] \in {"discover", "putSignal", "acquire", "putError"}
  BY DEF Discover, PutSignal, SpawnWorker, DiscoveryEnds, DiscoveryFails,
         PutDiscoveryError, DiscoveryCrashes, At
<1>3. Status = "open" /\ Status' = "open"
  BY <1>1, <1>2, StatusOpen DEF Done, consumerVars
<1>4. TaskTypes /\ TaskInv /\ ~discoveryFinished /\ delivered' = delivered
  BY <1>1, <1>2 DEF AllInv, CoreInv, TypeOK, SentinelInv, consumerVars
<1>5. ASSUME NEW isSignal \in BOOLEAN, Discover(isSignal)
      PROVE  \E n \in {Stream!Unknown, 1} : Stream!Take(n)
  <2>1. /\ pc[Producer] = "discover" /\ found < MaxItems /\ found' = found + 1
        /\ discoveryFinished' = discoveryFinished
        /\ made' = IF isSignal THEN [made EXCEPT ![found + 1] = 1] ELSE made
    BY <1>1, <1>5, Zenon DEF Discover, At, GoTo, runVars
  <2>2. found + 1 \in Items /\ found + 1 > found
    BY <1>4, <2>1 DEF TaskTypes, Items
  <2>3. made[found + 1] = Stream!Unknown
    BY <1>4, <2>2 DEF TaskInv, Unknown, Stream!Unknown
  <2>4. made = [made EXCEPT ![found + 1] = Stream!Unknown]
    BY <1>4, <2>2, <2>3 DEF TaskTypes
  <2>5. CASE isSignal
    BY <1>3, <1>4, <2>1, <2>5 DEF Stream!Take
  <2>6. CASE ~isSignal
    BY <1>3, <1>4, <2>1, <2>4, <2>6 DEF Stream!Take
  <2>7. QED  BY <2>5, <2>6
<1>6. CASE DiscoveryFails
  <2>1. /\ pc[Producer] = "discover" /\ UNCHANGED <<found, discoveryFinished>>
        /\ made' = [made EXCEPT ![Producer] = 1]
    BY <1>1, <1>6, Zenon DEF DiscoveryFails, At, GoTo, runVars
  <2>2. made[Producer] = Stream!Unknown
    BY <1>4, <2>1 DEF TaskInv, Unknown, Stream!Unknown
  <2>3. Producer <= found /\ Producer \in Stream!Sources /\ 1 \in 0..MaxOutcomes
    BY <1>4, SourcesAreTasks DEF TaskTypes, Producer
  <2>4. Stream!Resolve(Producer, 1)
    BY <1>3, <1>4, <2>1, <2>2, <2>3 DEF Stream!Resolve
  <2>5. QED  BY <2>1, <2>3, <2>4 DEF Stream!Next
<1>7. CASE PutSignal \/ SpawnWorker \/ DiscoveryEnds \/ PutDiscoveryError \/ DiscoveryCrashes
  <2>1. /\ UNCHANGED <<found, made>>
        /\ discoveryFinished' = TRUE \/ discoveryFinished' = discoveryFinished
    BY <1>7
       DEF PutSignal, SpawnWorker, DiscoveryEnds, PutDiscoveryError, DiscoveryCrashes,
           ProducerFinally, GoTo, runVars
  <2>2. QED  BY <1>3, <1>4, <2>1, StreamEnd
<1>8. QED  BY <1>5, <1>6, <1>7 DEF Stream!Next

\* Every step of a worker: its outcomes become known, or nothing is seen.
LEMMA StreamWorker ==
  ASSUME AllInv, LeavingInv, NEW w \in Items,
         \/ \E n \in 0..MaxOutcomes : Process(w, n)
         \/ PutOutcome(w) \/ ProcessCrashes(w)
  PROVE  [Stream!Next]_(Stream!vars)
<1> USE Constants
<1>1. UNCHANGED consumerVars
  BY OwnStepOpen
<1>2. pc[w] \in {"process", "put"}
  BY DEF Process, PutOutcome, ProcessCrashes, At
<1>3. Status = "open" /\ Status' = "open" /\ delivered' = delivered
  BY <1>1, <1>2, StatusOpen DEF Done, consumerVars
<1>4. TaskTypes /\ TaskInv
  BY DEF AllInv, CoreInv, TypeOK
<1>5. UNCHANGED <<found, discoveryFinished>>
  BY DEF Process, PutOutcome, ProcessCrashes, WorkerFinally, GoTo, runVars
<1>6. ASSUME NEW n \in 0..MaxOutcomes, Process(w, n) PROVE Stream!Next
  <2>1. pc[w] = "process" /\ made' = [made EXCEPT ![w] = n]
    BY <1>6 DEF Process, At
  <2>2. made[w] = Stream!Unknown /\ w <= found
    BY <1>4, <2>1 DEF TaskInv, TaskTypes, Unknown, Stream!Unknown
  <2>3. w # 0 /\ w \in Stream!Sources
    BY SourcesAreTasks
  <2>4. Stream!Resolve(w, n)
    BY <1>3, <1>5, <2>1, <2>2, <2>3 DEF Stream!Resolve
  <2>5. QED  BY <1>5, <2>3, <2>4 DEF Stream!Next
<1>7. CASE PutOutcome(w) \/ ProcessCrashes(w)
  <2>1. made' = made
    BY <1>7 DEF PutOutcome, ProcessCrashes
  <2>2. QED  BY <1>3, <1>5, <2>1, StreamStutter
<1>8. QED  BY <1>6, <1>7

\* The steps of the event loop's own accord are seen by no caller.
LEMMA StreamTask ==
  ASSUME AllInv, NEW t \in Tasks, TaskStep(t)
  PROVE  [Stream!Next]_(Stream!vars)
<1>1. ~Done(t) /\ consumer' = consumer /\ UNCHANGED <<found, made, delivered>>
  BY DEF TaskStep, Start, PutSentinel, DeliverCancel, OnTaskError, At, Done, consumerVars
<1>2. discoveryFinished' = TRUE \/ discoveryFinished' = discoveryFinished
  BY DEF TaskStep, Start, PutSentinel, DeliverCancel, OnTaskError, GoTo, runVars,
     ProducerFinally, WorkerFinally
<1>3. QED  BY <1>1, <1>2, StatusOpen, StreamEnd

\* What the consumer takes from the queue is the next outcome of its source.
LEMMA StreamReceive ==
  ASSUME AllInv, OrderInv, Receive
  PROVE  \E o \in Stream!Made : Stream!Deliver(o)
<1>1. /\ queue # <<>> /\ Head(queue) # Sentinel /\ consumer = "get" /\ consumer' = "yield"
      /\ delivered' = delivered \cup {Head(queue)}
      /\ UNCHANGED <<found, made, discoveryFinished>>
  BY DEF Receive, taskVars, runVars
<1>2. QueueType /\ TaskTypes /\ TaskInv
  BY DEF AllInv, CoreInv, TypeOK
<1>3. Len(queue) \in Nat /\ Len(queue) >= 1 /\ Head(queue) = queue[1]
  BY <1>1, <1>2 DEF QueueType
<1> DEFINE o == queue[1]
<1>4. 1 \in 1..Len(queue) /\ o # Sentinel
  BY <1>1, <1>3
<1>5. InOrder(1)
  BY <1>4 DEF OrderInv
<1>6. o \in Outcomes /\ o[2] <= sent[o[1]] /\ o \notin delivered
  BY <1>2, <1>4, <1>5, QueueElement DEF InOrder
<1>7. o \in Stream!Made
  BY <1>2, <1>6, SentMeansMade
<1>8. \A k \in 1..(o[2] - 1) : <<o[1], k>> \in delivered
  BY <1>5 DEF InOrder
<1>9. Status = "open" /\ Status' = "open"
  BY <1>1 DEF Status
<1>10. Stream!Deliver(o)
  BY <1>1, <1>3, <1>6, <1>7, <1>8, <1>9 DEF Stream!Deliver
<1>11. QED  BY <1>7, <1>10

\* The stream ends as the consumer left it, and completes only if everything
\* that was made has been delivered.
LEMMA StreamExit ==
  ASSUME AllInv, OrderInv, AllInv', Exit, CompleteMeansDelivered'
  PROVE  Stream!Next
<1>1. /\ consumer = "exit" /\ consumer' = "done"
      /\ UNCHANGED <<found, made, discoveryFinished, delivered, errors, leftBy>>
  BY DEF Exit, taskVars, runVars, groupVars
<1>2. Status = "open" /\ Status' = IF errors THEN "failed" ELSE leftBy
  BY <1>1 DEF Status
<1>3. leftBy \in {"complete", "closed", "cancelled"}
  BY <1>1 DEF AllInv, CoreInv, TypeOK, ConsumerTypes, SentinelInv
<1>4. TaskTypes /\ TaskInv /\ delivered \subseteq Outcomes
  BY DEF AllInv, CoreInv, TypeOK, ConsumerTypes
<1>5. CASE Status' = "complete"
  <2>1. /\ discoveryFinished /\ \A i \in 1..found : made[i] # Unknown
        /\ \A s \in Tasks : \A k \in 1..made[s] : <<s, k>> \in delivered
    BY <1>1, <1>5 DEF CompleteMeansDelivered
  <2>2. ASSUME NEW x \in delivered PROVE x \in Stream!Made
    <3>1. x \in Outcomes /\ x[2] <= sent[x[1]]
      BY <1>4 DEF OrderInv
    <3>2. QED  BY <1>4, <3>1, SentMeansMade
  <2>3. ASSUME NEW x \in Stream!Made PROVE x \in delivered
    <3>1. x = <<x[1], x[2]>> /\ x[1] \in Tasks /\ x[2] \in 1..MaxOutcomes
          /\ x[2] <= made[x[1]]
      BY SourcesAreTasks DEF Stream!Made
    <3>2. made[x[1]] \in Int
      BY <1>4, <3>1, Constants DEF TaskTypes, Unknown
    <3>3. x[2] \in 1..made[x[1]]
      BY <3>1, <3>2
    <3>4. QED  BY <2>1, <3>1, <3>3
  <2>4. delivered = Stream!Made
    BY <2>2, <2>3
  <2>5. Stream!Complete
    BY <1>1, <1>2, <1>5, <2>1, <2>4 DEF Stream!Complete, Unknown, Stream!Unknown
  <2>6. QED  BY <2>5 DEF Stream!Next
<1>6. CASE Status' # "complete"
  <2>1. Status' \in {"closed", "cancelled", "failed"}
    BY <1>2, <1>3, <1>6
  <2>2. Stream!Stop(Status')
    BY <1>1, <1>2 DEF Stream!Stop
  <2>3. QED  BY <2>1, <2>2 DEF Stream!Next
<1>7. QED  BY <1>5, <1>6

\* Every step of the pipeline is a step of the stream or leaves it alone.
LEMMA StreamStep ==
  AllInv /\ LeavingInv /\ OrderInv /\ [Next]_vars => [Stream!Next]_(Stream!vars)
<1>1. (AllInv => CompleteMeansDelivered)'
  BY AllDelivered, PTL
<1> SUFFICES ASSUME AllInv, LeavingInv, OrderInv, [Next]_vars
             PROVE  [Stream!Next]_(Stream!vars)
  OBVIOUS
<1>2. CASE ProducerStep
  BY <1>2, Constants, StreamProducer, StreamTask DEF ProducerStep
<1>3. ASSUME NEW w \in Items, WorkerStep(w) PROVE [Stream!Next]_(Stream!vars)
  BY <1>3, Constants, StreamWorker, StreamTask DEF WorkerStep
<1>4. CASE Receive
  BY <1>4, StreamReceive DEF Stream!Next
<1>5. CASE Exit
  BY <1>1, <1>5, AllStep, StreamExit
<1>6. CASE ReceiveSentinel \/ ConsumerCancelled \/ Resume \/ Close \/ CancelParent
           \/ CancelExit
  <2>1. /\ UNCHANGED <<found, made, discoveryFinished, delivered>>
        /\ consumer # "done" /\ consumer' # "done"
    BY <1>6
       DEF ReceiveSentinel, ConsumerCancelled, Resume, Close, CancelParent, CancelExit,
           Leave, taskVars, runVars
  <2>2. QED  BY <2>1, StreamStutter DEF Status
<1>7. CASE UNCHANGED vars
  <2>1. UNCHANGED <<found, made, discoveryFinished, delivered, consumer, errors, leftBy>>
    BY <1>7 DEF vars, taskVars, runVars, groupVars, consumerVars
  <2>2. QED  BY <2>1, StreamStutter DEF Status
<1>8. QED
  BY <1>2, <1>3, <1>4, <1>5, <1>6, <1>7
     DEF Next, ConsumerStep, CallerStep, Terminated

\* The pipeline implements the stream its callers rely on, with crashes,
\* cancellations and closes: every outcome is handed over once and in order,
\* and the stream is complete only when nothing is missing.
THEOREM PipelineImplementsStream == Spec => StreamSpec
<1>1. Init => OrderInv
  BY OrderInit
<1>2. Spec => [](AllInv /\ LeavingInv /\ OrderInv)
  BY <1>1, OrderStep, LeavingCorrect, PTL DEF Spec
<1>3. QED
  BY <1>2, StreamInit, StreamStep, PTL DEF Spec, StreamSpec, Stream!Spec

=============================================================================
