---------------------------- MODULE Harvest_proofs ----------------------------
(***************************************************************************)
(* Proofs about a run of the harvester, for any set of repositories, any   *)
(* number of outcomes and submissions, interrupts and task-group aborts.   *)
(*                                                                         *)
(* HarvestInv is inductive and is a conjunction over the repositories.  An *)
(* action of one repository leaves the others alone (Frame), so each case  *)
(* is about the one repository that moves.                                 *)
(***************************************************************************)
EXTENDS Harvest, TLAPS

RepoInv(s) == Books(s) /\ Verdict(s) /\ ScopeLife(s) /\ Traces(s)

\* Nothing the invariant says of s has changed.
Same(s) ==
  /\ pc'[s] = pc[s] /\ submitted'[s] = submitted[s] /\ pending'[s] = pending[s]
  /\ itemErrors'[s] = itemErrors[s] /\ recordErrors'[s] = recordErrors[s]
  /\ pluginErrors'[s] = pluginErrors[s] /\ api'[s] = api[s] /\ scopes'[s] = scopes[s]
  /\ harvested'[s] = harvested[s] /\ failed'[s] = failed[s] /\ issues'[s] = issues[s]
  /\ (s \in cut' <=> s \in cut) /\ (s \in closed' <=> s \in closed)
  /\ (s \in named' <=> s \in named)
  /\ main' = main /\ emitted' = emitted

\* A repository nothing has touched keeps its part of the invariant.
LEMMA Frame ==
  ASSUME NEW s \in Repos, RepoInv(s), Same(s)
  PROVE  RepoInv(s)'
BY DEF RepoInv, Same, Books, Verdict, ScopeLife, Traces

\* The invariant is preserved by a step of r that preserves the types, r's own
\* part and everything about the others.
LEMMA StepOf ==
  ASSUME HarvestInv, NEW r \in Repos, TypeOK', RepoInv(r)',
         \A s \in Repos \ {r} : Same(s)
  PROVE  HarvestInv'
<1>1. ASSUME NEW s \in Repos PROVE RepoInv(s)'
  <2>1. CASE s = r BY <2>1
  <2>2. CASE s # r
    <3>1. RepoInv(s) BY DEF HarvestInv, RepoInv
    <3>2. Same(s) BY <2>2
    <3> QED BY <3>1, <3>2, Frame
  <2> QED BY <2>1, <2>2
<1> QED BY <1>1 DEF HarvestInv, RepoInv

\* What the plugin stream does: outcomes, its end, its failure.
LEMMA PluginStepInv ==
  ASSUME HarvestInv, NEW r \in Repos, PluginStep(r)
  PROVE  HarvestInv'
<1> USE DEF GoTo, At, uploadVars, entryVars, counters, taskVars, mainVars
<1>0. TypeOK /\ RepoInv(r) BY DEF HarvestInv, RepoInv
<1> USE <1>0
<1>1. CASE TakeArc(r)
  <2> USE <1>1 DEF TakeArc, CanYield
  <2>1. TypeOK' BY DEF TypeOK, Labels
  <2>2. RepoInv(r)'
    <3> USE DEF TypeOK, Ended, Uploading, RepoInv
    <3>1. Books(r)' BY DEF Books
    <3>2. Verdict(r)' BY DEF Verdict, Books
    <3>3. ScopeLife(r)' BY DEF ScopeLife
    <3>4. Traces(r)' BY DEF Traces, Books, ScopeLife
    <3> QED BY <3>1, <3>2, <3>3, <3>4
  <2>3. \A s \in Repos \ {r} : Same(s) BY DEF Same, TypeOK
  <2> QED BY <2>1, <2>2, <2>3, StepOf
<1>2. CASE TakeSkipped(r)
  <2> USE <1>2 DEF TakeSkipped, CanYield
  <2>1. TypeOK' BY DEF TypeOK, Labels
  <2>2. RepoInv(r)'
    <3> USE DEF TypeOK, Ended, Uploading, RepoInv
    <3>1. Books(r)' BY DEF Books
    <3>2. Verdict(r)' BY DEF Verdict, Books
    <3>3. ScopeLife(r)' BY DEF ScopeLife
    <3>4. Traces(r)' BY DEF Traces, Books, ScopeLife
    <3> QED BY <3>1, <3>2, <3>3, <3>4
  <2>3. \A s \in Repos \ {r} : Same(s) BY DEF Same, TypeOK
  <2> QED BY <2>1, <2>2, <2>3, StepOf
<1>3. CASE TakeRecordError(r)
  <2> USE <1>3 DEF TakeRecordError, CanYield
  <2>1. TypeOK' BY DEF TypeOK, Labels
  <2>2. RepoInv(r)'
    <3> USE DEF TypeOK, Ended, Uploading, RepoInv
    <3>1. Books(r)' BY DEF Books
    <3>2. Verdict(r)' BY DEF Verdict, Books
    <3>3. ScopeLife(r)' BY DEF ScopeLife
    <3>4. Traces(r)' BY DEF Traces, Books, ScopeLife
    <3> QED BY <3>1, <3>2, <3>3, <3>4
  <2>3. \A s \in Repos \ {r} : Same(s) BY DEF Same, TypeOK
  <2> QED BY <2>1, <2>2, <2>3, StepOf
<1>4. CASE TakePluginError(r)
  <2> USE <1>4 DEF TakePluginError, CanYield
  <2>1. TypeOK' BY DEF TypeOK, Labels
  <2>2. RepoInv(r)'
    <3> USE DEF TypeOK, Ended, Uploading, RepoInv
    <3>1. Books(r)' BY DEF Books
    <3>2. Verdict(r)' BY DEF Verdict, Books
    <3>3. ScopeLife(r)' BY DEF ScopeLife
    <3>4. Traces(r)' BY DEF Traces, Books, ScopeLife
    <3> QED BY <3>1, <3>2, <3>3, <3>4
  <2>3. \A s \in Repos \ {r} : Same(s) BY DEF Same, TypeOK
  <2> QED BY <2>1, <2>2, <2>3, StepOf
<1>5. CASE StreamEnds(r)
  <2> USE <1>5 DEF StreamEnds
  <2>1. TypeOK' BY DEF TypeOK, Labels
  <2>2. RepoInv(r)'
    <3> USE DEF TypeOK, Ended, Uploading, RepoInv
    <3>1. Books(r)' BY DEF Books
    <3>2. Verdict(r)' BY DEF Verdict, Books
    <3>3. ScopeLife(r)' BY DEF ScopeLife
    <3>4. Traces(r)' BY DEF Traces, Books, ScopeLife
    <3> QED BY <3>1, <3>2, <3>3, <3>4
  <2>3. \A s \in Repos \ {r} : Same(s) BY DEF Same, TypeOK
  <2> QED BY <2>1, <2>2, <2>3, StepOf
<1>6. CASE StreamRaises(r)
  <2> USE <1>6 DEF StreamRaises
  <2>1. TypeOK' BY DEF TypeOK, Labels
  <2>2. RepoInv(r)'
    <3> USE DEF TypeOK, Ended, Uploading, RepoInv
    <3>1. Books(r)' BY DEF Books
    <3>2. Verdict(r)' BY DEF Verdict, Books
    <3>3. ScopeLife(r)' BY DEF ScopeLife
    <3>4. Traces(r)' BY DEF Traces, Books, ScopeLife
    <3> QED BY <3>1, <3>2, <3>3, <3>4
  <2>3. \A s \in Repos \ {r} : Same(s) BY DEF Same, TypeOK
  <2> QED BY <2>1, <2>2, <2>3, StepOf
<1> QED BY <1>1, <1>2, <1>3, <1>4, <1>5, <1>6 DEF PluginStep

\* What the API client does, and what the upload records of it.
LEMMA ClientStepInv ==
  ASSUME HarvestInv, NEW r \in Repos, ClientStep(r)
  PROVE  HarvestInv'
<1> USE DEF GoTo, At, uploadVars, entryVars, counters, taskVars, mainVars
<1>0. TypeOK /\ RepoInv(r) BY DEF HarvestInv, RepoInv
<1> USE <1>0
<1>1. CASE CreateHarvest(r)
  <2> USE <1>1 DEF CreateHarvest
  <2>1. TypeOK' BY DEF TypeOK, Labels
  <2>2. RepoInv(r)'
    <3> USE DEF TypeOK, Ended, Uploading, RepoInv
    <3>1. Books(r)' BY DEF Books
    <3>2. Verdict(r)' BY DEF Verdict, Books
    <3>3. ScopeLife(r)' BY DEF ScopeLife
    <3>4. Traces(r)' BY DEF Traces, Books, ScopeLife
    <3> QED BY <3>1, <3>2, <3>3, <3>4
  <2>3. \A s \in Repos \ {r} : Same(s) BY DEF Same, TypeOK
  <2> QED BY <2>1, <2>2, <2>3, StepOf
<1>2. ASSUME NEW lost \in BOOLEAN, CreateFails(r, lost) PROVE HarvestInv'
  <2> USE <1>2 DEF CreateFails, RecordUploadAborted, NameHarvest
  <2>1. TypeOK' BY DEF TypeOK, Labels
  <2>2. RepoInv(r)'
    <3> USE DEF TypeOK, Ended, Uploading, RepoInv
    <3>1. Books(r)' BY DEF Books
    <3>2. Verdict(r)' BY DEF Verdict, Books
    <3>3. ScopeLife(r)' BY DEF ScopeLife
    <3>4. Traces(r)' BY DEF Traces, Books, ScopeLife
    <3> QED BY <3>1, <3>2, <3>3, <3>4
  <2>3. \A s \in Repos \ {r} : Same(s) BY DEF Same, TypeOK
  <2> QED BY <2>1, <2>2, <2>3, StepOf
<1>3. CASE PullNext(r)
  <2> USE <1>3 DEF PullNext
  <2>1. TypeOK' BY DEF TypeOK, Labels
  <2>2. RepoInv(r)'
    <3> USE DEF TypeOK, Ended, Uploading, RepoInv
    <3>1. Books(r)' BY DEF Books
    <3>2. Verdict(r)' BY DEF Verdict, Books
    <3>3. ScopeLife(r)' BY DEF ScopeLife
    <3>4. Traces(r)' BY DEF Traces, Books, ScopeLife
    <3> QED BY <3>1, <3>2, <3>3, <3>4
  <2>3. \A s \in Repos \ {r} : Same(s) BY DEF Same, TypeOK
  <2> QED BY <2>1, <2>2, <2>3, StepOf
<1>4. ASSUME NEW ok \in BOOLEAN, Answer(r, ok) PROVE HarvestInv'
  <2> USE <1>4 DEF Answer
  <2>1. TypeOK' BY DEF TypeOK, Labels
  <2>2. RepoInv(r)'
    <3> USE DEF TypeOK, Ended, Uploading, RepoInv
    <3>1. Books(r)' BY DEF Books
    <3>2. Verdict(r)' BY DEF Verdict, Books
    <3>3. ScopeLife(r)' BY DEF ScopeLife
    <3>4. Traces(r)' BY DEF Traces, Books, ScopeLife
    <3> QED BY <3>1, <3>2, <3>3, <3>4
  <2>3. \A s \in Repos \ {r} : Same(s) BY DEF Same, TypeOK
  <2> QED BY <2>1, <2>2, <2>3, StepOf
<1>5. CASE SubmissionFails(r)
  <2> USE <1>5 DEF SubmissionFails
  <2>1. TypeOK' BY DEF TypeOK, Labels
  <2>2. RepoInv(r)'
    <3> USE DEF TypeOK, Ended, Uploading, RepoInv
    <3>1. Books(r)' BY DEF Books
    <3>2. Verdict(r)' BY DEF Verdict, Books
    <3>3. ScopeLife(r)' BY DEF ScopeLife
    <3>4. Traces(r)' BY DEF Traces, Books, ScopeLife
    <3> QED BY <3>1, <3>2, <3>3, <3>4
  <2>3. \A s \in Repos \ {r} : Same(s) BY DEF Same, TypeOK
  <2> QED BY <2>1, <2>2, <2>3, StepOf
<1>6. CASE Drained(r)
  <2> USE <1>6 DEF Drained
  <2>1. TypeOK' BY DEF TypeOK, Labels
  <2>2. RepoInv(r)'
    <3> USE DEF TypeOK, Ended, Uploading, RepoInv
    <3>1. Books(r)' BY DEF Books
    <3>2. Verdict(r)' BY DEF Verdict, Books
    <3>3. ScopeLife(r)' BY DEF ScopeLife
    <3>4. Traces(r)' BY DEF Traces, Books, ScopeLife
    <3> QED BY <3>1, <3>2, <3>3, <3>4
  <2>3. \A s \in Repos \ {r} : Same(s) BY DEF Same, TypeOK
  <2> QED BY <2>1, <2>2, <2>3, StepOf
<1>7. CASE CompleteHarvest(r)
  <2> USE <1>7 DEF CompleteHarvest, RecordUploadOutcomes, NameHarvest
  <2>1. TypeOK' BY DEF TypeOK, Labels
  <2>2. RepoInv(r)'
    <3> USE DEF TypeOK, Ended, Uploading, RepoInv
    <3>1. Books(r)' BY DEF Books
    <3>2. Verdict(r)' BY DEF Verdict, Books
    <3>3. ScopeLife(r)' BY DEF ScopeLife
    <3>4. Traces(r)' BY DEF Traces, Books, ScopeLife
    <3> QED BY <3>1, <3>2, <3>3, <3>4
  <2>3. \A s \in Repos \ {r} : Same(s) BY DEF Same, TypeOK
  <2> QED BY <2>1, <2>2, <2>3, StepOf
<1>8. ASSUME NEW status \in {"RUNNING", "COMPLETED", "FAILED"}, NEW hasId \in BOOLEAN,
           CompleteFails(r, status, hasId) PROVE HarvestInv'
  <2> USE <1>8 DEF CompleteFails, RecordUploadAborted, NameHarvest
  <2>1. TypeOK' BY DEF TypeOK, Labels
  <2>2. RepoInv(r)'
    <3> USE DEF TypeOK, Ended, Uploading, RepoInv
    <3>1. Books(r)' BY DEF Books
    <3>2. Verdict(r)' BY DEF Verdict, Books
    <3>3. ScopeLife(r)' BY DEF ScopeLife
    <3>4. Traces(r)'
      <4>1. issues'[r] + failed'[r] > 0 BY DEF Books, Traces
      <4>2. /\ pc'[r] = "close" /\ pluginErrors'[r] = pluginErrors[r]
            /\ issues'[r] \in {issues[r], issues[r] + 1}
        OBVIOUS
      <4> QED BY <4>1, <4>2 DEF Traces
    <3> QED BY <3>1, <3>2, <3>3, <3>4
  <2>3. \A s \in Repos \ {r} : Same(s) BY DEF Same, TypeOK
  <2> QED BY <2>1, <2>2, <2>3, StepOf
<1>9. ASSUME NEW status \in {"RUNNING", "FAILED"}, NEW hasId \in BOOLEAN,
           FailHarvest(r, status, hasId) PROVE HarvestInv'
  <2> USE <1>9 DEF FailHarvest, RecordUploadOutcomes, NameHarvest, RecordUploadAborted
  <2>1. TypeOK' BY DEF TypeOK, Labels
  <2>2. RepoInv(r)'
    <3> USE DEF TypeOK, Ended, Uploading, RepoInv
    <3>1. Books(r)' BY DEF Books
    <3>2. Verdict(r)' BY DEF Verdict, Books
    <3>3. ScopeLife(r)' BY DEF ScopeLife
    <3>4. Traces(r)' BY DEF Traces, Books, ScopeLife
    <3> QED BY <3>1, <3>2, <3>3, <3>4
  <2>3. \A s \in Repos \ {r} : Same(s) BY DEF Same, TypeOK
  <2> QED BY <2>1, <2>2, <2>3, StepOf
<1> QED BY <1>1, <1>2, <1>3, <1>4, <1>5, <1>6, <1>7, <1>8, <1>9 DEF ClientStep

\* Begin and end of run_repository, and the delivery of a cancellation.
LEMMA TaskStepInv ==
  ASSUME HarvestInv, NEW r \in Repos, TaskStep(r)
  PROVE  HarvestInv'
<1> USE DEF GoTo, At, uploadVars, entryVars, counters, taskVars, mainVars
<1>0. TypeOK /\ RepoInv(r) BY DEF HarvestInv, RepoInv
<1> USE <1>0
<1>1. CASE OpenFails(r)
  <2> USE <1>1 DEF OpenFails
  <2>1. TypeOK' BY DEF TypeOK, Labels
  <2>2. RepoInv(r)'
    <3> USE DEF TypeOK, Ended, Uploading, RepoInv
    <3>1. Books(r)' BY DEF Books
    <3>2. Verdict(r)' BY DEF Verdict, Books
    <3>3. ScopeLife(r)' BY DEF ScopeLife
    <3>4. Traces(r)' BY DEF Traces, Books, ScopeLife
    <3> QED BY <3>1, <3>2, <3>3, <3>4
  <2>3. \A s \in Repos \ {r} : Same(s) BY DEF Same, TypeOK
  <2> QED BY <2>1, <2>2, <2>3, StepOf
<1>2. ASSUME NEW raises \in BOOLEAN, BeginRepository(r, raises) PROVE HarvestInv'
  <2> USE <1>2 DEF BeginRepository, RecordFailure
  <2>1. TypeOK' BY DEF TypeOK, Labels
  <2>2. RepoInv(r)'
    <3> USE DEF TypeOK, Ended, Uploading, RepoInv
    <3>1. Books(r)' BY DEF Books
    <3>2. Verdict(r)' BY DEF Verdict, Books
    <3>3. ScopeLife(r)' BY DEF ScopeLife
    <3>4. Traces(r)' BY DEF Traces, Books, ScopeLife
    <3> QED BY <3>1, <3>2, <3>3, <3>4
  <2>3. \A s \in Repos \ {r} : Same(s) BY DEF Same, TypeOK
  <2> QED BY <2>1, <2>2, <2>3, StepOf
<1>3. ASSUME NEW raises \in BOOLEAN, Expected(r, raises) PROVE HarvestInv'
  <2> USE <1>3 DEF Expected, RecordFailure
  <2>1. TypeOK' BY DEF TypeOK, Labels
  <2>2. RepoInv(r)'
    <3> USE DEF TypeOK, Ended, Uploading, RepoInv
    <3>1. Books(r)' BY DEF Books
    <3>2. Verdict(r)' BY DEF Verdict, Books
    <3>3. ScopeLife(r)' BY DEF ScopeLife
    <3>4. Traces(r)' BY DEF Traces, Books, ScopeLife
    <3> QED BY <3>1, <3>2, <3>3, <3>4
  <2>3. \A s \in Repos \ {r} : Same(s) BY DEF Same, TypeOK
  <2> QED BY <2>1, <2>2, <2>3, StepOf
<1>4. ASSUME NEW raises \in BOOLEAN, CloseRepository(r, raises) PROVE HarvestInv'
  <2> USE <1>4 DEF CloseRepository, RecordFailure
  <2>1. TypeOK' BY DEF TypeOK, Labels
  <2>2. RepoInv(r)'
    <3> USE DEF TypeOK, Ended, Uploading, RepoInv
    <3>1. Books(r)' BY DEF Books
    <3>2. Verdict(r)' BY DEF Verdict, Books
    <3>3. ScopeLife(r)' BY DEF ScopeLife
    <3>4. Traces(r)' BY DEF Traces, Books, ScopeLife
    <3> QED BY <3>1, <3>2, <3>3, <3>4
  <2>3. \A s \in Repos \ {r} : Same(s) BY DEF Same, TypeOK
  <2> QED BY <2>1, <2>2, <2>3, StepOf
<1>5. ASSUME NEW raises \in BOOLEAN, CloseCancelled(r, raises) PROVE HarvestInv'
  <2> USE <1>5 DEF CloseCancelled, RecordFailure
  <2>1. TypeOK' BY DEF TypeOK, Labels
  <2>2. RepoInv(r)'
    <3> USE DEF TypeOK, Ended, Uploading, RepoInv
    <3>1. Books(r)' BY DEF Books
    <3>2. Verdict(r)' BY DEF Verdict, Books
    <3>3. ScopeLife(r)' BY DEF ScopeLife
    <3>4. Traces(r)' BY DEF Traces, Books, ScopeLife
    <3> QED BY <3>1, <3>2, <3>3, <3>4
  <2>3. \A s \in Repos \ {r} : Same(s) BY DEF Same, TypeOK
  <2> QED BY <2>1, <2>2, <2>3, StepOf
<1>6. ASSUME NEW status \in {"none", "RUNNING", "COMPLETED", "FAILED"}, status = "none" => api[r] = "none",
           DeliverCancel(r, status) PROVE HarvestInv'
  <2> USE <1>6 DEF DeliverCancel, RecordFailure
  <2>1. TypeOK' BY DEF TypeOK, Labels
  <2>2. RepoInv(r)'
    <3> USE DEF TypeOK, Ended, Uploading, RepoInv
    <3>1. Books(r)' BY DEF Books
    <3>2. Verdict(r)' BY DEF Verdict, Books
    <3>3. ScopeLife(r)' BY DEF ScopeLife
    <3>4. Traces(r)' BY DEF Traces, Books, ScopeLife
    <3> QED BY <3>1, <3>2, <3>3, <3>4
  <2>3. \A s \in Repos \ {r} : Same(s) BY DEF Same, TypeOK
  <2> QED BY <2>1, <2>2, <2>3, StepOf
<1> QED BY <1>1, <1>2, <1>3, <1>4, <1>5, <1>6 DEF TaskStep

-----------------------------------------------------------------------------
(* The steps of the run itself *)

\* A task-group abort requests a cancellation and changes nothing else.
LEMMA AbortStepInv ==
  ASSUME HarvestInv, NEW r \in Repos, PipelineAborts(r)
  PROVE  HarvestInv'
<1>1. TypeOK' BY DEF HarvestInv, TypeOK, PipelineAborts, uploadVars, entryVars, counters, mainVars
<1>2. ASSUME NEW s \in Repos PROVE Same(s)
  BY DEF Same, PipelineAborts, uploadVars, entryVars, counters, mainVars
<1>3. ASSUME NEW s \in Repos PROVE RepoInv(s)'
  BY <1>2, Frame DEF HarvestInv, RepoInv
<1> QED BY <1>1, <1>3 DEF HarvestInv, RepoInv

\* So does an interrupt.
LEMMA InterruptStepInv == HarvestInv /\ Interrupt => HarvestInv'
<1> SUFFICES ASSUME HarvestInv, Interrupt PROVE HarvestInv' OBVIOUS
<1>1. TypeOK' BY DEF HarvestInv, TypeOK, Interrupt, uploadVars, entryVars, counters
<1>2. ASSUME NEW s \in Repos PROVE Same(s)
  BY DEF Same, Interrupt, uploadVars, entryVars, counters
<1>3. ASSUME NEW s \in Repos PROVE RepoInv(s)'
  BY <1>2, Frame DEF HarvestInv, RepoInv
<1> QED BY <1>1, <1>3 DEF HarvestInv, RepoInv

\* Start, the end of gather, and the exit.
LEMMA MainStepInv == HarvestInv /\ MainStep => HarvestInv'
<1> SUFFICES ASSUME HarvestInv, MainStep PROVE HarvestInv' OBVIOUS
<1> USE DEF uploadVars, entryVars, counters, taskVars
<1>0. TypeOK /\ \A s \in Repos : RepoInv(s) BY DEF HarvestInv, RepoInv
<1>1. CASE Gather
  <2>1. TypeOK'
    <3>1. \A s \in Repos : scopes'[s] \in 0..1 /\ issues'[s] \in Nat
      BY <1>0, <1>1 DEF Gather, TypeOK
    <3> QED BY <1>0, <1>1, <3>1 DEF Gather, TypeOK
  <2>2. ASSUME NEW s \in Repos PROVE RepoInv(s)'
    <3> USE <1>0, <1>1 DEF Gather, TypeOK, AllEnded, Ended, RepoInv
    <3>0. RepoInv(s) /\ pc[s] \in Ended OBVIOUS
    <3> USE <3>0
    <3>1. Books(s)' BY DEF Books, Uploading
    <3>2. Verdict(s)' BY DEF Verdict, Uploading
    <3>3. ScopeLife(s)' BY DEF ScopeLife
    <3>4. Traces(s)' BY DEF Traces, ScopeLife
    <3> QED BY <3>1, <3>2, <3>3, <3>4
  <2> QED BY <2>1, <2>2 DEF HarvestInv, RepoInv
<1>2. CASE StartFails \/ StartRun \/ GatherInterrupted \/ ExitRun \/ ClientCloseFails
  <2> USE <1>0, <1>2 DEF StartFails, StartRun, GatherInterrupted, ExitRun, ClientCloseFails
  <2>1. TypeOK' BY DEF TypeOK
  <2>2. ASSUME NEW s \in Repos PROVE RepoInv(s)'
    <3> USE DEF TypeOK, Ended, RepoInv
    <3>1. Books(s)' BY DEF Books, Uploading
    <3>2. Verdict(s)' BY DEF Verdict, Uploading
    <3>3. ScopeLife(s)' BY DEF ScopeLife
    <3>4. Traces(s)' BY DEF Traces, ScopeLife
    <3> QED BY <3>1, <3>2, <3>3, <3>4
  <2> QED BY <2>1, <2>2 DEF HarvestInv, RepoInv
<1> QED BY <1>1, <1>2 DEF MainStep

\* A run that has not started satisfies HarvestInv.
LEMMA InitInv == Init => HarvestInv
<1> SUFFICES ASSUME Init PROVE HarvestInv OBVIOUS
<1>1. TypeOK
  <2>1. pc \in [Repos -> Labels] BY DEF Init, Labels
  <2>2. scopes \in [Repos -> 0..1] BY DEF Init
  <2>3. api \in [Repos -> {"none", "RUNNING", "COMPLETED", "FAILED"}] BY DEF Init
  <2> QED BY <2>1, <2>2, <2>3 DEF Init, TypeOK
<1>2. ASSUME NEW r \in Repos PROVE RepoInv(r)
  <2> USE DEF Init, Ended, Uploading
  <2>1. Books(r) BY DEF Books
  <2>2. Verdict(r) BY DEF Verdict
  <2>3. ScopeLife(r) BY DEF ScopeLife
  <2>4. Traces(r) BY DEF Traces
  <2> QED BY <2>1, <2>2, <2>3, <2>4 DEF RepoInv
<1> QED BY <1>1, <1>2 DEF HarvestInv, RepoInv

\* Every step preserves HarvestInv.
LEMMA NextInv == HarvestInv /\ [Next]_vars => HarvestInv'
<1> SUFFICES ASSUME HarvestInv, [Next]_vars PROVE HarvestInv' OBVIOUS
<1>1. CASE MainStep BY <1>1, MainStepInv
<1>2. ASSUME NEW r \in Repos, RepositoryStep(r) PROVE HarvestInv'
  BY <1>2, PluginStepInv, ClientStepInv, TaskStepInv DEF RepositoryStep
<1>3. ASSUME NEW r \in Repos, PipelineAborts(r) PROVE HarvestInv'
  BY <1>3, AbortStepInv
<1>4. CASE Interrupt BY <1>4, InterruptStepInv
<1>5. CASE UNCHANGED vars
  <2>1. TypeOK' BY <1>5 DEF HarvestInv, TypeOK, vars, uploadVars, entryVars, counters, taskVars, mainVars
  <2>2. ASSUME NEW s \in Repos PROVE Same(s)
    BY <1>5 DEF Same, vars, uploadVars, entryVars, counters, taskVars, mainVars
  <2>3. ASSUME NEW s \in Repos PROVE RepoInv(s)'
    BY <2>2, Frame DEF HarvestInv, RepoInv
  <2> QED BY <2>1, <2>3 DEF HarvestInv, RepoInv
<1> QED BY <1>1, <1>2, <1>3, <1>4, <1>5 DEF Next, Terminated

-----------------------------------------------------------------------------
(* Closed scopes *)

\* The scope of s is left alone.
Untouched(s) ==
  /\ scopes'[s] = scopes[s] /\ (s \in named' <=> s \in named)
  /\ harvested'[s] = harvested[s] /\ failed'[s] = failed[s]
  /\ skipped'[s] = skipped[s] /\ issues'[s] = issues[s]
  /\ (s \in closed => s \in closed')

\* An entry none of whose fields changes stays frozen.
LEMMA UntouchedEntry ==
  ASSUME NEW s \in Repos, Untouched(s)
  PROVE  EntryOf(s)' = EntryOf(s) /\ (s \in closed => s \in closed')
BY DEF Untouched, EntryOf

\* A task writes to its own scope only, while it is open.
LEMMA WritesOwnScope ==
  ASSUME HarvestInv, NEW r \in Repos, RepositoryStep(r)
  PROVE  /\ \A s \in Repos \ {r} : Untouched(s)
         /\ r \notin closed
         /\ scopes'[r] = 1 \/ Untouched(r)
<1> USE DEF GoTo, At, uploadVars, entryVars, counters, taskVars, mainVars, Untouched
<1>0. TypeOK /\ ScopeLife(r) BY DEF HarvestInv
<1>1. CASE PluginStep(r)
  <2> USE <1>0, <1>1 DEF PluginStep, TakeArc, TakeSkipped, TakeRecordError, TakePluginError,
          StreamEnds, StreamRaises, CanYield
  <2>1. pc[r] \notin Ended BY DEF Ended
  <2>2. \A s \in Repos \ {r} : Untouched(s) BY DEF TypeOK
  <2>3. scopes'[r] = 1 BY DEF ScopeLife, TypeOK
  <2> QED BY <2>1, <2>2, <2>3 DEF ScopeLife
<1>2. CASE ClientStep(r)
  <2> USE <1>0, <1>2 DEF ClientStep, CreateHarvest, CreateFails, PullNext, Answer,
          SubmissionFails, Drained, CompleteHarvest, CompleteFails, FailHarvest,
          RecordUploadOutcomes, RecordUploadAborted, NameHarvest
  <2>1. pc[r] \notin Ended BY DEF Ended
  <2>2. \A s \in Repos \ {r} : Untouched(s) BY DEF TypeOK
  <2>3. scopes'[r] = 1 BY DEF ScopeLife, TypeOK
  <2> QED BY <2>1, <2>2, <2>3 DEF ScopeLife
<1>3. CASE TaskStep(r)
  <2> USE <1>0, <1>3 DEF TaskStep, OpenFails, BeginRepository, Expected, CloseRepository,
          CloseCancelled, DeliverCancel, RecordFailure
  <2>1. pc[r] \notin Ended BY DEF Ended, Uploading
  <2>2. \A s \in Repos \ {r} : Untouched(s) BY DEF TypeOK
  <2>3. scopes'[r] = 1 \/ Untouched(r) BY DEF ScopeLife, TypeOK, Uploading
  <2> QED BY <2>1, <2>2, <2>3 DEF ScopeLife
<1> QED BY <1>1, <1>2, <1>3 DEF RepositoryStep

-----------------------------------------------------------------------------
(* The theorems *)

\* HarvestInv holds in every reachable state of every run.
THEOREM HarvestCorrect == Spec => []HarvestInv
BY InitInv, NextInv, PTL DEF Spec

\* The run's state keeps its types.
THEOREM TypeCorrect == Spec => []TypeOK
<1>1. HarvestInv => TypeOK BY DEF HarvestInv
<1> QED BY <1>1, HarvestCorrect, PTL

\* Every submitted ARC and every record error is counted exactly once, in every
\* upload that was not cancelled.
THEOREM AccountedCorrect == Spec => []Accounted
<1>1. HarvestInv => Accounted
  BY DEF HarvestInv, Books, Accounted
<1> QED BY <1>1, HarvestCorrect, PTL

\* Only a harvest the plugin finished without a repository-level error and whose
\* submissions were all answered is ever completed.
THEOREM CompletedCorrect == Spec => []CompletedMeansWhole
<1>1. HarvestInv => CompletedMeansWhole
  BY DEF HarvestInv, Verdict, CompletedMeansWhole
<1> QED BY <1>1, HarvestCorrect, PTL

\* No harvest that failed, was left running or was never created looks clean in
\* an emitted report.
THEOREM NeverSilentCorrect == Spec => []NeverSilent
<1>1. HarvestInv => NeverSilent
  BY DEF HarvestInv, TypeOK, Traces, NeverSilent
<1> QED BY <1>1, HarvestCorrect, PTL

\* A finished run has one closed entry per repository, and names only harvests
\* that exist.
THEOREM OneEntryCorrect == Spec => []OneEntryEach
<1>1. HarvestInv => OneEntryEach
  BY DEF HarvestInv, TypeOK, Verdict, ScopeLife, OneEntryEach
<1> QED BY <1>1, HarvestCorrect, PTL

\* Nothing is written to a scope once it is closed, nor before it is opened.
THEOREM FrozenCorrect == Spec => FrozenAfterClose
<1>1. ASSUME HarvestInv, [Next]_vars PROVE [FrozenStep]_vars
  <2>1. ASSUME NEW r \in Repos, RepositoryStep(r), NEW s \in Repos PROVE Frozen(s)
    BY <1>1, <2>1, WritesOwnScope, UntouchedEntry DEF Frozen
  <2>2. ASSUME NEW s \in Repos, UNCHANGED entryVars PROVE Frozen(s)
    <3>1. Untouched(s) BY <2>2 DEF Untouched, entryVars, counters
    <3> QED BY <3>1, UntouchedEntry DEF Frozen
  <2>3. ASSUME Gather, NEW s \in Repos PROVE Frozen(s)
    <3>1. TypeOK /\ ScopeLife(s) BY <1>1 DEF HarvestInv
    <3>2. CASE scopes[s] = 0 /\ pc[s] # "returned"
      <4>1. scopes'[s] = 1 /\ s \notin closed
        BY <2>3, <3>1, <3>2 DEF Gather, TypeOK, ScopeLife
      <4> QED BY <4>1 DEF Frozen
    <3>3. CASE ~(scopes[s] = 0 /\ pc[s] # "returned")
      <4>1. Untouched(s)
        BY <2>3, <3>1, <3>3 DEF Gather, TypeOK, Untouched, counters
      <4> QED BY <4>1, UntouchedEntry DEF Frozen
    <3> QED BY <3>2, <3>3
  <2>4. CASE \E r \in Repos : PipelineAborts(r)
    BY <2>2, <2>4 DEF PipelineAborts, FrozenStep
  <2>5. CASE Interrupt BY <2>2, <2>5 DEF Interrupt, FrozenStep
  <2>6. CASE MainStep
    BY <2>2, <2>3, <2>6 DEF MainStep, StartFails, StartRun, GatherInterrupted, ExitRun,
       ClientCloseFails, FrozenStep
  <2>7. CASE UNCHANGED vars BY <2>7
  <2> QED BY <1>1, <2>1, <2>4, <2>5, <2>6, <2>7 DEF Next, Terminated, FrozenStep
<1>2. HarvestInv /\ [Next]_vars => [FrozenStep]_vars BY <1>1
<1> QED BY <1>2, HarvestCorrect, PTL DEF Spec, FrozenAfterClose

=============================================================================
