----------------------------- MODULE Automation -----------------------------
(***************************************************************************)
(* The commands of m42-ai (scripts/ai) that agents and workflows run again *)
(* and again, each on state that GitHub keeps: rounds of review on a pull  *)
(* request, and follow-up issues of a synchronisation.                     *)
(***************************************************************************)
EXTENDS ReviewRounds, FollowUps

avars == <<reviewVars, fvars>>

\* What the command that is not run works on stays as it is.
NoReviews == /\ reviews = <<>> /\ comments = <<>> /\ threads = [t \in Threads |-> "absent"] /\ clock = 0
             /\ tree = "dirty" /\ agent = "idle" /\ work = NoWork /\ shown = {} /\ upsets = 0
NoFollowUps == /\ trailers = {} /\ issues = <<>> /\ labels = {"none"}
               /\ runs = [r \in Runners |-> Idle] /\ calls = 0 /\ edits = 0

Reviewing == labels = {"none"}

AutomationInit == \/ ReviewInit /\ NoFollowUps
                  \/ FollowUpInit /\ NoReviews

AutomationNext == \/ Reviewing /\ ReviewNext /\ UNCHANGED fvars
                  \/ ~Reviewing /\ FollowUpNext /\ UNCHANGED reviewVars

AutomationSpec ==
  /\ AutomationInit /\ [][AutomationNext]_avars
  /\ WF_avars(Reviewing /\ AgentStep /\ UNCHANGED fvars)
  /\ \A r \in Runners : WF_avars(~Reviewing /\ RunStep(r) /\ UNCHANGED reviewVars)
=============================================================================
