------------------------------ MODULE FollowUps ------------------------------
(***************************************************************************)
(* Follow-up issues of the devinfra synchronisation (sync_followup.py,     *)
(* issue.py): a run takes the ids that the trailers of a merged pull       *)
(* request name and sees to it that each has an open issue.  Nothing but   *)
(* the label sync-followup:<id> tells a later run that the issue is there; *)
(* labels are listed, then created, while other runs do the same, people   *)
(* remove them, and calls fail after or before they have taken effect.     *)
(***************************************************************************)
EXTENDS Integers, Sequences

CONSTANTS Runners,            \* runs of the workflow that may overlap
          Ids,                \* stable ids
          MaxCalls,           \* bounds: failures of calls,
          MaxEdits            \* edits by people

Triage == "triage"            \* the severity and cost labels, taken as one

VARIABLES trailers,     \* ids named by the pull request and its comments
          issues,       \* [id, open, labelled, saw], in order of creation
          labels,       \* labels of the product repository
          runs, calls, edits

fvars == <<trailers, issues, labels, runs, calls, edits>>

\* at: what the run does next; left: ids to ensure; want: labels to ensure for the first of
\* them; saw: the number of issues there were when it looked for one.
Run(at, left, id, want, saw) == [at |-> at, left |-> left, id |-> id, want |-> want, saw |-> saw]
Idle == Run("idle", {}, Triage, <<>>, 0)

FollowUpInit ==
  /\ trailers \in SUBSET Ids /\ issues = <<>> /\ labels \in {{}, {Triage}}
  /\ runs = [r \in Runners |-> Idle] /\ calls = 0 /\ edits = 0

Is(r, at) == runs[r].at = at
Goes(r, run) == runs' = [runs EXCEPT ![r] = run]

\* pr_for_commit and collect_sync_followup_ids: body, comments and reviews as they are now.
Collect(r) ==
  /\ Is(r, "idle") /\ trailers # {}
  /\ Goes(r, Run("find", trailers, Triage, <<>>, 0))
  /\ UNCHANGED <<trailers, issues, labels, calls, edits>>

\* Bug: a search, in whose index the newest issue is still missing.
Carrying_Indexed(id) ==
  {n \in DOMAIN issues : issues[n].open /\ issues[n].id = id /\ issues[n].labelled /\ n < Len(issues)}

\* find_open_followup: open issues with the label.
Carrying(id) == {n \in DOMAIN issues : issues[n].open /\ issues[n].id = id /\ issues[n].labelled}

\* An open one is reused; without any, ensure_labels, ensure_dedupe_label and create_issue,
\* which ensures the triage labels again.
Find(r) ==
  /\ Is(r, "find")
  /\ \E id \in runs[r].left :
       Goes(r, IF Carrying(id) = {} THEN Run("labels", runs[r].left, id, <<Triage, id, Triage>>, Len(issues))
               ELSE IF runs[r].left = {id} THEN Idle
               ELSE Run("find", runs[r].left \ {id}, id, <<>>, 0))
  /\ UNCHANGED <<trailers, issues, labels, calls, edits>>

\* Bug: the list ends before the labels of the follow-ups, as it did with gh's default limit.
Existing_Page == labels \ Ids
Existing == labels

ListLabels(r) ==
  /\ Is(r, "labels") /\ runs[r].want # <<>>
  /\ Goes(r, IF Head(runs[r].want) \in Existing THEN [runs[r] EXCEPT !.want = Tail(@)]
             ELSE [runs[r] EXCEPT !.at = "make"])
  /\ UNCHANGED <<trailers, issues, labels, calls, edits>>

\* The call is refused when the label has appeared since; the run ends then.
MakeLabel(r) ==
  /\ Is(r, "make")
  /\ LET label == Head(runs[r].want)
     IN  /\ labels' = labels \cup {label}
         /\ Goes(r, IF label \in labels THEN Idle ELSE [runs[r] EXCEPT !.at = "labels", !.want = Tail(@)])
  /\ UNCHANGED <<trailers, issues, calls, edits>>

NewIssue(run) == [id |-> run.id, open |-> TRUE, labelled |-> TRUE, saw |-> run.saw]
LabelsReady(r) == Is(r, "labels") /\ runs[r].want = <<>>

\* gh issue create refuses labels that the repository does not have (any more).
Create(r) ==
  /\ LabelsReady(r)
  /\ IF {Triage, runs[r].id} \subseteq labels
     THEN /\ issues' = Append(issues, NewIssue(runs[r]))
          /\ Goes(r, IF runs[r].left = {runs[r].id} THEN Idle
                     ELSE Run("find", runs[r].left \ {runs[r].id}, runs[r].id, <<>>, 0))
     ELSE Goes(r, Idle) /\ UNCHANGED issues
  /\ UNCHANGED <<trailers, labels, calls, edits>>

\* A call fails before it has an effect, or its answer is lost; the run ends.
GhFails(r) ==
  /\ calls < MaxCalls /\ calls' = calls + 1
  /\ ~Is(r, "idle")
  /\ \/ UNCHANGED <<issues, labels>>
     \/ /\ Is(r, "make") /\ labels' = labels \cup {Head(runs[r].want)} /\ UNCHANGED issues
     \/ /\ LabelsReady(r) /\ {Triage, runs[r].id} \subseteq labels
        /\ issues' = Append(issues, NewIssue(runs[r])) /\ UNCHANGED labels
  /\ Goes(r, Idle)
  /\ UNCHANGED <<trailers, edits>>

\* People add a trailer in a comment, close an issue, and remove a label, which takes it from
\* the issues as well.
People ==
  /\ edits < MaxEdits /\ edits' = edits + 1
  /\ \/ /\ \E id \in Ids \ trailers : trailers' = trailers \cup {id}
        /\ UNCHANGED <<issues, labels>>
     \/ /\ \E n \in DOMAIN issues : issues[n].open /\ issues' = [issues EXCEPT ![n].open = FALSE]
        /\ UNCHANGED <<trailers, labels>>
     \/ /\ \E label \in labels :
             /\ labels' = labels \ {label}
             /\ issues' = [n \in DOMAIN issues |-> [issues[n] EXCEPT !.labelled = @ /\ issues[n].id # label]]
        /\ UNCHANGED trailers
  /\ UNCHANGED <<runs, calls>>

RunStep(r) == Collect(r) \/ Find(r) \/ ListLabels(r) \/ MakeLabel(r) \/ Create(r)
FollowUpNext == People \/ \E r \in Runners : RunStep(r) \/ GhFails(r)

-----------------------------------------------------------------------------
(* docs/sync.md 118-119: re-runs reuse the open issue of an id. Of two open issues that carry
   the label of the same id, the later was created by a run that had looked before the earlier
   one existed, whatever failed or was removed in between. *)
ReusedByReRuns ==
  \A m, n \in DOMAIN issues :
    m < n /\ issues[m].id = issues[n].id /\ {m, n} \subseteq Carrying(issues[n].id) => issues[n].saw < m

(* Each id that a trailer names gets an issue at last, although runs abort when another one
   has created the label they were about to create (sync_followup.py 53-76). *)
Followed == \A id \in Ids : id \in trailers ~> \E n \in DOMAIN issues : issues[n].id = id
=============================================================================
