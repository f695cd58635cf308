--------------------------- MODULE OutcomeStream ---------------------------
(***************************************************************************)
(* What the generic pipeline promises to the caller of its generator,      *)
(* without queue, permits, tasks or sentinel: every outcome of every item  *)
(* taken from discovery is handed over once, those of one item in order,   *)
(* and the stream says that it is complete only when nothing is missing.   *)
(* It may stop early only by being closed, cancelled, or by failing.       *)
(***************************************************************************)
EXTENDS Integers, Sequences

CONSTANTS MaxItems, MaxOutcomes

Unknown == -1
Sources == 0..MaxItems            \* source 0 reports a failure of discovery

VARIABLES
  taken,       \* items taken from discovery
  over,        \* discovery has ended
  made,        \* outcomes of each source, or Unknown
  delivered,   \* outcomes handed over
  status       \* "open", or how the stream ended

vars == <<taken, over, made, delivered, status>>

Made == {o \in Sources \X (1..MaxOutcomes) : o[2] <= made[o[1]]}

Init ==
  /\ taken = 0
  /\ over = FALSE
  /\ made = [s \in Sources |-> Unknown]
  /\ delivered = {}
  /\ status = "open"

\* Discovery yields the next item, possibly together with its one outcome.
Take(n) ==
  /\ status = "open" /\ ~over /\ taken < MaxItems
  /\ taken' = taken + 1
  /\ made' = [made EXCEPT ![taken + 1] = n]
  /\ UNCHANGED <<over, delivered, status>>

\* The outcomes of a taken item, or the failure of discovery, become known.
Resolve(s, n) ==
  /\ status = "open" /\ s <= taken /\ made[s] = Unknown
  /\ s = 0 => ~over
  /\ made' = [made EXCEPT ![s] = n]
  /\ UNCHANGED <<taken, delivered, status>>

Deliver(o) ==
  /\ status = "open"
  /\ o \in Made \ delivered
  /\ \A k \in 1..(o[2] - 1) : <<o[1], k>> \in delivered
  /\ delivered' = delivered \cup {o}
  /\ UNCHANGED <<taken, over, made, status>>

EndDiscovery ==
  /\ over' = TRUE
  /\ UNCHANGED <<taken, made, delivered, status>>

Complete ==
  /\ status = "open" /\ over
  /\ \A i \in 1..taken : made[i] # Unknown
  /\ delivered = Made
  /\ status' = "complete"
  /\ UNCHANGED <<taken, over, made, delivered>>

Stop(reason) ==
  /\ status = "open"
  /\ status' = reason
  /\ UNCHANGED <<taken, over, made, delivered>>

Next ==
  \/ \E n \in {Unknown, 1} : Take(n)
  \/ \E s \in Sources, n \in 0..MaxOutcomes : Resolve(s, n) /\ UNCHANGED over
  \/ \E o \in Made : Deliver(o)
  \/ EndDiscovery
  \/ Complete
  \/ \E reason \in {"closed", "cancelled", "failed"} : Stop(reason)

Spec == Init /\ [][Next]_vars

=============================================================================
