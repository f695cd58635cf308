----------------------------- MODULE Heartbeat -----------------------------
(***************************************************************************)
(* The liveness probe: orchestrator.heartbeat_loop touches a file on the   *)
(* event loop that also runs synchronous work (the Inspire mapper), and    *)
(* the probe (healthcheck) calls the harvester dead when the file is too   *)
(* old.  Interval and age limit are configured apart.                      *)
(***************************************************************************)
EXTENDS Integers

CONSTANTS Interval,      \* heartbeat_interval
          MaxAge,        \* healthcheck --max-age
          MaxDelay,      \* how late the event loop may run a task that is due
          MaxMisses      \* touches in a row the file system may refuse

ASSUME HeartbeatAssumption ==
  {Interval, MaxAge, MaxDelay, MaxMisses} \subseteq Nat /\ Interval >= 1 /\ MaxAge >= 1

Absent == -1

VARIABLES age,           \* of the file; Absent before the first touch
          sleeping,      \* what is left of asyncio.sleep(interval)
          late,          \* how long the loop has been due
          misses,        \* touches refused in a row
          loop           \* "running", "cancelled", or "none"

hvars == <<age, sleeping, late, misses, loop>>

HeartbeatInit == age = Absent /\ sleeping = 0 /\ late = 0 /\ misses = 0 /\ loop = "running"

Due == loop = "running" /\ sleeping = 0

Touch == /\ Due
         /\ age' = 0 /\ misses' = 0 /\ sleeping' = Interval /\ late' = 0 /\ UNCHANGED loop

(* Bug: the error is not caught, and ends the loop.                        *)
TouchRefused_Ends == Due /\ misses < MaxMisses /\ misses' = misses + 1 /\ loop' = "ended" /\ UNCHANGED <<age, sleeping, late>>
TouchRefused ==
  /\ Due /\ misses < MaxMisses
  /\ misses' = misses + 1 /\ sleeping' = Interval /\ late' = 0 /\ UNCHANGED <<age, loop>>

TimePasses ==
  /\ loop \in {"running", "ended"} /\ (Due => late < MaxDelay)
  /\ age' = IF age \in {Absent, MaxAge} THEN age ELSE age + 1     \* older makes no difference
  /\ sleeping' = IF sleeping = 0 THEN 0 ELSE sleeping - 1
  /\ late' = IF sleeping = 0 /\ late < MaxDelay THEN late + 1 ELSE late
  /\ UNCHANGED <<misses, loop>>

HarvestEnds == loop = "running" /\ loop' = "cancelled" /\ UNCHANGED <<age, sleeping, late, misses>>

HeartbeatNext == Touch \/ TouchRefused \/ TimePasses \/ HarvestEnds

NoHeartbeat == age = Absent /\ sleeping = 0 /\ late = 0 /\ misses = 0 /\ loop = "none"

-----------------------------------------------------------------------------
Healthy == age # Absent /\ age < MaxAge        \* healthcheck._check

(* Once it was touched, the file of a running harvest is never too old, if *)
(* the age limit exceeds the longest gap that delays and refused touches   *)
(* leave between two touches.                                              *)
HealthyUnlessBlocked ==
  age # Absent /\ MaxAge > (MaxMisses + 1) * (Interval + MaxDelay) => Healthy

(* The inductive invariant behind it: since the last touch, every refused  *)
(* one has cost an interval and a delay at most, and the interval that is  *)
(* running is not over.                                                    *)
HeartbeatInv ==
  /\ age \in Nat \cup {Absent} /\ sleeping \in 0 .. Interval
  /\ late \in 0 .. MaxDelay /\ misses \in 0 .. MaxMisses
  /\ loop \in {"running", "cancelled", "none"}
  /\ age # Absent => age <= misses * (Interval + MaxDelay) + (Interval - sleeping) + late
=============================================================================
