------------------------------ MODULE PoliteHttp ------------------------------
(***************************************************************************)
(* The HTTP client of one repository (contracts/nice_http_client.py): the  *)
(* tasks of a harvest (discovery, workers, context fetches) share its      *)
(* robots.txt cache, a lock and a time stamp per host, and a retry policy. *)
(* A task asks for one URL with get_with_policy.                           *)
(*                                                                         *)
(* Time passes in whole units.  A host is known by the time since its      *)
(* stamp, a sleeping task by the time it has left, so that no clock has to *)
(* be bounded; ages are counted up to Horizon.  A request is on the wire   *)
(* from the moment it is admitted (waits in the connection pool are the    *)
(* transport's).                                                           *)
(***************************************************************************)
EXTENDS Integers, Sequences, SequencesExt

CONSTANTS
  Tasks,
  Hosts,
  HostOf,          \* HostOf[t]: the host of the URL t asks for
  Forbidden,       \* the tasks whose URL the host's robots.txt disallows
  SiteDelay,       \* SiteDelay[h]: Crawl-delay of h's robots.txt, 0 if none
  RespectRobots,   \* respect_robots_txt
  MinInterval,     \* 1 / max_requests_per_second, 0 if unlimited
  RetryAttempts,   \* retry_attempts
  BackoffBase,     \* retry_backoff_base
  BackoffFactor,   \* retry_backoff_factor
  MaxRetryDelay,   \* max_retry_delay
  Advices,         \* Retry-After headers of 429 and 503 answers
  Uptime,          \* the monotonic clock when the client opens
  Horizon          \* bound on the ages counted

Max2(a, b) == IF a > b THEN a ELSE b
Min2(a, b) == IF a < b THEN a ELSE b

\* after = 0 stands for a missing or unreadable header as well.
Advice == [after : Nat, date : BOOLEAN]

ASSUME PoliteAssumption ==
  /\ HostOf \in [Tasks -> Hosts]
  /\ Forbidden \subseteq Tasks
  /\ SiteDelay \in [Hosts -> Nat]
  /\ RespectRobots \in BOOLEAN
  /\ MinInterval \in Nat /\ RetryAttempts \in Nat
  /\ MaxRetryDelay \in Nat
  /\ \A n \in 0..RetryAttempts : BackoffBase * BackoffFactor ^ n \in Nat
  /\ Advices \subseteq Advice
  /\ Uptime \in Nat /\ Horizon \in Nat
  /\ \A h \in Hosts : Horizon >= SiteDelay[h] /\ Horizon >= MinInterval

VARIABLES
  robots,      \* robots[h]: "unknown", "rules" or "allowAll"
  crawlDelay,  \* crawlDelay[h]: host_crawl_delay, 0 if none is recorded
  age,         \* age[h]: time since host_last_request
  line,        \* line[h]: holder and waiters of the host's lock
  pc,
  left,        \* left[t]: rest of t's sleep
  attempt,     \* attempt[t]: 1 .. 1 + RetryAttempts
  advice,      \* advice[t]: Retry-After of the last answer t has got
  read,        \* history: hosts whose rules were read,
  unread,      \* and whose robots.txt could not be read;
  knew,        \* tasks that passed their check when the rules had been read;
  quiet,       \* quiet[h]: time since a request was admitted;
  owed         \* owed[t]: what is left of the wait the server asked of t

hostVars == <<robots, crawlDelay, age, line>>
taskVars == <<pc, left, attempt, advice>>
history == <<read, unread, knew, quiet, owed>>
vars == <<hostVars, taskVars, history>>

Init ==
  /\ robots = [h \in Hosts |-> "unknown"]
  /\ crawlDelay = [h \in Hosts |-> 0]
  /\ age = [h \in Hosts |-> Min2(Uptime, Horizon)]
  /\ line = [h \in Hosts |-> <<>>]
  /\ pc = [t \in Tasks |-> "idle"]
  /\ left = [t \in Tasks |-> 0]
  /\ attempt = [t \in Tasks |-> 1]
  /\ advice = [t \in Tasks |-> [after |-> 0, date |-> FALSE]]
  /\ read = {} /\ unread = {} /\ knew = {}
  /\ quiet = [h \in Hosts |-> Horizon]
  /\ owed = [t \in Tasks |-> 0]

GoTo(t, label) == pc' = [pc EXCEPT ![t] = label]

Ended == {"done", "failed", "denied", "cancelled"}

-----------------------------------------------------------------------------
(* get_with_policy: ensure_allowed, then wait_for_host *)

Queue(t, label) ==
  /\ GoTo(t, label)
  /\ line' = [line EXCEPT ![HostOf[t]] = Append(@, t)]

\* can_fetch with the rules cached now; a disallowed URL raises.
Check(t, rules, rulesRead) ==
  IF rules = "rules" /\ t \in Forbidden
    THEN GoTo(t, "denied") /\ UNCHANGED <<line, knew>>
    ELSE /\ Queue(t, "urlLine")
         /\ knew' = IF HostOf[t] \in rulesRead THEN knew \cup {t} ELSE knew

Ask(t) ==
  /\ pc[t] = "idle"
  /\ IF RespectRobots /\ robots[HostOf[t]] = "unknown"
       THEN Queue(t, "robotsLine") /\ UNCHANGED knew
       ELSE Check(t, robots[HostOf[t]], read)
  /\ UNCHANGED <<robots, crawlDelay, age, left, attempt, advice, read, unread, quiet, owed>>

\* The time a host must be left alone between two requests.
Delay(h) == Max2(MinInterval, crawlDelay[h])

Queued == {"robotsLine", "urlLine"}
Sleeping == {"robotsSleep", "urlSleep"}

AtHead(t) == line[HostOf[t]] # <<>> /\ Head(line[HostOf[t]]) = t

\* The lock is released without a new stamp.
Admit_NoStamp(t) ==
  /\ GoTo(t, IF pc[t] \in {"robotsLine", "robotsSleep"} THEN "robotsGet" ELSE "get")
  /\ line' = [line EXCEPT ![HostOf[t]] = Tail(@)]
  /\ quiet' = [quiet EXCEPT ![HostOf[t]] = 0]
  /\ UNCHANGED age

\* The stamp is renewed and the lock released; the request goes out.
Admit(t) ==
  /\ GoTo(t, IF pc[t] \in {"robotsLine", "robotsSleep"} THEN "robotsGet" ELSE "get")
  /\ line' = [line EXCEPT ![HostOf[t]] = Tail(@)]
  /\ age' = [age EXCEPT ![HostOf[t]] = 0]
  /\ quiet' = [quiet EXCEPT ![HostOf[t]] = 0]

\* The rate limit only.
Acquire_NoCrawlDelay(t) ==
  /\ pc[t] \in Queued /\ AtHead(t)
  /\ IF age[HostOf[t]] >= MinInterval
       THEN Admit(t) /\ UNCHANGED left
       ELSE /\ GoTo(t, IF pc[t] = "robotsLine" THEN "robotsSleep" ELSE "urlSleep")
            /\ left' = [left EXCEPT ![t] = MinInterval - age[HostOf[t]]]
            /\ UNCHANGED <<line, age, quiet>>
  /\ UNCHANGED <<robots, crawlDelay, attempt, advice, read, unread, knew, owed>>

\* The lock is taken: the delay is computed once, then slept with the lock held.
Acquire(t) ==
  LET h == HostOf[t]
  IN  /\ pc[t] \in Queued /\ AtHead(t)
      /\ IF age[h] >= Delay(h)
           THEN Admit(t) /\ UNCHANGED left
           ELSE /\ GoTo(t, IF pc[t] = "robotsLine" THEN "robotsSleep" ELSE "urlSleep")
                /\ left' = [left EXCEPT ![t] = Delay(h) - age[h]]
                /\ UNCHANGED <<line, age, quiet>>
      /\ UNCHANGED <<robots, crawlDelay, attempt, advice, read, unread, knew, owed>>

Awake(t) ==
  /\ pc[t] \in Sleeping /\ left[t] = 0
  /\ Admit(t)
  /\ UNCHANGED <<robots, crawlDelay, left, attempt, advice, read, unread, knew, owed>>

-----------------------------------------------------------------------------
(* _load_robots_parser: the answer is stored whatever was stored meanwhile *)

\* The URL is asked for without a look at the rules just read.
RobotsRead_NoCheck(t) ==
  LET h == HostOf[t]
  IN  /\ pc[t] = "robotsGet"
      /\ robots' = [robots EXCEPT ![h] = "rules"]
      /\ crawlDelay' = [crawlDelay EXCEPT ![h] = IF SiteDelay[h] > 0 THEN SiteDelay[h] ELSE @]
      /\ read' = read \cup {h}
      /\ Check(t, "allowAll", read')
      /\ UNCHANGED <<age, left, attempt, advice, unread, quiet, owed>>

\* The rules replace whatever was cached; the check uses them at once.
RobotsRead(t) ==
  LET h == HostOf[t]
  IN  /\ pc[t] = "robotsGet"
      /\ robots' = [robots EXCEPT ![h] = "rules"]
      /\ crawlDelay' = [crawlDelay EXCEPT ![h] = IF SiteDelay[h] > 0 THEN SiteDelay[h] ELSE @]
      /\ read' = read \cup {h}
      /\ Check(t, "rules", read')
      /\ UNCHANGED <<age, left, attempt, advice, unread, quiet, owed>>

\* Any failure means allow all; a Crawl-delay recorded before stays.
RobotsFails(t) ==
  /\ pc[t] = "robotsGet"
  /\ robots' = [robots EXCEPT ![HostOf[t]] = "allowAll"]
  /\ unread' = unread \cup {HostOf[t]}
  /\ UNCHANGED read
  /\ Check(t, "allowAll", read)
  /\ UNCHANGED <<crawlDelay, age, left, attempt, advice, quiet, owed>>

-----------------------------------------------------------------------------
(* retry_get *)

\* _calculate_retry_delay: the exponential delay with up to a tenth of jitter,
\* capped.
LocalDelays(n) ==
  LET base == BackoffBase * BackoffFactor ^ (n - 1)
  IN  {Min2(d, MaxRetryDelay) : d \in (base - base \div 10) .. (base + base \div 10)}

\* An answer that retry_get does not repeat: success, a client error, a body
\* that is too large.
GetEnds(t) ==
  /\ pc[t] = "get"
  /\ \E outcome \in {"done", "failed"} : GoTo(t, outcome)
  /\ UNCHANGED <<hostVars, left, attempt, advice, history>>

\* The local delay is slept whatever the server says.
Backoff_Local(t, a) ==
  IF attempt[t] = 1 + RetryAttempts
    THEN GoTo(t, "failed") /\ UNCHANGED left
    ELSE /\ GoTo(t, "backoff")
         /\ \E d \in LocalDelays(attempt[t]) : left' = [left EXCEPT ![t] = d]

\* The last attempt raises; otherwise the longer of the local delay and the
\* server's is slept.
Backoff(t, a) ==
  IF attempt[t] = 1 + RetryAttempts
    THEN GoTo(t, "failed") /\ UNCHANGED left
    ELSE /\ GoTo(t, "backoff")
         /\ \E d \in LocalDelays(attempt[t]) :
              left' = [left EXCEPT ![t] =
                IF a.after > 0 THEN Min2(Max2(d, a.after), MaxRetryDelay) ELSE d]

\* 429 or a server error.
GetTransient(t) ==
  /\ pc[t] = "get"
  /\ \E a \in Advices :
       /\ advice' = [advice EXCEPT ![t] = a]
       /\ Backoff(t, a)
       /\ owed' = [owed EXCEPT ![t] = Min2(a.after, MaxRetryDelay)]
  /\ UNCHANGED <<hostVars, attempt, read, unread, knew, quiet>>

\* No answer: the advice of an earlier answer is applied again.
GetNoAnswer(t) ==
  /\ pc[t] = "get"
  /\ Backoff(t, advice[t])
  /\ UNCHANGED <<hostVars, attempt, advice, history>>

\* The attempt is not counted.
Retry_Uncounted(t) ==
  /\ pc[t] = "backoff" /\ left[t] = 0
  /\ GoTo(t, "get")
  /\ UNCHANGED <<hostVars, left, attempt, advice, read, unread, knew, quiet, owed>>

\* The next attempt does not pass through wait_for_host.
Retry(t) ==
  /\ pc[t] = "backoff" /\ left[t] = 0
  /\ attempt' = [attempt EXCEPT ![t] = @ + 1]
  /\ GoTo(t, "get")
  /\ UNCHANGED <<hostVars, left, advice, read, unread, knew, quiet, owed>>

-----------------------------------------------------------------------------
(* The environment *)

\* The task is cancelled, in the lock's line or holding it too.
Cancel(t) ==
  /\ pc[t] \notin Ended
  /\ GoTo(t, "cancelled")
  /\ IF pc[t] \in Queued \cup Sleeping
       THEN \E i \in DOMAIN line[HostOf[t]] :
              /\ line[HostOf[t]][i] = t
              /\ line' = [line EXCEPT ![HostOf[t]] = RemoveAt(@, i)]
       ELSE UNCHANGED line
  /\ UNCHANGED <<robots, crawlDelay, age, left, attempt, advice, history>>

Older(ages) == [h \in Hosts |-> Min2(ages[h] + 1, Horizon)]
Less(n) == Max2(n - 1, 0)

Tick ==
  /\ age' = Older(age)
  /\ quiet' = Older(quiet)
  /\ left' = [t \in Tasks |-> Less(left[t])]
  /\ owed' = [t \in Tasks |-> Less(owed[t])]
  /\ advice' = [t \in Tasks |->
       IF advice[t].date THEN [advice[t] EXCEPT !.after = Less(@)] ELSE advice[t]]
  /\ UNCHANGED <<robots, crawlDelay, line, pc, attempt, read, unread, knew>>

Step(t) ==
  \/ Ask(t)
  \/ Acquire(t)
  \/ Awake(t)
  \/ RobotsRead(t)
  \/ RobotsFails(t)
  \/ GetEnds(t)
  \/ GetTransient(t)
  \/ GetNoAnswer(t)
  \/ Retry(t)

Next == Tick \/ \E t \in Tasks : Step(t) \/ Cancel(t)

Spec == Init /\ [][Next]_vars

\* The event loop runs every task that can go on, requests are answered or
\* time out, and time passes.
FairSpec == Spec /\ WF_vars(Tick) /\ \A t \in Tasks : WF_vars(Step(t))

-----------------------------------------------------------------------------
(* Properties *)

\* Types of the state; a host's line holds each task at most once, and a
\* sleeping task never has more than the longest delay before it.
TypeOK ==
  /\ robots \in [Hosts -> {"unknown", "rules", "allowAll"}]
  /\ crawlDelay \in [Hosts -> Nat]
  /\ \A h \in Hosts : crawlDelay[h] \in {0, SiteDelay[h]}
  /\ age \in [Hosts -> 0..Horizon]
  /\ line \in [Hosts -> Seq(Tasks)]
  /\ pc \in [Tasks -> {"idle", "robotsGet", "get", "backoff"} \cup Queued \cup Sleeping \cup Ended]
  /\ left \in [Tasks -> 0..Max2(Horizon, MaxRetryDelay)]
  /\ attempt \in [Tasks -> 1..1 + RetryAttempts]
  /\ \A t \in Tasks : pc[t] = "backoff" => attempt[t] <= RetryAttempts
  /\ advice \in [Tasks -> Advice]
  /\ read \subseteq Hosts /\ unread \subseteq Hosts /\ knew \subseteq Tasks
  /\ quiet \in [Hosts -> 0..Horizon]
  /\ owed \in [Tasks -> 0..MaxRetryDelay]

\* The lock: exactly the queued and the sleeping tasks of a host stand in its
\* line, once each, and only its head sleeps.
OneHolder ==
  \A h \in Hosts :
    /\ IsInjective(line[h])
    /\ ToSet(line[h]) = {t \in Tasks : HostOf[t] = h /\ pc[t] \in Queued \cup Sleeping}
    /\ \A i \in DOMAIN line[h] : pc[line[h][i]] \in Sleeping => i = 1

Sent == {"robotsGet", "get"}

\* A step sends the first request of t.
Admitted(t) == pc[t] \in Queued \cup Sleeping /\ pc'[t] \in Sent

\* Requests that pass wait_for_host leave a host alone for the configured
\* interval, whoever is cancelled in between.
AdmissionsSpaced == [][\A t \in Tasks : Admitted(t) => quiet[HostOf[t]] >= MinInterval]_vars

\* A task that was checked after the host's rules were read keeps the host's
\* Crawl-delay, although the delay is computed before a sleep.
CrawlDelayKept ==
  [][\A t \in Tasks : Admitted(t) /\ t \in knew => quiet[HostOf[t]] >= SiteDelay[HostOf[t]]]_vars

\* What carries the two: a sleeper's rest and the host's age make up the delay,
\* and whoever knew the rules knew their Crawl-delay.
SpacingInv ==
  /\ TypeOK /\ OneHolder
  /\ \A h \in Hosts : quiet[h] >= age[h]
  /\ \A h \in read : crawlDelay[h] = SiteDelay[h]
  /\ \A t \in knew : HostOf[t] \in read
  /\ \A t \in Tasks : pc[t] \in Sleeping =>
       /\ left[t] + age[HostOf[t]] >= MinInterval
       /\ t \in knew => left[t] + age[HostOf[t]] >= SiteDelay[HostOf[t]]

\* A disallowed URL is asked for only if a fetch of the host's robots.txt failed.
ForbiddenOnlyUnread ==
  RespectRobots => \A t \in Forbidden : pc[t] = "get" => HostOf[t] \in unread

\* What carries it: a forbidden task that is past its check met an "allowAll",
\* which only a failed fetch of robots.txt leaves behind.
RobotsInv ==
  RespectRobots =>
    /\ \A h \in Hosts : robots[h] = "allowAll" => h \in unread
    /\ \A t \in Forbidden :
         pc[t] \in {"urlLine", "urlSleep", "get", "backoff"} => HostOf[t] \in unread

\* No retry before the time the server asked for, up to max_retry_delay.
RetryAfterHonoured == [][\A t \in Tasks : pc[t] = "backoff" /\ pc'[t] = "get" => owed[t] = 0]_vars

\* What carries it: the sleep before a retry covers the wait the server asked
\* for, and whoever waits for no retry owes nothing.
OwedInv ==
  \A t \in Tasks :
    /\ pc[t] = "backoff" => owed[t] <= left[t]
    /\ pc[t] \notin {"backoff"} \cup Ended => owed[t] = 0

\* Every request ends: locks are passed on, sleeps end, retries are finite.
RequestsEnd == \A t \in Tasks : []<>(pc[t] \in Ended)

=============================================================================
