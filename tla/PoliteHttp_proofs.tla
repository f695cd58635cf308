--------------------------- MODULE PoliteHttp_proofs ---------------------------
(***************************************************************************)
(* Proofs about the polite HTTP client, for any number of tasks and hosts, *)
(* any delays and any retry policy: types, the lock's line, and that       *)
(* admitted requests keep the configured distance.                         *)
(*                                                                         *)
(* SpacingInv is inductive.  Its heart is that a sleeper's rest and the    *)
(* age of its host add up to the delay: only the head of a line sleeps, so *)
(* nobody else renews the stamp meanwhile, and a tick moves a unit from    *)
(* one to the other.                                                       *)
(***************************************************************************)
EXTENDS PoliteHttp, Lemmas

-----------------------------------------------------------------------------
(* The lock's line *)

\* OneHolder, host by host.
Line(h) ==
  /\ IsInjective(line[h])
  /\ ToSet(line[h]) = {t \in Tasks : HostOf[t] = h /\ pc[t] \in Queued \cup Sleeping}
  /\ \A i \in DOMAIN line[h] : pc[line[h][i]] \in Sleeping => i = 1

\* OneHolder is a statement about each host's line.
LEMMA OneHolderByHost == OneHolder <=> \A h \in Hosts : Line(h)
BY DEF OneHolder, Line

Lines == line \in [Hosts -> Seq(Tasks)] /\ DOMAIN pc = Tasks /\ OneHolder

\* A task that is in no line joins its host's.
LEMMA Joins ==
  ASSUME PoliteAssumption, Lines, NEW t \in Tasks, pc[t] \notin Queued \cup Sleeping,
         NEW label \in Queued, Queue(t, label), pc' = [pc EXCEPT ![t] = label]
  PROVE  line' \in [Hosts -> Seq(Tasks)] /\ OneHolder'
<1> DEFINE h == HostOf[t]
<1>1. h \in Hosts BY DEF PoliteAssumption
<1>2. line[h] \in Seq(Tasks) /\ Line(h) BY <1>1, OneHolderByHost DEF Lines
<1>3. t \notin ToSet(line[h]) BY <1>2 DEF Line
<1>4. line' = [line EXCEPT ![h] = Append(line[h], t)] BY DEF Queue
<1>5. line'[h] = Append(line[h], t) BY <1>1, <1>4 DEF Lines
<1>6. line' \in [Hosts -> Seq(Tasks)] BY <1>1, <1>2, <1>4 DEF Lines
<1>7. Line(h)'
  <2>1. /\ IsInjective(line'[h]) /\ ToSet(line'[h]) = ToSet(line[h]) \cup {t}
        /\ \A i \in DOMAIN line'[h] : \/ i \in DOMAIN line[h] /\ line'[h][i] = line[h][i]
                                      \/ line'[h][i] = t
    BY <1>2, <1>3, <1>5, AppendElements DEF Line
  <2>2. ToSet(line'[h]) = {u \in Tasks : HostOf[u] = h /\ pc'[u] \in Queued \cup Sleeping}
    BY <2>1, <1>2 DEF Line, Lines
  <2>3. \A i \in DOMAIN line'[h] : pc'[line'[h][i]] \in Sleeping => i = 1
    <3>1. ASSUME NEW i \in DOMAIN line'[h], pc'[line'[h][i]] \in Sleeping PROVE i = 1
      <4>1. pc'[t] = label /\ label \notin Sleeping BY DEF Lines, Queued, Sleeping
      <4>2. i \in DOMAIN line[h] /\ line'[h][i] = line[h][i] /\ line[h][i] # t BY <2>1, <3>1, <4>1
      <4>3. pc[line[h][i]] \in Sleeping BY <3>1, <4>2
      <4> QED BY <4>2, <4>3, <1>2 DEF Line
    <3> QED BY <3>1
  <2> QED BY <2>1, <2>2, <2>3 DEF Line
<1>8. ASSUME NEW g \in Hosts, g # h PROVE Line(g)'
  <2>1. line'[g] = line[g] /\ Line(g) BY <1>4, <1>8, OneHolderByHost DEF Lines
  <2>2. t \notin ToSet(line[g]) BY <2>1, <1>8 DEF Line
  <2> QED BY <2>1, <2>2, <1>8 DEF Line, Lines, ToSet
<1>9. \A g \in Hosts : Line(g)' BY <1>7, <1>8
<1> QED BY <1>6, <1>9 DEF OneHolder, Line

\* A task leaves its host's line, from any place.
LEMMA Leaves ==
  ASSUME PoliteAssumption, Lines, NEW t \in Tasks, NEW label, label \notin Queued \cup Sleeping,
         NEW s \in Seq(Tasks), IsInjective(s), ToSet(s) = ToSet(line[HostOf[t]]) \ {t},
         \A i \in DOMAIN s : \E j \in DOMAIN line[HostOf[t]] :
           s[i] = line[HostOf[t]][j] /\ (j = 1 => i = 1),
         line' = [line EXCEPT ![HostOf[t]] = s], pc' = [pc EXCEPT ![t] = label]
  PROVE  line' \in [Hosts -> Seq(Tasks)] /\ OneHolder'
<1> DEFINE h == HostOf[t]
<1>1. h \in Hosts BY DEF PoliteAssumption
<1>2. Line(h) /\ line'[h] = s BY <1>1, OneHolderByHost DEF Lines
<1>3. line' \in [Hosts -> Seq(Tasks)] BY <1>1 DEF Lines
<1>4. Line(h)'
  <2>1. ToSet(s) = {u \in Tasks : HostOf[u] = h /\ pc'[u] \in Queued \cup Sleeping}
    BY <1>2 DEF Line, Lines
  <2>2. ASSUME NEW i \in DOMAIN s, pc'[s[i]] \in Sleeping PROVE i = 1
    <3>1. s[i] # t /\ s[i] \in Tasks
      <4>1. s[i] \in ToSet(s) BY DEF ToSet
      <4> QED BY <4>1, <2>1
    <3>2. pc[s[i]] \in Sleeping BY <2>2, <3>1 DEF Lines
    <3> QED BY <1>2, <3>2 DEF Line
  <2> QED BY <1>2, <2>1, <2>2 DEF Line
<1>5. ASSUME NEW g \in Hosts, g # h PROVE Line(g)'
  <2>1. line'[g] = line[g] /\ Line(g) BY <1>5, OneHolderByHost DEF Lines
  <2>2. t \notin ToSet(line[g]) BY <2>1, <1>5 DEF Line
  <2> QED BY <2>1, <2>2, <1>5 DEF Line, Lines, ToSet
<1>6. \A g \in Hosts : Line(g)' BY <1>4, <1>5
<1> QED BY <1>3, <1>6 DEF OneHolder, Line

\* A sleeper stands at the head of its host's line.
LEMMA SleeperAtHead ==
  ASSUME PoliteAssumption, Lines, NEW t \in Tasks, pc[t] \in Sleeping
  PROVE  AtHead(t)
<1> DEFINE h == HostOf[t]
<1>1. h \in Hosts BY DEF PoliteAssumption
<1>2. Line(h) /\ line[h] \in Seq(Tasks) BY <1>1, OneHolderByHost DEF Lines
<1>3. PICK i \in DOMAIN line[h] : line[h][i] = t BY <1>2 DEF Line, ToSet
<1>4. i = 1 BY <1>2, <1>3 DEF Line
<1> QED BY <1>2, <1>3, <1>4 DEF AtHead

\* The head leaves the line.
LEMMA HeadLeaves ==
  ASSUME PoliteAssumption, Lines, NEW t \in Tasks, AtHead(t), NEW label,
         label \notin Queued \cup Sleeping,
         line' = [line EXCEPT ![HostOf[t]] = Tail(@)], pc' = [pc EXCEPT ![t] = label]
  PROVE  line' \in [Hosts -> Seq(Tasks)] /\ OneHolder'
<1> DEFINE h == HostOf[t]
           s == Tail(line[h])
<1>1. h \in Hosts BY DEF PoliteAssumption
<1>2. Line(h) /\ line[h] \in Seq(Tasks) /\ line[h] # <<>> /\ Head(line[h]) = t
  BY <1>1, OneHolderByHost DEF Lines, AtHead
<1>3. /\ s \in Seq(Tasks) /\ IsInjective(s) /\ ToSet(s) = ToSet(line[h]) \ {t}
      /\ \A i \in DOMAIN s : s[i] = line[h][i + 1]
  BY <1>2, TailElements DEF Line
<1>4. \A i \in DOMAIN s : i + 1 \in DOMAIN line[h] /\ i + 1 # 1 BY <1>2
<1>5. line' = [line EXCEPT ![h] = s] BY <1>1 DEF Lines
<1> HIDE DEF s
<1>6. \A i \in DOMAIN s : \E j \in DOMAIN line[h] : s[i] = line[h][j] /\ (j = 1 => i = 1)
  BY <1>3, <1>4
<1> QED BY <1>3, <1>5, <1>6, Leaves

\* A task that stays where it is, in no line or at the head of one.
LEMMA Stays ==
  ASSUME PoliteAssumption, Lines, NEW t \in Tasks, NEW label, UNCHANGED line,
         pc' = [pc EXCEPT ![t] = label],
         \/ pc[t] \notin Queued \cup Sleeping /\ label \notin Queued \cup Sleeping
         \/ pc[t] \in Queued /\ AtHead(t) /\ label \in Sleeping
  PROVE  OneHolder'
<1>1. ASSUME NEW h \in Hosts PROVE Line(h)'
  <2>1. Line(h) /\ line'[h] = line[h] /\ line[h] \in Seq(Tasks) BY OneHolderByHost DEF Lines
  <2>2. ToSet(line[h]) = {u \in Tasks : HostOf[u] = h /\ pc'[u] \in Queued \cup Sleeping}
    BY <2>1 DEF Line, Lines
  <2>3. ASSUME NEW i \in DOMAIN line[h], pc'[line[h][i]] \in Sleeping PROVE i = 1
    <3>1. CASE line[h][i] # t
      <4>1. pc[line[h][i]] \in Sleeping
        <5>1. line[h][i] \in Tasks BY <2>1
        <5> QED BY <5>1, <3>1, <2>3 DEF Lines
      <4> QED BY <4>1, <2>1 DEF Line
    <3>2. CASE line[h][i] = t
      <4>1. t \in ToSet(line[h]) BY <3>2 DEF ToSet
      <4>2. HostOf[t] = h /\ pc[t] \in Queued \cup Sleeping BY <4>1, <2>1 DEF Line
      <4>3. AtHead(t) BY <4>2
      <4>4. line[h][1] = t /\ 1 \in DOMAIN line[h] BY <4>2, <4>3, <2>1 DEF AtHead
      <4> QED BY <4>4, <3>2, <2>1 DEF Line, IsInjective
    <3> QED BY <3>1, <3>2
  <2> QED BY <2>1, <2>2, <2>3 DEF Line
<1> QED BY <1>1 DEF OneHolder, Line

-----------------------------------------------------------------------------
(* The invariant *)

\* What the parameters amount to, without the powers of the backoff.
LEMMA Parameters ==
  /\ HostOf \in [Tasks -> Hosts] /\ SiteDelay \in [Hosts -> Nat]
  /\ MinInterval \in Nat /\ Horizon \in Nat /\ MaxRetryDelay \in Nat /\ RetryAttempts \in Nat
  /\ \A h \in Hosts : Horizon >= SiteDelay[h] /\ Horizon >= MinInterval
BY PoliteAssumption DEF PoliteAssumption

\* A sleeper's rest and its host's age make up the delays it knows of.
Rest(t) ==
  /\ left[t] + age[HostOf[t]] >= MinInterval
  /\ t \in knew => left[t] + age[HostOf[t]] >= SiteDelay[HostOf[t]]

\* The groups of labels are disjoint.
LEMMA Sets ==
  /\ Queued \cap Sleeping = {} /\ Queued \cap Ended = {} /\ Sleeping \cap Ended = {}
  /\ {"idle", "robotsGet", "get", "backoff"} \cap (Queued \cup Sleeping \cup Ended) = {}
BY DEF Queued, Sleeping, Ended

\* The invariant in the form the lemmas about lines use.
LEMMA InvLines == ASSUME SpacingInv PROVE Lines
BY DEF SpacingInv, TypeOK, Lines

\* A client that has sent nothing satisfies the invariant.
LEMMA InitInv == ASSUME PoliteAssumption, Init PROVE SpacingInv
<1> USE DEF Init, PoliteAssumption
<1>1. TypeOK
  <2>1. age \in [Hosts -> 0..Horizon] BY DEF Min2
  <2>2. crawlDelay \in [Hosts -> Nat] /\ \A h \in Hosts : crawlDelay[h] \in {0, SiteDelay[h]} OBVIOUS
  <2>3. left \in [Tasks -> 0..Max2(Horizon, MaxRetryDelay)] BY DEF Max2
  <2>4. line \in [Hosts -> Seq(Tasks)] OBVIOUS
  <2> QED BY <2>1, <2>2, <2>3, <2>4 DEF TypeOK, Advice
<1>2. OneHolder BY DEF OneHolder, IsInjective, ToSet, Queued, Sleeping
<1>3. \A h \in Hosts : quiet[h] >= age[h] BY DEF Min2
<1> QED BY <1>1, <1>2, <1>3 DEF SpacingInv, Sleeping

\* A URL is checked: denied, or it joins the line.
LEMMA CheckInv ==
  ASSUME PoliteAssumption, SpacingInv, NEW t \in Tasks, pc[t] \notin Queued \cup Sleeping,
         NEW rules, Check(t, rules, read'), read' \in SUBSET Hosts,
         read \subseteq read', UNCHANGED <<age, left, quiet>>
  PROVE  /\ line' \in [Hosts -> Seq(Tasks)] /\ OneHolder'
         /\ pc' \in [Tasks -> {"idle", "robotsGet", "get", "backoff"} \cup Queued \cup Sleeping \cup Ended]
         /\ \A u \in Tasks : pc'[u] = "backoff" => pc[u] = "backoff"
         /\ knew' \in SUBSET Tasks /\ \A u \in knew' : HostOf[u] \in read'
         /\ \A u \in Tasks : pc'[u] \in Sleeping => Rest(u)'
<1> USE DEF PoliteAssumption
<1>0. Lines /\ TypeOK BY InvLines DEF SpacingInv
<1>1. CASE rules = "rules" /\ t \in Forbidden
  <2>1. UNCHANGED <<line, knew>> /\ pc' = [pc EXCEPT ![t] = "denied"] BY <1>1 DEF Check, GoTo
  <2>2. OneHolder' BY <2>1, <1>0, Stays DEF Queued, Sleeping
  <2>3. \A u \in Tasks : pc'[u] \in Sleeping => Rest(u)'
    BY <2>1, <1>0 DEF Rest, SpacingInv, TypeOK, Sleeping
  <2> QED BY <2>1, <2>2, <2>3, <1>0 DEF SpacingInv, TypeOK, Ended
<1>2. CASE ~(rules = "rules" /\ t \in Forbidden)
  <2>1. Queue(t, "urlLine") /\ pc' = [pc EXCEPT ![t] = "urlLine"] BY <1>2 DEF Check, Queue, GoTo
  <2>2. line' \in [Hosts -> Seq(Tasks)] /\ OneHolder' BY <2>1, <1>0, Joins DEF Queued
  <2>3. knew' = IF HostOf[t] \in read' THEN knew \cup {t} ELSE knew BY <1>2 DEF Check
  <2>4. \A u \in Tasks : pc'[u] \in Sleeping => Rest(u)'
    <3>1. ASSUME NEW u \in Tasks, pc'[u] \in Sleeping PROVE Rest(u)'
      <4>1. u # t BY <3>1, <2>1, <1>0 DEF TypeOK, Sleeping
      <4>2. pc[u] \in Sleeping /\ (u \in knew' => u \in knew) BY <3>1, <4>1, <2>1, <2>3, <1>0 DEF TypeOK
      <4> QED BY <4>2 DEF Rest, SpacingInv
    <3> QED BY <3>1
  <2>5. knew' \in SUBSET Tasks /\ \A u \in knew' : HostOf[u] \in read'
    BY <2>3, <1>0 DEF SpacingInv, TypeOK
  <2> QED BY <2>1, <2>2, <2>4, <2>5, <1>0 DEF TypeOK, Queued
<1> QED BY <1>1, <1>2

\* It is preserved when a task checks robots.txt from the cache,
LEMMA AskInv ==
  ASSUME PoliteAssumption, SpacingInv, NEW t \in Tasks, Ask(t)
  PROVE  SpacingInv'
<1>0. Lines /\ TypeOK BY InvLines DEF SpacingInv
<1>1. pc[t] = "idle" /\ pc[t] \notin Queued \cup Sleeping BY DEF Ask, Queued, Sleeping
<1>2. UNCHANGED <<robots, crawlDelay, age, left, attempt, advice, read, unread, quiet, owed>>
  BY DEF Ask
<1>3. CASE RespectRobots /\ robots[HostOf[t]] = "unknown"
  <2>1. Queue(t, "robotsLine") /\ pc' = [pc EXCEPT ![t] = "robotsLine"] /\ UNCHANGED knew
    BY <1>3 DEF Ask, Queue, GoTo
  <2>2. line' \in [Hosts -> Seq(Tasks)] /\ OneHolder' BY <2>1, <1>0, <1>1, Joins DEF Queued
  <2>3. TypeOK' BY <2>1, <2>2, <1>0, <1>2 DEF TypeOK, Queued
  <2>4. \A u \in Tasks : pc'[u] \in Sleeping => Rest(u)'
    BY <2>1, <1>0, <1>2 DEF TypeOK, SpacingInv, Rest, Sleeping
  <2> QED BY <2>1, <2>2, <2>3, <2>4, <1>2 DEF SpacingInv, Rest
<1>4. CASE ~(RespectRobots /\ robots[HostOf[t]] = "unknown")
  <2>1. Check(t, robots[HostOf[t]], read') BY <1>4, <1>2 DEF Ask
  <2>2. /\ line' \in [Hosts -> Seq(Tasks)] /\ OneHolder'
        /\ pc' \in [Tasks -> {"idle", "robotsGet", "get", "backoff"} \cup Queued \cup Sleeping \cup Ended]
        /\ \A u \in Tasks : pc'[u] = "backoff" => pc[u] = "backoff"
        /\ knew' \in SUBSET Tasks /\ \A u \in knew' : HostOf[u] \in read'
        /\ \A u \in Tasks : pc'[u] \in Sleeping => Rest(u)'
    BY <2>1, <1>0, <1>1, <1>2, CheckInv DEF TypeOK
  <2>3. TypeOK' BY <2>2, <1>0, <1>2 DEF TypeOK
  <2> QED BY <2>2, <2>3, <1>2 DEF SpacingInv, Rest
<1> QED BY <1>3, <1>4

\* when robots.txt arrives,
LEMMA RobotsReadInv ==
  ASSUME PoliteAssumption, SpacingInv, NEW t \in Tasks, RobotsRead(t)
  PROVE  SpacingInv'
<1> DEFINE h == HostOf[t]
<1>0. Lines /\ TypeOK /\ h \in Hosts BY InvLines DEF SpacingInv, PoliteAssumption
<1>1. pc[t] \notin Queued \cup Sleeping BY DEF RobotsRead, Queued, Sleeping
<1>2. /\ robots' = [robots EXCEPT ![h] = "rules"] /\ read' = read \cup {h}
      /\ crawlDelay' = [crawlDelay EXCEPT ![h] = IF SiteDelay[h] > 0 THEN SiteDelay[h] ELSE @]
      /\ UNCHANGED <<age, left, attempt, advice, unread, quiet, owed>>
  BY DEF RobotsRead
<1>3. /\ line' \in [Hosts -> Seq(Tasks)] /\ OneHolder'
      /\ pc' \in [Tasks -> {"idle", "robotsGet", "get", "backoff"} \cup Queued \cup Sleeping \cup Ended]
      /\ \A u \in Tasks : pc'[u] = "backoff" => pc[u] = "backoff"
      /\ knew' \in SUBSET Tasks /\ \A u \in knew' : HostOf[u] \in read'
      /\ \A u \in Tasks : pc'[u] \in Sleeping => Rest(u)'
  <2>1. Check(t, "rules", read') BY DEF RobotsRead
  <2>2. read' \in SUBSET Hosts /\ read \subseteq read' BY <1>0, <1>2 DEF TypeOK
  <2> QED BY <2>1, <2>2, <1>1, <1>2, CheckInv
<1>4. \A g \in read' : crawlDelay'[g] = SiteDelay[g]
  <2>1. crawlDelay[h] \in {0, SiteDelay[h]} /\ SiteDelay[h] \in Nat /\ read \subseteq Hosts
    BY <1>0 DEF TypeOK, PoliteAssumption
  <2>2. crawlDelay'[h] = SiteDelay[h] BY <2>1, <1>0, <1>2 DEF TypeOK
  <2>3. ASSUME NEW g \in read, g # h PROVE crawlDelay'[g] = SiteDelay[g]
    BY <2>1, <2>3, <1>0, <1>2 DEF TypeOK, SpacingInv
  <2> QED BY <2>2, <2>3, <1>2
<1>5. TypeOK'
  <2>1. crawlDelay' \in [Hosts -> Nat] /\ \A g \in Hosts : crawlDelay'[g] \in {0, SiteDelay[g]}
    BY <1>0, <1>2 DEF TypeOK, PoliteAssumption
  <2> QED BY <2>1, <1>0, <1>2, <1>3 DEF TypeOK
<1> QED BY <1>2, <1>3, <1>4, <1>5 DEF SpacingInv, Rest

\* when it does not,
LEMMA RobotsFailsInv ==
  ASSUME PoliteAssumption, SpacingInv, NEW t \in Tasks, RobotsFails(t)
  PROVE  SpacingInv'
<1>0. Lines /\ TypeOK /\ HostOf[t] \in Hosts BY InvLines DEF SpacingInv, PoliteAssumption
<1>1. pc[t] \notin Queued \cup Sleeping BY DEF RobotsFails, Queued, Sleeping
<1>2. /\ robots' = [robots EXCEPT ![HostOf[t]] = "allowAll"] /\ unread' = unread \cup {HostOf[t]}
      /\ UNCHANGED <<crawlDelay, age, left, attempt, advice, read, quiet, owed>>
  BY DEF RobotsFails
<1>3. /\ line' \in [Hosts -> Seq(Tasks)] /\ OneHolder'
      /\ pc' \in [Tasks -> {"idle", "robotsGet", "get", "backoff"} \cup Queued \cup Sleeping \cup Ended]
      /\ \A u \in Tasks : pc'[u] = "backoff" => pc[u] = "backoff"
      /\ knew' \in SUBSET Tasks /\ \A u \in knew' : HostOf[u] \in read'
      /\ \A u \in Tasks : pc'[u] \in Sleeping => Rest(u)'
  <2>1. Check(t, "allowAll", read') BY <1>2 DEF RobotsFails
  <2> QED BY <2>1, <1>0, <1>1, <1>2, CheckInv DEF TypeOK
<1>4. TypeOK' BY <1>0, <1>2, <1>3 DEF TypeOK
<1> QED BY <1>2, <1>3, <1>4 DEF SpacingInv, Rest

\* The head of a line is admitted: the stamp is new, but nobody else sleeps on it.
LEMMA AdmitInv ==
  ASSUME PoliteAssumption, SpacingInv, NEW t \in Tasks, pc[t] \in Queued \cup Sleeping, AtHead(t),
         Admit(t), UNCHANGED <<robots, crawlDelay, left, attempt, advice, read, unread, knew, owed>>
  PROVE  SpacingInv'
<1> DEFINE h == HostOf[t]
<1>0. Lines /\ TypeOK /\ h \in Hosts BY InvLines DEF SpacingInv, PoliteAssumption
<1>1. PICK label \in {"robotsGet", "get"} : pc' = [pc EXCEPT ![t] = label]
  BY DEF Admit, GoTo
<1>2. /\ quiet' = [quiet EXCEPT ![h] = 0]
      /\ age' = [age EXCEPT ![h] = 0] /\ line' = [line EXCEPT ![h] = Tail(@)]
  BY DEF Admit
<1>3. line' \in [Hosts -> Seq(Tasks)] /\ OneHolder'
  <2>1. label \notin Queued \cup Sleeping BY DEF Queued, Sleeping
  <2> QED BY <1>0, <1>1, <1>2, <2>1, HeadLeaves
<1>4. TypeOK'
  <2>1. /\ quiet' \in [Hosts -> 0..Horizon]
        /\ age' \in [Hosts -> 0..Horizon]
    BY <1>0, <1>2, Parameters DEF TypeOK
  <2>2. \A u \in Tasks : pc'[u] = "backoff" => pc[u] = "backoff" BY <1>0, <1>1 DEF TypeOK
  <2> QED BY <2>1, <2>2, <1>0, <1>1, <1>3 DEF TypeOK
<1>5. \A g \in Hosts : quiet'[g] >= age'[g] BY <1>0, <1>2 DEF TypeOK, SpacingInv
<1>6. ASSUME NEW u \in Tasks, pc'[u] \in Sleeping PROVE Rest(u)'
  <2>1. u # t /\ pc[u] \in Sleeping BY <1>0, <1>1, <1>6 DEF TypeOK, Sleeping
  <2>2. AtHead(u) BY <2>1, <1>0, SleeperAtHead
  <2>3. HostOf[u] # h BY <2>1, <2>2 DEF AtHead
  <2>4. age'[HostOf[u]] = age[HostOf[u]] BY <2>3, <1>0, <1>2 DEF TypeOK, PoliteAssumption
  <2> QED BY <2>1, <2>4 DEF Rest, SpacingInv
<1> QED BY <1>3, <1>4, <1>5, <1>6 DEF SpacingInv, Rest

\* when the head of a line takes the lock and works out its delay,
LEMMA AcquireInv ==
  ASSUME PoliteAssumption, SpacingInv, NEW t \in Tasks, Acquire(t)
  PROVE  SpacingInv'
<1> DEFINE h == HostOf[t]
<1>0. Lines /\ TypeOK /\ h \in Hosts BY InvLines DEF SpacingInv, PoliteAssumption
<1>1. /\ pc[t] \in Queued /\ AtHead(t)
      /\ UNCHANGED <<robots, crawlDelay, attempt, advice, read, unread, knew, owed>>
  BY DEF Acquire
<1>2. CASE age[h] >= Delay(h)
  <2>1. Admit(t) /\ UNCHANGED left BY <1>2 DEF Acquire
  <2> QED BY <2>1, <1>1, AdmitInv
<1>3. CASE ~(age[h] >= Delay(h))
  <2>1. PICK label \in Sleeping : pc' = [pc EXCEPT ![t] = label]
    BY <1>3 DEF Acquire, GoTo, Sleeping
  <2>2. left' = [left EXCEPT ![t] = Delay(h) - age[h]] /\ UNCHANGED <<line, age, quiet>>
    BY <1>3 DEF Acquire
  <2>3. /\ Delay(h) \in Nat /\ age[h] \in 0..Horizon /\ Delay(h) - age[h] \in 0..Horizon
        /\ Delay(h) >= MinInterval /\ Delay(h) >= crawlDelay[h]
    <3>1. /\ age[h] \in 0..Horizon /\ crawlDelay[h] \in Nat /\ crawlDelay[h] <= Horizon
          /\ MinInterval \in Nat /\ MinInterval <= Horizon /\ Horizon \in Nat
      <4>1. crawlDelay[h] \in {0, SiteDelay[h]} /\ crawlDelay[h] \in Nat /\ age[h] \in 0..Horizon
        BY <1>0 DEF TypeOK
      <4>2. Horizon >= SiteDelay[h] /\ Horizon >= MinInterval /\ SiteDelay[h] \in Nat
        BY <1>0, Parameters
      <4> QED BY <4>1, <4>2, Parameters
    <3> QED BY <3>1, <1>3 DEF Delay, Max2
  <2>4. left' \in [Tasks -> 0..Max2(Horizon, MaxRetryDelay)]
    <3>1. Delay(h) - age[h] \in 0..Max2(Horizon, MaxRetryDelay) BY <2>3 DEF Max2, PoliteAssumption
    <3> QED BY <3>1, <2>2, <1>0 DEF TypeOK
  <2>5. TypeOK' BY <2>1, <2>2, <2>4, <1>0, <1>1 DEF TypeOK, Sleeping
  <2>6. OneHolder' BY <2>1, <2>2, <1>0, <1>1, Stays
  <2>7. ASSUME NEW u \in Tasks, pc'[u] \in Sleeping PROVE Rest(u)'
    <3>1. CASE u # t
      <4>1. pc[u] \in Sleeping /\ left'[u] = left[u] BY <3>1, <2>1, <2>2, <2>7, <1>0 DEF TypeOK
      <4> QED BY <4>1, <2>2, <1>1 DEF Rest, SpacingInv
    <3>2. CASE u = t
      <4>1. left'[u] + age'[h] = Delay(h) BY <3>2, <2>2, <2>3, <1>0 DEF TypeOK
      <4>2. t \in knew => crawlDelay[h] = SiteDelay[h] BY DEF SpacingInv
      <4> QED BY <3>2, <4>1, <4>2, <2>3, <1>1 DEF Rest
    <3> QED BY <3>1, <3>2
  <2> QED BY <2>2, <2>5, <2>6, <2>7, <1>1 DEF SpacingInv, Rest
<1> QED BY <1>2, <1>3

\* when its sleep ends and the request is sent,
LEMMA AwakeInv ==
  ASSUME PoliteAssumption, SpacingInv, NEW t \in Tasks, Awake(t)
  PROVE  SpacingInv'
<1>1. Lines /\ pc[t] \in Sleeping BY InvLines DEF Awake
<1>2. AtHead(t) BY <1>1, SleeperAtHead
<1> QED BY <1>1, <1>2, AdmitInv DEF Awake

\* Steps of a task on the wire or in a backoff, which touch no line.
LEMMA WireInv ==
  ASSUME PoliteAssumption, SpacingInv, NEW t \in Tasks, pc[t] \in {"get", "backoff"},
         NEW label \in {"get", "backoff"} \cup Ended, pc' = [pc EXCEPT ![t] = label],
         UNCHANGED <<hostVars, read, unread, knew, quiet>>, TypeOK',
         \A u \in Tasks \ {t} : left'[u] = left[u]
  PROVE  SpacingInv'
<1>0. Lines /\ TypeOK BY InvLines DEF SpacingInv
<1>1. OneHolder'
  <2>1. pc[t] \notin Queued \cup Sleeping /\ label \notin Queued \cup Sleeping
    BY DEF Queued, Sleeping, Ended
  <2> QED BY <2>1, <1>0, Stays DEF hostVars
<1>2. ASSUME NEW u \in Tasks, pc'[u] \in Sleeping PROVE Rest(u)'
  <2>1. u # t /\ pc[u] \in Sleeping BY <1>0, <1>2, Sets DEF TypeOK, Ended, Sleeping
  <2> QED BY <2>1 DEF Rest, SpacingInv, hostVars
<1> QED BY <1>1, <1>2 DEF SpacingInv, Rest, hostVars

\* What a backoff leaves to sleep is never more than max_retry_delay.
LEMMA BackoffType ==
  ASSUME PoliteAssumption, TypeOK, NEW t \in Tasks, NEW a \in Advice, Backoff(t, a)
  PROVE  /\ \E label \in {"failed", "backoff"} : pc' = [pc EXCEPT ![t] = label]
         /\ left' \in [Tasks -> 0..Max2(Horizon, MaxRetryDelay)]
         /\ \A u \in Tasks \ {t} : left'[u] = left[u]
         /\ pc'[t] = "backoff" => attempt[t] # 1 + RetryAttempts
<1>1. CASE attempt[t] = 1 + RetryAttempts
  BY <1>1 DEF Backoff, GoTo, TypeOK
<1>2. CASE attempt[t] # 1 + RetryAttempts
  <2>1. pc' = [pc EXCEPT ![t] = "backoff"] BY <1>2 DEF Backoff, GoTo
  <2>2. PICK d \in LocalDelays(attempt[t]) :
          left' = [left EXCEPT ![t] = IF a.after > 0 THEN Min2(Max2(d, a.after), MaxRetryDelay) ELSE d]
    BY <1>2 DEF Backoff
  <2>3. d \in 0..MaxRetryDelay
    <3> DEFINE base == BackoffBase * BackoffFactor ^ (attempt[t] - 1)
    <3>1. attempt[t] - 1 \in 0..RetryAttempts /\ MaxRetryDelay \in Nat
      BY SMTT(40) DEF TypeOK, PoliteAssumption
    <3>2. base \in Nat BY <3>1 DEF PoliteAssumption
    <3> HIDE DEF base
    <3>3. base - base \div 10 \in Nat /\ base + base \div 10 \in Nat BY <3>2
    <3>4. \A e \in (base - base \div 10) .. (base + base \div 10) : Min2(e, MaxRetryDelay) \in 0..MaxRetryDelay
      BY <3>1, <3>3 DEF Min2
    <3> QED BY <3>4 DEF LocalDelays, base
  <2>4. a.after \in Nat /\ MaxRetryDelay \in Nat /\ Horizon \in Nat BY DEF Advice, PoliteAssumption
  <2>5. (IF a.after > 0 THEN Min2(Max2(d, a.after), MaxRetryDelay) ELSE d) \in 0..Max2(Horizon, MaxRetryDelay)
    BY <2>3, <2>4 DEF Min2, Max2
  <2> QED BY <1>2, <2>1, <2>2, <2>5 DEF TypeOK
<1> QED BY <1>1, <1>2

\* when an attempt is answered or fails,
LEMMA GetInv ==
  ASSUME PoliteAssumption, SpacingInv, NEW t \in Tasks,
         GetEnds(t) \/ GetTransient(t) \/ GetNoAnswer(t)
  PROVE  SpacingInv'
<1>0. TypeOK BY DEF SpacingInv
<1>1. pc[t] = "get" BY DEF GetEnds, GetTransient, GetNoAnswer
<1>2. CASE GetEnds(t)
  <2>1. PICK label \in {"done", "failed"} : pc' = [pc EXCEPT ![t] = label] BY <1>2 DEF GetEnds, GoTo
  <2>2. UNCHANGED <<hostVars, left, attempt, advice, history>> BY <1>2 DEF GetEnds
  <2>3. label \in Ended BY DEF Ended
  <2>4. TypeOK' BY <2>1, <2>2, <2>3, <1>0 DEF TypeOK, hostVars, history
  <2> QED BY <1>1, <2>1, <2>2, <2>3, <2>4, WireInv DEF history
<1>3. CASE GetTransient(t)
  <2>1. PICK a \in Advices :
          /\ advice' = [advice EXCEPT ![t] = a]
          /\ Backoff(t, a)
          /\ owed' = [owed EXCEPT ![t] = Min2(a.after, MaxRetryDelay)]
    BY <1>3 DEF GetTransient
  <2>2. UNCHANGED <<hostVars, attempt, read, unread, knew, quiet>> BY <1>3 DEF GetTransient
  <2>3. a \in Advice BY DEF PoliteAssumption
  <2>4. /\ \E label \in {"failed", "backoff"} : pc' = [pc EXCEPT ![t] = label]
        /\ left' \in [Tasks -> 0..Max2(Horizon, MaxRetryDelay)]
        /\ \A u \in Tasks \ {t} : left'[u] = left[u]
        /\ pc'[t] = "backoff" => attempt[t] # 1 + RetryAttempts
    BY <2>1, <2>3, <1>0, BackoffType
  <2>5. Min2(a.after, MaxRetryDelay) \in 0..MaxRetryDelay BY <2>3 DEF Advice, Min2, PoliteAssumption
  <2>6. owed' \in [Tasks -> 0..MaxRetryDelay] /\ advice' \in [Tasks -> Advice]
    BY <2>1, <2>3, <2>5, <1>0 DEF TypeOK
  <2>7. PICK label \in {"backoff"} \cup Ended : pc' = [pc EXCEPT ![t] = label] BY <2>4 DEF Ended
  <2>8. TypeOK'
    <3>1. \A u \in Tasks : pc'[u] = "backoff" => attempt'[u] <= RetryAttempts
      <4>1. attempt' = attempt BY <2>2
      <4>2. \A u \in Tasks \ {t} : pc'[u] = pc[u] BY <2>7, <1>0 DEF TypeOK
      <4>3. pc'[t] = "backoff" => attempt[t] <= RetryAttempts
        <5>1. attempt[t] \in 1..1 + RetryAttempts /\ RetryAttempts \in Nat BY <1>0, Parameters DEF TypeOK
        <5>2. pc'[t] = "backoff" => attempt[t] # 1 + RetryAttempts BY <2>4
        <5> QED BY <5>1, <5>2
      <4>4. \A u \in Tasks : pc[u] = "backoff" => attempt[u] <= RetryAttempts BY <1>0 DEF TypeOK
      <4> QED BY <4>1, <4>2, <4>3, <4>4
    <3> QED BY <2>2, <2>4, <2>6, <2>7, <3>1, <1>0 DEF TypeOK, hostVars
  <2> QED BY <1>1, <2>2, <2>4, <2>7, <2>8, WireInv
<1>4. CASE GetNoAnswer(t)
  <2>1. Backoff(t, advice[t]) /\ UNCHANGED <<hostVars, attempt, advice, history>> BY <1>4 DEF GetNoAnswer
  <2>2. advice[t] \in Advice BY <1>0 DEF TypeOK
  <2>3. /\ \E label \in {"failed", "backoff"} : pc' = [pc EXCEPT ![t] = label]
        /\ left' \in [Tasks -> 0..Max2(Horizon, MaxRetryDelay)]
        /\ \A u \in Tasks \ {t} : left'[u] = left[u]
        /\ pc'[t] = "backoff" => attempt[t] # 1 + RetryAttempts
    BY <2>1, <2>2, <1>0, BackoffType
  <2>4. PICK label \in {"backoff"} \cup Ended : pc' = [pc EXCEPT ![t] = label] BY <2>3 DEF Ended
  <2>5. TypeOK'
    <3>1. \A u \in Tasks : pc'[u] = "backoff" => attempt'[u] <= RetryAttempts
      <4>1. attempt' = attempt BY <2>1
      <4>2. \A u \in Tasks \ {t} : pc'[u] = pc[u] BY <2>4, <1>0 DEF TypeOK
      <4>3. pc'[t] = "backoff" => attempt[t] <= RetryAttempts
        <5>1. attempt[t] \in 1..1 + RetryAttempts /\ RetryAttempts \in Nat BY <1>0, Parameters DEF TypeOK
        <5> QED BY <5>1, <2>3
      <4>4. \A u \in Tasks : pc[u] = "backoff" => attempt[u] <= RetryAttempts BY <1>0 DEF TypeOK
      <4> QED BY <4>1, <4>2, <4>3, <4>4
    <3>2. pc' \in [Tasks -> {"idle", "robotsGet", "get", "backoff"} \cup Queued \cup Sleeping \cup Ended]
      BY <2>4, <1>0 DEF TypeOK
    <3>3. UNCHANGED <<robots, crawlDelay, age, line, attempt, advice, read, unread, knew, quiet, owed>>
      BY <2>1 DEF hostVars, history
    <3> QED BY <2>3, <3>1, <3>2, <3>3, <1>0 DEF TypeOK
  <2> QED BY <1>1, <2>1, <2>3, <2>4, <2>5, WireInv DEF history
<1> QED BY <1>2, <1>3, <1>4

\* when a retry is sent,
LEMMA RetryInv ==
  ASSUME PoliteAssumption, SpacingInv, NEW t \in Tasks, Retry(t)
  PROVE  SpacingInv'
<1>0. TypeOK BY DEF SpacingInv
<1>1. /\ pc[t] = "backoff" /\ pc' = [pc EXCEPT ![t] = "get"]
      /\ attempt' = [attempt EXCEPT ![t] = @ + 1]
      /\ UNCHANGED <<hostVars, left, advice, read, unread, knew, quiet, owed>>
  BY DEF Retry, GoTo
<1>2. TypeOK'
  <2>1. attempt[t] + 1 \in 1..1 + RetryAttempts BY <1>0, <1>1, Parameters, SMTT(40) DEF TypeOK
  <2>2. attempt' \in [Tasks -> 1..1 + RetryAttempts] BY <2>1, <1>0, <1>1 DEF TypeOK
  <2>3. \A u \in Tasks : pc'[u] = "backoff" => attempt'[u] <= RetryAttempts BY <1>0, <1>1 DEF TypeOK
  <2> QED BY <2>2, <2>3, <1>0, <1>1 DEF TypeOK, hostVars
<1> QED BY <1>0, <1>1, <1>2, WireInv

\* when a task is cancelled,
LEMMA CancelInv ==
  ASSUME PoliteAssumption, SpacingInv, NEW t \in Tasks, Cancel(t)
  PROVE  SpacingInv'
<1> DEFINE h == HostOf[t]
<1>0. Lines /\ TypeOK /\ h \in Hosts BY InvLines DEF SpacingInv, PoliteAssumption
<1>1. /\ pc' = [pc EXCEPT ![t] = "cancelled"]
      /\ UNCHANGED <<robots, crawlDelay, age, left, attempt, advice, history>>
  BY DEF Cancel, GoTo
<1>2. "cancelled" \notin Queued \cup Sleeping BY DEF Queued, Sleeping
<1>3. line' \in [Hosts -> Seq(Tasks)] /\ OneHolder'
  <2>1. CASE pc[t] \in Queued \cup Sleeping
    <3>1. PICK k \in DOMAIN line[h] : line[h][k] = t /\ line' = [line EXCEPT ![h] = RemoveAt(@, k)]
      BY <2>1 DEF Cancel
    <3>2. Line(h) /\ line[h] \in Seq(Tasks) BY <1>0, OneHolderByHost DEF Lines
    <3>a. IsInjective(line[h]) BY <3>2 DEF Line
    <3>b. PICK s : s = RemoveAt(line[h], k) OBVIOUS
    <3>3. /\ s \in Seq(Tasks) /\ IsInjective(s) /\ ToSet(s) = ToSet(line[h]) \ {t}
          /\ \A i \in DOMAIN s : \/ i \in DOMAIN line[h] /\ s[i] = line[h][i]
                                 \/ i + 1 \in DOMAIN line[h] /\ s[i] = line[h][i + 1]
      <4>1. /\ RemoveAt(line[h], k) \in Seq(Tasks) /\ IsInjective(RemoveAt(line[h], k))
            /\ ToSet(RemoveAt(line[h], k)) = ToSet(line[h]) \ {line[h][k]}
        BY <3>a, <3>2, RemoveAtElements
      <4>2. \A i \in DOMAIN RemoveAt(line[h], k) :
              \/ i \in DOMAIN line[h] /\ RemoveAt(line[h], k)[i] = line[h][i]
              \/ i + 1 \in DOMAIN line[h] /\ RemoveAt(line[h], k)[i] = line[h][i + 1]
        BY <3>a, <3>2, RemoveAtElements, ZenonT(40)
      <4> QED BY <4>1, <4>2, <3>b, <3>1
    <3>4. line' = [line EXCEPT ![h] = s] BY <3>b, <3>1, <1>0 DEF Lines
    <3>5. DOMAIN s \subseteq Nat \ {0} BY <3>3
    <3>6. \A i \in DOMAIN s : \E j \in DOMAIN line[h] : s[i] = line[h][j] /\ (j = 1 => i = 1)
      <4>1. ASSUME NEW i \in DOMAIN s
            PROVE  \E j \in DOMAIN line[h] : s[i] = line[h][j] /\ (j = 1 => i = 1)
        <5>1. i \in Nat \ {0} BY <3>5
        <5>2. CASE i \in DOMAIN line[h] /\ s[i] = line[h][i] BY <5>2
        <5>3. CASE i + 1 \in DOMAIN line[h] /\ s[i] = line[h][i + 1] BY <5>1, <5>3
        <5> QED BY <5>2, <5>3, <3>3
      <4> QED BY <4>1
    <3> QED BY <1>0, <1>1, <1>2, <3>3, <3>4, <3>6, Leaves
  <2>2. CASE pc[t] \notin Queued \cup Sleeping
    <3>1. UNCHANGED line BY <2>2 DEF Cancel
    <3> QED BY <2>2, <3>1, <1>0, <1>1, <1>2, Stays DEF Lines
  <2> QED BY <2>1, <2>2
<1>4. TypeOK' BY <1>0, <1>1, <1>3 DEF TypeOK, Ended, history
<1>5. ASSUME NEW u \in Tasks, pc'[u] \in Sleeping PROVE Rest(u)'
  <2>1. u # t /\ pc[u] \in Sleeping BY <1>0, <1>1, <1>2, <1>5 DEF TypeOK
  <2> QED BY <2>1, <1>1 DEF Rest, SpacingInv, history
<1> QED BY <1>1, <1>3, <1>4, <1>5 DEF SpacingInv, Rest, history

\* when time passes,
LEMMA TickInv == ASSUME PoliteAssumption, SpacingInv, Tick PROVE SpacingInv'
<1>0. TypeOK BY DEF SpacingInv
<1>1. /\ age' = Older(age) /\ quiet' = Older(quiet)
      /\ left' = [t \in Tasks |-> Less(left[t])]
      /\ UNCHANGED <<robots, crawlDelay, line, pc, attempt, read, unread, knew>>
  BY DEF Tick
<1>2. TypeOK'
  <2>1. \A ages \in [Hosts -> 0..Horizon] : Older(ages) \in [Hosts -> 0..Horizon]
    BY Parameters DEF Older, Min2
  <2>2. left' \in [Tasks -> 0..Max2(Horizon, MaxRetryDelay)]
    <3>1. \A n \in 0..Max2(Horizon, MaxRetryDelay) : Less(n) \in 0..Max2(Horizon, MaxRetryDelay)
      BY Parameters DEF Less, Max2
    <3> QED BY <3>1, <1>0, <1>1 DEF TypeOK
  <2>3. owed' \in [Tasks -> 0..MaxRetryDelay]
    <3>1. \A n \in 0..MaxRetryDelay : Less(n) \in 0..MaxRetryDelay BY Parameters DEF Less, Max2
    <3> QED BY <3>1, <1>0 DEF TypeOK, Tick
  <2>4. advice' \in [Tasks -> Advice]
    <3>1. \A a \in Advice : [a EXCEPT !.after = Less(@)] \in Advice BY DEF Advice, Less, Max2
    <3> QED BY <3>1, <1>0 DEF TypeOK, Tick
  <2> QED BY <2>1, <2>2, <2>3, <2>4, <1>0, <1>1 DEF TypeOK
<1>3. OneHolder' BY <1>1 DEF SpacingInv, OneHolder
<1>4. \A h \in Hosts : quiet'[h] >= age'[h]
  BY <1>0, <1>1, Parameters DEF TypeOK, SpacingInv, Older, Min2
<1>5. ASSUME NEW t \in Tasks, pc'[t] \in Sleeping PROVE Rest(t)'
  <2> DEFINE h == HostOf[t]
  <2>1. Rest(t) /\ h \in Hosts BY <1>1, <1>5, Parameters DEF SpacingInv, Rest
  <2>2. left[t] \in Nat /\ age[h] \in 0..Horizon /\ Horizon \in Nat
    BY <2>1, <1>0, Parameters DEF TypeOK, Max2
  <2>3. left'[t] = Less(left[t]) /\ age'[h] = Min2(age[h] + 1, Horizon) /\ knew' = knew
    BY <2>1, <1>1 DEF Older
  <2>4. \A d \in Nat : d <= Horizon /\ left[t] + age[h] >= d => left'[t] + age'[h] >= d
    BY <2>2, <2>3 DEF Less, Max2, Min2
  <2>5. MinInterval \in Nat /\ MinInterval <= Horizon /\ SiteDelay[h] \in Nat /\ SiteDelay[h] <= Horizon
    BY <2>1, Parameters
  <2> QED BY <2>1, <2>3, <2>4, <2>5 DEF Rest
<1> QED BY <1>1, <1>2, <1>3, <1>4, <1>5 DEF SpacingInv, Rest

\* and so by every step.
LEMMA NextInv == ASSUME PoliteAssumption, SpacingInv, [Next]_vars PROVE SpacingInv'
<1>1. CASE Tick BY <1>1, TickInv
<1>2. ASSUME NEW t \in Tasks, Step(t) PROVE SpacingInv'
  BY <1>2, AskInv, AcquireInv, AwakeInv, RobotsReadInv, RobotsFailsInv, GetInv, RetryInv DEF Step
<1>3. ASSUME NEW t \in Tasks, Cancel(t) PROVE SpacingInv' BY <1>3, CancelInv
<1>4. CASE UNCHANGED vars
  BY <1>4 DEF vars, hostVars, taskVars, history, SpacingInv, TypeOK, OneHolder
<1> QED BY <1>1, <1>2, <1>3, <1>4 DEF Next

\* For all tasks, hosts and delays: the invariant of the polite client.
THEOREM SpacingCorrect == Spec => []SpacingInv
<1>1. Init => SpacingInv BY PoliteAssumption, InitInv
<1>2. SpacingInv /\ [Next]_vars => SpacingInv' BY PoliteAssumption, NextInv
<1> QED BY <1>1, <1>2, PTL DEF Spec

\* Types; sleeps never exceed the longest delay configured.
THEOREM TypeCorrect == Spec => []TypeOK
<1>1. SpacingInv => TypeOK BY DEF SpacingInv
<1> QED BY <1>1, SpacingCorrect, PTL

\* The lock of a host is handed from head to head of its line.
THEOREM OneHolderCorrect == Spec => []OneHolder
<1>1. SpacingInv => OneHolder BY DEF SpacingInv
<1> QED BY <1>1, SpacingCorrect, PTL

\* Whoever is admitted finds the host left alone for its delay.
LEMMA AdmissionStep ==
  ASSUME PoliteAssumption, SpacingInv, [Next]_vars, NEW t \in Tasks, Admitted(t)
  PROVE  /\ quiet[HostOf[t]] >= MinInterval
         /\ t \in knew => quiet[HostOf[t]] >= SiteDelay[HostOf[t]]
<1> DEFINE h == HostOf[t]
<1>0. TypeOK /\ h \in Hosts BY Parameters DEF SpacingInv
<1>1. pc[t] \in Queued \cup Sleeping /\ pc'[t] \in Sent /\ pc'[t] # pc[t]
  BY DEF Admitted, Sent, Queued, Sleeping
<1>2. quiet[h] >= age[h] /\ quiet[h] \in Nat /\ age[h] \in Nat
  BY <1>0 DEF SpacingInv, TypeOK
<1>3. CASE Acquire(t)
  <2>1. pc[t] \in Queued /\ age[h] >= Delay(h)
    <3>1. CASE ~(age[h] >= Delay(h))
      <4>1. pc'[t] \in Sleeping BY <3>1, <1>0, <1>3 DEF Acquire, GoTo, TypeOK, Sleeping
      <4> QED BY <4>1, <1>1 DEF Sent, Sleeping
    <3> QED BY <3>1, <1>3 DEF Acquire
  <2>2. Delay(h) \in Nat /\ Delay(h) >= MinInterval /\ Delay(h) >= crawlDelay[h] /\ crawlDelay[h] \in Nat
    BY <1>0, Parameters DEF Delay, Max2, TypeOK
  <2>3. t \in knew => crawlDelay[h] = SiteDelay[h] BY DEF SpacingInv
  <2> QED BY <1>2, <2>1, <2>2, <2>3, Parameters
<1>4. CASE Awake(t)
  <2>1. pc[t] \in Sleeping /\ left[t] = 0 BY <1>4 DEF Awake
  <2>2. Rest(t) BY <2>1 DEF SpacingInv, Rest
  <2>3. SiteDelay[h] \in Nat /\ MinInterval \in Nat BY <1>0, Parameters
  <2> QED BY <1>2, <2>1, <2>2, <2>3 DEF Rest
<1>5. ASSUME ~Acquire(t), ~Awake(t) PROVE FALSE
  <2>1. pc[t] \notin {"idle", "robotsGet", "get", "backoff"} BY <1>1, Sets
  <2>2. ~Step(t)
    BY <2>1, <1>5 DEF Step, Ask, RobotsRead, RobotsFails, GetEnds, GetTransient, GetNoAnswer, Retry
  <2>3. ~Tick /\ ~UNCHANGED vars BY <1>1 DEF Tick, vars, taskVars
  <2>4. PICK u \in Tasks : Step(u) \/ Cancel(u) BY <2>3 DEF Next
  <2>5. ASSUME NEW label, pc' = [pc EXCEPT ![u] = label] PROVE u = t
    BY <2>5, <1>0, <1>1 DEF TypeOK
  <2>6. \E label : pc' = [pc EXCEPT ![u] = label]
    BY <2>4 DEF Step, Cancel, Ask, Acquire, Awake, Admit, RobotsRead, RobotsFails, Check, Queue,
         GetEnds, GetTransient, GetNoAnswer, Backoff, Retry, GoTo
  <2>7. u = t BY <2>5, <2>6
  <2>8. Cancel(t) BY <2>2, <2>4, <2>7
  <2>9. pc'[t] = "cancelled" BY <2>8, <1>0 DEF Cancel, GoTo, TypeOK
  <2> QED BY <2>9, <1>1 DEF Sent
<1> QED BY <1>3, <1>4, <1>5

\* Requests that pass wait_for_host keep the configured interval.
THEOREM AdmissionsSpacedCorrect == Spec => AdmissionsSpaced
<1>1. SpacingInv /\ [Next]_vars => [\A t \in Tasks : Admitted(t) => quiet[HostOf[t]] >= MinInterval]_vars
  BY PoliteAssumption, AdmissionStep
<1> QED BY <1>1, SpacingCorrect, PTL DEF Spec, AdmissionsSpaced

\* And, once the rules were read, the host's Crawl-delay.
THEOREM CrawlDelayKeptCorrect == Spec => CrawlDelayKept
<1>1. SpacingInv /\ [Next]_vars =>
        [\A t \in Tasks : Admitted(t) /\ t \in knew => quiet[HostOf[t]] >= SiteDelay[HostOf[t]]]_vars
  BY PoliteAssumption, AdmissionStep
<1> QED BY <1>1, SpacingCorrect, PTL DEF Spec, CrawlDelayKept

-----------------------------------------------------------------------------
(* What robots.txt forbids, and what Retry-After asks for *)

\* The labels of a task past its check.
Past == {"urlLine", "urlSleep", "get", "backoff"}

\* A forbidden task gets past its check only on an "allowAll" or if robots.txt
\* is not respected.
LEMMA CheckDenies ==
  ASSUME TypeOK, NEW t \in Forbidden, t \in Tasks, NEW rules, NEW rulesRead,
         Check(t, rules, rulesRead), rules = "rules"
  PROVE  pc' = [pc EXCEPT ![t] = "denied"]
BY DEF Check, GoTo

\* A check moves one task.
LEMMA CheckMoves ==
  ASSUME NEW t \in Tasks, NEW rules, NEW rulesRead, Check(t, rules, rulesRead)
  PROVE  pc' = [pc EXCEPT ![t] = "denied"] \/ pc' = [pc EXCEPT ![t] = "urlLine"]
BY DEF Check, Queue, GoTo

\* Where an acquisition or an admission takes a task.
LEMMA AdmissionMoves ==
  ASSUME TypeOK, NEW t \in Tasks, Acquire(t) \/ Awake(t)
  PROVE  \E label \in Sleeping \cup Sent :
           /\ pc' = [pc EXCEPT ![t] = label]
           /\ label \in Past => pc[t] \in Past
           /\ pc[t] \in Queued \cup Sleeping
<1> USE DEF Queued, Sleeping, Sent, Past
<1>1. CASE Acquire(t)
  <2>1. pc[t] \in Queued BY <1>1 DEF Acquire
  <2>2. CASE age[HostOf[t]] >= Delay(HostOf[t])
    <3>1. pc' = [pc EXCEPT ![t] = IF pc[t] \in {"robotsLine", "robotsSleep"} THEN "robotsGet" ELSE "get"]
      BY <1>1, <2>2 DEF Acquire, Admit, GoTo
    <3> QED BY <2>1, <3>1
  <2>3. CASE ~(age[HostOf[t]] >= Delay(HostOf[t]))
    <3>1. pc' = [pc EXCEPT ![t] = IF pc[t] = "robotsLine" THEN "robotsSleep" ELSE "urlSleep"]
      BY <1>1, <2>3 DEF Acquire, GoTo
    <3> QED BY <2>1, <3>1
  <2> QED BY <2>2, <2>3
<1>2. CASE Awake(t)
  <2>1. /\ pc[t] \in Sleeping
        /\ pc' = [pc EXCEPT ![t] = IF pc[t] \in {"robotsLine", "robotsSleep"} THEN "robotsGet" ELSE "get"]
    BY <1>2 DEF Awake, Admit, GoTo
  <2> QED BY <2>1
<1> QED BY <1>1, <1>2

\* RobotsInv is preserved when a task that was not past its check gets past it
\* for a good reason, or when none does.
LEMMA RobotsKept ==
  ASSUME PoliteAssumption, TypeOK, RobotsInv, NEW t \in Tasks, NEW label,
         pc' = [pc EXCEPT ![t] = label], UNCHANGED robots, UNCHANGED unread,
         label \in Past => pc[t] \in Past \/ t \notin Forbidden \/ HostOf[t] \in unread
  PROVE  RobotsInv'
<1>1. ASSUME RespectRobots, NEW u \in Forbidden, pc'[u] \in Past PROVE HostOf[u] \in unread
  <2>1. u \in Tasks BY PoliteAssumption DEF PoliteAssumption
  <2>2. u # t => pc[u] \in Past BY <1>1, <2>1 DEF TypeOK
  <2>3. u = t => label \in Past BY <1>1, <2>1 DEF TypeOK
  <2> QED BY <1>1, <2>2, <2>3 DEF RobotsInv, Past
<1> QED BY <1>1 DEF RobotsInv, Past

\* No step lets a forbidden task past its check but after a failed fetch.
LEMMA RobotsStep ==
  ASSUME PoliteAssumption, SpacingInv, RobotsInv, [Next]_vars
  PROVE  RobotsInv'
<1>0. TypeOK /\ Forbidden \subseteq Tasks BY PoliteAssumption DEF SpacingInv, PoliteAssumption
<1>1. CASE UNCHANGED <<pc, robots, unread>> BY <1>1 DEF RobotsInv
<1>2. ASSUME NEW t \in Tasks, Ask(t) PROVE RobotsInv'
  <2>1. UNCHANGED <<robots, unread>> BY <1>2 DEF Ask
  <2>2. CASE RespectRobots /\ robots[HostOf[t]] = "unknown"
    <3>1. pc' = [pc EXCEPT ![t] = "robotsLine"] /\ "robotsLine" \notin Past
      BY <1>2, <2>2 DEF Ask, Queue, GoTo, Past
    <3> QED BY <1>0, <2>1, <3>1, RobotsKept
  <2>3. CASE ~(RespectRobots /\ robots[HostOf[t]] = "unknown")
    <3>1. Check(t, robots[HostOf[t]], read) BY <1>2, <2>3 DEF Ask
    <3>2. PICK label \in {"denied", "urlLine"} : pc' = [pc EXCEPT ![t] = label] BY <3>1, CheckMoves
    <3>3. CASE ~RespectRobots BY <3>3, <2>1, <1>0 DEF RobotsInv
    <3>4. CASE RespectRobots /\ robots[HostOf[t]] = "rules" /\ t \in Forbidden
      <4>1. pc' = [pc EXCEPT ![t] = "denied"] /\ "denied" \notin Past
        BY <3>1, <3>4, <1>0, CheckDenies DEF Past
      <4> QED BY <4>1, <1>0, <2>1, RobotsKept
    <3>5. CASE RespectRobots /\ t \in Forbidden /\ robots[HostOf[t]] # "rules"
      <4>1. HostOf[t] \in Hosts BY PoliteAssumption DEF PoliteAssumption
      <4>2. robots[HostOf[t]] = "allowAll" BY <4>1, <3>5, <2>3, <1>0 DEF TypeOK
      <4>3. HostOf[t] \in unread BY <4>1, <4>2, <3>5 DEF RobotsInv
      <4> QED BY <4>3, <3>2, <1>0, <2>1, RobotsKept
    <3>6. CASE t \notin Forbidden BY <3>2, <3>6, <1>0, <2>1, RobotsKept
    <3> QED BY <3>3, <3>4, <3>5, <3>6
  <2> QED BY <2>2, <2>3
<1>3. ASSUME NEW t \in Tasks, Acquire(t) \/ Awake(t) PROVE RobotsInv'
  <2>1. UNCHANGED <<robots, unread>> BY <1>3 DEF Acquire, Awake
  <2>2. PICK label \in Sleeping \cup Sent :
          pc' = [pc EXCEPT ![t] = label] /\ (label \in Past => pc[t] \in Past)
    BY <1>0, <1>3, AdmissionMoves
  <2> QED BY <1>0, <2>1, <2>2, RobotsKept
<1>4. ASSUME NEW t \in Tasks, RobotsRead(t) PROVE RobotsInv'
  <2> DEFINE h == HostOf[t]
  <2>1. robots' = [robots EXCEPT ![h] = "rules"] /\ UNCHANGED unread /\ Check(t, "rules", read')
    BY <1>4 DEF RobotsRead
  <2>2. PICK label \in {"denied", "urlLine"} : pc' = [pc EXCEPT ![t] = label] BY <2>1, CheckMoves
  <2>3. ASSUME NEW g \in Hosts, robots'[g] = "allowAll" PROVE robots[g] = "allowAll"
    BY <2>1, <2>3, <1>0 DEF TypeOK
  <2>4. ASSUME RespectRobots, NEW u \in Forbidden, pc'[u] \in Past PROVE HostOf[u] \in unread
    <3>1. CASE u = t
      <4>1. pc' = [pc EXCEPT ![t] = "denied"] BY <3>1, <2>1, <1>0, CheckDenies
      <4> QED BY <4>1, <3>1, <2>4, <1>0 DEF TypeOK, Past
    <3>2. CASE u # t
      <4>1. pc[u] \in Past BY <3>2, <2>2, <2>4, <1>0 DEF TypeOK
      <4> QED BY <4>1, <2>4 DEF RobotsInv, Past
    <3> QED BY <3>1, <3>2
  <2> QED BY <2>1, <2>3, <2>4 DEF RobotsInv, Past
<1>5. ASSUME NEW t \in Tasks, RobotsFails(t) PROVE RobotsInv'
  <2> DEFINE h == HostOf[t]
  <2>1. /\ robots' = [robots EXCEPT ![h] = "allowAll"] /\ unread' = unread \cup {h}
        /\ Check(t, "allowAll", read)
    BY <1>5 DEF RobotsFails
  <2>2. PICK label \in {"denied", "urlLine"} : pc' = [pc EXCEPT ![t] = label] BY <2>1, CheckMoves
  <2>3. ASSUME RespectRobots, NEW g \in Hosts, robots'[g] = "allowAll" PROVE g \in unread'
    <3>1. CASE g = h BY <3>1, <2>1
    <3>2. CASE g # h BY <3>2, <2>1, <2>3, <1>0 DEF TypeOK, RobotsInv
    <3> QED BY <3>1, <3>2
  <2>4. ASSUME RespectRobots, NEW u \in Forbidden, pc'[u] \in Past PROVE HostOf[u] \in unread'
    <3>1. CASE u = t BY <3>1, <2>1
    <3>2. CASE u # t
      <4>1. pc[u] \in Past BY <3>2, <2>2, <2>4, <1>0 DEF TypeOK
      <4> QED BY <4>1, <2>1, <2>4 DEF RobotsInv, Past
    <3> QED BY <3>1, <3>2
  <2> QED BY <2>3, <2>4 DEF RobotsInv, Past
<1>6. ASSUME NEW t \in Tasks, GetEnds(t) \/ GetTransient(t) \/ GetNoAnswer(t) \/ Retry(t)
      PROVE  RobotsInv'
  <2>1. pc[t] \in {"get", "backoff"} /\ UNCHANGED <<robots, unread>>
    BY <1>6 DEF GetEnds, GetTransient, GetNoAnswer, Retry, hostVars, history
  <2>2. PICK label : pc' = [pc EXCEPT ![t] = label]
    BY <1>6 DEF GetEnds, GetTransient, GetNoAnswer, Retry, Backoff, GoTo
  <2> QED BY <1>0, <2>1, <2>2, RobotsKept DEF Past
<1>7. ASSUME NEW t \in Tasks, Cancel(t) PROVE RobotsInv'
  <2>1. UNCHANGED <<robots, unread>> /\ pc' = [pc EXCEPT ![t] = "cancelled"] /\ "cancelled" \notin Past
    BY <1>7 DEF Cancel, GoTo, history, Past
  <2> QED BY <1>0, <2>1, RobotsKept
<1>8. CASE Tick \/ UNCHANGED vars BY <1>1, <1>8 DEF Tick, vars, hostVars, taskVars, history
<1> QED BY <1>2, <1>3, <1>4, <1>5, <1>6, <1>7, <1>8 DEF Next, Step

\* For all tasks, hosts and robots.txt files: a disallowed URL is asked for only
\* where a fetch of robots.txt has failed.
THEOREM ForbiddenCorrect == Spec => []ForbiddenOnlyUnread
<1>1. Init => RobotsInv
  <2> SUFFICES ASSUME Init PROVE RobotsInv OBVIOUS
  <2>1. \A t \in Forbidden : t \in Tasks BY PoliteAssumption DEF PoliteAssumption
  <2> QED BY <2>1 DEF Init, RobotsInv
<1>2. SpacingInv /\ RobotsInv /\ [Next]_vars => RobotsInv' BY PoliteAssumption, RobotsStep
<1>3. RobotsInv => ForbiddenOnlyUnread BY DEF RobotsInv, ForbiddenOnlyUnread
<1> QED BY <1>1, <1>2, <1>3, SpacingCorrect, PTL DEF Spec

\* OwedInv for one task.
Owes(t) ==
  /\ pc[t] = "backoff" => owed[t] <= left[t]
  /\ pc[t] \notin {"backoff"} \cup Ended => owed[t] = 0

\* The sleep chosen after an answer covers the server's wait.
LEMMA BackoffCovers ==
  ASSUME PoliteAssumption, TypeOK, NEW t \in Tasks, NEW a \in Advice, Backoff(t, a), pc'[t] = "backoff"
  PROVE  Min2(a.after, MaxRetryDelay) <= left'[t] /\ left'[t] \in Nat
<1>0. left' \in [Tasks -> 0..Max2(Horizon, MaxRetryDelay)] BY BackoffType
<1>1. attempt[t] # 1 + RetryAttempts
  <2>1. pc'[t] = "backoff" => attempt[t] # 1 + RetryAttempts BY BackoffType
  <2> QED BY <2>1
<1>2. PICK d \in LocalDelays(attempt[t]) :
        left' = [left EXCEPT ![t] = IF a.after > 0 THEN Min2(Max2(d, a.after), MaxRetryDelay) ELSE d]
  BY <1>1 DEF Backoff
<1>3. left'[t] = IF a.after > 0 THEN Min2(Max2(d, a.after), MaxRetryDelay) ELSE d
  BY <1>2 DEF TypeOK
<1>4. left'[t] \in Nat BY <1>0, Parameters DEF Max2
<1>5. a.after \in Nat /\ MaxRetryDelay \in Nat BY Parameters DEF Advice
<1>6. d \in Int
  <2> DEFINE base == BackoffBase * BackoffFactor ^ (attempt[t] - 1)
  <2>1. attempt[t] - 1 \in 0..RetryAttempts /\ MaxRetryDelay \in Nat BY Parameters, SMTT(40) DEF TypeOK
  <2>2. base \in Nat BY <2>1, PoliteAssumption DEF PoliteAssumption
  <2> HIDE DEF base
  <2>3. base - base \div 10 \in Nat /\ base + base \div 10 \in Nat BY <2>2
  <2>4. \A e \in (base - base \div 10) .. (base + base \div 10) : Min2(e, MaxRetryDelay) \in Int
    BY <2>1, <2>3 DEF Min2
  <2> QED BY <2>4 DEF LocalDelays, base
<1> QED BY <1>3, <1>4, <1>5, <1>6 DEF Min2, Max2

\* A step that moves one task and leaves everyone's debt and the others' sleep.
LEMMA OwedKept ==
  ASSUME TypeOK, OwedInv, NEW t \in Tasks, NEW label, pc' = [pc EXCEPT ![t] = label],
         UNCHANGED owed, \A u \in Tasks \ {t} : left'[u] = left[u],
         label \in Ended \/ owed[t] = 0, label = "backoff" => left'[t] \in Nat
  PROVE  OwedInv'
<1>1. ASSUME NEW u \in Tasks PROVE Owes(u)'
  <2>1. CASE u = t
    <3>1. pc'[t] = label BY DEF TypeOK
    <3>2. label \in Ended => label # "backoff" BY DEF Ended
    <3> QED BY <2>1, <3>1, <3>2 DEF Owes
  <2>2. CASE u # t BY <2>2 DEF OwedInv, Owes, TypeOK
  <2> QED BY <2>1, <2>2
<1> QED BY <1>1 DEF OwedInv, Owes

\* Debts are covered by sleeps in every step.
LEMMA OwedStep ==
  ASSUME PoliteAssumption, SpacingInv, OwedInv, [Next]_vars
  PROVE  OwedInv'
<1>0. TypeOK BY DEF SpacingInv
<1>1. ASSUME NEW t \in Tasks, Ask(t) \/ RobotsRead(t) \/ RobotsFails(t) PROVE OwedInv'
  <2>1. pc[t] \in {"idle", "robotsGet"} /\ UNCHANGED <<left, owed>>
    BY <1>1 DEF Ask, RobotsRead, RobotsFails
  <2>2. PICK label \in {"denied", "urlLine", "robotsLine"} : pc' = [pc EXCEPT ![t] = label]
    BY <1>1 DEF Ask, RobotsRead, RobotsFails, Check, Queue, GoTo
  <2>3. owed[t] = 0 BY <2>1, Sets DEF OwedInv, Ended
  <2> QED BY <1>0, <2>1, <2>2, <2>3, OwedKept
<1>2. ASSUME NEW t \in Tasks, Acquire(t) \/ Awake(t) PROVE OwedInv'
  <2>1. PICK label \in Sleeping \cup Sent : pc' = [pc EXCEPT ![t] = label] /\ pc[t] \in Queued \cup Sleeping
    BY <1>0, <1>2, AdmissionMoves
  <2>2. owed[t] = 0 BY <2>1 DEF OwedInv, Ended, Queued, Sleeping
  <2>3. \A u \in Tasks \ {t} : left'[u] = left[u]
    BY <1>0, <1>2 DEF Acquire, Awake, TypeOK
  <2>4. UNCHANGED owed BY <1>2 DEF Acquire, Awake
  <2>5. label # "backoff" BY DEF Sleeping, Sent
  <2> QED BY <1>0, <2>1, <2>2, <2>3, <2>4, <2>5, OwedKept
<1>3. ASSUME NEW t \in Tasks, GetEnds(t) PROVE OwedInv'
  <2>1. PICK label \in Ended : pc' = [pc EXCEPT ![t] = label] BY <1>3 DEF GetEnds, GoTo, Ended
  <2>2. UNCHANGED <<left, owed>> BY <1>3 DEF GetEnds, history
  <2>3. label # "backoff" BY DEF Ended
  <2> QED BY <1>0, <2>1, <2>2, <2>3, OwedKept
<1>4. ASSUME NEW t \in Tasks, GetTransient(t) PROVE OwedInv'
  <2>1. PICK a \in Advices : Backoff(t, a) /\ owed' = [owed EXCEPT ![t] = Min2(a.after, MaxRetryDelay)]
    BY <1>4 DEF GetTransient
  <2>2. a \in Advice BY PoliteAssumption DEF PoliteAssumption
  <2>3. /\ \E label \in {"failed", "backoff"} : pc' = [pc EXCEPT ![t] = label]
        /\ \A u \in Tasks \ {t} : left'[u] = left[u]
    BY <1>0, <2>1, <2>2, BackoffType
  <2>4. ASSUME NEW u \in Tasks PROVE Owes(u)'
    <3>1. CASE u # t BY <3>1, <2>1, <2>3, <1>0 DEF OwedInv, Owes, TypeOK
    <3>2. CASE u = t
      <4>1. pc'[t] \in {"failed", "backoff"} BY <2>3, <1>0 DEF TypeOK
      <4>2. owed'[t] = Min2(a.after, MaxRetryDelay) BY <2>1, <1>0 DEF TypeOK
      <4>3. pc'[t] = "backoff" => owed'[t] <= left'[t] BY <4>2, <1>0, <2>1, <2>2, BackoffCovers
      <4> QED BY <3>2, <4>1, <4>3 DEF Owes, Ended
    <3> QED BY <3>1, <3>2
  <2> QED BY <2>4 DEF OwedInv, Owes
<1>5. ASSUME NEW t \in Tasks, GetNoAnswer(t) PROVE OwedInv'
  <2>1. pc[t] = "get" /\ Backoff(t, advice[t]) /\ UNCHANGED owed BY <1>5 DEF GetNoAnswer, history
  <2>2. advice[t] \in Advice BY <1>0 DEF TypeOK
  <2>3. /\ \E label \in {"failed", "backoff"} : pc' = [pc EXCEPT ![t] = label]
        /\ \A u \in Tasks \ {t} : left'[u] = left[u]
    BY <1>0, <2>1, <2>2, BackoffType
  <2>4. owed[t] = 0 BY <2>1 DEF OwedInv, Ended
  <2>5. PICK label \in {"failed", "backoff"} : pc' = [pc EXCEPT ![t] = label] BY <2>3
  <2>6. label = "backoff" => left'[t] \in Nat
    <3>1. pc'[t] = label BY <2>5, <1>0 DEF TypeOK
    <3> QED BY <3>1, <1>0, <2>1, <2>2, BackoffCovers
  <2> QED BY <1>0, <2>1, <2>3, <2>4, <2>5, <2>6, OwedKept
<1>6. ASSUME NEW t \in Tasks, Retry(t) PROVE OwedInv'
  <2>1. pc[t] = "backoff" /\ left[t] = 0 /\ pc' = [pc EXCEPT ![t] = "get"] /\ UNCHANGED <<left, owed>>
    BY <1>6 DEF Retry, GoTo
  <2>2. owed[t] \in Nat /\ owed[t] <= 0 BY <2>1, <1>0, Parameters DEF OwedInv, TypeOK
  <2>3. owed[t] = 0 BY <2>2
  <2> QED BY <1>0, <2>1, <2>3, OwedKept
<1>7. ASSUME NEW t \in Tasks, Cancel(t) PROVE OwedInv'
  <2>1. UNCHANGED <<left, owed>> /\ pc' = [pc EXCEPT ![t] = "cancelled"] BY <1>7 DEF Cancel, GoTo, history
  <2> QED BY <1>0, <2>1, OwedKept DEF Ended
<1>8. CASE Tick
  <2>1. /\ pc' = pc /\ left' = [t \in Tasks |-> Less(left[t])] /\ owed' = [t \in Tasks |-> Less(owed[t])]
    BY <1>8 DEF Tick
  <2>2. ASSUME NEW t \in Tasks PROVE Owes(t)'
    <3>1. left[t] \in Nat /\ owed[t] \in Nat BY <1>0, Parameters DEF TypeOK, Max2
    <3>2. Owes(t) BY DEF OwedInv, Owes
    <3>3. left'[t] = Less(left[t]) /\ owed'[t] = Less(owed[t]) BY <2>1
    <3> QED BY <2>1, <3>1, <3>2, <3>3 DEF Owes, Less, Max2
  <2> QED BY <2>2 DEF OwedInv, Owes
<1>9. CASE UNCHANGED vars BY <1>9 DEF vars, taskVars, history, OwedInv
<1> QED BY <1>1, <1>2, <1>3, <1>4, <1>5, <1>6, <1>7, <1>8, <1>9 DEF Next, Step

\* For all retry policies and advices: no retry is sent before the time the
\* server asked for, up to max_retry_delay.
THEOREM RetryAfterCorrect == Spec => RetryAfterHonoured
<1>1. Init => OwedInv BY DEF Init, OwedInv
<1>2. SpacingInv /\ OwedInv /\ [Next]_vars => OwedInv' BY PoliteAssumption, OwedStep
<1>3. SpacingInv /\ OwedInv' /\ [Next]_vars =>
        [\A t \in Tasks : pc[t] = "backoff" /\ pc'[t] = "get" => owed[t] = 0]_vars
  <2> SUFFICES ASSUME SpacingInv, OwedInv', [Next]_vars, NEW t \in Tasks, pc[t] = "backoff", pc'[t] = "get"
               PROVE  owed[t] = 0
    OBVIOUS
  <2>0. TypeOK BY DEF SpacingInv
  <2>1. ASSUME NEW u \in Tasks, NEW label, pc' = [pc EXCEPT ![u] = label] PROVE u = t /\ label = "get"
    BY <2>0, <2>1 DEF TypeOK
  <2>2. ~Tick /\ ~UNCHANGED vars BY DEF Tick, vars, taskVars
  <2>3. PICK u \in Tasks : Step(u) \/ Cancel(u) BY <2>2 DEF Next
  <2>4. \E label : pc' = [pc EXCEPT ![u] = label]
    BY <2>3 DEF Step, Cancel, Ask, Acquire, Awake, Admit, RobotsRead, RobotsFails, Check, Queue,
         GetEnds, GetTransient, GetNoAnswer, Backoff, Retry, GoTo
  <2>5. u = t BY <2>1, <2>4
  <2>6. ~Cancel(t) BY <2>1 DEF Cancel, GoTo
  <2>7. Retry(t)
    BY <2>3, <2>5, <2>6 DEF Step, Ask, Acquire, Awake, RobotsRead, RobotsFails, GetEnds, GetTransient,
         GetNoAnswer, Queued, Sleeping
  <2>8. owed'[t] = 0 BY DEF OwedInv, Ended
  <2> QED BY <2>7, <2>8 DEF Retry
<1> QED BY <1>1, <1>2, <1>3, SpacingCorrect, PTL DEF Spec, RetryAfterHonoured

=============================================================================
