------------------------------- MODULE ReadProofs ------------------------------
(***************************************************************************)
(* Theorems about what the endpoints that only read answer.  What the      *)
(* program works out from updatedAt, launchedAt and the status alone is    *)
(* true to the observers of MonitoringHistory and SlaHistory: the 48-hour  *)
(* rule, and the uptime a client is judged by.  The lists of Reports can   *)
(* be walked page by page, whether or not they change under way, and the   *)
(* figures agree.  For every number of instances, page size, period,       *)
(* calendar and price list.                                                *)
(***************************************************************************)
EXTENDS Reports, SlaHistory, MonitoringProofs, FiniteSetTheorems, WellFoundedInduction

hvars == <<vars, stoppedSince>>

\* What the observer has noted: an instant for each instance, and none ahead of updatedAt
\* by more than a request's latency.
Noted == /\ DOMAIN stoppedSince = DOMAIN inst
         /\ \A i \in DOMAIN inst : stoppedSince[i] \in Int

HInv == IInv /\ Noted /\ ClockNeverAhead

LEMMA HistoryStep == [HNext]_hvars => [Next]_vars
BY DEF HNext, hvars, vars

LEMMA InitHInv == HInit => HInv
BY InitIInv DEF HInit, Init, HInv, Noted, ClockNeverAhead

\* A row that is STOPPED and was not, or is new, was stamped by the request that made it so;
\* one that stays STOPPED is never stamped with an earlier instant.
StampedLate(i) ==
    IF i \in DOMAIN inst /\ inst[i].status = "STOPPED"
    THEN inst'[i].updatedAt >= inst[i].updatedAt
    ELSE inst'[i].updatedAt >= now' - MaxLatency

LEMMA StoppedRowsAreStamped ==
    ASSUME IInv, Next
    PROVE  \A i \in DOMAIN inst' : inst'[i].status = "STOPPED" => StampedLate(i)
<1> SUFFICES ASSUME NEW i \in DOMAIN inst', inst'[i].status = "STOPPED" PROVE StampedLate(i)
  OBVIOUS
<1> USE DEF StampedLate
<1>1. ASSUME i \in DOMAIN inst, inst'[i] = inst[i] PROVE StampedLate(i)
  <2>1. inst[i].updatedAt \in Int
    BY <1>1 DEF IInv, TypeOK, Instance
  <2> QED BY <1>1, <2>1
<1>2. CASE Tick
  BY <1>1, <1>2 DEF Tick
<1>3. ASSUME NEW m \in Members, RequestBy(m) PROVE StampedLate(i)
  <2>1. ASSUME NEW manager \in Managers, CreateClient(m, manager) PROVE StampedLate(i)
    BY <1>1, <2>1 DEF CreateClient
  <2>2. ASSUME NEW c \in 1..MaxClients, NEW status \in Statuses, NEW cpu \in CpuLevels,
               CreateInstance(m, c, status, cpu)
        PROVE  StampedLate(i)
    <3>1. PICK n \in 1..MaxInstances, t \in Instants :
              /\ IsNextId(n, DOMAIN inst)
              /\ inst' = [j \in DOMAIN inst \cup {n} |->
                             IF j = n THEN [clientId |-> c, status |-> status,
                                            cpuUsage |-> cpu, updatedAt |-> t]
                                      ELSE inst[j]]
      BY <2>2 DEF CreateInstance
    <3>2. CASE i = n
      <4>1. n \notin DOMAIN inst
        BY <3>1, NextIdIsFresh, NumbersAssumption DEF IInv, TypeOK
      <4>2. inst'[i].updatedAt = t
        BY <3>1, <3>2
      <4>3. now' = now /\ now \in Nat /\ t \in Nat /\ now - t <= MaxLatency
        BY <2>2 DEF CreateInstance, Instants, IInv, TypeOK
      <4> QED BY <3>2, <4>1, <4>2, <4>3, NumbersAssumption
    <3> QED BY <1>1, <3>1, <3>2
  <2>3. ASSUME NEW j \in DOMAIN inst, NEW status \in Statuses, NEW cpu \in CpuLevels \cup {NULL},
               UpdateStatus(m, j, status, cpu)
        PROVE  StampedLate(i)
    <3>1. PICK t \in Instants : /\ t >= inst[j].updatedAt
                                /\ inst' = [inst EXCEPT ![j] = Applied(@, status, cpu, t)]
      BY <2>3 DEF UpdateStatus
    <3>2. CASE i = j
      <4>1. inst[j] \in Instance
        BY DEF IInv, TypeOK
      <4>2. inst'[i].updatedAt = t
        BY <3>1, <3>2, <4>1 DEF Applied, Instance
      <4>3. now' = now /\ now \in Nat /\ t \in Nat /\ now - t <= MaxLatency
        BY <2>3 DEF UpdateStatus, Instants, IInv, TypeOK
      <4> QED BY <3>1, <3>2, <4>2, <4>3, NumbersAssumption
    <3> QED BY <1>1, <3>1, <3>2
  <2>4. ASSUME NEW j \in DOMAIN inst, DeleteInstance(m, j) PROVE StampedLate(i)
    BY <1>1, <2>4 DEF DeleteInstance
  <2>5. ASSUME NEW type \in AlertTypes, Scan(m, type) PROVE StampedLate(i)
    BY <1>1, <2>5 DEF Scan
  <2>6. ASSUME NEW a \in alerts, ResolveAlert(m, a) PROVE StampedLate(i)
    BY <1>1, <2>6 DEF ResolveAlert
  <2> QED BY <1>3, <2>1, <2>2, <2>3, <2>4, <2>5, <2>6 DEF RequestBy
<1> QED BY <1>2, <1>3 DEF Next

LEMMA NextHInv == HInv /\ [HNext]_hvars => HInv'
<1> SUFFICES ASSUME HInv, [HNext]_hvars PROVE HInv'
  OBVIOUS
<1>1. IInv'
  BY HistoryStep, NextIInv DEF HInv
<1>2. CASE UNCHANGED hvars
  BY <1>1, <1>2 DEF HInv, Noted, ClockNeverAhead, hvars, vars
<1>3. CASE HNext
  <2>1. now' \in Int
    BY <1>1 DEF IInv, TypeOK
  <2>2. Noted'
    BY <1>3, <2>1 DEF HNext, Observe, HInv, Noted
  <2>3. ClockNeverAhead'
    <3> SUFFICES ASSUME NEW i \in DOMAIN inst', inst'[i].status = "STOPPED"
                 PROVE  inst'[i].updatedAt >= stoppedSince'[i] - MaxLatency
      BY DEF ClockNeverAhead
    <3>1. StampedLate(i)
      BY <1>3, StoppedRowsAreStamped DEF HNext, HInv
    <3>2. inst'[i].updatedAt \in Int
      BY <1>1 DEF IInv, TypeOK, Instance
    <3>3. CASE i \in DOMAIN inst /\ inst[i].status = "STOPPED"
      <4>1. stoppedSince'[i] = stoppedSince[i]
        BY <1>3, <3>3 DEF HNext, Observe
      <4>2. inst[i].updatedAt \in Int /\ stoppedSince[i] \in Int
        BY <3>3 DEF HInv, Noted, IInv, TypeOK, Instance
      <4>3. inst[i].updatedAt >= stoppedSince[i] - MaxLatency
        BY <3>3 DEF HInv, ClockNeverAhead
      <4> QED BY <3>1, <3>2, <3>3, <4>1, <4>2, <4>3, NumbersAssumption DEF StampedLate
    <3>4. CASE ~(i \in DOMAIN inst /\ inst[i].status = "STOPPED")
      <4>1. stoppedSince'[i] = now'
        BY <1>3, <3>4 DEF HNext, Observe
      <4> QED BY <3>1, <3>4, <4>1 DEF StampedLate
    <3> QED BY <3>3, <3>4
  <2> QED BY <1>1, <2>2, <2>3 DEF HInv
<1> QED BY <1>2, <1>3

\* The observer's invariant holds of every reachable state.
THEOREM HInvHolds == HSpec => []HInv
BY InitHInv, NextHInv, PTL DEF HSpec, hvars

\* updatedAt, the clock of the 48-hour rule, never runs ahead of the real stop by more than
\* the latency of a request.
THEOREM ClockNeverAheadHolds == HSpec => []ClockNeverAhead
<1>1. HInv => ClockNeverAhead
  BY DEF HInv
<1> QED BY <1>1, HInvHolds, PTL

\* What a step of the observed system may record.
LongStoppedTrue(a) ==
    a.alertType = "LONG_STOPPED" /\ IsOpen(a) =>
       /\ inst[a.instanceId].status = "STOPPED"
       /\ now - stoppedSince[a.instanceId] >= LongStopped - MaxLatency

\* The scan is the only request that adds an open alert, and it adds it for a row it matched.
LEMMA RecordedIsTrue ==
    ASSUME HInv, NEW m \in Members, NEW type \in AlertTypes, Scan(m, type),
           NEW a \in alerts' \ alerts
    PROVE  LongStoppedTrue(a)
<1> SUFFICES ASSUME a.alertType = "LONG_STOPPED"
             PROVE  /\ inst[a.instanceId].status = "STOPPED"
                    /\ now - stoppedSince[a.instanceId] >= LongStopped - MaxLatency
  BY DEF LongStoppedTrue
<1>1. PICK t \in Instants : \E f \in [Detected(m, type, t) \ WithOpenAlert(type) -> 1..MaxAlerts] :
          alerts' = alerts \cup
             {[id |-> f[i], instanceId |-> i, alertType |-> type, resolvedAt |-> NULL] :
                 i \in Detected(m, type, t) \ WithOpenAlert(type)}
  BY DEF Scan
<1>2. PICK i \in Detected(m, type, t) : a.instanceId = i /\ a.alertType = type
  BY <1>1
<1>3. i \in DOMAIN inst /\ inst[i].status = "STOPPED" /\ t - inst[i].updatedAt >= LongStopped
  BY <1>2 DEF Detected, Matches
<1>4. t \in Int /\ now \in Int /\ t <= now
  BY DEF Instants, HInv, IInv, TypeOK
<1>5. /\ inst[i].updatedAt \in Int /\ stoppedSince[i] \in Int
      /\ inst[i].updatedAt >= stoppedSince[i] - MaxLatency
  BY <1>3 DEF HInv, Noted, ClockNeverAhead, IInv, TypeOK, Instance
<1> QED BY <1>2, <1>3, <1>4, <1>5, NumbersAssumption

LEMMA StepsRecordTruth ==
    ASSUME HInv, [Next]_vars
    PROVE  \A a \in alerts' \ alerts : LongStoppedTrue(a)
<1> SUFFICES ASSUME NEW a \in alerts' \ alerts PROVE LongStoppedTrue(a)
  OBVIOUS
<1>1. ASSUME NEW m \in Members, NEW type \in AlertTypes, Scan(m, type) PROVE LongStoppedTrue(a)
  BY <1>1, RecordedIsTrue
<1>2. ASSUME NEW m \in Members, NEW b \in alerts, ResolveAlert(m, b) PROVE LongStoppedTrue(a)
  <2>1. PICK t \in Instants : a = [b EXCEPT !.resolvedAt = t]
    BY <1>2 DEF ResolveAlert
  <2>2. a.resolvedAt = t /\ t \in Nat
    BY <2>1 DEF HInv, IInv, TypeOK, Alert, Instants
  <2> QED BY <2>2, NumbersAssumption DEF LongStoppedTrue, IsOpen
<1>3. ASSUME alerts' \subseteq alerts PROVE LongStoppedTrue(a)
  BY <1>3
<1>4. ASSUME NEW m \in Members, RequestBy(m) PROVE LongStoppedTrue(a)
  BY <1>1, <1>2, <1>3, <1>4
     DEF RequestBy, CreateClient, CreateInstance, UpdateStatus, DeleteInstance
<1> QED BY <1>3, <1>4 DEF Next, Tick, vars

\* A LONG_STOPPED alert is true when it is recorded: its instance has been STOPPED without a
\* break for the whole period, up to the latency of a request.
THEOREM LongStoppedIsLongHolds == HSpec => LongStoppedIsLong
<1>1. HInv /\ [HNext]_hvars =>
          [\A a \in alerts' \ alerts :
              a.alertType = "LONG_STOPPED" /\ IsOpen(a) =>
                 /\ inst[a.instanceId].status = "STOPPED"
                 /\ now - stoppedSince[a.instanceId] >= LongStopped - MaxLatency]_hvars
  BY HistoryStep, StepsRecordTruth DEF LongStoppedTrue
<1> QED BY <1>1, HInvHolds, PTL DEF HSpec, LongStoppedIsLong, hvars
-------------------------------------------------------------------------------
\* What the observer of SlaHistory knows of an instance: its row was written within a
\* request's latency of its stamp; since then it has run all the time or not at all,
\* as its row says.
Watched(i) ==
    /\ launched[i] \in Nat /\ edited[i] \in Nat /\ edited[i] <= now
    /\ inst[i].updatedAt <= edited[i] /\ edited[i] - inst[i].updatedAt <= MaxLatency
    /\ ran[i] \in SUBSET Nat /\ \A s \in ran[i] : s < now
    /\ inst[i].status = "RUNNING" => \A s \in Nat : s >= edited[i] /\ s < now => s \in ran[i]
    /\ inst[i].status # "RUNNING" => \A s \in ran[i] : s < edited[i]

UInv == /\ IInv
        /\ DOMAIN launched = DOMAIN inst /\ DOMAIN ran = DOMAIN inst /\ DOMAIN edited = DOMAIN inst
        /\ \A i \in DOMAIN inst : Watched(i)

\* A step leaves a row as it is, or stamps it with an instant within a request's latency.
KeptOrStamped(i) ==
    \/ i \in DOMAIN inst /\ inst'[i] = inst[i]
    \/ now' = now /\ inst'[i].updatedAt <= now /\ now - inst'[i].updatedAt <= MaxLatency

LEMMA RowsAreStamped ==
    ASSUME IInv, Next
    PROVE  /\ now' \in {now, now + 1}
           /\ \A i \in DOMAIN inst' : KeptOrStamped(i)
<1>1. \A t \in Instants : t \in Nat /\ t <= now /\ now - t <= MaxLatency
  BY DEF Instants, IInv, TypeOK
<1>2. ASSUME UNCHANGED inst PROVE \A i \in DOMAIN inst' : KeptOrStamped(i)
  BY <1>2 DEF KeptOrStamped
<1>3. CASE Tick
  BY <1>2, <1>3 DEF Tick
<1>4. ASSUME NEW m \in Members, RequestBy(m)
      PROVE  now' = now /\ \A i \in DOMAIN inst' : KeptOrStamped(i)
  <2>1. ASSUME NEW manager \in Managers, CreateClient(m, manager)
        PROVE  now' = now /\ \A i \in DOMAIN inst' : KeptOrStamped(i)
    BY <1>2, <2>1 DEF CreateClient
  <2>2. ASSUME NEW c \in 1..MaxClients, NEW status \in Statuses, NEW cpu \in CpuLevels,
               CreateInstance(m, c, status, cpu)
        PROVE  now' = now /\ \A i \in DOMAIN inst' : KeptOrStamped(i)
    <3>1. PICK n \in 1..MaxInstances, t \in Instants :
              inst' = [j \in DOMAIN inst \cup {n} |->
                         IF j = n THEN [clientId |-> c, status |-> status,
                                        cpuUsage |-> cpu, updatedAt |-> t]
                                  ELSE inst[j]]
      BY <2>2 DEF CreateInstance
    <3>2. now' = now /\ inst'[n].updatedAt = t
      BY <2>2, <3>1 DEF CreateInstance
    <3>3. KeptOrStamped(n)
      BY <1>1, <3>2 DEF KeptOrStamped
    <3>4. \A i \in DOMAIN inst' : i = n \/ (i \in DOMAIN inst /\ inst'[i] = inst[i])
      BY <3>1
    <3> QED BY <3>2, <3>3, <3>4 DEF KeptOrStamped
  <2>3. ASSUME NEW j \in DOMAIN inst, NEW status \in Statuses, NEW cpu \in CpuLevels \cup {NULL},
               UpdateStatus(m, j, status, cpu)
        PROVE  now' = now /\ \A i \in DOMAIN inst' : KeptOrStamped(i)
    <3>1. PICK t \in Instants : inst' = [inst EXCEPT ![j] = Applied(@, status, cpu, t)]
      BY <2>3 DEF UpdateStatus
    <3>2. now' = now /\ inst'[j].updatedAt = t
      <4>1. now' = now
        BY <2>3 DEF UpdateStatus
      <4>2. inst'[j] = Applied(inst[j], status, cpu, t)
        BY <3>1
      <4>3. inst[j] \in Instance
        BY DEF IInv, TypeOK
      <4>4. inst'[j].updatedAt = t
        BY <4>2, <4>3 DEF Applied, Instance
      <4> QED BY <4>1, <4>4
    <3>3. KeptOrStamped(j)
      BY <1>1, <3>2 DEF KeptOrStamped
    <3>4. \A i \in DOMAIN inst' : i = j \/ (i \in DOMAIN inst /\ inst'[i] = inst[i])
      BY <3>1
    <3> QED BY <3>2, <3>3, <3>4 DEF KeptOrStamped
  <2>4. ASSUME NEW j \in DOMAIN inst, DeleteInstance(m, j)
        PROVE  now' = now /\ \A i \in DOMAIN inst' : KeptOrStamped(i)
    BY <2>4 DEF DeleteInstance, KeptOrStamped
  <2>5. ASSUME NEW type \in AlertTypes, Scan(m, type)
        PROVE  now' = now /\ \A i \in DOMAIN inst' : KeptOrStamped(i)
    BY <1>2, <2>5 DEF Scan
  <2>6. ASSUME NEW a \in alerts, ResolveAlert(m, a)
        PROVE  now' = now /\ \A i \in DOMAIN inst' : KeptOrStamped(i)
    BY <1>2, <2>6 DEF ResolveAlert
  <2> QED BY <1>4, <2>1, <2>2, <2>3, <2>4, <2>5, <2>6 DEF RequestBy
<1> QED BY <1>3, <1>4 DEF Next, Tick

LEMMA InitUInv == SInit => UInv
BY InitIInv DEF SInit, HInit, Init, UInv

LEMMA NextUInv == UInv /\ [SNext]_svars => UInv'
<1> SUFFICES ASSUME UInv, [SNext]_svars PROVE UInv'
  OBVIOUS
<1>1. IInv'
  BY NextIInv DEF UInv, SNext, HNext, svars, vars
<1>2. CASE UNCHANGED svars
  BY <1>1, <1>2 DEF UInv, Watched, svars, vars
<1>3. CASE SNext
  <2>1. Next /\ Launch /\ Watch
    BY <1>3 DEF SNext, HNext
  <2>2. /\ DOMAIN launched' = DOMAIN inst' /\ DOMAIN ran' = DOMAIN inst'
        /\ DOMAIN edited' = DOMAIN inst'
    BY <2>1 DEF Launch, Watch
  <2>3. ASSUME NEW i \in DOMAIN inst' PROVE Watched(i)'
    <3>1. /\ now \in Nat /\ now' \in {now, now + 1} /\ KeptOrStamped(i)
          /\ inst'[i].updatedAt \in Nat
      BY <1>1, <2>1, RowsAreStamped DEF UInv, IInv, TypeOK, Instance
    <3>2. CASE IsNew(i)
      <4>1. /\ launched'[i] = inst'[i].updatedAt /\ ran'[i] = {} /\ edited'[i] = now'
        BY <2>1, <3>2 DEF Launch, Watch
      <4>2. now' = now /\ inst'[i].updatedAt <= now /\ now - inst'[i].updatedAt <= MaxLatency
        BY <3>1, <3>2 DEF KeptOrStamped, IsNew
      <4> QED BY <3>1, <4>1, <4>2 DEF Watched
    <3>3. CASE ~IsNew(i) /\ inst'[i] = inst[i]
      <4>1. /\ i \in DOMAIN inst /\ Watched(i)
            /\ launched'[i] = launched[i] /\ edited'[i] = edited[i]
            /\ ran'[i] = ran[i] \cup {t \in {now} : now' # now /\ inst[i].status = "RUNNING"}
        BY <2>1, <3>3 DEF Launch, Watch, IsNew, UInv
      <4>2. CASE now' = now
        <5>1. ran'[i] = ran[i]
          BY <4>1, <4>2
        <5> QED BY <3>3, <4>1, <4>2, <5>1 DEF Watched
      <4>3. CASE now' = now + 1
        <5>1. now' # now
          BY <3>1, <4>3
        <5>2. CASE inst[i].status = "RUNNING"
          <6>1. ran'[i] = ran[i] \cup {now}
            BY <4>1, <5>1, <5>2
          <6> QED BY <3>1, <3>3, <4>1, <4>3, <5>2, <6>1 DEF Watched
        <5>3. CASE inst[i].status # "RUNNING"
          <6>1. ran'[i] = ran[i]
            BY <4>1, <5>3
          <6> QED BY <3>1, <3>3, <4>1, <4>3, <5>3, <6>1 DEF Watched
        <5> QED BY <5>2, <5>3
      <4> QED BY <3>1, <4>2, <4>3
    <3>4. CASE ~IsNew(i) /\ inst'[i] # inst[i]
      <4>1. now' = now /\ inst'[i].updatedAt <= now /\ now - inst'[i].updatedAt <= MaxLatency
        BY <3>1, <3>4 DEF KeptOrStamped
      <4>2. /\ i \in DOMAIN inst /\ Watched(i)
            /\ launched'[i] = launched[i] /\ edited'[i] = now' /\ ran'[i] = ran[i]
        BY <2>1, <3>4, <4>1 DEF Launch, Watch, IsNew, UInv
      <4> QED BY <3>1, <4>1, <4>2 DEF Watched
    <3> QED BY <3>2, <3>3, <3>4
  <2> QED BY <1>1, <2>2, <2>3 DEF UInv
<1> QED BY <1>2, <1>3
\* What SlaHistory's observer knows of every instance holds of every reachable state.
THEOREM UInvHolds == SSpec => []UInv
<1> QED BY InitUInv, NextUInv, PTL DEF SSpec

\* However the observer cuts a stretch of time, the parts add up to its length.
LEMMA PartsAddUp ==
    ASSUME NEW start \in Int, NEW end \in Int, NEW U, NEW F, U \cap F = {}, U \cup F = start..end - 1
    PROVE  /\ Cardinality(U) \in Nat /\ Cardinality(F) \in Nat
           /\ Cardinality(U) + Cardinality(F) = IF end > start THEN end - start ELSE 0
<1>1. IsFiniteSet(start..end - 1)
      /\ Cardinality(start..end - 1) = IF start > end - 1 THEN 0 ELSE (end - 1) - start + 1
  BY FS_Interval
<1>2. IsFiniteSet(U) /\ IsFiniteSet(F)
  <2>1. U \in SUBSET (start..end - 1) /\ F \in SUBSET (start..end - 1)
    OBVIOUS
  <2> QED BY <1>1, <2>1, FS_Subset
<1>3. Cardinality(U) \in Nat /\ Cardinality(F) \in Nat
  BY <1>2, FS_CardinalityType
<1>4. Cardinality(start..end - 1) = Cardinality(U) + Cardinality(F) - 0
  <2>1. Cardinality(U \cup F) = Cardinality(U) + Cardinality(F) - Cardinality(U \cap F)
    BY <1>2, FS_Union
  <2>2. Cardinality(U \cap F) = 0
    BY FS_EmptySet
  <2> QED BY <2>1, <2>2
<1> QED BY <1>1, <1>3, <1>4

\* Where a month begins is an instant, before the clock started or after.
LEMMA MonthStartsAtAnInstant == \A t \in Int : MonthStart(t) \in Int
<1> SUFFICES ASSUME NEW t \in Int PROVE MonthStart(t) \in Int
  OBVIOUS
<1>1. MonthLength \in Nat \ {0} /\ MonthOffset \in Int
  BY CalendarAssumption
<1>2. t + MonthOffset \in Int
  BY <1>1
<1>3. (t + MonthOffset) % MonthLength \in 0..MonthLength - 1
  BY <1>1, <1>2
<1> QED BY <1>3 DEF MonthStart

LEMMA UInvExplainsCredit == UInv => CreditExplained
<1> SUFFICES ASSUME UInv, NEW t \in AnswerTimes, NEW i \in Measured(DOMAIN inst, t)
             PROVE  UpTime(inst[i], launched[i], t) - ReallyUp(i, t) - Forgiven(i, t)
                        \in -MaxLatency..MaxLatency
  BY DEF CreditExplained
<1> DEFINE start == WindowStart(launched[i], t)
           U == {s \in ran[i] : s >= start}
           F == {s \in 0..edited[i] - 1 : s >= start /\ s \notin ran[i]}
           end == IF inst[i].status = "RUNNING" THEN now ELSE edited[i]
<1>1. /\ i \in DOMAIN inst /\ Watched(i)
      /\ now \in Nat /\ MaxLatency \in Nat /\ t \in Nat /\ now <= t /\ t <= now + MaxLatency
      /\ inst[i].updatedAt \in Nat
  BY NumbersAssumption DEF UInv, Measured, AnswerTimes, IInv, TypeOK, Instance
<1>2. start \in Nat /\ start < t
  <2>1. MonthStart(t) \in Int /\ launched[i] \in Nat
    BY <1>1, MonthStartsAtAnInstant DEF Watched
  <2>2. start \in Nat
    BY <2>1 DEF WindowStart, Larger
  <2>3. t - start > 0
    BY DEF Measured, TotalTime
  <2> QED BY <1>1, <2>2, <2>3
<1> HIDE DEF start
<1>3. /\ end \in Nat
      /\ U \cap F = {} /\ U \cup F = start..end - 1
  BY <1>1, <1>2 DEF Watched
<1> HIDE DEF U, F, end
<1>4. /\ Cardinality(U) \in Nat /\ Cardinality(F) \in Nat
      /\ Cardinality(U) + Cardinality(F) = IF end > start THEN end - start ELSE 0
  BY <1>2, <1>3, PartsAddUp
<1>5. UpTime(inst[i], launched[i], t) - Cardinality(U) - Cardinality(F) \in -MaxLatency..MaxLatency
  <2>1. CASE inst[i].status = "RUNNING"
    <3>1. UpTime(inst[i], launched[i], t) = t - start /\ end = now
      BY <1>1, <1>2, <2>1 DEF UpTime, Larger, start, end
    <3> QED BY <1>1, <1>2, <1>4, <3>1
  <2>2. CASE inst[i].status # "RUNNING"
    <3>1. /\ inst[i].updatedAt <= edited[i] /\ edited[i] - inst[i].updatedAt <= MaxLatency
          /\ edited[i] \in Nat /\ edited[i] <= now
      BY <1>1 DEF Watched
    <3>2. end = edited[i]
      BY <2>2 DEF end
    <3>3. UpTime(inst[i], launched[i], t)
              = Larger(Smaller(Larger(inst[i].updatedAt, start), t) - start, 0)
      BY <2>2 DEF UpTime, start
    <3>4. UpTime(inst[i], launched[i], t)
              = IF inst[i].updatedAt >= start THEN inst[i].updatedAt - start ELSE 0
      BY <1>1, <1>2, <3>1, <3>3 DEF Larger, Smaller
    <3> QED BY <1>1, <1>2, <1>4, <3>1, <3>2, <3>4
  <2> QED BY <2>1, <2>2
<1> QED BY <1>5 DEF ReallyUp, Forgiven, U, F, start

\* get_sla, which keeps no history, credits an instance with the time it really ran, the
\* outages before the last change of its row and nothing else, up to a request's latency:
\* of every instance, at every instant and wherever the month begins.
THEOREM CreditExplainedHolds == SSpec => []CreditExplained
<1> QED BY UInvHolds, UInvExplainsCredit, PTL
-------------------------------------------------------------------------------
(***************************************************************************)
(* Ranks and pages of a list.                                              *)
(***************************************************************************)

\* The set of pairs R is a strict total order on S.
Orders(R, S) ==
    /\ \A x \in S : <<x, x>> \notin R
    /\ \A x, y, z \in S : <<x, y>> \in R /\ <<y, z>> \in R => <<x, z>> \in R
    /\ \A x, y \in S : x = y \/ <<x, y>> \in R \/ <<y, x>> \in R

RankBy(R, S) == [x \in S |-> Cardinality({y \in S : <<y, x>> \in R})]

\* rk gives every number from 0 to the size of S less one to exactly one element.
Numbers(rk, S) ==
    /\ rk \in [S -> 0..Cardinality(S) - 1]
    /\ \A x, y \in S : rk[x] = rk[y] => x = y
    /\ \A k \in 0..Cardinality(S) - 1 : \E x \in S : rk[x] = k

\* In a list that a query orders totally, every position is the rank of one row.
LEMMA RanksNumber ==
    ASSUME NEW S, IsFiniteSet(S), NEW R, Orders(R, S)
    PROVE  /\ Numbers(RankBy(R, S), S)
           /\ \A x, y \in S : <<x, y>> \in R => RankBy(R, S)[x] < RankBy(R, S)[y]
<1> DEFINE Below(x) == {y \in S : <<y, x>> \in R}
           N == Cardinality(S)
           rk == RankBy(R, S)
<1>1. N \in Nat
  BY FS_CardinalityType
<1>2. ASSUME NEW x \in S PROVE IsFiniteSet(Below(x)) /\ Cardinality(Below(x)) \in 0..N - 1
  <2>1. IsFiniteSet(S \ {x}) /\ Cardinality(S \ {x}) = N - 1
    BY FS_RemoveElement
  <2>2. Below(x) \in SUBSET (S \ {x})
    BY DEF Orders
  <2> HIDE DEF Below, N
  <2>3. IsFiniteSet(Below(x)) /\ Cardinality(Below(x)) <= Cardinality(S \ {x})
    BY <2>1, <2>2, FS_Subset
  <2>4. Cardinality(Below(x)) \in Nat
    BY <2>3, FS_CardinalityType
  <2> QED BY <1>1, <2>1, <2>3, <2>4
<1>3. ASSUME NEW x \in S, NEW y \in S, <<x, y>> \in R
      PROVE  Cardinality(Below(x)) < Cardinality(Below(y))
  <2>1. Below(x) \cup {x} \in SUBSET Below(y) /\ x \notin Below(x)
    BY <1>3 DEF Orders
  <2> HIDE DEF Below
  <2>2. Cardinality(Below(x) \cup {x}) = Cardinality(Below(x)) + 1
    BY <1>2, <2>1, FS_AddElement
  <2>3. Cardinality(Below(x) \cup {x}) <= Cardinality(Below(y))
    BY <1>2, <2>1, FS_Subset
  <2>4. Cardinality(Below(x)) \in Nat /\ Cardinality(Below(y)) \in Nat
    BY <1>2, FS_CardinalityType
  <2> QED BY <2>2, <2>3, <2>4
<1>4. rk \in [S -> 0..N - 1] /\ \A x \in S : rk[x] = Cardinality(Below(x))
  BY <1>2 DEF RankBy
<1> HIDE DEF Below, N, rk
<1>5. \A x, y \in S : <<x, y>> \in R => rk[x] < rk[y]
  BY <1>3, <1>4
<1>6. \A x, y \in S : rk[x] = rk[y] => x = y
  <2> SUFFICES ASSUME NEW x \in S, NEW y \in S, rk[x] = rk[y], x # y PROVE FALSE
    OBVIOUS
  <2>1. rk[x] \in Int /\ rk[y] \in Int
    BY <1>1, <1>4
  <2>2. <<x, y>> \in R \/ <<y, x>> \in R
    BY DEF Orders
  <2>3. rk[x] < rk[y] \/ rk[y] < rk[x]
    BY <1>5, <2>2
  <2> QED BY <2>1, <2>3
<1>7. \A k \in 0..N - 1 : \E x \in S : rk[x] = k
  <2>1. rk \in Injection(S, 0..N - 1)
    BY <1>4, <1>6 DEF Injection, IsInjective
  <2>2. IsFiniteSet(0..N - 1) /\ Cardinality(0..N - 1) = N
    BY <1>1, FS_Interval
  <2>3. rk \in Surjection(S, 0..N - 1)
    BY <2>1, <2>2, FS_Injection DEF N
  <2> QED BY <2>3 DEF Surjection
<1> QED BY <1>4, <1>5, <1>6, <1>7 DEF Numbers, N, rk

LEMMA Multiples ==
    ASSUME NEW size \in Nat \ {0}, NEW a \in Int, NEW b \in Int, a < b
    PROVE  a * size + size <= b * size
<1>1. b - a - 1 \in Nat
  OBVIOUS
<1>2. (b - a - 1) * size \in Nat
  BY <1>1
<1>3. (b - a - 1) * size = b * size - a * size - size
  OBVIOUS
<1>4. a * size \in Int /\ b * size \in Int
  OBVIOUS
<1> QED BY <1>2, <1>3, <1>4

LEMMA Quotients ==
    ASSUME NEW size \in Nat \ {0}, NEW a \in Nat
    PROVE  a \div size \in Nat /\ (a \div size) * size <= a /\ a < (a \div size) * size + size
OBVIOUS

\* The rows numbered (p - 1) * size and on.
Slice(rk, S, p, size) == {x \in S : rk[x] \in (p - 1) * size..(p - 1) * size + size - 1}

\* Cutting a numbered list into slices shares its rows out (paginate, and its total of pages).
LEMMA SlicesShare ==
    ASSUME NEW S, IsFiniteSet(S), NEW rk, Numbers(rk, S), NEW size \in Nat \ {0},
           NEW n, n = TotalPages(Cardinality(S), size)
    PROVE  /\ n \in Nat
           /\ \A p \in 1..n : Cardinality(Slice(rk, S, p, size)) \in 1..size
           /\ \A p, q \in 1..n : p # q => Slice(rk, S, p, size) \cap Slice(rk, S, q, size) = {}
           /\ \A x \in S : \E p \in 1..n : x \in Slice(rk, S, p, size)
           /\ Slice(rk, S, n + 1, size) = {}
<1> DEFINE N == Cardinality(S)
<1>1. N \in Nat
  BY FS_CardinalityType
<1> HIDE DEF N
<1>2. rk \in [S -> 0..N - 1] /\ \A x \in S : rk[x] \in Int
  BY <1>1 DEF Numbers, N
<1>3. n \in Nat /\ N <= n * size /\ n * size <= N + size - 1 /\ n * size \in Nat
  <2>1. N + size - 1 \in Nat
    BY <1>1
  <2>2. n = (N + size - 1) \div size
    BY DEF TotalPages, N
  <2>3. n \in Nat /\ n * size <= N + size - 1 /\ N + size - 1 < n * size + size
    BY <2>1, <2>2, Quotients
  <2>4. n * size \in Nat
    BY <2>3
  <2> QED BY <1>1, <2>3, <2>4
<1>4. ASSUME NEW p \in 1..n
      PROVE  (p - 1) * size \in Nat /\ (p - 1) * size < N
  <2>1. (p - 1) * size + size <= n * size
    BY <1>3, Multiples
  <2>2. p - 1 \in Nat
    BY <1>3
  <2>3. (p - 1) * size \in Nat
    BY <2>2
  <2> QED BY <1>1, <1>3, <2>1, <2>3
<1>5. ASSUME NEW p \in 1..n PROVE Cardinality(Slice(rk, S, p, size)) \in 1..size
  <2> DEFINE T == Slice(rk, S, p, size)
             lo == (p - 1) * size
             f == [x \in T |-> rk[x]]
  <2>1. lo \in Nat /\ lo < N
    BY <1>4
  <2>2. T = {x \in S : rk[x] \in lo..lo + size - 1}
    BY DEF Slice
  <2> HIDE DEF T, lo
  <2>3. f \in Injection(T, lo..lo + size - 1)
    BY <2>2 DEF Injection, IsInjective, Numbers
  <2> HIDE DEF f
  <2>4. IsFiniteSet(lo..lo + size - 1) /\ Cardinality(lo..lo + size - 1) = size
    BY <2>1, FS_Interval
  <2>5. IsFiniteSet(T) /\ Cardinality(T) <= size
    BY <2>3, <2>4, FS_Injection
  <2>6. PICK x \in S : rk[x] = lo
    BY <1>1, <2>1 DEF Numbers, N
  <2>7. x \in T
    BY <2>1, <2>2, <2>6
  <2>8. Cardinality(T) # 0
    BY <2>5, <2>7, FS_EmptySet
  <2>9. Cardinality(T) \in Nat
    BY <2>5, FS_CardinalityType
  <2> QED BY <2>5, <2>8, <2>9 DEF T
<1>6. ASSUME NEW p \in 1..n, NEW q \in 1..n, p < q
      PROVE  Slice(rk, S, p, size) \cap Slice(rk, S, q, size) = {}
  <2>1. (p - 1) * size + size <= (q - 1) * size
    BY <1>3, <1>6, Multiples
  <2>2. (p - 1) * size \in Nat /\ (q - 1) * size \in Nat
    BY <1>4
  <2> QED BY <1>2, <2>1, <2>2 DEF Slice
<1>7. \A p, q \in 1..n : p # q => Slice(rk, S, p, size) \cap Slice(rk, S, q, size) = {}
  <2> SUFFICES ASSUME NEW p \in 1..n, NEW q \in 1..n, p # q
               PROVE  Slice(rk, S, p, size) \cap Slice(rk, S, q, size) = {}
    OBVIOUS
  <2>1. p < q \/ q < p
    BY <1>3
  <2> QED BY <1>6, <2>1
<1>8. ASSUME NEW x \in S PROVE \E p \in 1..n : x \in Slice(rk, S, p, size)
  <2> DEFINE d == rk[x] \div size
  <2>1. rk[x] \in Nat /\ rk[x] < N
    BY <1>1, <1>2
  <2>2. d \in Nat /\ d * size <= rk[x] /\ rk[x] < d * size + size /\ d * size \in Nat
    <3>1. d \in Nat /\ d * size <= rk[x] /\ rk[x] < d * size + size
      BY <2>1, Quotients
    <3> QED BY <3>1
  <2> HIDE DEF d
  <2>3. d < n
    <3> SUFFICES ASSUME n <= d PROVE FALSE
      BY <1>3, <2>2
    <3>1. n * size <= d * size
      <4>1. n < d => n * size + size <= d * size
        BY <1>3, <2>2, Multiples
      <4>2. n = d => n * size = d * size
        OBVIOUS
      <4> QED BY <1>3, <2>2, <4>1, <4>2
    <3> QED BY <1>1, <1>3, <2>1, <2>2, <3>1
  <2>4. d + 1 \in 1..n /\ (d + 1) - 1 = d
    BY <1>3, <2>2, <2>3
  <2>5. x \in Slice(rk, S, d + 1, size)
    BY <2>1, <2>2, <2>4 DEF Slice
  <2> QED BY <2>4, <2>5
<1>9. Slice(rk, S, n + 1, size) = {}
  <2>1. (n + 1) - 1 = n
    BY <1>3
  <2>2. \A x \in S : ~(n * size <= rk[x])
    BY <1>1, <1>2, <1>3
  <2> QED BY <1>2, <1>3, <2>1, <2>2 DEF Slice
<1> QED BY <1>3, <1>5, <1>7, <1>8, <1>9

\* _scan counts its matches off while it walks them by increasing id: it keeps the rows
\* that the list of them would show on that page.
LEMMA ScanTakesThePage ==
    ASSUME NEW S \in SUBSET Nat, IsFiniteSet(S), NEW page, NEW size
    PROVE  ScanPage(S, page, size) = {x \in S : Cardinality({y \in S : y < x}) \in Window(page, size)}
<1> DEFINE N == Cardinality(S)
           R == {e \in S \X S : e[1] < e[2]}
           rk == RankBy(R, S)
           Increasing(f) == \A k, n \in DOMAIN f : k < n => f[k] < f[n]
           walk == CHOOSE f \in [1..N -> S] : Increasing(f)
<1>1. N \in Nat
  BY FS_CardinalityType
<1>2. Orders(R, S) /\ \A x, y \in S : <<x, y>> \in R <=> x < y
  <2>1. \A x, y \in S : <<x, y>> \in R <=> x < y
    OBVIOUS
  <2> HIDE DEF R
  <2> QED BY <2>1 DEF Orders
<1>3. Numbers(rk, S) /\ \A x, y \in S : x < y => rk[x] < rk[y]
  <2> HIDE DEF R
  <2> QED BY <1>2, RanksNumber
<1>4. \A x \in S : rk[x] = Cardinality({y \in S : y < x})
  <2> SUFFICES ASSUME NEW x \in S PROVE rk[x] = Cardinality({y \in S : y < x})
    OBVIOUS
  <2>1. {y \in S : <<y, x>> \in R} = {y \in S : y < x}
    BY <1>2, Zenon
  <2> QED BY <2>1 DEF RankBy
<1> HIDE DEF N, R, rk
<1>5. walk \in [1..N -> S] /\ \A k, n \in 1..N : k < n => walk[k] < walk[n]
  <2> DEFINE f == [k \in 1..N |-> CHOOSE x \in S : rk[x] = k - 1]
  <2>1. \A k \in 1..N : k - 1 \in 0..N - 1
    BY <1>1
  <2>2. \A k \in 1..N : f[k] \in S /\ rk[f[k]] = k - 1
    BY <1>3, <2>1 DEF Numbers, N
  <2>3. f \in [1..N -> S]
    BY <2>2
  <2> HIDE DEF f
  <2>4. ASSUME NEW k \in 1..N, NEW n \in 1..N, k < n PROVE f[k] < f[n]
    <3>1. /\ f[k] \in S /\ f[n] \in S
          /\ k \in Int /\ n \in Int
      <4>1. k \in Int /\ n \in Int
        BY <1>1
      <4> QED BY <2>2, <4>1
    <3>2. f[n] < f[k] => n - 1 < k - 1
      BY <1>3, <2>2
    <3>3. f[n] = f[k] => n - 1 = k - 1
      BY <2>2
    <3>4. f[k] \in Nat /\ f[n] \in Nat
      BY <3>1
    <3>5. ~(f[n] < f[k]) /\ ~(f[n] = f[k])
      BY <2>4, <3>1, <3>2, <3>3
    <3> QED BY <3>4, <3>5
  <2>5. \E g \in [1..N -> S] : Increasing(g)
    BY <2>3, <2>4
  <2>6. walk \in [1..N -> S] /\ Increasing(walk)
    BY <2>5
  <2> QED BY <2>6
<1>6. ScanPage(S, page, size) = {walk[k] : k \in {n \in 1..N : n - 1 \in Window(page, size)}}
  <2>1. ScanPage(S, page, size) = {walk[k] : k \in {n \in DOMAIN walk : n - 1 \in Window(page, size)}}
    BY DEF ScanPage, N
  <2>2. DOMAIN walk = 1..N
    BY <1>5
  <2> QED BY <2>1, <2>2
<1> HIDE DEF walk
<1>7. \A k, n \in 1..N : walk[k] = walk[n] => k = n
  <2> SUFFICES ASSUME NEW k \in 1..N, NEW n \in 1..N, walk[k] = walk[n], k # n PROVE FALSE
    OBVIOUS
  <2>1. k < n \/ n < k
    BY <1>1
  <2>2. walk[k] \in Nat /\ walk[n] \in Nat
    BY <1>5
  <2>3. walk[k] < walk[n] \/ walk[n] < walk[k]
    BY <1>5, <2>1
  <2> QED BY <2>2, <2>3
<1>8. \A x \in S : \E k \in 1..N : walk[k] = x
  <2>1. walk \in Injection(1..N, S)
    BY <1>5, <1>7 DEF Injection, IsInjective
  <2>2. Cardinality(1..N) = Cardinality(S)
    BY <1>1, FS_Interval DEF N
  <2>3. walk \in Surjection(1..N, S)
    BY <2>1, <2>2, FS_Injection
  <2> QED BY <2>3 DEF Surjection
<1>9. ASSUME NEW k \in 1..N PROVE Cardinality({y \in S : y < walk[k]}) = k - 1
  <2> DEFINE T == {y \in S : y < walk[k]}
             f == [j \in 1..k - 1 |-> walk[j]]
  <2>1. k - 1 \in Nat /\ 1..k - 1 \subseteq 1..N
    BY <1>1
  <2>2. \A j \in 1..k - 1 : walk[j] \in T
    <3> SUFFICES ASSUME NEW j \in 1..k - 1 PROVE walk[j] \in T
      OBVIOUS
    <3>1. j \in 1..N /\ j < k
      BY <1>1, <2>1
    <3> QED BY <1>5, <3>1
  <2>3. \A y \in T : \E j \in 1..k - 1 : walk[j] = y
    <3> SUFFICES ASSUME NEW y \in T PROVE \E j \in 1..k - 1 : walk[j] = y
      OBVIOUS
    <3>1. PICK j \in 1..N : walk[j] = y
      BY <1>8
    <3>2. walk[j] \in Nat /\ walk[k] \in Nat /\ walk[j] < walk[k]
      BY <1>5, <3>1
    <3>3. ~(j = k) /\ ~(k < j)
      BY <1>5, <3>2
    <3>4. j \in 1..k - 1
      BY <1>1, <3>3
    <3> QED BY <3>1, <3>4
  <2> HIDE DEF T
  <2>4. f \in Bijection(1..k - 1, T)
    BY <1>7, <2>1, <2>2, <2>3 DEF Bijection, Injection, Surjection, IsInjective
  <2>5. IsFiniteSet(1..k - 1) /\ Cardinality(1..k - 1) = k - 1
    BY <2>1, FS_Interval
  <2>6. Cardinality(T) = Cardinality(1..k - 1)
    BY <2>4, <2>5, FS_Bijection DEF ExistsBijection
  <2> QED BY <2>5, <2>6 DEF T
<1> DEFINE Ahead(x) == Cardinality({y \in S : y < x})
           Row(k) == k - 1 \in Window(page, size)
<1>10. \A k \in 1..N : walk[k] \in S /\ (Row(k) <=> Ahead(walk[k]) \in Window(page, size))
  BY <1>5, <1>9
<1>11. ScanPage(S, page, size) = {walk[k] : k \in {n \in 1..N : Row(n)}}
  BY <1>6
<1> HIDE DEF Ahead, Row
<1>12. \A x : x \in ScanPage(S, page, size) => x \in S /\ Ahead(x) \in Window(page, size)
  BY <1>10, <1>11
<1>13. ASSUME NEW x \in S, Ahead(x) \in Window(page, size) PROVE x \in ScanPage(S, page, size)
  <2>1. PICK k \in 1..N : walk[k] = x
    BY <1>8
  <2> QED BY <1>10, <1>11, <1>13, <2>1
<1>14. ScanPage(S, page, size) = {x \in S : Ahead(x) \in Window(page, size)}
  BY <1>12, <1>13
<1> QED BY <1>14 DEF Ahead

\* R sorts S by a key that may tie, then by a number no two rows share.
Sorts(R, S, key, id) ==
    /\ key \in [S -> Int] /\ id \in [S -> Int]
    /\ \A i, j \in S : id[i] = id[j] => i = j
    /\ \A i, j \in S : <<i, j>> \in R <=> key[i] < key[j] \/ (key[i] = key[j] /\ id[i] < id[j])

LEMMA KeyThenIdOrders ==
    ASSUME NEW S, NEW key, NEW id, NEW R, Sorts(R, S, key, id)
    PROVE  Orders(R, S)
<1>1. \A i \in S : key[i] \in Int /\ id[i] \in Int
  BY DEF Sorts
<1>2. \A i \in S : <<i, i>> \notin R
  BY <1>1 DEF Sorts
<1>3. ASSUME NEW i \in S, NEW j \in S, NEW k \in S, <<i, j>> \in R, <<j, k>> \in R
      PROVE  <<i, k>> \in R
  <2>1. /\ key[i] < key[j] \/ (key[i] = key[j] /\ id[i] < id[j])
        /\ key[j] < key[k] \/ (key[j] = key[k] /\ id[j] < id[k])
    BY <1>3 DEF Sorts
  <2>2. key[i] < key[k] \/ (key[i] = key[k] /\ id[i] < id[k])
    BY <1>1, <2>1
  <2> QED BY <2>2 DEF Sorts
<1>4. ASSUME NEW i \in S, NEW j \in S, i # j PROVE <<i, j>> \in R \/ <<j, i>> \in R
  <2>1. id[i] # id[j]
    BY <1>4 DEF Sorts
  <2>2. \/ key[i] < key[j] \/ (key[i] = key[j] /\ id[i] < id[j])
        \/ key[j] < key[i] \/ (key[j] = key[i] /\ id[j] < id[i])
    BY <1>1, <2>1
  <2> QED BY <2>2 DEF Sorts
<1> QED BY <1>2, <1>3, <1>4 DEF Orders

\* What Partitioned asks of the pages of a list.
SharesOut(pages, n, S, size) ==
    /\ \A p \in 1..n : Cardinality(pages[p]) \in 1..size
    /\ \A p, q \in 1..n : p # q => pages[p] \cap pages[q] = {}
    /\ UNION {pages[p] : p \in 1..n} = S
    /\ pages[n + 1] = {}

\* The pages of a list that some query orders totally, whatever the order.
LEMMA OrderedPagesShare ==
    ASSUME NEW S, IsFiniteSet(S), NEW R, Orders(R, S), NEW size \in Nat \ {0},
           NEW pages, pages = [p \in 1..TotalPages(Cardinality(S), size) + 1 |->
                                  Slice(RankBy(R, S), S, p, size)]
    PROVE  SharesOut(pages, TotalPages(Cardinality(S), size), S, size)
<1> DEFINE n == TotalPages(Cardinality(S), size)
           rk == RankBy(R, S)
<1>1. Numbers(rk, S)
  BY RanksNumber
<1> HIDE DEF n, rk
<1>2. /\ n \in Nat
      /\ \A p \in 1..n : Cardinality(Slice(rk, S, p, size)) \in 1..size
      /\ \A p, q \in 1..n : p # q => Slice(rk, S, p, size) \cap Slice(rk, S, q, size) = {}
      /\ \A x \in S : \E p \in 1..n : x \in Slice(rk, S, p, size)
      /\ Slice(rk, S, n + 1, size) = {}
  BY <1>1, SlicesShare DEF n
<1>3. \A p \in 1..n + 1 : pages[p] = Slice(rk, S, p, size)
  BY DEF n, rk
<1>4. 1..n \subseteq 1..n + 1 /\ n + 1 \in 1..n + 1
  BY <1>2
<1>5. \A p \in 1..n : pages[p] = Slice(rk, S, p, size)
  BY <1>3, <1>4
<1>6. \A p : Slice(rk, S, p, size) \subseteq S
  BY DEF Slice
<1>7. UNION {pages[p] : p \in 1..n} = S
  <2>1. \A p \in 1..n : pages[p] \subseteq S
    BY <1>5, <1>6
  <2>2. \A x \in S : \E p \in 1..n : x \in pages[p]
    BY <1>2, <1>5
  <2> QED BY <2>1, <2>2
<1> QED BY <1>2, <1>3, <1>4, <1>5, <1>7 DEF n, SharesOut

LEMMA InstancesOrdered ==
    ASSUME IInv, NEW field \in SortFields, NEW descending \in BOOLEAN, NEW V \in SUBSET DOMAIN inst,
           NEW R, \A i, j \in V : <<i, j>> \in R <=> InstanceBefore(field, descending, i, j)
    PROVE  Orders(R, V)
<1> DEFINE id == [i \in V |-> i]
<1>1. \A i \in V : i \in Int /\ inst[i] \in Instance
  BY NumbersAssumption DEF IInv, TypeOK
<1>2. ASSUME NEW i \in V PROVE SortKey(field, i) \in Int
  <2>1. inst[i] \in Instance
    BY <1>1
  <2>2. inst[i].status \in Statuses /\ inst[i].cpuUsage \in Int /\ inst[i].updatedAt \in Int
    <3>1. /\ inst[i].status \in Statuses /\ inst[i].cpuUsage \in CpuLevels
          /\ inst[i].updatedAt \in Nat
      BY <2>1 DEF Instance
    <3>2. CpuLevels \subseteq Int /\ Nat \subseteq Int
      BY NumbersAssumption
    <3> QED BY <3>1, <3>2
  <2>3. StatusOrder(inst[i].status) \in Int
    BY <2>2 DEF StatusOrder, Statuses
  <2>4. CASE field = "id"
    BY <1>1, <2>4 DEF SortKey
  <2>5. CASE field = "status"
    BY <2>3, <2>5 DEF SortKey
  <2>6. CASE field = "cpuUsage"
    BY <2>2, <2>6 DEF SortKey
  <2>7. CASE field = "updatedAt"
    BY <2>2, <2>7 DEF SortKey
  <2> QED BY <2>4, <2>5, <2>6, <2>7 DEF SortFields
<1>3. id \in [V -> Int] /\ \A i \in V : id[i] = i
  BY <1>1
<1> HIDE DEF id
<1>4. CASE descending
  <2> DEFINE key == [i \in V |-> -SortKey(field, i)]
  <2>1. key \in [V -> Int] /\ \A i \in V : key[i] = -SortKey(field, i)
    BY <1>2
  <2>2. \A i, j \in V : <<i, j>> \in R <=> \/ SortKey(field, i) > SortKey(field, j)
                                           \/ SortKey(field, i) = SortKey(field, j) /\ i < j
    BY <1>4 DEF InstanceBefore
  <2> HIDE DEF key
  <2>3. \A i, j \in V : <<i, j>> \in R <=> key[i] < key[j] \/ (key[i] = key[j] /\ id[i] < id[j])
    <3> SUFFICES ASSUME NEW i \in V, NEW j \in V
                 PROVE  <<i, j>> \in R <=> key[i] < key[j] \/ (key[i] = key[j] /\ id[i] < id[j])
      OBVIOUS
    <3>1. /\ SortKey(field, i) \in Int /\ SortKey(field, j) \in Int
          /\ key[i] = -SortKey(field, i) /\ key[j] = -SortKey(field, j)
          /\ id[i] = i /\ id[j] = j
      BY <1>2, <1>3, <2>1
    <3>2. /\ key[i] < key[j] <=> SortKey(field, i) > SortKey(field, j)
          /\ key[i] = key[j] <=> SortKey(field, i) = SortKey(field, j)
      BY <3>1
    <3> QED BY <2>2, <3>1, <3>2
  <2>4. Sorts(R, V, key, id)
    BY <1>3, <2>1, <2>3 DEF Sorts
  <2> QED BY <2>4, KeyThenIdOrders
<1>5. CASE ~descending
  <2> DEFINE key == [i \in V |-> SortKey(field, i)]
  <2>1. key \in [V -> Int] /\ \A i \in V : key[i] = SortKey(field, i)
    BY <1>2
  <2>2. \A i, j \in V : <<i, j>> \in R <=> \/ SortKey(field, i) < SortKey(field, j)
                                           \/ SortKey(field, i) = SortKey(field, j) /\ i < j
    BY <1>5 DEF InstanceBefore
  <2> HIDE DEF key
  <2>3. \A i, j \in V : <<i, j>> \in R <=> key[i] < key[j] \/ (key[i] = key[j] /\ id[i] < id[j])
    <3> SUFFICES ASSUME NEW i \in V, NEW j \in V
                 PROVE  <<i, j>> \in R <=> key[i] < key[j] \/ (key[i] = key[j] /\ id[i] < id[j])
      OBVIOUS
    <3>1. /\ key[i] = SortKey(field, i) /\ key[j] = SortKey(field, j)
          /\ id[i] = i /\ id[j] = j
      BY <1>3, <2>1
    <3> QED BY <2>2, <3>1
  <2>4. Sorts(R, V, key, id)
    BY <1>3, <2>1, <2>3 DEF Sorts
  <2> QED BY <2>4, KeyThenIdOrders
<1> QED BY <1>4, <1>5

LEMMA AlertsOrdered ==
    ASSUME IInv, NEW detectedAt \in DetectedAtColumns,
           NEW R, \A a, b \in alerts : <<a, b>> \in R <=> AlertBefore(detectedAt, a, b)
    PROVE  Orders(R, alerts)
<1> DEFINE key == [a \in alerts |-> -detectedAt[a]]
           id == [a \in alerts |-> -a.id]
<1>1. \A a \in alerts : a.id \in 1..MaxAlerts
  BY DEF IInv, TypeOK, Alert
<1>2. \A a \in alerts : a.id \in Int /\ detectedAt[a] \in Int
  <2>1. 1..MaxAlerts \subseteq Int /\ 0..now \subseteq Int
    BY DEF IInv, TypeOK
  <2> QED BY <1>1, <2>1 DEF DetectedAtColumns
<1>3. /\ key \in [alerts -> Int] /\ \A a \in alerts : key[a] = -detectedAt[a]
      /\ id \in [alerts -> Int] /\ \A a \in alerts : id[a] = -a.id
  BY <1>2
<1> HIDE DEF key, id
<1>4. \A a, b \in alerts : id[a] = id[b] => a = b
  <2>1. \A a, b \in alerts : id[a] = id[b] => a.id = b.id
    BY <1>2, <1>3
  <2> QED BY <2>1 DEF IInv, TypeOK, AlertIdsUnique
<1>5. \A a, b \in alerts : <<a, b>> \in R <=> key[a] < key[b] \/ (key[a] = key[b] /\ id[a] < id[b])
  <2> SUFFICES ASSUME NEW a \in alerts, NEW b \in alerts
               PROVE  <<a, b>> \in R <=> key[a] < key[b] \/ (key[a] = key[b] /\ id[a] < id[b])
    OBVIOUS
  <2>1. <<a, b>> \in R <=> IF detectedAt[a] = detectedAt[b] THEN a.id > b.id
                          ELSE detectedAt[a] > detectedAt[b]
    BY DEF AlertBefore
  <2>2. /\ detectedAt[a] \in Int /\ detectedAt[b] \in Int /\ a.id \in Int /\ b.id \in Int
        /\ key[a] = -detectedAt[a] /\ key[b] = -detectedAt[b] /\ id[a] = -a.id /\ id[b] = -b.id
    BY <1>2, <1>3
  <2> QED BY <2>1, <2>2
<1>6. Sorts(R, alerts, key, id)
  BY <1>3, <1>4, <1>5 DEF Sorts
<1> QED BY <1>6, KeyThenIdOrders

LEMMA TablesFinite ==
    ASSUME IInv
    PROVE  /\ \A V \in SUBSET DOMAIN inst : IsFiniteSet(V) /\ V \in SUBSET Nat
           /\ IsFiniteSet(alerts)
<1>1. IsFiniteSet(1..MaxInstances) /\ IsFiniteSet(1..MaxAlerts)
  <2>1. MaxInstances \in Int /\ MaxAlerts \in Int
    BY NumbersAssumption
  <2> QED BY <2>1, FS_Interval
<1>2. ASSUME NEW V \in SUBSET DOMAIN inst PROVE IsFiniteSet(V) /\ V \in SUBSET Nat
  <2>1. V \in SUBSET (1..MaxInstances)
    BY DEF IInv, TypeOK
  <2>2. IsFiniteSet(V)
    BY <1>1, <2>1, FS_Subset
  <2> QED BY <2>1, <2>2
<1>3. IsFiniteSet(alerts)
  <2> DEFINE f == [a \in alerts |-> a.id]
  <2>1. f \in Injection(alerts, 1..MaxAlerts)
    BY DEF IInv, TypeOK, Alert, AlertIdsUnique, Injection, IsInjective
  <2> QED BY <1>1, <2>1, FS_Injection
<1> QED BY <1>2, <1>3

\* Walking the pages of any list shows every row once, and a scan's page is that of the list
\* it is a scan of: every sort field and direction, every page size, ties or not.
LEMMA IInvPartitions == IInv => PagesPartition
<1> SUFFICES ASSUME IInv, NEW size \in Sizes
             PROVE
    /\ \A m \in Members, field \in SortFields, descending \in BOOLEAN :
          Partitioned(VisibleInstances(m),
                      LAMBDA i, j : InstanceBefore(field, descending, i, j), size)
    /\ \A detectedAt \in DetectedAtColumns :
          Partitioned(alerts, LAMBDA a, b : AlertBefore(detectedAt, a, b), size)
    /\ \A m \in Members, type \in AlertTypes, page \in 1..MaxInstances :
          ScanPage(Detected(m, type, now), page, size)
            = Page(Detected(m, type, now), <, page, size)
  BY DEF PagesPartition
<1>0. size \in Nat \ {0}
  BY SizesAssumption
<1>1. ASSUME NEW m \in Members, NEW field \in SortFields, NEW descending \in BOOLEAN
      PROVE  Partitioned(VisibleInstances(m),
                         LAMBDA i, j : InstanceBefore(field, descending, i, j), size)
  <2> DEFINE V == VisibleInstances(m)
             R == {e \in V \X V : InstanceBefore(field, descending, e[1], e[2])}
             n == TotalPages(Cardinality(V), size)
             pages == [p \in 1..n + 1 |->
                         Page(V, LAMBDA i, j : InstanceBefore(field, descending, i, j), p, size)]
  <2>1. V \in SUBSET DOMAIN inst
    BY DEF VisibleInstances
  <2> HIDE DEF V
  <2>2. \A i, j \in V : <<i, j>> \in R <=> InstanceBefore(field, descending, i, j)
    OBVIOUS
  <2> HIDE DEF R
  <2>3. Orders(R, V) /\ IsFiniteSet(V)
    BY <2>1, <2>2, InstancesOrdered, TablesFinite
  <2>4. ASSUME NEW p
        PROVE  Page(V, LAMBDA i, j : InstanceBefore(field, descending, i, j), p, size)
                 = Slice(RankBy(R, V), V, p, size)
    <3>1. \A x \in V : RankBy(R, V)[x] =
                           Cardinality({y \in V : InstanceBefore(field, descending, y, x)})
      <4> SUFFICES ASSUME NEW x \in V
                   PROVE  RankBy(R, V)[x] =
                              Cardinality({y \in V : InstanceBefore(field, descending, y, x)})
        OBVIOUS
      <4>1. {y \in V : <<y, x>> \in R} = {y \in V : InstanceBefore(field, descending, y, x)}
        BY <2>2
      <4> QED BY <4>1 DEF RankBy
    <3> QED BY <3>1 DEF Page, Rank, Slice
  <2>5. pages = [p \in 1..n + 1 |-> Slice(RankBy(R, V), V, p, size)]
    BY <2>4
  <2> HIDE DEF pages
  <2>6. SharesOut(pages, n, V, size)
    BY <1>0, <2>3, <2>5, OrderedPagesShare
  <2> QED BY <2>6 DEF Partitioned, SharesOut, pages, V
<1>2. ASSUME NEW detectedAt \in DetectedAtColumns
      PROVE  Partitioned(alerts, LAMBDA a, b : AlertBefore(detectedAt, a, b), size)
  <2> DEFINE R == {e \in alerts \X alerts : AlertBefore(detectedAt, e[1], e[2])}
             n == TotalPages(Cardinality(alerts), size)
             pages == [p \in 1..n + 1 |->
                         Page(alerts, LAMBDA a, b : AlertBefore(detectedAt, a, b), p, size)]
  <2>2. \A a, b \in alerts : <<a, b>> \in R <=> AlertBefore(detectedAt, a, b)
    OBVIOUS
  <2> HIDE DEF R
  <2>3. Orders(R, alerts) /\ IsFiniteSet(alerts)
    BY <2>2, AlertsOrdered, TablesFinite
  <2>4. ASSUME NEW p
        PROVE  Page(alerts, LAMBDA a, b : AlertBefore(detectedAt, a, b), p, size)
                 = Slice(RankBy(R, alerts), alerts, p, size)
    <3>1. \A x \in alerts : RankBy(R, alerts)[x] =
                                Cardinality({y \in alerts : AlertBefore(detectedAt, y, x)})
      <4> SUFFICES ASSUME NEW x \in alerts
                   PROVE  RankBy(R, alerts)[x] =
                              Cardinality({y \in alerts : AlertBefore(detectedAt, y, x)})
        OBVIOUS
      <4>1. {y \in alerts : <<y, x>> \in R} = {y \in alerts : AlertBefore(detectedAt, y, x)}
        BY <2>2
      <4> QED BY <4>1 DEF RankBy
    <3> QED BY <3>1 DEF Page, Rank, Slice
  <2>5. pages = [p \in 1..n + 1 |-> Slice(RankBy(R, alerts), alerts, p, size)]
    BY <2>4
  <2> HIDE DEF pages
  <2>6. SharesOut(pages, n, alerts, size)
    BY <1>0, <2>3, <2>5, OrderedPagesShare
  <2> QED BY <2>6 DEF Partitioned, SharesOut, pages
<1>3. ASSUME NEW m \in Members, NEW type \in AlertTypes, NEW page \in 1..MaxInstances
      PROVE  ScanPage(Detected(m, type, now), page, size)
               = Page(Detected(m, type, now), <, page, size)
  <2> DEFINE V == Detected(m, type, now)
  <2>1. V \in SUBSET DOMAIN inst
    BY DEF Detected
  <2> HIDE DEF V
  <2>2. V \in SUBSET Nat /\ IsFiniteSet(V)
    BY <2>1, TablesFinite
  <2>3. ScanPage(V, page, size) = {x \in V : Cardinality({y \in V : y < x}) \in Window(page, size)}
    BY <2>2, ScanTakesThePage
  <2> QED BY <2>3 DEF Page, Rank, Window, V
<1> QED BY <1>1, <1>2, <1>3

\* PagesPartition holds in every state the program reaches.
THEOREM PagesPartitionHolds == Spec => []PagesPartition
<1> QED BY IInvHolds, IInvPartitions, PTL
-------------------------------------------------------------------------------
(***************************************************************************)
(* Walking the default list of instances page by page.                     *)
(***************************************************************************)

\* Every instance belongs to a client that is there: no endpoint deletes a client.
ClientsExist == \A i \in DOMAIN inst : inst[i].clientId \in DOMAIN managerOf

\* What a request may do to clients and instances: clients keep their manager, an instance
\* its client, and a new instance comes after all there are.
Grown ==
    /\ \A c \in DOMAIN managerOf : c \in DOMAIN managerOf' /\ managerOf'[c] = managerOf[c]
    /\ \A x \in DOMAIN inst' :
          \/ x \in DOMAIN inst /\ inst'[x].clientId = inst[x].clientId
          \/ (\A i \in DOMAIN inst : i < x) /\ inst'[x].clientId \in DOMAIN managerOf'

LEMMA StepsGrow == ASSUME IInv, [Next]_vars PROVE Grown
<1>1. ASSUME UNCHANGED <<managerOf, inst>> PROVE Grown
  BY <1>1 DEF Grown
<1>2. ASSUME NEW m \in Members, RequestBy(m) PROVE Grown
  <2>1. ASSUME NEW manager \in Managers, CreateClient(m, manager) PROVE Grown
    <3>1. PICK c \in 1..MaxClients :
              /\ IsNextId(c, DOMAIN managerOf)
              /\ managerOf' = [d \in DOMAIN managerOf \cup {c} |->
                                  IF d = c THEN manager ELSE managerOf[d]]
      BY <2>1 DEF CreateClient
    <3>2. c \notin DOMAIN managerOf
      BY <3>1 DEF IsNextId
    <3> QED BY <2>1, <3>1, <3>2 DEF CreateClient, Grown
  <2>2. ASSUME NEW c \in 1..MaxClients, NEW status \in Statuses, NEW cpu \in CpuLevels,
               CreateInstance(m, c, status, cpu)
        PROVE  Grown
    <3>1. PICK n \in 1..MaxInstances, t \in Instants :
              /\ IsNextId(n, DOMAIN inst)
              /\ inst' = [j \in DOMAIN inst \cup {n} |->
                            IF j = n THEN [clientId |-> c, status |-> status,
                                           cpuUsage |-> cpu, updatedAt |-> t]
                                     ELSE inst[j]]
      BY <2>2 DEF CreateInstance
    <3>2. /\ n \notin DOMAIN inst /\ \A i \in DOMAIN inst : i < n
          /\ inst'[n].clientId = c /\ c \in DOMAIN managerOf /\ managerOf' = managerOf
      BY <2>2, <3>1 DEF IsNextId, CreateInstance, Scope
    <3>3. \A i \in DOMAIN inst' : i = n \/ (i \in DOMAIN inst /\ inst'[i] = inst[i])
      BY <3>1
    <3> QED BY <3>2, <3>3 DEF Grown
  <2>3. ASSUME NEW i \in DOMAIN inst, NEW status \in Statuses, NEW cpu \in CpuLevels \cup {NULL},
               UpdateStatus(m, i, status, cpu)
        PROVE  Grown
    <3>1. PICK t \in Instants : inst' = [inst EXCEPT ![i] = Applied(@, status, cpu, t)]
      BY <2>3 DEF UpdateStatus
    <3>2. inst'[i].clientId = inst[i].clientId /\ managerOf' = managerOf
      <4>1. inst[i] \in Instance /\ inst'[i] = Applied(inst[i], status, cpu, t)
        BY <3>1 DEF IInv, TypeOK
      <4>2. managerOf' = managerOf
        BY <2>3 DEF UpdateStatus
      <4> QED BY <4>1, <4>2 DEF Applied, Instance
    <3>3. \A j \in DOMAIN inst' : j = i \/ (j \in DOMAIN inst /\ inst'[j] = inst[j])
      BY <3>1
    <3>4. DOMAIN inst' = DOMAIN inst
      BY <3>1
    <3> QED BY <3>2, <3>3, <3>4 DEF Grown
  <2>4. ASSUME NEW i \in DOMAIN inst, DeleteInstance(m, i) PROVE Grown
    BY <2>4 DEF DeleteInstance, Grown
  <2>5. ASSUME NEW type \in AlertTypes, Scan(m, type) PROVE Grown
    BY <1>1, <2>5 DEF Scan
  <2>6. ASSUME NEW a \in alerts, ResolveAlert(m, a) PROVE Grown
    BY <1>1, <2>6 DEF ResolveAlert
  <2> QED BY <1>2, <2>1, <2>2, <2>3, <2>4, <2>5, <2>6 DEF RequestBy
<1> QED BY <1>1, <1>2 DEF Next, Tick, vars

RInv == IInv /\ ClientsExist

\* No instance is ever without its client.
THEOREM RInvHolds == Spec => []RInv
<1>1. Init => RInv
  BY InitIInv DEF Init, RInv, ClientsExist
<1>2. RInv /\ [Next]_vars => RInv'
  <2> SUFFICES ASSUME RInv, [Next]_vars PROVE RInv'
    OBVIOUS
  <2>1. IInv'
    BY NextIInv DEF RInv
  <2>2. ClientsExist'
    BY StepsGrow DEF RInv, ClientsExist, Grown
  <2> QED BY <2>1, <2>2 DEF RInv
<1> QED BY <1>1, <1>2, PTL DEF Spec

\* How many of the rows a member sees come before x in the default list.
Before(m, x) == Cardinality({y \in VisibleInstances(m) : y < x})

LEMMA FirstInstancesAre ==
    ASSUME IInv, NEW m, NEW n \in Nat
    PROVE  /\ VisibleInstances(m) \in SUBSET Nat /\ IsFiniteSet(VisibleInstances(m))
           /\ FirstInstances(m, n) = {x \in VisibleInstances(m) : Before(m, x) \in 0..n - 1}
<1>1. VisibleInstances(m) \in SUBSET (1..MaxInstances)
  BY DEF VisibleInstances, IInv, TypeOK
<1>2. IsFiniteSet(VisibleInstances(m)) /\ VisibleInstances(m) \in SUBSET Nat
  <2>1. IsFiniteSet(1..MaxInstances)
    BY FS_Interval, NumbersAssumption
  <2>2. IsFiniteSet(VisibleInstances(m))
    BY <1>1, <2>1, FS_Subset
  <2> QED BY <1>1, <2>2
<1>3. \A i, j \in Nat : InstanceBefore("id", FALSE, i, j) <=> i < j
  BY DEF InstanceBefore, SortKey
<1>4. FirstInstances(m, n) =
          {x \in VisibleInstances(m) :
              Cardinality({y \in VisibleInstances(m) : InstanceBefore("id", FALSE, y, x)})
                  \in (1 - 1) * n..(1 - 1) * n + n - 1}
  BY DEF FirstInstances, Page, Rank
<1>5. \A x \in VisibleInstances(m) :
          {y \in VisibleInstances(m) : InstanceBefore("id", FALSE, y, x)}
              = {y \in VisibleInstances(m) : y < x}
  BY <1>2, <1>3
<1>6. (1 - 1) * n = 0 /\ (1 - 1) * n + n - 1 = n - 1
  OBVIOUS
<1> QED BY <1>2, <1>4, <1>5, <1>6 DEF Before

\* The default list of instances is safe to walk: from one page to the next no row is shown
\* twice, and none that stays is missed unless a row was deleted (list_instances, paginate).
THEOREM WalkFaithfulHolds == Spec => WalkFaithful
<1> DEFINE Walk == \A m \in Members, n \in 1..MaxInstances :
                      LET seen == FirstInstances(m, n)
                          rest == (VisibleInstances(m) \ FirstInstances(m, n))'
                      IN  /\ seen \cap rest = {}
                          /\ VisibleInstances(m) \subseteq VisibleInstances(m)'
                                => VisibleInstances(m) \ seen \subseteq rest
<1> DEFINE FirstAre == \A m : \A n \in Nat :
              /\ VisibleInstances(m) \in SUBSET Nat /\ IsFiniteSet(VisibleInstances(m))
              /\ FirstInstances(m, n) = {x \in VisibleInstances(m) : Before(m, x) \in 0..n - 1}
<1>a. IInv => FirstAre
  BY FirstInstancesAre
<1>b. (IInv => FirstAre)'
  BY <1>a, PTL
<1>1. ASSUME RInv, RInv', [Next]_vars PROVE Walk
  <2> SUFFICES ASSUME NEW m \in Members, NEW n \in 1..MaxInstances
               PROVE  /\ FirstInstances(m, n) \cap (VisibleInstances(m)' \ FirstInstances(m, n)') = {}
                      /\ VisibleInstances(m) \subseteq VisibleInstances(m)'
                            => VisibleInstances(m) \ FirstInstances(m, n)
                                   \subseteq VisibleInstances(m)' \ FirstInstances(m, n)'
    OBVIOUS
  <2> DEFINE V == VisibleInstances(m)
             W == VisibleInstances(m)'
             Below(x) == {y \in V : y < x}
             BelowNow(x) == {y \in W : y < x}
  <2>1. n \in Nat
    BY NumbersAssumption
  <2>2. /\ V \in SUBSET Nat /\ IsFiniteSet(V)
        /\ FirstInstances(m, n) = {x \in V : Cardinality(Below(x)) \in 0..n - 1}
    BY <1>1, <2>1, FirstInstancesAre DEF RInv, Before
  <2>3. /\ W \in SUBSET Nat /\ IsFiniteSet(W)
        /\ FirstInstances(m, n)' = {x \in W : Cardinality(BelowNow(x)) \in 0..n - 1}
    BY <1>1, <1>b, <2>1 DEF RInv, Before
  <2>4. \A x \in W : x \in V \/ \A y \in V : y < x
    <3>1. Grown
      BY <1>1, StepsGrow DEF RInv
    <3>2. \A c \in DOMAIN managerOf : c \in Scope(m)' <=> c \in Scope(m)
      BY <3>1 DEF Grown, Scope
    <3> QED BY <1>1, <3>1, <3>2 DEF Grown, VisibleInstances, RInv, ClientsExist
  <2> HIDE DEF V, W
  <2>5. \A x : /\ IsFiniteSet(Below(x)) /\ Cardinality(Below(x)) \in Nat
               /\ IsFiniteSet(BelowNow(x)) /\ Cardinality(BelowNow(x)) \in Nat
    <3> TAKE x
    <3>1. Below(x) \in SUBSET V /\ BelowNow(x) \in SUBSET W
      OBVIOUS
    <3> HIDE DEF Below, BelowNow
    <3> QED BY <2>2, <2>3, <3>1, FS_Subset, FS_CardinalityType
  <2>6. ASSUME NEW x \in V PROVE BelowNow(x) \subseteq Below(x)
    <3>1. ASSUME NEW y \in W, y < x PROVE y \in V
      <4>1. x \in Nat /\ y \in Nat
        BY <2>2, <2>3
      <4>2. ~(x < y)
        BY <3>1, <4>1
      <4> QED BY <2>4, <4>2
    <3> QED BY <3>1
  <2>7. ASSUME NEW x \in V PROVE Cardinality(BelowNow(x)) <= Cardinality(Below(x))
    <3> HIDE DEF Below, BelowNow
    <3> QED BY <2>5, <2>6, FS_Subset
  <2>8. ASSUME V \subseteq W, NEW x \in V PROVE Cardinality(Below(x)) <= Cardinality(BelowNow(x))
    <3>1. Below(x) \in SUBSET BelowNow(x)
      BY <2>8
    <3> HIDE DEF Below, BelowNow
    <3> QED BY <2>5, <3>1, FS_Subset
  <2>9. FirstInstances(m, n) \cap (W \ FirstInstances(m, n)') = {}
    <3> SUFFICES ASSUME NEW x \in FirstInstances(m, n), x \in W PROVE x \in FirstInstances(m, n)'
      OBVIOUS
    <3>1. x \in V /\ Cardinality(Below(x)) \in 0..n - 1
      BY <2>2
    <3>2. Cardinality(BelowNow(x)) <= Cardinality(Below(x))
      BY <2>7, <3>1
    <3>3. Cardinality(BelowNow(x)) \in 0..n - 1
      <4> HIDE DEF Below, BelowNow
      <4> QED BY <2>1, <2>5, <3>1, <3>2
    <3> QED BY <2>3, <3>3
  <2>10. V \subseteq W => V \ FirstInstances(m, n) \subseteq W \ FirstInstances(m, n)'
    <3> SUFFICES ASSUME V \subseteq W, NEW x \in V, x \notin FirstInstances(m, n)
                 PROVE  x \notin FirstInstances(m, n)'
      OBVIOUS
    <3>1. Cardinality(Below(x)) \notin 0..n - 1
      BY <2>2
    <3>2. Cardinality(Below(x)) <= Cardinality(BelowNow(x))
      BY <2>8
    <3>3. Cardinality(BelowNow(x)) \notin 0..n - 1
      <4> HIDE DEF Below, BelowNow
      <4> QED BY <2>1, <2>5, <3>1, <3>2
    <3> QED BY <2>3, <3>3
  <2> QED BY <2>9, <2>10 DEF V, W
<1>2. RInv /\ RInv' /\ [Next]_vars => [Walk]_vars
  BY <1>1
<1> QED BY <1>2, RInvHolds, PTL DEF Spec, WalkFaithful
-------------------------------------------------------------------------------
(***************************************************************************)
(* Sums over sets.  The sum of the natural numbers w[x] over S is the      *)
(* number of pairs <<x, k>> with k in 1..w[x] (Total), so that what is     *)
(* known of cardinalities answers what there is to ask of sums.            *)
(***************************************************************************)

\* What holds of the empty set, and of a set if it does without some member, holds of S.
LEMMA ByRemoving ==
    ASSUME NEW S, IsFiniteSet(S), NEW Good, {} \in Good,
           \A T \in SUBSET S : T # {} => \E x \in T : T \ {x} \in Good => T \in Good
    PROVE  S \in Good
<1> DEFINE Bad == {T \in SUBSET S : T \notin Good}
<1> SUFFICES ASSUME S \notin Good PROVE FALSE
  OBVIOUS
<1>1. IsWellFoundedOn(StrictSubsetOrdering(S), FiniteSubsetsOf(S))
  BY FS_StrictSubsetOrderingWellFounded
<1>2. Bad \subseteq FiniteSubsetsOf(S) /\ Bad # {}
  <2>1. \A T \in SUBSET S : IsFiniteSet(T)
    BY FS_Subset
  <2> QED BY <2>1 DEF FiniteSubsetsOf
<1> HIDE DEF Bad
<1>3. PICK T \in Bad : \A U \in Bad : <<U, T>> \notin StrictSubsetOrdering(S)
  BY <1>1, <1>2, WFMin
<1>4. T \in SUBSET S /\ T \notin Good /\ T # {}
  BY <1>3 DEF Bad
<1>5. PICK x \in T : T \ {x} \in Good => T \in Good
  BY <1>4
<1>6. <<T \ {x}, T>> \in StrictSubsetOrdering(S)
  BY <1>4 DEF StrictSubsetOrdering
<1>7. T \ {x} \notin Bad
  BY <1>3, <1>6
<1> QED BY <1>4, <1>5, <1>7 DEF Bad

Area(w, S) == {p \in S \X Nat : p[2] \in 1..w[p[1]]}

Total(w, S) == Cardinality(Area(w, S))

LEMMA Column ==
    ASSUME NEW x, NEW n \in Nat
    PROVE  IsFiniteSet({x} \X (1..n)) /\ Cardinality({x} \X (1..n)) = n
<1>1. IsFiniteSet({x}) /\ Cardinality({x}) = 1
  BY FS_Singleton
<1>2. IsFiniteSet(1..n) /\ Cardinality(1..n) = n
  BY FS_Interval
<1>3. IsFiniteSet({x} \X (1..n)) /\ Cardinality({x} \X (1..n)) = Cardinality({x}) * Cardinality(1..n)
  BY <1>1, <1>2, FS_Product
<1> QED BY <1>1, <1>2, <1>3

\* One element more adds its number.
LEMMA AreaGrows ==
    ASSUME NEW T, NEW w \in [T -> Nat], NEW x \in T, IsFiniteSet(Area(w, T \ {x}))
    PROVE  IsFiniteSet(Area(w, T)) /\ Total(w, T) = w[x] + Total(w, T \ {x})
<1> DEFINE A == Area(w, T \ {x})
           C == {x} \X (1..w[x])
<1>1. w[x] \in Nat
  OBVIOUS
<1>2. Area(w, T) = A \cup C /\ A \cap C = {}
  BY <1>1 DEF Area
<1>3. IsFiniteSet(C) /\ Cardinality(C) = w[x]
  BY <1>1, Column
<1> HIDE DEF A, C
<1>4. /\ IsFiniteSet(A \cup C)
      /\ Cardinality(A \cup C) = Cardinality(A) + Cardinality(C) - Cardinality(A \cap C)
  BY <1>3, FS_Union DEF A
<1>5. Cardinality(A \cap C) = 0 /\ Cardinality(A) \in Nat
  BY <1>2, FS_EmptySet, FS_CardinalityType DEF A
<1> QED BY <1>1, <1>2, <1>3, <1>4, <1>5 DEF Total, A

LEMMA AreaFinite ==
    ASSUME NEW S, IsFiniteSet(S), NEW w \in [S -> Nat]
    PROVE  IsFiniteSet(Area(w, S)) /\ Total(w, S) \in Nat
<1> DEFINE Good == {T \in SUBSET S : IsFiniteSet(Area(w, T))}
<1>1. Area(w, {}) = {}
  BY DEF Area
<1>2. {} \in Good
  BY <1>1, FS_EmptySet
<1>3. ASSUME NEW T \in SUBSET S, NEW x \in T, T \ {x} \in Good PROVE T \in Good
  <2> DEFINE v == [y \in T |-> w[y]]
  <2>1. v \in [T -> Nat]
    OBVIOUS
  <2>2. Area(v, T) = Area(w, T) /\ Area(v, T \ {x}) = Area(w, T \ {x})
    BY DEF Area
  <2> HIDE DEF v
  <2>3. IsFiniteSet(Area(v, T))
    BY <1>3, <2>1, <2>2, AreaGrows
  <2> QED BY <2>2, <2>3
<1>4. S \in Good
  <2> HIDE DEF Good
  <2> QED BY <1>2, <1>3, ByRemoving
<1> QED BY <1>4, FS_CardinalityType DEF Total

Some(s) == CHOOSE x \in s : TRUE

\* What MapThenSumSet defines by recursion over the subsets of S.
Sums(w, S, it) == [s \in SUBSET S |-> IF s = {} THEN 0 ELSE w[Some(s)] + it[s \ {Some(s)}]]

LEMMA PartTotal ==
    ASSUME NEW S, IsFiniteSet(S), NEW w \in [S -> Nat], NEW T \in SUBSET S, T # {}
    PROVE  Some(T) \in T /\ Total(w, T) = w[Some(T)] + Total(w, T \ {Some(T)})
<1> DEFINE x == Some(T)
           v == [y \in T |-> w[y]]
           u == [y \in T \ {x} |-> w[y]]
<1>1. x \in T
  BY DEF Some
<1> HIDE DEF x
<1>2. v \in [T -> Nat] /\ v[x] = w[x] /\ u \in [T \ {x} -> Nat] /\ IsFiniteSet(T \ {x})
  BY <1>1, FS_Subset
<1>3. Area(v, T) = Area(w, T) /\ Area(v, T \ {x}) = Area(w, T \ {x}) /\ Area(u, T \ {x}) = Area(w, T \ {x})
  BY DEF Area
<1> HIDE DEF v, u
<1>4. IsFiniteSet(Area(v, T \ {x}))
  BY <1>2, <1>3, AreaFinite
<1>5. Total(v, T) = v[x] + Total(v, T \ {x})
  BY <1>1, <1>2, <1>4, AreaGrows
<1> QED BY <1>1, <1>2, <1>3, <1>5 DEF Total, x

LEMMA SumsToTotal ==
    ASSUME NEW S, IsFiniteSet(S), NEW w \in [S -> Nat]
    PROVE  /\ \A it : it = Sums(w, S, it) => it[S] = Total(w, S)
           /\ \E it : it = Sums(w, S, it)
<1>1. Total(w, {}) = 0
  <2>1. Area(w, {}) = {}
    BY DEF Area
  <2> QED BY <2>1, FS_EmptySet DEF Total
<1>2. ASSUME NEW it, it = Sums(w, S, it) PROVE it[S] = Total(w, S)
  <2> DEFINE Good == {T \in SUBSET S : it[T] = Total(w, T)}
  <2>1. \A T \in SUBSET S : it[T] = IF T = {} THEN 0 ELSE w[Some(T)] + it[T \ {Some(T)}]
    BY <1>2 DEF Sums
  <2>2. {} \in Good
    BY <1>1, <2>1
  <2>3. ASSUME NEW T \in SUBSET S, T # {} PROVE \E x \in T : T \ {x} \in Good => T \in Good
    <3>1. Some(T) \in T /\ Total(w, T) = w[Some(T)] + Total(w, T \ {Some(T)})
      BY <2>3, PartTotal
    <3>2. it[T] = w[Some(T)] + it[T \ {Some(T)}]
      BY <2>1, <2>3
    <3> QED BY <3>1, <3>2
  <2>4. S \in Good
    <3> HIDE DEF Good
    <3> QED BY <2>2, <2>3, ByRemoving
  <2> QED BY <2>4
<1>3. \E it : it = Sums(w, S, it)
  <2> DEFINE it == [s \in SUBSET S |-> Total(w, s)]
  <2>1. ASSUME NEW s \in SUBSET S
        PROVE  it[s] = IF s = {} THEN 0 ELSE w[Some(s)] + it[s \ {Some(s)}]
    <3>1. CASE s = {}
      BY <1>1, <3>1
    <3>2. CASE s # {}
      <4>1. Some(s) \in s /\ Total(w, s) = w[Some(s)] + Total(w, s \ {Some(s)})
        BY <3>2, PartTotal
      <4>2. s \ {Some(s)} \in SUBSET S
        OBVIOUS
      <4> QED BY <3>2, <4>1, <4>2
    <3> QED BY <3>1, <3>2
  <2>2. it = Sums(w, S, it)
    BY <2>1 DEF Sums
  <2> QED BY <2>2
<1> QED BY <1>2, <1>3

LEMMA MoreIsMore ==
    ASSUME NEW S, IsFiniteSet(S), NEW w \in [S -> Nat], NEW v \in [S -> Nat],
           \A x \in S : w[x] <= v[x]
    PROVE  Total(w, S) <= Total(v, S)
<1>1. Area(w, S) \in SUBSET Area(v, S)
  <2>1. \A x \in S : 1..w[x] \subseteq 1..v[x]
    OBVIOUS
  <2> QED BY <2>1 DEF Area
<1>2. IsFiniteSet(Area(v, S))
  BY AreaFinite
<1> QED BY <1>1, <1>2, FS_Subset DEF Total

\* The elements of a set counted apart, by where g puts them, add up to all of them.
LEMMA PartsCount ==
    ASSUME NEW A, IsFiniteSet(A), NEW T, IsFiniteSet(T), NEW g \in [A -> T],
           NEW w, w = [t \in T |-> Cardinality({a \in A : g[a] = t})]
    PROVE  w \in [T -> Nat] /\ Total(w, T) = Cardinality(A)
<1> DEFINE Part(t) == {a \in A : g[a] = t}
<1>1. ASSUME NEW t \in T PROVE IsFiniteSet(Part(t)) /\ Cardinality(Part(t)) \in Nat
  <2>1. Part(t) \in SUBSET A
    OBVIOUS
  <2> HIDE DEF Part
  <2> QED BY <2>1, FS_Subset, FS_CardinalityType
<1>2. w \in [T -> Nat] /\ \A t \in T : w[t] = Cardinality(Part(t))
  BY <1>1
<1>3. \A t \in T : \E b : b \in Bijection(1..w[t], Part(t))
  <2> HIDE DEF Part
  <2> QED BY <1>1, <1>2, FS_CardinalityType DEF ExistsBijection
<1> DEFINE nth == [t \in T |-> CHOOSE b : b \in Bijection(1..w[t], Part(t))]
<1>4. \A t \in T : nth[t] \in Bijection(1..w[t], Part(t))
  <2> HIDE DEF Part
  <2> QED BY <1>3
<1> HIDE DEF nth
<1>5. \A t \in T : /\ \A k \in 1..w[t] : nth[t][k] \in A /\ g[nth[t][k]] = t
                   /\ \A k, n \in 1..w[t] : nth[t][k] = nth[t][n] => k = n
                   /\ \A a \in A : g[a] = t => \E k \in 1..w[t] : nth[t][k] = a
  <2> TAKE t \in T
  <2>1. nth[t] \in Bijection(1..w[t], Part(t))
    BY <1>4
  <2> HIDE DEF Part
  <2>2. /\ nth[t] \in [1..w[t] -> Part(t)]
        /\ \A k, n \in 1..w[t] : nth[t][k] = nth[t][n] => k = n
        /\ \A a \in Part(t) : \E k \in 1..w[t] : nth[t][k] = a
    BY <2>1 DEF Bijection, Injection, Surjection, IsInjective
  <2> USE DEF Part
  <2> QED BY <2>2
<1> DEFINE f == [p \in Area(w, T) |-> nth[p[1]][p[2]]]
<1>6. \A p \in Area(w, T) : p[1] \in T /\ p[2] \in 1..w[p[1]] /\ p = <<p[1], p[2]>>
  BY DEF Area
<1> HIDE DEF Part
<1>7. f \in [Area(w, T) -> A]
  <2>1. \A p \in Area(w, T) : nth[p[1]][p[2]] \in A
    BY <1>5, <1>6
  <2> QED BY <2>1
<1>8. ASSUME NEW p \in Area(w, T), NEW q \in Area(w, T), f[p] = f[q] PROVE p = q
  <2> DEFINE t == p[1]
             k == p[2]
             u == q[1]
             n == q[2]
  <2>1. f[p] = nth[t][k] /\ f[q] = nth[u][n]
    OBVIOUS
  <2>2. t \in T /\ k \in 1..w[t] /\ u \in T /\ n \in 1..w[u] /\ p = <<t, k>> /\ q = <<u, n>>
    BY <1>6
  <2> HIDE DEF f, t, k, u, n
  <2>3. t = u
    <3>1. g[nth[t][k]] = t /\ g[nth[u][n]] = u
      BY <1>5, <2>2
    <3> QED BY <1>8, <2>1, <3>1
  <2>4. k = n
    <3>1. n \in 1..w[t] /\ nth[t][k] = nth[t][n]
      BY <1>8, <2>1, <2>2, <2>3
    <3> QED BY <1>5, <2>2, <3>1
  <2> QED BY <2>2, <2>3, <2>4
<1>9. ASSUME NEW a \in A PROVE \E p \in Area(w, T) : f[p] = a
  <2>1. PICK k \in 1..w[g[a]] : nth[g[a]][k] = a
    BY <1>5
  <2>2. <<g[a], k>> \in Area(w, T)
    BY <1>2 DEF Area
  <2> QED BY <2>1, <2>2
<1>10. f \in Bijection(Area(w, T), A)
  BY <1>7, <1>8, <1>9 DEF Bijection, Injection, Surjection, IsInjective
<1> HIDE DEF f
<1>11. IsFiniteSet(Area(w, T))
  BY <1>2, AreaFinite
<1>12. Cardinality(A) = Cardinality(Area(w, T))
  BY <1>10, <1>11, FS_Bijection DEF ExistsBijection
<1> QED BY <1>2, <1>12 DEF Total
-------------------------------------------------------------------------------
(***************************************************************************)
(* Division, rounding and means: an instance is credited at least what it  *)
(* earned, so the mean of the credits is at least that of what was earned. *)
(***************************************************************************)

\* The larger of two numbers has the larger quotient, or the same.
LEMMA QuotientsCompare ==
    ASSUME NEW d \in Nat \ {0}, NEW p \in Nat, NEW q \in Nat, NEW r \in 0..d - 1, NEW s \in 0..d - 1,
           d * p + r <= d * q + s
    PROVE  p <= q
<1> SUFFICES ASSUME q < p PROVE FALSE
  OBVIOUS
<1> DEFINE k == p - q - 1
           x == d * q
           y == d * k
<1>1. k \in Nat /\ p = q + 1 + k
  OBVIOUS
<1> HIDE DEF k
<1>2. d * p = x + d + y
  BY <1>1
<1>3. x \in Nat /\ y \in Nat
  BY <1>1
<1> HIDE DEF x, y
<1>4. x + d + y + r <= x + s
  BY <1>2 DEF x
<1> QED BY <1>3, <1>4

LEMMA Quotient ==
    ASSUME NEW a \in Nat, NEW d \in Nat \ {0}
    PROVE  a \div d \in Nat /\ a % d \in 0..d - 1 /\ a = d * (a \div d) + (a % d)
<1>1. a \div d \in Nat
  OBVIOUS
<1>2. a % d \in 0..d - 1
  OBVIOUS
<1>3. a = d * (a \div d) + (a % d)
  OBVIOUS
<1> QED BY <1>1, <1>2, <1>3

LEMMA DivisionIsMonotone ==
    ASSUME NEW a \in Nat, NEW b \in Nat, a <= b, NEW d \in Nat \ {0}
    PROVE  a \div d \in Nat /\ b \div d \in Nat /\ a \div d <= b \div d
<1> DEFINE p == a \div d
           q == b \div d
           r == a % d
           s == b % d
<1>1. /\ p \in Nat /\ r \in 0..d - 1 /\ a = d * p + r
      /\ q \in Nat /\ s \in 0..d - 1 /\ b = d * q + s
  BY Quotient
<1> HIDE DEF p, q, r, s
<1>2. p <= q
  BY <1>1, QuotientsCompare
<1> QED BY <1>1, <1>2 DEF p, q

\* A whole divisor more is one more in the quotient.
LEMMA OneMoreWhole ==
    ASSUME NEW a \in Nat, NEW d \in Nat \ {0}
    PROVE  a \div d \in Nat /\ (a + d) \div d = a \div d + 1
<1> DEFINE p == a \div d
           q == (a + d) \div d
           r == a % d
           s == (a + d) % d
<1>1. p \in Nat /\ r \in 0..d - 1 /\ a = d * p + r
  BY Quotient
<1>2. q \in Nat /\ s \in 0..d - 1 /\ a + d = d * q + s
  <2>1. a + d \in Nat
    OBVIOUS
  <2> QED BY <2>1, Quotient
<1> HIDE DEF p, q, r, s
<1>3. d * (p + 1) + r = d * q + s
  <2>1. d * (p + 1) = d * p + d /\ d * p \in Nat /\ d * q \in Nat
    BY <1>1, <1>2
  <2> QED BY <1>1, <1>2, <2>1
<1>4. d * (p + 1) + r <= d * q + s /\ d * q + s <= d * (p + 1) + r
  <2>1. d * (p + 1) \in Nat
    BY <1>1
  <2> QED BY <1>1, <1>2, <1>3, <2>1
<1>5. p + 1 <= q /\ q <= p + 1
  <2>1. p + 1 \in Nat
    BY <1>1
  <2> QED BY <1>1, <1>2, <1>4, <2>1, QuotientsCompare
<1> QED BY <1>1, <1>2, <1>5 DEF p, q

LEMMA RoundingIsMonotone ==
    ASSUME NEW a \in Nat, NEW b \in Nat, a <= b, NEW d \in Nat \ {0}
    PROVE  Rounded(a, d) \in Nat /\ Rounded(b, d) \in Nat /\ Rounded(a, d) <= Rounded(b, d)
<1>1. 2 * a + d \in Nat /\ 2 * b + d \in Nat /\ 2 * a + d <= 2 * b + d /\ 2 * d \in Nat \ {0}
  OBVIOUS
<1> QED BY <1>1, DivisionIsMonotone DEF Rounded

LEMMA PercentIsMonotone ==
    ASSUME NEW a \in Nat, NEW b \in Nat, a <= b, NEW total \in Nat \ {0}
    PROVE  /\ Percent(a, total) \in Nat /\ Percent(b, total) \in Nat
           /\ Percent(a, total) <= Percent(b, total)
<1>1. /\ 100000 * Smaller(a, total) \in Nat /\ 100000 * Smaller(b, total) \in Nat
      /\ 100000 * Smaller(a, total) <= 100000 * Smaller(b, total)
  BY DEF Smaller
<1> QED BY <1>1, RoundingIsMonotone DEF Percent

CreditedPercent(t) ==
    [i \in Measured(DOMAIN inst, t) |->
        Percent(UpTime(inst[i], launched[i], t), TotalTime(launched[i], t))]

EarnedPercent(t) ==
    [i \in Measured(DOMAIN inst, t) |->
        Percent(Larger(ReallyUp(i, t) - MaxLatency, 0), TotalTime(launched[i], t))]

\* Instance by instance, at least what it earned is credited.
LEMMA EarnedIsCredited ==
    ASSUME UInv, NEW t \in AnswerTimes, NEW i \in Measured(DOMAIN inst, t)
    PROVE  /\ EarnedPercent(t)[i] \in Nat /\ CreditedPercent(t)[i] \in Nat
           /\ EarnedPercent(t)[i] <= CreditedPercent(t)[i]
<1> DEFINE up == UpTime(inst[i], launched[i], t)
           real == ReallyUp(i, t)
           forgiven == Forgiven(i, t)
           total == TotalTime(launched[i], t)
<1>1. MaxLatency \in Nat /\ t \in Nat /\ i \in DOMAIN inst /\ Watched(i) /\ inst[i].updatedAt \in Nat
  BY NumbersAssumption DEF UInv, Measured, AnswerTimes, IInv, TypeOK, Instance
<1>2. launched[i] \in Nat /\ MonthStart(t) \in Int
  BY <1>1, MonthStartsAtAnInstant DEF Watched
<1>3. total \in Nat \ {0} /\ WindowStart(launched[i], t) \in Int
  BY <1>1, <1>2 DEF TotalTime, WindowStart, Larger, Measured
<1>4. real \in Nat /\ forgiven \in Nat
  <2>1. IsFiniteSet(0..now) /\ IsFiniteSet(0..edited[i] - 1)
    <3>1. now \in Int /\ edited[i] - 1 \in Int
      BY <1>1 DEF UInv, IInv, TypeOK, Watched
    <3> QED BY <3>1, FS_Interval
  <2>2. {s \in ran[i] : s >= WindowStart(launched[i], t)} \in SUBSET (0..now)
    BY <1>1 DEF UInv, IInv, TypeOK, Watched
  <2>3. {s \in 0..edited[i] - 1 : s >= WindowStart(launched[i], t) /\ s \notin ran[i]}
            \in SUBSET (0..edited[i] - 1)
    OBVIOUS
  <2> QED BY <2>1, <2>2, <2>3, FS_Subset, FS_CardinalityType DEF ReallyUp, Forgiven
<1>5. up \in Nat
  BY <1>1, <1>2, <1>3 DEF UpTime, Larger, Smaller
<1>6. up - real - forgiven \in -MaxLatency..MaxLatency
  BY UInvExplainsCredit DEF CreditExplained
<1> HIDE DEF up, real, forgiven, total
<1>7. Larger(real - MaxLatency, 0) \in Nat /\ Larger(real - MaxLatency, 0) <= up
  BY <1>1, <1>4, <1>5, <1>6 DEF Larger
<1>8. /\ EarnedPercent(t)[i] = Percent(Larger(real - MaxLatency, 0), total)
      /\ CreditedPercent(t)[i] = Percent(up, total)
  BY DEF EarnedPercent, CreditedPercent, up, real, total
<1> QED BY <1>3, <1>5, <1>7, <1>8, PercentIsMonotone

\* The two means the property compares.
Mean(w, S) == IF S = {} THEN 100000 ELSE Rounded(Total(w, S), Cardinality(S))

LEMMA MeansAreTotals ==
    ASSUME UInv, NEW t \in AnswerTimes, NEW ids \in SUBSET DOMAIN inst
    PROVE  /\ Credited(ids, t) = Mean(CreditedPercent(t), Measured(ids, t))
           /\ Earned(ids, t) = Mean(EarnedPercent(t), Measured(ids, t))
<1> DEFINE S == Measured(ids, t)
           cr == [i \in S |-> CreditedPercent(t)[i]]
           er == [i \in S |-> EarnedPercent(t)[i]]
<1>1. S \subseteq Measured(DOMAIN inst, t) /\ IsFiniteSet(S)
  <2>1. S \in SUBSET DOMAIN inst
    BY DEF Measured
  <2>2. IsFiniteSet(S)
    BY <2>1, TablesFinite DEF UInv
  <2> QED BY <2>2 DEF Measured
<1>2. cr \in [S -> Nat] /\ er \in [S -> Nat]
  BY <1>1, EarnedIsCredited
<1>3. Total(cr, S) = Total(CreditedPercent(t), S) /\ Total(er, S) = Total(EarnedPercent(t), S)
  BY <1>1 DEF Total, Area
<1>4. /\ \A i \in S : cr[i] = Percent(UpTime(inst[i], launched[i], t), TotalTime(launched[i], t))
      /\ \A i \in S : er[i] = Percent(Larger(ReallyUp(i, t) - MaxLatency, 0), TotalTime(launched[i], t))
  BY <1>1 DEF CreditedPercent, EarnedPercent
<1> HIDE DEF S, cr, er
<1>5. MapThenSumSet(LAMBDA i : Percent(UpTime(inst[i], launched[i], t), TotalTime(launched[i], t)), S)
          = Total(cr, S)
  <2> DEFINE sums(it) == [s \in SUBSET S |->
                IF s = {} THEN 0
                ELSE Percent(UpTime(inst[Some(s)], launched[Some(s)], t), TotalTime(launched[Some(s)], t))
                     + it[s \ {Some(s)}]]
  <2>1. MapThenSumSet(LAMBDA i : Percent(UpTime(inst[i], launched[i], t), TotalTime(launched[i], t)), S)
            = (CHOOSE it : it = sums(it))[S]
    BY DEF MapThenSumSet, MapThenFoldSet, Some
  <2>2. \A it : sums(it) = Sums(cr, S, it)
    <3> TAKE it
    <3>1. \A s \in SUBSET S : s # {} => Some(s) \in S
      BY DEF Some
    <3> QED BY <1>4, <3>1 DEF Sums
  <2> HIDE DEF sums
  <2>3. (CHOOSE it : it = sums(it)) = sums(CHOOSE it : it = sums(it))
    BY <1>1, <1>2, <2>2, SumsToTotal
  <2> QED BY <1>1, <1>2, <2>1, <2>2, <2>3, SumsToTotal
<1>6. MapThenSumSet(LAMBDA i : Percent(Larger(ReallyUp(i, t) - MaxLatency, 0), TotalTime(launched[i], t)), S)
          = Total(er, S)
  <2> DEFINE sums(it) == [s \in SUBSET S |->
                IF s = {} THEN 0
                ELSE Percent(Larger(ReallyUp(Some(s), t) - MaxLatency, 0), TotalTime(launched[Some(s)], t))
                     + it[s \ {Some(s)}]]
  <2>1. MapThenSumSet(LAMBDA i : Percent(Larger(ReallyUp(i, t) - MaxLatency, 0), TotalTime(launched[i], t)), S)
            = (CHOOSE it : it = sums(it))[S]
    BY DEF MapThenSumSet, MapThenFoldSet, Some
  <2>2. \A it : sums(it) = Sums(er, S, it)
    <3> TAKE it
    <3>1. \A s \in SUBSET S : s # {} => Some(s) \in S
      BY DEF Some
    <3> QED BY <1>4, <3>1 DEF Sums
  <2> HIDE DEF sums
  <2>3. (CHOOSE it : it = sums(it)) = sums(CHOOSE it : it = sums(it))
    BY <1>1, <1>2, <2>2, SumsToTotal
  <2> QED BY <1>1, <1>2, <2>1, <2>2, <2>3, SumsToTotal
<1> QED BY <1>3, <1>5, <1>6 DEF Credited, Earned, MeanUptime, Mean, S

LEMMA UInvClearsNobody == UInv => NoFalseAlarm
<1> SUFFICES ASSUME UInv, NEW c \in DOMAIN managerOf, NEW t \in AnswerTimes,
                    NEW ids, ids = {i \in DOMAIN inst : inst[i].clientId = c},
                    IsViolation(Credited(ids, t))
             PROVE  IsViolation(Earned(ids, t))
  BY DEF NoFalseAlarm
<1> DEFINE S == Measured(ids, t)
           cr == [i \in S |-> CreditedPercent(t)[i]]
           er == [i \in S |-> EarnedPercent(t)[i]]
<1>1. S \subseteq Measured(DOMAIN inst, t) /\ IsFiniteSet(S)
  <2>1. S \in SUBSET DOMAIN inst
    BY DEF Measured
  <2>2. IsFiniteSet(S)
    BY <2>1, TablesFinite DEF UInv
  <2> QED BY <2>2 DEF Measured
<1>2. cr \in [S -> Nat] /\ er \in [S -> Nat] /\ \A i \in S : er[i] <= cr[i]
  BY <1>1, EarnedIsCredited
<1>3. Total(cr, S) = Total(CreditedPercent(t), S) /\ Total(er, S) = Total(EarnedPercent(t), S)
  BY <1>1 DEF Total, Area
<1>4. Credited(ids, t) = Mean(CreditedPercent(t), S) /\ Earned(ids, t) = Mean(EarnedPercent(t), S)
  BY MeansAreTotals
<1> HIDE DEF S, cr, er
<1>5. Total(er, S) \in Nat /\ Total(cr, S) \in Nat /\ Total(er, S) <= Total(cr, S)
  BY <1>1, <1>2, AreaFinite, MoreIsMore
<1>6. /\ Mean(CreditedPercent(t), S) \in Nat /\ Mean(EarnedPercent(t), S) \in Nat
      /\ Mean(EarnedPercent(t), S) <= Mean(CreditedPercent(t), S)
  <2>1. CASE S = {}
    BY <2>1 DEF Mean
  <2>2. CASE S # {}
    <3>1. Cardinality(S) \in Nat \ {0}
      BY <1>1, <2>2, FS_EmptySet, FS_CardinalityType
    <3> QED BY <1>3, <1>5, <2>2, <3>1, RoundingIsMonotone DEF Mean
  <2> QED BY <2>1, <2>2
<1> QED BY <1>4, <1>6, CalendarAssumption DEF IsViolation

\* No client is reported in violation of its contract that a full status history would
\* clear: a mean, rounded twice and taken over whatever instances were launched by then,
\* is at least the same mean over the time they really ran.
THEOREM NoFalseAlarmHolds == SSpec => []NoFalseAlarm
<1> QED BY UInvHolds, UInvClearsNobody, PTL
-------------------------------------------------------------------------------
(***************************************************************************)
(* The figures: what is counted or summed over all rows is the sum of what *)
(* is counted or summed manager by manager, client by client, or type by   *)
(* type.                                                                   *)
(***************************************************************************)

\* The figures of a report by name.
LEMMA ReportByName ==
    ASSUME NEW m, NEW monthlyCost
    PROVE  /\ \A f \in Statuses : Report(m, monthlyCost)[f]
                                      = Cardinality({i \in VisibleInstances(m) : inst[i].status = f})
           /\ Report(m, monthlyCost)["warnings"]
                  = Cardinality({i \in VisibleInstances(m) : Matches("CPU_HIGH", inst[i], now)})
           /\ Report(m, monthlyCost)["cost"] = CostOf(VisibleInstances(m), monthlyCost)
           /\ Report(m, monthlyCost)["unresolved"] = Cardinality(UnresolvedReported(m))
<1>1. /\ Statuses \subseteq Figures /\ {"warnings", "cost", "unresolved"} \subseteq Figures
      /\ Statuses \cap {"warnings", "cost", "unresolved"} = {}
  BY DEF Figures, Statuses
<1>2. \A f \in Statuses : Report(m, monthlyCost)[f]
                              = Cardinality({i \in VisibleInstances(m) : inst[i].status = f})
  BY <1>1 DEF Report
<1>3. Report(m, monthlyCost)["warnings"]
          = Cardinality({i \in VisibleInstances(m) : Matches("CPU_HIGH", inst[i], now)})
  BY <1>1 DEF Report
<1>4. Report(m, monthlyCost)["cost"] = CostOf(VisibleInstances(m), monthlyCost)
  BY <1>1 DEF Report
<1>5. Report(m, monthlyCost)["unresolved"] = Cardinality(UnresolvedReported(m))
  BY <1>1 DEF Report
<1> QED BY <1>2, <1>3, <1>4, <1>5

LEMMA CostIsTotal ==
    ASSUME NEW U, IsFiniteSet(U), NEW w \in [U -> Nat], NEW S \in SUBSET U
    PROVE  CostOf(S, w) = Total(w, S) /\ IsFiniteSet(Area(w, S)) /\ Total(w, S) \in Nat
<1> DEFINE v == [x \in S |-> w[x]]
<1>1. v \in [S -> Nat] /\ IsFiniteSet(S) /\ \A x \in S : v[x] = w[x]
  BY FS_Subset
<1>2. Area(v, S) = Area(w, S)
  BY DEF Area
<1> HIDE DEF v
<1>3. CostOf(S, w) = Total(v, S)
  <2> DEFINE sums(it) == [s \in SUBSET S |-> IF s = {} THEN 0 ELSE w[Some(s)] + it[s \ {Some(s)}]]
  <2>1. CostOf(S, w) = (CHOOSE it : it = sums(it))[S]
    BY DEF CostOf, MapThenSumSet, MapThenFoldSet, Some
  <2>2. \A it : sums(it) = Sums(v, S, it)
    <3> TAKE it
    <3>1. \A s \in SUBSET S : s # {} => Some(s) \in S
      BY DEF Some
    <3> QED BY <1>1, <3>1 DEF Sums
  <2> HIDE DEF sums
  <2>3. (CHOOSE it : it = sums(it)) = sums(CHOOSE it : it = sums(it))
    BY <1>1, <2>2, SumsToTotal
  <2> QED BY <1>1, <2>1, <2>2, <2>3, SumsToTotal
<1> QED BY <1>1, <1>2, <1>3, AreaFinite DEF Total

LEMMA CostsAreNumbers ==
    ASSUME NEW monthlyCost \in CostColumns
    PROVE  monthlyCost \in [DOMAIN inst -> Nat]
BY CostsAssumption DEF CostColumns

\* An administrator sees every row, and every row one manager.
LEMMA RowsHaveOneManager ==
    ASSUME RInv
    PROVE  /\ \A i \in DOMAIN inst : managerOf[inst[i].clientId] \in Managers
           /\ \A a \in Admins : VisibleInstances(a) = DOMAIN inst
           /\ \A m \in Managers :
                 VisibleInstances(m) = {i \in DOMAIN inst : managerOf[inst[i].clientId] = m}
<1>1. \A m \in Managers : m \notin Admins
  BY RolesAssumption
<1>2. \A i \in DOMAIN inst : inst[i].clientId \in DOMAIN managerOf
  BY DEF RInv, ClientsExist
<1> QED BY <1>1, <1>2 DEF RInv, IInv, TypeOK, VisibleInstances, Scope

\* What the managers are told adds up to what an administrator is told.
LEMMA ManagersAddUp ==
    ASSUME RInv, NEW monthlyCost \in CostColumns, NEW a \in Admins, NEW f \in Figures,
           NEW w, w = [m \in Managers |-> Report(m, monthlyCost)[f]]
    PROVE  w \in [Managers -> Nat] /\ Total(w, Managers) = Report(a, monthlyCost)[f]
<1> DEFINE mgr == [i \in DOMAIN inst |-> managerOf[inst[i].clientId]]
<1>1. /\ mgr \in [DOMAIN inst -> Managers] /\ VisibleInstances(a) = DOMAIN inst
      /\ \A m \in Managers : VisibleInstances(m) = {i \in DOMAIN inst : mgr[i] = m}
  BY RowsHaveOneManager
<1>2. IsFiniteSet(DOMAIN inst) /\ IsFiniteSet(alerts) /\ monthlyCost \in [DOMAIN inst -> Nat]
      /\ IsFiniteSet(Managers)
  BY TablesFinite, CostsAreNumbers, ManagersAssumption DEF RInv
<1> HIDE DEF mgr
<1>3. ASSUME NEW A \in SUBSET DOMAIN inst, Report(a, monthlyCost)[f] = Cardinality(A),
             \A m \in Managers : Report(m, monthlyCost)[f] = Cardinality({i \in A : mgr[i] = m})
      PROVE  w \in [Managers -> Nat] /\ Total(w, Managers) = Report(a, monthlyCost)[f]
  <2> DEFINE g == [i \in A |-> mgr[i]]
  <2>1. IsFiniteSet(A) /\ g \in [A -> Managers]
    BY <1>1, <1>2, FS_Subset
  <2>2. \A m \in Managers : {i \in A : g[i] = m} = {i \in A : mgr[i] = m}
    OBVIOUS
  <2> HIDE DEF g
  <2>3. w = [m \in Managers |-> Cardinality({i \in A : g[i] = m})]
    BY <1>3, <2>2
  <2> QED BY <1>2, <1>3, <2>1, <2>3, PartsCount
<1>4. CASE f \in Statuses
  <2> DEFINE A == {i \in DOMAIN inst : inst[i].status = f}
  <2>1. Report(a, monthlyCost)[f] = Cardinality(A)
    <3>1. Report(a, monthlyCost)[f] = Cardinality({i \in VisibleInstances(a) : inst[i].status = f})
      BY <1>4, ReportByName
    <3> QED BY <1>1, <3>1
  <2>2. ASSUME NEW m \in Managers
        PROVE  Report(m, monthlyCost)[f] = Cardinality({i \in A : mgr[i] = m})
    <3>1. {i \in VisibleInstances(m) : inst[i].status = f} = {i \in A : mgr[i] = m}
      BY <1>1
    <3>2. Report(m, monthlyCost)[f] = Cardinality({i \in VisibleInstances(m) : inst[i].status = f})
      BY <1>4, ReportByName
    <3> QED BY <3>1, <3>2
  <2> QED BY <1>3, <2>1, <2>2
<1>5. CASE f = "warnings"
  <2> DEFINE A == {i \in DOMAIN inst : Matches("CPU_HIGH", inst[i], now)}
  <2>1. Report(a, monthlyCost)[f] = Cardinality(A)
    BY <1>1, <1>5, ReportByName
  <2>2. ASSUME NEW m \in Managers
        PROVE  Report(m, monthlyCost)[f] = Cardinality({i \in A : mgr[i] = m})
    <3>1. {i \in VisibleInstances(m) : Matches("CPU_HIGH", inst[i], now)} = {i \in A : mgr[i] = m}
      BY <1>1
    <3> QED BY <1>5, <3>1, ReportByName
  <2> QED BY <1>3, <2>1, <2>2
<1>6. CASE f = "unresolved"
  <2> DEFINE A == UnresolvedReported(a)
             g == [b \in A |-> mgr[b.instanceId]]
  <2>1. IsFiniteSet(A) /\ g \in [A -> Managers]
    <3>1. A \in SUBSET alerts /\ \A b \in A : b.instanceId \in DOMAIN inst
      BY <1>1 DEF UnresolvedReported
    <3> HIDE DEF A
    <3> QED BY <1>1, <1>2, <3>1, FS_Subset
  <2>2. \A m \in Managers : {b \in A : g[b] = m} = UnresolvedReported(m)
    BY <1>1 DEF UnresolvedReported
  <2>3. w = [m \in Managers |-> Cardinality({b \in A : g[b] = m})]
    <3>1. \A m \in Managers : Report(m, monthlyCost)[f] = Cardinality(UnresolvedReported(m))
      BY <1>6, ReportByName
    <3> QED BY <2>2, <3>1
  <2> HIDE DEF A, g
  <2>4. w \in [Managers -> Nat] /\ Total(w, Managers) = Cardinality(A)
    BY <1>2, <2>1, <2>3, PartsCount
  <2> QED BY <1>6, <2>4, ReportByName DEF A
<1>7. CASE f = "cost"
  <2> DEFINE A == Area(monthlyCost, DOMAIN inst)
             g == [p \in A |-> mgr[p[1]]]
  <2>1. /\ IsFiniteSet(A) /\ CostOf(DOMAIN inst, monthlyCost) = Cardinality(A)
        /\ \A m \in Managers : CostOf(VisibleInstances(m), monthlyCost) = Cardinality(Area(monthlyCost, VisibleInstances(m)))
    <3>1. \A m \in Managers : VisibleInstances(m) \in SUBSET DOMAIN inst
      BY <1>1
    <3> QED BY <1>2, <3>1, CostIsTotal DEF Total
  <2>2. g \in [A -> Managers]
    BY <1>1 DEF Area
  <2>3. \A m \in Managers : {p \in A : g[p] = m} = Area(monthlyCost, VisibleInstances(m))
    BY <1>1 DEF Area
  <2>4. w = [m \in Managers |-> Cardinality({p \in A : g[p] = m})]
    <3>1. \A m \in Managers : Report(m, monthlyCost)[f] = CostOf(VisibleInstances(m), monthlyCost)
      BY <1>7, ReportByName
    <3> QED BY <2>1, <2>3, <3>1
  <2> HIDE DEF A, g
  <2>5. w \in [Managers -> Nat] /\ Total(w, Managers) = Cardinality(A)
    BY <1>2, <2>1, <2>2, <2>4, PartsCount
  <2>6. Report(a, monthlyCost)[f] = CostOf(VisibleInstances(a), monthlyCost)
    BY <1>7, ReportByName
  <2> QED BY <1>1, <2>1, <2>5, <2>6
<1> QED BY <1>4, <1>5, <1>6, <1>7 DEF Figures

LEMMA ManagersAreSummed ==
    ASSUME RInv, NEW monthlyCost \in CostColumns, NEW a \in Admins, NEW f \in Figures
    PROVE  MapThenSumSet(LAMBDA m : Report(m, monthlyCost)[f], Managers)
               = Report(a, monthlyCost)[f]
<1> DEFINE w == [m \in Managers |-> Report(m, monthlyCost)[f]]
           sums(it) == [s \in SUBSET Managers |->
                           IF s = {} THEN 0
                           ELSE Report(Some(s), monthlyCost)[f] + it[s \ {Some(s)}]]
<1>1. w \in [Managers -> Nat] /\ Total(w, Managers) = Report(a, monthlyCost)[f]
  BY ManagersAddUp
<1>2. MapThenSumSet(LAMBDA m : Report(m, monthlyCost)[f], Managers)
          = (CHOOSE it : it = sums(it))[Managers]
  BY DEF MapThenSumSet, MapThenFoldSet, Some
<1>3. \A it : sums(it) = Sums(w, Managers, it)
  <2> TAKE it
  <2>1. \A s \in SUBSET Managers : s # {} => Some(s) \in Managers
    BY DEF Some
  <2> QED BY <2>1 DEF Sums
<1> HIDE DEF w, sums
<1>4. (CHOOSE it : it = sums(it)) = sums(CHOOSE it : it = sums(it))
  BY <1>1, <1>3, SumsToTotal, ManagersAssumption
<1> QED BY <1>1, <1>2, <1>3, <1>4, SumsToTotal, ManagersAssumption

\* The cost a member is told is that of the clients the member may ask about one by one.
LEMMA ClientsAddUp ==
    ASSUME RInv, NEW monthlyCost \in CostColumns, NEW m \in Members,
           NEW C, C = {c \in DOMAIN managerOf : MayAccess(m, c)}
    PROVE  Report(m, monthlyCost)["cost"]
               = MapThenSumSet(LAMBDA c : CostOf(InstancesOf(c), monthlyCost), C)
<1> DEFINE V == VisibleInstances(m)
           A == Area(monthlyCost, V)
           g == [p \in A |-> inst[p[1]].clientId]
           w == [c \in C |-> CostOf(InstancesOf(c), monthlyCost)]
           sums(it) == [s \in SUBSET C |->
                           IF s = {} THEN 0
                           ELSE CostOf(InstancesOf(Some(s)), monthlyCost) + it[s \ {Some(s)}]]
<1>1. /\ IsFiniteSet(DOMAIN inst) /\ monthlyCost \in [DOMAIN inst -> Nat]
      /\ V = {i \in DOMAIN inst : inst[i].clientId \in C}
  BY TablesFinite, CostsAreNumbers DEF RInv, VisibleInstances, Scope, MayAccess
<1>2. IsFiniteSet(C)
  <2>1. MaxClients \in Int
    BY NumbersAssumption
  <2>2. C \in SUBSET (1..MaxClients)
    BY DEF RInv, IInv, TypeOK
  <2>3. IsFiniteSet(1..MaxClients)
    BY <2>1, FS_Interval
  <2> QED BY <2>2, <2>3, FS_Subset
<1> HIDE DEF V
<1>3. /\ IsFiniteSet(A) /\ CostOf(V, monthlyCost) = Cardinality(A)
      /\ \A c \in C : CostOf(InstancesOf(c), monthlyCost) = Cardinality(Area(monthlyCost, InstancesOf(c)))
  <2>1. V \in SUBSET DOMAIN inst /\ \A c \in C : InstancesOf(c) \in SUBSET DOMAIN inst
    BY <1>1 DEF InstancesOf
  <2> QED BY <1>1, <2>1, CostIsTotal DEF Total
<1>4. g \in [A -> C]
  BY <1>1 DEF Area
<1>5. \A c \in C : {p \in A : g[p] = c} = Area(monthlyCost, InstancesOf(c))
  BY <1>1 DEF Area, InstancesOf
<1>6. w = [c \in C |-> Cardinality({p \in A : g[p] = c})]
  BY <1>3, <1>5
<1>7. MapThenSumSet(LAMBDA c : CostOf(InstancesOf(c), monthlyCost), C)
          = (CHOOSE it : it = sums(it))[C]
  BY DEF MapThenSumSet, MapThenFoldSet, Some
<1>8. \A it : sums(it) = Sums(w, C, it)
  <2> TAKE it
  <2>1. \A s \in SUBSET C : s # {} => Some(s) \in C
    BY DEF Some
  <2> QED BY <2>1 DEF Sums
<1> HIDE DEF A, g, w, sums
<1>9. w \in [C -> Nat] /\ Total(w, C) = Cardinality(A)
  <2>1. IsFiniteSet(A)
    BY <1>3
  <2> QED BY <1>2, <1>4, <1>6, <2>1, PartsCount
<1>10. (CHOOSE it : it = sums(it)) = sums(CHOOSE it : it = sums(it))
  BY <1>2, <1>8, <1>9, SumsToTotal
<1>11. (CHOOSE it : it = sums(it))[C] = Cardinality(A)
  BY <1>2, <1>8, <1>9, <1>10, SumsToTotal
<1> QED BY <1>3, <1>7, <1>11, ReportByName DEF V

\* The forecast is the cost of what runs, if that was registered at the prices of today.
LEMMA ForecastIsCostOfRunning ==
    ASSUME RInv, NEW instanceType \in TypeColumns, NEW monthlyCost \in CostColumns,
           NEW ids \in SUBSET DOMAIN inst,
           NEW R, R = {i \in ids : inst[i].status = "RUNNING"},
           \A i \in R : monthlyCost[i] = UnitPrices[instanceType[i]]
    PROVE  ForecastOf(ids, inst, instanceType) = CostOf(R, monthlyCost)
<1> DEFINE of(t) == {i \in ids : instanceType[i] = t /\ inst[i].status = "RUNNING"}
           A == Area(monthlyCost, R)
           g == [p \in A |-> instanceType[p[1]]]
           w == [t \in InstanceTypes |-> Cardinality(of(t)) * UnitPrices[t]]
           sums(it) == [s \in SUBSET InstanceTypes |->
                           IF s = {} THEN 0
                           ELSE Cardinality(of(Some(s))) * UnitPrices[Some(s)] + it[s \ {Some(s)}]]
<1>1. IsFiniteSet(DOMAIN inst) /\ monthlyCost \in [DOMAIN inst -> Nat] /\ R \in SUBSET DOMAIN inst
  BY TablesFinite, CostsAreNumbers DEF RInv
<1>2. IsFiniteSet(A) /\ CostOf(R, monthlyCost) = Cardinality(A)
  BY <1>1, CostIsTotal DEF Total
<1>3. \A i \in R : instanceType[i] \in InstanceTypes /\ monthlyCost[i] = UnitPrices[instanceType[i]]
  BY <1>1 DEF TypeColumns
<1>4. g \in [A -> InstanceTypes]
  BY <1>3 DEF Area
<1>5. ASSUME NEW t \in InstanceTypes
      PROVE  Cardinality({p \in A : g[p] = t}) = Cardinality(of(t)) * UnitPrices[t]
  <2>1. UnitPrices[t] \in Nat
    BY PricesAssumption
  <2>2. {p \in A : g[p] = t} = of(t) \X (1..UnitPrices[t])
    BY <1>3, <2>1 DEF Area
  <2>3. of(t) \in SUBSET DOMAIN inst
    OBVIOUS
  <2> HIDE DEF of, g, A
  <2>4. IsFiniteSet(of(t)) /\ IsFiniteSet(1..UnitPrices[t]) /\ Cardinality(1..UnitPrices[t]) = UnitPrices[t]
    <3>1. IsFiniteSet(1..UnitPrices[t]) /\ Cardinality(1..UnitPrices[t]) = UnitPrices[t]
      BY <2>1, FS_Interval
    <3> QED BY <1>1, <2>3, <3>1, FS_Subset
  <2>5. Cardinality(of(t) \X (1..UnitPrices[t])) = Cardinality(of(t)) * UnitPrices[t]
    BY ONLY <2>4, FS_Product
  <2> QED BY ONLY <2>2, <2>5
<1>6. w = [t \in InstanceTypes |-> Cardinality({p \in A : g[p] = t})]
  BY <1>5
<1>7. ForecastOf(ids, inst, instanceType) = (CHOOSE it : it = sums(it))[InstanceTypes]
  BY DEF ForecastOf, MapThenSumSet, MapThenFoldSet, Some
<1>8. \A it : sums(it) = Sums(w, InstanceTypes, it)
  <2> TAKE it
  <2>1. \A s \in SUBSET InstanceTypes : s # {} => Some(s) \in InstanceTypes
    BY DEF Some
  <2> QED BY <2>1 DEF Sums
<1> HIDE DEF A, g, w, of, sums
<1>9. w \in [InstanceTypes -> Nat] /\ Total(w, InstanceTypes) = Cardinality(A)
  BY <1>2, <1>4, <1>6, PartsCount, PricesAssumption
<1>10. (CHOOSE it : it = sums(it)) = sums(CHOOSE it : it = sums(it))
  BY <1>8, <1>9, SumsToTotal, PricesAssumption
<1>11. (CHOOSE it : it = sums(it))[InstanceTypes] = Cardinality(A)
  BY <1>8, <1>9, <1>10, SumsToTotal, PricesAssumption
<1> QED BY <1>2, <1>7, <1>11

\* A month later is the next month, across the turn of the year too.
LEMMA NextMonthFollows == ASSUME NEW t \in Nat PROVE NextMonth(Month(t)) = Month(t + MonthLength)
<1> DEFINE q == (t + MonthOffset) \div MonthLength
           k == FirstMonth - 1 + q
<1>1. /\ FirstMonth \in 1..12 /\ MonthLength \in Nat \ {0} /\ MonthOffset \in Nat
  BY CalendarAssumption
<1>2. q \in Nat /\ (t + MonthLength + MonthOffset) \div MonthLength = q + 1
  <2>1. t + MonthOffset \in Nat /\ t + MonthLength + MonthOffset = (t + MonthOffset) + MonthLength
    BY <1>1
  <2> QED BY <1>1, <2>1, OneMoreWhole
<1> HIDE DEF q
<1>3. k \in Nat /\ FirstMonth - 1 + (q + 1) = k + 1
  BY <1>1, <1>2
<1>4. Month(t) = [year |-> k \div 12, month |-> (k % 12) + 1]
  BY DEF Month, q
<1>5. Month(t + MonthLength) = [year |-> (k + 1) \div 12, month |-> ((k + 1) % 12) + 1]
  BY <1>2, <1>3 DEF Month
<1> HIDE DEF k
<1>6. /\ (k + 1) \div 12 = k \div 12 + (IF (k % 12) + 1 = 12 THEN 1 ELSE 0)
      /\ (k + 1) % 12 = ((k % 12) + 1) % 12
  BY <1>3
<1> QED BY <1>4, <1>5, <1>6 DEF NextMonth

LEMMA RInvFigures == RInv => FiguresAgree
<1> SUFFICES ASSUME RInv, NEW monthlyCost \in CostColumns
             PROVE
    /\ \A a \in Admins, f \in Figures :
          Report(a, monthlyCost)[f] = MapThenSumSet(LAMBDA m : Report(m, monthlyCost)[f], Managers)
    /\ \A m \in Members :
          /\ Report(m, monthlyCost)["unresolved"] = Cardinality(UnresolvedListed(m))
          /\ Report(m, monthlyCost)["warnings"] = Cardinality(Detected(m, "CPU_HIGH", now))
          /\ Report(m, monthlyCost)["cost"]
                 = MapThenSumSet(LAMBDA c : CostOf(InstancesOf(c), monthlyCost),
                                 {c \in DOMAIN managerOf : MayAccess(m, c)})
    /\ \A instanceType \in TypeColumns, c \in DOMAIN managerOf :
          (\A i \in {i \in InstancesOf(c) : inst[i].status = "RUNNING"} :
                monthlyCost[i] = UnitPrices[instanceType[i]])
              => ForecastOf(InstancesOf(c), inst, instanceType)
                     = CostOf({i \in InstancesOf(c) : inst[i].status = "RUNNING"}, monthlyCost)
  <2>1. RInv => NextMonth(Month(now)) = Month(now + MonthLength)
    BY NextMonthFollows DEF RInv, IInv, TypeOK
  <2> QED BY <2>1 DEF FiguresAgree
<1>1. \A a \in Admins, f \in Figures :
          Report(a, monthlyCost)[f] = MapThenSumSet(LAMBDA m : Report(m, monthlyCost)[f], Managers)
  BY ManagersAreSummed
<1>2. ASSUME NEW m \in Members
      PROVE  /\ Report(m, monthlyCost)["unresolved"] = Cardinality(UnresolvedListed(m))
             /\ Report(m, monthlyCost)["warnings"] = Cardinality(Detected(m, "CPU_HIGH", now))
  <2>1. UnresolvedReported(m) = UnresolvedListed(m)
    BY DEF UnresolvedReported, UnresolvedListed, VisibleInstances, Scope, RInv, ClientsExist, IInv,
           NoOrphanAlert
  <2>2. {i \in VisibleInstances(m) : Matches("CPU_HIGH", inst[i], now)} = Detected(m, "CPU_HIGH", now)
    BY DEF VisibleInstances, Detected
  <2> QED BY <2>1, <2>2, ReportByName
<1>3. \A m \in Members :
          Report(m, monthlyCost)["cost"]
              = MapThenSumSet(LAMBDA c : CostOf(InstancesOf(c), monthlyCost),
                              {c \in DOMAIN managerOf : MayAccess(m, c)})
  BY ClientsAddUp
<1>4. ASSUME NEW instanceType \in TypeColumns, NEW c \in DOMAIN managerOf,
             \A i \in {i \in InstancesOf(c) : inst[i].status = "RUNNING"} :
                monthlyCost[i] = UnitPrices[instanceType[i]]
      PROVE  ForecastOf(InstancesOf(c), inst, instanceType)
              = CostOf({i \in InstancesOf(c) : inst[i].status = "RUNNING"}, monthlyCost)
  <2>1. InstancesOf(c) \in SUBSET DOMAIN inst
    BY DEF InstancesOf
  <2> QED BY <1>4, <2>1, ForecastIsCostOfRunning
<1> QED BY <1>1, <1>2, <1>3, <1>4

\* The managers' reports add up to the administrator's and a report to the lists and the
\* costs of the clients it is about, in every state the program reaches, whatever each
\* instance was registered at; the forecast, at the prices of today, is the cost of what
\* runs if that was registered at them.
THEOREM FiguresAgreeHolds == Spec => []FiguresAgree
<1> QED BY RInvHolds, RInvFigures, PTL
===============================================================================
