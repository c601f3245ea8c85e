--------------------------- MODULE MonitoringProofs ---------------------------
(***************************************************************************)
(* The invariants of Monitoring, for every number of members, clients,     *)
(* instances and alerts.  They hold together (IInv): the ids of new alerts *)
(* are fresh because ids are unique and typed, and one open alert per      *)
(* condition survives a scan because what it inserts is fresh and aimed    *)
(* only at instances that have none.                                       *)
(***************************************************************************)
EXTENDS Monitoring, TLAPS

\* What the endpoints preserve together.
IInv == TypeOK /\ OneOpenAlert /\ NoOrphanAlert

\* The id a row is given (the rowid SQLite picks for instances and clients) is free.
LEMMA NextIdIsFresh ==
    ASSUME NEW ids \in SUBSET Nat, NEW n \in Nat, IsNextId(n, ids)
    PROVE  n \notin ids
BY DEF IsNextId

\* The ids an insert of several alerts takes are free and all different.
LEMMA NextIdsAreFresh ==
    ASSUME NEW ids \in SUBSET Nat, NEW M \in SUBSET Nat, NEW f \in [M -> Nat],
           AreNextIds(f, ids)
    PROVE  /\ \A i \in M : f[i] \notin ids
           /\ \A i, j \in M : f[i] = f[j] => i = j
<1>1. \A i \in M : f[i] \notin ids
  BY DEF AreNextIds
<1>2. ASSUME NEW i \in M, NEW j \in M, f[i] = f[j] PROVE i = j
  <2>1. CASE i < j
    BY <1>2, <2>1 DEF AreNextIds
  <2>2. CASE j < i
    BY <1>2, <2>2 DEF AreNextIds
  <2> QED BY <2>1, <2>2
<1> QED BY <1>1, <1>2

\* The rows a scan inserts, as Scan builds them.
Recorded(f, type) ==
    {[id |-> f[i], instanceId |-> i, alertType |-> type, resolvedAt |-> NULL] : i \in DOMAIN f}

\* A scan keeps the alerts well formed: recording what is missing makes no second open
\* alert and points at instances there are.
LEMMA RecordingIsSafe ==
    ASSUME IInv, NEW type \in AlertTypes, NEW M \in SUBSET (DOMAIN inst \ WithOpenAlert(type)),
           NEW f \in [M -> 1..MaxAlerts], AreNextIds(f, {a.id : a \in alerts}),
           alerts' = alerts \cup Recorded(f, type), inst' = inst
    PROVE  /\ alerts' \subseteq Alert
           /\ AlertIdsUnique' /\ OneOpenAlert' /\ NoOrphanAlert'
<1> DEFINE ids == {a.id : a \in alerts}
           new == Recorded(f, type)
<1>1. /\ ids \in SUBSET Nat /\ M \in SUBSET Nat /\ f \in [M -> Nat]
      /\ M \subseteq 1..MaxInstances /\ M \subseteq DOMAIN inst
  BY NumbersAssumption DEF IInv, TypeOK, Alert
<1>2. /\ \A i \in M : f[i] \notin ids
      /\ \A i, j \in M : f[i] = f[j] => i = j
  BY <1>1, NextIdsAreFresh
<1>3. \A b \in new : /\ b.instanceId \in M /\ b.id = f[b.instanceId]
                     /\ b.alertType = type /\ b.resolvedAt = NULL
                     /\ b = [id |-> f[b.instanceId], instanceId |-> b.instanceId,
                             alertType |-> type, resolvedAt |-> NULL]
  BY DEF Recorded
<1>4. alerts' \subseteq Alert
  <2>1. new \subseteq Alert
    BY <1>1 DEF Recorded, Alert
  <2> QED BY <2>1 DEF IInv, TypeOK
<1>5. AlertIdsUnique'
  <2>1. ASSUME NEW a \in alerts, NEW b \in new PROVE a.id # b.id
    BY <1>2, <1>3, <2>1
  <2>2. ASSUME NEW a \in new, NEW b \in new, a.id = b.id PROVE a = b
    BY <1>2, <1>3, <2>2
  <2> QED BY <2>1, <2>2 DEF AlertIdsUnique, TypeOK, IInv
<1>6. OneOpenAlert'
  <2>1. ASSUME NEW a \in alerts, NEW b \in new, IsOpen(a), a.alertType = type
        PROVE  a.instanceId # b.instanceId
    <3>1. a.instanceId \in WithOpenAlert(type)
      BY <2>1 DEF WithOpenAlert
    <3> QED BY <3>1, <1>3
  <2>2. ASSUME NEW a \in new, NEW b \in new, a.instanceId = b.instanceId PROVE a = b
    BY <1>3, <2>2
  <2>3. \A b \in new : b.alertType = type
    BY <1>3
  <2> QED BY <2>1, <2>2, <2>3 DEF OneOpenAlert, IInv
<1>7. NoOrphanAlert'
  BY <1>1, <1>3 DEF NoOrphanAlert, IInv
<1> QED BY <1>4, <1>5, <1>6, <1>7

LEMMA InitIInv == Init => IInv
BY SeedAssumption, NumbersAssumption
   DEF Init, IInv, TypeOK, AlertIdsUnique, OneOpenAlert, NoOrphanAlert, Instance

LEMMA ScanIInv ==
    ASSUME IInv, NEW m \in Members, NEW type \in AlertTypes, Scan(m, type)
    PROVE  IInv'
<1>1. PICK t \in Instants : \E f \in [Detected(m, type, t) \ WithOpenAlert(type) -> 1..MaxAlerts] :
          /\ AreNextIds(f, {a.id : a \in alerts})
          /\ alerts' = alerts \cup
                {[id |-> f[i], instanceId |-> i, alertType |-> type, resolvedAt |-> NULL] :
                    i \in Detected(m, type, t) \ WithOpenAlert(type)}
  BY DEF Scan
<1> DEFINE M == Detected(m, type, t) \ WithOpenAlert(type)
<1>2. PICK f \in [M -> 1..MaxAlerts] :
          /\ AreNextIds(f, {a.id : a \in alerts})
          /\ alerts' = alerts \cup Recorded(f, type)
  BY <1>1 DEF Recorded
<1>3. M \in SUBSET (DOMAIN inst \ WithOpenAlert(type))
  BY DEF Detected
<1>4. UNCHANGED <<managerOf, inst, now>>
  BY DEF Scan
<1>5. /\ alerts' \subseteq Alert
      /\ AlertIdsUnique' /\ OneOpenAlert' /\ NoOrphanAlert'
  BY <1>2, <1>3, <1>4, RecordingIsSafe
<1> QED BY <1>4, <1>5 DEF IInv, TypeOK

LEMMA UpdateStatusIInv ==
    ASSUME IInv, NEW m \in Members, NEW i \in DOMAIN inst, NEW status \in Statuses,
           NEW cpu \in CpuLevels \cup {NULL}, UpdateStatus(m, i, status, cpu)
    PROVE  IInv'
<1>1. PICK t \in Instants : inst' = [inst EXCEPT ![i] = Applied(@, status, cpu, t)]
  BY DEF UpdateStatus
<1>2. t \in Nat
  BY NumbersAssumption DEF Instants, IInv, TypeOK
<1>3. Applied(inst[i], status, cpu, t) \in Instance
  <2>1. inst[i] \in Instance
    BY DEF IInv, TypeOK
  <2>2. NextCpu(status, cpu) \in CpuLevels \cup {NULL}
    BY NumbersAssumption DEF NextCpu
  <2> QED BY <1>2, <2>1, <2>2 DEF Applied, Instance
<1>4. DOMAIN inst' = DOMAIN inst /\ inst' \in [DOMAIN inst' -> Instance]
  BY <1>1, <1>3 DEF IInv, TypeOK
<1> QED BY <1>4 DEF UpdateStatus, IInv, TypeOK, AlertIdsUnique, OneOpenAlert, NoOrphanAlert

LEMMA ResolveAlertIInv ==
    ASSUME IInv, NEW m \in Members, NEW a \in alerts, ResolveAlert(m, a)
    PROVE  IInv'
<1>1. PICK t \in Instants : alerts' = (alerts \ {a}) \cup {[a EXCEPT !.resolvedAt = t]}
  BY DEF ResolveAlert
<1> DEFINE b == [a EXCEPT !.resolvedAt = t]
<1>2. t \in Nat /\ t # NULL
  BY NumbersAssumption DEF Instants, IInv, TypeOK
<1>3. /\ a \in Alert /\ b \in Alert /\ ~IsOpen(b)
      /\ b.id = a.id /\ b.instanceId = a.instanceId
  BY <1>2 DEF IInv, TypeOK, Alert, IsOpen
<1>4. UNCHANGED <<managerOf, inst, now>>
  BY DEF ResolveAlert
<1>5. AlertIdsUnique'
  BY <1>1, <1>3 DEF IInv, TypeOK, AlertIdsUnique
<1>6. TypeOK'
  BY <1>1, <1>3, <1>4, <1>5 DEF IInv, TypeOK
<1>7. OneOpenAlert'
  BY <1>1, <1>3 DEF IInv, OneOpenAlert
<1>8. NoOrphanAlert'
  BY <1>1, <1>3, <1>4 DEF IInv, NoOrphanAlert
<1> QED BY <1>5, <1>6, <1>7, <1>8 DEF IInv

\* Every step of the API, and of the clock, preserves IInv.
LEMMA NextIInv == IInv /\ [Next]_vars => IInv'
<1> SUFFICES ASSUME IInv, [Next]_vars PROVE IInv'
  OBVIOUS
<1> USE DEF IInv
<1>1. CASE UNCHANGED vars
  BY <1>1 DEF vars, TypeOK, AlertIdsUnique, OneOpenAlert, NoOrphanAlert
<1>2. CASE Tick
  BY <1>2 DEF Tick, TypeOK, AlertIdsUnique, OneOpenAlert, NoOrphanAlert
<1>3. ASSUME NEW m \in Members, RequestBy(m) PROVE IInv'
  <2>1. ASSUME NEW manager \in Managers, CreateClient(m, manager) PROVE IInv'
    BY <2>1, NumbersAssumption
       DEF CreateClient, TypeOK, AlertIdsUnique, OneOpenAlert, NoOrphanAlert
  <2>2. ASSUME NEW c \in 1..MaxClients, NEW status \in Statuses, NEW cpu \in CpuLevels,
               CreateInstance(m, c, status, cpu)
        PROVE  IInv'
    <3>1. PICK i \in 1..MaxInstances, t \in Instants :
             inst' = [j \in DOMAIN inst \cup {i} |->
                        IF j = i THEN [clientId |-> c, status |-> status,
                                       cpuUsage |-> cpu, updatedAt |-> t]
                                 ELSE inst[j]]
      BY <2>2 DEF CreateInstance
    <3>2. t \in Nat
      BY NumbersAssumption DEF Instants, TypeOK
    <3>3. [clientId |-> c, status |-> status, cpuUsage |-> cpu, updatedAt |-> t] \in Instance
      BY <3>2 DEF Instance
    <3>4. inst' \in [DOMAIN inst' -> Instance] /\ DOMAIN inst' = DOMAIN inst \cup {i}
      BY <3>1, <3>3 DEF TypeOK
    <3> QED BY <2>2, <3>4
            DEF CreateInstance, TypeOK, AlertIdsUnique, OneOpenAlert, NoOrphanAlert
  <2>3. ASSUME NEW i \in DOMAIN inst, NEW status \in Statuses,
               NEW cpu \in CpuLevels \cup {NULL}, UpdateStatus(m, i, status, cpu)
        PROVE  IInv'
    BY <2>3, UpdateStatusIInv
  <2>4. ASSUME NEW i \in DOMAIN inst, DeleteInstance(m, i) PROVE IInv'
    BY <2>4 DEF DeleteInstance, TypeOK, AlertIdsUnique, OneOpenAlert, NoOrphanAlert
  <2>5. ASSUME NEW type \in AlertTypes, Scan(m, type) PROVE IInv'
    BY <2>5, ScanIInv
  <2>6. ASSUME NEW a \in alerts, ResolveAlert(m, a) PROVE IInv'
    BY <2>6, ResolveAlertIInv
  <2> QED BY <1>3, <2>1, <2>2, <2>3, <2>4, <2>5, <2>6 DEF RequestBy
<1> QED BY <1>1, <1>2, <1>3 DEF Next

\* The inductive invariant holds in every state the API can reach.
THEOREM IInvHolds == Spec => []IInv
BY InitIInv, NextIInv, PTL DEF Spec

\* The tables stay well typed, and no two alerts ever share an id although the ids of
\* deleted rows are given out again.
THEOREM TypeCorrectness == Spec => []TypeOK
<1>1. IInv => TypeOK
  BY DEF IInv
<1> QED BY <1>1, IInvHolds, PTL

\* At most one open alert per instance and condition, for requests that do not overlap.
THEOREM OneOpenAlertHolds == Spec => []OneOpenAlert
<1>1. IInv => OneOpenAlert
  BY DEF IInv
<1> QED BY <1>1, IInvHolds, PTL

\* No alert outlives its instance, for requests that do not overlap.
THEOREM NoOrphanAlertHolds == Spec => []NoOrphanAlert
<1>1. IInv => NoOrphanAlert
  BY DEF IInv
<1> QED BY <1>1, IInvHolds, PTL

\* No endpoint, nor the clock, rewrites a resolved alert.
LEMMA NextResolvedKept == IInv /\ [Next]_vars => ResolvedKept
<1> SUFFICES ASSUME IInv, [Next]_vars PROVE ResolvedKept
  OBVIOUS
<1>1. ASSUME alerts' \subseteq alerts PROVE ResolvedKept
  BY <1>1 DEF ResolvedKept, IInv, TypeOK, AlertIdsUnique
<1>2. CASE UNCHANGED vars
  BY <1>1, <1>2 DEF vars
<1>3. CASE Tick
  BY <1>1, <1>3 DEF Tick
<1>4. ASSUME NEW m \in Members, RequestBy(m) PROVE ResolvedKept
  <2>1. ASSUME NEW manager \in Managers, CreateClient(m, manager) PROVE ResolvedKept
    BY <1>1, <2>1 DEF CreateClient
  <2>2. ASSUME NEW c \in 1..MaxClients, NEW status \in Statuses, NEW cpu \in CpuLevels,
               CreateInstance(m, c, status, cpu)
        PROVE  ResolvedKept
    BY <1>1, <2>2 DEF CreateInstance
  <2>3. ASSUME NEW i \in DOMAIN inst, NEW status \in Statuses,
               NEW cpu \in CpuLevels \cup {NULL}, UpdateStatus(m, i, status, cpu)
        PROVE  ResolvedKept
    BY <1>1, <2>3 DEF UpdateStatus
  <2>4. ASSUME NEW i \in DOMAIN inst, DeleteInstance(m, i) PROVE ResolvedKept
    BY <1>1, <2>4 DEF DeleteInstance
  <2>5. ASSUME NEW type \in AlertTypes, Scan(m, type) PROVE ResolvedKept
    <3>1. IInv'
      BY <2>5, ScanIInv, <1>4
    <3>2. alerts \subseteq alerts'
      BY <2>5 DEF Scan
    <3> QED BY <3>1, <3>2 DEF ResolvedKept, IInv, TypeOK, AlertIdsUnique
  <2>6. ASSUME NEW c \in alerts, ResolveAlert(m, c) PROVE ResolvedKept
    <3>1. PICK t \in Instants : alerts' = (alerts \ {c}) \cup {[c EXCEPT !.resolvedAt = t]}
      BY <2>6 DEF ResolveAlert
    <3>2. IsOpen(c) /\ [c EXCEPT !.resolvedAt = t].id = c.id
      BY <2>6 DEF ResolveAlert, IInv, TypeOK, Alert
    <3> QED BY <3>1, <3>2 DEF ResolvedKept, IInv, TypeOK, AlertIdsUnique
  <2> QED BY <1>4, <2>1, <2>2, <2>3, <2>4, <2>5, <2>6 DEF RequestBy
<1> QED BY <1>2, <1>3, <1>4 DEF Next

\* A resolved alert is never reopened or stamped again, for requests that do not overlap.
THEOREM ResolvedIsFinalHolds == Spec => ResolvedIsFinal
<1>1. IInv /\ [Next]_vars => [ResolvedKept]_vars
  BY NextResolvedKept
<1> QED BY <1>1, IInvHolds, PTL DEF Spec, ResolvedIsFinal

\* Each endpoint, called by m, keeps every row m has no access to.
LEMMA RequestKeepsForeign ==
    ASSUME IInv, NEW m \in Members, RequestBy(m) PROVE ForeignKept(m)
<1> USE DEF ForeignKept, Foreign, AlertsOf
<1>1. ASSUME NEW manager \in Managers, CreateClient(m, manager) PROVE ForeignKept(m)
  BY <1>1 DEF CreateClient
<1>2. ASSUME NEW c \in 1..MaxClients, NEW status \in Statuses, NEW cpu \in CpuLevels,
             CreateInstance(m, c, status, cpu)
      PROVE  ForeignKept(m)
  <2>1. PICK i \in 1..MaxInstances, t \in Instants :
           /\ IsNextId(i, DOMAIN inst)
           /\ inst' = [j \in DOMAIN inst \cup {i} |->
                         IF j = i THEN [clientId |-> c, status |-> status,
                                        cpuUsage |-> cpu, updatedAt |-> t]
                                  ELSE inst[j]]
    BY <1>2 DEF CreateInstance
  <2>2. i \notin DOMAIN inst
    BY <2>1, NextIdIsFresh, NumbersAssumption DEF IInv, TypeOK
  <2>3. inst'[i].clientId \in Scope(m) /\ UNCHANGED alerts
    BY <1>2, <2>1 DEF CreateInstance
  <2> QED BY <2>1, <2>2, <2>3
<1>3. ASSUME NEW i \in DOMAIN inst, NEW status \in Statuses,
             NEW cpu \in CpuLevels \cup {NULL}, UpdateStatus(m, i, status, cpu)
      PROVE  ForeignKept(m)
  <2>1. PICK t \in Instants : inst' = [inst EXCEPT ![i] = Applied(@, status, cpu, t)]
    BY <1>3 DEF UpdateStatus
  <2>2. Applied(inst[i], status, cpu, t).clientId = inst[i].clientId
    BY DEF Applied, IInv, TypeOK, Instance
  <2>3. inst[i].clientId \in Scope(m) /\ UNCHANGED alerts
    BY <1>3 DEF UpdateStatus
  <2> QED BY <2>1, <2>2, <2>3 DEF IInv, TypeOK
<1>4. ASSUME NEW i \in DOMAIN inst, DeleteInstance(m, i) PROVE ForeignKept(m)
  BY <1>4 DEF DeleteInstance
<1>5. ASSUME NEW type \in AlertTypes, Scan(m, type) PROVE ForeignKept(m)
  <2>1. PICK t \in Instants : \E f \in [Detected(m, type, t) \ WithOpenAlert(type) -> 1..MaxAlerts] :
           alerts' = alerts \cup
                {[id |-> f[i], instanceId |-> i, alertType |-> type, resolvedAt |-> NULL] :
                    i \in Detected(m, type, t) \ WithOpenAlert(type)}
    BY <1>5 DEF Scan
  <2>2. \A a \in alerts' \ alerts : a.instanceId \in Detected(m, type, t)
    BY <2>1
  <2>3. alerts \subseteq alerts' /\ UNCHANGED inst
    BY <1>5, <2>1 DEF Scan
  <2> QED BY <2>2, <2>3 DEF Detected
<1>6. ASSUME NEW a \in alerts, ResolveAlert(m, a) PROVE ForeignKept(m)
  <2>1. PICK t \in Instants : alerts' = (alerts \ {a}) \cup {[a EXCEPT !.resolvedAt = t]}
    BY <1>6 DEF ResolveAlert
  <2>2. [a EXCEPT !.resolvedAt = t].instanceId = a.instanceId
    BY DEF IInv, TypeOK, Alert
  <2>3. inst[a.instanceId].clientId \in Scope(m) /\ UNCHANGED inst
    BY <1>6 DEF ResolveAlert
  <2> QED BY <2>1, <2>2, <2>3
<1> QED BY <1>1, <1>2, <1>3, <1>4, <1>5, <1>6 DEF RequestBy

\* No request of a manager touches an instance, or an alert, of another manager's client.
THEOREM ScopeIsolationHolds == Spec => ScopeIsolation
<1>1. IInv /\ [Next]_vars => [\A m \in Managers : ForeignKept(m) \/ ~RequestBy(m)]_vars
  BY RequestKeepsForeign DEF Members
<1> QED BY <1>1, IInvHolds, PTL DEF Spec, ScopeIsolation
===============================================================================
