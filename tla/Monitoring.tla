------------------------------ MODULE Monitoring ------------------------------
(***************************************************************************)
(* What the API promises when its requests take effect one at a time: the  *)
(* three tables the endpoints change (clients, instances, alerts) and one  *)
(* action per endpoint that changes them.  An action is the whole request: *)
(* the controller's access check, the service's decisions and the commit.  *)
(* A request that is refused (401, 403, 404, 409) or that turns out to be  *)
(* a no-op changes nothing and is a stuttering step.                       *)
(*                                                                         *)
(* MonitoringConcurrent models the same endpoints statement by statement   *)
(* and, with one request in flight at a time, implements this module.      *)
(***************************************************************************)
EXTENDS Integers, FiniteSets

CONSTANTS
    Admins,        \* members with role ADMIN
    Managers,      \* members with role CLIENT_MANAGER
    SeedClients,   \* the manager of each client the database starts with
    CpuLevels,     \* the CPU readings callers send; 0 is one of them
    CpuWarning,    \* settings.CPU_WARNING_THRESHOLD
    LongStopped,   \* settings.LONG_STOPPED_HOURS, in ticks
    MaxLatency,    \* longest time, in ticks, between a handler's utcnow() and its commit
    MaxClients, MaxInstances, MaxAlerts, MaxTime,   \* bounds
    NULL           \* SQL NULL, and a JSON field that was left out

ASSUME RolesAssumption == Admins \cap Managers = {}

ASSUME SeedAssumption ==
    /\ DOMAIN SeedClients \subseteq 1..MaxClients
    /\ SeedClients \in [DOMAIN SeedClients -> Managers]

ASSUME NumbersAssumption ==
    /\ CpuLevels \subseteq Nat /\ 0 \in CpuLevels
    /\ CpuWarning \in Nat /\ LongStopped \in Nat /\ MaxLatency \in Nat
    /\ {MaxClients, MaxInstances, MaxAlerts, MaxTime} \subseteq Nat
    /\ NULL \notin Nat

VARIABLES
    managerOf,   \* clients: id -> managerId
    inst,        \* instances: id -> row
    alerts,      \* alerts: the set of rows
    now          \* the server's clock

vars == <<managerOf, inst, alerts, now>>

Members    == Admins \cup Managers
Statuses   == {"RUNNING", "STOPPED", "ERROR"}
AlertTypes == {"CPU_HIGH", "ERROR_DETECTED", "LONG_STOPPED"}

Instance == [clientId : 1..MaxClients, status : Statuses, cpuUsage : CpuLevels, updatedAt : Nat]

Alert == [id : 1..MaxAlerts, instanceId : 1..MaxInstances, alertType : AlertTypes,
          resolvedAt : Nat \cup {NULL}]

(***************************************************************************)
(* An alert is unresolved exactly when it has no resolvedAt: the only code *)
(* that writes isResolved, resolve_alert, writes both fields together.     *)
(***************************************************************************)
IsOpen(a) == a.resolvedAt = NULL

\* accessible_client_ids: every client for an ADMIN, else those the member manages.
Scope(m) == IF m \in Admins THEN DOMAIN managerOf
                            ELSE {c \in DOMAIN managerOf : managerOf[c] = m}

(***************************************************************************)
(* The rowid SQLite gives the next row of a table whose key is an INTEGER  *)
(* PRIMARY KEY without AUTOINCREMENT: one more than the largest id there   *)
(* is, so the id of a deleted last row is given out again.                 *)
(***************************************************************************)
IsNextId(n, ids) == /\ \A k \in ids : k < n
                    /\ n = 1 \/ n - 1 \in ids

\* The ids one insert of several rows gives them: f[i] to the row made for i, in order.
AreNextIds(f, ids) ==
    /\ \A i \in DOMAIN f : /\ \A k \in ids : k < f[i]
                           /\ f[i] = 1 \/ f[i] - 1 \in ids \cup {f[j] : j \in DOMAIN f}
    /\ \A i, j \in DOMAIN f : i < j => f[i] < f[j]

\* The instants a request that commits now can have read from its clock.
Instants == {t \in 0..now : now - t <= MaxLatency}

Matches(type, row, t) ==
    CASE type = "CPU_HIGH"       -> row.status = "RUNNING" /\ row.cpuUsage >= CpuWarning
      [] type = "ERROR_DETECTED" -> row.status = "ERROR"
      [] type = "LONG_STOPPED"   -> row.status = "STOPPED" /\ t - row.updatedAt >= LongStopped

\* Mutant: the scan forgets the caller's scope.
DetectedAnywhere(m, type, t) == {i \in DOMAIN inst : Matches(type, inst[i], t)}

Detected(m, type, t) ==
    {i \in DOMAIN inst : inst[i].clientId \in Scope(m) /\ Matches(type, inst[i], t)}

WithOpenAlert(type) == {a.instanceId : a \in {b \in alerts : b.alertType = type /\ IsOpen(b)}}

\* PATCH to STOPPED or ERROR without a reading means the CPU is idle.
NextCpu(status, cpu) == IF cpu = NULL /\ status # "RUNNING" THEN 0 ELSE cpu

\* Mutant: the reading is stored even when the request left it out.
AppliedBlindly(row, status, cpu, t) ==
    [row EXCEPT !.status = status, !.cpuUsage = NextCpu(status, cpu), !.updatedAt = t]

\* Mutant: a status change does not restart the clock of the 48-hour rule.
AppliedSilently(row, status, cpu, t) ==
    [row EXCEPT !.status = status,
                !.cpuUsage = IF NextCpu(status, cpu) = NULL THEN @ ELSE NextCpu(status, cpu)]

Applied(row, status, cpu, t) ==
    [row EXCEPT !.status = status,
                !.cpuUsage = IF NextCpu(status, cpu) = NULL THEN @ ELSE NextCpu(status, cpu),
                !.updatedAt = t]

\* A PATCH that asks for what the row already says.
IsNoOp(row, status, cpu) == Applied(row, status, cpu, row.updatedAt) = row
-------------------------------------------------------------------------------
Init == /\ managerOf = SeedClients
        /\ inst = [i \in {} |-> {}]
        /\ alerts = {}
        /\ now = 0

CreateClient(m, manager) ==
    /\ m \in Admins
    /\ manager \in Managers
    /\ \E c \in 1..MaxClients :
          /\ IsNextId(c, DOMAIN managerOf)
          /\ managerOf' = [d \in DOMAIN managerOf \cup {c} |->
                              IF d = c THEN manager ELSE managerOf[d]]
    /\ UNCHANGED <<inst, alerts, now>>

CreateInstance(m, c, status, cpu) ==
    /\ c \in Scope(m)
    /\ \E i \in 1..MaxInstances, t \in Instants :
          /\ IsNextId(i, DOMAIN inst)
          /\ inst' = [j \in DOMAIN inst \cup {i} |->
                         IF j = i THEN [clientId |-> c, status |-> status,
                                        cpuUsage |-> cpu, updatedAt |-> t]
                                  ELSE inst[j]]
    /\ UNCHANGED <<managerOf, alerts, now>>

UpdateStatus(m, i, status, cpu) ==
    /\ inst[i].clientId \in Scope(m)
    /\ ~IsNoOp(inst[i], status, cpu)
    /\ \E t \in Instants : /\ t >= inst[i].updatedAt
                           /\ inst' = [inst EXCEPT ![i] = Applied(@, status, cpu, t)]
    /\ UNCHANGED <<managerOf, alerts, now>>

DeleteInstance(m, i) ==
    /\ inst[i].clientId \in Scope(m)
    /\ inst[i].status # "RUNNING"
    /\ inst' = [j \in DOMAIN inst \ {i} |-> inst[j]]
    /\ alerts' = {a \in alerts : a.instanceId # i}
    /\ UNCHANGED <<managerOf, now>>

Scan(m, type) ==
    /\ \E t \in Instants :
          LET missing == Detected(m, type, t) \ WithOpenAlert(type)
          IN  \E f \in [missing -> 1..MaxAlerts] :
                 /\ AreNextIds(f, {a.id : a \in alerts})
                 /\ alerts' = alerts \cup
                       {[id |-> f[i], instanceId |-> i, alertType |-> type,
                         resolvedAt |-> NULL] : i \in missing}
    /\ UNCHANGED <<managerOf, inst, now>>

ResolveAlert(m, a) ==
    /\ inst[a.instanceId].clientId \in Scope(m)
    /\ IsOpen(a)
    /\ \E t \in Instants : alerts' = (alerts \ {a}) \cup {[a EXCEPT !.resolvedAt = t]}
    /\ UNCHANGED <<managerOf, inst, now>>

Tick == /\ now < MaxTime
        /\ now' = now + 1
        /\ UNCHANGED <<managerOf, inst, alerts>>

RequestBy(m) ==
    \/ \E manager \in Managers : CreateClient(m, manager)
    \/ \E c \in 1..MaxClients, status \in Statuses, cpu \in CpuLevels :
          CreateInstance(m, c, status, cpu)
    \/ \E i \in DOMAIN inst, status \in Statuses, cpu \in CpuLevels \cup {NULL} :
          UpdateStatus(m, i, status, cpu)
    \/ \E i \in DOMAIN inst : DeleteInstance(m, i)
    \/ \E type \in AlertTypes : Scan(m, type)
    \/ \E a \in alerts : ResolveAlert(m, a)

Next == Tick \/ \E m \in Members : RequestBy(m)

Spec == Init /\ [][Next]_vars
-------------------------------------------------------------------------------
\* `id` is the primary key of the alerts, also when ids are given out again.
AlertIdsUnique == \A a, b \in alerts : a.id = b.id => a = b

TypeOK ==
    /\ DOMAIN managerOf \subseteq 1..MaxClients
    /\ managerOf \in [DOMAIN managerOf -> Managers]
    /\ DOMAIN inst \subseteq 1..MaxInstances
    /\ inst \in [DOMAIN inst -> Instance]
    /\ alerts \subseteq Alert /\ AlertIdsUnique
    /\ now \in Nat

\* However scans, resolutions, status changes and deletions follow each other, an
\* instance has at most one open alert of a type (the dedup rule of _record_alerts).
OneOpenAlert ==
    \A a, b \in alerts :
        /\ IsOpen(a) /\ IsOpen(b)
        /\ a.instanceId = b.instanceId /\ a.alertType = b.alertType
        => a = b

\* Deleting an instance takes its alerts with it (the cascade on Instance.alerts), so no
\* alert outlives its instance and none is inherited by a later instance of the same id.
NoOrphanAlert == \A a \in alerts : a.instanceId \in DOMAIN inst

\* Resolution is final (alert_service.resolve_alert): while its row exists a resolved
\* alert is never reopened and its resolvedAt is never written again.
ResolvedKept == \A a \in alerts, b \in alerts' : a.id = b.id /\ ~IsOpen(a) => a = b

ResolvedIsFinal == [][ResolvedKept]_vars

\* The rows outside member m's scope, and their alerts, are what they were.
Foreign(m, rows) == {i \in DOMAIN rows : rows[i].clientId \notin Scope(m)}
AlertsOf(rows, owners) == {a \in rows : a.instanceId \in owners}
ForeignKept(m) ==
    /\ Foreign(m, inst') = Foreign(m, inst)
    /\ \A i \in Foreign(m, inst) : inst'[i] = inst[i]
    /\ AlertsOf(alerts', Foreign(m, inst)) = AlertsOf(alerts, Foreign(m, inst))

\* A request made by a manager leaves every instance outside the manager's scope, and its
\* alerts, as they were (deps.accessible_client_ids, assert_client_id_access).
ScopeIsolation == [][\A m \in Managers : ForeignKept(m) \/ ~RequestBy(m)]_vars
===============================================================================
