-------------------------- MODULE MonitoringConcurrent --------------------------
(***************************************************************************)
(* The endpoints of Monitoring as the threads of the server run them: one  *)
(* step per SQL statement that matters, several requests in flight.        *)
(*                                                                         *)
(* External: SQLAlchemy over SQLite in WAL mode.  A SELECT outside a write *)
(* transaction reads the last committed state and keeps no snapshot of it; *)
(* a row once loaded is not read again by the same request; the first      *)
(* INSERT, UPDATE or DELETE of a request takes the one write lock, which   *)
(* it holds until its commit, and others wait for it up to a timeout.      *)
(* Foreign keys are declared but SQLite does not enforce them.             *)
(*                                                                         *)
(* With one handler this module implements Monitoring (Spec).              *)
(***************************************************************************)
EXTENDS Monitoring

CONSTANTS
    Handlers,    \* the server's worker threads
    BatchSize,   \* ID_BATCH_SIZE, the instances a scan reads at a time
    Requests     \* the requests that arrive, of the shapes of AllRequests

AllRequests ==
    [kind : {"create_client"}, by : Members, manager : Managers]
    \cup [kind : {"create"}, by : Members, client : 1..MaxClients, status : Statuses,
          cpu : CpuLevels]
    \cup [kind : {"update"}, by : Members, id : 1..MaxInstances, status : Statuses,
          cpu : CpuLevels \cup {NULL}]
    \cup [kind : {"delete"}, by : Members, id : 1..MaxInstances]
    \cup [kind : {"scan"}, by : Members, type : AlertTypes]
    \cup [kind : {"resolve"}, by : Members, id : 1..MaxAlerts]

ASSUME HandlersAssumption ==
    IsFiniteSet(Handlers) /\ NULL \notin Handlers /\ BatchSize \in Nat \ {0}
ASSUME RequestsAssumption == Requests \subseteq AllRequests

VARIABLES
    thread,   \* what each handler is doing and what it has read
    lock,     \* the handler that holds the write lock, or NULL
    work      \* the tables as the write transaction sees them, NULL when there is none

cvars == <<managerOf, inst, alerts, now, thread, lock, work>>

Committed == [managerOf |-> managerOf, inst |-> inst, alerts |-> alerts]

\* What a statement of h reads: its own uncommitted changes, else the last commit.
View(h) == IF lock = h THEN work ELSE Committed

Idle == [pc |-> "idle", req |-> NULL, row |-> NULL, stamp |-> 0, ids |-> {},
         last |-> 0, more |-> FALSE]

Ids(rows) == {a.id : a \in rows}

Serving(kind) == {h \in Handlers : thread[h].pc # "idle" /\ thread[h].req.kind = kind}

(***************************************************************************)
(* Bounds: a request that inserts rows arrives only while the tables have  *)
(* room for it and for those already being served.  A scan alone inserts   *)
(* at most for the instances without an open alert of its type.            *)
(***************************************************************************)
Room(r) ==
    LET Fits(ids, rows, max) ==
            \A n \in {0} \cup ids : n + rows * (Cardinality(Serving(r.kind)) + 1) <= max
        scanned == IF Cardinality(Handlers) = 1
                   THEN Cardinality(DOMAIN inst \ WithOpenAlert(r.type)) ELSE MaxInstances
    IN  CASE r.kind = "create_client" -> Fits(DOMAIN managerOf, 1, MaxClients)
          [] r.kind = "create"        -> Fits(DOMAIN inst, 1, MaxInstances)
          [] r.kind = "scan"          -> Fits(Ids(alerts), scanned, MaxAlerts)
          [] OTHER                    -> TRUE

CInit == /\ Init
         /\ thread = [h \in Handlers |-> Idle]
         /\ lock = NULL
         /\ work = NULL
-------------------------------------------------------------------------------
(***************************************************************************)
(* Arrival: the request is authorised and its first SELECT made, and with  *)
(* the row that read gives it is refused, found to be a no-op, or let      *)
(* through.  Nothing is read again: row is what an UPDATE is computed from. *)
(* A scan reads its clock first, for the 48-hour bound.                    *)
(***************************************************************************)
Arrive(h, r, pc, row) ==
    /\ thread[h].pc = "idle"
    /\ Room(r)
    /\ thread' = [thread EXCEPT ![h] = [Idle EXCEPT !.pc = pc, !.req = r, !.row = row,
                                     !.stamp = IF r.kind = "scan" THEN now ELSE 0]]
    /\ UNCHANGED <<managerOf, inst, alerts, now, lock, work>>

ReceiveCreateClient(h, r) ==
    /\ r.kind = "create_client"
    /\ r.by \in Admins
    /\ Arrive(h, r, "write", NULL)

ReceiveCreate(h, r) ==
    /\ r.kind = "create"
    /\ r.client \in Scope(r.by)
    /\ Arrive(h, r, "stamp", NULL)

ReceiveUpdate(h, r) ==
    /\ r.kind = "update"
    /\ r.id \in DOMAIN inst
    /\ inst[r.id].clientId \in Scope(r.by)
    /\ ~IsNoOp(inst[r.id], r.status, r.cpu)
    /\ Arrive(h, r, "stamp", inst[r.id])

ReceiveDelete(h, r) ==
    /\ r.kind = "delete"
    /\ r.id \in DOMAIN inst
    /\ inst[r.id].clientId \in Scope(r.by)
    /\ inst[r.id].status # "RUNNING"
    /\ Arrive(h, r, "collect", NULL)

\* Mutant: an alert that is resolved already is resolved again.
ReceiveResolveAgain(h, r) ==
    /\ r.kind = "resolve"
    /\ \E a \in alerts :
          /\ a.id = r.id
          /\ a.instanceId \in DOMAIN inst
          /\ inst[a.instanceId].clientId \in Scope(r.by)
          /\ Arrive(h, r, "stamp", NULL)

\* The alert is read joined with its instance; without one the handler fails.
ReceiveResolve(h, r) ==
    /\ r.kind = "resolve"
    /\ \E a \in alerts :
          /\ a.id = r.id
          /\ a.instanceId \in DOMAIN inst
          /\ inst[a.instanceId].clientId \in Scope(r.by)
          /\ IsOpen(a)
          /\ Arrive(h, r, "stamp", NULL)

ReceiveScan(h, r) ==
    /\ r.kind = "scan"
    /\ Arrive(h, r, "batch", NULL)

Receive(h) ==
    \E r \in Requests :
        \/ ReceiveCreateClient(h, r) \/ ReceiveCreate(h, r) \/ ReceiveUpdate(h, r)
        \/ ReceiveDelete(h, r) \/ ReceiveResolve(h, r) \/ ReceiveScan(h, r)

\* updatedAt, launchedAt or resolvedAt := utcnow(), before the flush waits for the lock.
Stamp(h) ==
    /\ thread[h].pc = "stamp"
    /\ thread' = [thread EXCEPT ![h].pc = "write", ![h].stamp = now]
    /\ UNCHANGED <<managerOf, inst, alerts, now, lock, work>>

\* db.delete loads the alerts its cascade will delete.
CollectAlerts(h) ==
    /\ thread[h].pc = "collect"
    /\ thread' = [thread EXCEPT ![h].pc = "write",
                     ![h].ids = {a.id : a \in {b \in alerts : b.instanceId = thread[h].req.id}}]
    /\ UNCHANGED <<managerOf, inst, alerts, now, lock, work>>
-------------------------------------------------------------------------------
\* The columns the UPDATE sets: those whose value differs from the row as it was loaded.
Updated(row, loaded, r, stamp) ==
    LET cpu == NextCpu(r.status, r.cpu)
    IN  [row EXCEPT !.status = IF r.status # loaded.status THEN r.status ELSE @,
                    !.cpuUsage = IF cpu # NULL /\ cpu # loaded.cpuUsage THEN cpu ELSE @,
                    !.updatedAt = stamp]

\* The tables after the statements of each kind of request, on the last committed state.
ClientInserted(r) ==
    LET c == CHOOSE n \in 1..MaxClients : IsNextId(n, DOMAIN managerOf)
    IN  [Committed EXCEPT !.managerOf =
            [d \in DOMAIN managerOf \cup {c} |-> IF d = c THEN r.manager ELSE managerOf[d]]]

InstanceInserted(r, stamp) ==
    LET i == CHOOSE n \in 1..MaxInstances : IsNextId(n, DOMAIN inst)
    IN  [Committed EXCEPT !.inst =
            [j \in DOMAIN inst \cup {i} |->
                IF j = i THEN [clientId |-> r.client, status |-> r.status,
                               cpuUsage |-> r.cpu, updatedAt |-> stamp]
                         ELSE inst[j]]]

InstanceUpdated(r, loaded, stamp) ==
    [Committed EXCEPT !.inst[r.id] = Updated(@, loaded, r, stamp)]

\* Mutant: the DELETE of the instance is not accompanied by one of its alerts.
OnlyInstanceDeleted(r, alertIds) ==
    [Committed EXCEPT !.inst = [j \in DOMAIN inst \ {r.id} |-> inst[j]]]

\* The DELETEs name the alerts that were loaded, and the instance, by their ids.
InstanceDeleted(r, alertIds) ==
    [Committed EXCEPT !.inst = [j \in DOMAIN inst \ {r.id} |-> inst[j]],
                      !.alerts = {a \in alerts : a.id \notin alertIds}]

AlertResolved(r, stamp) ==
    [Committed EXCEPT !.alerts =
        {IF a.id = r.id THEN [a EXCEPT !.resolvedAt = stamp] ELSE a : a \in alerts}]

Written(t) ==
    CASE t.req.kind = "create_client" -> ClientInserted(t.req)
      [] t.req.kind = "create"        -> InstanceInserted(t.req, t.stamp)
      [] t.req.kind = "update"        -> InstanceUpdated(t.req, t.row, t.stamp)
      [] t.req.kind = "delete"        -> InstanceDeleted(t.req, t.ids)
      [] t.req.kind = "resolve"       -> AlertResolved(t.req, t.stamp)

\* An UPDATE of a row that is gone matches nothing and SQLAlchemy raises StaleDataError.
RowGone(r) == \/ r.kind = "update" /\ r.id \notin DOMAIN inst
              \/ r.kind = "resolve" /\ r.id \notin Ids(alerts)

Write(h) ==
    /\ thread[h].pc = "write"
    /\ lock = NULL
    /\ ~RowGone(thread[h].req)
    /\ lock' = h
    /\ work' = Written(thread[h])
    /\ thread' = [thread EXCEPT ![h].pc = "commit"]
    /\ UNCHANGED <<managerOf, inst, alerts, now>>

\* The request fails and rolls back: its row is gone, or the lock did not come in time,
\* held by another handler or by another program that has the file open.
Fail(h) ==
    /\ \/ thread[h].pc = "write" /\ lock = NULL /\ RowGone(thread[h].req)
       \/ thread[h].pc \in {"write", "insert"} /\ lock # h
    /\ thread' = [thread EXCEPT ![h] = Idle]
    /\ UNCHANGED <<managerOf, inst, alerts, now, lock, work>>

Commit(h) ==
    /\ thread[h].pc = "commit"
    /\ managerOf' = work.managerOf
    /\ inst' = work.inst
    /\ alerts' = work.alerts
    /\ lock' = NULL
    /\ work' = NULL
    /\ thread' = [thread EXCEPT ![h] = Idle]
    /\ UNCHANGED now
-------------------------------------------------------------------------------
\* Mutant: the walk resumes one id too far.
MatchesSkippingOne(h) ==
    LET r == thread[h].req
    IN  {i \in DOMAIN View(h).inst : /\ i > thread[h].last + 1 \/ thread[h].last = 0
                                     /\ i > thread[h].last
                                     /\ View(h).inst[i].clientId \in Scope(r.by)
                                     /\ Matches(r.type, View(h).inst[i], thread[h].stamp)}

\* Mutant: the walk forgets where it was.
MatchesFromStart(h) ==
    LET r == thread[h].req
    IN  {i \in DOMAIN View(h).inst : /\ View(h).inst[i].clientId \in Scope(r.by)
                                     /\ Matches(r.type, View(h).inst[i], thread[h].stamp)}

\* The instances the scan's next SELECT ranges over, the first BatchSize of which it gets.
MatchesAfterLast(h) ==
    LET r == thread[h].req
    IN  {i \in DOMAIN View(h).inst : /\ i > thread[h].last
                                     /\ View(h).inst[i].clientId \in Scope(r.by)
                                     /\ Matches(r.type, View(h).inst[i], thread[h].stamp)}

\* Mutant: a scan that recorded nothing commits all the same.
AfterBatchCommit(h, more) ==
    IF more THEN [thread[h] EXCEPT !.pc = "batch", !.ids = {}]
            ELSE [thread[h] EXCEPT !.pc = "commit", !.ids = {}]

\* The batch is done: the next one, or the end of the walk and its commit, if it wrote.
AfterBatch(h, more) ==
    CASE more                 -> [thread[h] EXCEPT !.pc = "batch", !.ids = {}]
      [] ~more /\ lock' = h   -> [thread[h] EXCEPT !.pc = "commit", !.ids = {}]
      [] ~more /\ lock' # h   -> Idle

ReadBatch(h) ==
    /\ thread[h].pc = "batch"
    /\ UNCHANGED <<managerOf, inst, alerts, now, lock, work>>
    /\ LET found == MatchesAfterLast(h)
           batch == {i \in found : Cardinality({j \in found : j <= i}) <= BatchSize}
       IN  IF batch = {}
           THEN thread' = [thread EXCEPT ![h] = AfterBatch(h, FALSE)]
           ELSE thread' = [thread EXCEPT ![h].pc = "probe", ![h].ids = batch,
                              ![h].last = CHOOSE i \in batch : \A j \in batch : j <= i,
                              ![h].more = Cardinality(batch) = BatchSize]

\* Mutant: the dedup probe reads isResolved the wrong way round.
Resolved(h) ==
    {a.instanceId : a \in {b \in View(h).alerts : b.alertType = thread[h].req.type /\ ~IsOpen(b)}}

\* _instances_with_unresolved_alert: the instances with an open alert of the scan's type.
Unresolved(h) ==
    {a.instanceId : a \in {b \in View(h).alerts : b.alertType = thread[h].req.type /\ IsOpen(b)}}

Probe(h) ==
    /\ thread[h].pc = "probe"
    /\ UNCHANGED <<managerOf, inst, alerts, now, lock, work>>
    /\ LET missing == thread[h].ids \ Unresolved(h)
       IN  IF missing = {}
           THEN thread' = [thread EXCEPT ![h] = AfterBatch(h, thread[h].more)]
           ELSE thread' = [thread EXCEPT ![h].pc = "insert", ![h].ids = missing]

InsertAlerts(h) ==
    /\ thread[h].pc = "insert"
    /\ lock \in {NULL, h}
    /\ lock' = h
    /\ \E f \in [thread[h].ids -> 1..MaxAlerts] :
          /\ AreNextIds(f, Ids(View(h).alerts))
          /\ work' = [View(h) EXCEPT !.alerts = @ \cup
                {[id |-> f[i], instanceId |-> i, alertType |-> thread[h].req.type,
                  resolvedAt |-> NULL] : i \in thread[h].ids}]
    /\ thread' = [thread EXCEPT ![h] = AfterBatch(h, thread[h].more)]
    /\ UNCHANGED <<managerOf, inst, alerts, now>>
-------------------------------------------------------------------------------
\* The process dies and starts again: SQLite drops the transaction it had open.
Crash ==
    /\ thread' = [h \in Handlers |-> Idle]
    /\ lock' = NULL
    /\ work' = NULL
    /\ UNCHANGED <<managerOf, inst, alerts, now>>

CTick == Tick /\ UNCHANGED <<thread, lock, work>>

Proceed(h) == \/ Stamp(h) \/ CollectAlerts(h) \/ Write(h) \/ Fail(h) \/ Commit(h)
              \/ ReadBatch(h) \/ Probe(h) \/ InsertAlerts(h)

CNext == \/ \E h \in Handlers : Receive(h) \/ Proceed(h)
         \/ CTick
         \/ Crash

CSpec == CInit /\ [][CNext]_cvars
-------------------------------------------------------------------------------
\* The tables a transaction would commit are as well typed as those that are committed.
TablesOK(t) ==
    /\ DOMAIN t.managerOf \subseteq 1..MaxClients
    /\ t.managerOf \in [DOMAIN t.managerOf -> Managers]
    /\ DOMAIN t.inst \subseteq 1..MaxInstances
    /\ t.inst \in [DOMAIN t.inst -> Instance]
    /\ t.alerts \subseteq Alert
    /\ \A a, b \in t.alerts : a.id = b.id => a = b

CTypeOK ==
    /\ TypeOK
    /\ lock \in Handlers \cup {NULL}
    /\ IF lock = NULL THEN work = NULL ELSE TablesOK(work)
    /\ \A h \in Handlers :
         /\ thread[h].pc \in {"idle", "stamp", "collect", "write", "batch", "probe",
                              "insert", "commit"}
         /\ thread[h].pc # "idle" => thread[h].req \in Requests
         /\ thread[h].pc = "commit" => lock = h

\* Every request that is let through ends: no thread waits for ever, and no scan walks for
\* ever, whatever the other threads do to the tables meanwhile.
EveryRequestEnds == \A h \in Handlers : thread[h].pc # "idle" ~> thread[h].pc = "idle"
===============================================================================
