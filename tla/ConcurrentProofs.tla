--------------------------- MODULE ConcurrentProofs ---------------------------
(***************************************************************************)
(* What the server's threads keep true of the tables and of each other,    *)
(* for every finite number of threads and every set of requests (CInv);    *)
(* that with a single thread MonitoringConcurrent implements Monitoring,   *)
(* for every size of the tables and of a scan's batches (OneInv): what the *)
(* arrival of a request found still holds when it commits, and the batches *)
(* of a scan add up to the one insert of the abstract scan; and that among *)
(* any number of threads a scan loses nothing it owes (ScanInv).           *)
(***************************************************************************)
EXTENDS ScanHistory, MonitoringProofs, FiniteSetTheorems

\* A finite set of numbers has a least member.
LEMMA LeastExists ==
    ASSUME NEW S \in SUBSET Nat, IsFiniteSet(S), S # {}
    PROVE  \E x \in S : \A y \in S : x <= y
<1> DEFINE UpTo(x) == {y \in S : y <= x}
           T == {UpTo(x) : x \in S}
<1>1. IsWellFoundedOn(StrictSubsetOrdering(S), FiniteSubsetsOf(S))
  BY FS_StrictSubsetOrderingWellFounded
<1>2. T \subseteq FiniteSubsetsOf(S) /\ T # {}
  <2>1. \A x \in S : UpTo(x) \in SUBSET S /\ IsFiniteSet(UpTo(x))
    BY FS_Subset
  <2> QED BY <2>1 DEF FiniteSubsetsOf
<1> HIDE DEF T
<1>3. PICK t \in T : \A u \in T : <<u, t>> \notin StrictSubsetOrdering(S)
  BY <1>1, <1>2, WFMin
<1> USE DEF T
<1>4. PICK x \in S : t = UpTo(x)
  OBVIOUS
<1>5. ASSUME NEW y \in S PROVE x <= y
  <2>1. /\ UpTo(y) \in T
        /\ <<UpTo(y), UpTo(x)>> \notin StrictSubsetOrdering(S)
    BY <1>3, <1>4
  <2>2. ~(UpTo(y) \subseteq UpTo(x) /\ UpTo(y) # UpTo(x))
    BY <2>1 DEF StrictSubsetOrdering
  <2>3. CASE y < x
    <3>1. x \in Nat /\ y \in Nat /\ x \in UpTo(x) /\ x \notin UpTo(y)
      BY <2>3
    <3>2. ASSUME NEW z \in S, z <= y PROVE z <= x
      <4>1. z \in Nat
        OBVIOUS
      <4> QED BY <2>3, <3>1, <3>2, <4>1
    <3> QED BY <2>2, <3>1, <3>2
  <2> QED BY <2>3
<1> QED BY <1>5

\* A set of numbers up to b that is not empty has a greatest member.
LEMMA GreatestExists ==
    ASSUME NEW b \in Nat, NEW S \in SUBSET (0..b), S # {}
    PROVE  \E x \in S : \A y \in S : y <= x
<1> DEFINE T == {b - x : x \in S}
<1>1. T \in SUBSET (0..b) /\ T # {} /\ T \in SUBSET Nat
  OBVIOUS
<1>2. IsFiniteSet(T)
  <2>1. IsFiniteSet(0..b)
    BY FS_Interval
  <2> HIDE DEF T
  <2> QED BY <1>1, <2>1, FS_Subset
<1>3. PICK t \in T : \A u \in T : t <= u
  BY <1>1, <1>2, LeastExists
<1>4. PICK x \in S : t = b - x
  OBVIOUS
<1>5. \A y \in S : y <= x
  BY <1>3, <1>4
<1> QED BY <1>5

\* While there is room for one more row, SQLite has an id to give it.
LEMMA NextIdExists ==
    ASSUME NEW b \in Nat, NEW ids \in SUBSET (1..b), \A n \in {0} \cup ids : n + 1 <= b
    PROVE  \E n \in 1..b : IsNextId(n, ids)
<1>1. PICK n \in {0} \cup ids : \A k \in {0} \cup ids : k <= n
  <2>1. {0} \cup ids \in SUBSET (0..b)
    OBVIOUS
  <2> QED BY <2>1, GreatestExists
<1>2. n + 1 \in 1..b /\ n \in Nat /\ \A k \in ids : k \in Nat
  OBVIOUS
<1>3. IsNextId(n + 1, ids)
  BY <1>1, <1>2 DEF IsNextId
<1> QED BY <1>2, <1>3

\* Below the next id there is an id, or the table is empty.
LEMMA NextIdFollows ==
    ASSUME NEW ids \in SUBSET Nat, NEW n \in Nat, IsNextId(n, ids)
    PROVE  n - 1 \in {0} \cup ids
BY DEF IsNextId
-------------------------------------------------------------------------------
Pcs == {"idle", "stamp", "collect", "write", "batch", "probe", "insert", "commit"}

\* What a thread can hold.
Thread == [pc : Pcs, req : Requests \cup {NULL}, row : Instance \cup {NULL}, stamp : Nat,
           ids : SUBSET Nat, last : Nat, more : BOOLEAN]

\* A thread is at a statement of the request it serves, and has read what that needs.
AtItsStatement(t) ==
    t.pc # "idle" =>
        /\ t.req \in Requests
        /\ t.pc = "stamp" => t.req.kind \in {"create", "update", "resolve"}
        /\ t.pc = "collect" => t.req.kind = "delete"
        /\ t.pc = "write" => t.req.kind # "scan"
        /\ t.pc \in {"batch", "probe", "insert"} => t.req.kind = "scan"
        /\ t.pc \in {"probe", "insert"} => t.ids \in SUBSET (1..MaxInstances)
        /\ t.req.kind = "update" => t.row \in Instance

ThreadsOK == thread \in [Handlers -> Thread] /\ \A h \in Handlers : AtItsStatement(thread[h])

\* Only the holder of the write lock has uncommitted changes, and it goes on to commit them.
LockOK ==
    /\ lock \in Handlers \cup {NULL}
    /\ lock = NULL => work = NULL
    /\ lock # NULL => thread[lock].pc \in {"batch", "probe", "insert", "commit"}
    /\ \A h \in Handlers : thread[h].pc = "commit" => lock = h

\* A transaction adds to a table at most the row its request asks for.
AtMostOneMore(rows, committed, kind) ==
    \A n \in DOMAIN rows :
        n \in DOMAIN committed \/ (thread[lock].req.kind = kind /\ n - 1 \in {0} \cup DOMAIN committed)

AreTables(t) == t = [managerOf |-> t.managerOf, inst |-> t.inst, alerts |-> t.alerts]

WorkOK ==
    lock # NULL =>
        /\ AreTables(work) /\ TablesOK(work)
        /\ AtMostOneMore(work.managerOf, managerOf, "create_client")
        /\ AtMostOneMore(work.inst, inst, "create")

\* There is room for the rows of all the requests being served.
RoomFor(rows, kind, max) == \A n \in {0} \cup DOMAIN rows : n + Cardinality(Serving(kind)) <= max

RoomOK == RoomFor(managerOf, "create_client", MaxClients) /\ RoomFor(inst, "create", MaxInstances)

CInv == TypeOK /\ ThreadsOK /\ LockOK /\ WorkOK /\ RoomOK
-------------------------------------------------------------------------------
\* What a request brings, by its kind.
LEMMA RequestFields ==
    ASSUME NEW r \in Requests
    PROVE  /\ r.kind \in {"create_client", "create", "update", "delete", "scan", "resolve"}
           /\ r.by \in Members
           /\ r.kind = "create_client" => r.manager \in Managers
           /\ r.kind = "create" => /\ r.client \in 1..MaxClients
                                   /\ r.status \in Statuses /\ r.cpu \in CpuLevels
           /\ r.kind = "update" => /\ r.id \in 1..MaxInstances
                                   /\ r.status \in Statuses /\ r.cpu \in CpuLevels \cup {NULL}
           /\ r.kind = "delete" => r.id \in 1..MaxInstances
           /\ r.kind = "scan" => r.type \in AlertTypes
           /\ r.kind = "resolve" => r.id \in 1..MaxAlerts
BY RequestsAssumption DEF AllRequests

LEMMA IdleIsOK == Idle \in Thread /\ Idle.pc = "idle" /\ AtItsStatement(Idle)
BY DEF Idle, Thread, Pcs, AtItsStatement

\* The threads serving a kind of request after one thread's step.
LEMMA ServingStep ==
    ASSUME ThreadsOK, NEW h \in Handlers, NEW t \in Thread,
           thread' = [thread EXCEPT ![h] = t], NEW kind
    PROVE  /\ Serving(kind)' = IF t.pc # "idle" /\ t.req.kind = kind
                               THEN Serving(kind) \cup {h} ELSE Serving(kind) \ {h}
           /\ IsFiniteSet(Serving(kind)) /\ Cardinality(Serving(kind)) \in Nat
           /\ Cardinality(Serving(kind) \ {h}) =
                 IF h \in Serving(kind) THEN Cardinality(Serving(kind)) - 1
                                        ELSE Cardinality(Serving(kind))
           /\ Cardinality(Serving(kind) \cup {h}) =
                 IF h \in Serving(kind) THEN Cardinality(Serving(kind))
                                        ELSE Cardinality(Serving(kind)) + 1
<1>1. thread'[h] = t /\ \A g \in Handlers \ {h} : thread'[g] = thread[g]
  BY DEF ThreadsOK
<1>2. Serving(kind)' = IF t.pc # "idle" /\ t.req.kind = kind
                       THEN Serving(kind) \cup {h} ELSE Serving(kind) \ {h}
  BY <1>1 DEF Serving
<1>3. IsFiniteSet(Serving(kind))
  BY HandlersAssumption, FS_Subset DEF Serving
<1> QED BY <1>2, <1>3, FS_CardinalityType, FS_AddElement, FS_RemoveElement

\* Room is kept by a thread that goes on with its request or is done with it, whatever rows
\* go away meanwhile.
LEMMA RoomIsKept ==
    ASSUME CInv, NEW h \in Handlers, NEW t \in Thread,
           thread' = [thread EXCEPT ![h] = t],
           t.pc = "idle" \/ (thread[h].pc # "idle" /\ t.req = thread[h].req),
           UNCHANGED <<managerOf, inst>>
    PROVE  RoomOK'
<1>1. ASSUME NEW kind PROVE /\ Cardinality(Serving(kind)') <= Cardinality(Serving(kind))
                            /\ Cardinality(Serving(kind)') \in Int
                            /\ Cardinality(Serving(kind)) \in Int
  <2>1. t.pc # "idle" /\ t.req.kind = kind => h \in Serving(kind)
    BY DEF Serving
  <2>2. Serving(kind)' = Serving(kind) \/ Serving(kind)' = Serving(kind) \ {h}
    <3>1. Serving(kind)' = IF t.pc # "idle" /\ t.req.kind = kind
                           THEN Serving(kind) \cup {h} ELSE Serving(kind) \ {h}
      BY ServingStep DEF CInv
    <3>2. h \in Serving(kind) => Serving(kind) \cup {h} = Serving(kind)
      OBVIOUS
    <3> QED BY <2>1, <3>1, <3>2
  <2>3. /\ Cardinality(Serving(kind)) \in Nat
        /\ \/ Cardinality(Serving(kind) \ {h}) = Cardinality(Serving(kind)) - 1
           \/ Cardinality(Serving(kind) \ {h}) = Cardinality(Serving(kind))
        /\ Cardinality(Serving(kind) \ {h}) \in Nat
    <3>1. IsFiniteSet(Serving(kind) \ {h})
      BY ServingStep, FS_RemoveElement DEF CInv
    <3> QED BY <3>1, ServingStep, FS_CardinalityType DEF CInv
  <2> QED BY <2>2, <2>3
<1>2. \A n \in DOMAIN managerOf \cup DOMAIN inst : n \in Int
  BY DEF CInv, TypeOK
<1> QED BY <1>1, <1>2, NumbersAssumption DEF CInv, RoomOK, RoomFor

\* A step of one thread that changes nothing but what the thread holds.
LEMMA ThreadStep ==
    ASSUME CInv, NEW h \in Handlers, NEW t \in Thread,
           thread' = [thread EXCEPT ![h] = t], AtItsStatement(t),
           t.pc = "idle" \/ (thread[h].pc # "idle" /\ t.req = thread[h].req),
           lock = h => t.pc \in {"batch", "probe", "insert", "commit"},
           t.pc = "commit" => lock = h,
           UNCHANGED <<managerOf, inst, alerts, now, lock, work>>
    PROVE  CInv'
<1>1. thread'[h] = t /\ \A g \in Handlers \ {h} : thread'[g] = thread[g]
  BY DEF CInv, ThreadsOK
<1>2. TypeOK'
  BY DEF CInv, TypeOK, AlertIdsUnique
<1>3. ThreadsOK'
  BY <1>1 DEF CInv, ThreadsOK
<1>4. LockOK'
  BY <1>1, HandlersAssumption DEF CInv, LockOK
<1>5. WorkOK'
  <2>1. lock # NULL => thread'[lock].req = thread[lock].req
    BY <1>1 DEF CInv, LockOK
  <2> QED BY <2>1 DEF CInv, WorkOK, AtMostOneMore, AreTables, TablesOK
<1>6. RoomOK'
  BY RoomIsKept
<1> QED BY <1>2, <1>3, <1>4, <1>5, <1>6 DEF CInv

\* The arrival of a request leaves room for it, and starts it where its kind begins.
LEMMA ArriveCInv ==
    ASSUME CInv, NEW h \in Handlers, NEW r \in Requests, NEW pc \in {"stamp", "collect", "write", "batch"},
           NEW row \in Instance \cup {NULL}, Arrive(h, r, pc, row),
           pc = "stamp" => r.kind \in {"create", "update", "resolve"},
           pc = "collect" => r.kind = "delete",
           pc = "write" => r.kind # "scan",
           pc = "batch" => r.kind = "scan",
           r.kind = "update" => row \in Instance
    PROVE  CInv'
<1> DEFINE t == [Idle EXCEPT !.pc = pc, !.req = r, !.row = row,
                             !.stamp = IF r.kind = "scan" THEN now ELSE 0]
<1>1. thread' = [thread EXCEPT ![h] = t] /\ thread[h].pc = "idle"
  BY DEF Arrive
<1>2. /\ t \in Thread /\ AtItsStatement(t)
      /\ t.pc = pc /\ t.req = r
  BY DEF Idle, Thread, Pcs, AtItsStatement, CInv, TypeOK
<1> HIDE DEF t
<1>3. thread'[h] = t /\ \A g \in Handlers \ {h} : thread'[g] = thread[g]
  BY <1>1 DEF CInv, ThreadsOK
<1>4. TypeOK'
  BY DEF CInv, TypeOK, AlertIdsUnique, Arrive
<1>5. ThreadsOK'
  BY <1>1, <1>2, <1>3 DEF CInv, ThreadsOK
<1>6. lock # h
  BY <1>1, HandlersAssumption DEF CInv, LockOK
<1>7. LockOK'
  BY <1>2, <1>3, <1>6, HandlersAssumption DEF CInv, LockOK, Arrive
<1>8. WorkOK'
  <2>1. lock # NULL => thread'[lock].req = thread[lock].req
    BY <1>3, <1>6 DEF CInv, LockOK
  <2> QED BY <2>1 DEF CInv, WorkOK, AtMostOneMore, AreTables, TablesOK, Arrive
<1>9. RoomOK'
  <2>1. ASSUME NEW kind
        PROVE  /\ Cardinality(Serving(kind)) \in Nat
               /\ Cardinality(Serving(kind)') = IF r.kind = kind
                                                THEN Cardinality(Serving(kind)) + 1
                                                ELSE Cardinality(Serving(kind))
    <3>1. h \notin Serving(kind) /\ Serving(kind) \ {h} = Serving(kind)
      BY <1>1 DEF Serving
    <3>2. Serving(kind)' = IF r.kind = kind THEN Serving(kind) \cup {h} ELSE Serving(kind) \ {h}
      <4>1. ThreadsOK /\ t \in Thread /\ thread' = [thread EXCEPT ![h] = t]
        BY <1>1, <1>2 DEF CInv
      <4>2. Serving(kind)' = IF t.pc # "idle" /\ t.req.kind = kind
                             THEN Serving(kind) \cup {h} ELSE Serving(kind) \ {h}
        BY ONLY <4>1, ServingStep, h \in Handlers
      <4> QED BY <1>2, <4>2
    <3>3. Cardinality(Serving(kind)) \in Nat
      BY <1>1, <1>2, ServingStep DEF CInv
    <3>4. Cardinality(Serving(kind) \cup {h}) = Cardinality(Serving(kind)) + 1
      BY <1>1, <1>2, <3>1, ServingStep DEF CInv
    <3> QED BY <3>1, <3>2, <3>3, <3>4
  <2>2. Room(r)
    BY DEF Arrive
  <2>3. UNCHANGED <<managerOf, inst>>
    BY DEF Arrive
  <2>4. RoomFor(managerOf, "create_client", MaxClients)'
    <3>1. CASE r.kind = "create_client"
      <4>1. \A n \in {0} \cup DOMAIN managerOf :
               n + 1 * (Cardinality(Serving("create_client")) + 1) <= MaxClients
        BY <2>2, <3>1 DEF Room
      <4> QED BY <2>1, <2>3, <3>1, <4>1 DEF RoomFor
    <3>2. CASE r.kind # "create_client"
      BY <2>1, <2>3, <3>2 DEF RoomFor, CInv, RoomOK
    <3> QED BY <3>1, <3>2
  <2>5. RoomFor(inst, "create", MaxInstances)'
    <3>1. CASE r.kind = "create"
      <4>1. \A n \in {0} \cup DOMAIN inst :
               n + 1 * (Cardinality(Serving("create")) + 1) <= MaxInstances
        BY <2>2, <3>1 DEF Room
      <4> QED BY <2>1, <2>3, <3>1, <4>1 DEF RoomFor
    <3>2. CASE r.kind # "create"
      BY <2>1, <2>3, <3>2 DEF RoomFor, CInv, RoomOK
    <3> QED BY <3>1, <3>2
  <2> QED BY <2>4, <2>5 DEF RoomOK
<1> QED BY <1>4, <1>5, <1>7, <1>8, <1>9 DEF CInv

LEMMA ReceiveCInv ==
    ASSUME CInv, NEW h \in Handlers, Receive(h) PROVE CInv'
<1>1. PICK r \in Requests :
        \/ ReceiveCreateClient(h, r) \/ ReceiveCreate(h, r) \/ ReceiveUpdate(h, r)
        \/ ReceiveDelete(h, r) \/ ReceiveResolve(h, r) \/ ReceiveScan(h, r)
  BY DEF Receive
<1>2. CASE ReceiveCreateClient(h, r)
  BY <1>2, ArriveCInv DEF ReceiveCreateClient, Pcs
<1>3. CASE ReceiveCreate(h, r)
  BY <1>3, ArriveCInv DEF ReceiveCreate, Pcs
<1>4. CASE ReceiveUpdate(h, r)
  <2>1. inst[r.id] \in Instance
    BY <1>4 DEF ReceiveUpdate, CInv, TypeOK
  <2> QED BY <1>4, <2>1, ArriveCInv DEF ReceiveUpdate, Pcs
<1>5. CASE ReceiveDelete(h, r)
  BY <1>5, ArriveCInv DEF ReceiveDelete, Pcs
<1>6. CASE ReceiveResolve(h, r)
  BY <1>6, ArriveCInv DEF ReceiveResolve, Pcs
<1>7. CASE ReceiveScan(h, r)
  BY <1>7, ArriveCInv DEF ReceiveScan, Pcs
<1> QED BY <1>1, <1>2, <1>3, <1>4, <1>5, <1>6, <1>7
-------------------------------------------------------------------------------
\* Where a scan goes on after a batch: to the next one, to its commit, or, having written
\* nothing, to its end.
LEMMA AfterBatchIsOK ==
    ASSUME CInv, NEW h \in Handlers, thread[h].pc \in {"batch", "probe", "insert"},
           NEW more \in BOOLEAN
    PROVE  /\ AfterBatch(h, more) \in Thread /\ AtItsStatement(AfterBatch(h, more))
           /\ AfterBatch(h, more).pc = "idle" \/ AfterBatch(h, more).req = thread[h].req
           /\ lock' = h => AfterBatch(h, more).pc \in {"batch", "commit"}
           /\ AfterBatch(h, more).pc = "commit" => lock' = h
<1>1. thread[h] \in Thread /\ AtItsStatement(thread[h])
  BY DEF CInv, ThreadsOK
<1>2. CASE more
  BY <1>1, <1>2 DEF AfterBatch, Thread, AtItsStatement, Pcs
<1>3. CASE ~more /\ lock' = h
  BY <1>1, <1>3 DEF AfterBatch, Thread, AtItsStatement, Pcs
<1>4. CASE ~more /\ lock' # h
  BY <1>4, IdleIsOK DEF AfterBatch
<1> QED BY <1>2, <1>3, <1>4

\* The numbers of a batch are among those of the tables the scan reads.
LEMMA BatchTyped ==
    ASSUME CInv, NEW h \in Handlers
    PROVE  /\ AreTables(View(h)) /\ TablesOK(View(h))
           /\ MatchesAfterLast(h) \in SUBSET (1..MaxInstances)
<1>1. AreTables(View(h)) /\ TablesOK(View(h))
  BY HandlersAssumption
     DEF View, AreTables, TablesOK, CInv, TypeOK, AlertIdsUnique, WorkOK, Committed
<1>2. MatchesAfterLast(h) \in SUBSET DOMAIN View(h).inst
  BY DEF MatchesAfterLast
<1> QED BY <1>1, <1>2 DEF TablesOK, View, Committed

LEMMA ReadBatchCInv ==
    ASSUME CInv, NEW h \in Handlers, ReadBatch(h) PROVE CInv'
<1> DEFINE found == MatchesAfterLast(h)
           batch == {i \in found : Cardinality({j \in found : j <= i}) <= BatchSize}
           last == CHOOSE i \in batch : \A j \in batch : j <= i
           t == [thread[h] EXCEPT !.pc = "probe", !.ids = batch, !.last = last,
                                  !.more = Cardinality(batch) = BatchSize]
<1>1. /\ thread[h].pc = "batch"
      /\ UNCHANGED <<managerOf, inst, alerts, now, lock, work>>
      /\ thread' = [thread EXCEPT ![h] = IF batch = {} THEN AfterBatch(h, FALSE) ELSE t]
  BY DEF ReadBatch, CInv, ThreadsOK
<1>2. CASE batch = {}
  <2>1. thread' = [thread EXCEPT ![h] = AfterBatch(h, FALSE)]
    BY <1>1, <1>2
  <2> QED BY <1>1, <2>1, AfterBatchIsOK, ThreadStep
<1>3. CASE batch # {}
  <2>1. /\ batch \in SUBSET (0..MaxInstances) /\ batch \in SUBSET Nat
        /\ batch \in SUBSET (1..MaxInstances)
    BY BatchTyped
  <2>2. last \in Nat
    <3>1. \E i \in batch : \A j \in batch : j <= i
      BY <1>3, <2>1, GreatestExists, NumbersAssumption
    <3> HIDE DEF batch
    <3> QED BY <2>1, <3>1
  <2> HIDE DEF batch, last
  <2>3. thread[h] \in Thread /\ AtItsStatement(thread[h])
    BY DEF CInv, ThreadsOK
  <2>4. /\ t \in Thread /\ AtItsStatement(t)
        /\ t.pc = "probe" /\ t.req = thread[h].req
    BY <1>1, <2>1, <2>2, <2>3 DEF Thread, Pcs, AtItsStatement
  <2>5. thread' = [thread EXCEPT ![h] = t]
    BY <1>1, <1>3
  <2> HIDE DEF t
  <2> QED BY <1>1, <2>4, <2>5, ThreadStep
<1> QED BY <1>2, <1>3

LEMMA ProbeCInv ==
    ASSUME CInv, NEW h \in Handlers, Probe(h) PROVE CInv'
<1> DEFINE missing == thread[h].ids \ Unresolved(h)
           t == [thread[h] EXCEPT !.pc = "insert", !.ids = missing]
<1>1. /\ thread[h].pc = "probe"
      /\ UNCHANGED <<managerOf, inst, alerts, now, lock, work>>
      /\ thread' = [thread EXCEPT ![h] = IF missing = {} THEN AfterBatch(h, thread[h].more)
                                                         ELSE t]
  BY DEF Probe, CInv, ThreadsOK
<1>2. thread[h] \in Thread /\ AtItsStatement(thread[h]) /\ thread[h].more \in BOOLEAN
  BY DEF CInv, ThreadsOK, Thread
<1>3. CASE missing = {}
  <2>1. thread' = [thread EXCEPT ![h] = AfterBatch(h, thread[h].more)]
    BY <1>1, <1>3
  <2> QED BY <1>1, <1>2, <2>1, AfterBatchIsOK, ThreadStep
<1>4. CASE missing # {}
  <2>1. /\ t \in Thread /\ AtItsStatement(t)
        /\ t.pc = "insert" /\ t.req = thread[h].req
    BY <1>1, <1>2 DEF Thread, Pcs, AtItsStatement
  <2>2. thread' = [thread EXCEPT ![h] = t]
    BY <1>1, <1>4
  <2> HIDE DEF t
  <2> QED BY <1>1, <2>1, <2>2, ThreadStep
<1> QED BY <1>3, <1>4

LEMMA StampCInv ==
    ASSUME CInv, NEW h \in Handlers, Stamp(h) PROVE CInv'
<1> DEFINE t == [thread[h] EXCEPT !.pc = "write", !.stamp = now]
<1>1. thread[h] \in Thread /\ AtItsStatement(thread[h]) /\ now \in Nat
  BY DEF CInv, ThreadsOK, TypeOK
<1>2. /\ thread[h].pc = "stamp" /\ thread' = [thread EXCEPT ![h] = t]
      /\ UNCHANGED <<managerOf, inst, alerts, now, lock, work>>
  BY DEF Stamp, CInv, ThreadsOK
<1>3. lock # h
  BY <1>2, HandlersAssumption DEF CInv, LockOK
<1>4. /\ t \in Thread /\ AtItsStatement(t)
      /\ t.pc = "write" /\ t.req = thread[h].req
  BY <1>1, <1>2 DEF Thread, Pcs, AtItsStatement
<1> HIDE DEF t
<1> QED BY <1>2, <1>3, <1>4, ThreadStep

LEMMA CollectAlertsCInv ==
    ASSUME CInv, NEW h \in Handlers, CollectAlerts(h) PROVE CInv'
<1> DEFINE ids == {a.id : a \in {b \in alerts : b.instanceId = thread[h].req.id}}
           t == [thread[h] EXCEPT !.pc = "write", !.ids = ids]
<1>1. thread[h] \in Thread /\ AtItsStatement(thread[h]) /\ ids \in SUBSET Nat
  BY DEF CInv, ThreadsOK, TypeOK, Alert
<1>2. /\ thread[h].pc = "collect" /\ thread' = [thread EXCEPT ![h] = t]
      /\ UNCHANGED <<managerOf, inst, alerts, now, lock, work>>
  BY DEF CollectAlerts, CInv, ThreadsOK
<1>3. lock # h
  BY <1>2, HandlersAssumption DEF CInv, LockOK
<1> HIDE DEF ids
<1>4. /\ t \in Thread /\ AtItsStatement(t)
      /\ t.pc = "write" /\ t.req = thread[h].req
  BY <1>1, <1>2 DEF Thread, Pcs, AtItsStatement
<1> HIDE DEF t
<1> QED BY <1>2, <1>3, <1>4, ThreadStep

LEMMA FailCInv ==
    ASSUME CInv, NEW h \in Handlers, Fail(h) PROVE CInv'
<1>1. lock # h
  BY HandlersAssumption DEF Fail
<1> QED BY <1>1, IdleIsOK, ThreadStep DEF Fail

\* A request that is to insert a client or an instance has an id for it.
LEMMA IdsForWrite ==
    ASSUME CInv, NEW h \in Handlers, thread[h].pc = "write"
    PROVE  /\ thread[h].req.kind = "create_client" =>
                 \E n \in 1..MaxClients : IsNextId(n, DOMAIN managerOf)
           /\ thread[h].req.kind = "create" =>
                 \E n \in 1..MaxInstances : IsNextId(n, DOMAIN inst)
<1>1. ASSUME NEW kind, thread[h].req.kind = kind
      PROVE  Cardinality(Serving(kind)) \in Nat /\ Cardinality(Serving(kind)) >= 1
  <2>1. h \in Serving(kind)
    BY <1>1 DEF Serving
  <2>2. IsFiniteSet(Serving(kind))
    BY HandlersAssumption, FS_Subset DEF Serving
  <2> QED BY <2>1, <2>2, FS_EmptySet, FS_CardinalityType
<1>2. DOMAIN managerOf \subseteq 1..MaxClients /\ DOMAIN inst \subseteq 1..MaxInstances
  BY DEF CInv, TypeOK
<1>3. CASE thread[h].req.kind = "create_client"
  <2>1. RoomFor(managerOf, "create_client", MaxClients)
    BY DEF CInv, RoomOK
  <2>2. \A n \in {0} \cup DOMAIN managerOf : n + 1 <= MaxClients
    BY <1>1, <1>2, <1>3, <2>1, NumbersAssumption DEF RoomFor
  <2> QED BY <1>2, <1>3, <2>2, NextIdExists, NumbersAssumption
<1>4. CASE thread[h].req.kind = "create"
  <2>1. RoomFor(inst, "create", MaxInstances)
    BY DEF CInv, RoomOK
  <2>2. \A n \in {0} \cup DOMAIN inst : n + 1 <= MaxInstances
    BY <1>1, <1>2, <1>4, <2>1, NumbersAssumption DEF RoomFor
  <2> QED BY <1>2, <1>4, <2>2, NextIdExists, NumbersAssumption
<1> QED BY <1>3, <1>4

\* What a request writes is well typed, and at most one row more than there is room for.
LEMMA WrittenIsOK ==
    ASSUME CInv, NEW h \in Handlers, thread[h].pc = "write", ~RowGone(thread[h].req)
    PROVE  /\ AreTables(Written(thread[h])) /\ TablesOK(Written(thread[h]))
           /\ \A n \in DOMAIN Written(thread[h]).managerOf :
                 \/ n \in DOMAIN managerOf
                 \/ thread[h].req.kind = "create_client" /\ n - 1 \in {0} \cup DOMAIN managerOf
           /\ \A n \in DOMAIN Written(thread[h]).inst :
                 \/ n \in DOMAIN inst
                 \/ thread[h].req.kind = "create" /\ n - 1 \in {0} \cup DOMAIN inst
<1> DEFINE t == thread[h]
           r == t.req
<1>1. /\ t \in Thread /\ AtItsStatement(t) /\ r \in Requests
      /\ r.kind \in {"create_client", "create", "update", "delete", "resolve"}
      /\ t.stamp \in Nat
  <2>1. t \in Thread /\ AtItsStatement(t)
    BY DEF CInv, ThreadsOK
  <2> QED BY <2>1, RequestFields DEF AtItsStatement, Thread
<1>2. /\ DOMAIN managerOf \subseteq 1..MaxClients
      /\ managerOf \in [DOMAIN managerOf -> Managers]
      /\ DOMAIN inst \subseteq 1..MaxInstances
      /\ inst \in [DOMAIN inst -> Instance]
      /\ alerts \subseteq Alert
      /\ \A a, b \in alerts : a.id = b.id => a = b
  BY DEF CInv, TypeOK, AlertIdsUnique
<1> HIDE DEF t, r
<1>4. CASE r.kind = "create_client"
  <2> DEFINE c == CHOOSE n \in 1..MaxClients : IsNextId(n, DOMAIN managerOf)
  <2>2. c \in 1..MaxClients /\ IsNextId(c, DOMAIN managerOf)
    BY <1>4, IdsForWrite DEF t, r
  <2>3. c - 1 \in {0} \cup DOMAIN managerOf
    BY <1>2, <2>2, NextIdFollows
  <2> HIDE DEF c
  <2>4. Written(t) = [managerOf |-> [d \in DOMAIN managerOf \cup {c} |->
                                       IF d = c THEN r.manager ELSE managerOf[d]],
                      inst |-> inst, alerts |-> alerts]
    BY <1>4 DEF Written, ClientInserted, Committed, c, r
  <2>5. r.manager \in Managers
    BY <1>1, <1>4, RequestFields
  <2> QED BY <1>2, <1>4, <2>2, <2>3, <2>4, <2>5 DEF AreTables, TablesOK, t, r
<1>5. CASE r.kind = "create"
  <2> DEFINE i == CHOOSE n \in 1..MaxInstances : IsNextId(n, DOMAIN inst)
             row == [clientId |-> r.client, status |-> r.status, cpuUsage |-> r.cpu,
                     updatedAt |-> t.stamp]
  <2>2. i \in 1..MaxInstances /\ IsNextId(i, DOMAIN inst)
    BY <1>5, IdsForWrite DEF t, r
  <2>3. i - 1 \in {0} \cup DOMAIN inst
    BY <1>2, <2>2, NextIdFollows
  <2>4. row \in Instance
    BY <1>1, <1>5, RequestFields DEF Instance
  <2> HIDE DEF i
  <2>5. Written(t) = [managerOf |-> managerOf,
                      inst |-> [j \in DOMAIN inst \cup {i} |-> IF j = i THEN row ELSE inst[j]],
                      alerts |-> alerts]
    BY <1>5 DEF Written, InstanceInserted, Committed, i, r
  <2> HIDE DEF row
  <2> QED BY <1>2, <1>5, <2>2, <2>3, <2>4, <2>5 DEF AreTables, TablesOK, t, r
<1>6. CASE r.kind = "update"
  <2> DEFINE row == Updated(inst[r.id], t.row, r, t.stamp)
  <2>1. r.id \in DOMAIN inst
    BY <1>6 DEF RowGone, t, r
  <2>2. row \in Instance
    <3>1. inst[r.id] \in Instance /\ r.status \in Statuses
      BY <1>1, <1>2, <1>6, <2>1, RequestFields
    <3>2. NextCpu(r.status, r.cpu) \in CpuLevels \cup {NULL}
      BY <1>1, <1>6, RequestFields, NumbersAssumption DEF NextCpu
    <3> QED BY <1>1, <3>1, <3>2 DEF Updated, Instance
  <2> HIDE DEF row
  <2>3. Written(t) = [managerOf |-> managerOf, inst |-> [inst EXCEPT ![r.id] = row],
                      alerts |-> alerts]
    BY <1>6 DEF Written, InstanceUpdated, Committed, row, r
  <2> QED BY <1>2, <2>1, <2>2, <2>3 DEF AreTables, TablesOK, t, r
<1>7. CASE r.kind = "delete"
  <2>1. Written(t) = [managerOf |-> managerOf, inst |-> [j \in DOMAIN inst \ {r.id} |-> inst[j]],
                      alerts |-> {a \in alerts : a.id \notin t.ids}]
    BY <1>7 DEF Written, InstanceDeleted, Committed, r
  <2> QED BY <1>2, <2>1 DEF AreTables, TablesOK, t, r
<1>8. CASE r.kind = "resolve"
  <2> DEFINE rows == {IF a.id = r.id THEN [a EXCEPT !.resolvedAt = t.stamp] ELSE a : a \in alerts}
  <2>1. Written(t) = [managerOf |-> managerOf, inst |-> inst, alerts |-> rows]
    BY <1>8 DEF Written, AlertResolved, Committed, r
  <2>2. \A a \in alerts : /\ [a EXCEPT !.resolvedAt = t.stamp] \in Alert
                          /\ [a EXCEPT !.resolvedAt = t.stamp].id = a.id
    BY <1>1, <1>2 DEF Alert
  <2>3. rows \subseteq Alert
    BY <1>2, <2>2
  <2>4. ASSUME NEW a \in rows, NEW b \in rows, a.id = b.id PROVE a = b
    <3>1. PICK a0 \in alerts : a = IF a0.id = r.id THEN [a0 EXCEPT !.resolvedAt = t.stamp] ELSE a0
      OBVIOUS
    <3>2. PICK b0 \in alerts : b = IF b0.id = r.id THEN [b0 EXCEPT !.resolvedAt = t.stamp] ELSE b0
      OBVIOUS
    <3>3. a0.id = a.id /\ b0.id = b.id
      BY <2>2, <3>1, <3>2
    <3>4. a0 = b0
      BY <1>2, <2>4, <3>3
    <3> QED BY <3>1, <3>2, <3>4
  <2> HIDE DEF rows
  <2> QED BY <1>2, <2>1, <2>3, <2>4 DEF AreTables, TablesOK, t, r
<1> QED BY <1>1, <1>4, <1>5, <1>6, <1>7, <1>8 DEF t, r

LEMMA WriteCInv ==
    ASSUME CInv, NEW h \in Handlers, Write(h) PROVE CInv'
<1> DEFINE t == [thread[h] EXCEPT !.pc = "commit"]
<1>1. thread[h] \in Thread /\ AtItsStatement(thread[h])
  BY DEF CInv, ThreadsOK
<1>2. /\ thread[h].pc = "write" /\ lock = NULL /\ lock' = h
      /\ work' = Written(thread[h])
      /\ UNCHANGED <<managerOf, inst, alerts, now>>
      /\ thread' = [thread EXCEPT ![h] = t]
  BY DEF Write, CInv, ThreadsOK
<1>3. /\ t \in Thread /\ AtItsStatement(t)
      /\ t.pc = "commit" /\ t.req = thread[h].req
  BY <1>1, <1>2 DEF Thread, Pcs, AtItsStatement
<1> HIDE DEF t
<1>4. thread'[h] = t /\ \A g \in Handlers \ {h} : thread'[g] = thread[g]
  BY <1>2 DEF CInv, ThreadsOK
<1>5. TypeOK'
  BY <1>2 DEF CInv, TypeOK, AlertIdsUnique
<1>6. ThreadsOK'
  BY <1>2, <1>3, <1>4 DEF CInv, ThreadsOK
<1>7. LockOK'
  BY <1>2, <1>3, <1>4, HandlersAssumption DEF CInv, LockOK
<1>8. WorkOK'
  <2>1. /\ AreTables(work') /\ TablesOK(work')
        /\ \A n \in DOMAIN work'.managerOf :
              \/ n \in DOMAIN managerOf
              \/ thread[h].req.kind = "create_client" /\ n - 1 \in {0} \cup DOMAIN managerOf
        /\ \A n \in DOMAIN work'.inst :
              \/ n \in DOMAIN inst
              \/ thread[h].req.kind = "create" /\ n - 1 \in {0} \cup DOMAIN inst
    BY <1>2, WrittenIsOK DEF Write
  <2> QED BY <1>2, <1>3, <1>4, <2>1 DEF WorkOK, AtMostOneMore, AreTables, TablesOK
<1>9. RoomOK'
  BY <1>2, <1>3, RoomIsKept
<1> QED BY <1>5, <1>6, <1>7, <1>8, <1>9 DEF CInv

\* A commit uses the room its request was given and leaves the rest.
LEMMA CommitCInv ==
    ASSUME CInv, NEW h \in Handlers, Commit(h) PROVE CInv'
<1>1. /\ thread[h].pc = "commit" /\ lock = h /\ lock # NULL
      /\ managerOf' = work.managerOf /\ inst' = work.inst /\ alerts' = work.alerts
      /\ lock' = NULL /\ work' = NULL /\ now' = now
      /\ thread' = [thread EXCEPT ![h] = Idle]
  BY HandlersAssumption DEF Commit, CInv, LockOK
<1>2. thread'[h] = Idle /\ \A g \in Handlers \ {h} : thread'[g] = thread[g]
  BY <1>1 DEF CInv, ThreadsOK
<1>3. TypeOK'
  BY <1>1 DEF CInv, TypeOK, WorkOK, TablesOK, AlertIdsUnique
<1>4. ThreadsOK'
  BY <1>1, <1>2, IdleIsOK DEF CInv, ThreadsOK
<1>5. LockOK'
  BY <1>1, <1>2, IdleIsOK DEF CInv, LockOK
<1>6. WorkOK'
  BY <1>1 DEF WorkOK
<1>7. ASSUME NEW kind
      PROVE  /\ Cardinality(Serving(kind)) \in Nat
             /\ Cardinality(Serving(kind)') = IF thread[h].req.kind = kind
                                              THEN Cardinality(Serving(kind)) - 1
                                              ELSE Cardinality(Serving(kind))
  <2>1. h \in Serving(kind) <=> thread[h].req.kind = kind
    BY <1>1 DEF Serving
  <2>2. ThreadsOK /\ Idle \in Thread
    BY IdleIsOK DEF CInv
  <2>3. Serving(kind)' = IF Idle.pc # "idle" /\ Idle.req.kind = kind
                         THEN Serving(kind) \cup {h} ELSE Serving(kind) \ {h}
    BY ONLY <1>1, <2>2, ServingStep, h \in Handlers
  <2>4. Serving(kind)' = Serving(kind) \ {h}
    BY <2>3, IdleIsOK
  <2>5. /\ Cardinality(Serving(kind)) \in Nat
        /\ Cardinality(Serving(kind) \ {h}) =
                 IF h \in Serving(kind) THEN Cardinality(Serving(kind)) - 1
                                        ELSE Cardinality(Serving(kind))
    BY ONLY <1>1, <2>2, ServingStep, h \in Handlers
  <2> QED BY <2>1, <2>4, <2>5
<1>8. RoomFor(managerOf, "create_client", MaxClients)'
  <2>1. /\ AtMostOneMore(work.managerOf, managerOf, "create_client")
        /\ RoomFor(managerOf, "create_client", MaxClients)
        /\ DOMAIN managerOf \subseteq Nat
    BY <1>1 DEF CInv, WorkOK, RoomOK, TypeOK
  <2>2. SUFFICES ASSUME NEW n \in {0} \cup DOMAIN work.managerOf
                 PROVE  n + Cardinality(Serving("create_client")') <= MaxClients
    BY <1>1 DEF RoomFor
  <2>3. CASE n \in {0} \cup DOMAIN managerOf
    BY <1>7, <2>1, <2>3, NumbersAssumption DEF RoomFor
  <2>4. CASE thread[h].req.kind = "create_client" /\ n - 1 \in {0} \cup DOMAIN managerOf
    <3>1. n \in Nat
      BY <1>1 DEF CInv, WorkOK, TablesOK
    <3>2. n - 1 + Cardinality(Serving("create_client")) <= MaxClients
      BY <2>1, <2>4 DEF RoomFor
    <3> QED BY <1>7, <2>4, <3>1, <3>2, NumbersAssumption
  <2> QED BY <1>1, <2>1, <2>3, <2>4 DEF AtMostOneMore
<1>9. RoomFor(inst, "create", MaxInstances)'
  <2>1. /\ AtMostOneMore(work.inst, inst, "create")
        /\ RoomFor(inst, "create", MaxInstances)
        /\ DOMAIN inst \subseteq Nat
    BY <1>1 DEF CInv, WorkOK, RoomOK, TypeOK
  <2>2. SUFFICES ASSUME NEW n \in {0} \cup DOMAIN work.inst
                 PROVE  n + Cardinality(Serving("create")') <= MaxInstances
    BY <1>1 DEF RoomFor
  <2>3. CASE n \in {0} \cup DOMAIN inst
    BY <1>7, <2>1, <2>3, NumbersAssumption DEF RoomFor
  <2>4. CASE thread[h].req.kind = "create" /\ n - 1 \in {0} \cup DOMAIN inst
    <3>1. n \in Nat
      BY <1>1 DEF CInv, WorkOK, TablesOK
    <3>2. n - 1 + Cardinality(Serving("create")) <= MaxInstances
      BY <2>1, <2>4 DEF RoomFor
    <3> QED BY <1>7, <2>4, <3>1, <3>2, NumbersAssumption
  <2> QED BY <1>1, <2>1, <2>3, <2>4 DEF AtMostOneMore
<1> QED BY <1>3, <1>4, <1>5, <1>6, <1>8, <1>9 DEF CInv, RoomOK

\* The alerts a batch inserts are well typed, and their ids are free.
LEMMA InsertedIsOK ==
    ASSUME CInv, NEW h \in Handlers, thread[h].pc = "insert",
           NEW f \in [thread[h].ids -> 1..MaxAlerts], AreNextIds(f, Ids(View(h).alerts))
    PROVE  LET new == Recorded(f, thread[h].req.type)
               w == [View(h) EXCEPT !.alerts = @ \cup new]
           IN  AreTables(w) /\ TablesOK(w)
<1> DEFINE ids == thread[h].ids
           old == View(h).alerts
           new == Recorded(f, thread[h].req.type)
<1>1. ids \in SUBSET (1..MaxInstances) /\ ids \in SUBSET Nat /\ thread[h].req.type \in AlertTypes
  BY RequestFields DEF CInv, ThreadsOK, AtItsStatement
<1>2. AreTables(View(h)) /\ TablesOK(View(h))
  BY BatchTyped
<1>3. /\ old \subseteq Alert /\ \A a, b \in old : a.id = b.id => a = b
      /\ Ids(old) \in SUBSET Nat /\ f \in [ids -> Nat]
  BY <1>2, NumbersAssumption DEF TablesOK, Ids, Alert
<1>4. /\ \A i \in ids : f[i] \notin Ids(old)
      /\ \A i, j \in ids : f[i] = f[j] => i = j
  <2>1. AreNextIds(f, Ids(old))
    OBVIOUS
  <2> HIDE DEF ids, old
  <2> QED BY <1>1, <1>3, <2>1, NextIdsAreFresh
<1>5. new \subseteq Alert
  BY <1>1 DEF Alert, Recorded
<1>6. ASSUME NEW a \in old \cup new, NEW b \in old \cup new, a.id = b.id PROVE a = b
  <2>1. \A x \in new : \E i \in ids : x = [id |-> f[i], instanceId |-> i,
                          alertType |-> thread[h].req.type, resolvedAt |-> NULL]
    BY DEF Recorded
  <2>2. \A x \in old : x.id \in Ids(old)
    BY DEF Ids
  <2> HIDE DEF ids, old, new
  <2> QED BY <1>3, <1>4, <1>6, <2>1, <2>2
<1>7. [View(h) EXCEPT !.alerts = @ \cup new] = [managerOf |-> View(h).managerOf,
                                               inst |-> View(h).inst, alerts |-> old \cup new]
  BY <1>2 DEF AreTables
<1> QED BY <1>2, <1>3, <1>5, <1>6, <1>7 DEF AreTables, TablesOK

\* InsertAlerts, with the rows it inserts named.
LEMMA InsertAlertsEffect ==
    ASSUME NEW h \in Handlers, InsertAlerts(h)
    PROVE  \E f \in [thread[h].ids -> 1..MaxAlerts] :
              /\ AreNextIds(f, Ids(View(h).alerts))
              /\ work' = [View(h) EXCEPT !.alerts = @ \cup Recorded(f, thread[h].req.type)]
BY DEF InsertAlerts, Recorded

LEMMA InsertAlertsCInv ==
    ASSUME CInv, NEW h \in Handlers, InsertAlerts(h) PROVE CInv'
<1> DEFINE t == AfterBatch(h, thread[h].more)
<1>1. /\ thread[h].pc = "insert" /\ lock \in {NULL, h} /\ lock' = h
      /\ UNCHANGED <<managerOf, inst, alerts, now>>
      /\ thread' = [thread EXCEPT ![h] = t]
  BY DEF InsertAlerts
<1>2. thread[h] \in Thread /\ AtItsStatement(thread[h]) /\ thread[h].more \in BOOLEAN
  BY DEF CInv, ThreadsOK, Thread
<1>3. /\ t \in Thread /\ AtItsStatement(t) /\ t.pc \in {"batch", "commit"}
      /\ t.req = thread[h].req
  BY <1>1, <1>2, AfterBatchIsOK
<1> HIDE DEF t
<1>4. thread'[h] = t /\ \A g \in Handlers \ {h} : thread'[g] = thread[g]
  BY <1>1 DEF CInv, ThreadsOK
<1>5. PICK f \in [thread[h].ids -> 1..MaxAlerts] :
         /\ AreNextIds(f, Ids(View(h).alerts))
         /\ work' = [View(h) EXCEPT !.alerts = @ \cup Recorded(f, thread[h].req.type)]
  BY InsertAlertsEffect
<1>6. AreTables(work') /\ TablesOK(work')
  BY <1>1, <1>5, InsertedIsOK
<1>7. TypeOK'
  BY <1>1 DEF CInv, TypeOK, AlertIdsUnique
<1>8. ThreadsOK'
  BY <1>1, <1>3, <1>4 DEF CInv, ThreadsOK
<1>9. LockOK'
  BY <1>1, <1>3, <1>4, HandlersAssumption DEF CInv, LockOK
<1>10. WorkOK'
  <2>1. work'.managerOf = View(h).managerOf /\ work'.inst = View(h).inst
    BY <1>5, BatchTyped DEF AreTables
  <2>2. CASE lock = h
    BY <1>1, <1>3, <1>4, <1>6, <2>1, <2>2, HandlersAssumption
       DEF View, CInv, WorkOK, AtMostOneMore, AreTables, TablesOK
  <2>3. CASE lock = NULL
    <3>1. View(h) = Committed
      BY <2>3, HandlersAssumption DEF View
    <3> QED BY <1>1, <1>6, <2>1, <3>1
            DEF Committed, WorkOK, AtMostOneMore, AreTables, TablesOK
  <2> QED BY <1>1, <2>2, <2>3
<1>11. RoomOK'
  BY <1>1, <1>3, RoomIsKept
<1> QED BY <1>7, <1>8, <1>9, <1>10, <1>11 DEF CInv

LEMMA CrashCInv == ASSUME CInv, Crash PROVE CInv'
<1>1. /\ thread' = [h \in Handlers |-> Idle] /\ lock' = NULL /\ work' = NULL
      /\ UNCHANGED <<managerOf, inst, alerts, now>>
  BY DEF Crash
<1>2. TypeOK' /\ ThreadsOK' /\ LockOK' /\ WorkOK'
  BY <1>1, IdleIsOK DEF CInv, TypeOK, AlertIdsUnique, ThreadsOK, LockOK, WorkOK
<1>3. ASSUME NEW kind PROVE /\ Cardinality(Serving(kind)') = 0
                            /\ Cardinality(Serving(kind)) \in Nat
  <2>1. Serving(kind)' = {}
    BY <1>1, IdleIsOK DEF Serving
  <2>2. IsFiniteSet(Serving(kind))
    BY HandlersAssumption, FS_Subset DEF Serving
  <2> QED BY <2>1, <2>2, FS_EmptySet, FS_CardinalityType
<1>4. \A n \in DOMAIN managerOf \cup DOMAIN inst : n \in Nat
  BY DEF CInv, TypeOK
<1>5. RoomOK'
  BY <1>1, <1>3, <1>4, NumbersAssumption DEF CInv, RoomOK, RoomFor
<1> QED BY <1>2, <1>5 DEF CInv

LEMMA UnchangedCInv == ASSUME CInv, UNCHANGED <<managerOf, inst, alerts, thread, lock, work>>,
                              now' \in Nat
                       PROVE  CInv'
<1>1. TypeOK' /\ ThreadsOK' /\ LockOK'
  BY DEF CInv, TypeOK, AlertIdsUnique, ThreadsOK, LockOK
<1>2. WorkOK'
  BY DEF CInv, WorkOK, AtMostOneMore, AreTables, TablesOK
<1>3. RoomOK'
  BY DEF CInv, RoomOK, RoomFor, Serving
<1> QED BY <1>1, <1>2, <1>3 DEF CInv

LEMMA InitCInv == CInit => CInv
<1> SUFFICES ASSUME CInit PROVE CInv
  OBVIOUS
<1>1. Init /\ thread = [h \in Handlers |-> Idle] /\ lock = NULL /\ work = NULL
  BY DEF CInit
<1>2. TypeOK
  BY <1>1, InitIInv DEF IInv
<1>3. ThreadsOK /\ LockOK /\ WorkOK
  BY <1>1, IdleIsOK DEF ThreadsOK, LockOK, WorkOK
<1>4. ASSUME NEW kind PROVE Cardinality(Serving(kind)) = 0
  <2>1. Serving(kind) = {}
    BY <1>1, IdleIsOK DEF Serving
  <2> QED BY <2>1, FS_EmptySet
<1>5. RoomOK
  BY <1>1, <1>2, <1>4, NumbersAssumption DEF RoomOK, RoomFor, Init, TypeOK
<1> QED BY <1>2, <1>3, <1>5 DEF CInv

\* Every step of every thread, of the clock and of a restart preserves CInv.
LEMMA NextCInv == CInv /\ [CNext]_cvars => CInv'
<1> SUFFICES ASSUME CInv, [CNext]_cvars PROVE CInv'
  OBVIOUS
<1>1. CASE UNCHANGED cvars
  BY <1>1, UnchangedCInv DEF cvars, CInv, TypeOK
<1>2. CASE CTick
  BY <1>2, UnchangedCInv DEF CTick, Tick, CInv, TypeOK
<1>3. CASE Crash
  BY <1>3, CrashCInv
<1>4. ASSUME NEW h \in Handlers, Receive(h) PROVE CInv'
  BY <1>4, ReceiveCInv
<1>5. ASSUME NEW h \in Handlers, Proceed(h) PROVE CInv'
  BY <1>5, StampCInv, CollectAlertsCInv, WriteCInv, FailCInv, CommitCInv, ReadBatchCInv,
     ProbeCInv, InsertAlertsCInv DEF Proceed
<1> QED BY <1>1, <1>2, <1>3, <1>4, <1>5 DEF CNext

\* What the threads preserve holds in every state of the server.
THEOREM CInvHolds == CSpec => []CInv
BY InitCInv, NextCInv, PTL DEF CSpec

\* However many threads interleave their statements, and wherever one fails or the process
\* dies, what is committed and what a transaction is about to commit stay well typed, no
\* two alerts share an id, and only the thread that holds the write lock commits.
THEOREM ThreadsTypeCorrectness == CSpec => []CTypeOK
<1>1. CInv => CTypeOK
  BY HandlersAssumption DEF CInv, CTypeOK, ThreadsOK, LockOK, WorkOK, AtItsStatement, Thread, Pcs
<1> QED BY <1>1, CInvHolds, PTL
-------------------------------------------------------------------------------
(***************************************************************************)
(* A single thread.  W are the committed tables, V those its transaction   *)
(* sees.  What its request found when it arrived (Stands) is still so when *)
(* it writes and when it commits.                                          *)
(***************************************************************************)
ScopeIn(m, W) == IF m \in Admins THEN DOMAIN W.managerOf
                                 ELSE {c \in DOMAIN W.managerOf : W.managerOf[c] = m}

UpdateStands(t, W) ==
    LET r == t.req IN
    /\ r.id \in DOMAIN W.inst /\ t.row = W.inst[r.id]
    /\ W.inst[r.id].clientId \in ScopeIn(r.by, W)
    /\ ~IsNoOp(W.inst[r.id], r.status, r.cpu)
    /\ t.pc \in {"write", "commit"} => t.stamp >= W.inst[r.id].updatedAt

DeleteStands(t, W) ==
    LET r == t.req IN
    /\ r.id \in DOMAIN W.inst
    /\ W.inst[r.id].clientId \in ScopeIn(r.by, W)
    /\ W.inst[r.id].status # "RUNNING"
    /\ t.pc = "write" => t.ids = {a.id : a \in {b \in W.alerts : b.instanceId = r.id}}

\* a is the alert the request resolves, and it may.
Resolves(r, a, W) ==
    /\ a \in W.alerts /\ a.id = r.id /\ IsOpen(a)
    /\ a.instanceId \in DOMAIN W.inst
    /\ W.inst[a.instanceId].clientId \in ScopeIn(r.by, W)

Stands(t, W) ==
    t.pc # "idle" =>
        /\ t.req.kind = "create_client" => t.req.by \in Admins
        /\ t.req.kind = "create" => t.req.client \in ScopeIn(t.req.by, W)
        /\ t.req.kind = "update" => UpdateStands(t, W)
        /\ t.req.kind = "delete" => DeleteStands(t, W)
        /\ t.req.kind = "resolve" => \E a \in W.alerts : Resolves(t.req, a, W)

\* What the transaction of a request other than a scan has made of the committed tables.
Wrote(r, stamp, W, V) ==
    /\ r.kind = "create_client" =>
          /\ V.inst = W.inst /\ V.alerts = W.alerts
          /\ \E c \in 1..MaxClients :
                /\ IsNextId(c, DOMAIN W.managerOf)
                /\ V.managerOf = [d \in DOMAIN W.managerOf \cup {c} |->
                                     IF d = c THEN r.manager ELSE W.managerOf[d]]
    /\ r.kind = "create" =>
          /\ V.managerOf = W.managerOf /\ V.alerts = W.alerts
          /\ \E i \in 1..MaxInstances :
                /\ IsNextId(i, DOMAIN W.inst)
                /\ V.inst = [j \in DOMAIN W.inst \cup {i} |->
                                IF j = i THEN [clientId |-> r.client, status |-> r.status,
                                               cpuUsage |-> r.cpu, updatedAt |-> stamp]
                                         ELSE W.inst[j]]
    /\ r.kind = "update" =>
          /\ V.managerOf = W.managerOf /\ V.alerts = W.alerts
          /\ V.inst = [W.inst EXCEPT ![r.id] = Applied(@, r.status, r.cpu, stamp)]
    /\ r.kind = "delete" =>
          /\ V.managerOf = W.managerOf
          /\ V.inst = [j \in DOMAIN W.inst \ {r.id} |-> W.inst[j]]
          /\ V.alerts = {a \in W.alerts : a.instanceId # r.id}
    /\ r.kind = "resolve" =>
          /\ V.managerOf = W.managerOf /\ V.inst = W.inst
          /\ \E a \in W.alerts :
                /\ Resolves(r, a, W)
                /\ V.alerts = (W.alerts \ {a}) \cup {[a EXCEPT !.resolvedAt = stamp]}

\* The instances a scan looks for, those of them without an open alert, and those the walk
\* has come past.
Found(t, W) == {i \in DOMAIN W.inst : /\ W.inst[i].clientId \in ScopeIn(t.req.by, W)
                                      /\ Matches(t.req.type, W.inst[i], t.stamp)}
Missing(t, W) == Found(t, W) \ {a.instanceId : a \in {b \in W.alerts : b.alertType = t.req.type
                                                                       /\ IsOpen(b)}}
Passed(t, W) == {i \in Found(t, W) : i <= t.last}

\* Batch by batch a scan inserts what one insert for all it is missing would.
Recording(t, W, V, done, f) ==
    /\ AreNextIds(f, Ids(W.alerts))
    /\ V.alerts = W.alerts \cup Recorded(f, t.req.type)
    /\ t.pc = "batch" => done = Passed(t, W) \cap Missing(t, W)
    /\ t.pc \in {"probe", "insert"} =>
          /\ t.ids \subseteq Found(t, W)
          /\ \A i \in done, j \in t.ids : i < j
          /\ Passed(t, W) \cap Missing(t, W) = done \cup (t.ids \cap Missing(t, W))
          /\ ~t.more => Passed(t, W) = Found(t, W)
    /\ t.pc = "insert" => t.ids \subseteq Missing(t, W)
    /\ t.pc = "commit" => done = Missing(t, W)

ScanStands(t, W, V) ==
    /\ V.managerOf = W.managerOf /\ V.inst = W.inst
    /\ \E done \in SUBSET Missing(t, W) : \E f \in [done -> 1..MaxAlerts] :
          Recording(t, W, V, done, f)

OneInv(h) ==
    /\ CInv /\ OneOpenAlert /\ NoOrphanAlert
    /\ now <= MaxTime /\ \A i \in DOMAIN inst : inst[i].updatedAt <= now
    /\ thread[h].stamp <= now
    /\ Stands(thread[h], Committed)
    /\ thread[h].pc = "commit" /\ thread[h].req.kind # "scan" =>
          Wrote(thread[h].req, thread[h].stamp, Committed, work)
    /\ Scanning(thread[h]) => ScanStands(thread[h], Committed, View(h))

LEMMA ScopeOfCommitted == \A m : Scope(m) = ScopeIn(m, Committed)
BY DEF Scope, ScopeIn, Committed

LEMMA FoundIsDetected ==
    ASSUME NEW t
    PROVE  /\ Found(t, Committed) = Detected(t.req.by, t.req.type, t.stamp)
           /\ Missing(t, Committed) =
                 Detected(t.req.by, t.req.type, t.stamp) \ WithOpenAlert(t.req.type)
<1>1. Found(t, Committed) = Detected(t.req.by, t.req.type, t.stamp)
  BY ScopeOfCommitted DEF Found, Detected, Committed
<1> QED BY <1>1 DEF Missing, WithOpenAlert, Committed

\* A step before the commit changes no committed table: what is left to show is what the
\* thread and its transaction hold after it.
LEMMA KeptOneInv ==
    ASSUME NEW h \in Handlers, OneInv(h), CInv', UNCHANGED <<managerOf, inst, alerts, now>>,
           thread'[h].stamp <= now, Stands(thread'[h], Committed),
           thread'[h].pc = "commit" /\ thread'[h].req.kind # "scan" =>
              Wrote(thread'[h].req, thread'[h].stamp, Committed, work'),
           Scanning(thread'[h]) =>
              ScanStands(thread'[h], Committed, IF lock' = h THEN work' ELSE Committed)
    PROVE  OneInv(h)'
<1>1. Committed' = Committed
  BY DEF Committed
<1>2. OneOpenAlert' /\ NoOrphanAlert' /\ now' <= MaxTime
      /\ \A i \in DOMAIN inst' : inst'[i].updatedAt <= now'
  BY DEF OneInv, OneOpenAlert, NoOrphanAlert, IsOpen
<1>3. View(h)' = IF lock' = h THEN work' ELSE Committed
  BY <1>1 DEF View
<1>4. Stands(thread[h], Committed)'
  BY <1>1
<1>5. (thread[h].pc = "commit" /\ thread[h].req.kind # "scan" =>
         Wrote(thread[h].req, thread[h].stamp, Committed, work))'
  BY <1>1
<1>6. (Scanning(thread[h]) => ScanStands(thread[h], Committed, View(h)))'
  BY <1>1, <1>3
<1> QED BY <1>2, <1>4, <1>5, <1>6 DEF OneInv

\* When the thread is done with its request nothing is left to show.
LEMMA IdleOneInv ==
    ASSUME NEW h \in Handlers, OneInv(h), CInv', UNCHANGED <<managerOf, inst, alerts, now>>,
           thread'[h] = Idle
    PROVE  OneInv(h)'
<1>1. Idle.stamp = 0 /\ Idle.pc = "idle" /\ 0 <= now
  BY DEF Idle, OneInv, CInv, TypeOK
<1> QED BY <1>1, KeptOneInv DEF Stands, Scanning

\* An arriving request found what it needs in the committed tables.
LEMMA ArriveOneInv ==
    ASSUME NEW h \in Handlers, Handlers = {h}, OneInv(h), CInv',
           NEW r \in Requests, NEW pc \in {"stamp", "collect", "write", "batch"}, NEW row,
           Arrive(h, r, pc, row), r.kind = "scan" <=> pc = "batch",
           r.kind = "create_client" => r.by \in Admins,
           r.kind = "create" => r.client \in Scope(r.by),
           r.kind = "update" =>
              /\ pc = "stamp" /\ row = inst[r.id]
              /\ r.id \in DOMAIN inst /\ inst[r.id].clientId \in Scope(r.by)
              /\ ~IsNoOp(inst[r.id], r.status, r.cpu),
           r.kind = "delete" =>
              /\ pc = "collect"
              /\ r.id \in DOMAIN inst /\ inst[r.id].clientId \in Scope(r.by)
              /\ inst[r.id].status # "RUNNING",
           r.kind = "resolve" => \E a \in alerts :
              /\ a.id = r.id /\ IsOpen(a) /\ a.instanceId \in DOMAIN inst
              /\ inst[a.instanceId].clientId \in Scope(r.by)
    PROVE  OneInv(h)'
<1> DEFINE t == [Idle EXCEPT !.pc = pc, !.req = r, !.row = row,
                             !.stamp = IF r.kind = "scan" THEN now ELSE 0]
<1>1. thread'[h] = t /\ UNCHANGED <<managerOf, inst, alerts, now, lock, work>>
      /\ thread[h].pc = "idle" /\ now \in Nat
  BY DEF Arrive, OneInv, CInv, ThreadsOK, TypeOK
<1>2. /\ t.pc = pc /\ t.req = r /\ t.row = row /\ t.last = 0 /\ t.ids = {}
      /\ t.stamp = IF r.kind = "scan" THEN now ELSE 0
  BY DEF Idle
<1> HIDE DEF t
<1>3. t.stamp <= now
  BY <1>1, <1>2
<1>4. Stands(t, Committed)
  <2>1. Committed.inst = inst /\ Committed.alerts = alerts
    BY DEF Committed
  <2>2. r.kind = "update" => UpdateStands(t, Committed)
    BY <1>2, <2>1, ScopeOfCommitted DEF UpdateStands
  <2>3. r.kind = "delete" => DeleteStands(t, Committed)
    BY <1>2, <2>1, ScopeOfCommitted DEF DeleteStands
  <2>4. r.kind = "resolve" => \E a \in Committed.alerts : Resolves(r, a, Committed)
    BY <2>1, ScopeOfCommitted DEF Resolves
  <2> QED BY <1>2, <2>2, <2>3, <2>4, ScopeOfCommitted DEF Stands
<1>5. lock' # h
  BY <1>1, HandlersAssumption DEF OneInv, CInv, LockOK
<1>6. Scanning(t) => ScanStands(t, Committed, Committed)
  <2> SUFFICES ASSUME r.kind = "scan" PROVE ScanStands(t, Committed, Committed)
    BY <1>2 DEF Scanning
  <2> DEFINE f == [i \in {} |-> 1]
  <2>1. f \in [{} -> 1..MaxAlerts] /\ {} \in SUBSET Missing(t, Committed)
    OBVIOUS
  <2>2. AreNextIds(f, Ids(Committed.alerts))
    BY DEF AreNextIds
  <2>3. Committed.alerts = Committed.alerts \cup Recorded(f, t.req.type)
    BY DEF Recorded
  <2>4. Passed(t, Committed) = {}
    <3>1. \A i \in DOMAIN inst : i \in 1..MaxInstances
      BY DEF OneInv, CInv, TypeOK
    <3> QED BY <1>2, <3>1, NumbersAssumption DEF Passed, Found, Committed
  <2>5. Recording(t, Committed, Committed, {}, f)
    BY <1>2, <2>2, <2>3, <2>4 DEF Recording
  <2> QED BY <2>1, <2>5 DEF ScanStands
<1> QED BY <1>1, <1>2, <1>3, <1>4, <1>5, <1>6, KeptOneInv

LEMMA ReceiveOneInv ==
    ASSUME NEW h \in Handlers, Handlers = {h}, OneInv(h), CInv', Receive(h)
    PROVE  OneInv(h)'
<1>1. PICK r \in Requests :
        \/ ReceiveCreateClient(h, r) \/ ReceiveCreate(h, r) \/ ReceiveUpdate(h, r)
        \/ ReceiveDelete(h, r) \/ ReceiveResolve(h, r) \/ ReceiveScan(h, r)
  BY DEF Receive
<1>2. CASE ReceiveCreateClient(h, r)
  BY <1>2, ArriveOneInv DEF ReceiveCreateClient
<1>3. CASE ReceiveCreate(h, r)
  BY <1>3, ArriveOneInv DEF ReceiveCreate
<1>4. CASE ReceiveUpdate(h, r)
  BY <1>4, ArriveOneInv DEF ReceiveUpdate
<1>5. CASE ReceiveDelete(h, r)
  BY <1>5, ArriveOneInv DEF ReceiveDelete
<1>6. CASE ReceiveResolve(h, r)
  BY <1>6, ArriveOneInv DEF ReceiveResolve
<1>7. CASE ReceiveScan(h, r)
  BY <1>7, ArriveOneInv DEF ReceiveScan
<1> QED BY <1>1, <1>2, <1>3, <1>4, <1>5, <1>6, <1>7

LEMMA StampOneInv ==
    ASSUME NEW h \in Handlers, Handlers = {h}, OneInv(h), CInv', Stamp(h)
    PROVE  OneInv(h)'
<1> DEFINE s == thread[h]
           t == [s EXCEPT !.pc = "write", !.stamp = now]
<1>1. /\ s.pc = "stamp" /\ thread'[h] = t /\ s \in Thread /\ AtItsStatement(s)
      /\ UNCHANGED <<managerOf, inst, alerts, now, lock, work>>
  BY DEF Stamp, OneInv, CInv, ThreadsOK
<1>2. /\ t.pc = "write" /\ t.stamp = now /\ t.req = s.req /\ t.row = s.row
      /\ s.req.kind \in {"create", "update", "resolve"} /\ now \in Nat
  BY <1>1 DEF Thread, AtItsStatement, OneInv, CInv, TypeOK
<1>3. Stands(s, Committed)
  BY DEF OneInv
<1>4. \A i \in DOMAIN Committed.inst : now >= Committed.inst[i].updatedAt
  BY DEF OneInv, Committed, CInv, TypeOK, Instance
<1> HIDE DEF s, t
<1>5. Stands(t, Committed)
  BY <1>1, <1>2, <1>3, <1>4 DEF Stands, UpdateStands
<1> QED BY <1>1, <1>2, <1>5, KeptOneInv DEF Scanning

LEMMA CollectAlertsOneInv ==
    ASSUME NEW h \in Handlers, Handlers = {h}, OneInv(h), CInv', CollectAlerts(h)
    PROVE  OneInv(h)'
<1> DEFINE s == thread[h]
           ids == {a.id : a \in {b \in alerts : b.instanceId = s.req.id}}
           t == [s EXCEPT !.pc = "write", !.ids = ids]
<1>1. /\ s.pc = "collect" /\ thread'[h] = t /\ s \in Thread /\ AtItsStatement(s)
      /\ UNCHANGED <<managerOf, inst, alerts, now, lock, work>>
  BY DEF CollectAlerts, OneInv, CInv, ThreadsOK
<1>2. /\ t.pc = "write" /\ t.ids = ids /\ t.req = s.req /\ t.stamp = s.stamp
      /\ s.req.kind = "delete" /\ s.stamp <= now
  BY <1>1 DEF Thread, AtItsStatement, OneInv
<1>3. Stands(s, Committed) /\ Committed.alerts = alerts
  BY DEF OneInv, Committed
<1>4. DeleteStands(t, Committed)
  BY <1>1, <1>2, <1>3 DEF Stands, DeleteStands
<1> HIDE DEF s, t
<1>5. Stands(t, Committed)
  BY <1>2, <1>4 DEF Stands
<1> QED BY <1>1, <1>2, <1>5, KeptOneInv DEF Scanning

LEMMA FailOneInv ==
    ASSUME NEW h \in Handlers, OneInv(h), CInv', Fail(h)
    PROVE  OneInv(h)'
<1>1. thread'[h] = Idle
  BY DEF Fail, OneInv, CInv, ThreadsOK
<1> QED BY <1>1, IdleOneInv DEF Fail

\* An UPDATE computed from a row that is still the committed one writes what the abstract
\* request does.
LEMMA UpdatedIsApplied ==
    ASSUME NEW row \in Instance, NEW r \in Requests, r.kind = "update", NEW stamp
    PROVE  Updated(row, row, r, stamp) = Applied(row, r.status, r.cpu, stamp)
BY DEF Updated, Applied, Instance

LEMMA WriteIsWrote ==
    ASSUME NEW h \in Handlers, OneInv(h), thread[h].pc = "write", ~RowGone(thread[h].req)
    PROVE  Wrote(thread[h].req, thread[h].stamp, Committed, Written(thread[h]))
<1> DEFINE t == thread[h]
           r == t.req
<1>1. /\ t \in Thread /\ r \in Requests
      /\ r.kind \in {"create_client", "create", "update", "delete", "resolve"}
      /\ t.pc = "write" /\ Stands(t, Committed)
  <2>1. t \in Thread /\ AtItsStatement(t) /\ Stands(t, Committed)
    BY DEF OneInv, CInv, ThreadsOK
  <2> QED BY <2>1, RequestFields DEF AtItsStatement
<1>2. /\ inst \in [DOMAIN inst -> Instance]
      /\ alerts \subseteq Alert
      /\ \A a, b \in alerts : a.id = b.id => a = b
  BY DEF OneInv, CInv, TypeOK, AlertIdsUnique
<1>3. Committed.managerOf = managerOf /\ Committed.inst = inst /\ Committed.alerts = alerts
  BY DEF Committed
<1>4. CASE r.kind = "create_client"
  <2> DEFINE c == CHOOSE n \in 1..MaxClients : IsNextId(n, DOMAIN managerOf)
  <2>1. c \in 1..MaxClients /\ IsNextId(c, DOMAIN managerOf)
    BY <1>4, IdsForWrite DEF OneInv
  <2> HIDE DEF c
  <2>2. Written(t) = [managerOf |-> [d \in DOMAIN managerOf \cup {c} |->
                                       IF d = c THEN r.manager ELSE managerOf[d]],
                      inst |-> inst, alerts |-> alerts]
    BY <1>4 DEF Written, ClientInserted, Committed, c
  <2> HIDE DEF t
  <2> QED BY <1>3, <1>4, <2>1, <2>2 DEF Wrote, t
<1>5. CASE r.kind = "create"
  <2> DEFINE i == CHOOSE n \in 1..MaxInstances : IsNextId(n, DOMAIN inst)
  <2>1. i \in 1..MaxInstances /\ IsNextId(i, DOMAIN inst)
    BY <1>5, IdsForWrite DEF OneInv
  <2> HIDE DEF i
  <2>2. Written(t) = [managerOf |-> managerOf,
                      inst |-> [j \in DOMAIN inst \cup {i} |->
                                  IF j = i THEN [clientId |-> r.client, status |-> r.status,
                                                 cpuUsage |-> r.cpu, updatedAt |-> t.stamp]
                                           ELSE inst[j]],
                      alerts |-> alerts]
    BY <1>5 DEF Written, InstanceInserted, Committed, i
  <2> QED BY <1>3, <1>5, <2>1, <2>2 DEF Wrote
<1>6. CASE r.kind = "update"
  <2>1. /\ r.id \in DOMAIN inst /\ t.row = inst[r.id] /\ inst[r.id] \in Instance
    BY <1>1, <1>2, <1>3, <1>6 DEF Stands, UpdateStands
  <2>2. Updated(inst[r.id], t.row, r, t.stamp) = Applied(inst[r.id], r.status, r.cpu, t.stamp)
    BY <1>1, <1>6, <2>1, UpdatedIsApplied
  <2>3. Written(t) = [managerOf |-> managerOf,
                      inst |-> [inst EXCEPT ![r.id] = Updated(inst[r.id], t.row, r, t.stamp)],
                      alerts |-> alerts]
    BY <1>6 DEF Written, InstanceUpdated, Committed
  <2>4. Written(t) = [managerOf |-> managerOf,
                      inst |-> [inst EXCEPT ![r.id] = Applied(inst[r.id], r.status, r.cpu, t.stamp)],
                      alerts |-> alerts]
    BY <2>2, <2>3
  <2> QED BY <1>3, <1>6, <2>4 DEF Wrote
<1>7. CASE r.kind = "delete"
  <2>1. t.ids = {a.id : a \in {b \in alerts : b.instanceId = r.id}}
    BY <1>1, <1>3, <1>7 DEF Stands, DeleteStands
  <2>2. \A a \in alerts : a.id \in t.ids <=> a.instanceId = r.id
    BY <1>2, <2>1
  <2>3. {a \in alerts : a.id \notin t.ids} = {a \in alerts : a.instanceId # r.id}
    BY <2>2
  <2>4. Written(t) = [managerOf |-> managerOf, inst |-> [j \in DOMAIN inst \ {r.id} |-> inst[j]],
                      alerts |-> {a \in alerts : a.id \notin t.ids}]
    BY <1>7 DEF Written, InstanceDeleted, Committed
  <2> QED BY <1>3, <1>7, <2>3, <2>4 DEF Wrote
<1>8. CASE r.kind = "resolve"
  <2>1. PICK a \in alerts : Resolves(r, a, Committed)
    BY <1>1, <1>3, <1>8 DEF Stands
  <2>2. a.id = r.id /\ \A b \in alerts : b.id = r.id => b = a
    BY <1>2, <2>1 DEF Resolves
  <2> DEFINE rows == {IF b.id = r.id THEN [b EXCEPT !.resolvedAt = t.stamp] ELSE b : b \in alerts}
             c == [a EXCEPT !.resolvedAt = t.stamp]
  <2>3. rows = (alerts \ {a}) \cup {c}
    <3>1. ASSUME NEW x \in rows PROVE x \in (alerts \ {a}) \cup {c}
      <4>1. PICK b \in alerts : x = IF b.id = r.id THEN [b EXCEPT !.resolvedAt = t.stamp] ELSE b
        OBVIOUS
      <4> QED BY <2>2, <4>1
    <3>2. c \in rows
      BY <2>2
    <3>3. ASSUME NEW b \in alerts \ {a} PROVE b \in rows
      <4>1. b.id # r.id
        BY <2>2
      <4> QED BY <4>1
    <3> HIDE DEF rows, c
    <3> QED BY <3>1, <3>2, <3>3
  <2>4. Written(t) = [managerOf |-> managerOf, inst |-> inst, alerts |-> rows]
    BY <1>8 DEF Written, AlertResolved, Committed
  <2> HIDE DEF rows
  <2> QED BY <1>3, <1>8, <2>1, <2>3, <2>4 DEF Wrote
<1> QED BY <1>1, <1>4, <1>5, <1>6, <1>7, <1>8

LEMMA WriteOneInv ==
    ASSUME NEW h \in Handlers, Handlers = {h}, OneInv(h), CInv', Write(h)
    PROVE  OneInv(h)'
<1> DEFINE s == thread[h]
           t == [s EXCEPT !.pc = "commit"]
<1>1. /\ s.pc = "write" /\ thread'[h] = t /\ s \in Thread /\ AtItsStatement(s)
      /\ UNCHANGED <<managerOf, inst, alerts, now>> /\ work' = Written(s)
      /\ Wrote(s.req, s.stamp, Committed, Written(s))
  BY WriteIsWrote DEF Write, OneInv, CInv, ThreadsOK
<1>2. /\ t.pc = "commit" /\ t.req = s.req /\ t.stamp = s.stamp /\ t.row = s.row
      /\ s.req.kind # "scan" /\ s.stamp <= now
  BY <1>1 DEF Thread, AtItsStatement, OneInv
<1>3. Stands(s, Committed)
  BY DEF OneInv
<1> HIDE DEF s, t
<1>4. Stands(t, Committed)
  BY <1>1, <1>2, <1>3 DEF Stands, UpdateStands, DeleteStands
<1>5. Wrote(t.req, t.stamp, Committed, work')
  BY <1>1, <1>2
<1> QED BY <1>1, <1>2, <1>4, <1>5, KeptOneInv DEF Scanning
-------------------------------------------------------------------------------
(***************************************************************************)
(* The batches of a scan.                                                  *)
(***************************************************************************)
BatchOf(found) == {i \in found : Cardinality({j \in found : j <= i}) <= BatchSize}

\* A batch has something in it as long as there is something left to find; what it leaves
\* comes after it; and one that is not full leaves nothing.
LEMMA BatchIsPrefix ==
    ASSUME NEW b \in Nat, NEW found \in SUBSET (1..b)
    PROVE  /\ found # {} => BatchOf(found) # {}
           /\ \A i \in BatchOf(found), j \in found : j <= i => j \in BatchOf(found)
           /\ Cardinality(BatchOf(found)) # BatchSize => BatchOf(found) = found
<1> DEFINE upTo(i) == {j \in found : j <= i}
<1>1. /\ \A S \in SUBSET found : IsFiniteSet(S) /\ S \in SUBSET Nat
      /\ \A i \in found : i \in Nat
  <2>1. IsFiniteSet(1..b) /\ 1..b \in SUBSET Nat
    BY FS_Interval
  <2>2. ASSUME NEW S \in SUBSET found PROVE IsFiniteSet(S) /\ S \in SUBSET Nat
    <3>1. S \in SUBSET (1..b)
      OBVIOUS
    <3> QED BY <2>1, <3>1, FS_Subset
  <2> QED BY <2>2
<1>2. \A S \in SUBSET found : Cardinality(S) \in Nat
  BY <1>1, FS_CardinalityType
<1>3. ASSUME found # {} PROVE BatchOf(found) # {}
  <2>1. PICK i \in found : \A j \in found : i <= j
    BY <1>1, <1>3, LeastExists
  <2>2. upTo(i) = {i}
    <3>1. i <= i /\ \A j \in found : j <= i => j = i
      BY <1>1, <2>1
    <3> QED BY <3>1
  <2>3. Cardinality(upTo(i)) <= BatchSize
    BY <2>2, FS_Singleton, HandlersAssumption
  <2> QED BY <2>3 DEF BatchOf
<1>4. ASSUME NEW i \in BatchOf(found), NEW j \in found, j <= i PROVE j \in BatchOf(found)
  <2>1. i \in found /\ Cardinality(upTo(i)) <= BatchSize
    BY DEF BatchOf
  <2>2. upTo(j) \subseteq upTo(i) /\ upTo(i) \subseteq found
    <3>1. \A k \in found : k <= j => k <= i
      BY <1>1, <1>4, <2>1
    <3> QED BY <3>1
  <2>3. Cardinality(upTo(j)) <= Cardinality(upTo(i))
    <3> HIDE DEF upTo
    <3>1. IsFiniteSet(upTo(i)) /\ upTo(j) \in SUBSET upTo(i)
      BY <1>1, <2>2
    <3> QED BY <3>1, FS_Subset
  <2>4. Cardinality(upTo(i)) \in Nat /\ Cardinality(upTo(j)) \in Nat
    BY <1>2, <2>2
  <2> QED BY <2>1, <2>3, <2>4, HandlersAssumption DEF BatchOf
<1>5. ASSUME Cardinality(BatchOf(found)) # BatchSize, BatchOf(found) # found PROVE FALSE
  <2> DEFINE batch == BatchOf(found)
             rest == found \ batch
  <2>1. batch \subseteq found /\ rest # {} /\ rest \in SUBSET found
    BY <1>5 DEF BatchOf
  <2>2. PICK x \in rest : \A y \in rest : x <= y
    <3> HIDE DEF rest
    <3> QED BY <1>1, <2>1, LeastExists
  <2>3. x \in found /\ x \notin batch /\ batch # {}
    BY <1>3, <2>1
  <2>4. upTo(x) = batch \cup {x}
    <3>1. ASSUME NEW i \in batch PROVE i <= x
      <4>1. ~(x <= i)
        BY <1>4, <2>3
      <4>2. i \in Nat /\ x \in Nat
        BY <1>1, <2>1, <2>3
      <4> QED BY <4>1, <4>2
    <3>2. ASSUME NEW i \in found, i <= x, i \notin batch PROVE i = x
      BY <1>1, <2>2, <2>3, <3>2
    <3>3. x <= x
      BY <1>1, <2>3
    <3> HIDE DEF batch
    <3> QED BY <2>1, <2>3, <3>1, <3>2, <3>3
  <2>5. Cardinality(upTo(x)) = Cardinality(batch) + 1
    BY <1>1, <2>1, <2>3, <2>4, FS_AddElement
  <2>6. ~(Cardinality(upTo(x)) <= BatchSize)
    BY <2>3 DEF BatchOf
  <2>7. PICK m \in batch : \A y \in batch : y <= m
    <3>1. batch \in SUBSET (0..b)
      <4>1. found \in SUBSET (0..b)
        OBVIOUS
      <4> QED BY <2>1, <4>1
    <3> HIDE DEF batch
    <3> QED BY <2>3, <3>1, GreatestExists
  <2>8. upTo(m) = batch
    BY <1>4, <2>1, <2>7
  <2>9. Cardinality(batch) <= BatchSize
    BY <2>7, <2>8 DEF BatchOf
  <2>10. Cardinality(batch) \in Nat
    BY <1>2, <2>1
  <2> HIDE DEF batch, upTo
  <2> QED BY <1>5, <2>5, <2>6, <2>9, <2>10, HandlersAssumption DEF batch
<1> QED BY <1>3, <1>4, <1>5

\* What a scan looks for is fixed by its request and by the instant it read first.
LEMMA SameScan ==
    ASSUME NEW s, NEW t, NEW W, t.req = s.req, t.stamp = s.stamp
    PROVE  /\ Found(t, W) = Found(s, W) /\ Missing(t, W) = Missing(s, W)
           /\ t.last = s.last => Passed(t, W) = Passed(s, W)
<1>1. Found(t, W) = Found(s, W)
  BY DEF Found
<1> QED BY <1>1 DEF Missing, Passed

\* What a scan's batches have in common: a request of kind scan, and nobody else's lock.
LEMMA ScanThread ==
    ASSUME NEW h \in Handlers, OneInv(h), thread[h].pc \in {"batch", "probe", "insert"}
    PROVE  /\ thread[h] \in Thread /\ AtItsStatement(thread[h]) /\ Scanning(thread[h])
           /\ thread[h].req \in Requests /\ thread[h].req.type \in AlertTypes
           /\ thread[h].stamp <= now
           /\ ScanStands(thread[h], Committed, View(h))
BY RequestFields DEF OneInv, CInv, ThreadsOK, AtItsStatement, Scanning

\* After a batch: the walk goes on from where it is, or it has come past all there is.
LEMMA AfterBatchOneInv ==
    ASSUME NEW h \in Handlers, OneInv(h), CInv', UNCHANGED <<managerOf, inst, alerts, now>>,
           thread[h].pc \in {"batch", "probe", "insert"}, NEW more \in BOOLEAN,
           thread'[h] = AfterBatch(h, more),
           NEW V, V = (IF lock' = h THEN work' ELSE Committed),
           V.managerOf = Committed.managerOf, V.inst = Committed.inst,
           NEW done \in SUBSET Missing(thread[h], Committed), NEW f \in [done -> 1..MaxAlerts],
           AreNextIds(f, Ids(Committed.alerts)),
           V.alerts = Committed.alerts \cup Recorded(f, thread[h].req.type),
           done = Passed(thread[h], Committed) \cap Missing(thread[h], Committed),
           ~more => Passed(thread[h], Committed) = Found(thread[h], Committed)
    PROVE  OneInv(h)'
<1> DEFINE s == thread[h]
           t == thread'[h]
<1>1. s \in Thread /\ Scanning(s) /\ s.stamp <= now
  BY ScanThread
<1>2. CASE ~more /\ lock' # h
  <2>1. thread'[h] = Idle
    BY <1>2 DEF AfterBatch
  <2> QED BY <2>1, IdleOneInv
<1>3. CASE more \/ lock' = h
  <2>1. /\ t.pc = (IF more THEN "batch" ELSE "commit")
        /\ t.req = s.req /\ t.stamp = s.stamp /\ t.last = s.last
    BY <1>1, <1>3 DEF AfterBatch, Thread
  <2> HIDE DEF s, t
  <2>2. /\ Found(t, Committed) = Found(s, Committed)
        /\ Missing(t, Committed) = Missing(s, Committed)
        /\ Passed(t, Committed) = Passed(s, Committed)
    BY <2>1, SameScan
  <2>3. Recording(t, Committed, V, done, f)
    <3>1. ~more => done = Missing(s, Committed)
      BY DEF s, Missing
    <3> QED BY <2>1, <2>2, <3>1 DEF Recording, s
  <2>4. ScanStands(t, Committed, V)
    BY <2>2, <2>3 DEF ScanStands, s
  <2>5. Stands(t, Committed) /\ t.req.kind = "scan" /\ t.stamp <= now
    BY <1>1, <2>1 DEF Stands, Scanning
  <2> QED BY <2>4, <2>5, KeptOneInv DEF t
<1> QED BY <1>2, <1>3

LEMMA ReadBatchOneInv ==
    ASSUME NEW h \in Handlers, Handlers = {h}, OneInv(h), CInv', ReadBatch(h)
    PROVE  OneInv(h)'
<1> DEFINE s == thread[h]
           W == Committed
           V == View(h)
           found == MatchesAfterLast(h)
           batch == BatchOf(found)
<1>1. /\ s.pc = "batch"
      /\ UNCHANGED <<managerOf, inst, alerts, now, lock, work>>
      /\ V = IF lock' = h THEN work' ELSE Committed
  BY DEF ReadBatch, View
<1>2. /\ s \in Thread /\ Scanning(s) /\ s.stamp <= now /\ s.last \in Nat
      /\ V.managerOf = W.managerOf /\ V.inst = W.inst
  BY <1>1, ScanThread DEF ScanStands, Thread
<1>3. PICK done \in SUBSET Missing(s, W) :
         \E f \in [done -> 1..MaxAlerts] : Recording(s, W, V, done, f)
  BY <1>1, ScanThread DEF ScanStands
<1>4. PICK f \in [done -> 1..MaxAlerts] : Recording(s, W, V, done, f)
  BY <1>3
<1>5. /\ AreNextIds(f, Ids(W.alerts)) /\ V.alerts = W.alerts \cup Recorded(f, s.req.type)
      /\ done = Passed(s, W) \cap Missing(s, W)
  BY <1>1, <1>4 DEF Recording
<1>6. found = {i \in Found(s, W) : i > s.last}
  BY <1>2, ScopeOfCommitted DEF MatchesAfterLast, Found
<1>7. /\ Found(s, W) \in SUBSET (1..MaxInstances) /\ found \in SUBSET (1..MaxInstances)
      /\ Missing(s, W) \subseteq Found(s, W)
  BY <1>6 DEF Found, Missing, Committed, OneInv, CInv, TypeOK
<1>8. \A i \in Found(s, W) : i \in Nat /\ (i <= s.last \/ i \in found)
  BY <1>2, <1>6, <1>7
<1> HIDE DEF s, W, V, found
<1>9. /\ found # {} => batch # {}
      /\ \A i \in batch, j \in found : j <= i => j \in batch
      /\ Cardinality(batch) # BatchSize => batch = found
      /\ batch \subseteq found
  <2>1. found \in SUBSET (1..MaxInstances) /\ MaxInstances \in Nat
    BY <1>7, NumbersAssumption
  <2>2. batch \subseteq found
    BY DEF BatchOf
  <2> QED BY <2>1, <2>2, BatchIsPrefix
<1>10. thread'[h] = IF batch = {} THEN AfterBatch(h, FALSE)
                   ELSE [s EXCEPT !.pc = "probe", !.ids = batch,
                            !.last = CHOOSE i \in batch : \A j \in batch : j <= i,
                            !.more = Cardinality(batch) = BatchSize]
  BY DEF ReadBatch, BatchOf, s, found, OneInv, CInv, ThreadsOK
<1> HIDE DEF batch
<1>11. CASE batch = {}
  <2>1. Passed(s, W) = Found(s, W)
    BY <1>8, <1>9, <1>11 DEF Passed
  <2> QED BY <1>1, <1>2, <1>5, <1>10, <1>11, <2>1, AfterBatchOneInv DEF s, W
<1>12. CASE batch # {}
  <2> DEFINE last == CHOOSE i \in batch : \A j \in batch : j <= i
             t == [s EXCEPT !.pc = "probe", !.ids = batch, !.last = last,
                            !.more = Cardinality(batch) = BatchSize]
  <2>1. last \in batch /\ \A j \in batch : j <= last
    <3>1. batch \in SUBSET (0..MaxInstances)
      BY <1>7, <1>9
    <3> QED BY <1>12, <3>1, GreatestExists, NumbersAssumption
  <2> HIDE DEF last
  <2>2. /\ t.pc = "probe" /\ t.ids = batch /\ t.last = last /\ t.req = s.req
        /\ t.stamp = s.stamp /\ (t.more <=> Cardinality(batch) = BatchSize)
        /\ thread'[h] = t
    <3>1. thread'[h] = t
      BY <1>10, <1>12 DEF last
    <3>2. /\ t.pc = "probe" /\ t.ids = batch /\ t.last = last /\ t.req = s.req
          /\ t.stamp = s.stamp
      BY <1>2 DEF Thread
    <3>3. t.more <=> Cardinality(batch) = BatchSize
      BY <1>2 DEF Thread
    <3> QED BY <3>1, <3>2, <3>3
  <2> HIDE DEF t
  <2>3. Found(t, W) = Found(s, W) /\ Missing(t, W) = Missing(s, W)
    BY <2>2, SameScan
  <2>4. Passed(t, W) = Passed(s, W) \cup batch
    <3>1. ASSUME NEW i \in Found(s, W) PROVE i <= last <=> (i <= s.last \/ i \in batch)
      <4>1. i \in Nat /\ last \in Nat /\ last > s.last /\ last \in found
        BY <1>6, <1>7, <1>8, <1>9, <2>1
      <4>2. i <= last /\ i \in found => i \in batch
        BY <1>9, <2>1
      <4> QED BY <1>2, <1>8, <2>1, <4>1, <4>2
    <3>2. batch \subseteq Found(s, W)
      BY <1>6, <1>9
    <3> QED BY <2>2, <2>3, <3>1, <3>2 DEF Passed
  <2>5. \A i \in done, j \in batch : i < j
    <3>1. ASSUME NEW i \in done, NEW j \in batch PROVE i < j
      <4>1. i \in Passed(s, W) /\ j \in found
        BY <1>5, <1>9
      <4>2. i <= s.last /\ j > s.last /\ i \in Nat /\ j \in Nat
        BY <1>6, <1>7, <4>1 DEF Passed
      <4> QED BY <1>2, <4>2
    <3> QED BY <3>1
  <2>6. ~t.more => Passed(t, W) = Found(t, W)
    BY <1>2, <1>6, <1>8, <1>9, <2>2, <2>3, <2>4 DEF Passed
  <2>7. Recording(t, W, V, done, f)
    <3>1. batch \subseteq Found(t, W)
      BY <1>6, <1>9, <2>3
    <3>2. Passed(t, W) \cap Missing(t, W) = done \cup (batch \cap Missing(t, W))
      BY <1>5, <2>3, <2>4
    <3> QED BY <1>5, <2>2, <2>5, <2>6, <3>1, <3>2 DEF Recording
  <2>8. ScanStands(t, W, V)
    BY <1>2, <2>3, <2>7 DEF ScanStands
  <2>9. Stands(t, W) /\ t.req.kind = "scan" /\ t.stamp <= now /\ t.pc = "probe"
    BY <1>2, <2>2 DEF Stands, Scanning
  <2> QED BY <1>1, <2>2, <2>8, <2>9, KeptOneInv DEF W
<1> QED BY <1>11, <1>12

\* Of a batch, those without an open alert in the tables the scan sees are those it is
\* still missing: what its earlier batches recorded is for other instances.
LEMMA ProbeFindsMissing ==
    ASSUME NEW s, NEW W, NEW V, NEW done \in SUBSET Nat, NEW f, DOMAIN f = done,
           V.alerts = W.alerts \cup Recorded(f, s.req.type),
           s.ids \in SUBSET Nat, s.ids \subseteq Found(s, W), \A i \in done, j \in s.ids : i < j
    PROVE  s.ids \ {a.instanceId : a \in {b \in V.alerts : b.alertType = s.req.type /\ IsOpen(b)}}
              = s.ids \cap Missing(s, W)
<1> DEFINE open(rows) == {a.instanceId : a \in {b \in rows : b.alertType = s.req.type /\ IsOpen(b)}}
<1>1. \A i \in s.ids : i \notin open(Recorded(f, s.req.type))
  <2>1. \A b \in Recorded(f, s.req.type) : b.instanceId \in done
    BY DEF Recorded
  <2>2. \A i \in s.ids : i \notin done
    <3>1. \A i \in Nat : ~(i < i)
      OBVIOUS
    <3> QED BY <3>1
  <2> QED BY <2>1, <2>2
<1>2. open(V.alerts) = open(W.alerts) \cup open(Recorded(f, s.req.type))
  OBVIOUS
<1>3. Missing(s, W) = Found(s, W) \ open(W.alerts)
  BY DEF Missing
<1> HIDE DEF open
<1>4. s.ids \ open(V.alerts) = s.ids \cap Missing(s, W)
  BY <1>1, <1>2, <1>3
<1> QED BY <1>4 DEF open

LEMMA ProbeOneInv ==
    ASSUME NEW h \in Handlers, Handlers = {h}, OneInv(h), CInv', Probe(h)
    PROVE  OneInv(h)'
<1> DEFINE s == thread[h]
           W == Committed
           V == View(h)
           missing == s.ids \ Unresolved(h)
           t == [s EXCEPT !.pc = "insert", !.ids = missing]
<1>1. /\ s.pc = "probe"
      /\ UNCHANGED <<managerOf, inst, alerts, now, lock, work>>
      /\ V = IF lock' = h THEN work' ELSE Committed
      /\ thread'[h] = IF missing = {} THEN AfterBatch(h, s.more) ELSE t
  BY DEF Probe, View, OneInv, CInv, ThreadsOK
<1>2. /\ s \in Thread /\ Scanning(s) /\ s.stamp <= now /\ s.more \in BOOLEAN
      /\ V.managerOf = W.managerOf /\ V.inst = W.inst /\ s.ids \in SUBSET Nat
  BY <1>1, ScanThread DEF ScanStands, Thread
<1>3. PICK done \in SUBSET Missing(s, W) :
         \E f \in [done -> 1..MaxAlerts] : Recording(s, W, V, done, f)
  BY <1>1, ScanThread DEF ScanStands
<1>4. PICK f \in [done -> 1..MaxAlerts] : Recording(s, W, V, done, f)
  BY <1>3
<1>5. /\ AreNextIds(f, Ids(W.alerts)) /\ V.alerts = W.alerts \cup Recorded(f, s.req.type)
      /\ s.ids \subseteq Found(s, W) /\ \A i \in done, j \in s.ids : i < j
      /\ Passed(s, W) \cap Missing(s, W) = done \cup (s.ids \cap Missing(s, W))
      /\ ~s.more => Passed(s, W) = Found(s, W)
  BY <1>1, <1>4 DEF Recording
<1>6. done \in SUBSET Nat
  <2>1. Missing(s, W) \subseteq DOMAIN inst /\ DOMAIN inst \subseteq Nat
    BY DEF Missing, Found, Committed, OneInv, CInv, TypeOK
  <2> QED BY <2>1
<1>7. missing = s.ids \cap Missing(s, W)
  BY <1>2, <1>5, <1>6, ProbeFindsMissing DEF Unresolved
<1>8. CASE missing = {}
  <2>1. done = Passed(s, W) \cap Missing(s, W)
    BY <1>5, <1>7, <1>8
  <2> QED BY <1>1, <1>2, <1>5, <1>8, <2>1, AfterBatchOneInv
<1>9. CASE missing # {}
  <2>1. /\ t.pc = "insert" /\ t.ids = missing /\ t.req = s.req /\ t.stamp = s.stamp
        /\ t.last = s.last /\ t.more = s.more /\ thread'[h] = t
    BY <1>1, <1>2, <1>9 DEF Thread
  <2> HIDE DEF s, W, V, missing, t
  <2>2. /\ Found(t, W) = Found(s, W) /\ Missing(t, W) = Missing(s, W)
        /\ Passed(t, W) = Passed(s, W)
    BY <2>1, SameScan
  <2>3. Recording(t, W, V, done, f)
    <3>1. missing \subseteq Missing(s, W) /\ missing \subseteq s.ids
      BY <1>7
    <3>2. missing \cap Missing(s, W) = s.ids \cap Missing(s, W)
      BY <1>7
    <3>3. missing \subseteq Found(s, W) /\ \A i \in done, j \in missing : i < j
      BY <1>5, <3>1
    <3> QED BY <1>5, <2>1, <2>2, <3>1, <3>2, <3>3 DEF Recording
  <2>4. ScanStands(t, W, V)
    BY <1>2, <2>2, <2>3 DEF ScanStands
  <2>5. Stands(t, W) /\ t.req.kind = "scan" /\ t.stamp <= now
    BY <1>2, <2>1 DEF Stands, Scanning
  <2> QED BY <1>1, <2>1, <2>4, <2>5, KeptOneInv DEF W
<1> QED BY <1>8, <1>9

\* Two inserts one after the other give out the ids that one for both would have.
LEMMA NextIdsCompose ==
    ASSUME NEW ids \in SUBSET Nat, NEW M \in SUBSET Nat, NEW N \in SUBSET Nat,
           \A i \in M, j \in N : i < j,
           NEW f \in [M -> Nat], AreNextIds(f, ids),
           NEW g \in [N -> Nat], AreNextIds(g, ids \cup {f[i] : i \in M})
    PROVE  AreNextIds([i \in M \cup N |-> IF i \in M THEN f[i] ELSE g[i]], ids)
<1> DEFINE e == [i \in M \cup N |-> IF i \in M THEN f[i] ELSE g[i]]
<1>1. /\ \A i \in M : e[i] = f[i] /\ e[i] \in Nat
      /\ \A i \in N : i \notin M /\ e[i] = g[i] /\ e[i] \in Nat
  <2>1. \A i \in N : i \notin M
    <3>1. \A i \in Nat : ~(i < i)
      OBVIOUS
    <3> QED BY <3>1
  <2> QED BY <2>1
<1>2. {e[i] : i \in M \cup N} = {f[i] : i \in M} \cup {g[i] : i \in N}
  BY <1>1
<1> DEFINE after == {f[i] : i \in M}
<1>3. ASSUME NEW i \in M
      PROVE  /\ \A k \in ids : k < e[i]
             /\ e[i] = 1 \/ e[i] - 1 \in ids \cup {e[j] : j \in M \cup N}
  BY <1>1, <1>2 DEF AreNextIds
<1>4. ASSUME NEW i \in N
      PROVE  /\ \A k \in ids \cup after : k < e[i]
             /\ e[i] = 1 \/ e[i] - 1 \in ids \cup {e[j] : j \in M \cup N}
  <2>1. /\ \A k \in ids \cup after : k < g[i]
        /\ g[i] = 1 \/ g[i] - 1 \in (ids \cup after) \cup {g[j] : j \in N}
    BY DEF AreNextIds
  <2> QED BY <1>1, <1>2, <2>1
<1>5. ASSUME NEW i \in M \cup N, NEW j \in M \cup N, i < j PROVE e[i] < e[j]
  <2>1. CASE i \in M /\ j \in M
    BY <1>1, <1>5, <2>1 DEF AreNextIds
  <2>2. CASE i \in N /\ j \in N
    BY <1>1, <1>5, <2>2 DEF AreNextIds
  <2>3. CASE i \in M /\ j \in N
    <3>1. e[i] \in after
      BY <1>1, <2>3
    <3> QED BY <1>4, <2>3, <3>1
  <2>4. CASE i \in N /\ j \in M
    <3>1. j < i /\ i \in Nat /\ j \in Nat
      BY <2>4
    <3> QED BY <1>5, <3>1
  <2> QED BY <2>1, <2>2, <2>3, <2>4
<1> HIDE DEF after
<1>6. DOMAIN e = M \cup N
  OBVIOUS
<1> HIDE DEF e
<1>7. AreNextIds(e, ids)
  BY <1>3, <1>4, <1>5, <1>6 DEF AreNextIds
<1> QED BY <1>7 DEF e

LEMMA InsertAlertsOneInv ==
    ASSUME NEW h \in Handlers, Handlers = {h}, OneInv(h), CInv', InsertAlerts(h)
    PROVE  OneInv(h)'
<1> DEFINE s == thread[h]
           W == Committed
           V == View(h)
           type == s.req.type
<1>1. /\ s.pc = "insert" /\ lock' = h
      /\ UNCHANGED <<managerOf, inst, alerts, now>>
      /\ thread'[h] = AfterBatch(h, s.more)
  BY DEF InsertAlerts, OneInv, CInv, ThreadsOK
<1>2. /\ s \in Thread /\ s.more \in BOOLEAN /\ s.ids \in SUBSET Nat
      /\ V.managerOf = W.managerOf /\ V.inst = W.inst /\ AreTables(V)
  BY <1>1, ScanThread, BatchTyped DEF ScanStands, Thread, OneInv
<1>3. PICK done \in SUBSET Missing(s, W) :
         \E f \in [done -> 1..MaxAlerts] : Recording(s, W, V, done, f)
  BY <1>1, ScanThread DEF ScanStands
<1>4. PICK f \in [done -> 1..MaxAlerts] : Recording(s, W, V, done, f)
  BY <1>3
<1>5. /\ AreNextIds(f, Ids(W.alerts)) /\ V.alerts = W.alerts \cup Recorded(f, type)
      /\ s.ids \subseteq Missing(s, W) /\ \A i \in done, j \in s.ids : i < j
      /\ Passed(s, W) \cap Missing(s, W) = done \cup s.ids
      /\ ~s.more => Passed(s, W) = Found(s, W)
  <2>1. /\ s.ids \subseteq Missing(s, W)
        /\ Passed(s, W) \cap Missing(s, W) = done \cup (s.ids \cap Missing(s, W))
    BY <1>1, <1>4 DEF Recording
  <2>2. s.ids \cap Missing(s, W) = s.ids
    BY <2>1
  <2> QED BY <1>1, <1>4, <2>1, <2>2 DEF Recording
<1>6. PICK g \in [s.ids -> 1..MaxAlerts] :
         /\ AreNextIds(g, Ids(V.alerts))
         /\ work' = [V EXCEPT !.alerts = @ \cup Recorded(g, type)]
  BY InsertAlertsEffect
<1> DEFINE both == done \cup s.ids
           e == [i \in both |-> IF i \in done THEN f[i] ELSE g[i]]
<1>7. /\ done \in SUBSET Nat /\ \A i \in s.ids : i \notin done
      /\ Ids(W.alerts) \in SUBSET Nat /\ 1..MaxAlerts \subseteq Nat
  <2>1. Missing(s, W) \subseteq DOMAIN inst /\ DOMAIN inst \subseteq Nat
    BY DEF Missing, Found, Committed, OneInv, CInv, TypeOK
  <2>2. done \in SUBSET Nat
    BY <2>1
  <2>3. \A i \in Nat : ~(i < i)
    OBVIOUS
  <2>4. Ids(W.alerts) \in SUBSET Nat
    BY DEF Ids, Committed, OneInv, CInv, TypeOK, Alert
  <2> QED BY <1>2, <1>5, <2>2, <2>3, <2>4, NumbersAssumption
<1> HIDE DEF s, W, V, type, both
<1>8. e \in [both -> 1..MaxAlerts] /\ both \in SUBSET Missing(s, W)
  BY <1>5, <1>7 DEF both
<1>9. Ids(V.alerts) = Ids(W.alerts) \cup {f[i] : i \in done}
  <2>1. Ids(Recorded(f, type)) = {f[i] : i \in done}
    <3>1. ASSUME NEW a \in Recorded(f, type) PROVE \E i \in done : a.id = f[i]
      BY DEF Recorded
    <3>2. ASSUME NEW i \in done PROVE \E a \in Recorded(f, type) : a.id = f[i]
      <4> DEFINE a == [id |-> f[i], instanceId |-> i, alertType |-> type, resolvedAt |-> NULL]
      <4>1. a \in Recorded(f, type) /\ a.id = f[i]
        BY DEF Recorded
      <4> QED BY <4>1
    <3> QED BY <3>1, <3>2 DEF Ids
  <2>2. Ids(W.alerts \cup Recorded(f, type)) = Ids(W.alerts) \cup Ids(Recorded(f, type))
    BY DEF Ids
  <2> QED BY <1>5, <2>1, <2>2
<1>10. AreNextIds(e, Ids(W.alerts))
  <2>1. f \in [done -> Nat] /\ g \in [s.ids -> Nat]
    BY <1>7
  <2>2. AreNextIds(g, Ids(W.alerts) \cup {f[i] : i \in done})
    BY <1>6, <1>9
  <2> QED BY <1>2, <1>5, <1>7, <2>1, <2>2, NextIdsCompose DEF both
<1>11. Recorded(e, type) = Recorded(f, type) \cup Recorded(g, type)
  <2>1. DOMAIN e = both /\ DOMAIN f = done /\ DOMAIN g = s.ids
    OBVIOUS
  <2>2. /\ \A i \in done : i \in both /\ e[i] = f[i]
        /\ \A i \in s.ids : i \in both /\ e[i] = g[i]
        /\ \A i \in both : i \in done \/ i \in s.ids
    BY <1>7 DEF both
  <2> HIDE DEF e
  <2> QED BY <2>1, <2>2 DEF Recorded
<1>12. /\ work'.managerOf = W.managerOf /\ work'.inst = W.inst
       /\ work'.alerts = W.alerts \cup Recorded(e, type)
  <2>1. /\ work'.managerOf = V.managerOf /\ work'.inst = V.inst
        /\ work'.alerts = V.alerts \cup Recorded(g, type)
    BY <1>2, <1>6 DEF AreTables
  <2>2. V.alerts \cup Recorded(g, type) = W.alerts \cup Recorded(e, type)
    BY <1>5, <1>11
  <2> QED BY <1>2, <2>1, <2>2
<1>13. both = Passed(s, W) \cap Missing(s, W)
  BY <1>5 DEF both
<1> HIDE DEF e
<1> QED BY <1>1, <1>2, <1>5, <1>8, <1>10, <1>12, <1>13, AfterBatchOneInv DEF s, W, type
-------------------------------------------------------------------------------
(***************************************************************************)
(* The commit, the one step of the thread that the tables show.            *)
(***************************************************************************)
LEMMA CommitEffect ==
    ASSUME NEW h \in Handlers, Handlers = {h}, OneInv(h), Commit(h)
    PROVE  /\ thread[h].req \in Requests /\ thread[h].stamp \in Nat /\ thread[h].stamp <= now
           /\ UNCHANGED now /\ thread'[h] = Idle
           /\ Stands(thread[h], Committed)
           /\ thread[h].req.kind # "scan" =>
                 Wrote(thread[h].req, thread[h].stamp, Committed, Committed')
           /\ thread[h].req.kind = "scan" =>
                 /\ UNCHANGED <<managerOf, inst>>
                 /\ \E f \in [Missing(thread[h], Committed) -> 1..MaxAlerts] :
                       /\ AreNextIds(f, Ids(alerts))
                       /\ alerts' = alerts \cup Recorded(f, thread[h].req.type)
<1> DEFINE s == thread[h]
<1>1. /\ s.pc = "commit" /\ lock = h /\ View(h) = work /\ lock # NULL
      /\ managerOf' = work.managerOf /\ inst' = work.inst /\ alerts' = work.alerts
      /\ now' = now /\ thread'[h] = Idle
  BY HandlersAssumption DEF Commit, OneInv, CInv, LockOK, ThreadsOK, View
<1>2. s.req \in Requests /\ s.stamp \in Nat /\ s.stamp <= now
  BY <1>1 DEF OneInv, CInv, ThreadsOK, AtItsStatement, Thread
<1>3. Committed' = work
  BY <1>1 DEF Committed, OneInv, CInv, WorkOK, AreTables
<1>4. Stands(s, Committed)
      /\ (s.req.kind # "scan" => Wrote(s.req, s.stamp, Committed, Committed'))
  BY <1>1, <1>3 DEF OneInv
<1>5. ASSUME s.req.kind = "scan"
      PROVE  /\ UNCHANGED <<managerOf, inst>>
             /\ \E f \in [Missing(s, Committed) -> 1..MaxAlerts] :
                   /\ AreNextIds(f, Ids(alerts))
                   /\ alerts' = alerts \cup Recorded(f, s.req.type)
  <2>1. ScanStands(s, Committed, work)
    BY <1>1, <1>5 DEF OneInv, Scanning
  <2>2. PICK done \in SUBSET Missing(s, Committed) :
           \E f \in [done -> 1..MaxAlerts] : Recording(s, Committed, work, done, f)
    BY <2>1 DEF ScanStands
  <2>3. PICK f \in [done -> 1..MaxAlerts] : Recording(s, Committed, work, done, f)
    BY <2>2
  <2>4. /\ done = Missing(s, Committed) /\ AreNextIds(f, Ids(alerts))
        /\ alerts' = alerts \cup Recorded(f, s.req.type)
    BY <1>1, <2>3 DEF Recording, Committed
  <2>5. managerOf' = managerOf /\ inst' = inst
    BY <1>1, <2>1 DEF ScanStands, Committed
  <2> QED BY <2>4, <2>5
<1> QED BY <1>1, <1>2, <1>4, <1>5

\* A commit of a single thread makes no second open alert, orphans none, rewrites no
\* resolved one, and dates no row ahead of the clock.
LEMMA CommitIsSafe ==
    ASSUME NEW h \in Handlers, Handlers = {h}, OneInv(h), CInv', Commit(h)
    PROVE  /\ OneOpenAlert' /\ NoOrphanAlert' /\ ResolvedKept
           /\ \A i \in DOMAIN inst' : inst'[i].updatedAt <= now
<1> DEFINE s == thread[h]
           r == s.req
           W == Committed
<1>1. /\ r \in Requests /\ s.stamp \in Nat /\ s.stamp <= now /\ UNCHANGED now
      /\ Stands(s, W) /\ s.pc = "commit"
      /\ r.kind # "scan" => Wrote(r, s.stamp, W, W')
      /\ r.kind = "scan" =>
            /\ UNCHANGED <<managerOf, inst>>
            /\ \E f \in [Missing(s, W) -> 1..MaxAlerts] :
                  /\ AreNextIds(f, Ids(alerts)) /\ alerts' = alerts \cup Recorded(f, r.type)
  BY CommitEffect DEF Commit
<1>2. /\ W.managerOf = managerOf /\ W.inst = inst /\ W.alerts = alerts
      /\ W'.managerOf = managerOf' /\ W'.inst = inst' /\ W'.alerts = alerts'
  BY DEF Committed
<1>3. /\ IInv /\ TypeOK' /\ \A i \in DOMAIN inst : inst[i].updatedAt <= now
  BY DEF OneInv, CInv, IInv
<1> HIDE DEF s, r, W
<1>4. ASSUME alerts' \subseteq alerts PROVE OneOpenAlert' /\ ResolvedKept
  BY <1>3, <1>4 DEF IInv, TypeOK, AlertIdsUnique, OneOpenAlert, ResolvedKept, IsOpen
<1>5. CASE r.kind = "create_client"
  <2>1. inst' = inst /\ alerts' = alerts
    BY <1>1, <1>2, <1>5 DEF Wrote
  <2> QED BY <1>3, <1>4, <2>1 DEF IInv, NoOrphanAlert
<1>6. CASE r.kind = "create"
  <2>1. alerts' = alerts
    BY <1>1, <1>2, <1>6 DEF Wrote
  <2>2. PICK i \in 1..MaxInstances :
           inst' = [j \in DOMAIN inst \cup {i} |->
                      IF j = i THEN [clientId |-> r.client, status |-> r.status,
                                     cpuUsage |-> r.cpu, updatedAt |-> s.stamp]
                               ELSE inst[j]]
    BY <1>1, <1>2, <1>6 DEF Wrote
  <2> QED BY <1>1, <1>3, <1>4, <2>1, <2>2 DEF IInv, NoOrphanAlert
<1>7. CASE r.kind = "update"
  <2>1. /\ alerts' = alerts
        /\ inst' = [inst EXCEPT ![r.id] = Applied(inst[r.id], r.status, r.cpu, s.stamp)]
    BY <1>1, <1>2, <1>7 DEF Wrote
  <2>2. r.id \in DOMAIN inst => Applied(inst[r.id], r.status, r.cpu, s.stamp).updatedAt = s.stamp
    BY <1>3 DEF Applied, IInv, TypeOK, Instance
  <2>3. /\ DOMAIN inst' = DOMAIN inst
        /\ \A i \in DOMAIN inst : inst'[i] = IF i = r.id
                                             THEN Applied(inst[r.id], r.status, r.cpu, s.stamp)
                                             ELSE inst[i]
    BY <2>1
  <2> QED BY <1>1, <1>3, <1>4, <2>1, <2>2, <2>3 DEF IInv, NoOrphanAlert
<1>8. CASE r.kind = "delete"
  <2>1. /\ alerts' = {a \in alerts : a.instanceId # r.id}
        /\ inst' = [j \in DOMAIN inst \ {r.id} |-> inst[j]]
    BY <1>1, <1>2, <1>8 DEF Wrote
  <2> QED BY <1>3, <1>4, <2>1 DEF IInv, NoOrphanAlert
<1>9. CASE r.kind = "resolve"
  <2>1. PICK a \in alerts :
           /\ Resolves(r, a, W) /\ inst' = inst
           /\ alerts' = (alerts \ {a}) \cup {[a EXCEPT !.resolvedAt = s.stamp]}
    BY <1>1, <1>2, <1>9 DEF Wrote
  <2> DEFINE b == [a EXCEPT !.resolvedAt = s.stamp]
  <2>2. /\ IsOpen(a) /\ ~IsOpen(b) /\ b.id = a.id /\ b.instanceId = a.instanceId
    BY <1>1, <1>3, <2>1, NumbersAssumption DEF Resolves, IsOpen, IInv, TypeOK, Alert
  <2> HIDE DEF b
  <2>3. alerts' = (alerts \ {a}) \cup {b}
    BY <2>1 DEF b
  <2>4. OneOpenAlert'
    BY <1>3, <2>2, <2>3 DEF IInv, OneOpenAlert, IsOpen
  <2>5. NoOrphanAlert'
    BY <1>3, <2>1, <2>2, <2>3 DEF IInv, NoOrphanAlert
  <2>6. ResolvedKept
    BY <1>3, <2>2, <2>3 DEF IInv, TypeOK, AlertIdsUnique, ResolvedKept
  <2>7. \A i \in DOMAIN inst' : inst'[i].updatedAt <= now
    BY <1>3, <2>1
  <2> QED BY <2>4, <2>5, <2>6, <2>7
<1>10. CASE r.kind = "scan"
  <2>1. UNCHANGED <<managerOf, inst>> /\ r.type \in AlertTypes
    BY <1>1, <1>10, RequestFields
  <2>2. PICK f \in [Missing(s, W) -> 1..MaxAlerts] :
           AreNextIds(f, Ids(alerts)) /\ alerts' = alerts \cup Recorded(f, r.type)
    BY <1>1, <1>10
  <2>3. Missing(s, W) \in SUBSET (DOMAIN inst \ WithOpenAlert(r.type))
    BY <1>2 DEF Missing, Found, WithOpenAlert, r
  <2>4. OneOpenAlert' /\ NoOrphanAlert'
    <3> DEFINE M == Missing(s, W)
    <3>1. AreNextIds(f, {a.id : a \in alerts})
      BY <2>2 DEF Ids
    <3> HIDE DEF M
    <3> QED BY <1>3, <2>1, <2>2, <2>3, <3>1, RecordingIsSafe DEF M
  <2>5. ResolvedKept
    BY <1>3, <2>2 DEF IInv, TypeOK, AlertIdsUnique, ResolvedKept
  <2>6. \A i \in DOMAIN inst' : inst'[i].updatedAt <= now
    BY <1>3, <2>1
  <2> QED BY <2>4, <2>5, <2>6
<1> QED BY <1>1, <1>5, <1>6, <1>7, <1>8, <1>9, <1>10, RequestFields

LEMMA CommitOneInv ==
    ASSUME NEW h \in Handlers, Handlers = {h}, OneInv(h), CInv', Commit(h)
    PROVE  OneInv(h)'
<1>1. UNCHANGED now /\ thread'[h] = Idle
  BY CommitEffect
<1>2. /\ OneOpenAlert' /\ NoOrphanAlert' /\ now' <= MaxTime
      /\ \A i \in DOMAIN inst' : inst'[i].updatedAt <= now'
  BY <1>1, CommitIsSafe DEF OneInv
<1>3. Idle.stamp <= now /\ Idle.pc = "idle"
  BY DEF Idle, OneInv, CInv, TypeOK
<1>4. Stands(thread'[h], Committed')
  BY <1>1, <1>3 DEF Stands
<1> QED BY <1>1, <1>2, <1>3, <1>4 DEF OneInv, Scanning

\* A step of the clock, or a restart, leaves the single thread nothing to answer for.
LEMMA TickOneInv ==
    ASSUME NEW h \in Handlers, OneInv(h), CInv', CTick PROVE OneInv(h)'
<1>1. /\ UNCHANGED <<managerOf, inst, alerts, thread, lock, work>>
      /\ now < MaxTime /\ now' = now + 1 /\ now \in Nat
  BY DEF CTick, Tick, OneInv, CInv, TypeOK
<1>2. /\ Committed' = Committed /\ View(h)' = View(h)
      /\ \A i \in DOMAIN inst : inst[i].updatedAt \in Nat
      /\ thread[h].stamp \in Nat
  BY <1>1 DEF Committed, View, OneInv, CInv, TypeOK, Instance, ThreadsOK, Thread
<1>3. /\ now' <= MaxTime /\ thread'[h].stamp <= now'
      /\ \A i \in DOMAIN inst' : inst'[i].updatedAt <= now'
  BY <1>1, <1>2, NumbersAssumption DEF OneInv
<1>4. OneOpenAlert' /\ NoOrphanAlert'
  BY <1>1 DEF OneInv, OneOpenAlert, NoOrphanAlert, IsOpen
<1>5. Stands(thread'[h], Committed')
      /\ (Scanning(thread'[h]) => ScanStands(thread'[h], Committed', View(h)'))
      /\ (thread'[h].pc = "commit" /\ thread'[h].req.kind # "scan" =>
             Wrote(thread'[h].req, thread'[h].stamp, Committed', work'))
  BY <1>1, <1>2 DEF OneInv
<1> QED BY <1>3, <1>4, <1>5 DEF OneInv

LEMMA CrashOneInv ==
    ASSUME NEW h \in Handlers, OneInv(h), CInv', Crash PROVE OneInv(h)'
BY IdleOneInv DEF Crash

LEMMA InitOneInv ==
    ASSUME NEW h \in Handlers, CInit PROVE OneInv(h)
<1>1. CInv /\ Init /\ thread[h] = Idle
  BY InitCInv DEF CInit
<1>2. OneOpenAlert /\ NoOrphanAlert
  BY <1>1, InitIInv DEF IInv
<1>3. Idle.pc = "idle" /\ Idle.stamp = 0
  BY DEF Idle
<1>4. now = 0 /\ 0 <= MaxTime /\ DOMAIN inst = {}
  BY <1>1, NumbersAssumption DEF Init
<1> QED BY <1>1, <1>2, <1>3, <1>4 DEF OneInv, Stands, Scanning

LEMMA NextOneInv ==
    ASSUME NEW h, Handlers = {h}
    PROVE  OneInv(h) /\ [CNext]_cvars => OneInv(h)'
<1> SUFFICES ASSUME OneInv(h), [CNext]_cvars PROVE OneInv(h)'
  OBVIOUS
<1>1. CInv' /\ h \in Handlers
  BY NextCInv DEF OneInv
<1>2. CASE UNCHANGED cvars
  <2>1. /\ Committed' = Committed /\ View(h)' = View(h)
        /\ UNCHANGED <<managerOf, inst, alerts, now, thread, lock, work>>
    BY <1>2 DEF cvars, Committed, View
  <2>2. OneOpenAlert' /\ NoOrphanAlert'
    BY <2>1 DEF OneInv, OneOpenAlert, NoOrphanAlert, IsOpen
  <2> QED BY <1>1, <2>1, <2>2 DEF OneInv
<1>3. CASE CTick
  BY <1>1, <1>3, TickOneInv
<1>4. CASE Crash
  BY <1>1, <1>4, CrashOneInv
<1>5. CASE Receive(h)
  BY <1>1, <1>5, ReceiveOneInv
<1>6. CASE Proceed(h)
  BY <1>1, <1>6, StampOneInv, CollectAlertsOneInv, WriteOneInv, FailOneInv, CommitOneInv,
     ReadBatchOneInv, ProbeOneInv, InsertAlertsOneInv DEF Proceed
<1> QED BY <1>2, <1>3, <1>4, <1>5, <1>6 DEF CNext

\* What a single thread preserves holds in every state of a server that has only one.
THEOREM OneInvHolds == ASSUME NEW h, Handlers = {h} PROVE CSpec => []OneInv(h)
<1>1. CInit => OneInv(h)
  BY InitOneInv
<1>2. OneInv(h) /\ [CNext]_cvars => OneInv(h)'
  BY NextOneInv
<1> QED BY <1>1, <1>2, PTL DEF CSpec

\* With a single thread, though a scan reads, probes and inserts batch by batch in between
\* the ticks of the clock and the restarts of the process, an instance has at most one open
\* alert of a type.
THEOREM SingleThreadOneOpenAlert == ASSUME NEW h, Handlers = {h} PROVE CSpec => []OneOpenAlert
<1>1. OneInv(h) => OneOpenAlert
  BY DEF OneInv
<1> QED BY <1>1, OneInvHolds, PTL

\* With a single thread the alerts a deletion collected are all the instance has when it is
\* deleted: no alert outlives its instance.
THEOREM SingleThreadNoOrphanAlert == ASSUME NEW h, Handlers = {h} PROVE CSpec => []NoOrphanAlert
<1>1. OneInv(h) => NoOrphanAlert
  BY DEF OneInv
<1> QED BY <1>1, OneInvHolds, PTL

\* Only a commit changes the tables.
LEMMA QuietSteps ==
    ASSUME NEW h, Handlers = {h}, [CNext]_cvars, ~Commit(h)
    PROVE  UNCHANGED <<managerOf, inst, alerts>> /\ (CTick \/ UNCHANGED now)
<1>1. CASE UNCHANGED cvars
  BY <1>1 DEF cvars
<1>2. CASE CTick
  BY <1>2 DEF CTick, Tick
<1>3. CASE Crash
  BY <1>3 DEF Crash
<1>4. CASE Receive(h)
  BY <1>4 DEF Receive, ReceiveCreateClient, ReceiveCreate, ReceiveUpdate, ReceiveDelete,
              ReceiveResolve, ReceiveScan, Arrive
<1>5. CASE Proceed(h)
  BY <1>5 DEF Proceed, Stamp, CollectAlerts, Write, Fail, ReadBatch, Probe, InsertAlerts
<1> QED BY <1>1, <1>2, <1>3, <1>4, <1>5 DEF CNext

\* With a single thread no request, and no failure or restart in the middle of one, reopens
\* or rewrites a resolved alert.
THEOREM SingleThreadResolvedIsFinal ==
    ASSUME NEW h, Handlers = {h} PROVE CSpec => ResolvedIsFinal
<1>1. ASSUME OneInv(h), OneInv(h)', [CNext]_cvars PROVE ResolvedKept
  <2>1. CASE Commit(h)
    BY <1>1, <2>1, CommitIsSafe DEF OneInv
  <2>2. CASE ~Commit(h)
    BY <1>1, <2>2, QuietSteps DEF ResolvedKept, OneInv, CInv, TypeOK, AlertIdsUnique
  <2> QED BY <2>1, <2>2
<1>2. OneInv(h) /\ OneInv(h)' /\ [CNext]_cvars => [ResolvedKept]_vars
  BY <1>1
<1> QED BY <1>2, OneInvHolds, PTL DEF CSpec, ResolvedIsFinal

\* The commit of a request is the abstract request, at the instant the thread stamped it.
LEMMA CommitImplements ==
    ASSUME NEW h \in Handlers, Handlers = {h}, MaxTime <= MaxLatency, OneInv(h), Commit(h)
    PROVE  Next
<1> DEFINE s == thread[h]
           r == s.req
           W == Committed
<1>1. /\ r \in Requests /\ s.stamp \in Nat /\ s.stamp <= now /\ UNCHANGED now
      /\ Stands(s, W) /\ s.pc = "commit"
      /\ r.kind # "scan" => Wrote(r, s.stamp, W, W')
      /\ r.kind = "scan" =>
            /\ UNCHANGED <<managerOf, inst>>
            /\ \E f \in [Missing(s, W) -> 1..MaxAlerts] :
                  /\ AreNextIds(f, Ids(alerts)) /\ alerts' = alerts \cup Recorded(f, r.type)
  BY CommitEffect DEF Commit
<1>2. /\ W.managerOf = managerOf /\ W.inst = inst /\ W.alerts = alerts
      /\ W'.managerOf = managerOf' /\ W'.inst = inst' /\ W'.alerts = alerts'
  BY DEF Committed
<1>3. s.stamp \in Instants
  BY <1>1, NumbersAssumption DEF Instants, OneInv, CInv, TypeOK
<1>4. \A m : ScopeIn(m, W) = Scope(m)
  BY ScopeOfCommitted
<1>5. Missing(s, W) = Detected(r.by, r.type, s.stamp) \ WithOpenAlert(r.type)
  BY FoundIsDetected
<1>6. r.by \in Members /\ (RequestBy(r.by) => Next)
  BY <1>1, RequestFields DEF Next
<1> HIDE DEF s, r, W
<1>7. CASE r.kind = "create_client"
  <2>1. r.manager \in Managers /\ r.by \in Admins
    BY <1>1, <1>7, RequestFields DEF Stands, r
  <2>2. CreateClient(r.by, r.manager)
    BY <1>1, <1>2, <1>7, <2>1 DEF Wrote, CreateClient
  <2> QED BY <1>6, <2>1, <2>2 DEF RequestBy
<1>8. CASE r.kind = "create"
  <2>1. /\ r.client \in Scope(r.by) /\ r.client \in 1..MaxClients
        /\ r.status \in Statuses /\ r.cpu \in CpuLevels
    BY <1>1, <1>4, <1>8, RequestFields DEF Stands, r
  <2>2. CreateInstance(r.by, r.client, r.status, r.cpu)
    <3>1. PICK i \in 1..MaxInstances :
             /\ IsNextId(i, DOMAIN W.inst)
             /\ W'.inst = [j \in DOMAIN W.inst \cup {i} |->
                             IF j = i THEN [clientId |-> r.client, status |-> r.status,
                                            cpuUsage |-> r.cpu, updatedAt |-> s.stamp]
                                      ELSE W.inst[j]]
      BY <1>1, <1>8 DEF Wrote
    <3>2. UNCHANGED <<managerOf, alerts, now>>
      BY <1>1, <1>2, <1>8 DEF Wrote
    <3>3. /\ IsNextId(i, DOMAIN inst)
          /\ inst' = [j \in DOMAIN inst \cup {i} |->
                        IF j = i THEN [clientId |-> r.client, status |-> r.status,
                                       cpuUsage |-> r.cpu, updatedAt |-> s.stamp]
                                 ELSE inst[j]]
      BY <1>2, <3>1
    <3> QED BY <1>3, <2>1, <3>2, <3>3 DEF CreateInstance
  <2> QED BY <1>6, <2>1, <2>2 DEF RequestBy
<1>9. CASE r.kind = "update"
  <2>1. /\ r.id \in DOMAIN inst /\ inst[r.id].clientId \in Scope(r.by)
        /\ ~IsNoOp(inst[r.id], r.status, r.cpu)
        /\ s.stamp >= inst[r.id].updatedAt
    BY <1>1, <1>2, <1>4, <1>9 DEF Stands, UpdateStands, r
  <2>2. r.status \in Statuses /\ r.cpu \in CpuLevels \cup {NULL}
    BY <1>1, <1>9, RequestFields
  <2>3. UpdateStatus(r.by, r.id, r.status, r.cpu)
    <3>1. /\ inst' = [inst EXCEPT ![r.id] = Applied(@, r.status, r.cpu, s.stamp)]
          /\ UNCHANGED <<managerOf, alerts, now>>
      BY <1>1, <1>2, <1>9 DEF Wrote
    <3> QED BY <1>3, <2>1, <3>1 DEF UpdateStatus
  <2> QED BY <1>6, <2>1, <2>2, <2>3 DEF RequestBy
<1>10. CASE r.kind = "delete"
  <2>1. /\ r.id \in DOMAIN inst /\ inst[r.id].clientId \in Scope(r.by)
        /\ inst[r.id].status # "RUNNING"
    BY <1>1, <1>2, <1>4, <1>10 DEF Stands, DeleteStands, r
  <2>2. DeleteInstance(r.by, r.id)
    BY <1>1, <1>2, <1>10, <2>1 DEF Wrote, DeleteInstance
  <2> QED BY <1>6, <2>1, <2>2 DEF RequestBy
<1>11. CASE r.kind = "resolve"
  <2>1. PICK a \in alerts :
           /\ Resolves(r, a, W) /\ inst' = inst /\ managerOf' = managerOf
           /\ alerts' = (alerts \ {a}) \cup {[a EXCEPT !.resolvedAt = s.stamp]}
    BY <1>1, <1>2, <1>11 DEF Wrote
  <2>2. ResolveAlert(r.by, a)
    BY <1>1, <1>2, <1>3, <1>4, <2>1 DEF Resolves, ResolveAlert
  <2> QED BY <1>6, <2>2 DEF RequestBy
<1>12. CASE r.kind = "scan"
  <2> DEFINE M == Detected(r.by, r.type, s.stamp) \ WithOpenAlert(r.type)
  <2>1. r.type \in AlertTypes /\ UNCHANGED <<managerOf, inst, now>>
    BY <1>1, <1>12, RequestFields
  <2>2. PICK f \in [M -> 1..MaxAlerts] :
           AreNextIds(f, Ids(alerts)) /\ alerts' = alerts \cup Recorded(f, r.type)
    BY <1>1, <1>5, <1>12
  <2>3. /\ AreNextIds(f, {a.id : a \in alerts})
        /\ alerts' = alerts \cup {[id |-> f[i], instanceId |-> i, alertType |-> r.type,
                                   resolvedAt |-> NULL] : i \in M}
    BY <2>2 DEF Ids, Recorded
  <2>4. Scan(r.by, r.type)
    BY <1>3, <2>1, <2>3 DEF Scan
  <2> QED BY <1>6, <2>1, <2>4 DEF RequestBy
<1> QED BY <1>1, <1>7, <1>8, <1>9, <1>10, <1>11, <1>12, RequestFields

\* With a single thread the statements of the endpoints implement Monitoring, where each
\* request takes effect at once: whatever batches a scan is made of, whichever statement
\* fails and wherever the process dies, the tables change by whole requests.  Monitoring is
\* taken with a latency no request exceeds: here, the length of the run.
THEOREM ImplementsMonitoring ==
    ASSUME NEW h, Handlers = {h}, MaxTime <= MaxLatency PROVE CSpec => Spec
<1>1. CInit => Init
  BY DEF CInit
<1>2. OneInv(h) /\ [CNext]_cvars => [Next]_vars
  <2> SUFFICES ASSUME OneInv(h), [CNext]_cvars PROVE [Next]_vars
    OBVIOUS
  <2>1. CASE Commit(h)
    BY <2>1, CommitImplements
  <2>2. CASE ~Commit(h)
    <3>1. UNCHANGED <<managerOf, inst, alerts>> /\ (CTick \/ UNCHANGED now)
      BY <2>2, QuietSteps
    <3> QED BY <3>1 DEF CTick, Next, vars
  <2> QED BY <2>1, <2>2
<1> QED BY <1>1, <1>2, OneInvHolds, PTL DEF CSpec, Spec
-------------------------------------------------------------------------------
(***************************************************************************)
(* What a scan owes, for any number of threads.                            *)
(***************************************************************************)

\* An instance that a scan owes an alert has one, is ahead of the walk, or is in its batch.
OnItsWay(h, i) ==
    \/ i \in Unresolved(h)
    \/ /\ i > thread[h].last
       /\ thread[h].pc = "batch" \/ (thread[h].pc \in {"probe", "insert"} /\ thread[h].more)
    \/ thread[h].pc \in {"probe", "insert"} /\ i \in thread[h].ids

\* What a scan sees of the instances inside its transaction is what is committed, and nothing
\* it owes is lost on its way.
OwedInv(h) ==
    Scanning(thread[h]) =>
        /\ lock = h => work.inst = inst
        /\ \A i \in owed[h] : OnItsWay(h, i)

\* A step that leaves a scan alone, and its transaction if it has one, takes no alert away
\* from an instance the scan still owes one.
LEMMA LeftAlone ==
    ASSUME NEW h \in Handlers, OwedInv(h), Scanning(thread[h]), thread'[h] = thread[h],
           lock = h => lock' = h /\ UNCHANGED <<inst, work>>,
           lock # h => lock' # h,
           owed'[h] \subseteq Owed(h)
    PROVE  OwedInv(h)'
<1>1. \A i \in Owed(h) : i \in owed[h] /\ ~LostAlert(i, thread[h].req.type)
  BY DEF Owed
<1>2. ASSUME NEW i \in owed'[h], i \in Unresolved(h) PROVE i \in Unresolved(h)'
  <2>1. PICK a \in View(h).alerts : a.alertType = thread[h].req.type /\ IsOpen(a) /\ a.instanceId = i
    BY <1>2 DEF Unresolved
  <2>2. a \in View(h)'.alerts
    <3>1. CASE lock = h
      BY <2>1, <3>1 DEF View
    <3>2. CASE lock # h
      <4>1. a \in alerts /\ View(h)'.alerts = alerts'
        BY <2>1, <3>2 DEF View, Committed
      <4>2. ~LostAlert(i, thread[h].req.type)
        BY <1>1
      <4> QED BY <2>1, <4>1, <4>2 DEF LostAlert
    <3> QED BY <3>1, <3>2
  <2> QED BY <2>1, <2>2 DEF Unresolved, IsOpen
<1>3. \A i \in owed'[h] : OnItsWay(h, i)'
  BY <1>1, <1>2 DEF OwedInv, OnItsWay
<1>4. lock' = h => work'.inst = inst'
  BY DEF OwedInv
<1> QED BY <1>3, <1>4 DEF OwedInv

\* What a scan's SELECT of the next batch leaves it with: all it found if that was less than
\* a batch, and else the first of it, with the rest ahead.
LEMMA ReadBatchEffect ==
    ASSUME CInv, NEW h \in Handlers, ReadBatch(h)
    PROVE  LET found == MatchesAfterLast(h)
               t == thread'[h]
           IN  /\ thread[h].pc = "batch"
               /\ UNCHANGED <<managerOf, inst, alerts, now, lock, work>>
               /\ thread' = [thread EXCEPT ![h] = t]
               /\ \/ found = {} /\ t = AfterBatch(h, FALSE)
                  \/ /\ t.pc = "probe" /\ t.req = thread[h].req /\ t.stamp = thread[h].stamp
                     /\ \A i \in found : i \in t.ids \/ (i > t.last /\ t.more)
<1> DEFINE found == MatchesAfterLast(h)
           batch == BatchOf(found)
           last == CHOOSE i \in batch : \A j \in batch : j <= i
           s == [thread[h] EXCEPT !.pc = "probe", !.ids = batch, !.last = last,
                                  !.more = Cardinality(batch) = BatchSize]
<1>1. /\ thread[h].pc = "batch"
      /\ UNCHANGED <<managerOf, inst, alerts, now, lock, work>>
      /\ thread' = [thread EXCEPT ![h] = IF batch = {} THEN AfterBatch(h, FALSE) ELSE s]
  BY DEF ReadBatch, BatchOf, CInv, ThreadsOK
<1>2. thread \in [Handlers -> Thread] /\ thread[h] \in Thread
  BY DEF CInv, ThreadsOK
<1>3. found \in SUBSET (1..MaxInstances) /\ MaxInstances \in Nat
  BY BatchTyped, NumbersAssumption
<1> HIDE DEF found, s
<1>4. /\ found # {} => batch # {}
      /\ \A i \in batch, j \in found : j <= i => j \in batch
      /\ Cardinality(batch) # BatchSize => batch = found
      /\ batch \subseteq found
  <2>1. batch \subseteq found
    BY DEF BatchOf
  <2> QED BY ONLY <1>3, <2>1, BatchIsPrefix
<1> HIDE DEF batch
<1>5. CASE batch = {}
  <2>1. found = {} /\ thread'[h] = AfterBatch(h, FALSE)
        /\ thread' = [thread EXCEPT ![h] = AfterBatch(h, FALSE)]
    BY <1>1, <1>2, <1>4, <1>5
  <2> QED BY <1>1, <2>1 DEF found
<1>6. CASE batch # {}
  <2>1. thread'[h] = s /\ thread' = [thread EXCEPT ![h] = s]
    BY <1>1, <1>2, <1>6
  <2>2. last \in batch
    <3>1. batch \in SUBSET (0..MaxInstances)
      BY <1>3, <1>4
    <3>2. \E i \in batch : \A j \in batch : j <= i
      BY <1>3, <1>6, <3>1, GreatestExists
    <3> QED BY <3>2
  <2> HIDE DEF last
  <2>3. /\ s.pc = "probe" /\ s.req = thread[h].req /\ s.stamp = thread[h].stamp
        /\ s.ids = batch /\ s.last = last /\ s.more = (Cardinality(batch) = BatchSize)
    BY <1>2 DEF s, Thread
  <2>4. ASSUME NEW i \in found, i \notin batch PROVE i > last /\ s.more
    <3>1. ~(i <= last) /\ s.more
      BY <1>4, <2>2, <2>3, <2>4
    <3>2. i \in Nat /\ last \in Nat
      BY <1>3, <1>4, <2>2
    <3> QED BY <3>1, <3>2
  <2> QED BY <1>1, <2>1, <2>3, <2>4 DEF found
<1> QED BY <1>5, <1>6

\* What the probe leaves of a batch: the instances without an open alert, if there are any.
LEMMA ProbeEffect ==
    ASSUME CInv, NEW h \in Handlers, Probe(h)
    PROVE  LET missing == thread[h].ids \ Unresolved(h)
               t == thread'[h]
           IN  /\ thread[h].pc = "probe"
               /\ UNCHANGED <<managerOf, inst, alerts, now, lock, work>>
               /\ thread' = [thread EXCEPT ![h] = t]
               /\ \/ missing = {} /\ t = AfterBatch(h, thread[h].more)
                  \/ /\ t.pc = "insert" /\ t.req = thread[h].req /\ t.stamp = thread[h].stamp
                     /\ t.last = thread[h].last /\ t.more = thread[h].more /\ t.ids = missing
<1> DEFINE missing == thread[h].ids \ Unresolved(h)
           s == [thread[h] EXCEPT !.pc = "insert", !.ids = missing]
<1>1. /\ thread[h].pc = "probe"
      /\ UNCHANGED <<managerOf, inst, alerts, now, lock, work>>
      /\ thread' = [thread EXCEPT ![h] = IF missing = {} THEN AfterBatch(h, thread[h].more)
                                                         ELSE s]
  BY DEF Probe, CInv, ThreadsOK
<1>2. thread \in [Handlers -> Thread] /\ thread[h] \in Thread
  BY DEF CInv, ThreadsOK
<1> HIDE DEF missing
<1>3. /\ s.pc = "insert" /\ s.req = thread[h].req /\ s.stamp = thread[h].stamp
      /\ s.last = thread[h].last /\ s.more = thread[h].more /\ s.ids = missing
  BY <1>2 DEF Thread
<1> HIDE DEF s
<1>4. CASE missing = {}
  BY <1>1, <1>2, <1>4 DEF missing
<1>5. CASE missing # {}
  BY <1>1, <1>2, <1>3, <1>5 DEF missing
<1> QED BY <1>4, <1>5

\* No other thread touches what a scan holds, or its transaction.
LEMMA OthersLeaveAlone ==
    ASSUME CInv, NEW h \in Handlers, NEW g \in Handlers \ {h}, Receive(g) \/ Proceed(g)
    PROVE  /\ thread'[h] = thread[h]
           /\ lock = h => lock' = h /\ UNCHANGED <<inst, work>>
           /\ lock # h => lock' # h
<1>1. lock \in Handlers \cup {NULL} /\ NULL \notin Handlers
  BY HandlersAssumption DEF CInv, LockOK
<1>2. thread \in [Handlers -> Thread]
  BY DEF CInv, ThreadsOK
<1>3. CASE Receive(g)
  BY <1>2, <1>3 DEF Receive, ReceiveCreateClient, ReceiveCreate, ReceiveUpdate, ReceiveDelete,
                    ReceiveResolve, ReceiveScan, Arrive
<1>4. CASE Stamp(g) \/ CollectAlerts(g) \/ Fail(g)
  BY <1>2, <1>4 DEF Stamp, CollectAlerts, Fail
<1>5. CASE Write(g)
  BY <1>1, <1>2, <1>5 DEF Write
<1>6. CASE Commit(g)
  <2>1. lock = g
    BY <1>6 DEF Commit, CInv, LockOK
  <2> QED BY <1>1, <1>2, <1>6, <2>1 DEF Commit
<1>7. CASE ReadBatch(g)
  <2>1. UNCHANGED <<inst, lock, work>>
    BY <1>7 DEF ReadBatch
  <2>2. thread' = [thread EXCEPT ![g] = thread'[g]]
    BY <1>7, ReadBatchEffect
  <2> QED BY <1>2, <2>1, <2>2
<1>8. CASE Probe(g)
  <2>1. UNCHANGED <<inst, lock, work>>
    BY <1>8 DEF Probe
  <2>2. thread' = [thread EXCEPT ![g] = thread'[g]]
    BY <1>8, ProbeEffect
  <2> QED BY <1>2, <2>1, <2>2
<1>9. CASE InsertAlerts(g)
  BY <1>1, <1>2, <1>9 DEF InsertAlerts
<1> QED BY <1>3, <1>4, <1>5, <1>6, <1>7, <1>8, <1>9 DEF Proceed

\* The instances with an open alert of a type in the tables V.
Alerted(V, type) ==
    {a.instanceId : a \in {b \in V.alerts : b.alertType = type /\ IsOpen(b)}}

\* After a batch the scan goes on to the next, or it is through with all it owes.
LEMMA AfterBatchOwed ==
    ASSUME CInv', NEW h \in Handlers, Scanning(thread[h]), thread[h] \in Thread,
           NEW more \in BOOLEAN, thread'[h] = AfterBatch(h, more),
           lock' = h => work'.inst = inst',
           NEW V, V = (IF lock' = h THEN work' ELSE Committed'),
           \A i \in owed'[h] : \/ i \in Alerted(V, thread[h].req.type)
                               \/ more /\ i > thread[h].last
    PROVE  OwedInv(h)'
<1> DEFINE t == thread'[h]
<1>1. CASE ~more /\ lock' # h
  <2>1. t.pc = "idle"
    BY <1>1, IdleIsOK DEF AfterBatch
  <2> QED BY <2>1 DEF OwedInv, Scanning
<1>2. CASE more \/ lock' = h
  <2>1. /\ t.pc = (IF more THEN "batch" ELSE "commit")
        /\ t.req = thread[h].req /\ t.last = thread[h].last
    BY <1>2 DEF AfterBatch, Thread
  <2>2. ASSUME NEW i \in owed'[h] PROVE OnItsWay(h, i)'
    <3>1. CASE more /\ i > thread[h].last
      BY <2>1, <3>1 DEF OnItsWay
    <3>2. CASE i \in Alerted(V, thread[h].req.type)
      <4>1. i \in Unresolved(h)'
        BY <2>1, <3>2 DEF View, Unresolved, Alerted, IsOpen
      <4> QED BY <4>1 DEF OnItsWay
    <3> QED BY <3>1, <3>2
  <2> QED BY <2>2 DEF OwedInv
<1> QED BY <1>1, <1>2

\* Where a scan is in its walk, and what it sees of the instances.
LEMMA ScanIsAt ==
    ASSUME CInv, NEW h \in Handlers, Scanning(thread[h]), OwedInv(h)
    PROVE  /\ thread[h] \in Thread /\ thread[h].pc \in {"batch", "probe", "insert", "commit"}
           /\ thread[h].pc = "commit" => lock = h
           /\ View(h).inst = inst
<1>1. thread[h] \in Thread /\ AtItsStatement(thread[h])
  BY DEF CInv, ThreadsOK
<1>2. thread[h].pc \in {"batch", "probe", "insert", "commit"}
  BY <1>1 DEF AtItsStatement, Thread, Pcs, Scanning
<1>3. thread[h].pc = "commit" => lock = h
  BY DEF CInv, LockOK
<1>4. View(h).inst = inst
  BY DEF OwedInv, View, Committed
<1> QED BY <1>1, <1>2, <1>3, <1>4

\* What a scan owes still matches what it looks for when it reads.
LEMMA OwedIsFound ==
    ASSUME CInv, NEW h \in Handlers, Scanning(thread[h]), OwedInv(h), UNCHANGED inst,
           NEW i \in Owed(h), i > thread[h].last
    PROVE  i \in MatchesAfterLast(h)
<1>1. i \in Matching(thread[h], inst) /\ View(h).inst = inst
  BY ScanIsAt DEF Owed
<1> QED BY <1>1 DEF Matching, MatchesAfterLast

\* Each statement of a scan keeps what it owes on its way.
LEMMA ReadBatchOwed ==
    ASSUME CInv, CInv', NEW h \in Handlers, Scanning(thread[h]), OwedInv(h), ReadBatch(h),
           owed'[h] \subseteq Owed(h)
    PROVE  OwedInv(h)'
<1> DEFINE found == MatchesAfterLast(h)
           t == thread'[h]
<1>1. /\ thread[h].pc = "batch"
      /\ UNCHANGED <<managerOf, inst, alerts, now, lock, work>>
      /\ \/ found = {} /\ t = AfterBatch(h, FALSE)
         \/ /\ t.pc = "probe" /\ t.req = thread[h].req
            /\ \A i \in found : i \in t.ids \/ (i > t.last /\ t.more)
  BY ReadBatchEffect
<1>2. View(h)' = View(h)
  BY <1>1 DEF View, Committed
<1>3. \A i \in owed'[h] : i \in Owed(h) /\ i \in owed[h]
  BY DEF Owed
<1>4. ASSUME NEW i \in owed'[h] PROVE i \in Unresolved(h) \/ i \in found
  BY <1>1, <1>3, OwedIsFound DEF OwedInv, OnItsWay
<1>5. lock' = h => work'.inst = inst'
  BY <1>1 DEF OwedInv
<1>6. CASE found = {} /\ t = AfterBatch(h, FALSE)
  <2>1. \A i \in owed'[h] : i \in Alerted(View(h)', thread[h].req.type)
    BY <1>2, <1>4, <1>6 DEF Unresolved, Alerted
  <2>2. thread[h] \in Thread
    BY ScanIsAt
  <2>3. View(h)' = IF lock' = h THEN work' ELSE Committed'
    BY DEF View
  <2> QED BY <1>5, <1>6, <2>1, <2>2, <2>3, AfterBatchOwed
<1>7. CASE /\ t.pc = "probe" /\ t.req = thread[h].req
           /\ \A i \in found : i \in t.ids \/ (i > t.last /\ t.more)
  <2>1. Unresolved(h)' = Unresolved(h)
    BY <1>2, <1>7 DEF Unresolved, IsOpen
  <2> QED BY <1>4, <1>5, <1>7, <2>1 DEF OwedInv, OnItsWay
<1> QED BY <1>1, <1>6, <1>7

LEMMA ProbeOwed ==
    ASSUME CInv, CInv', NEW h \in Handlers, Scanning(thread[h]), OwedInv(h), Probe(h),
           owed'[h] \subseteq Owed(h)
    PROVE  OwedInv(h)'
<1> DEFINE missing == thread[h].ids \ Unresolved(h)
           t == thread'[h]
<1>1. /\ thread[h].pc = "probe"
      /\ UNCHANGED <<managerOf, inst, alerts, now, lock, work>>
      /\ \/ missing = {} /\ t = AfterBatch(h, thread[h].more)
         \/ /\ t.pc = "insert" /\ t.req = thread[h].req
            /\ t.last = thread[h].last /\ t.more = thread[h].more /\ t.ids = missing
  BY ProbeEffect
<1>2. View(h)' = View(h)
  BY <1>1 DEF View, Committed
<1>3. ASSUME NEW i \in owed'[h]
      PROVE  i \in Unresolved(h) \/ i \in missing \/ (thread[h].more /\ i > thread[h].last)
  <2>1. i \in owed[h]
    BY DEF Owed
  <2> QED BY <1>1, <2>1 DEF OwedInv, OnItsWay
<1>4. lock' = h => work'.inst = inst'
  BY <1>1 DEF OwedInv
<1>5. thread[h] \in Thread /\ thread[h].more \in BOOLEAN
  BY ScanIsAt DEF Thread
<1>6. CASE missing = {} /\ t = AfterBatch(h, thread[h].more)
  <2>1. ASSUME NEW i \in owed'[h]
        PROVE  \/ i \in Alerted(View(h)', thread[h].req.type)
               \/ thread[h].more /\ i > thread[h].last
    <3>1. Unresolved(h) = Alerted(View(h)', thread[h].req.type)
      BY <1>2 DEF Unresolved, Alerted
    <3> QED BY <1>3, <1>6, <3>1
  <2>2. View(h)' = IF lock' = h THEN work' ELSE Committed'
    BY DEF View
  <2> QED BY <1>4, <1>5, <1>6, <2>1, <2>2, AfterBatchOwed
<1>7. CASE /\ t.pc = "insert" /\ t.req = thread[h].req
           /\ t.last = thread[h].last /\ t.more = thread[h].more /\ t.ids = missing
  <2>1. Unresolved(h)' = Unresolved(h)
    BY <1>2, <1>7 DEF Unresolved, IsOpen
  <2> QED BY <1>3, <1>4, <1>7, <2>1 DEF OwedInv, OnItsWay
<1> QED BY <1>1, <1>6, <1>7

LEMMA InsertAlertsOwed ==
    ASSUME CInv, CInv', NEW h \in Handlers, Scanning(thread[h]), OwedInv(h), InsertAlerts(h),
           owed'[h] \subseteq Owed(h)
    PROVE  OwedInv(h)'
<1>1. /\ thread[h].pc = "insert" /\ lock' = h
      /\ UNCHANGED <<managerOf, inst, alerts, now>>
      /\ thread' = [thread EXCEPT ![h] = AfterBatch(h, thread[h].more)]
  BY DEF InsertAlerts
<1>2. PICK f \in [thread[h].ids -> 1..MaxAlerts] :
          work' = [View(h) EXCEPT !.alerts = @ \cup Recorded(f, thread[h].req.type)]
  BY InsertAlertsEffect
<1>3. /\ AreTables(View(h)) /\ View(h).inst = inst
      /\ thread[h] \in Thread /\ thread[h].more \in BOOLEAN
      /\ thread'[h] = AfterBatch(h, thread[h].more)
  BY <1>1, BatchTyped, ScanIsAt DEF Thread, CInv, ThreadsOK
<1>4. /\ work'.inst = inst'
      /\ View(h)'.alerts = View(h).alerts \cup Recorded(f, thread[h].req.type)
  BY <1>1, <1>2, <1>3 DEF AreTables, View
<1>5. ASSUME NEW i \in owed'[h]
      PROVE  \/ i \in Alerted(View(h)', thread[h].req.type)
             \/ thread[h].more /\ i > thread[h].last
  <2>1. i \in owed[h]
    BY DEF Owed
  <2>2. CASE i \in Unresolved(h)
    BY <1>4, <2>2 DEF Unresolved, Alerted
  <2>3. CASE i \in thread[h].ids
    <3> DEFINE a == [id |-> f[i], instanceId |-> i, alertType |-> thread[h].req.type,
                     resolvedAt |-> NULL]
    <3>1. a \in Recorded(f, thread[h].req.type)
      BY <2>3 DEF Recorded
    <3>2. a.instanceId = i /\ IsOpen(a) /\ a.alertType = thread[h].req.type
      BY DEF IsOpen
    <3>3. a \in View(h)'.alerts
      BY <1>4, <3>1
    <3> HIDE DEF a
    <3> QED BY <3>2, <3>3 DEF Alerted
  <2> QED BY <1>1, <2>1, <2>2, <2>3 DEF OwedInv, OnItsWay
<1>6. View(h)' = IF lock' = h THEN work' ELSE Committed'
  BY DEF View
<1> QED BY <1>1, <1>3, <1>4, <1>5, <1>6, AfterBatchOwed

\* A scan that arrives owes what matches then, and all of that is ahead of it.
LEMMA ArriveOwed ==
    ASSUME CInv, CInv', NEW h \in Handlers, ~Scanning(thread[h]), Receive(h),
           Scanning(thread'[h]) => owed'[h] \subseteq Owed(h)
    PROVE  OwedInv(h)'
<1>1. /\ thread \in [Handlers -> Thread] /\ inst \in [DOMAIN inst -> Instance]
      /\ DOMAIN inst \subseteq 1..MaxInstances
  BY DEF CInv, ThreadsOK, TypeOK
<1>2. lock # h /\ UNCHANGED <<inst, lock>>
  <2>1. thread[h].pc = "idle" /\ UNCHANGED <<inst, lock>>
    BY DEF Receive, ReceiveCreateClient, ReceiveCreate, ReceiveUpdate, ReceiveDelete,
           ReceiveResolve, ReceiveScan, Arrive
  <2> QED BY <2>1, HandlersAssumption DEF CInv, LockOK
<1>3. CASE Scanning(thread'[h])
  <2>0. PICK r \in Requests :
            \E pc, row : Arrive(h, r, pc, row) /\ (r.kind = "scan" => pc = "batch")
    BY DEF Receive, ReceiveCreateClient, ReceiveCreate, ReceiveUpdate, ReceiveDelete,
           ReceiveResolve, ReceiveScan
  <2>1. PICK pc, row : Arrive(h, r, pc, row) /\ (r.kind = "scan" => pc = "batch")
    BY <2>0
  <2>2. thread'[h].pc = pc /\ thread'[h].req = r /\ thread'[h].last = 0
    BY <1>1, <2>1 DEF Arrive, Idle
  <2>3. thread'[h].pc = "batch" /\ thread'[h].last = 0
    BY <1>3, <2>1, <2>2 DEF Scanning
  <2>4. ASSUME NEW i \in owed'[h] PROVE i > 0
    <3>1. i \in Matching(thread'[h], inst')
      BY <1>3 DEF Owed
    <3>2. i \in 1..MaxInstances
      BY <1>1, <1>2, <3>1 DEF Matching
    <3> QED BY <3>2, NumbersAssumption
  <2> QED BY <1>2, <2>3, <2>4 DEF OwedInv, OnItsWay
<1>4. CASE ~Scanning(thread'[h])
  BY <1>4 DEF OwedInv
<1> QED BY <1>3, <1>4

\* Whatever a thread does next, its own scan keeps what it owes on its way.
LEMMA ProceedOwed ==
    ASSUME CInv, CInv', NEW h \in Handlers, OwedInv(h), Proceed(h),
           Scanning(thread'[h]) => owed'[h] \subseteq Owed(h)
    PROVE  OwedInv(h)'
<1>1. thread \in [Handlers -> Thread]
  BY DEF CInv, ThreadsOK
<1>2. CASE ~Scanning(thread'[h])
  BY <1>2 DEF OwedInv
<1>3. CASE Scanning(thread'[h])
  <2>1. /\ AtItsStatement(thread[h]) /\ thread[h] \in Thread
        /\ thread'[h] # Idle
    BY <1>3, IdleIsOK DEF CInv, ThreadsOK, Scanning
  <2>2. CASE Stamp(h) \/ CollectAlerts(h)
    <3>1. /\ thread[h].pc \in {"stamp", "collect"}
          /\ thread'[h].req = thread[h].req
      BY <1>1, <2>2 DEF Stamp, CollectAlerts, Thread
    <3> QED BY <1>3, <2>1, <3>1 DEF Scanning, AtItsStatement
  <2>3. CASE Write(h)
    <3>1. thread[h].pc = "write" /\ thread'[h].req = thread[h].req
      BY <1>1, <2>3 DEF Write, Thread
    <3> QED BY <1>3, <2>1, <3>1 DEF Scanning, AtItsStatement
  <2>4. CASE Fail(h) \/ Commit(h)
    BY <1>1, <2>1, <2>4 DEF Fail, Commit
  <2>5. CASE ReadBatch(h) \/ Probe(h) \/ InsertAlerts(h)
    <3>1. thread[h].pc \in {"batch", "probe", "insert"}
      BY <2>5 DEF ReadBatch, Probe, InsertAlerts
    <3>2. Scanning(thread[h])
      BY <2>1, <3>1 DEF AtItsStatement, Scanning
    <3> QED BY <1>3, <2>5, <3>2, ReadBatchOwed, ProbeOwed, InsertAlertsOwed
  <2> QED BY <2>2, <2>3, <2>4, <2>5 DEF Proceed
<1> QED BY <1>2, <1>3

LEMMA NextOwed ==
    ASSUME CInv, CInv', NEW h \in Handlers, OwedInv(h), [HNext]_hvars
    PROVE  OwedInv(h)'
<1>1. CASE UNCHANGED hvars
  BY <1>1 DEF hvars, cvars, OwedInv, OnItsWay, Unresolved, View, Committed, IsOpen
<1>2. CASE HNext
  <2>1. Scanning(thread'[h]) => owed'[h] \subseteq Owed(h)
    BY <1>2 DEF HNext
  <2>2. ASSUME thread'[h] = thread[h], lock = h => lock' = h /\ UNCHANGED <<inst, work>>,
               lock # h => lock' # h
        PROVE  OwedInv(h)'
    <3>1. CASE Scanning(thread[h])
      BY <2>1, <2>2, <3>1, LeftAlone
    <3>2. CASE ~Scanning(thread[h])
      BY <2>2, <3>2 DEF OwedInv
    <3> QED BY <3>1, <3>2
  <2>3. CASE CTick
    BY <2>2, <2>3 DEF CTick, Tick
  <2>4. CASE Crash
    BY <2>4, IdleIsOK DEF Crash, OwedInv, Scanning
  <2>5. ASSUME NEW g \in Handlers, g # h, Receive(g) \/ Proceed(g) PROVE OwedInv(h)'
    BY <2>2, <2>5, OthersLeaveAlone
  <2>6. CASE Receive(h)
    <3>1. thread[h].pc = "idle"
      BY <2>6 DEF Receive, ReceiveCreateClient, ReceiveCreate, ReceiveUpdate, ReceiveDelete,
                  ReceiveResolve, ReceiveScan, Arrive
    <3> QED BY <2>1, <2>6, <3>1, ArriveOwed DEF Scanning
  <2>7. CASE Proceed(h)
    BY <2>1, <2>7, ProceedOwed
  <2> QED BY <1>2, <2>3, <2>4, <2>5, <2>6, <2>7 DEF HNext, CNext
<1> QED BY <1>1, <1>2

ScanInv == CInv /\ \A h \in Handlers : OwedInv(h)

\* What every scan in flight owes is on its way, in every reachable state.
THEOREM ScanInvHolds == HSpec => []ScanInv
<1>1. HInit => ScanInv
  <2> SUFFICES ASSUME HInit PROVE ScanInv
    OBVIOUS
  <2>1. CInv /\ \A h \in Handlers : thread[h].pc = "idle"
    BY InitCInv, IdleIsOK DEF HInit, CInit
  <2> QED BY <2>1 DEF ScanInv, OwedInv, Scanning
<1>2. ScanInv /\ [HNext]_hvars => ScanInv'
  <2> SUFFICES ASSUME ScanInv, [HNext]_hvars PROVE ScanInv'
    OBVIOUS
  <2>1. [CNext]_cvars
    BY DEF HNext, hvars
  <2>2. CInv'
    BY <2>1, NextCInv DEF ScanInv
  <2> QED BY <2>2, NextOwed DEF ScanInv
<1> QED BY <1>1, <1>2, PTL DEF HSpec

\* When a scan answers, every instance that matched all along has an open alert.
LEMMA AnswerIsComplete ==
    ASSUME ScanInv, NEW h \in Handlers, ScanSucceeds(h), NEW i \in Owed(h)
    PROVE  \E a \in alerts' : /\ a.instanceId = i /\ a.alertType = thread[h].req.type
                              /\ IsOpen(a)
<1>1. Scanning(thread[h]) /\ thread'[h].pc = "idle" /\ OwedInv(h) /\ CInv
  BY IdleIsOK DEF ScanSucceeds, ScanInv
<1>2. /\ OnItsWay(h, i) /\ thread[h] \in Thread /\ View(h).inst = inst
  BY <1>1, ScanIsAt DEF Owed, OwedInv
<1>3. ASSUME i \in Unresolved(h), View(h).alerts = alerts'
      PROVE  \E a \in alerts' : /\ a.instanceId = i /\ a.alertType = thread[h].req.type
                                /\ IsOpen(a)
  BY <1>3 DEF Unresolved
<1>4. ASSUME NEW more \in BOOLEAN, thread'[h] = AfterBatch(h, more), lock' = lock
      PROVE  ~more /\ lock # h
  BY <1>1, <1>2, <1>4 DEF AfterBatch, Thread
<1>5. CASE ReadBatch(h)
  <2>1. thread[h].pc = "batch" /\ UNCHANGED <<inst, alerts, lock>>
        /\ MatchesAfterLast(h) = {} /\ thread'[h] = AfterBatch(h, FALSE)
    BY <1>1, <1>5, ReadBatchEffect
  <2>2. View(h).alerts = alerts'
    BY <1>4, <2>1 DEF View, Committed
  <2>3. i \in Unresolved(h)
    BY <1>1, <1>2, <2>1, OwedIsFound DEF OnItsWay
  <2> QED BY <1>3, <2>2, <2>3
<1>6. CASE Probe(h)
  <2>1. /\ thread[h].pc = "probe" /\ UNCHANGED <<inst, alerts, lock>>
        /\ thread[h].ids \subseteq Unresolved(h) /\ thread'[h] = AfterBatch(h, thread[h].more)
    BY <1>1, <1>6, ProbeEffect
  <2>2. ~thread[h].more /\ View(h).alerts = alerts'
    BY <1>2, <1>4, <2>1 DEF View, Committed, Thread
  <2>3. i \in Unresolved(h)
    BY <1>2, <2>1, <2>2 DEF OnItsWay
  <2> QED BY <1>3, <2>2, <2>3
<1>7. CASE Commit(h)
  <2>1. thread[h].pc = "commit" /\ lock = h /\ alerts' = work.alerts
    BY <1>1, <1>7 DEF Commit, CInv, LockOK
  <2>2. View(h).alerts = alerts' /\ i \in Unresolved(h)
    BY <1>2, <2>1 DEF View, OnItsWay
  <2> QED BY <1>3, <2>2
<1> QED BY <1>5, <1>6, <1>7 DEF ScanSucceeds

\* No missed detection (monitor_service._scan): however many threads create, change, delete,
\* resolve and scan between the statements of a scan, and whatever the size of its batches,
\* when it answers every instance that matched all along has an open alert of its type.
THEOREM ScanCompletenessHolds == HSpec => ScanCompleteness
<1>1. ScanInv /\ [HNext]_hvars =>
          [\A h \in Handlers : ScanSucceeds(h) =>
              \A i \in Owed(h) : \E a \in alerts' :
                  a.instanceId = i /\ a.alertType = thread[h].req.type /\ IsOpen(a)]_hvars
  BY AnswerIsComplete
<1> QED BY <1>1, ScanInvHolds, PTL DEF HSpec, ScanCompleteness
===============================================================================
