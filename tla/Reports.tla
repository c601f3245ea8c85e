------------------------------- MODULE Reports -------------------------------
(***************************************************************************)
(* The endpoints that only read: the report, the lists and their pages,    *)
(* the costs.  Each is an operator on the tables of Monitoring, one per    *)
(* query the code makes, and the properties relate the answers a member    *)
(* gets from different endpoints, or from one endpoint page by page.       *)
(***************************************************************************)
EXTENDS Monitoring, ClientFigures, Pagination

CONSTANTS
    Sizes,    \* the page sizes callers ask for, 1..MAX_SIZE in the code
    Costs     \* what instances were registered at: the prices of today and of before

ASSUME SizesAssumption == Sizes \subseteq Nat \ {0}

ASSUME CostsAssumption == Costs \subseteq Nat /\ \A t \in InstanceTypes : UnitPrices[t] \in Costs

ASSUME ManagersAssumption == IsFiniteSet(Managers)

(***************************************************************************)
(* Columns that no request decides by and that never change once the row   *)
(* is there, instanceType, monthlyCost and detectedAt, are not in the      *)
(* tables: where a query reads one, the properties hold for every value it *)
(* can have.  monthlyCost is the unit price at registration and is kept    *)
(* when a later start of the program reads other prices from .env, so it   *)
(* is a column of its own and no function of instanceType.                 *)
(***************************************************************************)
TypeColumns == [DOMAIN inst -> InstanceTypes]
CostColumns == [DOMAIN inst -> Costs]
DetectedAtColumns == [alerts -> 0..now]
-------------------------------------------------------------------------------
\* assert_client_access, the rule of the endpoints about one client, written without the
\* scope query the lists use.
MayAccess(m, c) == m \in Admins \/ managerOf[c] = m

InstancesOf(c) == {i \in DOMAIN inst : inst[i].clientId = c}

\* list_instances without filters.
VisibleInstances(m) == {i \in DOMAIN inst : inst[i].clientId \in Scope(m)}

\* list_alerts(isResolved=false): an ADMIN's query is not joined with the instances.
UnresolvedListed(m) ==
    {a \in alerts : IsOpen(a) /\ (m \in Admins \/ a.instanceId \in VisibleInstances(m))}

\* Mutant: the report counts the unresolved alerts of everyone.
UnresolvedAnywhere(m) == {a \in alerts : IsOpen(a) /\ a.instanceId \in DOMAIN inst}

\* build_report joins alerts with instances for everyone.
UnresolvedReported(m) == {a \in alerts : IsOpen(a) /\ a.instanceId \in VisibleInstances(m)}

Figures == Statuses \cup {"warnings", "cost", "unresolved"}

\* build_report: the figures are read one after the other, here from one state.
Report(m, monthlyCost) ==
    LET visible == VisibleInstances(m)
    IN  [f \in Figures |->
            CASE f \in Statuses   -> Cardinality({i \in visible : inst[i].status = f})
              [] f = "warnings"   -> Cardinality({i \in visible : Matches("CPU_HIGH", inst[i], now)})
              [] f = "cost"       -> CostOf(visible, monthlyCost)
              [] f = "unresolved" -> Cardinality(UnresolvedReported(m))]

\* Every client has one manager, so what the managers are told adds up to what an
\* administrator is told; the report counts what the alert list and the warnings scan
\* return, although one joins the instances and the other does not; and its cost is that
\* of the clients the member may ask about one by one, whatever the rows were registered
\* at.  The forecast is at the prices of today: it is the cost of what runs, for the month
\* after, of a client whose running instances were all registered at those prices.
FiguresAgree ==
    /\ \A monthlyCost \in CostColumns :
          LET report(m) == Report(m, monthlyCost)
              cost(ids) == CostOf(ids, monthlyCost)
              running(c) == {i \in InstancesOf(c) : inst[i].status = "RUNNING"}
          IN  /\ \A a \in Admins, f \in Figures :
                    report(a)[f] = MapThenSumSet(LAMBDA m : report(m)[f], Managers)
              /\ \A m \in Members :
                    /\ report(m)["unresolved"] = Cardinality(UnresolvedListed(m))
                    /\ report(m)["warnings"] = Cardinality(Detected(m, "CPU_HIGH", now))
                    /\ report(m)["cost"] = MapThenSumSet(LAMBDA c : cost(InstancesOf(c)),
                                                         {c \in DOMAIN managerOf : MayAccess(m, c)})
              /\ \A instanceType \in TypeColumns, c \in DOMAIN managerOf :
                    (\A i \in running(c) : monthlyCost[i] = UnitPrices[instanceType[i]])
                        => ForecastOf(InstancesOf(c), inst, instanceType) = cost(running(c))
    /\ NextMonth(Month(now)) = Month(now + MonthLength)
-------------------------------------------------------------------------------
\* Of the ten SORTABLE_FIELDS, those whose columns the tables have.
SortFields == {"id", "status", "cpuUsage", "updatedAt"}

\* The text order of the names the status column holds.
StatusOrder(status) == CASE status = "ERROR" -> 1 [] status = "RUNNING" -> 2 [] status = "STOPPED" -> 3

SortKey(field, i) == CASE field = "id"        -> i
                       [] field = "status"    -> StatusOrder(inst[i].status)
                       [] field = "cpuUsage"  -> inst[i].cpuUsage
                       [] field = "updatedAt" -> inst[i].updatedAt

\* Mutant: ties of the sort key are left to the database.
TiesUnbroken(field, descending, i, j) ==
    IF descending THEN SortKey(field, i) > SortKey(field, j) ELSE SortKey(field, i) < SortKey(field, j)

\* list_instances: the sort field, then id.
InstanceBefore(field, descending, i, j) ==
    \/ descending /\ SortKey(field, i) > SortKey(field, j)
    \/ ~descending /\ SortKey(field, i) < SortKey(field, j)
    \/ SortKey(field, i) = SortKey(field, j) /\ i < j

\* list_alerts: newest first, then the largest id.
AlertBefore(detectedAt, a, b) ==
    IF detectedAt[a] = detectedAt[b] THEN a.id > b.id ELSE detectedAt[a] > detectedAt[b]

\* Whatever sort field of the model, direction and size of a page: walking the pages of a
\* list that nobody changes meanwhile shows every row once; ties are common (a scan stamps
\* all its alerts with one instant).  And a scan's page is that of the list it is a scan of.
PagesPartition ==
    \A size \in Sizes :
        /\ \A m \in Members, field \in SortFields, descending \in BOOLEAN :
              Partitioned(VisibleInstances(m),
                          LAMBDA i, j : InstanceBefore(field, descending, i, j), size)
        /\ \A detectedAt \in DetectedAtColumns :
              Partitioned(alerts, LAMBDA a, b : AlertBefore(detectedAt, a, b), size)
        /\ \A m \in Members, type \in AlertTypes, page \in 1..MaxInstances :
              ScanPage(Detected(m, type, now), page, size)
                = Page(Detected(m, type, now), <, page, size)

\* Mutant: the list shows first what changed last.
ChangedFirst(m, n) ==
    Page(VisibleInstances(m), LAMBDA i, j : InstanceBefore("updatedAt", TRUE, i, j), 1, n)

\* The first n rows of list_instances as it is sorted by default: what a caller has seen
\* whose pages so far hold n rows.
FirstInstances(m, n) ==
    Page(VisibleInstances(m), LAMBDA i, j : InstanceBefore("id", FALSE, i, j), 1, n)

\* Between two pages the table may change.  A caller that walks the default list is never
\* shown a row twice, and misses none that was there all along unless one was deleted.
WalkFaithful ==
    [][\A m \in Members, n \in 1..MaxInstances :
          LET seen == FirstInstances(m, n)
              rest == (VisibleInstances(m) \ FirstInstances(m, n))'
          IN  /\ seen \cap rest = {}
              /\ VisibleInstances(m) \subseteq VisibleInstances(m)'
                    => VisibleInstances(m) \ seen \subseteq rest]_vars
===============================================================================
