# Verification of the cloud instance monitoring backend

TLA+ specifications of the TechValley monitoring API (`src/app`), model-checked with TLC on small
instances, with the central theorems proved by TLAPS for every instance.

## 1. The system

A FastAPI application, one process by default, over one SQLite file in WAL mode, with an optional Redis.
Every endpoint is a plain `def`, so each request runs on one of AnyIO's 40 worker threads with its own
SQLAlchemy `Session`. Requests share three things: the database file, the process's short-lived store
(or Redis), and the lazily built singletons.

| Component | Source | State it keeps | Operations |
|---|---|---|---|
| Instances | `services/instance_service.py`, `controllers/instance_controller.py` | table `instances` | create, PATCH status, delete, get, list |
| Scans and report | `services/monitor_service.py`, `controllers/monitor_controller.py` | table `alerts` | warnings, errors, long-stopped (each records alerts), report |
| Alerts | `services/alert_service.py`, `controllers/alert_controller.py` | table `alerts` | resolve, list |
| Clients, cost, SLA | `services/client_service.py`, `controllers/client_controller.py` | table `clients` | create, list, instances, cost, forecast, SLA |
| Access control | `core/deps.py` | none (members and managers never change) | token claims, current member, scope |
| Short-lived store | `core/store.py` | counters and values that expire | get, set, exists, delete, add |
| Login limit | `core/rate_limit.py`, `controllers/auth_controller.py` | two counters per attempt | reserve, release |
| Tokens | `core/revocation.py`, `core/security.py` | denylist of `jti`s | issue, check, revoke |
| Diagnosis | `services/llm_service.py` | cached answers, the provider client | diagnose |
| Database access | `database.py` | connection pool | one session per request |
| Startup | `main.py`, `seed.py` | the schema and demo rows | create tables and indexes, seed |
| Pagination | `pagination.py` | none | page of a query |

What is hard here is not any one handler but their overlap: every handler reads a row, decides, and
writes later, and the write is guarded by the row's id alone. The scans are GET requests that write.
SQLite gives ids out again. The counters are reserved and given back in separate store calls. Values
expire by a clock that keeps running between two steps. Threads and connections are two pools of the same
size that a request acquires one after the other.

## 2. The plan

Modules, in the order they were written. Step 13 is what the plan has left.

| Step | Modules | Question |
|---|---|---|
| 1 | `Monitoring`, `MonitoringProofs` | What the endpoints that change the tables promise when they take effect one at a time. |
| 2 | `MonitoringHistory` | What the 48-hour rule is worth, given that the program keeps no status history. |
| 3 | `MonitoringConcurrent`, `ScanHistory` | The same endpoints statement by statement, several in flight, with crashes: what still holds, what does not, and that one at a time they implement step 1. |
| 4 | `TtlStore`, `MemoryStore`, `RedisStore`, `ProcessStore` | The contract of the short-lived store, its two backends, and the process that uses one of them. |
| 5 | `LoginRateLimit` + `LoginHistory`, `TokenRevocation` + `RevocationHistory`, `DiagnosisCache` + `LazySingleton` in `Diagnosis` | The three users of the store, each composed with the contract rather than with a backend; the diagnosis also with the provider's client its threads build. |
| 6 | `RequestPool` | Threads and connections as two limits of the same size. |
| 7 | `Startup`, `Server` | Several workers creating tables and seeding one file, with crashes and restarts, and the requests of one of them over its pool. |
| 8 | `ClientFigures`, `SlaHistory` | Cost, forecast and SLA as operators; what the SLA's approximation is worth to someone who saw every status. |
| 9 | `Pagination`, `Reports` | The lists page by page, the report, the two forms of the access rule: that the answers of different endpoints fit together. |
| 10 | `MonitoringConcurrent` again | The invariants of `Monitoring` for handlers one at a time, next to the violations two of them produce. |
| 11 | `ServerProofs`, `ReadProofs` | `SeededOnce` and `NoIdleHolders`, `LongStoppedIsLong` from `ClockNeverAhead`, for every instance. |
| 12 | `StoreProofs`, `LoginProofs`, `RevocationProofs`, `DiagnosisProofs`, `ConcurrentProofs`, and more in `ServerProofs` and `ReadProofs` | Both backends against the contract, its three users, the statements of one thread and of many, the SLA and the pages. |
| 13 | `ReadProofs` again | `FiguresAgree` and `NoFalseAlarm`, with what is needed of sums over sets. |

How the modules compose:

    Monitoring <--EXTENDS-- MonitoringHistory <--+            TtlStore <--INSTANCE-- MemoryStore, RedisStore
        ^  ^               ClientFigures <-------+-- SlaHistory   ^---EXTENDS-- LoginRateLimit <-- LoginHistory
        |  |               ClientFigures <--+                     ^---EXTENDS-- TokenRevocation <-- RevocationHistory
        |  +---EXTENDS-----Pagination <-----+-- Reports           ^---EXTENDS-- DiagnosisCache <--+
        |  +---EXTENDS-- MonitoringProofs                                        LazySingleton <--+-- Diagnosis
        +------EXTENDS-- MonitoringConcurrent <-- ScanHistory
    Startup, RequestPool <--EXTENDS-- Server      MemoryStore <--EXTENDS-- ProcessStore --INSTANCE--> RedisStore

The proof modules extend what they are about:

    Monitoring <-- MonitoringProofs <--+-- ConcurrentProofs --> ScanHistory       ProcessStore <-- StoreProofs
                                       +-- ReadProofs --> Reports, SlaHistory     LoginHistory <-- LoginProofs
    Server <-- ServerProofs            Diagnosis <-- DiagnosisProofs         RevocationHistory <-- RevocationProofs

There are two abstract specifications. `Monitoring` is what a client of the API believes: each request
is one step. `TtlStore` is what `rate_limit`, `revocation` and `llm_service` rely on: a map whose entries
end by themselves. Modules named `...History` add an observer's variables, never a step, and state what
only an observer can see (when an instance *really* stopped or ran, what a scan owes, how a counted login ended).

## 3. How the modules correspond to the code

### Tables: `Monitoring`

| Variable | Code |
|---|---|
| `managerOf` | `clients.managerId` by id |
| `inst` | `instances` by id: `clientId`, `status`, `cpuUsage`, `updatedAt` |
| `alerts` | rows of `alerts`; open exactly when `resolvedAt` is NULL, since the only writer sets both columns |
| `now` | `utcnow()`, in ticks |

Each action is a whole request: access check, decision, commit. A refused request and a no-op are
stuttering steps. `UpdateStatus` includes the idle-CPU rule, the no-op rule and the `onupdate` stamp;
`DeleteInstance` the cascade; `Scan` the scope, the dedup and the insert. `IsNextId` is what SQLite does
with an `INTEGER PRIMARY KEY`: the id of a deleted last row is given out again, so ids are not unique over
time and alerts of a former instance must not be left behind. A request may have read its clock up to
`MaxLatency` ticks before it commits. Members do not change: no endpoint writes them.

### Statements: `MonitoringConcurrent`

`thread` holds what each handler has read, `lock` who owns SQLite's one write lock, `work` the tables
inside that transaction.

| Step | Code |
|---|---|
| `Receive...` | the access check and the first SELECT, with the refusal it may lead to |
| `Stamp` | the Python-side `utcnow()` default, read before the flush waits for the lock |
| `CollectAlerts` | the SELECT by which `db.delete` loads what it will cascade to |
| `ReadBatch`, `Probe`, `InsertAlerts` | one round of `_scan`: the keyset SELECT, the dedup probe, the executemany |
| `Write`, `Commit` | the flush, which takes the lock, and the commit |
| `Fail` | the busy timeout, while another handler or another program (`docs/operations/RUNBOOKS.md`, R8) holds the file, or `StaleDataError` for a row that is gone |
| `Crash` | the process ends; the open transaction is rolled back |

`sqlite3` begins a transaction only at the first write, so every SELECT before it sees the last commit and
keeps no snapshot; the identity map keeps a row once loaded; an UPDATE sets only the columns that differ
from the row as loaded (`Updated`) and, like the DELETEs, names only the id. The lookup of the member and
the scope belong to `Receive...` or, in a scan, to each batch, since the scope is a subquery of it.

### Reads: `ClientFigures`, `Pagination`, `Reports`, `SlaHistory`

The endpoints that only read are operators on the tables, not actions.

| Operator | Code |
|---|---|
| `CostOf`, `ForecastOf`, `NextMonth` | the sums and the calendar of `client_service` |
| `WindowStart`, `TotalTime`, `UpTime`, `Percent`, `MeanUptime`, `IsViolation` | `get_sla`, line by line; percentages are in thousandths, the precision the code rounds to |
| `Page`, `TotalPages` | `paginate`: ORDER BY, OFFSET and LIMIT as the rank of a row in a strict order |
| `ScanPage` | the window a scan cuts out of its walk, the increasing enumeration of its matches, by its own counting |
| `VisibleInstances`, `UnresolvedListed`, `Report` | the scope of the lists, the join the alert list makes for managers only and the report makes for everyone, and the report's figures |
| `MayAccess` | `assert_client_access`, the second form of the access rule |
| `InstanceBefore`, `AlertBefore` | the sort of the two lists, with its tie-break; `SortFields` are the sortable columns the tables have, 4 of the 10 |

`instanceType`, `monthlyCost` and `detectedAt` decide nothing that is written, so they are not in the tables: the
properties of `Reports` quantify over every column of them. `monthlyCost` is a column of its own: `create_instance`
stores the unit price of the day, and the row keeps it when the program is started again with other prices. `Costs` is
what instances may have been registered at, `UnitPrices` what the program knows today, and only the forecast
reads the latter. `SlaHistory` adds to the observer of the stops
one who notes in which ticks an instance was RUNNING, when its row was last written, and its `launchedAt`.
The clock of `get_sla` is read after the rows, so an answer may be dated up to `MaxLatency` later than the
state it was computed from (`AnswerTimes`).

### Short-lived store: `TtlStore`, `MemoryStore`, `RedisStore`

Time is in half seconds so that both sides of every rounding occur. `MemoryStore.data` is `_data`, expired
entries included; `Live` and `Purge` are `_live` and `_purge`; each method is one step because it holds the
lock from its reading of the clock on. The refinement mapping shows a caller only the entries with
`expires > now`. In `RedisStore` a method is one command or one MULTI/EXEC; on a `RedisError` the command
may or may not have been carried out, and the answer is the fail-open one. `ProcessStore` is the process,
which builds one of the two and keeps it (`get_store`). The two backends round the
remaining seconds differently (Python's half to even, Redis's half up): the contract allows either.

### Users of the store

`LoginRateLimit`: a login is `ReserveAccount`, `ReserveAddress`, then `Refuse` (429), `Reject` (401), or
`ClearAccount` and `ReleaseAddress`: one step per call of the store. `TokenRevocation`: `Issue`, `Decode`,
`CheckRevoked`, `Revoke`, `Answer`; `exp` is in whole seconds as a NumericDate is, `Remaining` is the
`int()` of `revoke_token`. `DiagnosisCache`: `Load` takes the snapshot, then `Lookup`, the provider or the
rules, `Store`, `Respond`; an answer is represented by the question it answers, the key by the question it
hashes (SHA-256 collisions are left out), and the two SELECTs of the snapshot are one step.

`LazySingleton` is the double-checked lock, one step per read or write of the module variable;
`get_store` and `_get_client` are the same code. `Diagnosis` puts it where `_llm_diagnosis` uses it: a
request that has missed the cache takes the client (`FetchClient`), whose construction may raise
(`NoClient`: caught, the lock released, the rules answer), and asks the provider with it (`AskProvider`).
A restart empties both the store and the singleton.

### Processes: `Startup`, `RequestPool`, `Server`

`Startup` is the lifespan of every worker, one step per statement: the checks of `create_all`, its CREATEs,
each committed by itself since `sqlite3` begins no transaction for them, the `checkfirst` loop over the
indexes, the probe of `seed`, its flushes in one transaction, the commit. A CREATE of what another worker
created meanwhile, a violated unique email and a lock held past the busy timeout all end the startup, and
with it the process (`End`); the supervisor launches it again. `Crash` ends a process at any step. The file
is empty at first, or was seeded by a version that declared fewer indexes, the case the comment at
`main.py:27` names. The uniqueness of the email is an *index* (`unique=True, index=True`), not part of the
table: `EmailIndex`.

In `RequestPool` a request takes a thread for each dependency and for its endpoint, and gives it back in
between; its session takes a connection at the first statement and keeps it to the close, which the
diagnosis makes before it asks the provider. Login loads no member first, so its connection is taken in the
endpoint.

`Server` puts the two together: requests of the worker `Front` run only while it serves, and its end
empties its pool and fails what it was working on; requests no thread has taken up count as arriving later.

## 4. What is checked

| Run | Shows |
|---|---|
| `history` | Requests one at a time, watched. `LongStoppedIsLong`: a LONG_STOPPED alert is true, up to a request's latency, although only `updatedAt` is kept; `ClockNeverAhead` is why. `CreditExplained`: the uptime of an instance is the time it really ran plus the outages before the last change of its row, and nothing else. `NoFalseAlarm`: no client is reported in violation that a full status history would clear. |
| `reads` | `FiguresAgree`: the report, the alert list, the warnings scan and the costs of the clients agree whatever the instances were registered at, and the managers' figures add up to the administrator's; the forecast, at the prices of today, is the cost of what runs if that was registered at them. `PagesPartition`: every list and scan, by every sort field modelled, shares its rows out over its pages. `WalkFaithful`: from one page to the next no row is shown twice, and none missed unless one was deleted. `ScopeIsolation`: no manager's request changes a row of the other's clients. |
| `refinement` | With one handler, every statement sequence is one `Monitoring` action or none, a crash included; and `OneOpenAlert`, `NoOrphanAlert` and `ResolvedIsFinal` hold of the statements themselves, requests one at a time. |
| `scan_history` | `ScanCompleteness`: a scan that answers has missed nothing that matched throughout. `EveryRequestEnds`: lock contention, crashes and tables that change under a walk keep no request for ever. |
| `process_store` | Both backends implement `TtlStore`; the dict keeps no old garbage and never moves a window. |
| `login_limit` | `CounterExplained`, `AccountLimitHolds`, `NoUndueRefusal`, `RetryAfterSuffices` for overlapping logins across window ends. |
| `revocation` | A logout denies its own token only, to every later request until the last second, and its entry ends with the token. |
| `server` | `SeededOnce`: the demo rows are committed whole and once, and a process that serves finds the whole schema and all of them; `EveryWorkerServes` in the end, whatever startups fail. Every request is answered; nobody holds a connection while asking the provider or after the end; threads alone never empty the pool. |
| `diagnosis` | Every answer belongs to its own snapshot, `source` is the truth, one client is built and shared, and every diagnosis is answered even when constructions raise. |
| `duplicate_alert`, `orphan_alert`, `address_limit` | Violations; see section 6. |

### Bounds

| Run | Bound | Why it is enough |
|---|---|---|
| `history` | 1 manager, 1 client, 2 instances, 1 alert, 3 ticks, period 2, latency 1; a month of 4 ticks that ends after the first | A reused id, a 48-hour period that passes or is restarted by a PATCH, and a month's end before, between and after launch, stop and edit. The CPU has one level, always over the limit: only that it may be edited matters here. |
| `reads` | 2 managers, an administrator, 2 clients, 2 instances, CPU 0 and 90, 1 alert, 1 tick, pages of 1, 2 and 3, December to January, two types at 50 and 250 | A row on each side of the scope and clients registered in between; full, partial and no last pages; ties of every sort key of the instances. Rows of either type at either price: one stored at the other type's price is one registered before a price change. Two alerts that tie are left to the theorem. |
| `refinement` | 1 handler, an administrator, no seeded client, batches of 1, 2 instances, 2 alerts, every request kind | A walk has two batches and an end; the tables are built up from nothing. PATCHes that set the CPU to 0 are left out: stopping an instance does that too. |
| `scan_history` | 2 handlers, 3 instances in batches of 2 | Full, partial and empty last batches, with a writer between any two statements. |
| `process_store` | one text key, one counter, ttl up to 2 s, 4 s in all, sweeps 1.5 s apart | Entries outlive a sweep, expire between sweeps and are recreated; keys do not interact except through the sweep. |
| `login_limit` | 2 handlers, 2 accounts, 1 address, window 2 s, limits 1 and 2, 2.5 s | One whole window and its successor; accounts share an address; each limit is reached and passed. |
| `revocation` | 2 tokens, 2 handlers, lifetime 3 s, 3.5 s | Both parities of the issue instant, and both tokens past their end. |
| `server` | 2 workers, 2 tables, 1 crash; 4 requests, 2 threads, 2 connections | A table before and one after the seed's; any two startups meet at every pair of statements, and the crash falls in any of them or on the requests. More requests than either limit, and every class. |
| `diagnosis` | 1 instance, 2 contexts, 2 handlers, ttl 1 s, 1.5 s | Two questions with one instance id, the case a careless key confuses; a construction that raises while another thread waits. |

`MaxTime`, `MaxClients`, `MaxInstances`, `MaxAlerts` and `MaxCount` stop a model, not the program. `Room`
in `MonitoringConcurrent` lets an inserting request arrive only if it will find room, so that a bound never
blocks a request that was let through; for one handler a scan needs room only for the instances that have no
open alert of its type.

### Fairness

* `FairHSpec`: weak fairness of each handler's steps. The operating system schedules threads, and a wait
  for the write lock ends by SQLite's busy timeout (`Fail`).
* `FairSvSpec`: weak fairness of each worker's startup, its launch by the supervisor included (uvicorn and
  the `Restart=always` of `docs/operations/DEPLOYMENT.md` start a process that has ended again), not of its
  timeouts and crashes; and weak fairness of each request. A thread freed is given to a queued call, a
  connection wait ends by the pool's timeout, a provider call by the client's (`TIMEOUT_SECONDS`). Each
  request is served once and the number of them is finite, so none is overtaken for ever; where all have
  been answered the model stops, which is why that run does not check for deadlock.
* `FairGSpec`: weak fairness of each diagnosis and strong fairness of taking the client's lock: a
  `threading.Lock` that is released again and again is not refused to one waiter for ever. Without it a
  stream of failing constructions could overtake a thread. A provider call ends by its own timeout.

Every mutant in `PROJECT.json` is a plausible mistake in a mapped definition (a dropped scope, a probe the
wrong way round, a forgotten second check) that makes the property it is listed for fail in its run.

## 5. What is proved

For all values of the constants that satisfy the named assumptions of the modules:

| Module | Specification | Properties proved of it |
|---|---|---|
| `MonitoringProofs` | `Spec` | `TypeOK`, `OneOpenAlert`, `NoOrphanAlert`, `ResolvedIsFinal`, `ScopeIsolation` |
| `ReadProofs` | `Spec` | `FiguresAgree`, `PagesPartition`, `WalkFaithful` |
| | `HSpec` of `MonitoringHistory`, which is `Spec` with the observer of the stops | `ClockNeverAhead`, `LongStoppedIsLong` |
| | `SSpec`, the same with the observer of what ran | `CreditExplained`, `NoFalseAlarm` |
| `ConcurrentProofs` | `CSpec`, any number of threads | `CTypeOK` |
| | `HSpec` of `ScanHistory`, any number of threads | `ScanCompleteness` |
| | `CSpec`, one thread | `OneOpenAlert`, `NoOrphanAlert`, `ResolvedIsFinal`, and the refinement of `Spec` |
| `StoreProofs` | `MSpec` | `SweptClean`, `NoOldGarbage`, `WindowFixed`, `ImplementsContract` |
| | `PSpec`, the process with either backend | `MTypeOK`, `NoOldGarbage`, `WindowFixed`, `ImplementsContract`, `RedisImplementsContract` |
| `LoginProofs` | `BSpec`, over a store that answers | `CounterExplained`, `AccountLimitHolds`, `NoUndueRefusal`, `RetryAfterSuffices` |
| `RevocationProofs` | `WSpec` | `WTypeOK`, `EntryEndsWithToken`, `OnlyLoggedOutAreDenied`, and over a store that answers `DeniedUntilLastSecond` |
| `DiagnosisProofs` | `GSpec` | `GTypeOK`, `AnswersTheQuestion`, `SourceHonest`, `BuiltOnce` |
| `ServerProofs` | `SvSpec`, the workers with the requests of one of them | `SvTypeOK`, `SeededOnce`, `NoIdleHolders`, `ThreadsNeverEmptyThePool` |

Some theorems assume more of the constants than their modules do:

* `~FailsOpen`: the store answers. Where Redis fails open, a login is let through uncounted and a
  logged-out token accepted, by design, so nothing of the kind can hold.
* `Handlers = {h}`: one thread. With two, section 6 has the counterexamples.
* `MaxTime <= MaxLatency`, for the refinement: requests may take as long as they like. `Monitoring` bounds the
  age of the clock a request commits with, the statements of a thread do not.

**Monitoring.** The invariant is `IInv == TypeOK /\ OneOpenAlert /\ NoOrphanAlert`. None of the three is
inductive alone: a scan keeps `OneOpenAlert` only because the new alerts are of instances without an open
one *and* because alert ids are unique; that the ids of a multi-row insert are free and distinct is
`NextIdsAreFresh`; a resolution finds one row only because ids are unique; and an instance that reuses an
id would inherit the open alerts of its predecessor without `NoOrphanAlert`. There is one lemma per request
that disturbs alerts, with `RecordingIsSafe` for the insert of a scan. `ResolvedIsFinal` and
`ScopeIsolation` are action properties proved from `IInv`, request by request. The assumptions are
`RolesAssumption` (no member is both), `SeedAssumption` and `NumbersAssumption`.

**One thread, statement by statement.** `CInv` holds for any finite number of threads: what is committed and
what a transaction is about to commit are well typed (`WorkOK`), the lock's owner is where its statement says
(`LockOK`), and a transaction adds at most the one row its request has room for (`RoomOK`). `OneInv(h)` adds what
one thread keeps: what its request found when it arrived still stands when it writes (`Stands`), what its
transaction holds is what the abstract request would have written (`Wrote`), and the batches of a scan done so
far have inserted exactly what one insert for the part of the walk behind it would (`Recording`). The last is the
heart of the refinement: the dedup probe of a later batch sees the alerts of an earlier one, and the ids taken
batch by batch are those of a single insert. Then a commit is one request of `Monitoring`, a failure or a crash
is a stutter (`ImplementsMonitoring`), and the invariants hold of the statements too.

**A scan among other threads.** `ScanInv` is `CInv` and, of every scan under way, that each instance it owes an
alert has one, is ahead of the walk, or is in the batch at hand (`OnItsWay`). It is about any number of threads:
what others insert behind the cursor is not owed, what they take away they take from the owed set, and inside
its transaction nobody moves the instances (`OwedInv`).

**The stores.** For the dict the invariant is `SInv == MTypeOK /\ SweptClean`. Every method is reduced to removing
some entries and storing at most one (`RemovingIsSafe`, `WritingIsSafe`). The refinement rests on four facts
about what a caller sees: removing expired entries is invisible (`ExpiredInvisible`, `PurgeInvisible`),
storing and removing commute with hiding (`StoredVisible`, `RemovedVisible`), and time hides exactly what
expires (`TimePassesVisible`); `RetryIsRounding` is the arithmetic of the rounding. For Redis it is `KvInv`: a key
has always some time left. Its two-command transaction is one operation of the contract (`CountedCounts`), and a
lost answer is one the contract allows (`RedisStepImplements`). `PInv` puts the two side by side: a process moves
the one it has chosen.

**The login limit.** The invariant is `BInv`. `Balanced` is `CounterExplained` for the counter's value. `Limited` is
`AccountLimitHolds` made inductive: a login counts against the limit from its reservation on, not from the
moment it may try the password. `Waits` is what `RetryAfterSuffices` needs: the wait of a limit that was met
reaches the end of its window from now, with the half second the rounding may cost, while time passes on both.

**Logout.** `WInv` says that no entry outlives its token and nothing but logged-out tokens is in the denylist; it
does not need the store to answer. `Denied` does: a token whose logout was carried out is in the denylist until
half a second before its end, or has less than a second left (`RemainingIsTruncated` is the `int()`), and
`LateArrivals` says of which requests the property speaks.

**The diagnosis.** `GInv` joins three parts. `AskInv`: under the key of a question lies the answer to it, and only a
provider's. `ClientInv`, the double-checked lock: who has passed the second check holds the lock and finds the
variable as it was; what was built stays. `Together`: a thread is in the client's code only while its request is
at the provider.

**The observers.** `HInv == IInv /\ Noted /\ ClockNeverAhead`: `IInv` because a new row's id must be one that no
row has, `Noted` because the observer's instants must be there to be compared. The one fact about the requests
is `StoppedRowsAreStamped`: a row that is STOPPED and was not before got its `updatedAt` from the request that made
it so, and one that stays STOPPED is never stamped earlier. Then `LongStoppedIsLong` is an action property: an
alert is only inserted when `updatedAt` is a period old, and `ClockNeverAhead` says what that is worth. Every step
of `HSpec` is a step of `Spec` (`HistoryStep`). `UInv` is the same for the observer of the SLA: since its row was last
written an instance has run all the time or not at all, as the row says, and the write was within a request's
latency of the stamp (`Watched`). The window then falls into what ran, what is forgiven and nothing else
(`PartsAddUp`), wherever its start lies.

**Sums.** The code sums costs and percentages over rows. A sum of natural numbers `w[x]` over a set is the number
of pairs of an `x` and a number from 1 to `w[x]` (`Total`, the size of `Area`), so what the library knows of finite sets
answers what there is to ask of sums. That the recursion behind `MapThenSumSet` computes it is `SumsToTotal`; there
is no induction rule to cite, so `ByRemoving` takes a smallest counterexample instead. More in every place is more
in all (`MoreIsMore`), and parts counted apart add up to the whole (`PartsCount`).

* `NoFalseAlarm` follows from `CreditExplained`: instance by instance what is earned is at most what is credited
  (`EarnedIsCredited`), and division and rounding keep the order (`DivisionIsMonotone`), of the percentages and of
  the mean.
* `FiguresAgree` cuts one set in several ways: the rows by the manager of their client (`ManagersAddUp`), the costs
  by client (`ClientsAddUp`), the running instances by type (`ForecastIsCostOfRunning`). Each row has one manager
  because `ClientsExist`. What is stored is a natural number of cents
  (`CostsAssumption`), like the prices of today (`PricesAssumption`), and there are finitely many managers
  (`ManagersAssumption`). Only `ForecastIsCostOfRunning` supposes that the two are equal.

**The pages.** A sort key with the id behind it is a strict total order (`KeyThenIdOrders`), so the ranks of the rows
are the numbers from 0 up, each once (`RanksNumber`), and cutting those into slices of one size shares them
out (`SlicesShare`, from `Multiples` and `Quotients`). A scan walks its matches in increasing order, and the position at
which it meets a match is the match's rank (`ScanTakesThePage`). `WalkFaithful` needs the invariant `ClientsExist`, that
no instance is without its client: otherwise a client registered later could bring old instances into a
manager's list, ahead of the rows already shown. With it a new row of a list comes after all of them
(`StepsGrow`), so the rank of a row never grows, and shrinks only when one before it is deleted.

**The startup.** The invariant is `StartupInv`. `Knows(w)` is what a worker has learned of the file from its
checks and its CREATEs: it stays true while the others run because no object is ever dropped
(`KnowledgeKept`), so a worker that reaches the probe finds the whole schema. `Locked(w)` says that the rows
of an open transaction are the first ones. It holds because a worker in the seed knows that the unique index
of the email exists, so its first INSERT fails if another worker's rows are there; the probe alone would not
do, since it was read before the lock was taken. `StartupAssumption` (the first table is `members`, and
`None` is no worker) is the one used.

**The pool.** `PoolInv` says that who holds a connection is between its first statement and the close of its
session. Every move of a request either starts such a stretch, stays in it, or gives the connection up
(`MovingKeepsPoolInv`), and the end of the process empties the pool. `LimitInv` counts both pools, and
`ThreadsNeverEmptyThePool` is the pigeonhole on it: if all holders were running, there would be as many running
requests as connections, and with the one that waits more than there are threads. `PlaceInv` keeps every worker
within what its stage walks through.

**Only model-checked.** Liveness under fairness (`EveryRequestEnds`, `EveryWorkerServes`, `EveryRequestAnswered`,
`EveryDiagnosisAnswered`) is outside the prover. The three properties of section 6 are false in general. Every other property
a run checks has its theorem.

## 6. Where the code and its documents disagree

| Run | Property | What happens |
|---|---|---|
| `duplicate_alert` | `OneOpenAlert` | Two overlapping scans of one type both find no open alert, and both insert one. |
| `orphan_alert` | `NoOrphanAlert` | A deletion that overlaps a scan removes the instance and not the alert the scan inserts. |
| `address_limit` | `AddressLimitHolds` | A success that ends in a later window gives that window back an attempt it never counted: one failure more is let through. |

The first two need overlapping requests: for requests one at a time the theorems say the opposite. The
lines and the documents are quoted in `PROJECT.json`.

Where a document's sentence is a little stronger than the code, the property states what does hold:

* `DeniedUntilLastSecond`: `int()` in `revoke_token` cuts off the fraction of the remaining second, so a
  logged-out token is denied up to its last second, not to its last instant.
* `ThreadsNeverEmptyThePool`: the pool can be found empty with as many connections as threads, but only
  because of requests that hold a connection and no thread (between the dependency and the endpoint, or
  before the session is closed).
* `SeededOnce`: `docs/operations/DEPLOYMENT.md:160` says that "the seed is idempotent, so each worker's startup
  is safe". The rows are safe, by the unique email; a startup is not: of two workers that start together on
  an empty file, one may fail on a table, an index or a member that exists by now, and its process ends.
  `EveryWorkerServes` holds because it is started again.
* `FiguresAgree` is about figures read from one state. The report reads them in five statements, each with a
  snapshot of its own, and a write between two of them shows in some figures and not in others.
* `WalkFaithful` excepts deletions: with OFFSET, a row deleted on an earlier page moves the rest up by one.
* `FiguresAgree` says of the forecast no more than `docs/business-rules/COST.md` means: it is at the prices of
  today (`client_service.py:125`), while the cost of the month and the report sum what the rows were
  registered at (`client_service.py:90`). After a change of a price in `.env` the two differ for the same
  running instances, as COST.md:32-37 intends ("existing instances keep the price they were registered at").
* `ResolvedIsFinal` is about resolutions that do not overlap. `resolve_alert` tests `isResolved` on the row as it
  loaded it and its UPDATE names only the id, so of two that overlap both find the alert open (`ReceiveResolve`
  twice), and the later commit overwrites the `resolvedAt` of the earlier. `docs/business-rules/ALERTING.md:108`
  says "the original `resolvedAt` is kept, so the record of *when* it was handled cannot be overwritten by a
  repeated call".
* The RUNNING guard of `DeleteInstance` likewise: a PATCH to RUNNING that commits between the `ReceiveDelete` and the
  `Write` of a deletion does not stop it. `docs/requirements/SRS.md:239` says "Deleting a `RUNNING` instance shall be
  refused with `409`". `refinement` shows both rules for one handler, and no run states either for two.
* `ClockNeverAhead`, `LongStoppedIsLong`, `CreditExplained` and `NoFalseAlarm` are about PATCHes that do not overlap.
  An UPDATE sets the columns that differ from the row as loaded, so two that overlap can leave a row neither
  of them wrote, stamped with the earlier of the two clocks.

## 7. What is not modelled, and why

* **The statements of a read** are taken at one state: the report's five, the total and the items of a page.
  Each reads a snapshot of its own, so two of them may disagree after a write in between; the code accepts
  that and no rule of the documents forbids it.
* **The filters of the lists** by status, region, type and day: equalities and bounds on one column, applied
  before the page is cut.
* **The contents of the demo rows**, and which index of a table is which: one stands for all of them.
* **In-memory SQLite and serverless processes**: each process then has a file of its own, and `Startup` is
  about the shared one.
* **Passwords, signatures, hashes** are data; a token is its `jti` and `exp`.
* **Messages, names and regions** are left out of the rows; the contract plan is the constant `Threshold`.
* **Floating point.** Prices are floats in the configuration (50.0, 120.0, 250.0) and sums are rounded to the cent; the
  model counts in whole cents, where the rounding does nothing. A price with a fraction of a cent would make the
  sum of rounded subtotals differ from the rounded sum.
* **Validation of bodies** (`schemas`) is the type of the requests: a body that fails it never reaches a
  handler.
* **Redis failing while logins are counted**: the limit then admits everyone by design, so `login_limit`
  checks the store that answers; `RedisStore` models the failures themselves.
* **Tests, scripts, error formatting, configuration loading** are not part of the running behaviour.
* **Foreign databases**: the statement-level modules describe SQLite, the default and the only one the
  documents measured.
