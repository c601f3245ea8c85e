------------------------------ MODULE ScanHistory ------------------------------
(***************************************************************************)
(* MonitoringConcurrent watched by an observer who knows, for every scan   *)
(* in flight, which instances it owes an alert.                            *)
(***************************************************************************)
EXTENDS MonitoringConcurrent

VARIABLE owed   \* per handler, the instances its scan must not miss

hvars == <<cvars, owed>>

\* The instances that match, in the committed tables, what the scan of thread t looks for.
Matching(t, tables) ==
    {i \in DOMAIN tables : /\ tables[i].clientId \in Scope(t.req.by)
                           /\ Matches(t.req.type, tables[i], t.stamp)}

LostAlert(i, type) ==
    \E a \in alerts : /\ a.instanceId = i /\ a.alertType = type /\ IsOpen(a)
                      /\ a \notin alerts'

Scanning(t) == t.pc # "idle" /\ t.req.kind = "scan"

\* A scan owes the instances that match from its start on, without a break, and whose
\* open alert, if they had one, nobody resolved or removed meanwhile.
Owed(h) ==
    CASE Scanning(thread[h]) ->
           {i \in owed[h] \cap Matching(thread[h], inst') : ~LostAlert(i, thread[h].req.type)}
      [] ~Scanning(thread[h]) /\ Scanning(thread'[h]) -> Matching(thread'[h], inst')
      [] OTHER -> {}

HInit == CInit /\ owed = [h \in Handlers |-> {}]

HNext == CNext /\ owed' = [h \in Handlers |-> IF Scanning(thread'[h]) THEN Owed(h) ELSE {}]

HSpec == HInit /\ [][HNext]_hvars

\* Every thread that has a statement to run is eventually run by the operating system.
FairHSpec == HSpec /\ \A h \in Handlers : WF_cvars(Proceed(h))

ScanSucceeds(h) == /\ Scanning(thread[h])
                   /\ thread'[h] = Idle
                   /\ ReadBatch(h) \/ Probe(h) \/ Commit(h)

\* No missed detection: when a scan answers, every instance that matched all along has an
\* open alert of its type, however the walk in batches (monitor_service._scan) interleaved
\* with creations, PATCHes, deletions, resolutions and other scans.
ScanCompleteness ==
    [][\A h \in Handlers : ScanSucceeds(h) =>
          \A i \in Owed(h) : \E a \in alerts' :
              a.instanceId = i /\ a.alertType = thread[h].req.type /\ IsOpen(a)]_hvars
================================================================================
