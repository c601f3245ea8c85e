------------------------ MODULE MCMonitoringConcurrent ------------------------
(* Small instances of MonitoringConcurrent for TLC: one client and its manager, *)
(* and for each question the requests that bear on it.                          *)
EXTENDS MonitoringConcurrent, TLC

CONSTANT m1

OneClient == 1 :> m1
NoClients == [c \in {} |-> m1]

Create(status, cpu) == [kind |-> "create", by |-> m1, client |-> 1, status |-> status, cpu |-> cpu]
Remove(i) == [kind |-> "delete", by |-> m1, id |-> i]
ScanFor(type) == [kind |-> "scan", by |-> m1, type |-> type]

\* Every kind of request, by one manager and the administrators.  A PATCH to reading 0 is
\* left out: it is the PATCH without a reading, or an idle instance started and stopped.
Everything == {r \in AllRequests :
                  /\ r.by = m1 \/ (r.by \in Admins /\ r.kind = "create_client")
                  /\ r.kind = "update" => r.cpu # 0}

ScanRace   == {Create("ERROR", 0), ScanFor("ERROR_DETECTED")}
OrphanRace == {Create("ERROR", 0), ScanFor("ERROR_DETECTED"), Remove(1)}
===============================================================================
