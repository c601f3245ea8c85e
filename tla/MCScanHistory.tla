----------------------------- MODULE MCScanHistory -----------------------------
(* A small instance of ScanHistory for TLC: errors only, one client. *)
EXTENDS ScanHistory, TLC

CONSTANT m1

OneClient == 1 :> m1

Mixed ==
    {[kind |-> "create", by |-> m1, client |-> 1, status |-> "ERROR", cpu |-> 0],
     [kind |-> "update", by |-> m1, id |-> 1, status |-> "STOPPED", cpu |-> NULL],
     [kind |-> "update", by |-> m1, id |-> 1, status |-> "ERROR", cpu |-> NULL],
     [kind |-> "delete", by |-> m1, id |-> 2],
     [kind |-> "resolve", by |-> m1, id |-> 1],
     [kind |-> "scan", by |-> m1, type |-> "ERROR_DETECTED"]}
===============================================================================
