--------------------------- MODULE MonitoringHistory ---------------------------
(***************************************************************************)
(* Monitoring watched by an observer who sees every status an instance     *)
(* goes through.  The program keeps no status history: the 48-hour rule    *)
(* works from updatedAt alone, and this module says what that is worth.    *)
(***************************************************************************)
EXTENDS Monitoring

VARIABLE stoppedSince   \* per instance: when it was last seen to enter STOPPED (or created)

HInit == Init /\ stoppedSince = inst

\* An instance that is, was and stays STOPPED keeps the instant it was first seen so.
Observe ==
    stoppedSince' = [i \in DOMAIN inst' |->
        IF i \in DOMAIN inst /\ inst[i].status = "STOPPED" /\ inst'[i].status = "STOPPED"
        THEN stoppedSince[i]
        ELSE now']

HNext == Next /\ Observe

HSpec == HInit /\ [][HNext]_<<vars, stoppedSince>>

\* A LONG_STOPPED alert is true: when check_long_stopped records one, its instance has
\* been STOPPED without a break for the whole period, up to the latency of a request,
\* whatever PATCHes, deletions and reused ids came before.
LongStoppedIsLong ==
    [][\A a \in alerts' \ alerts :
          a.alertType = "LONG_STOPPED" /\ IsOpen(a) =>
             /\ inst[a.instanceId].status = "STOPPED"
             /\ now - stoppedSince[a.instanceId] >= LongStopped - MaxLatency]_<<vars, stoppedSince>>

\* The clock of the 48-hour rule never runs ahead of the truth: a STOPPED instance's
\* updatedAt is no earlier than the instant it stopped, up to the latency of a request.
ClockNeverAhead ==
    \A i \in DOMAIN inst :
        inst[i].status = "STOPPED" => inst[i].updatedAt >= stoppedSince[i] - MaxLatency
===============================================================================
