------------------------------ MODULE SlaHistory ------------------------------
(***************************************************************************)
(* The SLA watched by an observer who keeps what the program does not: in  *)
(* which ticks each instance really ran.  get_sla works from launchedAt,   *)
(* updatedAt and the status alone; this module says what that is worth.    *)
(***************************************************************************)
EXTENDS MonitoringHistory, ClientFigures

VARIABLES
    launched,   \* the launchedAt column of each instance
    ran,        \* per instance: the ticks at which it was RUNNING
    edited      \* per instance: when its row was last written

svars == <<vars, stoppedSince, launched, ran, edited>>

SInit == HInit /\ launched = inst /\ ran = inst /\ edited = inst

IsNew(i) == i \notin DOMAIN inst

\* create_instance sets launchedAt and, by its default, updatedAt from the clock, one after
\* the other and before it waits for anything; no other request writes launchedAt.
Launch == launched' = [i \in DOMAIN inst' |-> IF IsNew(i) THEN inst'[i].updatedAt
                                                        ELSE launched[i]]

Watch ==
    /\ ran' = [i \in DOMAIN inst' |->
                  IF IsNew(i) THEN {}
                  ELSE ran[i] \cup {t \in {now} : now' # now /\ inst[i].status = "RUNNING"}]
    /\ edited' = [i \in DOMAIN inst' |-> IF ~IsNew(i) /\ inst'[i] = inst[i] THEN edited[i]
                                                                        ELSE now']

SNext == HNext /\ Launch /\ Watch

SSpec == SInit /\ [][SNext]_svars
-------------------------------------------------------------------------------
\* The instants an answer computed from the rows as they are now can be dated at: the
\* clock is read after the rows.
AnswerTimes == now..now + MaxLatency

Measured(ids, t) == {i \in ids : TotalTime(launched[i], t) > 0}

\* The ticks of its window at t in which i really ran, and those it did not run in, but
\* which lie before the last change of its row.
ReallyUp(i, t) == Cardinality({s \in ran[i] : s >= WindowStart(launched[i], t)})
Forgiven(i, t) ==
    Cardinality({s \in 0..edited[i] - 1 : s >= WindowStart(launched[i], t) /\ s \notin ran[i]})

\* What the approximation is worth, instance by instance: it credits the time the instance
\* really ran, and the outages before the last change of its row and no other time, up to
\* the latency of a request, wherever the month begins and whenever it was launched.
CreditExplained ==
    \A t \in AnswerTimes : \A i \in Measured(DOMAIN inst, t) :
        UpTime(inst[i], launched[i], t) - ReallyUp(i, t) - Forgiven(i, t)
            \in -MaxLatency..MaxLatency

Credited(ids, t) ==
    MeanUptime(Measured(ids, t),
               LAMBDA i : Percent(UpTime(inst[i], launched[i], t), TotalTime(launched[i], t)))

\* The same mean over the time each instance really ran, less a request's latency.
Earned(ids, t) ==
    MeanUptime(Measured(ids, t),
               LAMBDA i : Percent(Larger(ReallyUp(i, t) - MaxLatency, 0),
                                  TotalTime(launched[i], t)))

\* No client is reported in violation of its contract that a full status history would
\* clear: skipped instances, the mean, the rounding and the strict comparison included.
NoFalseAlarm ==
    \A c \in DOMAIN managerOf, t \in AnswerTimes :
        LET ids == {i \in DOMAIN inst : inst[i].clientId = c}
        IN  IsViolation(Credited(ids, t)) => IsViolation(Earned(ids, t))
===============================================================================
