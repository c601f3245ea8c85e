----------------------------- MODULE ClientFigures -----------------------------
(***************************************************************************)
(* The figures of one client, computed from the rows of its instances and  *)
(* nothing else (client_service.py): this month's cost, next month's       *)
(* forecast and the uptime the contract is judged by.                      *)
(*                                                                         *)
(* Time is in ticks from the instant 0, MonthOffset ticks into a month.    *)
(* A month is MonthLength ticks.  Percentages are in thousandths, the      *)
(* precision the code rounds to.                                           *)
(***************************************************************************)
EXTENDS Integers, FiniteSets, FiniteSetsExt

CONSTANTS
    UnitPrices,                 \* instance type -> price of a month, in cents
    Threshold,                  \* SLA_THRESHOLDS of the client's plan
    FirstMonth,                 \* the calendar month of the instant 0, 1..12
    MonthLength, MonthOffset

ASSUME CalendarAssumption ==
    /\ FirstMonth \in 1..12 /\ MonthLength \in Nat \ {0} /\ MonthOffset \in 0..MonthLength - 1
    /\ Threshold \in Nat /\ Threshold <= 100000

InstanceTypes == DOMAIN UnitPrices

ASSUME PricesAssumption == IsFiniteSet(InstanceTypes) /\ UnitPrices \in [InstanceTypes -> Nat]

MonthStart(t) == t - ((t + MonthOffset) % MonthLength)

\* now.strftime("%Y-%m"), years counted from that of the instant 0.
Month(t) == LET month == FirstMonth - 1 + (t + MonthOffset) \div MonthLength
            IN  [year |-> month \div 12, month |-> (month % 12) + 1]

NextMonth(m) == [year  |-> m.year + (IF m.month = 12 THEN 1 ELSE 0),
                 month |-> (m.month % 12) + 1]

\* get_client_cost: the sum of monthlyCost over the rows with these ids.
CostOf(ids, monthlyCost) == MapThenSumSet(LAMBDA i : monthlyCost[i], ids)

\* get_cost_forecast: of each type, the running instances at the current unit price.
ForecastOf(ids, rows, type) ==
    LET running(t) == {i \in ids : type[i] = t /\ rows[i].status = "RUNNING"}
    IN  MapThenSumSet(LAMBDA t : Cardinality(running(t)) * UnitPrices[t], InstanceTypes)
-------------------------------------------------------------------------------
Larger(a, b)  == IF a >= b THEN a ELSE b
Smaller(a, b) == IF a <= b THEN a ELSE b

\* round(): to the nearest.  A tie goes up here and to even in Python, one thousandth apart.
Rounded(a, b) == (2 * a + b) \div (2 * b)

Percent(up, total) == Rounded(100000 * Smaller(up, total), total)

\* Mutant: an instance is measured from the start of the month, launched or not.
WholeMonth(launchedAt, t) == MonthStart(t)

\* get_sla: what of the month an instance is measured over.
WindowStart(launchedAt, t) == Larger(MonthStart(t), launchedAt)

TotalTime(launchedAt, t) == t - WindowStart(launchedAt, t)

\* Mutant: only instances that are RUNNING now count as having been up.
OnlyWhileRunning(row, launchedAt, t) ==
    IF row.status = "RUNNING" THEN t - WindowStart(launchedAt, t) ELSE 0

\* The time in the window the instance is taken to have been up: until now if it is
\* RUNNING, else until its row last changed.
UpTime(row, launchedAt, t) ==
    LET start == WindowStart(launchedAt, t)
        upEnd == IF row.status = "RUNNING" THEN t
                 ELSE Smaller(Larger(row.updatedAt, start), t)
    IN  Larger(upEnd - start, 0)

\* The mean over the instances that have a window at all, 100 % if none has.
MeanUptime(measured, percent(_)) ==
    IF measured = {} THEN 100000
    ELSE Rounded(MapThenSumSet(percent, measured), Cardinality(measured))

IsViolation(uptime) == uptime < Threshold
===============================================================================
