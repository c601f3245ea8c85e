------------------------------ MODULE MCReports ------------------------------
(* A small instance of Reports for TLC: two managers and an administrator, one *)
(* client there from the seed, and a calendar whose every tick is a month.     *)
EXTENDS Reports, TLC

CONSTANTS m1, m2

OneClient == 1 :> m1
Prices    == "SMALL" :> 50 @@ "LARGE" :> 250
===============================================================================
