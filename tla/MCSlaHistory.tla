----------------------------- MODULE MCSlaHistory -----------------------------
(* A small instance of SlaHistory for TLC: one client, the year's last month. *)
EXTENDS SlaHistory, TLC

CONSTANT m1

OneClient == 1 :> m1
NoPrices  == <<>>
===============================================================================
