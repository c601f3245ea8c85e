-------------------------------- MODULE MCServer -------------------------------
(* Two of the five tables: the one the seed probes, and one created after it. *)
EXTENDS Server

TwoTables == <<"members", "clients">>
===============================================================================
