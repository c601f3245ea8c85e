---------------------------- MODULE MCProcessStore ----------------------------
(* A small instance of ProcessStore for TLC. *)
EXTENDS ProcessStore

\* The amounts rate_limit adds.
PlusMinusOne == {1, -1}
===============================================================================
