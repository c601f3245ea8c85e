---------------------------- MODULE MCDiagnosis ----------------------------
(* Small instances of Diagnosis for TLC. *)
EXTENDS Diagnosis, TLC

CONSTANTS i1, quiet, alarmed

Answers == Questions \cup {Rules}
===============================================================================
