----------------------------- MODULE MCLoginHistory -----------------------------
(* Small instances of LoginHistory for TLC. *)
EXTENDS LoginHistory, TLC

Symmetry == Permutations(Accounts) \cup Permutations(Handlers)
PlusMinusOne == {1, -1}
=================================================================================
