-------------------------- MODULE MCBalanceService --------------------------
(* Instances of BalanceService for TLC. The callers of one kind differ only *)
(* in their names, so runs without liveness identify them.                 *)
EXTENDS BalanceService, TLC

Symmetry == Permutations(Workers) \cup Permutations(Checkers)
=============================================================================
