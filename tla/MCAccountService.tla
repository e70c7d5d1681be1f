-------------------------- MODULE MCAccountService --------------------------
(* An instance of AccountService for TLC: as many objects as tasks can refer to. *)
EXTENDS AccountService, TLC

MCCopies == 1..Cardinality(Tasks)

\* Tasks and keys are alike.
MCSymmetry == Permutations(Tasks) \cup Permutations(Keys)
=============================================================================
