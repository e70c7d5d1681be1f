-------------------------- MODULE MCFrozenService --------------------------
(* Instances of FrozenService for TLC. *)
EXTENDS FrozenService
=============================================================================
