------------------------------- MODULE MCCargo -------------------------------
(* Cargo on small instances: planets are interchangeable. *)
EXTENDS Cargo

Symm == Permutations(Planet)
=============================================================================
