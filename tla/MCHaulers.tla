----------------------------- MODULE MCHaulers -----------------------------
(* Haulers on small instances.  Symmetry would be unsound for liveness. *)
EXTENDS Haulers
=============================================================================
