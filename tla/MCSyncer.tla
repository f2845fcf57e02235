------------------------------ MODULE MCSyncer ------------------------------
(* Syncer on small instances.  Packets are interchangeable.                 *)
EXTENDS Syncer, TLC
Symmetry == Permutations(Tag)
=============================================================================
