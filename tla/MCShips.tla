------------------------------ MODULE MCShips ------------------------------
(* Ships on small instances.                                                *)
EXTENDS Ships
=============================================================================
