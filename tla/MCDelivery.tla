----------------------------- MODULE MCDelivery -----------------------------
(* Delivery on small instances.  Clients and rooms are interchangeable.     *)
EXTENDS Delivery, TLC
Symmetry == Permutations(Client) \cup Permutations(Room)
=============================================================================
