------------------------------ MODULE MCRooms ------------------------------
(* Small instances of Rooms.  Connections and rooms are interchangeable.    *)
EXTENDS Rooms, TLC
Symmetry == Permutations(Client) \cup Permutations(Room)
=============================================================================
