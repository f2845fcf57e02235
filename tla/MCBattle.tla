------------------------------ MODULE MCBattle ------------------------------
(* Battle on small instances: names are interchangeable.                    *)
EXTENDS Battle, TLC

Symmetry == Permutations(Player) \cup Permutations(ShipId)
            \cup Permutations(RocketId) \cup Permutations(Mineral)
=============================================================================
