--------------------------- MODULE MCServerThreads ---------------------------
(* ServerThreads on small instances: requests are interchangeable, and so  *)
(* are the connections of a set that fail and talk alike.                  *)
EXTENDS ServerThreads, TLC

Symm == Permutations(Http)
=============================================================================
