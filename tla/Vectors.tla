------------------------------ MODULE Vectors ------------------------------
(***************************************************************************)
(* What Vec::retain and the loops that rebuild a vector leave of it.       *)
(***************************************************************************)
EXTENDS Integers, Sequences, FiniteSets

\* The indexes of I in increasing order.
InOrder(I) ==
    CHOOSE f \in [1..Cardinality(I) -> I] : \A m, n \in 1..Cardinality(I) : m < n => f[m] < f[n]

\* What is left of s at the indexes of I, in the order it was in.
Retained(s, I) == [n \in 1..Cardinality(I) |-> s[InOrder(I)[n]]]
=============================================================================
