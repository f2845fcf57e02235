----------------------------- MODULE MCReplays -----------------------------
EXTENDS Replays

Arr(n, i, p) == [j \in 1..n |-> IF j = i THEN p ELSE Null]

\* Arrays short, at the edge of one digit, and past two first digits; one
\* element, the second, may hold a value.  And arrays of three digits, in which
\* the element whose index is "10" may hold one.
MCDocs ==
  {[talk |-> t, arr |-> Arr(n, 2, p)] :
     t \in {Missing, Null, "line"}, n \in {0, 3, 7}, p \in {Null, "a"}}
  \cup {[talk |-> Missing, arr |-> Arr(n, 4, p)] : n \in {9, 13}, p \in {Null, "a"}}
=============================================================================
