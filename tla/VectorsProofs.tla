--------------------------- MODULE VectorsProofs ---------------------------
(***************************************************************************)
(* What the operators of Vectors return, for every vector, and the facts   *)
(* about sets and sums that the proofs of the components share.            *)
(*                                                                         *)
(* Induction is over the least number, or the smallest set, for which a    *)
(* property could fail: a property is a set here, and Numbers and          *)
(* FiniteSets say that a set that holds the first case, and with each case *)
(* the next, holds them all.  The last part is about SumFunctionOnSet, the *)
(* sum of the community modules, over natural numbers.                     *)
(***************************************************************************)
EXTENDS Vectors, Functions, FiniteSetTheorems, FunctionTheorems, WellFoundedInduction, TLAPS

\* Any set of natural numbers that is not empty has a least element.
LEMMA LeastNumber ==
    ASSUME NEW T, T \subseteq Nat, T # {}
    PROVE  \E x \in T : \A y \in T : x <= y
<1>1. PICK x \in T : \A y \in T : <<y, x>> \notin OpToRel(<, Nat)
  BY NatLessThanWellFounded, WFMin
<1>2. \A y \in T : ~(y < x)
  BY <1>1 DEF OpToRel
<1> QED BY <1>2

\* And below a bound it has a greatest one.
LEMMA GreatestNumber ==
    ASSUME NEW n \in Nat, NEW T \in SUBSET (1..n), T # {}
    PROVE  \E x \in T : \A y \in T : x >= y
<1> DEFINE D == {n - t : t \in T}
<1>1. D \subseteq Nat /\ D # {}
  <2>1. \A t \in T : n - t \in Nat
    OBVIOUS
  <2> QED BY <2>1
<1>2. PICK d \in D : \A e \in D : d <= e
  <2> HIDE DEF D
  <2> QED BY <1>1, LeastNumber
<1>3. PICK x \in T : d = n - x
  OBVIOUS
<1>4. \A y \in T : n - x <= n - y
  BY <1>2, <1>3
<1> QED BY <1>4

Increasing(f, n) == \A i, j \in 1..n : i < j => f[i] < f[j]
Enumerable(J) == \E f \in [1..Cardinality(J) -> J] : Increasing(f, Cardinality(J))

LEMMA OrderOfNone ==
    Enumerable({})
<1> DEFINE f == [i \in 1..0 |-> 0]
<1>1. Cardinality({}) = 0
  BY FS_EmptySet
<1>2. f \in [1..0 -> {}] /\ Increasing(f, 0)
  BY DEF Increasing
<1> HIDE DEF f
<1> QED BY <1>1, <1>2 DEF Enumerable

LEMMA OrderOfOneMore ==
    ASSUME NEW m \in Nat, NEW K \in SUBSET (1..m), Enumerable(K)
    PROVE  Enumerable(K \cup {m + 1})
<1> DEFINE c == Cardinality(K)
           J == K \cup {m + 1}
<1>1. IsFiniteSet(1..m)
  BY FS_Interval
<1>2. IsFiniteSet(K)
  BY <1>1, FS_Subset
<1>3. c \in Nat
  BY <1>2, FS_CardinalityType
<1>4. m + 1 \notin K
  OBVIOUS
<1>5. Cardinality(J) = c + 1
  BY <1>2, <1>4, FS_AddElement
<1>6. PICK f \in [1..c -> K] : Increasing(f, c)
  BY DEF Enumerable
<1> HIDE DEF c
<1> DEFINE g == [i \in 1..(c + 1) |-> IF i = c + 1 THEN m + 1 ELSE f[i]]
<1>7. \A i \in 1..c : f[i] \in K /\ f[i] < m + 1 /\ f[i] \in Int
  <2>1. \A i \in 1..c : f[i] \in K
    BY <1>6
  <2>2. \A k \in K : k < m + 1 /\ k \in Int
    OBVIOUS
  <2> QED BY <2>1, <2>2
<1>8. \A i \in 1..(c + 1) : i \in 1..c \/ i = c + 1
  BY <1>3
<1>9. g \in [1..(c + 1) -> J]
  BY <1>7, <1>8
<1>10. /\ \A i \in 1..c : g[i] = f[i]
       /\ g[c + 1] = m + 1
  BY <1>3
<1> HIDE DEF g
<1>11. Increasing(g, c + 1)
  BY <1>3, <1>6, <1>7, <1>8, <1>10 DEF Increasing
<1> HIDE DEF J
<1>12. Enumerable(J)
  BY <1>5, <1>9, <1>11 DEF Enumerable
<1> QED BY <1>12 DEF J

LEMMA OrderExists ==
    ASSUME NEW n \in Nat, NEW I \in SUBSET (1..n)
    PROVE  Enumerable(I)
<1> DEFINE Bad == {m \in Nat : \E J \in SUBSET (1..m) : ~Enumerable(J)}
<1> SUFFICES ASSUME Bad # {}
             PROVE  FALSE
  OBVIOUS
<1>1. PICK m \in Bad : \A k \in Bad : m <= k
  <2>1. Bad \subseteq Nat
    OBVIOUS
  <2> HIDE DEF Bad
  <2> QED BY <2>1, LeastNumber
<1>2. PICK J \in SUBSET (1..m) : ~Enumerable(J)
  OBVIOUS
<1>3. m \in Nat
  OBVIOUS
<1>4. ASSUME NEW k \in Nat, k < m, NEW K \in SUBSET (1..k)
      PROVE  Enumerable(K)
  <2> SUFFICES ASSUME ~Enumerable(K)
               PROVE  FALSE
    OBVIOUS
  <2>1. k \in Bad
    OBVIOUS
  <2> HIDE DEF Bad
  <2>2. m <= k
    BY <1>1, <2>1
  <2> QED BY <1>3, <1>4, <2>2
<1> HIDE DEF Bad
<1>5. m # 0
  <2> SUFFICES ASSUME m = 0
               PROVE  FALSE
    OBVIOUS
  <2>1. J = {}
    OBVIOUS
  <2> QED BY <1>2, <2>1, OrderOfNone
<1> DEFINE k == m - 1
<1>6. k \in Nat /\ k < m /\ m = k + 1
  BY <1>3, <1>5
<1> HIDE DEF k
<1>7. CASE m \notin J
  <2>1. J \in SUBSET (1..k)
    BY <1>6, <1>7
  <2> QED BY <1>2, <1>4, <1>6, <2>1
<1>8. CASE m \in J
  <2>1. J \ {m} \in SUBSET (1..k)
    BY <1>6
  <2>2. Enumerable(J \ {m})
    BY <1>4, <1>6, <2>1
  <2>3. Enumerable((J \ {m}) \cup {k + 1})
    BY <1>6, <2>1, <2>2, OrderOfOneMore
  <2>4. (J \ {m}) \cup {k + 1} = J
    BY <1>6, <1>8
  <2> QED BY <1>2, <2>3, <2>4
<1> QED BY <1>7, <1>8

LEMMA InOrderIncreasing ==
    ASSUME NEW n \in Nat, NEW I \in SUBSET (1..n)
    PROVE  /\ InOrder(I) \in [1..Cardinality(I) -> I]
           /\ Increasing(InOrder(I), Cardinality(I))
           /\ Cardinality(I) \in Nat
<1>1. \E f \in [1..Cardinality(I) -> I] : Increasing(f, Cardinality(I))
  BY OrderExists DEF Enumerable
<1>2. IsFiniteSet(1..n)
  BY FS_Interval
<1>3. IsFiniteSet(I)
  BY <1>2, FS_Subset
<1>4. Cardinality(I) \in Nat
  BY <1>3, FS_CardinalityType
<1> QED BY <1>1, <1>4, Zenon DEF InOrder, Increasing

\* Every index of I is reached, and once.
LEMMA InOrderOnto ==
    ASSUME NEW n \in Nat, NEW I \in SUBSET (1..n)
    PROVE  /\ \A i \in I : \E k \in 1..Cardinality(I) : InOrder(I)[k] = i
           /\ \A j, k \in 1..Cardinality(I) : InOrder(I)[j] = InOrder(I)[k] => j = k
<1> DEFINE f == InOrder(I)
           c == Cardinality(I)
<1>1. f \in [1..c -> I] /\ Increasing(f, c) /\ c \in Nat
  BY InOrderIncreasing
<1>2. IsFiniteSet(1..n) /\ IsFiniteSet(1..c) /\ Cardinality(1..c) = c
  BY <1>1, FS_Interval
<1>3. IsFiniteSet(I)
  BY <1>2, FS_Subset
<1> HIDE DEF f
<1>4. \A i \in 1..c : f[i] \in Int
  <2>1. \A i \in 1..c : f[i] \in I
    BY <1>1
  <2>2. \A i \in I : i \in Int
    OBVIOUS
  <2> QED BY <2>1, <2>2
<1>5. \A j, k \in 1..c : f[j] = f[k] => j = k
  <2> SUFFICES ASSUME NEW j \in 1..c, NEW k \in 1..c, f[j] = f[k], j < k
               PROVE  FALSE
    BY <1>1
  <2> QED BY <1>1, <1>4 DEF Increasing
<1>6. f \in Injection(1..c, I)
  BY <1>1, <1>5, Fun_IsInj
<1> HIDE DEF c
<1>7. f \in Surjection(1..c, I)
  BY <1>2, <1>3, <1>6, FS_Injection DEF c
<1>8. \A i \in I : \E k \in 1..c : f[k] = i
  BY <1>7 DEF Surjection
<1> QED BY <1>5, <1>8 DEF f, c

\* r holds the elements of s at the indexes of I: its n-th is that at g[n].
Picks(g, r, s, I) ==
    /\ g \in [1..Len(r) -> I]
    /\ Increasing(g, Len(r))
    /\ \A n \in 1..Len(r) : r[n] = s[g[n]]
    /\ \A i \in I : \E n \in 1..Len(r) : g[n] = i

\* What is retained are the elements of the vector at the indexes of I, all of
\* them, in the order they were in.
LEMMA RetainedProperties ==
    ASSUME NEW S, NEW s \in Seq(S), NEW I \in SUBSET (1..Len(s))
    PROVE  /\ Retained(s, I) \in Seq(S)
           /\ Len(Retained(s, I)) = Cardinality(I)
           /\ \E g : Picks(g, Retained(s, I), s, I)
<1> DEFINE g == InOrder(I)
           c == Cardinality(I)
           r == [k \in 1..c |-> s[g[k]]]
<1>0. Len(s) \in Nat /\ \A i \in I : s[i] \in S
  OBVIOUS
<1>1. g \in [1..c -> I] /\ Increasing(g, c) /\ c \in Nat
  BY <1>0, InOrderIncreasing
<1>2. \A i \in I : \E k \in 1..c : g[k] = i
  BY <1>0, InOrderOnto
<1>3. Retained(s, I) = r
  BY DEF Retained
<1> HIDE DEF g, c
<1>4. r \in [1..c -> S]
  BY <1>0, <1>1
<1>5. r \in Seq(S) /\ Len(r) = c
  BY <1>1, <1>4
<1>6. \A n \in 1..c : r[n] = s[g[n]]
  OBVIOUS
<1> HIDE DEF r
<1>7. Picks(g, r, s, I)
  BY <1>1, <1>2, <1>5, <1>6 DEF Picks
<1> QED BY <1>3, <1>5, <1>7 DEF c

-----------------------------------------------------------------------------
(***************************************************************************)
(* Induction, with the property as a set                                   *)
(***************************************************************************)

\* Over numbers ...
LEMMA Numbers ==
    ASSUME NEW G, 0 \in G, \A n \in Nat : n \in G => n + 1 \in G
    PROVE  Nat \subseteq G
<1> SUFFICES ASSUME Nat \ G # {}
             PROVE  FALSE
  OBVIOUS
<1>1. PICK n \in Nat \ G : \A k \in Nat \ G : n <= k
  <2>1. Nat \ G \subseteq Nat
    OBVIOUS
  <2> QED BY <2>1, LeastNumber
<1>2. n # 0 /\ n \in Nat
  OBVIOUS
<1>3. n - 1 \in Nat /\ ~(n <= n - 1) /\ (n - 1) + 1 = n
  BY <1>2
<1>4. n - 1 \in G
  BY <1>1, <1>3
<1> QED BY <1>3, <1>4

\* ... and over the subsets of a finite set.
LEMMA FiniteSets ==
    ASSUME NEW S, IsFiniteSet(S), NEW G, {} \in G,
           \A s \in SUBSET S, x \in S : s \in G /\ x \notin s => s \cup {x} \in G
    PROVE  SUBSET S \subseteq G
<1> DEFINE N == {n \in Nat : \A s \in SUBSET S : Cardinality(s) = n => s \in G}
<1>0. \A s \in SUBSET S : IsFiniteSet(s) /\ Cardinality(s) \in Nat
  BY FS_Subset, FS_CardinalityType
<1>1. 0 \in N
  BY <1>0, FS_EmptySet
<1>2. ASSUME NEW n \in Nat, n \in N
      PROVE  n + 1 \in N
  <2>1. \A s \in SUBSET S : Cardinality(s) = n => s \in G
    BY <1>2
  <2>2. ASSUME NEW s \in SUBSET S, Cardinality(s) = n + 1
        PROVE  s \in G
    <3>1. s # {}
      BY <2>2, FS_EmptySet
    <3>2. PICK x \in s : TRUE
      BY <3>1
    <3>3. Cardinality(s \ {x}) = n
      <4>1. IsFiniteSet(s) /\ Cardinality(s) \in Nat
        BY <1>0
      <4>2. Cardinality(s \ {x}) = Cardinality(s) - 1
        BY <3>2, <4>1, FS_RemoveElement
      <4> QED BY <2>2, <4>2
    <3>4. s \ {x} \in G /\ x \notin s \ {x} /\ x \in S /\ s \ {x} \in SUBSET S
      BY <2>1, <3>3
    <3>5. (s \ {x}) \cup {x} = s
      BY <3>2
    <3>6. (s \ {x}) \cup {x} \in G
      BY <3>4
    <3> QED BY <3>5, <3>6
  <2> QED BY <2>2
<1> HIDE DEF N
<1>3. Nat \subseteq N
  BY <1>1, <1>2, Numbers
<1>4. \A s \in SUBSET S : Cardinality(s) \in N
  BY <1>0, <1>3
<1> QED BY <1>4 DEF N

-----------------------------------------------------------------------------
(***************************************************************************)
(* Sums of natural numbers over a finite set of indexes                    *)
(***************************************************************************)

\* The recursion by which Folds computes a sum.
Chosen(s) == CHOOSE x \in s : TRUE
Solves(g, f, S) == g = [s \in SUBSET S |->
                           IF s = {} THEN 0 ELSE f[Chosen(s)] + g[s \ {Chosen(s)}]]
Walk(f, S) == CHOOSE g : Solves(g, f, S)

LEMMA SumIsWalk ==
    ASSUME NEW f, NEW S
    PROVE  SumFunctionOnSet(f, S) = Walk(f, S)[S]
BY DEF SumFunctionOnSet, FoldFunctionOnSet, MapThenFoldSet, Walk, Solves, Chosen

\* The recursion of a sum has a solution.
LEMMA WalkExists ==
    ASSUME NEW f, NEW S, IsFiniteSet(S)
    PROVE  Solves(Walk(f, S), f, S)
<1> DEFINE D(n) == {s \in SUBSET S : Cardinality(s) <= n}
           Upto(g, n) == g = [s \in D(n) |->
                             IF s = {} THEN 0 ELSE f[Chosen(s)] + g[s \ {Chosen(s)}]]
           N == {n \in Nat : \E g : Upto(g, n)}
<1>0. \A s \in SUBSET S : IsFiniteSet(s) /\ Cardinality(s) \in Nat
  BY FS_Subset, FS_CardinalityType
<1>5. \A s \in SUBSET S : s # {} => Chosen(s) \in s
  BY DEF Chosen
<1>1. 0 \in N
  <2> DEFINE g == [s \in D(0) |-> 0]
  <2>1. \A s \in D(0) : s = {}
    BY <1>0, FS_EmptySet
  <2>2. Upto(g, 0)
    BY <2>1
  <2> QED BY <2>2
<1>2. ASSUME NEW n \in Nat, n \in N
      PROVE  n + 1 \in N
  <2>1. PICK g : Upto(g, n)
    BY <1>2
  <2> DEFINE h == [s \in D(n + 1) |->
                     IF s = {} THEN 0 ELSE f[Chosen(s)] + g[s \ {Chosen(s)}]]
  <2>2. \A s \in D(n) : s \in D(n + 1)
    BY <1>0
  <2>3. ASSUME NEW s \in D(n)
        PROVE  h[s] = g[s]
    <3>1. g[s] = IF s = {} THEN 0 ELSE f[Chosen(s)] + g[s \ {Chosen(s)}]
      BY <2>1
    <3> QED BY <2>2, <3>1
  <2>4. ASSUME NEW s \in D(n + 1), s # {}
        PROVE  s \ {Chosen(s)} \in D(n)
    <3>1. Chosen(s) \in s /\ s \in SUBSET S /\ Cardinality(s) <= n + 1
      BY <1>5, <2>4
    <3>2. Cardinality(s \ {Chosen(s)}) = Cardinality(s) - 1
      BY <1>0, <3>1, FS_RemoveElement
    <3>3. s \ {Chosen(s)} \in SUBSET S /\ Cardinality(s) \in Nat
      BY <1>0, <3>1
    <3> QED BY <3>1, <3>2, <3>3
  <2>5. h = [s \in D(n + 1) |->
                     IF s = {} THEN 0 ELSE f[Chosen(s)] + h[s \ {Chosen(s)}]]
    <3> HIDE DEF D
    <3>1. \A s \in D(n + 1) : s # {} => h[s \ {Chosen(s)}] = g[s \ {Chosen(s)}]
      BY <2>3, <2>4
    <3> QED BY <3>1
  <2> HIDE DEF h
  <2>6. Upto(h, n + 1)
    BY <2>5
  <2>7. n + 1 \in Nat
    OBVIOUS
  <2> HIDE DEF Upto
  <2> QED BY <2>6, <2>7
<1> HIDE DEF N
<1>3. Nat \subseteq N
  BY <1>1, <1>2, Numbers
<1>4. \E g : Upto(g, Cardinality(S))
  <2>1. Cardinality(S) \in N
    BY <1>3, FS_CardinalityType
  <2> QED BY <2>1 DEF N
<1>6. D(Cardinality(S)) = SUBSET S
  BY FS_Subset
<1>7. \E g : Solves(g, f, S)
  BY <1>4, <1>6 DEF Solves
<1> QED BY <1>7 DEF Walk

LEMMA WalkStep ==
    ASSUME NEW f, NEW S, IsFiniteSet(S), NEW s \in SUBSET S
    PROVE  Walk(f, S)[s] =
             IF s = {} THEN 0 ELSE f[Chosen(s)] + Walk(f, S)[s \ {Chosen(s)}]
<1> DEFINE g == Walk(f, S)
<1>1. Solves(g, f, S)
  BY WalkExists
<1> HIDE DEF g
<1>2. g[s] = IF s = {} THEN 0 ELSE f[Chosen(s)] + g[s \ {Chosen(s)}]
  BY <1>1 DEF Solves
<1> QED BY <1>2 DEF g

\* Where two such recursions meet they agree.
LEMMA WalksAgree ==
    ASSUME NEW f, NEW S, IsFiniteSet(S), NEW T \in SUBSET S
    PROVE  Walk(f, S)[T] = Walk(f, T)[T]
<1> DEFINE G == {s \in SUBSET T : Walk(f, S)[s] = Walk(f, T)[s]}
<1>1. IsFiniteSet(T)
  BY FS_Subset
<1>2. \A s \in SUBSET T :
        /\ Walk(f, S)[s] = IF s = {} THEN 0 ELSE f[Chosen(s)] + Walk(f, S)[s \ {Chosen(s)}]
        /\ Walk(f, T)[s] = IF s = {} THEN 0 ELSE f[Chosen(s)] + Walk(f, T)[s \ {Chosen(s)}]
  <2>1. SUBSET T \subseteq SUBSET S
    OBVIOUS
  <2>2. \A s \in SUBSET S :
          Walk(f, S)[s] = IF s = {} THEN 0 ELSE f[Chosen(s)] + Walk(f, S)[s \ {Chosen(s)}]
    BY WalkStep
  <2>3. \A s \in SUBSET T :
          Walk(f, T)[s] = IF s = {} THEN 0 ELSE f[Chosen(s)] + Walk(f, T)[s \ {Chosen(s)}]
    BY <1>1, WalkStep
  <2> QED BY <2>1, <2>2, <2>3
<1> DEFINE N == {n \in Nat : \A s \in SUBSET T : Cardinality(s) = n => s \in G}
<1>3. \A s \in SUBSET T : IsFiniteSet(s) /\ Cardinality(s) \in Nat
  BY <1>1, FS_Subset, FS_CardinalityType
<1>4. 0 \in N
  BY <1>2, <1>3, FS_EmptySet
<1>5. ASSUME NEW n \in Nat, n \in N
      PROVE  n + 1 \in N
  <2>1. \A s \in SUBSET T : Cardinality(s) = n => s \in G
    BY <1>5
  <2>2. ASSUME NEW s \in SUBSET T, Cardinality(s) = n + 1
        PROVE  s \in G
    <3> DEFINE x == Chosen(s)
    <3>1. s # {} /\ x \in s
      BY <2>2, FS_EmptySet DEF Chosen
    <3> HIDE DEF x
    <3>2. Cardinality(s \ {x}) = n
      <4>1. IsFiniteSet(s) /\ Cardinality(s) \in Nat
        BY <1>3
      <4>2. Cardinality(s \ {x}) = Cardinality(s) - 1
        BY <3>1, <4>1, FS_RemoveElement
      <4> QED BY <2>2, <4>2
    <3>3. s \ {x} \in G
      BY <2>1, <3>2
    <3> QED BY <1>2, <3>1, <3>3 DEF x
  <2> QED BY <2>2
<1> HIDE DEF N
<1>6. Nat \subseteq N
  BY <1>4, <1>5, Numbers
<1>7. Cardinality(T) \in N /\ T \in SUBSET T
  BY <1>3, <1>6
<1> QED BY <1>7 DEF N

LEMMA SumOfNone ==
    ASSUME NEW f
    PROVE  SumFunctionOnSet(f, {}) = 0
<1>1. IsFiniteSet({})
  BY FS_EmptySet
<1>2. Walk(f, {})[{}] = 0
  BY <1>1, WalkStep
<1> QED BY <1>2, SumIsWalk

LEMMA SumChosen ==
    ASSUME NEW f, NEW S, IsFiniteSet(S), S # {}
    PROVE  /\ Chosen(S) \in S
           /\ SumFunctionOnSet(f, S)
                = f[Chosen(S)] + SumFunctionOnSet(f, S \ {Chosen(S)})
<1> DEFINE x == Chosen(S)
<1>1. x \in S
  BY DEF Chosen
<1>2. Walk(f, S)[S] = f[x] + Walk(f, S)[S \ {x}]
  <2>1. S \in SUBSET S
    OBVIOUS
  <2> QED BY <2>1, WalkStep
<1>3. Walk(f, S)[S \ {x}] = Walk(f, S \ {x})[S \ {x}]
  <2>1. S \ {x} \in SUBSET S
    OBVIOUS
  <2> QED BY <2>1, WalksAgree
<1> QED BY <1>1, <1>2, <1>3, SumIsWalk

Natural(f, S) == \A x \in S : f[x] \in Nat

\* A sum of natural numbers, and any summand may be taken out of it.
LEMMA SumSplit ==
    ASSUME NEW f, NEW S, IsFiniteSet(S), Natural(f, S)
    PROVE  /\ SumFunctionOnSet(f, S) \in Nat
           /\ \A x \in S : SumFunctionOnSet(f, S) = f[x] + SumFunctionOnSet(f, S \ {x})
<1> DEFINE Sum(s) == SumFunctionOnSet(f, s)
           Ok(s) == Sum(s) \in Nat /\ \A x \in s : Sum(s) = f[x] + Sum(s \ {x})
           N == {n \in Nat : \A s \in SUBSET S : Cardinality(s) <= n => Ok(s)}
<1>1. \A s \in SUBSET S : IsFiniteSet(s) /\ Cardinality(s) \in Nat
  BY FS_Subset, FS_CardinalityType
<1>2. \A s \in SUBSET S : s # {} =>
        /\ Chosen(s) \in s
        /\ Sum(s) = f[Chosen(s)] + Sum(s \ {Chosen(s)})
  BY <1>1, SumChosen
<1>3. Sum({}) = 0
  BY SumOfNone
<1> HIDE DEF Sum
<1>4. 0 \in N
  <2>1. \A s \in SUBSET S : Cardinality(s) <= 0 => s = {}
    BY <1>1, FS_EmptySet
  <2>2. Ok({})
    BY <1>3
  <2> HIDE DEF Ok
  <2> QED BY <2>1, <2>2
<1>5. ASSUME NEW n \in Nat, n \in N
      PROVE  n + 1 \in N
  <2>1. \A s \in SUBSET S : Cardinality(s) <= n => Ok(s)
    BY <1>5
  <2>2. ASSUME NEW s \in SUBSET S, Cardinality(s) = n + 1, NEW x \in s,
               NEW r, r \subseteq s \ {x}
        PROVE  Ok(r)
    <3>1. IsFiniteSet(s) /\ IsFiniteSet(s \ {x}) /\ r \in SUBSET S
      <4>1. s \ {x} \in SUBSET S /\ r \in SUBSET S
        BY <2>2
      <4> QED BY <1>1, <4>1
    <3>2. Cardinality(s \ {x}) = n
      <4>1. Cardinality(s \ {x}) = Cardinality(s) - 1
        BY <3>1, FS_RemoveElement
      <4> QED BY <2>2, <4>1
    <3>3. Cardinality(r) <= n
      BY <2>2, <3>1, <3>2, FS_Subset
    <3> HIDE DEF Ok
    <3> QED BY <2>1, <3>1, <3>3
  <2>3. ASSUME NEW s \in SUBSET S, Cardinality(s) = n + 1
        PROVE  Ok(s)
    <3> DEFINE c == Chosen(s)
    <3>1. s # {}
      BY <2>3, FS_EmptySet
    <3>2. c \in s /\ Sum(s) = f[c] + Sum(s \ {c})
      BY <1>2, <3>1
    <3> HIDE DEF c
    <3>3. \A x \in s : f[x] \in Nat
      BY DEF Natural
    <3>4. \A x \in s : \A r \in SUBSET (s \ {x}) : Ok(r)
      <4> HIDE DEF Ok
      <4> QED BY <2>2, <2>3
    <3>5. \A x \in s : \A r \in SUBSET (s \ {x}) :
             Sum(r) \in Nat /\ \A y \in r : Sum(r) = f[y] + Sum(r \ {y})
      BY <3>4
    <3> HIDE DEF Ok
    <3>6. Sum(s \ {c}) \in Nat
      BY <3>2, <3>5
    <3>7. Sum(s) \in Nat
      BY <3>2, <3>3, <3>6
    <3>8. ASSUME NEW x \in s, x # c
          PROVE  Sum(s) = f[x] + Sum(s \ {x})
      <4> DEFINE r == (s \ {c}) \ {x}
      <4>1. Sum(s \ {c}) = f[x] + Sum(r)
        BY <3>5, <3>2, <3>8
      <4>2. (s \ {x}) \ {c} = r
        OBVIOUS
      <4>3. Sum(s \ {x}) = f[c] + Sum(r)
        BY <3>5, <3>2, <3>8, <4>2
      <4>4. r \in SUBSET (s \ {c})
        OBVIOUS
      <4>5. f[x] \in Nat /\ f[c] \in Nat /\ Sum(r) \in Nat
        BY <3>2, <3>3, <3>5, <4>4
      <4> HIDE DEF r
      <4> QED BY <3>2, <4>1, <4>3, <4>5
    <3> QED BY <3>2, <3>7, <3>8 DEF Ok
  <2>4. ASSUME NEW s \in SUBSET S, Cardinality(s) <= n + 1
        PROVE  Ok(s)
    <3>1. Cardinality(s) <= n \/ Cardinality(s) = n + 1
      BY <1>1, <2>4
    <3> HIDE DEF Ok
    <3> QED BY <2>1, <2>3, <3>1
  <2>5. n + 1 \in Nat
    OBVIOUS
  <2> HIDE DEF Ok
  <2> QED BY <2>4, <2>5
<1> HIDE DEF N
<1>6. Nat \subseteq N
  BY <1>4, <1>5, Numbers
<1>7. Cardinality(S) \in N /\ S \in SUBSET S /\ Cardinality(S) <= Cardinality(S)
  BY <1>1, <1>6
<1>8. Ok(S)
  <2> HIDE DEF Ok
  <2> QED BY <1>7 DEF N
<1> QED BY <1>8 DEF Sum

LEMMA SumAdd ==
    ASSUME NEW f, NEW S, IsFiniteSet(S), NEW x, x \notin S, Natural(f, S), f[x] \in Nat
    PROVE  SumFunctionOnSet(f, S \cup {x}) = f[x] + SumFunctionOnSet(f, S)
<1> DEFINE T == S \cup {x}
<1>1. IsFiniteSet(T) /\ x \in T
  BY FS_AddElement
<1>2. Natural(f, T)
  BY DEF Natural
<1>3. T \ {x} = S
  OBVIOUS
<1> HIDE DEF T
<1>4. SumFunctionOnSet(f, T) = f[x] + SumFunctionOnSet(f, T \ {x})
  BY <1>1, <1>2, SumSplit
<1> QED BY <1>3, <1>4 DEF T

\* A sum depends on the summands only.
LEMMA SumSame ==
    ASSUME NEW f, NEW g, NEW S, IsFiniteSet(S), Natural(f, S), \A x \in S : g[x] = f[x]
    PROVE  SumFunctionOnSet(g, S) = SumFunctionOnSet(f, S)
<1> DEFINE G == {s \in SUBSET S : SumFunctionOnSet(g, s) = SumFunctionOnSet(f, s)}
<1>1. {} \in G
  BY SumOfNone
<1>2. ASSUME NEW s \in SUBSET S, NEW x \in S, s \in G, x \notin s
      PROVE  s \cup {x} \in G
  <2>1. IsFiniteSet(s) /\ Natural(f, s) /\ Natural(g, s) /\ f[x] \in Nat /\ g[x] \in Nat
    BY FS_Subset DEF Natural
  <2>2. /\ SumFunctionOnSet(f, s \cup {x}) = f[x] + SumFunctionOnSet(f, s)
        /\ SumFunctionOnSet(g, s \cup {x}) = g[x] + SumFunctionOnSet(g, s)
    BY <1>2, <2>1, SumAdd
  <2>3. SumFunctionOnSet(g, s) = SumFunctionOnSet(f, s)
    BY <1>2
  <2> QED BY <2>2, <2>3
<1>3. S \in SUBSET S
  OBVIOUS
<1> HIDE DEF G
<1>4. SUBSET S \subseteq G
  BY <1>1, <1>2, FiniteSets
<1> QED BY <1>3, <1>4 DEF G

\* The summands may be named by other indexes.
LEMMA SumMapped ==
    ASSUME NEW f, NEW g, NEW S, IsFiniteSet(S), NEW h,
           \A x, y \in S : h[x] = h[y] => x = y,
           \A x \in S : f[h[x]] \in Nat /\ g[x] = f[h[x]]
    PROVE  SumFunctionOnSet(g, S) = SumFunctionOnSet(f, {h[x] : x \in S})
<1> DEFINE To(s) == {h[x] : x \in s}
           G == {s \in SUBSET S : SumFunctionOnSet(g, s) = SumFunctionOnSet(f, To(s))}
<1>1. {} \in G
  <2>1. To({}) = {}
    OBVIOUS
  <2> QED BY <2>1, SumOfNone
<1>2. ASSUME NEW s \in SUBSET S, NEW x \in S, s \in G, x \notin s
      PROVE  s \cup {x} \in G
  <2>1. IsFiniteSet(s)
    BY FS_Subset
  <2>2. IsFiniteSet(To(s)) /\ h[x] \notin To(s) /\ To(s \cup {x}) = To(s) \cup {h[x]}
    <3>1. h[x] \notin To(s) /\ To(s \cup {x}) = To(s) \cup {h[x]}
      BY <1>2
    <3>2. IsFiniteSet(To(s))
      <4> DEFINE e == [y \in s |-> h[y]]
      <4>1. e \in Surjection(s, To(s))
        BY Fun_IsSurj
      <4> QED BY <2>1, <4>1, FS_Surjection
    <3> QED BY <3>1, <3>2
  <2>3. Natural(f, To(s)) /\ Natural(g, s) /\ f[h[x]] \in Nat /\ g[x] = f[h[x]]
    BY DEF Natural
  <2>4. SumFunctionOnSet(g, s \cup {x}) = g[x] + SumFunctionOnSet(g, s)
    BY <1>2, <2>1, <2>3, SumAdd
  <2>5. SumFunctionOnSet(g, s) = SumFunctionOnSet(f, To(s))
    BY <1>2
  <2> HIDE DEF To
  <2>6. SumFunctionOnSet(f, To(s) \cup {h[x]}) = f[h[x]] + SumFunctionOnSet(f, To(s))
    BY <2>2, <2>3, SumAdd
  <2> QED BY <2>2, <2>3, <2>4, <2>5, <2>6
<1>3. S \in SUBSET S
  OBVIOUS
<1> HIDE DEF G
<1>4. SUBSET S \subseteq G
  BY <1>1, <1>2, FiniteSets
<1> QED BY <1>3, <1>4 DEF G

\* What does not count may be left out.
LEMMA SumRest ==
    ASSUME NEW f, NEW S, IsFiniteSet(S), Natural(f, S), NEW T \in SUBSET S
    PROVE  /\ SumFunctionOnSet(f, T) \in Nat
           /\ SumFunctionOnSet(f, S) = SumFunctionOnSet(f, T) + SumFunctionOnSet(f, S \ T)
<1> DEFINE Sum(s) == SumFunctionOnSet(f, s)
           G == {s \in SUBSET T : Sum(s \cup (S \ T)) = Sum(s) + Sum(S \ T)}
<1>1. \A s \in SUBSET S : IsFiniteSet(s) /\ Natural(f, s)
  BY FS_Subset DEF Natural
<1>2. \A s \in SUBSET S : Sum(s) \in Nat
  BY <1>1, SumSplit
<1>3. \A s \in SUBSET S, x \in S : x \notin s => f[x] \in Nat /\ Sum(s \cup {x}) = f[x] + Sum(s)
  BY <1>1, SumAdd DEF Natural
<1>4. Sum({}) = 0
  BY SumOfNone
<1> HIDE DEF Sum
<1>5. {} \in G
  <2>1. {} \cup (S \ T) = S \ T /\ Sum(S \ T) \in Nat
    BY <1>2
  <2> QED BY <1>4, <2>1
<1>6. ASSUME NEW s \in SUBSET T, NEW x \in T, s \in G, x \notin s
      PROVE  s \cup {x} \in G
  <2> DEFINE u == s \cup (S \ T)
  <2>1. u \in SUBSET S /\ x \notin u /\ x \in S /\ s \in SUBSET S
    BY <1>6
  <2>2. (s \cup {x}) \cup (S \ T) = u \cup {x}
    OBVIOUS
  <2>3. Sum(u) = Sum(s) + Sum(S \ T)
    BY <1>6
  <2> HIDE DEF u
  <2>4. f[x] \in Nat /\ Sum(u \cup {x}) = f[x] + Sum(u) /\ Sum(s \cup {x}) = f[x] + Sum(s)
    BY <1>3, <1>6, <2>1
  <2>5. Sum(s) \in Nat /\ Sum(S \ T) \in Nat
    BY <1>2, <2>1
  <2>6. Sum(u \cup {x}) = Sum(s \cup {x}) + Sum(S \ T)
    BY <2>3, <2>4, <2>5
  <2> QED BY <2>2, <2>6
<1>7. IsFiniteSet(T) /\ T \in SUBSET T /\ T \cup (S \ T) = S
  BY <1>1
<1> HIDE DEF G
<1>8. SUBSET T \subseteq G
  <2>1. IsFiniteSet(T) /\ {} \in G
    BY <1>5, <1>7
  <2>2. \A s \in SUBSET T, x \in T : s \in G /\ x \notin s => s \cup {x} \in G
    BY <1>6
  <2> QED BY <2>1, <2>2, FiniteSets
<1>9. Sum(T \cup (S \ T)) = Sum(T) + Sum(S \ T)
  BY <1>7, <1>8 DEF G
<1> QED BY <1>2, <1>7, <1>9 DEF Sum

\* The same of every part at once.
Splits(f, S) ==
    \A T \in SUBSET S :
      /\ SumFunctionOnSet(f, T) \in Nat
      /\ SumFunctionOnSet(f, S) = SumFunctionOnSet(f, T) + SumFunctionOnSet(f, S \ T)

LEMMA SumSplits ==
    ASSUME NEW f, NEW S, IsFiniteSet(S), Natural(f, S)
    PROVE  Splits(f, S)
BY SumRest DEF Splits

\* With one summand that is not 0 the sum is that one, natural or not.
LEMMA SumOne ==
    ASSUME NEW f, NEW S, IsFiniteSet(S), NEW x \in S, f[x] \in Int,
           \A y \in S \ {x} : f[y] = 0
    PROVE  SumFunctionOnSet(f, S) = f[x]
<1> DEFINE Sum(s) == SumFunctionOnSet(f, s)
           Ok(s) == Sum(s) = IF x \in s THEN f[x] ELSE 0
           N == {n \in Nat : \A s \in SUBSET S : Cardinality(s) = n => Ok(s)}
<1>1. \A s \in SUBSET S : IsFiniteSet(s) /\ Cardinality(s) \in Nat
  BY FS_Subset, FS_CardinalityType
<1>2. \A s \in SUBSET S : s # {} =>
        /\ Chosen(s) \in s
        /\ Sum(s) = f[Chosen(s)] + Sum(s \ {Chosen(s)})
  BY <1>1, SumChosen
<1>3. Sum({}) = 0
  BY SumOfNone
<1> HIDE DEF Sum
<1>4. 0 \in N
  <2>1. \A s \in SUBSET S : Cardinality(s) = 0 => s = {}
    BY <1>1, FS_EmptySet
  <2>2. Ok({})
    BY <1>3
  <2> HIDE DEF Ok
  <2> QED BY <2>1, <2>2
<1>5. ASSUME NEW n \in Nat, n \in N
      PROVE  n + 1 \in N
  <2>1. ASSUME NEW s \in SUBSET S, Cardinality(s) = n + 1
        PROVE  Ok(s)
    <3> DEFINE c == Chosen(s)
    <3>1. s # {} /\ IsFiniteSet(s)
      BY <1>1, <2>1, FS_EmptySet
    <3>2. c \in s /\ c \in S /\ Sum(s) = f[c] + Sum(s \ {c})
      BY <1>2, <3>1
    <3> HIDE DEF c
    <3>3. Cardinality(s \ {c}) = n
      <4>1. Cardinality(s \ {c}) = Cardinality(s) - 1
        BY <3>1, <3>2, FS_RemoveElement
      <4> QED BY <2>1, <4>1
    <3>4. s \ {c} \in SUBSET S
      OBVIOUS
    <3>5. Ok(s \ {c})
      <4> HIDE DEF Ok
      <4> QED BY <1>5, <3>3, <3>4
    <3>6. CASE c = x
      <4>1. Sum(s \ {c}) = 0
        BY <3>5, <3>6
      <4> QED BY <3>2, <3>6, <4>1
    <3>7. CASE c # x
      <4>1. f[c] = 0
        BY <3>2, <3>7
      <4>2. Sum(s \ {c}) = IF x \in s THEN f[x] ELSE 0
        BY <3>5, <3>7
      <4> QED BY <3>2, <4>1, <4>2
    <3> QED BY <3>6, <3>7
  <2>2. n + 1 \in Nat
    OBVIOUS
  <2> HIDE DEF Ok
  <2> QED BY <2>1, <2>2
<1> HIDE DEF N
<1>6. Nat \subseteq N
  BY <1>4, <1>5, Numbers
<1>7. Cardinality(S) \in N /\ S \in SUBSET S
  BY <1>1, <1>6
<1>8. Ok(S)
  <2> HIDE DEF Ok
  <2> QED BY <1>7 DEF N
<1> QED BY <1>8 DEF Sum

\* What does not count may be left out.
LEMMA SumZero ==
    ASSUME NEW f, NEW S, IsFiniteSet(S), \A x \in S : f[x] = 0
    PROVE  SumFunctionOnSet(f, S) = 0
<1> DEFINE G == {s \in SUBSET S : SumFunctionOnSet(f, s) = 0}
<1>1. {} \in G
  BY SumOfNone
<1>2. ASSUME NEW s \in SUBSET S, NEW x \in S, s \in G, x \notin s
      PROVE  s \cup {x} \in G
  <2>1. IsFiniteSet(s) /\ Natural(f, s) /\ f[x] \in Nat /\ f[x] = 0
    BY FS_Subset DEF Natural
  <2>2. SumFunctionOnSet(f, s \cup {x}) = f[x] + SumFunctionOnSet(f, s)
    BY <1>2, <2>1, SumAdd
  <2>3. SumFunctionOnSet(f, s) = 0
    BY <1>2
  <2> QED BY <2>1, <2>2, <2>3
<1>3. S \in SUBSET S
  OBVIOUS
<1> HIDE DEF G
<1>4. SUBSET S \subseteq G
  BY <1>1, <1>2, FiniteSets
<1> QED BY <1>3, <1>4 DEF G

\* One summand changes.
LEMMA SumChanged ==
    ASSUME NEW f, NEW g, NEW S, IsFiniteSet(S), Natural(f, S), NEW x \in S, g[x] \in Nat,
           \A y \in S \ {x} : g[y] = f[y]
    PROVE  /\ SumFunctionOnSet(g, S) \in Nat /\ SumFunctionOnSet(f, S) \in Nat
           /\ f[x] \in Nat
           /\ SumFunctionOnSet(g, S) + f[x] = SumFunctionOnSet(f, S) + g[x]
<1> DEFINE R == S \ {x}
<1>1. IsFiniteSet(R) /\ Natural(f, R) /\ Natural(g, S) /\ f[x] \in Nat
  BY FS_Subset DEF Natural
<1>2. \A y \in R : g[y] = f[y]
  OBVIOUS
<1>3. /\ SumFunctionOnSet(f, S) = f[x] + SumFunctionOnSet(f, R)
      /\ SumFunctionOnSet(g, S) = g[x] + SumFunctionOnSet(g, R)
  BY <1>1, SumSplit
<1> HIDE DEF R
<1>4. SumFunctionOnSet(g, R) = SumFunctionOnSet(f, R)
  BY <1>1, <1>2, SumSame
<1>5. SumFunctionOnSet(f, R) \in Nat
  BY <1>1, SumSplit
<1> QED BY <1>1, <1>3, <1>4, <1>5
=============================================================================
