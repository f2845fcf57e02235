----------------------------- MODULE CargoProofs -----------------------------
(***************************************************************************)
(* Proofs about Cargo, for every number of players, goods and quests, and  *)
(* all prices.  They rest on lemmas about inventories, of any length: what *)
(* each operation does to the pieces of every type, to slots and to ids.   *)
(* At the end, the bots of Haulers are shown to do nothing else than Cargo *)
(* allows, so that all of it holds for them too.                           *)
(***************************************************************************)
EXTENDS Haulers, VectorsProofs

SlotsApart(inv) == \A i, j \in DOMAIN inv : i # j => inv[i].slot # inv[j].slot
IdsApart(inv) == \A i, j \in DOMAIN inv : i # j => inv[i].id # inv[j].id

\* Only a cargo as it was picked up has a nil id, ...
NilIsCargo(inv) == \A i \in DOMAIN inv : inv[i].id = Nil => inv[i].type = "cargo"
\* ... and nothing on the market has.
NoneNil(inv) == \A i \in DOMAIN inv : inv[i].id # Nil

-----------------------------------------------------------------------------
(***************************************************************************)
(* Indexes                                                                 *)
(***************************************************************************)

LEMMA Indexes ==
    ASSUME NEW S, NEW inv \in Seq(S)
    PROVE  /\ Len(inv) \in Nat /\ DOMAIN inv = 1..Len(inv) /\ IsFiniteSet(DOMAIN inv)
           /\ \A i \in DOMAIN inv : inv[i] \in S /\ i \in Nat
<1>1. Len(inv) \in Nat /\ DOMAIN inv = 1..Len(inv)
  OBVIOUS
<1>2. IsFiniteSet(1..Len(inv))
  <2>1. 1 \in Int /\ Len(inv) \in Int
    BY <1>1
  <2> QED BY <2>1, FS_Interval, Zenon
<1> QED BY <1>1, <1>2

\* Min and Max of FiniteSetsExt.
LEMMA MinIs ==
    ASSUME NEW T \in SUBSET Nat, T # {}
    PROVE  Min(T) \in T /\ \A y \in T : Min(T) <= y
<1>1. \E x \in T : \A y \in T : x <= y
  BY LeastNumber
<1> QED BY <1>1 DEF Min

LEMMA MaxIs ==
    ASSUME NEW n \in Nat, NEW T \in SUBSET (1..n), T # {}
    PROVE  Max(T) \in T
<1>1. \E x \in T : \A y \in T : x >= y
  BY GreatestNumber
<1> QED BY <1>1 DEF Max

\* Among more numbers than are taken one is free.
LEMMA OneIsFree ==
    ASSUME NEW a \in Nat, NEW taken, IsFiniteSet(taken)
    PROVE  \E j \in a..(a + Cardinality(taken)) : j \notin taken
<1> DEFINE c == Cardinality(taken)
           all == a..(a + c)
<1>1. c \in Nat
  BY FS_CardinalityType
<1>2. IsFiniteSet(all) /\ Cardinality(all) = c + 1
  <2>1. a \in Int /\ a + c \in Int /\ a <= a + c
    BY <1>1
  <2> HIDE DEF c
  <2>2. Cardinality(all) = (a + c) - a + 1
    BY <2>1, FS_Interval
  <2>3. IsFiniteSet(all)
    BY <2>1, FS_Interval
  <2> QED BY <1>1, <2>2, <2>3
<1> HIDE DEF all
<1>3. ~(all \subseteq taken)
  <2> SUFFICES ASSUME all \subseteq taken
               PROVE  FALSE
    OBVIOUS
  <2>1. Cardinality(all) <= c
    BY FS_Subset
  <2> QED BY <1>1, <1>2, <2>1
<1> QED BY <1>3 DEF all

LEMMA FreeFromIs ==
    ASSUME NEW a \in Nat, NEW taken, IsFiniteSet(taken)
    PROVE  FreeFrom(a, taken) \in Nat /\ FreeFrom(a, taken) \notin taken
<1> DEFINE T == a..(a + Cardinality(taken)) \ taken
<1>1. Cardinality(taken) \in Nat
  BY FS_CardinalityType
<1>2. T # {} /\ T \in SUBSET Nat
  BY <1>1, OneIsFree
<1>3. Min(T) \in T
  <2> HIDE DEF T
  <2> QED BY <1>2, MinIs
<1>4. FreeFrom(a, taken) = Min(T)
  BY DEF FreeFrom
<1>5. FreeFrom(a, taken) \in T
  BY <1>3, <1>4
<1> QED BY <1>2, <1>5

\* The images of finitely many indexes are finitely many, and not more.
LEMMA FewImages ==
    ASSUME NEW f, NEW D, IsFiniteSet(D)
    PROVE  /\ IsFiniteSet({f[i] : i \in D})
           /\ Cardinality({f[i] : i \in D}) <= Cardinality(D)
<1> DEFINE g == [i \in D |-> f[i]]
           R == {f[i] : i \in D}
<1>1. g \in Surjection(D, R)
  BY Fun_IsSurj
<1> HIDE DEF R, g
<1>2. IsFiniteSet(R) /\ Cardinality(R) <= Cardinality(D)
  BY <1>1, FS_Surjection
<1> QED BY <1>2 DEF R

LEMMA NewIdIs ==
    ASSUME NEW inv \in Seq(StackType)
    PROVE  NewId(inv) \in Nat \ {Nil} /\ NewId(inv) \notin Ids(inv)
<1> DEFINE id == [i \in DOMAIN inv |-> inv[i].id]
           T == 1..(Len(inv) + 1) \ Ids(inv)
           n == Len(inv)
<1>1. n \in Nat /\ DOMAIN inv = 1..n /\ IsFiniteSet(DOMAIN inv)
  BY Indexes
<1>2. Ids(inv) = {id[i] : i \in DOMAIN inv}
  BY DEF Ids
<1> HIDE DEF id
<1>3. IsFiniteSet(Ids(inv)) /\ Cardinality(Ids(inv)) <= Cardinality(DOMAIN inv)
  BY <1>1, <1>2, FewImages
<1>4. Cardinality(DOMAIN inv) = n
  <2>1. 1 \in Int /\ n \in Int /\ (1 > n => n = 0)
    BY <1>1
  <2>2. Cardinality(1..n) = IF 1 > n THEN 0 ELSE n - 1 + 1
    BY <2>1, FS_Interval
  <2> QED BY <1>1, <2>1, <2>2
<1>5. PICK j \in 1..(1 + Cardinality(Ids(inv))) : j \notin Ids(inv)
  <2>1. 1 \in Nat
    OBVIOUS
  <2> QED BY <1>3, <2>1, OneIsFree
<1>6. j \in T
  BY <1>1, <1>3, <1>4, <1>5, FS_CardinalityType
<1>7. T \in SUBSET (Nat \ {0})
  BY <1>1
<1> HIDE DEF T
<1>8. Min(T) \in T
  BY <1>6, <1>7, MinIs
<1>9. NewId(inv) = Min(T)
  BY DEF NewId, T
<1> QED BY <1>7, <1>8, <1>9 DEF T, Nil

-----------------------------------------------------------------------------
(***************************************************************************)
(* Pieces                                                                  *)
(***************************************************************************)

Counts(inv) == [i \in DOMAIN inv |-> inv[i].n]

\* The facts every sum of pieces needs.
LEMMA PiecesType ==
    ASSUME NEW inv \in Seq(StackType), NEW t
    PROVE  /\ Pieces(inv, t) = SumFunctionOnSet(Counts(inv), OfType(inv, t))
           /\ IsFiniteSet(OfType(inv, t)) /\ OfType(inv, t) \subseteq DOMAIN inv
           /\ Natural(Counts(inv), DOMAIN inv) /\ Natural(Counts(inv), OfType(inv, t))
           /\ Pieces(inv, t) \in Nat
<1>1. IsFiniteSet(DOMAIN inv) /\ \A i \in DOMAIN inv : inv[i] \in StackType
  BY Indexes
<1>2. OfType(inv, t) \in SUBSET DOMAIN inv
  BY DEF OfType
<1>3. IsFiniteSet(OfType(inv, t))
  BY <1>1, <1>2, FS_Subset
<1>4. Natural(Counts(inv), DOMAIN inv)
  <2>1. \A i \in DOMAIN inv : Counts(inv)[i] = inv[i].n /\ inv[i].n \in Nat
    BY <1>1 DEF Counts, StackType
  <2> QED BY <2>1 DEF Natural
<1>5. Natural(Counts(inv), OfType(inv, t))
  BY <1>2, <1>4 DEF Natural
<1>6. Pieces(inv, t) = SumFunctionOnSet(Counts(inv), OfType(inv, t))
  BY DEF Pieces, Counts
<1> QED BY <1>2, <1>3, <1>4, <1>5, <1>6, SumSplit

\* Pieces do not depend on ids, slots and quests.
LEMMA PiecesSame ==
    ASSUME NEW inv \in Seq(StackType), NEW out \in Seq(StackType), DOMAIN out = DOMAIN inv,
           \A i \in DOMAIN inv : out[i].type = inv[i].type /\ out[i].n = inv[i].n,
           NEW t
    PROVE  Pieces(out, t) = Pieces(inv, t)
<1>1. OfType(out, t) = OfType(inv, t)
  BY DEF OfType
<1>2. Counts(out) = Counts(inv)
  BY DEF Counts
<1> QED BY <1>1, <1>2, PiecesType

\* A stack that is new.
LEMMA PiecesAppend ==
    ASSUME NEW inv \in Seq(StackType), NEW x \in StackType, NEW t
    PROVE  /\ Append(inv, x) \in Seq(StackType)
           /\ Pieces(Append(inv, x), t) = Pieces(inv, t) + IF x.type = t THEN x.n ELSE 0
<1> DEFINE out == Append(inv, x)
           k == Len(inv) + 1
<1>1. /\ Len(inv) \in Nat /\ DOMAIN inv = 1..Len(inv)
      /\ \A i \in DOMAIN inv : inv[i] \in StackType
  BY Indexes
<1>2. /\ out \in Seq(StackType) /\ DOMAIN out = DOMAIN inv \cup {k} /\ k \notin DOMAIN inv
      /\ out[k] = x /\ \A i \in DOMAIN inv : out[i] = inv[i]
  BY <1>1
<1> HIDE DEF out, k
<1>3. x.n \in Nat
  BY DEF StackType
<1>4. /\ Natural(Counts(out), OfType(inv, t)) /\ Counts(out)[k] = x.n
      /\ \A i \in OfType(inv, t) : Counts(out)[i] = Counts(inv)[i]
  <2>1. \A i \in DOMAIN inv : Counts(out)[i] = inv[i].n /\ Counts(inv)[i] = inv[i].n
    BY <1>2 DEF Counts
  <2>2. Counts(out)[k] = x.n
    BY <1>2 DEF Counts
  <2>3. \A i \in DOMAIN inv : inv[i].n \in Nat
    BY <1>1 DEF StackType
  <2>4. OfType(inv, t) \subseteq DOMAIN inv
    BY PiecesType
  <2> QED BY <2>1, <2>2, <2>3, <2>4 DEF Natural
<1>5. IsFiniteSet(OfType(inv, t)) /\ k \notin OfType(inv, t)
  BY <1>2, PiecesType
<1>6. SumFunctionOnSet(Counts(out), OfType(inv, t)) = Pieces(inv, t)
  <2>1. Natural(Counts(inv), OfType(inv, t))
    BY PiecesType
  <2>2. SumFunctionOnSet(Counts(out), OfType(inv, t))
          = SumFunctionOnSet(Counts(inv), OfType(inv, t))
    BY <1>4, <1>5, <2>1, SumSame
  <2> QED BY <2>2, PiecesType
<1>7. Pieces(out, t) = SumFunctionOnSet(Counts(out), OfType(out, t))
  BY <1>2, PiecesType
<1>8. CASE x.type = t
  <2>1. OfType(out, t) = OfType(inv, t) \cup {k}
    BY <1>2, <1>8 DEF OfType
  <2>2. SumFunctionOnSet(Counts(out), OfType(inv, t) \cup {k})
          = x.n + SumFunctionOnSet(Counts(out), OfType(inv, t))
    BY <1>3, <1>4, <1>5, SumAdd
  <2>3. Pieces(inv, t) \in Nat
    BY PiecesType
  <2> QED BY <1>2, <1>3, <1>6, <1>7, <1>8, <2>1, <2>2, <2>3 DEF out
<1>9. CASE x.type # t
  <2>1. OfType(out, t) = OfType(inv, t)
    BY <1>2, <1>9 DEF OfType
  <2>2. Pieces(inv, t) \in Nat
    BY PiecesType
  <2> QED BY <1>2, <1>6, <1>7, <1>9, <2>1, <2>2 DEF out
<1> QED BY <1>8, <1>9

\* A stack whose number changes.
LEMMA PiecesOneChanged ==
    ASSUME NEW inv \in Seq(StackType), NEW out \in Seq(StackType), DOMAIN out = DOMAIN inv,
           NEW i \in DOMAIN inv, out[i].type = inv[i].type,
           \A j \in DOMAIN inv \ {i} : out[j] = inv[j],
           NEW t
    PROVE  Pieces(out, t) + (IF inv[i].type = t THEN inv[i].n ELSE 0)
             = Pieces(inv, t) + (IF inv[i].type = t THEN out[i].n ELSE 0)
<1>1. OfType(out, t) = OfType(inv, t)
  BY DEF OfType
<1>2. /\ inv[i].n \in Nat /\ out[i].n \in Nat
      /\ Counts(inv)[i] = inv[i].n /\ Counts(out)[i] = out[i].n
      /\ \A j \in DOMAIN inv \ {i} : Counts(out)[j] = Counts(inv)[j]
  <2>1. inv[i] \in StackType /\ out[i] \in StackType
    BY Indexes
  <2>2. inv[i].n \in Nat /\ out[i].n \in Nat
    BY <2>1 DEF StackType
  <2> QED BY <2>2 DEF Counts
<1>3. /\ IsFiniteSet(OfType(inv, t)) /\ Natural(Counts(inv), OfType(inv, t))
      /\ OfType(inv, t) \subseteq DOMAIN inv
      /\ Pieces(inv, t) = SumFunctionOnSet(Counts(inv), OfType(inv, t))
      /\ Pieces(inv, t) \in Nat
  BY PiecesType
<1>4. /\ Pieces(out, t) = SumFunctionOnSet(Counts(out), OfType(inv, t))
      /\ Pieces(out, t) \in Nat
  BY <1>1, PiecesType
<1>5. CASE inv[i].type = t
  <2>1. i \in OfType(inv, t)
    BY <1>5 DEF OfType
  <2>2. \A j \in OfType(inv, t) \ {i} : Counts(out)[j] = Counts(inv)[j]
    BY <1>2, <1>3
  <2>3. Counts(out)[i] \in Nat
    BY <1>2
  <2>4. SumFunctionOnSet(Counts(out), OfType(inv, t)) + Counts(inv)[i]
          = SumFunctionOnSet(Counts(inv), OfType(inv, t)) + Counts(out)[i]
    BY <1>3, <2>1, <2>2, <2>3, SumChanged
  <2> QED BY <1>2, <1>3, <1>4, <1>5, <2>4
<1>6. CASE inv[i].type # t
  <2>1. \A j \in OfType(inv, t) : Counts(out)[j] = Counts(inv)[j]
    <3>1. i \notin OfType(inv, t)
      BY <1>6 DEF OfType
    <3> QED BY <1>2, <1>3, <3>1
  <2>2. SumFunctionOnSet(Counts(out), OfType(inv, t))
          = SumFunctionOnSet(Counts(inv), OfType(inv, t))
    BY <1>3, <2>1, SumSame
  <2> QED BY <1>3, <1>4, <1>6, <2>2
<1> QED BY <1>5, <1>6

\* What is retained comes from different stacks, all those that are kept.
LEMMA RetainedFrom ==
    ASSUME NEW inv \in Seq(StackType), NEW I \in SUBSET DOMAIN inv
    PROVE  /\ Retained(inv, I) \in Seq(StackType)
           /\ \E g : /\ \A n \in DOMAIN Retained(inv, I) :
                           g[n] \in I /\ Retained(inv, I)[n] = inv[g[n]]
                     /\ \A i \in I : \E n \in DOMAIN Retained(inv, I) : g[n] = i
                     /\ \A m, n \in DOMAIN Retained(inv, I) : m # n => g[m] # g[n]
<1> DEFINE out == Retained(inv, I)
<1>1. Len(inv) \in Nat /\ DOMAIN inv = 1..Len(inv)
  BY Indexes
<1>2. I \in SUBSET (1..Len(inv))
  BY <1>1
<1>3. out \in Seq(StackType) /\ \E g : Picks(g, out, inv, I)
  BY <1>2, RetainedProperties
<1>4. PICK g : Picks(g, out, inv, I)
  BY <1>3
<1> HIDE DEF out
<1>5. Len(out) \in Nat /\ DOMAIN out = 1..Len(out)
  BY <1>3, Indexes
<1>6. /\ \A n \in DOMAIN out : g[n] \in I /\ out[n] = inv[g[n]]
      /\ \A i \in I : \E n \in DOMAIN out : g[n] = i
  BY <1>4, <1>5 DEF Picks
<1>7. \A m, n \in DOMAIN out : m # n => g[m] # g[n]
  <2>1. \A n \in DOMAIN out : g[n] \in Nat /\ n \in Nat
    BY <1>1, <1>5, <1>6
  <2>2. \A m, n \in DOMAIN out : m < n => g[m] < g[n]
    BY <1>4, <1>5 DEF Picks, Increasing
  <2>3. ASSUME NEW m \in DOMAIN out, NEW n \in DOMAIN out, g[m] = g[n], m # n
        PROVE  FALSE
    <3>1. m < n \/ n < m
      BY <2>1, <2>3
    <3>2. g[m] < g[n] \/ g[n] < g[m]
      BY <2>2, <3>1
    <3> QED BY <2>1, <2>3, <3>2
  <2> QED BY <2>3
<1> QED BY <1>3, <1>6, <1>7 DEF out

\* What is retained is a part of what was there.
LEMMA PiecesRetained ==
    ASSUME NEW inv \in Seq(StackType), NEW I \in SUBSET DOMAIN inv, NEW t
    PROVE  /\ Retained(inv, I) \in Seq(StackType)
           /\ Pieces(Retained(inv, I), t)
                = SumFunctionOnSet(Counts(inv), I \cap OfType(inv, t))
<1> DEFINE out == Retained(inv, I)
<1>1. out \in Seq(StackType)
  BY RetainedFrom
<1>2. PICK g : /\ \A n \in DOMAIN out : g[n] \in I /\ out[n] = inv[g[n]]
               /\ \A i \in I : \E n \in DOMAIN out : g[n] = i
               /\ \A m, n \in DOMAIN out : m # n => g[m] # g[n]
  BY RetainedFrom
<1> HIDE DEF out
<1> DEFINE S == OfType(out, t)
<1>3. {g[n] : n \in S} = I \cap OfType(inv, t)
  <2>1. \A n \in S : g[n] \in I \cap OfType(inv, t)
    BY <1>2 DEF OfType
  <2>2. ASSUME NEW i \in I \cap OfType(inv, t)
        PROVE  \E n \in S : g[n] = i
    <3>1. PICK n \in DOMAIN out : g[n] = i
      BY <1>2
    <3>2. out[n].type = t
      BY <1>2, <3>1 DEF OfType
    <3> QED BY <3>1, <3>2 DEF OfType
  <2> QED BY <2>1, <2>2
<1>4. \A n \in S : Counts(inv)[g[n]] \in Nat /\ Counts(out)[n] = Counts(inv)[g[n]]
  <2>1. \A n \in S : n \in DOMAIN out /\ g[n] \in DOMAIN inv
    BY <1>2 DEF OfType
  <2>2. \A i \in DOMAIN inv : Counts(inv)[i] \in Nat
    BY PiecesType DEF Natural
  <2> QED BY <1>2, <2>1, <2>2 DEF Counts
<1>5. IsFiniteSet(S) /\ Pieces(out, t) = SumFunctionOnSet(Counts(out), S)
  BY <1>1, PiecesType
<1>6. \A m, n \in S : g[m] = g[n] => m = n
  BY <1>2 DEF OfType
<1> HIDE DEF S
<1>7. SumFunctionOnSet(Counts(out), S)
         = SumFunctionOnSet(Counts(inv), {g[n] : n \in S})
  BY <1>4, <1>5, <1>6, SumMapped
<1> QED BY <1>1, <1>3, <1>5, <1>7 DEF out

\* What is dropped may have been worth nothing, or all there was.
LEMMA PiecesDropped ==
    ASSUME NEW inv \in Seq(StackType), NEW I \in SUBSET DOMAIN inv, NEW t
    PROVE  /\ Pieces(Retained(inv, I), t) <= Pieces(inv, t)
           /\ (\A i \in OfType(inv, t) \ I : inv[i].n = 0)
                => Pieces(Retained(inv, I), t) = Pieces(inv, t)
           /\ I \cap OfType(inv, t) = {} => Pieces(Retained(inv, I), t) = 0
           /\ \A i \in OfType(inv, t) :
                 OfType(inv, t) \ I = {i}
                   => Pieces(Retained(inv, I), t) + inv[i].n = Pieces(inv, t)
<1> DEFINE all == OfType(inv, t)
           kept == I \cap OfType(inv, t)
           f == Counts(inv)
<1>1. Pieces(Retained(inv, I), t) = SumFunctionOnSet(f, kept)
  BY PiecesRetained
<1>2. /\ Pieces(inv, t) = SumFunctionOnSet(f, all)
      /\ IsFiniteSet(all) /\ Natural(f, all) /\ Pieces(inv, t) \in Nat
      /\ all \subseteq DOMAIN inv
  BY PiecesType
<1>3. kept \in SUBSET all /\ all \ kept = all \ I
  OBVIOUS
<1>4. \A i \in all : f[i] = inv[i].n
  BY <1>2 DEF Counts
<1> HIDE DEF all, kept, f
<1>5. /\ SumFunctionOnSet(f, kept) \in Nat
      /\ SumFunctionOnSet(f, all) = SumFunctionOnSet(f, kept) + SumFunctionOnSet(f, all \ kept)
  <2>1. IsFiniteSet(all) /\ Natural(f, all) /\ kept \in SUBSET all
    BY <1>2, <1>3
  <2>2. Splits(f, all)
    BY <2>1, SumSplits
  <2> QED BY <2>1, <2>2 DEF Splits
<1>6. IsFiniteSet(all \ kept) /\ Natural(f, all \ kept)
  <2>1. all \ kept \in SUBSET all
    OBVIOUS
  <2> QED BY <1>2, <2>1, FS_Subset DEF Natural
<1>7. SumFunctionOnSet(f, all \ kept) \in Nat
  BY <1>6, SumSplit
<1>8. ASSUME \A i \in all \ I : inv[i].n = 0
      PROVE  SumFunctionOnSet(f, all \ kept) = 0
  <2>1. \A i \in all \ kept : f[i] = 0
    BY <1>3, <1>4, <1>8
  <2> QED BY <1>6, <2>1, SumZero
<1>9. kept = {} => SumFunctionOnSet(f, kept) = 0
  BY SumOfNone
<1>10. ASSUME NEW i \in all, all \ I = {i}
       PROVE  SumFunctionOnSet(f, all \ kept) = inv[i].n
  <2>1. all \ kept = {i} /\ {i} \ {i} = {}
    BY <1>3, <1>10
  <2>2. SumFunctionOnSet(f, all \ kept) = f[i] + SumFunctionOnSet(f, (all \ kept) \ {i})
    BY <1>6, <2>1, SumSplit
  <2>3. f[i] = inv[i].n /\ f[i] \in Nat
    BY <1>2, <1>4 DEF Natural
  <2>4. SumFunctionOnSet(f, (all \ kept) \ {i}) = 0
    <3>1. SumFunctionOnSet(f, {}) = 0
      BY SumOfNone
    <3>2. (all \ kept) \ {i} = {}
      BY <2>1
    <3> QED BY <3>1, <3>2, Zenon
  <2> QED BY <2>2, <2>3, <2>4
<1>11. Pieces(Retained(inv, I), t) <= Pieces(inv, t)
  BY <1>1, <1>2, <1>5, <1>7
<1>12. ASSUME \A i \in all \ I : inv[i].n = 0
       PROVE  Pieces(Retained(inv, I), t) = Pieces(inv, t)
  BY <1>1, <1>2, <1>5, <1>8, <1>12
<1>13. ASSUME kept = {}
       PROVE  Pieces(Retained(inv, I), t) = 0
  BY <1>1, <1>9, <1>13
<1>14. ASSUME NEW i \in all, all \ I = {i}
       PROVE  Pieces(Retained(inv, I), t) + inv[i].n = Pieces(inv, t)
  BY <1>1, <1>2, <1>5, <1>10, <1>14
<1> QED BY <1>11, <1>12, <1>13, <1>14 DEF all, kept

-----------------------------------------------------------------------------
(***************************************************************************)
(* Stacks that change in place                                             *)
(***************************************************************************)

\* The same stacks as far as ids and types go.
Alike(out, inv) ==
    /\ out \in Seq(StackType) /\ DOMAIN out = DOMAIN inv
    /\ \A i \in DOMAIN inv : out[i].id = inv[i].id /\ out[i].type = inv[i].type

LEMMA AlikeKeeps ==
    ASSUME NEW inv, NEW out, Alike(out, inv)
    PROVE  /\ IdsApart(inv) => IdsApart(out)
           /\ NilIsCargo(inv) => NilIsCargo(out)
           /\ NoneNil(inv) => NoneNil(out)
           /\ \A t : OfType(out, t) = OfType(inv, t)
           /\ Ids(out) = Ids(inv)
<1>1. DOMAIN out = DOMAIN inv
  BY DEF Alike
<1>2. \A i \in DOMAIN inv : out[i].id = inv[i].id /\ out[i].type = inv[i].type
  BY DEF Alike
<1>3. IdsApart(inv) => IdsApart(out)
  BY <1>1, <1>2 DEF IdsApart
<1>4. NilIsCargo(inv) => NilIsCargo(out)
  BY <1>1, <1>2 DEF NilIsCargo
<1>5. NoneNil(inv) => NoneNil(out)
  BY <1>1, <1>2 DEF NoneNil
<1>6. \A t : OfType(out, t) = OfType(inv, t)
  BY <1>1, <1>2 DEF OfType
<1>7. Ids(out) = Ids(inv)
  BY <1>1, <1>2 DEF Ids
<1> QED BY <1>3, <1>4, <1>5, <1>6, <1>7

\* A record of a stack with another number, and with another slot.
LEMMA Renumbered ==
    ASSUME NEW s \in StackType, NEW n \in Nat
    PROVE  /\ [s EXCEPT !.n = n] \in StackType
           /\ [s EXCEPT !.n = n].id = s.id /\ [s EXCEPT !.n = n].type = s.type
           /\ [s EXCEPT !.n = n].n = n
           /\ [s EXCEPT !.n = n].slot = s.slot
BY DEF StackType

LEMMA Reslotted ==
    ASSUME NEW s \in StackType, NEW k \in Nat
    PROVE  /\ [s EXCEPT !.slot = k] \in StackType
           /\ [s EXCEPT !.slot = k].id = s.id /\ [s EXCEPT !.slot = k].type = s.type
           /\ [s EXCEPT !.slot = k].n = s.n
           /\ [s EXCEPT !.slot = k].slot = k
BY DEF StackType

\* One stack in place of another.
LEMMA OneReplaced ==
    ASSUME NEW inv \in Seq(StackType), NEW i \in DOMAIN inv, NEW x \in StackType
    PROVE  /\ [inv EXCEPT ![i] = x] \in Seq(StackType)
           /\ DOMAIN [inv EXCEPT ![i] = x] = DOMAIN inv
           /\ [inv EXCEPT ![i] = x][i] = x
           /\ \A j \in DOMAIN inv \ {i} : [inv EXCEPT ![i] = x][j] = inv[j]
OBVIOUS

LEMMA GrownIs ==
    ASSUME NEW inv \in Seq(StackType), NEW i \in DOMAIN inv, NEW n \in Int,
           inv[i].n + n \in Nat
    PROVE  /\ Alike(Grown(inv, i, n), inv)
           /\ SlotsApart(inv) => SlotsApart(Grown(inv, i, n))
           /\ Slots(Grown(inv, i, n)) = Slots(inv)
           /\ \A t : Pieces(Grown(inv, i, n), t)
                       = Pieces(inv, t) + IF inv[i].type = t THEN n ELSE 0
<1> DEFINE x == [inv[i] EXCEPT !.n = @ + n]
           out == [inv EXCEPT ![i] = x]
<1>1. inv[i] \in StackType /\ inv[i].n \in Nat
  <2>1. inv[i] \in StackType
    BY Indexes
  <2> QED BY <2>1 DEF StackType
<1>2. /\ x \in StackType /\ x.id = inv[i].id /\ x.type = inv[i].type
      /\ x.n = inv[i].n + n /\ x.slot = inv[i].slot
  BY <1>1, Renumbered
<1>3. Grown(inv, i, n) = out
  BY DEF Grown
<1> HIDE DEF x
<1>4. /\ out \in Seq(StackType) /\ DOMAIN out = DOMAIN inv /\ out[i] = x
      /\ \A j \in DOMAIN inv \ {i} : out[j] = inv[j]
  BY <1>2, OneReplaced
<1> HIDE DEF out
<1>5. \A j \in DOMAIN inv : /\ out[j].id = inv[j].id /\ out[j].type = inv[j].type
                            /\ out[j].slot = inv[j].slot
  BY <1>2, <1>4
<1>6. Alike(out, inv)
  BY <1>4, <1>5 DEF Alike
<1>7. SlotsApart(inv) => SlotsApart(out)
  BY <1>4, <1>5 DEF SlotsApart
<1>8. Slots(out) = Slots(inv)
  BY <1>4, <1>5 DEF Slots
<1>9. ASSUME NEW t
      PROVE  Pieces(out, t) = Pieces(inv, t) + IF inv[i].type = t THEN n ELSE 0
  <2>1. Pieces(out, t) + (IF inv[i].type = t THEN inv[i].n ELSE 0)
          = Pieces(inv, t) + (IF inv[i].type = t THEN out[i].n ELSE 0)
    BY <1>2, <1>4, PiecesOneChanged
  <2>2. Pieces(out, t) \in Nat /\ Pieces(inv, t) \in Nat
    BY <1>4, PiecesType
  <2>3. out[i].n = inv[i].n + n
    BY <1>2, <1>4
  <2>4. CASE inv[i].type = t
    BY <1>1, <2>1, <2>2, <2>3, <2>4
  <2>5. CASE inv[i].type # t
    BY <2>1, <2>2, <2>5
  <2> QED BY <2>4, <2>5
<1> QED BY <1>3, <1>6, <1>7, <1>8, <1>9

LEMMA MovedToIs ==
    ASSUME NEW inv \in Seq(StackType), NEW i \in DOMAIN inv, NEW k \in Nat
    PROVE  /\ Alike(MovedTo(inv, i, k), inv)
           /\ SlotsApart(inv) /\ k \notin Slots(inv) => SlotsApart(MovedTo(inv, i, k))
           /\ \A t : Pieces(MovedTo(inv, i, k), t) = Pieces(inv, t)
<1> DEFINE x == [inv[i] EXCEPT !.slot = k]
           out == [inv EXCEPT ![i] = x]
<1>1. inv[i] \in StackType
  BY Indexes
<1>2. /\ x \in StackType /\ x.id = inv[i].id /\ x.type = inv[i].type
      /\ x.n = inv[i].n /\ x.slot = k
  BY <1>1, Reslotted
<1>3. MovedTo(inv, i, k) = out
  BY DEF MovedTo
<1> HIDE DEF x
<1>4. /\ out \in Seq(StackType) /\ DOMAIN out = DOMAIN inv /\ out[i] = x
      /\ \A j \in DOMAIN inv \ {i} : out[j] = inv[j]
  BY <1>2, OneReplaced
<1> HIDE DEF out
<1>5. \A j \in DOMAIN inv : /\ out[j].id = inv[j].id /\ out[j].type = inv[j].type
                            /\ out[j].n = inv[j].n
  BY <1>2, <1>4
<1>6. Alike(out, inv)
  BY <1>4, <1>5 DEF Alike
<1>7. SlotsApart(inv) /\ k \notin Slots(inv) => SlotsApart(out)
  <2>1. \A j \in DOMAIN inv : inv[j].slot \in Slots(inv)
    BY DEF Slots
  <2> QED BY <1>2, <1>4, <2>1 DEF SlotsApart
<1>8. \A t : Pieces(out, t) = Pieces(inv, t)
  BY <1>4, <1>5, PiecesSame
<1> QED BY <1>3, <1>6, <1>7, <1>8

\* What is retained stays apart as it was.
LEMMA RetainedKeeps ==
    ASSUME NEW inv \in Seq(StackType), NEW I \in SUBSET DOMAIN inv
    PROVE  /\ Retained(inv, I) \in Seq(StackType)
           /\ SlotsApart(inv) => SlotsApart(Retained(inv, I))
           /\ IdsApart(inv) => IdsApart(Retained(inv, I))
           /\ NilIsCargo(inv) => NilIsCargo(Retained(inv, I))
           /\ \A n \in DOMAIN Retained(inv, I) : \E i \in I : Retained(inv, I)[n] = inv[i]
           /\ \A i \in I : \E n \in DOMAIN Retained(inv, I) : Retained(inv, I)[n] = inv[i]
<1> DEFINE out == Retained(inv, I)
<1>1. out \in Seq(StackType)
  BY RetainedFrom
<1>2. PICK g : /\ \A n \in DOMAIN out : g[n] \in I /\ out[n] = inv[g[n]]
               /\ \A i \in I : \E n \in DOMAIN out : g[n] = i
               /\ \A m, n \in DOMAIN out : m # n => g[m] # g[n]
  BY RetainedFrom
<1> HIDE DEF out
<1>3. SlotsApart(inv) => SlotsApart(out)
  BY <1>2 DEF SlotsApart
<1>4. IdsApart(inv) => IdsApart(out)
  BY <1>2 DEF IdsApart
<1>5. NilIsCargo(inv) => NilIsCargo(out)
  BY <1>2 DEF NilIsCargo
<1> QED BY <1>1, <1>2, <1>3, <1>4, <1>5 DEF out

-----------------------------------------------------------------------------
(***************************************************************************)
(* Shaken                                                                  *)
(***************************************************************************)

\* The slots of the first n stacks are those that Shaken gives them.
Places(slot, inv, n) ==
    slot = [i \in 1..n |-> FreeFrom(inv[i].slot, {slot[j] : j \in 1..(i - 1)})]
Placing(inv) == CHOOSE slot : Places(slot, inv, Len(inv))

LEMMA ShakenIsPlacing ==
    ASSUME NEW inv \in Seq(StackType)
    PROVE  Shaken(inv) =
             [i \in DOMAIN inv |-> [inv[i] EXCEPT !.slot = Placing(inv)[i]]]
<1>1. DOMAIN inv = 1..Len(inv)
  BY Indexes
<1> QED BY <1>1 DEF Shaken, Placing, Places

\* One stack after another finds its slot.
LEMMA PlacingExists ==
    ASSUME NEW inv \in Seq(StackType)
    PROVE  Places(Placing(inv), inv, Len(inv))
<1> DEFINE Free(g, i) == FreeFrom(inv[i].slot, {g[j] : j \in 1..(i - 1)})
           G == {n \in Nat : \E g : Places(g, inv, n)}
<1>1. 0 \in G
  <2> DEFINE g == [i \in 1..0 |-> 0]
  <2>1. Places(g, inv, 0)
    BY DEF Places
  <2> QED BY <2>1
<1>2. ASSUME NEW n \in Nat, n \in G
      PROVE  n + 1 \in G
  <2>1. PICK g : Places(g, inv, n)
    BY <1>2
  <2>2. \A i \in 1..n : g[i] = Free(g, i)
    BY <2>1 DEF Places
  <2> DEFINE h == [i \in 1..(n + 1) |-> IF i = n + 1 THEN Free(g, n + 1) ELSE g[i]]
  <2>3. \A i \in 1..(n + 1) : {h[j] : j \in 1..(i - 1)} = {g[j] : j \in 1..(i - 1)}
    <3>1. \A j \in 1..n : h[j] = g[j]
      OBVIOUS
    <3> HIDE DEF h
    <3>2. \A i \in 1..(n + 1) : \A j \in 1..(i - 1) : h[j] = g[j]
      BY <3>1
    <3> QED BY <3>2
  <2>4. \A i \in 1..(n + 1) : Free(h, i) = Free(g, i)
    BY <2>3
  <2>5. \A i \in 1..(n + 1) : h[i] = Free(h, i)
    <3> HIDE DEF Free
    <3>1. \A i \in 1..(n + 1) : h[i] = Free(g, i)
      BY <2>2
    <3> HIDE DEF h
    <3> QED BY <2>4, <3>1
  <2>6. h = [i \in 1..(n + 1) |-> h[i]]
    OBVIOUS
  <2> HIDE DEF h
  <2>7. h = [i \in 1..(n + 1) |-> Free(h, i)]
    BY <2>5, <2>6
  <2>8. Places(h, inv, n + 1)
    BY <2>7 DEF Places
  <2> QED BY <2>8
<1> HIDE DEF G
<1>3. Nat \subseteq G
  <2>1. \A n \in Nat : n \in G => n + 1 \in G
    BY <1>2
  <2> QED BY <1>1, <2>1, Numbers
<1>4. \E g : Places(g, inv, Len(inv))
  <2>1. Len(inv) \in Nat
    BY Indexes
  <2> QED BY <1>3, <2>1 DEF G
<1> QED BY <1>4 DEF Placing

\* Shaken stacks are in slots of their own, and are otherwise what they were.
LEMMA ShakenIs ==
    ASSUME NEW inv \in Seq(StackType)
    PROVE  /\ Alike(Shaken(inv), inv)
           /\ SlotsApart(Shaken(inv))
           /\ \A t : Pieces(Shaken(inv), t) = Pieces(inv, t)
           /\ \A i \in DOMAIN inv : Shaken(inv)[i].n = inv[i].n
<1> DEFINE slot == Placing(inv)
           n == Len(inv)
           out == Shaken(inv)
           Before(i) == {slot[j] : j \in 1..(i - 1)}
<1>1. n \in Nat /\ DOMAIN inv = 1..n /\ \A i \in DOMAIN inv : inv[i] \in StackType
  BY Indexes
<1>2. \A i \in DOMAIN inv : slot[i] = FreeFrom(inv[i].slot, Before(i))
  <2>1. Places(slot, inv, n)
    BY PlacingExists
  <2> QED BY <1>1, <2>1 DEF Places
<1>3. out = [i \in DOMAIN inv |-> [inv[i] EXCEPT !.slot = slot[i]]]
  BY ShakenIsPlacing
<1> HIDE DEF slot, n, out
<1>4. \A i \in DOMAIN inv : slot[i] \in Nat /\ slot[i] \notin Before(i)
  <2> SUFFICES ASSUME NEW i \in DOMAIN inv
               PROVE  slot[i] \in Nat /\ slot[i] \notin Before(i)
    OBVIOUS
  <2>1. IsFiniteSet(1..(i - 1))
    <3>1. 1 \in Int /\ i - 1 \in Int
      BY <1>1
    <3> QED BY <3>1, FS_Interval, Zenon
  <2>2. IsFiniteSet(Before(i))
    BY <2>1, FewImages
  <2>3. inv[i].slot \in Nat
    BY <1>1 DEF StackType
  <2> HIDE DEF Before
  <2> QED BY <1>2, <2>2, <2>3, FreeFromIs
<1>5. \A i \in DOMAIN inv :
         /\ out[i] \in StackType
         /\ out[i].id = inv[i].id /\ out[i].type = inv[i].type
         /\ out[i].n = inv[i].n /\ out[i].slot = slot[i]
  <2> SUFFICES ASSUME NEW i \in DOMAIN inv
               PROVE  /\ out[i] \in StackType
                      /\ out[i].id = inv[i].id /\ out[i].type = inv[i].type
                      /\ out[i].n = inv[i].n /\ out[i].slot = slot[i]
    OBVIOUS
  <2>1. out[i] = [inv[i] EXCEPT !.slot = slot[i]]
    BY <1>3
  <2>2. inv[i] \in StackType /\ slot[i] \in Nat
    BY <1>1, <1>4
  <2> QED BY <2>1, <2>2, Reslotted
<1>6. DOMAIN out = 1..n /\ out \in Seq(StackType)
  <2>1. out = [i \in 1..n |-> out[i]]
    BY <1>1, <1>3
  <2>2. out \in [1..n -> StackType]
    BY <1>1, <1>5, <2>1
  <2> QED BY <1>1, <2>2
<1>7. Alike(out, inv)
  BY <1>1, <1>5, <1>6 DEF Alike
<1>8. SlotsApart(out)
  <2>1. ASSUME NEW i \in DOMAIN inv, NEW j \in DOMAIN inv, j < i
        PROVE  slot[j] # slot[i]
    <3>1. j \in 1..(i - 1)
      BY <1>1, <2>1
    <3> QED BY <1>4, <3>1
  <2>2. \A i, j \in DOMAIN inv : i # j => slot[j] # slot[i]
    <3>1. \A i, j \in DOMAIN inv : i # j => i < j \/ j < i
      BY <1>1
    <3> QED BY <2>1, <3>1
  <2> QED BY <1>1, <1>5, <1>6, <2>2 DEF SlotsApart
<1>9. \A t : Pieces(out, t) = Pieces(inv, t)
  BY <1>1, <1>5, <1>6, PiecesSame
<1> QED BY <1>5, <1>7, <1>8, <1>9 DEF out

-----------------------------------------------------------------------------
(***************************************************************************)
(* Grouped                                                                 *)
(***************************************************************************)

\* The first stack of a type is the only one of its type that is a first.
LEMMA OneFirst ==
    ASSUME NEW inv \in Seq(StackType), NEW t, OfType(inv, t) # {}
    PROVE  /\ Min(OfType(inv, t)) \in OfType(inv, t)
           /\ Firsts(inv) \cap OfType(inv, t) = {Min(OfType(inv, t))}
<1> DEFINE I == OfType(inv, t)
           m == Min(I)
<1>1. Len(inv) \in Nat /\ DOMAIN inv = 1..Len(inv)
  BY Indexes
<1>2. I \in SUBSET Nat /\ I \subseteq DOMAIN inv
  BY <1>1 DEF OfType
<1>3. m \in I /\ \A i \in I : m <= i
  <2> HIDE DEF I
  <2> QED BY <1>2, MinIs DEF I
<1>4. m \in Firsts(inv)
  <2>1. \A j \in 1..(m - 1) : j \in DOMAIN inv /\ j \notin I
    BY <1>1, <1>2, <1>3
  <2>2. \A j \in 1..(m - 1) : inv[j].type # t
    BY <2>1 DEF OfType
  <2>3. m \in DOMAIN inv /\ inv[m].type = t
    BY <1>3 DEF OfType
  <2> HIDE DEF m, I
  <2> QED BY <2>2, <2>3 DEF Firsts
<1>5. ASSUME NEW i \in Firsts(inv) \cap I
      PROVE  i = m
  <2>1. m \in Nat /\ i \in Nat /\ m <= i /\ 1 <= m
    BY <1>1, <1>2, <1>3
  <2>2. inv[m].type = inv[i].type
    BY <1>3 DEF OfType
  <2> HIDE DEF m
  <2>3. m \notin 1..(i - 1)
    BY <2>2 DEF Firsts
  <2> QED BY <2>1, <2>3
<1> QED BY <1>3, <1>4, <1>5

\* Grouping moves pieces and loses none; stacks that were apart are apart.
LEMMA GroupedIs ==
    ASSUME NEW inv \in Seq(StackType)
    PROVE  /\ Grouped(inv) \in Seq(StackType)
           /\ \A t : Pieces(Grouped(inv), t) = Pieces(inv, t)
           /\ SlotsApart(inv) => SlotsApart(Grouped(inv))
           /\ IdsApart(inv) => IdsApart(Grouped(inv))
           /\ NilIsCargo(inv) => NilIsCargo(Grouped(inv))
           /\ NoneNil(inv) => NoneNil(Grouped(inv))
           /\ \A n \in DOMAIN Grouped(inv) :
                 \E i \in DOMAIN inv : Grouped(inv)[n].type = inv[i].type
<1> DEFINE all == [i \in DOMAIN inv |-> [inv[i] EXCEPT !.n = Pieces(inv, inv[i].type)]]
           n == Len(inv)
           I == Firsts(inv)
<1>1. n \in Nat /\ DOMAIN inv = 1..n /\ \A i \in DOMAIN inv : inv[i] \in StackType
  BY Indexes
<1>2. I \in SUBSET DOMAIN inv
  BY DEF Firsts
<1>3. Grouped(inv) = Retained(all, I)
  BY DEF Grouped
<1>4. \A i \in DOMAIN inv : /\ all[i] \in StackType
                            /\ all[i].id = inv[i].id /\ all[i].type = inv[i].type
                            /\ all[i].n = Pieces(inv, inv[i].type)
                            /\ all[i].slot = inv[i].slot
  <2>1. \A i \in DOMAIN inv : inv[i] \in StackType /\ Pieces(inv, inv[i].type) \in Nat
    BY <1>1, PiecesType
  <2>2. \A i \in DOMAIN inv : all[i] = [inv[i] EXCEPT !.n = Pieces(inv, inv[i].type)]
    OBVIOUS
  <2> HIDE DEF all
  <2> SUFFICES ASSUME NEW i \in DOMAIN inv
               PROVE  /\ all[i] \in StackType
                      /\ all[i].id = inv[i].id /\ all[i].type = inv[i].type
                      /\ all[i].n = Pieces(inv, inv[i].type)
                      /\ all[i].slot = inv[i].slot
    OBVIOUS
  <2> DEFINE c == Pieces(inv, inv[i].type)
  <2>3. c \in Nat /\ inv[i] \in StackType /\ all[i] = [inv[i] EXCEPT !.n = c]
    BY <2>1, <2>2
  <2> HIDE DEF c
  <2>4. /\ all[i] \in StackType
        /\ all[i].id = inv[i].id /\ all[i].type = inv[i].type
        /\ all[i].n = c
        /\ all[i].slot = inv[i].slot
    BY <2>3, Renumbered
  <2> QED BY <2>4 DEF c
<1>5. DOMAIN all = DOMAIN inv /\ all \in Seq(StackType)
  <2>1. all = [i \in 1..n |-> all[i]]
    BY <1>1
  <2> HIDE DEF all
  <2>2. all \in [1..n -> StackType]
    BY <1>1, <1>4, <2>1
  <2> QED BY <1>1, <2>2
<1> HIDE DEF all, I, n
<1>6. I \in SUBSET DOMAIN all
  BY <1>2, <1>5
<1>7. Alike(all, inv)
  BY <1>4, <1>5 DEF Alike
<1>8. SlotsApart(inv) => SlotsApart(all)
  BY <1>4, <1>5 DEF SlotsApart
<1> DEFINE out == Retained(all, I)
<1>9. /\ out \in Seq(StackType)
      /\ SlotsApart(all) => SlotsApart(out)
      /\ IdsApart(all) => IdsApart(out)
      /\ NilIsCargo(all) => NilIsCargo(out)
      /\ \A k \in DOMAIN out : \E i \in I : out[k] = all[i]
  BY <1>5, <1>6, RetainedKeeps
<1>10. ASSUME NEW t
       PROVE  Pieces(out, t) = Pieces(inv, t)
  <2>1. Pieces(out, t) = SumFunctionOnSet(Counts(all), I \cap OfType(all, t))
    BY <1>5, <1>6, PiecesRetained
  <2>2. OfType(all, t) = OfType(inv, t)
    BY <1>7, AlikeKeeps
  <2>3. CASE OfType(inv, t) = {}
    <3>1. Pieces(inv, t) = 0
      BY <2>3, PiecesType, SumOfNone
    <3>2. I \cap OfType(all, t) = {}
      BY <2>2, <2>3
    <3> QED BY <2>1, <3>1, <3>2, SumOfNone
  <2>4. CASE OfType(inv, t) # {}
    <3> DEFINE m == Min(OfType(inv, t))
    <3>1. m \in OfType(inv, t) /\ I \cap OfType(inv, t) = {m}
      BY <2>4, OneFirst DEF I
    <3> HIDE DEF m
    <3>2. m \in DOMAIN inv /\ inv[m].type = t
      BY <3>1 DEF OfType
    <3>3. Counts(all)[m] = Pieces(inv, t) /\ Pieces(inv, t) \in Nat
      BY <1>4, <1>5, <3>2, PiecesType DEF Counts
    <3>4. SumFunctionOnSet(Counts(all), {} \cup {m})
            = Counts(all)[m] + SumFunctionOnSet(Counts(all), {})
      <4>1. IsFiniteSet({}) /\ m \notin {}
        BY FS_EmptySet
      <4>2. Natural(Counts(all), {})
        BY DEF Natural
      <4>3. Counts(all)[m] \in Nat
        BY <3>3
      <4> QED BY <4>1, <4>2, <4>3, SumAdd
    <3>5. {} \cup {m} = {m}
      OBVIOUS
    <3>6. SumFunctionOnSet(Counts(all), {}) = 0
      BY SumOfNone
    <3>7. SumFunctionOnSet(Counts(all), {m}) = Pieces(inv, t)
      BY <3>3, <3>4, <3>5, <3>6
    <3>8. I \cap OfType(all, t) = {m}
      BY <2>2, <3>1
    <3> HIDE DEF out
    <3> QED BY <2>1, <3>7, <3>8
  <2> QED BY <2>3, <2>4
<1>11. NoneNil(inv) => NoneNil(out)
  BY <1>2, <1>4, <1>9 DEF NoneNil
<1>12. \A k \in DOMAIN out : \E i \in DOMAIN inv : out[k].type = inv[i].type
  BY <1>2, <1>4, <1>9
<1> HIDE DEF out
<1>13. /\ IdsApart(inv) => IdsApart(all)
       /\ NilIsCargo(inv) => NilIsCargo(all)
  BY <1>7, AlikeKeeps
<1> QED BY <1>3, <1>8, <1>9, <1>10, <1>11, <1>12, <1>13 DEF out

-----------------------------------------------------------------------------
(***************************************************************************)
(* The operations on an inventory                                          *)
(***************************************************************************)

\* A stack of an inventory that is there.
LEMMA FirstOf ==
    ASSUME NEW inv \in Seq(StackType), NEW I \in SUBSET DOMAIN inv, I # {}
    PROVE  /\ Min(I) \in I /\ Min(I) \in DOMAIN inv
           /\ inv[Min(I)] \in StackType /\ inv[Min(I)].n \in Nat
<1>1. Len(inv) \in Nat /\ DOMAIN inv = 1..Len(inv) /\ \A i \in DOMAIN inv : inv[i] \in StackType
  BY Indexes
<1>2. I \in SUBSET Nat
  BY <1>1
<1>3. Min(I) \in I
  BY <1>2, MinIs
<1>4. inv[Min(I)] \in StackType /\ Min(I) \in DOMAIN inv
  BY <1>1, <1>3
<1>5. inv[Min(I)].n \in Nat
  BY <1>4 DEF StackType
<1> QED BY <1>3, <1>4, <1>5

\* A stack behind the others.
LEMMA AppendKeeps ==
    ASSUME NEW inv \in Seq(StackType), NEW x \in StackType
    PROVE  /\ Append(inv, x) \in Seq(StackType)
           /\ SlotsApart(inv) /\ x.slot \notin Slots(inv) => SlotsApart(Append(inv, x))
           /\ IdsApart(inv) /\ x.id \notin Ids(inv) => IdsApart(Append(inv, x))
           /\ NilIsCargo(inv) /\ (x.id = Nil => x.type = "cargo")
                => NilIsCargo(Append(inv, x))
           /\ NoneNil(inv) /\ x.id # Nil => NoneNil(Append(inv, x))
<1> DEFINE out == Append(inv, x)
           k == Len(inv) + 1
<1>1. Len(inv) \in Nat /\ DOMAIN inv = 1..Len(inv)
  BY Indexes
<1>2. /\ out \in Seq(StackType) /\ DOMAIN out = DOMAIN inv \cup {k} /\ k \notin DOMAIN inv
      /\ out[k] = x /\ \A i \in DOMAIN inv : out[i] = inv[i]
  BY <1>1
<1> HIDE DEF out, k
<1>3. SlotsApart(inv) /\ x.slot \notin Slots(inv) => SlotsApart(out)
  BY <1>2 DEF SlotsApart, Slots
<1>4. IdsApart(inv) /\ x.id \notin Ids(inv) => IdsApart(out)
  BY <1>2 DEF IdsApart, Ids
<1>5. NilIsCargo(inv) /\ (x.id = Nil => x.type = "cargo") => NilIsCargo(out)
  BY <1>2 DEF NilIsCargo
<1>6. NoneNil(inv) /\ x.id # Nil => NoneNil(out)
  BY <1>2 DEF NoneNil
<1> QED BY <1>2, <1>3, <1>4, <1>5, <1>6 DEF out

\* add_item adds what is added, to whatever is there.
LEMMA AddItemIs ==
    ASSUME NEW inv \in Seq(StackType), NEW x \in StackType
    PROVE  /\ AddItem(inv, x) \in Seq(StackType)
           /\ SlotsApart(AddItem(inv, x))
           /\ \A t : Pieces(AddItem(inv, x), t)
                       = Pieces(inv, t) + IF x.type = t THEN x.n ELSE 0
           /\ IdsApart(inv) /\ (OfType(inv, x.type) = {} => x.id \notin Ids(inv))
                => IdsApart(AddItem(inv, x))
           /\ NilIsCargo(inv) /\ (x.id = Nil => x.type = "cargo")
                => NilIsCargo(AddItem(inv, x))
           /\ NoneNil(inv) /\ x.id # Nil => NoneNil(AddItem(inv, x))
<1> DEFINE I == OfType(inv, x.type)
           more == IF I = {} THEN Append(inv, x) ELSE Grown(inv, Min(I), x.n)
<1>0. x.n \in Nat
  BY DEF StackType
<1>1. /\ more \in Seq(StackType)
      /\ \A t : Pieces(more, t) = Pieces(inv, t) + IF x.type = t THEN x.n ELSE 0
      /\ IdsApart(inv) /\ (I = {} => x.id \notin Ids(inv)) => IdsApart(more)
      /\ NilIsCargo(inv) /\ (x.id = Nil => x.type = "cargo") => NilIsCargo(more)
      /\ NoneNil(inv) /\ x.id # Nil => NoneNil(more)
  <2>1. CASE I = {}
    <3>1. more = Append(inv, x)
      BY <2>1
    <3>2. \A t : Pieces(Append(inv, x), t) = Pieces(inv, t) + IF x.type = t THEN x.n ELSE 0
      BY PiecesAppend
    <3> HIDE DEF more, I
    <3> QED BY <2>1, <3>1, <3>2, AppendKeeps
  <2>2. CASE I # {}
    <3> DEFINE i == Min(I)
    <3>1. I \in SUBSET DOMAIN inv
      BY DEF OfType
    <3>2. i \in I /\ i \in DOMAIN inv /\ inv[i].n \in Nat
      <4> HIDE DEF I
      <4> QED BY <2>2, <3>1, FirstOf
    <3>3. inv[i].type = x.type
      BY <3>2 DEF OfType
    <3>4. more = Grown(inv, i, x.n)
      BY <2>2
    <3> HIDE DEF more, I, i
    <3>5. x.n \in Int /\ inv[i].n + x.n \in Nat
      BY <1>0, <3>2
    <3>6. /\ Alike(Grown(inv, i, x.n), inv)
          /\ \A t : Pieces(Grown(inv, i, x.n), t)
                      = Pieces(inv, t) + IF inv[i].type = t THEN x.n ELSE 0
      BY <3>2, <3>5, GrownIs
    <3>7. Alike(more, inv) /\ more \in Seq(StackType)
      BY <3>4, <3>6 DEF Alike
    <3>8. \A t : Pieces(more, t) = Pieces(inv, t) + IF x.type = t THEN x.n ELSE 0
      BY <3>3, <3>4, <3>6
    <3> QED BY <3>7, <3>8, AlikeKeeps
  <2> QED BY <2>1, <2>2
<1>2. AddItem(inv, x) = Shaken(more)
  BY DEF AddItem
<1> HIDE DEF more, I
<1>3. /\ Alike(Shaken(more), more) /\ SlotsApart(Shaken(more))
      /\ \A t : Pieces(Shaken(more), t) = Pieces(more, t)
  BY <1>1, ShakenIs
<1>4. /\ Shaken(more) \in Seq(StackType)
      /\ IdsApart(more) => IdsApart(Shaken(more))
      /\ NilIsCargo(more) => NilIsCargo(Shaken(more))
      /\ NoneNil(more) => NoneNil(Shaken(more))
  BY <1>3, AlikeKeeps DEF Alike
<1>5. \A t : Pieces(Shaken(more), t) = Pieces(inv, t) + IF x.type = t THEN x.n ELSE 0
  BY <1>1, <1>3
<1> QED BY <1>1, <1>2, <1>3, <1>4, <1>5 DEF I

\* What consume_items_of_type leaves: nothing of the type, all that has an id
\* of the other types.
LEMMA LeftIs ==
    ASSUME NEW inv \in Seq(StackType), NEW t
    PROVE  /\ Left(inv, t) \in Seq(StackType)
           /\ SlotsApart(inv) => SlotsApart(Left(inv, t))
           /\ IdsApart(inv) => IdsApart(Left(inv, t))
           /\ NilIsCargo(inv) => NilIsCargo(Left(inv, t))
           /\ NoneNil(Left(inv, t))
           /\ Pieces(Left(inv, t), t) = 0
           /\ \A u : Pieces(Left(inv, t), u) <= Pieces(inv, u)
           /\ \A u : u # t /\ (\A i \in OfType(inv, u) : inv[i].id # Nil)
                       => Pieces(Left(inv, t), u) = Pieces(inv, u)
<1> DEFINE I == {i \in DOMAIN inv : inv[i].type # t /\ inv[i].id # Nil}
           kept == Retained(inv, I)
<1>1. I \in SUBSET DOMAIN inv
  OBVIOUS
<1>2. Left(inv, t) = Grouped(kept)
  BY DEF Left
<1>3. \A i \in I : inv[i].id # Nil /\ inv[i].type # t
  OBVIOUS
<1>4. I \cap OfType(inv, t) = {}
  BY DEF OfType
<1>5. \A u : u # t /\ (\A i \in OfType(inv, u) : inv[i].id # Nil)
               => OfType(inv, u) \ I = {}
  BY DEF OfType
<1> HIDE DEF I, kept
<1>6. /\ kept \in Seq(StackType)
      /\ SlotsApart(inv) => SlotsApart(kept)
      /\ IdsApart(inv) => IdsApart(kept)
      /\ NilIsCargo(inv) => NilIsCargo(kept)
      /\ \A n \in DOMAIN kept : \E i \in I : kept[n] = inv[i]
  BY <1>1, RetainedKeeps DEF kept
<1>7. NoneNil(kept)
  BY <1>3, <1>6 DEF NoneNil
<1>8. /\ \A u : Pieces(kept, u) <= Pieces(inv, u)
      /\ \A u : (\A i \in OfType(inv, u) \ I : inv[i].n = 0)
                  => Pieces(kept, u) = Pieces(inv, u)
      /\ I \cap OfType(inv, t) = {} => Pieces(kept, t) = 0
  BY <1>1, PiecesDropped DEF kept
<1>9. \A u : u # t /\ (\A i \in OfType(inv, u) : inv[i].id # Nil)
               => Pieces(kept, u) = Pieces(inv, u)
  BY <1>5, <1>8
<1>10. /\ Grouped(kept) \in Seq(StackType)
       /\ \A u : Pieces(Grouped(kept), u) = Pieces(kept, u)
       /\ SlotsApart(kept) => SlotsApart(Grouped(kept))
       /\ IdsApart(kept) => IdsApart(Grouped(kept))
       /\ NilIsCargo(kept) => NilIsCargo(Grouped(kept))
       /\ NoneNil(kept) => NoneNil(Grouped(kept))
  BY <1>6, GroupedIs
<1>11. Pieces(Grouped(kept), t) = 0
  BY <1>4, <1>8, <1>10
<1>12. \A u : Pieces(Grouped(kept), u) <= Pieces(inv, u)
  BY <1>8, <1>10
<1>13. \A u : u # t /\ (\A i \in OfType(inv, u) : inv[i].id # Nil)
                => Pieces(Grouped(kept), u) = Pieces(inv, u)
  BY <1>9, <1>10
<1> QED BY <1>2, <1>6, <1>7, <1>10, <1>11, <1>12, <1>13

\* And what it takes.
LEMMA TakenIs ==
    ASSUME NEW inv \in Seq(StackType), NEW t, Has(inv, t), NEW id \in Nat
    PROVE  /\ Taken(inv, t, id) \in StackType
           /\ Taken(inv, t, id).id = id /\ Taken(inv, t, id).type = t
           /\ Taken(inv, t, id).n = Pieces(inv, t)
<1> DEFINE i == Min(OfType(inv, t))
           c == Pieces(inv, t)
<1>1. OfType(inv, t) \in SUBSET DOMAIN inv /\ OfType(inv, t) # {}
  BY DEF OfType, Has
<1>2. i \in OfType(inv, t) /\ inv[i] \in StackType
  BY <1>1, FirstOf
<1>3. inv[i].type = t
  BY <1>2 DEF OfType
<1>4. c \in Nat
  BY PiecesType
<1>5. Taken(inv, t, id) = [inv[i] EXCEPT !.n = c, !.id = id]
  BY DEF Taken
<1> HIDE DEF i, c
<1> DEFINE s == inv[i]
<1>6. s \in StackType /\ s.type = t
  BY <1>2, <1>3
<1> HIDE DEF s
<1>7. [s EXCEPT !.n = c, !.id = id] \in StackType
  BY <1>4, <1>6 DEF StackType
<1>8. /\ [s EXCEPT !.n = c, !.id = id].id = id
      /\ [s EXCEPT !.n = c, !.id = id].type = t
      /\ [s EXCEPT !.n = c, !.id = id].n = c
  BY <1>6 DEF StackType
<1> QED BY <1>5, <1>7, <1>8 DEF s, c

\* A stack that is taken out by its index.
LEMMA WithoutFirstIs ==
    ASSUME NEW inv \in Seq(StackType), NEW I \in SUBSET DOMAIN inv, I # {}
    PROVE  /\ WithoutFirst(inv, I) \in Seq(StackType)
           /\ SlotsApart(inv) => SlotsApart(WithoutFirst(inv, I))
           /\ IdsApart(inv) => IdsApart(WithoutFirst(inv, I))
           /\ NilIsCargo(inv) => NilIsCargo(WithoutFirst(inv, I))
           /\ \A n \in DOMAIN WithoutFirst(inv, I) :
                 \E i \in DOMAIN inv : WithoutFirst(inv, I)[n] = inv[i]
           /\ \A i \in DOMAIN inv : i # Min(I) =>
                 \E n \in DOMAIN WithoutFirst(inv, I) : WithoutFirst(inv, I)[n] = inv[i]
           /\ \A t : Pieces(WithoutFirst(inv, I), t)
                       + (IF inv[Min(I)].type = t THEN inv[Min(I)].n ELSE 0) = Pieces(inv, t)
<1> DEFINE m == Min(I)
           J == DOMAIN inv \ {m}
           out == Retained(inv, J)
<1>1. m \in DOMAIN inv /\ inv[m].n \in Nat
  BY FirstOf
<1>2. WithoutFirst(inv, I) = out
  BY DEF WithoutFirst
<1>3. J \in SUBSET DOMAIN inv
  OBVIOUS
<1>4. /\ \A t : inv[m].type = t => OfType(inv, t) \ J = {m} /\ m \in OfType(inv, t)
      /\ \A t : inv[m].type # t => OfType(inv, t) \ J = {}
  BY <1>1 DEF OfType
<1>5. \A i \in DOMAIN inv : i # m => i \in J
  OBVIOUS
<1> HIDE DEF m, J
<1>6. /\ out \in Seq(StackType)
      /\ SlotsApart(inv) => SlotsApart(out)
      /\ IdsApart(inv) => IdsApart(out)
      /\ NilIsCargo(inv) => NilIsCargo(out)
      /\ \A n \in DOMAIN out : \E i \in J : out[n] = inv[i]
      /\ \A i \in J : \E n \in DOMAIN out : out[n] = inv[i]
  BY <1>3, RetainedKeeps
<1>7. ASSUME NEW t
      PROVE  Pieces(out, t) + (IF inv[m].type = t THEN inv[m].n ELSE 0) = Pieces(inv, t)
  <2>1. CASE inv[m].type = t
    <3>1. OfType(inv, t) \ J = {m} /\ m \in OfType(inv, t)
      BY <1>4, <2>1
    <3>2. Pieces(out, t) + inv[m].n = Pieces(inv, t)
      BY <1>3, <3>1, PiecesDropped
    <3> QED BY <2>1, <3>2
  <2>2. CASE inv[m].type # t
    <3>1. OfType(inv, t) \ J = {}
      BY <1>4, <2>2
    <3>2. \A i \in OfType(inv, t) \ J : inv[i].n = 0
      BY <3>1
    <3>3. Pieces(out, t) = Pieces(inv, t)
      BY <1>3, <3>2, PiecesDropped
    <3>4. Pieces(inv, t) \in Nat
      BY PiecesType
    <3> QED BY <2>2, <3>3, <3>4
  <2> QED BY <2>1, <2>2
<1>8. \A n \in DOMAIN out : \E i \in DOMAIN inv : out[n] = inv[i]
  BY <1>3, <1>6
<1>9. \A i \in DOMAIN inv : i # m => \E n \in DOMAIN out : out[n] = inv[i]
  BY <1>5, <1>6
<1> HIDE DEF out
<1> QED BY <1>2, <1>6, <1>7, <1>8, <1>9 DEF m

\* A merge moves the pieces, or drops them when the other stack is gone.
LEMMA MergedIs ==
    ASSUME NEW inv \in Seq(StackType), NEW from \in Ids(inv), NEW to,
           Mergeable(inv, from, to)
    PROVE  /\ Merged(inv, from, to) \in Seq(StackType)
           /\ SlotsApart(inv) => SlotsApart(Merged(inv, from, to))
           /\ IdsApart(inv) => IdsApart(Merged(inv, from, to))
           /\ NilIsCargo(inv) => NilIsCargo(Merged(inv, from, to))
           /\ \A t : Pieces(Merged(inv, from, to), t) <= Pieces(inv, t)
           /\ \A t : to \in Ids(inv) => Pieces(Merged(inv, from, to), t) = Pieces(inv, t)
<1> DEFINE F == WithId(inv, from)
           moved == inv[Min(F)]
           others == WithoutFirst(inv, F)
           I == WithId(others, to)
           out == Merged(inv, from, to)
<1>1. F \in SUBSET DOMAIN inv /\ F # {}
  BY DEF WithId, Ids
<1>2. Min(F) \in F /\ Min(F) \in DOMAIN inv /\ moved.n \in Nat
  BY <1>1, FirstOf
<1>3. moved.id = from
  BY <1>2 DEF WithId
<1>4. out = IF I = {} THEN others ELSE Grown(others, Min(I), moved.n)
  BY DEF Merged
<1>5. from # to /\ \A i, j \in DOMAIN inv : inv[i].id = from /\ inv[j].id = to
                                               => inv[i].type = inv[j].type
  BY DEF Mergeable
<1> HIDE DEF out, F
<1>6. /\ others \in Seq(StackType)
      /\ SlotsApart(inv) => SlotsApart(others)
      /\ IdsApart(inv) => IdsApart(others)
      /\ NilIsCargo(inv) => NilIsCargo(others)
      /\ \A n \in DOMAIN others : \E i \in DOMAIN inv : others[n] = inv[i]
      /\ \A i \in DOMAIN inv : i # Min(F) => \E n \in DOMAIN others : others[n] = inv[i]
      /\ \A t : Pieces(others, t) + (IF moved.type = t THEN moved.n ELSE 0) = Pieces(inv, t)
  BY <1>1, WithoutFirstIs
<1> HIDE DEF others
<1>7. I \in SUBSET DOMAIN others /\ \A i \in I : others[i].id = to
  BY DEF WithId
<1>8. to \in Ids(inv) => I # {}
  <2> SUFFICES ASSUME to \in Ids(inv)
               PROVE  I # {}
    OBVIOUS
  <2>1. PICK i \in DOMAIN inv : inv[i].id = to
    BY DEF Ids
  <2>2. i # Min(F)
    BY <1>3, <1>5, <2>1
  <2>3. PICK n \in DOMAIN others : others[n] = inv[i]
    BY <1>6, <2>2
  <2>4. n \in I
    BY <2>1, <2>3 DEF WithId
  <2> QED BY <2>4
<1>9. \A t : Pieces(others, t) \in Nat /\ Pieces(inv, t) \in Nat
  BY <1>6, PiecesType
<1>10. CASE I = {}
  <2>1. out = others
    BY <1>4, <1>10
  <2>2. ASSUME NEW t
        PROVE  Pieces(others, t) <= Pieces(inv, t)
    <3>1. CASE moved.type = t
      <4>1. Pieces(others, t) + moved.n = Pieces(inv, t)
        BY <1>6, <3>1
      <4> HIDE DEF moved
      <4> QED BY <1>2, <1>9, <4>1
    <3>2. CASE moved.type # t
      <4>1. Pieces(others, t) + 0 = Pieces(inv, t)
        BY <1>6, <3>2
      <4> QED BY <1>9, <4>1
    <3> QED BY <3>1, <3>2
  <2> QED BY <1>6, <1>8, <1>10, <2>1, <2>2 DEF out
<1>11. CASE I # {}
  <2> DEFINE k == Min(I)
  <2>1. k \in I /\ k \in DOMAIN others /\ others[k].n \in Nat
    <3> HIDE DEF I
    <3> QED BY <1>6, <1>7, <1>11, FirstOf
  <2>2. out = Grown(others, k, moved.n)
    BY <1>4, <1>11
  <2> HIDE DEF k, I
  <2>3. others[k].type = moved.type
    <3>1. PICK j \in DOMAIN inv : others[k] = inv[j]
      BY <1>6, <2>1
    <3>2. inv[j].id = to
      BY <1>7, <2>1, <3>1
    <3> QED BY <1>2, <1>3, <1>5, <3>1, <3>2
  <2>4. /\ Alike(out, others)
        /\ SlotsApart(others) => SlotsApart(out)
        /\ \A t : Pieces(out, t)
                    = Pieces(others, t) + IF others[k].type = t THEN moved.n ELSE 0
    <3> DEFINE n == moved.n
    <3>1. n \in Int /\ others[k].n + n \in Nat
      BY <1>2, <2>1
    <3> HIDE DEF n
    <3>2. /\ Alike(Grown(others, k, n), others)
          /\ SlotsApart(others) => SlotsApart(Grown(others, k, n))
          /\ \A t : Pieces(Grown(others, k, n), t)
                      = Pieces(others, t) + IF others[k].type = t THEN n ELSE 0
      BY <1>6, <2>1, <3>1, GrownIs
    <3> QED BY <2>2, <3>2 DEF n
  <2>5. \A t : Pieces(out, t) = Pieces(inv, t)
    BY <1>6, <2>3, <2>4
  <2>6. /\ out \in Seq(StackType)
        /\ IdsApart(others) => IdsApart(out)
        /\ NilIsCargo(others) => NilIsCargo(out)
    BY <2>4, AlikeKeeps DEF Alike
  <2>7. \A t : Pieces(out, t) <= Pieces(inv, t)
    BY <1>9, <2>5
  <2> QED BY <1>6, <2>4, <2>5, <2>6, <2>7 DEF out
<1> QED BY <1>10, <1>11

\* A split makes two stacks of one.
SplitUp(inv, i, count) == Append(Grown(inv, i, -count), SplitOff(inv, i, count))

LEMMA SplitUpIs ==
    ASSUME NEW inv \in Seq(StackType), NEW i \in DOMAIN inv, NEW count \in Nat,
           inv[i].n > count
    PROVE  /\ SplitUp(inv, i, count) \in Seq(StackType)
           /\ SlotsApart(inv) => SlotsApart(SplitUp(inv, i, count))
           /\ IdsApart(inv) => IdsApart(SplitUp(inv, i, count))
           /\ NilIsCargo(inv) => NilIsCargo(SplitUp(inv, i, count))
           /\ \A t : Pieces(SplitUp(inv, i, count), t) = Pieces(inv, t)
<1> DEFINE less == Grown(inv, i, -count)
           id == NewId(inv)
           slot == FreeFrom(inv[i].slot + 1, Slots(inv))
           x == SplitOff(inv, i, count)
           s == inv[i]
<1>1. s \in StackType /\ s.n \in Nat /\ s.slot + 1 \in Nat
  <2>1. s \in StackType
    BY Indexes
  <2> QED BY <2>1 DEF StackType
<1>2. id \in Nat \ {Nil} /\ id \notin Ids(inv)
  BY NewIdIs
<1>3. slot \in Nat /\ slot \notin Slots(inv)
  <2> DEFINE f == [j \in DOMAIN inv |-> inv[j].slot]
  <2>1. IsFiniteSet(DOMAIN inv)
    BY Indexes
  <2>2. Slots(inv) = {f[j] : j \in DOMAIN inv}
    BY DEF Slots
  <2> HIDE DEF f
  <2>3. IsFiniteSet(Slots(inv))
    BY <2>1, <2>2, FewImages
  <2> QED BY <1>1, <2>3, FreeFromIs
<1>4. x = [s EXCEPT !.id = id, !.n = count, !.slot = slot]
  BY DEF SplitOff
<1> HIDE DEF s, id, slot, x
<1>5. x \in StackType
  BY <1>1, <1>2, <1>3, <1>4 DEF StackType
<1>6. x.id = id /\ x.type = s.type /\ x.n = count /\ x.slot = slot
  BY <1>1, <1>4 DEF StackType
<1>7. /\ Alike(less, inv)
      /\ SlotsApart(inv) => SlotsApart(less)
      /\ Slots(less) = Slots(inv)
      /\ \A t : Pieces(less, t) = Pieces(inv, t) + IF s.type = t THEN -count ELSE 0
  <2>1. -count \in Int /\ inv[i].n + (-count) \in Nat
    BY <1>1 DEF s
  <2> QED BY <2>1, GrownIs DEF s
<1> HIDE DEF less
<1>8. /\ less \in Seq(StackType) /\ Ids(less) = Ids(inv)
      /\ IdsApart(inv) => IdsApart(less)
      /\ NilIsCargo(inv) => NilIsCargo(less)
  BY <1>7, AlikeKeeps DEF Alike
<1>9. SplitUp(inv, i, count) = Append(less, x)
  BY DEF SplitUp, less, x
<1>10. /\ Append(less, x) \in Seq(StackType)
       /\ SlotsApart(less) => SlotsApart(Append(less, x))
       /\ IdsApart(less) => IdsApart(Append(less, x))
       /\ NilIsCargo(less) => NilIsCargo(Append(less, x))
  BY <1>2, <1>3, <1>5, <1>6, <1>7, <1>8, AppendKeeps
<1>11. ASSUME NEW t
       PROVE  Pieces(Append(less, x), t) = Pieces(inv, t)
  <2>1. Pieces(Append(less, x), t) = Pieces(less, t) + IF x.type = t THEN x.n ELSE 0
    BY <1>5, <1>8, PiecesAppend
  <2>2. Pieces(inv, t) \in Nat
    BY PiecesType
  <2>3. CASE s.type = t
    <3>1. Pieces(less, t) = Pieces(inv, t) + (-count)
      BY <1>7, <2>3
    <3>2. Pieces(Append(less, x), t) = Pieces(less, t) + count
      BY <1>6, <2>1, <2>3
    <3> QED BY <2>2, <3>1, <3>2
  <2>4. CASE s.type # t
    <3>1. Pieces(less, t) = Pieces(inv, t) + 0
      BY <1>7, <2>4
    <3>2. Pieces(Append(less, x), t) = Pieces(less, t) + 0
      BY <1>6, <2>1, <2>4
    <3> QED BY <2>2, <3>1, <3>2
  <2> QED BY <2>3, <2>4
<1> QED BY <1>7, <1>8, <1>9, <1>10, <1>11

\* Events of the market: they set the quantity of goods, and remove stacks.
LEMMA SetQuantityIs ==
    ASSUME NEW inv \in Seq(StackType), NoneNil(inv), NEW t \in Goods, NEW n \in Nat
    PROVE  /\ SetQuantity(inv, t, n) \in Seq(StackType)
           /\ NoneNil(SetQuantity(inv, t, n))
           /\ Pieces(SetQuantity(inv, t, n), "cargo") = Pieces(inv, "cargo")
<1> DEFINE I == OfType(inv, t)
           x == Stack(NewId(inv), t, n, 0)
           out == SetQuantity(inv, t, n)
<1>1. t \in Type /\ t # "cargo" /\ MaxQuests \in Nat
  BY CargoAssumption DEF Type
<1>2. out = IF I = {} THEN Append(inv, x) ELSE [inv EXCEPT ![Max(I)].n = n]
  BY DEF SetQuantity
<1>3. Pieces(inv, "cargo") \in Nat
  BY PiecesType
<1> HIDE DEF out
<1>4. CASE I = {}
  <2> DEFINE id == NewId(inv)
  <2>1. id \in Nat \ {Nil} /\ 0 \in 0..MaxQuests /\ 0 \in Nat
    BY <1>1, NewIdIs
  <2>2. x = [id |-> id, type |-> t, n |-> n, quest |-> 0, slot |-> 0]
    BY DEF Stack
  <2> HIDE DEF id, x
  <2>3. x \in StackType /\ x.id # Nil /\ x.type = t
    BY <1>1, <2>1, <2>2 DEF StackType
  <2>4. /\ Append(inv, x) \in Seq(StackType) /\ NoneNil(Append(inv, x))
        /\ Pieces(Append(inv, x), "cargo")
             = Pieces(inv, "cargo") + IF x.type = "cargo" THEN x.n ELSE 0
    BY <2>3, AppendKeeps, PiecesAppend
  <2>5. Pieces(Append(inv, x), "cargo") = Pieces(inv, "cargo") + 0
    BY <1>1, <2>3, <2>4
  <2> QED BY <1>2, <1>3, <1>4, <2>4, <2>5 DEF out
<1>5. CASE I # {}
  <2> DEFINE k == Max(I)
             y == [inv[k] EXCEPT !.n = n]
  <2>1. k \in I
    <3>1. Len(inv) \in Nat /\ DOMAIN inv = 1..Len(inv)
      BY Indexes
    <3>2. I \in SUBSET (1..Len(inv))
      BY <3>1 DEF OfType
    <3> HIDE DEF I
    <3> QED BY <1>5, <3>1, <3>2, MaxIs
  <2>2. k \in DOMAIN inv /\ inv[k].type = t
    BY <2>1 DEF OfType
  <2>3. inv[k] \in StackType
    BY <2>2, Indexes
  <2>4. y \in StackType /\ y.id = inv[k].id /\ y.type = t
    BY <2>2, <2>3, Renumbered
  <2>5. out = [inv EXCEPT ![k] = y]
    BY <1>2, <1>5
  <2> HIDE DEF k, y
  <2>6. /\ out \in Seq(StackType) /\ DOMAIN out = DOMAIN inv /\ out[k] = y
        /\ \A j \in DOMAIN inv \ {k} : out[j] = inv[j]
    BY <2>2, <2>4, <2>5, OneReplaced
  <2>7. Alike(out, inv)
    BY <2>2, <2>4, <2>6 DEF Alike
  <2>8. NoneNil(out)
    BY <2>7, AlikeKeeps
  <2>9. Pieces(out, "cargo") + 0 = Pieces(inv, "cargo") + 0
    <3>1. Pieces(out, "cargo") + (IF inv[k].type = "cargo" THEN inv[k].n ELSE 0)
            = Pieces(inv, "cargo") + (IF inv[k].type = "cargo" THEN out[k].n ELSE 0)
      BY <2>2, <2>4, <2>6, PiecesOneChanged
    <3> QED BY <1>1, <2>2, <3>1
  <2>10. Pieces(out, "cargo") \in Nat
    BY <2>6, PiecesType
  <2> QED BY <1>3, <2>6, <2>8, <2>9, <2>10 DEF out
<1> QED BY <1>4, <1>5

LEMMA CleanedUpIs ==
    ASSUME NEW inv \in Seq(StackType), NoneNil(inv)
    PROVE  /\ CleanedUp(inv) \in Seq(StackType) /\ NoneNil(CleanedUp(inv))
           /\ \A t : Pieces(CleanedUp(inv), t) = Pieces(inv, t)
<1> DEFINE I == {i \in DOMAIN inv : inv[i].n > 0}
           out == Retained(inv, I)
<1>1. I \in SUBSET DOMAIN inv
  OBVIOUS
<1>2. \A t : \A i \in OfType(inv, t) \ I : inv[i].n = 0
  <2>1. \A i \in DOMAIN inv : inv[i].n \in Nat
    <3>1. \A i \in DOMAIN inv : inv[i] \in StackType
      BY Indexes
    <3> QED BY <3>1 DEF StackType
  <2> QED BY <2>1 DEF OfType
<1>3. CleanedUp(inv) = out
  BY DEF CleanedUp
<1> HIDE DEF I
<1>4. out \in Seq(StackType) /\ \A n \in DOMAIN out : \E i \in I : out[n] = inv[i]
  BY <1>1, RetainedKeeps
<1>5. NoneNil(out)
  BY <1>1, <1>4 DEF NoneNil
<1>6. \A t : Pieces(out, t) = Pieces(inv, t)
  BY <1>1, <1>2, PiecesDropped
<1> QED BY <1>3, <1>4, <1>5, <1>6

\* An event leaves ids on the market, and the quest cargo alone.
LEMMA AfterEventIs ==
    ASSUME wares \in Seq(StackType), NoneNil(wares), NEW t \in Goods, NEW n \in Nat,
           NEW event \in {"normalize", "shortage_or_war", "boom_or_epidemic"}
    PROVE  /\ AfterEvent(event, t, n) \in Seq(StackType)
           /\ NoneNil(AfterEvent(event, t, n))
           /\ Pieces(AfterEvent(event, t, n), "cargo") = Pieces(wares, "cargo")
<1> DEFINE out == AfterEvent(event, t, n)
           Kept(inv) == /\ inv \in Seq(StackType) /\ NoneNil(inv)
                        /\ Pieces(inv, "cargo") = Pieces(wares, "cargo")
<1>1. \A inv : Kept(inv) => Kept(CleanedUp(inv))
  BY CleanedUpIs
<1>2. \A inv : Kept(inv) => Kept(SetQuantity(inv, t, n))
  BY SetQuantityIs
<1>3. Kept(wares)
  OBVIOUS
<1>4. Kept(Shaken(wares))
  BY ShakenIs, AlikeKeeps DEF Alike
<1>5. \/ out = CleanedUp(SetQuantity(Shaken(wares), t, n))
      \/ out = CleanedUp(SetQuantity(wares, t, n))
      \/ out = SetQuantity(wares, t, n)
  <2>1. CASE event = "normalize"
    BY <2>1 DEF AfterEvent
  <2>2. CASE event = "shortage_or_war"
    BY <2>2 DEF AfterEvent
  <2>3. CASE event = "boom_or_epidemic"
    BY <2>3 DEF AfterEvent
  <2> QED BY <2>1, <2>2, <2>3
<1> HIDE DEF Kept, out
<1>6. Kept(out)
  BY <1>1, <1>2, <1>3, <1>4, <1>5
<1> QED BY <1>6 DEF Kept, out

\* The market as it is set up: no quest cargo, and an id for every good.
LEMMA DefaultWaresAre ==
    /\ DefaultWares \in Seq(StackType) /\ NoneNil(DefaultWares)
    /\ Pieces(DefaultWares, "cargo") = 0
<1> DEFINE c == Cardinality(Goods)
           f == SetToSeq(Goods)
           inv == [i \in 1..c |-> Stack(i, f[i], Stock, 0)]
<1>0. Stock \in Nat /\ MaxQuests \in Nat /\ "cargo" \notin Goods /\ IsFiniteSet(Goods)
  BY CargoAssumption
<1>1. c \in Nat /\ ExistsBijection(1..c, Goods)
  BY <1>0, FS_CardinalityType
<1>2. f \in [1..c -> Goods]
  <2>1. \E g \in [1..c -> Goods] : IsInjective(g)
    BY <1>1 DEF ExistsBijection, Bijection, Injection, IsInjective
  <2> QED BY <2>1 DEF SetToSeq
<1> HIDE DEF c, f
<1>3. \A i \in 1..c : /\ inv[i] \in StackType /\ inv[i].id = i
                      /\ inv[i].type \in Goods
  <2> SUFFICES ASSUME NEW i \in 1..c
               PROVE  inv[i] \in StackType /\ inv[i].id = i /\ inv[i].type \in Goods
    OBVIOUS
  <2> DEFINE g == f[i]
  <2>1. g \in Goods /\ g \in Type /\ i \in Nat /\ 0 \in 0..MaxQuests
    BY <1>0, <1>1, <1>2 DEF Type
  <2>2. inv[i] = [id |-> i, type |-> g, n |-> Stock, quest |-> 0, slot |-> 0]
    BY DEF Stack
  <2> HIDE DEF g, inv
  <2> QED BY <1>0, <2>1, <2>2 DEF StackType
<1>4. inv \in Seq(StackType) /\ DOMAIN inv = 1..c
  <2>1. inv = [i \in 1..c |-> inv[i]]
    OBVIOUS
  <2> HIDE DEF inv
  <2>2. inv \in [1..c -> StackType]
    BY <1>3, <2>1
  <2> QED BY <1>1, <2>2
<1>5. DefaultWares = Shaken(inv)
  BY DEF DefaultWares, c, f
<1> HIDE DEF inv
<1>6. NoneNil(inv)
  BY <1>1, <1>3, <1>4 DEF NoneNil, Nil
<1>7. Pieces(inv, "cargo") = 0
  <2>1. OfType(inv, "cargo") = {}
    BY <1>0, <1>3, <1>4 DEF OfType
  <2> QED BY <1>4, <2>1, PiecesType, SumOfNone
<1>8. /\ Alike(Shaken(inv), inv)
      /\ Pieces(Shaken(inv), "cargo") = Pieces(inv, "cargo")
  BY <1>4, ShakenIs
<1> QED BY <1>5, <1>6, <1>7, <1>8, AlikeKeeps DEF Alike

-----------------------------------------------------------------------------
(***************************************************************************)
(* Trades                                                                  *)
(***************************************************************************)

HoldOk(inv) == /\ inv \in Seq(StackType)
               /\ SlotsApart(inv) /\ IdsApart(inv) /\ NilIsCargo(inv)
WaresOk(inv) == inv \in Seq(StackType) /\ NoneNil(inv)

\* Consuming a type leaves the others alone when all of them have ids.
Safe(inv, u) == \A i \in OfType(inv, u) : inv[i].id # Nil

LEMMA SafeGoods ==
    ASSUME NEW inv, NEW u
    PROVE  /\ HoldOk(inv) /\ u # "cargo" => Safe(inv, u)
           /\ WaresOk(inv) => Safe(inv, u)
BY DEF HoldOk, WaresOk, NilIsCargo, NoneNil, Safe, OfType

\* d pieces of the type t come, and nothing else does.
Gained(out, inv, t, d) ==
    \A u : /\ Pieces(out, u) <= Pieces(inv, u) + IF u = t THEN d ELSE 0
           /\ u = t \/ Safe(inv, u)
                => Pieces(out, u) = Pieces(inv, u) + IF u = t THEN d ELSE 0

\* What is left when some of a type, or all, or nothing is taken.
LEMMA PutBackIs ==
    ASSUME NEW inv \in Seq(StackType), NEW t, NEW x \in StackType,
           x.type = t, x.id \notin Ids(Left(inv, t)), x.id # Nil
    PROVE  /\ AddItem(Left(inv, t), x) \in Seq(StackType)
           /\ HoldOk(inv) => HoldOk(AddItem(Left(inv, t), x))
           /\ WaresOk(AddItem(Left(inv, t), x))
           /\ Gained(AddItem(Left(inv, t), x), inv, t, x.n - Pieces(inv, t))
<1> DEFINE rest == Left(inv, t)
           out == AddItem(rest, x)
<1>1. /\ rest \in Seq(StackType)
      /\ IdsApart(inv) => IdsApart(rest)
      /\ NoneNil(rest)
      /\ Pieces(rest, t) = 0
      /\ \A u : Pieces(rest, u) <= Pieces(inv, u)
      /\ \A u : u # t /\ Safe(inv, u) => Pieces(rest, u) = Pieces(inv, u)
  BY LeftIs DEF Safe
<1> HIDE DEF rest
<1>2. NilIsCargo(rest)
  BY <1>1 DEF NoneNil, NilIsCargo
<1>3. /\ out \in Seq(StackType) /\ SlotsApart(out)
      /\ \A u : Pieces(out, u) = Pieces(rest, u) + IF x.type = u THEN x.n ELSE 0
      /\ IdsApart(rest) => IdsApart(out)
      /\ NilIsCargo(out) /\ NoneNil(out)
  BY <1>1, <1>2, AddItemIs DEF rest
<1> HIDE DEF out
<1>4. \A u : Pieces(rest, u) \in Nat /\ Pieces(inv, u) \in Nat
  BY <1>1, PiecesType
<1>5. x.n \in Nat
  BY DEF StackType
<1>6. ASSUME NEW u
      PROVE  /\ Pieces(out, u) <= Pieces(inv, u) + IF u = t THEN x.n - Pieces(inv, t) ELSE 0
             /\ u = t \/ Safe(inv, u) => Pieces(out, u)
                  = Pieces(inv, u) + IF u = t THEN x.n - Pieces(inv, t) ELSE 0
  <2>1. CASE u = t
    <3>1. Pieces(out, t) = 0 + x.n
      BY <1>1, <1>3
    <3> QED BY <1>4, <1>5, <2>1, <3>1
  <2>2. CASE u # t
    <3>1. Pieces(out, u) = Pieces(rest, u) + 0
      BY <1>3, <2>2
    <3> QED BY <1>1, <1>4, <2>2, <3>1
  <2> QED BY <2>1, <2>2
<1>7. Gained(out, inv, t, x.n - Pieces(inv, t))
  BY <1>6 DEF Gained
<1> QED BY <1>1, <1>3, <1>7 DEF HoldOk, WaresOk, out, rest

LEMMA EmptiedIs ==
    ASSUME NEW inv \in Seq(StackType), NEW t
    PROVE  /\ HoldOk(inv) => HoldOk(Left(inv, t))
           /\ WaresOk(Left(inv, t))
           /\ Gained(Left(inv, t), inv, t, 0 - Pieces(inv, t))
<1> DEFINE rest == Left(inv, t)
<1>1. /\ rest \in Seq(StackType)
      /\ SlotsApart(inv) => SlotsApart(rest)
      /\ IdsApart(inv) => IdsApart(rest)
      /\ NilIsCargo(inv) => NilIsCargo(rest)
      /\ NoneNil(rest)
      /\ Pieces(rest, t) = 0
      /\ \A u : Pieces(rest, u) <= Pieces(inv, u)
      /\ \A u : u # t /\ Safe(inv, u) => Pieces(rest, u) = Pieces(inv, u)
  BY LeftIs DEF Safe
<1> HIDE DEF rest
<1>2. \A u : Pieces(rest, u) \in Nat /\ Pieces(inv, u) \in Nat
  BY <1>1, PiecesType
<1>3. ASSUME NEW u
      PROVE  /\ Pieces(rest, u) <= Pieces(inv, u) + IF u = t THEN 0 - Pieces(inv, t) ELSE 0
             /\ u = t \/ Safe(inv, u)
                  => Pieces(rest, u) = Pieces(inv, u) + IF u = t THEN 0 - Pieces(inv, t) ELSE 0
  <2>1. CASE u = t
    BY <1>1, <1>2, <2>1
  <2>2. CASE u # t
    BY <1>1, <1>2, <2>2
  <2> QED BY <2>1, <2>2
<1>4. Gained(rest, inv, t, 0 - Pieces(inv, t))
  BY <1>3 DEF Gained
<1> QED BY <1>1, <1>4 DEF HoldOk, WaresOk, rest

\* Who takes part in a trade: some stack leaves one side ...
Without(inv, t, count) ==
    LET rest == Left(inv, t)
        stack == Taken(inv, t, NewId(rest))
    IN  IF stack.n > count THEN AddItem(rest, [stack EXCEPT !.n = @ - count]) ELSE rest
\* ... stays there after all ...
Returned(inv, t) ==
    LET rest == Left(inv, t) IN AddItem(rest, Taken(inv, t, NewId(rest)))
\* ... or arrives on the other.
With(out, inv, t, count) ==
    AddItem(out, [Taken(inv, t, NewId(Left(inv, t))) EXCEPT !.id = NewId(out), !.n = count])

LEMMA StackIs ==
    ASSUME NEW inv \in Seq(StackType), NEW t, Has(inv, t)
    PROVE  /\ Taken(inv, t, NewId(Left(inv, t))) \in StackType
           /\ Taken(inv, t, NewId(Left(inv, t))).type = t
           /\ Taken(inv, t, NewId(Left(inv, t))).n = Pieces(inv, t)
           /\ Taken(inv, t, NewId(Left(inv, t))).id # Nil
           /\ Taken(inv, t, NewId(Left(inv, t))).id \notin Ids(Left(inv, t))
           /\ Pieces(inv, t) \in Nat
<1> DEFINE id == NewId(Left(inv, t))
<1>1. id \in Nat \ {Nil} /\ id \notin Ids(Left(inv, t))
  BY LeftIs, NewIdIs
<1>2. Pieces(inv, t) \in Nat
  BY PiecesType
<1> HIDE DEF id
<1>3. /\ Taken(inv, t, id) \in StackType
      /\ Taken(inv, t, id).id = id /\ Taken(inv, t, id).type = t
      /\ Taken(inv, t, id).n = Pieces(inv, t)
  BY <1>1, TakenIs
<1> QED BY <1>1, <1>2, <1>3 DEF id

LEMMA WithoutIs ==
    ASSUME NEW inv \in Seq(StackType), NEW t, Has(inv, t),
           NEW count \in Nat, count <= Pieces(inv, t)
    PROVE  /\ HoldOk(inv) => HoldOk(Without(inv, t, count))
           /\ WaresOk(Without(inv, t, count))
           /\ Gained(Without(inv, t, count), inv, t, -count)
<1> DEFINE rest == Left(inv, t)
           s == Taken(inv, t, NewId(rest))
           x == [s EXCEPT !.n = @ - count]
<1>1. /\ s \in StackType /\ s.type = t /\ s.n = Pieces(inv, t) /\ s.id # Nil
      /\ s.id \notin Ids(rest) /\ Pieces(inv, t) \in Nat
  BY StackIs
<1>2. Without(inv, t, count) = IF s.n > count THEN AddItem(rest, x) ELSE rest
  BY DEF Without
<1>3. x = [s EXCEPT !.n = s.n - count]
  OBVIOUS
<1> HIDE DEF s, x
<1>4. CASE s.n > count
  <2>1. s.n - count \in Nat
    BY <1>1, <1>4
  <2>2. /\ x \in StackType /\ x.id = s.id /\ x.type = s.type /\ x.n = s.n - count
    BY <1>1, <1>3, <2>1, Renumbered
  <2>3. /\ HoldOk(inv) => HoldOk(AddItem(rest, x))
        /\ WaresOk(AddItem(rest, x))
        /\ Gained(AddItem(rest, x), inv, t, x.n - Pieces(inv, t))
    BY <1>1, <2>2, PutBackIs
  <2>4. x.n - Pieces(inv, t) = -count
    BY <1>1, <2>2
  <2> QED BY <1>2, <1>4, <2>3, <2>4
<1>5. CASE ~(s.n > count)
  <2>1. 0 - Pieces(inv, t) = -count
    BY <1>1, <1>5
  <2>2. Without(inv, t, count) = rest
    BY <1>2, <1>5
  <2>3. /\ HoldOk(inv) => HoldOk(rest)
        /\ WaresOk(rest)
        /\ Gained(rest, inv, t, 0 - Pieces(inv, t))
    BY EmptiedIs
  <2> QED BY <2>1, <2>2, <2>3
<1> QED BY <1>4, <1>5

LEMMA ReturnedIs ==
    ASSUME NEW inv \in Seq(StackType), NEW t, Has(inv, t)
    PROVE  /\ HoldOk(inv) => HoldOk(Returned(inv, t))
           /\ WaresOk(Returned(inv, t))
           /\ Gained(Returned(inv, t), inv, t, 0)
<1> DEFINE rest == Left(inv, t)
           s == Taken(inv, t, NewId(rest))
<1>1. /\ s \in StackType /\ s.type = t /\ s.n = Pieces(inv, t) /\ s.id # Nil
      /\ s.id \notin Ids(rest) /\ Pieces(inv, t) \in Nat
  BY StackIs
<1>2. Returned(inv, t) = AddItem(rest, s)
  BY DEF Returned
<1> HIDE DEF s
<1>3. /\ HoldOk(inv) => HoldOk(AddItem(rest, s))
      /\ WaresOk(AddItem(rest, s))
      /\ Gained(AddItem(rest, s), inv, t, s.n - Pieces(inv, t))
  BY <1>1, PutBackIs
<1>4. s.n - Pieces(inv, t) = 0
  BY <1>1
<1> QED BY <1>2, <1>3, <1>4

LEMMA WithIs ==
    ASSUME NEW out \in Seq(StackType), NEW inv \in Seq(StackType), NEW t, Has(inv, t),
           NEW count \in Nat
    PROVE  /\ HoldOk(out) => HoldOk(With(out, inv, t, count))
           /\ WaresOk(out) => WaresOk(With(out, inv, t, count))
           /\ Gained(With(out, inv, t, count), out, t, count)
<1> DEFINE id == NewId(out)
           s == Taken(inv, t, NewId(Left(inv, t)))
           x == [s EXCEPT !.id = id, !.n = count]
           more == AddItem(out, x)
<1>1. s \in StackType /\ s.type = t
  BY StackIs
<1>2. id \in Nat \ {Nil} /\ id \notin Ids(out)
  BY NewIdIs
<1>3. With(out, inv, t, count) = more
  BY DEF With
<1> HIDE DEF id, s
<1>4. x \in StackType
  BY <1>1, <1>2 DEF StackType
<1>5. x.id = id /\ x.type = t /\ x.n = count
  BY <1>1 DEF StackType
<1> HIDE DEF x
<1>6. /\ more \in Seq(StackType) /\ SlotsApart(more)
      /\ \A u : Pieces(more, u) = Pieces(out, u) + IF x.type = u THEN x.n ELSE 0
      /\ IdsApart(out) => IdsApart(more)
      /\ NilIsCargo(out) => NilIsCargo(more)
      /\ NoneNil(out) => NoneNil(more)
  BY <1>2, <1>4, <1>5, AddItemIs
<1> HIDE DEF more
<1>7. \A u : Pieces(out, u) \in Nat
  BY PiecesType
<1>8. ASSUME NEW u
      PROVE  /\ Pieces(more, u) <= Pieces(out, u) + IF u = t THEN count ELSE 0
             /\ Pieces(more, u) = Pieces(out, u) + IF u = t THEN count ELSE 0
  <2>1. CASE u = t
    <3>1. Pieces(more, u) = Pieces(out, u) + count
      BY <1>5, <1>6, <2>1
    <3> QED BY <1>7, <2>1, <3>1
  <2>2. CASE u # t
    <3>1. Pieces(more, u) = Pieces(out, u) + 0
      BY <1>5, <1>6, <2>2
    <3> QED BY <1>7, <2>2, <3>1
  <2> QED BY <2>1, <2>2
<1>9. Gained(more, out, t, count)
  BY <1>8 DEF Gained
<1> QED BY <1>3, <1>6, <1>9 DEF HoldOk, WaresOk

-----------------------------------------------------------------------------
(***************************************************************************)
(* What all ships carry                                                    *)
(***************************************************************************)

Holds == [Player -> Seq(StackType)]
Loads(h, t) == [p \in Player |-> Pieces(h[p], t)]

LEMMA LoadsNatural ==
    ASSUME NEW h \in Holds, NEW t
    PROVE  /\ IsFiniteSet(Player) /\ Natural(Loads(h, t), Player)
           /\ SumFunction(Loads(h, t)) = SumFunctionOnSet(Loads(h, t), Player)
           /\ SumFunction(Loads(h, t)) \in Nat
<1>1. IsFiniteSet(Player)
  BY CargoAssumption
<1>2. Natural(Loads(h, t), Player)
  <2>1. \A p \in Player : h[p] \in Seq(StackType)
    BY DEF Holds
  <2>2. \A p \in Player : Pieces(h[p], t) \in Nat
    BY <2>1, PiecesType
  <2> QED BY <2>2 DEF Natural, Loads
<1>3. SumFunction(Loads(h, t)) = SumFunctionOnSet(Loads(h, t), Player)
  BY DEF SumFunction, Loads
<1>4. SumFunctionOnSet(Loads(h, t), Player) \in Nat
  BY <1>1, <1>2, SumSplit
<1> QED BY <1>1, <1>2, <1>3, <1>4

\* Another inventory for one ship.
LEMMA LoadChanged ==
    ASSUME NEW h \in Holds, NEW p \in Player, NEW out \in Seq(StackType), NEW t
    PROVE  /\ [h EXCEPT ![p] = out] \in Holds
           /\ SumFunction(Loads([h EXCEPT ![p] = out], t)) + Pieces(h[p], t)
                = SumFunction(Loads(h, t)) + Pieces(out, t)
           /\ SumFunction(Loads([h EXCEPT ![p] = out], t)) \in Nat
           /\ SumFunction(Loads(h, t)) \in Nat
           /\ Pieces(h[p], t) \in Nat /\ Pieces(out, t) \in Nat
<1> DEFINE g == [h EXCEPT ![p] = out]
           f1 == Loads(h, t)
           f2 == Loads(g, t)
<1>1. g \in Holds /\ g[p] = out /\ \A q \in Player \ {p} : g[q] = h[q]
  BY DEF Holds
<1>2. Pieces(out, t) \in Nat /\ Pieces(h[p], t) \in Nat
  <2>1. h[p] \in Seq(StackType)
    BY DEF Holds
  <2> QED BY <2>1, PiecesType
<1> HIDE DEF g
<1>3. /\ f1[p] = Pieces(h[p], t) /\ f2[p] = Pieces(out, t)
      /\ \A q \in Player \ {p} : f2[q] = f1[q]
  BY <1>1 DEF Loads
<1>4. /\ IsFiniteSet(Player) /\ Natural(f1, Player)
      /\ SumFunction(f1) = SumFunctionOnSet(f1, Player)
      /\ SumFunction(f1) \in Nat
  BY LoadsNatural
<1>5. /\ SumFunction(f2) = SumFunctionOnSet(f2, Player)
      /\ SumFunction(f2) \in Nat
  BY <1>1, LoadsNatural
<1> HIDE DEF f1, f2
<1>6. f2[p] \in Nat
  BY <1>2, <1>3
<1>7. SumFunctionOnSet(f2, Player) + f1[p] = SumFunctionOnSet(f1, Player) + f2[p]
  BY <1>3, <1>4, <1>6, SumChanged
<1> QED BY <1>1, <1>2, <1>3, <1>4, <1>5, <1>7 DEF f1, f2, g

LEMMA TotalIs ==
    /\ \A t : Total(t) = SumFunction(Loads(hold, t)) + Pieces(wares, t)
    /\ \A t : Total(t)' = SumFunction(Loads(hold', t)) + Pieces(wares', t)
BY DEF Total, Carried, Loads

-----------------------------------------------------------------------------
(***************************************************************************)
(* What each action does to the inventories                                *)
(***************************************************************************)

\* The inventories hold together, and nobody without a ship has one.
Stocked ==
    /\ hold \in Holds /\ \A p \in Player : HoldOk(hold[p])
    /\ WaresOk(wares)
    /\ alive \subseteq Player /\ \A p \in Player \ alive : hold[p] = <<>>

\* One ship and the market change.
LEMMA OneChanges ==
    ASSUME Stocked, NEW p \in alive, NEW out, hold' = [hold EXCEPT ![p] = out],
           HoldOk(out), WaresOk(wares'), alive' = alive
    PROVE  /\ Stocked'
           /\ \A t : Total(t)' + (Pieces(hold[p], t) + Pieces(wares, t))
                       = Total(t) + (Pieces(out, t) + Pieces(wares', t))
           /\ \A t : /\ Total(t) \in Nat /\ Total(t)' \in Nat
                     /\ Pieces(hold[p], t) \in Nat /\ Pieces(wares, t) \in Nat
                     /\ Pieces(out, t) \in Nat /\ Pieces(wares', t) \in Nat
<1>1. p \in Player /\ hold \in Holds /\ out \in Seq(StackType)
  BY DEF Stocked, HoldOk
<1>2. hold' \in Holds
  BY <1>1, LoadChanged
<1>3. \A q \in Player : HoldOk(hold'[q])
  <2>1. \A q \in Player : hold'[q] = IF q = p THEN out ELSE hold[q]
    BY <1>1 DEF Holds
  <2> QED BY <2>1 DEF Stocked
<1>4. \A q \in Player \ alive : hold'[q] = <<>>
  BY <1>1 DEF Stocked, Holds
<1>5. Stocked'
  BY <1>2, <1>3, <1>4 DEF Stocked
<1>6. ASSUME NEW t
      PROVE  /\ Total(t)' + (Pieces(hold[p], t) + Pieces(wares, t))
                  = Total(t) + (Pieces(out, t) + Pieces(wares', t))
             /\ Total(t) \in Nat /\ Total(t)' \in Nat
             /\ Pieces(hold[p], t) \in Nat /\ Pieces(wares, t) \in Nat
             /\ Pieces(out, t) \in Nat /\ Pieces(wares', t) \in Nat
  <2> DEFINE before == SumFunction(Loads(hold, t))
             after == SumFunction(Loads(hold', t))
  <2>1. /\ after + Pieces(hold[p], t) = before + Pieces(out, t)
        /\ after \in Nat /\ before \in Nat
        /\ Pieces(hold[p], t) \in Nat /\ Pieces(out, t) \in Nat
    BY <1>1, LoadChanged
  <2>2. Pieces(wares, t) \in Nat /\ Pieces(wares', t) \in Nat
    BY PiecesType DEF Stocked, WaresOk
  <2>3. Total(t) = before + Pieces(wares, t) /\ Total(t)' = after + Pieces(wares', t)
    BY TotalIs
  <2> HIDE DEF before, after
  <2> QED BY <2>1, <2>2, <2>3
<1> QED BY <1>5, <1>6

\* No goods come or go, and no quest cargo comes.
Balanced == /\ \A t \in Goods : Total(t)' = Total(t)
            /\ Total("cargo")' <= Total("cargo")

LEMMA Unmoved ==
    ASSUME Stocked, UNCHANGED <<hold, wares>>
    PROVE  Balanced /\ \A t : Total(t)' = Total(t) /\ Total(t) \in Nat
<1>1. \A t : Total(t)' = Total(t)
  BY TotalIs
<1>2. \A t : Total(t) \in Nat
  <2>1. \A t : Pieces(wares, t) \in Nat /\ SumFunction(Loads(hold, t)) \in Nat
    BY PiecesType, LoadsNatural DEF Stocked, WaresOk
  <2> QED BY <2>1, TotalIs
<1> QED BY <1>1, <1>2 DEF Balanced

\* The usual case: what changes hands adds up.
LEMMA BalancedFrom ==
    ASSUME Stocked, NEW p \in alive, NEW out, hold' = [hold EXCEPT ![p] = out],
           HoldOk(out), WaresOk(wares'), alive' = alive,
           \A t : Pieces(out, t) + Pieces(wares', t) <= Pieces(hold[p], t) + Pieces(wares, t),
           \A t \in Goods :
              Pieces(out, t) + Pieces(wares', t) = Pieces(hold[p], t) + Pieces(wares, t)
    PROVE  Stocked' /\ Balanced
<1>1. /\ Stocked'
      /\ \A t : Total(t)' + (Pieces(hold[p], t) + Pieces(wares, t))
                  = Total(t) + (Pieces(out, t) + Pieces(wares', t))
      /\ \A t : /\ Total(t) \in Nat /\ Total(t)' \in Nat
                /\ Pieces(hold[p], t) \in Nat /\ Pieces(wares, t) \in Nat
                /\ Pieces(out, t) \in Nat /\ Pieces(wares', t) \in Nat
  BY OneChanges
<1>2. \A t \in Goods : Total(t)' = Total(t)
  BY <1>1
<1>3. Total("cargo")' <= Total("cargo")
  BY <1>1
<1> QED BY <1>1, <1>2, <1>3 DEF Balanced

\* Only the ship changes.
LEMMA AboardOnly ==
    ASSUME Stocked, NEW p \in alive, NEW out, hold' = [hold EXCEPT ![p] = out],
           HoldOk(out), UNCHANGED <<wares, alive>>,
           \A t : Pieces(out, t) <= Pieces(hold[p], t),
           \A t \in Goods : Pieces(out, t) = Pieces(hold[p], t)
    PROVE  Stocked' /\ Balanced
<1>1. WaresOk(wares')
  BY DEF Stocked
<1>2. \A t : Pieces(wares', t) = Pieces(wares, t) /\ Pieces(wares, t) \in Nat
  BY PiecesType DEF Stocked, WaresOk
<1>3. \A t : Pieces(out, t) \in Nat /\ Pieces(hold[p], t) \in Nat
  BY PiecesType DEF Stocked, HoldOk
<1>4. \A t : Pieces(out, t) + Pieces(wares', t) <= Pieces(hold[p], t) + Pieces(wares, t)
  BY <1>2, <1>3
<1>5. \A t \in Goods :
        Pieces(out, t) + Pieces(wares', t) = Pieces(hold[p], t) + Pieces(wares, t)
  BY <1>2
<1> QED BY <1>1, <1>4, <1>5, BalancedFrom

LEMMA MergeStocks ==
    ASSUME Stocked, NEW p \in Player, NEW from \in Ids(hold[p]),
           NEW to \in Ids(hold[p]) \cup {Gone}, Merge(p, from, to)
    PROVE  /\ Stocked'
           /\ Total("cargo")' <= Total("cargo")
           /\ to \in Ids(hold[p]) => Balanced
<1> DEFINE inv == hold[p]
           out == Merged(inv, from, to)
<1>1. /\ p \in alive /\ hold' = [hold EXCEPT ![p] = out] /\ UNCHANGED <<wares, alive>>
      /\ Mergeable(inv, from, to)
  BY DEF Merge, Acting
<1>2. HoldOk(inv) /\ inv \in Seq(StackType)
  BY DEF Stocked, HoldOk
<1>3. /\ HoldOk(out)
      /\ \A t : Pieces(out, t) <= Pieces(inv, t)
      /\ \A t : to \in Ids(inv) => Pieces(out, t) = Pieces(inv, t)
  BY <1>1, <1>2, MergedIs DEF HoldOk
<1>4. WaresOk(wares') /\ alive' = alive
  BY <1>1 DEF Stocked
<1> HIDE DEF out
<1>5. /\ Stocked'
      /\ \A t : Total(t)' + (Pieces(inv, t) + Pieces(wares, t))
                  = Total(t) + (Pieces(out, t) + Pieces(wares', t))
      /\ \A t : /\ Total(t) \in Nat /\ Total(t)' \in Nat
                /\ Pieces(inv, t) \in Nat /\ Pieces(wares, t) \in Nat
                /\ Pieces(out, t) \in Nat /\ Pieces(wares', t) \in Nat
  BY <1>1, <1>3, <1>4, OneChanges
<1>6. \A t : Total(t)' <= Total(t)
  BY <1>1, <1>3, <1>5
<1>7. to \in Ids(inv) => \A t : Total(t)' = Total(t)
  BY <1>1, <1>3, <1>5
<1> QED BY <1>5, <1>6, <1>7 DEF Balanced

LEMMA SplitStocks ==
    ASSUME Stocked, NEW p \in Player, NEW i \in Positions(p), NEW count \in 1..MaxCount,
           Split(p, i, count)
    PROVE  Stocked' /\ Balanced
<1> DEFINE inv == hold[p]
           out == SplitUp(inv, i, count)
<1>1. /\ p \in alive /\ hold' = [hold EXCEPT ![p] = out] /\ UNCHANGED <<wares, alive>>
      /\ inv[i].n > count
  BY DEF Split, SplitUp, Acting
<1>2. HoldOk(inv) /\ inv \in Seq(StackType) /\ i \in DOMAIN inv /\ count \in Nat
  <2>1. MaxCount \in Nat
    BY CargoAssumption
  <2> QED BY <2>1 DEF Stocked, HoldOk, Positions
<1>3. HoldOk(out) /\ \A t : Pieces(out, t) = Pieces(inv, t)
  BY <1>1, <1>2, SplitUpIs DEF HoldOk
<1>4. \A t : Pieces(inv, t) \in Nat
  BY <1>2, PiecesType
<1> HIDE DEF out
<1>5. \A t : Pieces(out, t) <= Pieces(inv, t)
  BY <1>3, <1>4
<1> QED BY <1>1, <1>3, <1>5, AboardOnly

LEMMA MoveStocks ==
    ASSUME Stocked, NEW p \in Player, NEW i \in Positions(p), NEW slot \in 0..MaxSlot,
           Move(p, i, slot)
    PROVE  Stocked' /\ Balanced
<1> DEFINE inv == hold[p]
           out == MovedTo(inv, i, slot)
<1>1. /\ p \in alive /\ hold' = [hold EXCEPT ![p] = out] /\ UNCHANGED <<wares, alive>>
      /\ slot \notin Slots(inv)
  BY DEF Move, Acting
<1>2. HoldOk(inv) /\ inv \in Seq(StackType) /\ i \in DOMAIN inv /\ slot \in Nat
  <2>1. MaxSlot \in Nat
    BY CargoAssumption
  <2> QED BY <2>1 DEF Stocked, HoldOk, Positions
<1>3. /\ Alike(out, inv)
      /\ SlotsApart(inv) /\ slot \notin Slots(inv) => SlotsApart(out)
      /\ \A t : Pieces(out, t) = Pieces(inv, t)
  BY <1>2, MovedToIs
<1>4. \A t : Pieces(inv, t) \in Nat
  BY <1>2, PiecesType
<1> HIDE DEF out
<1>5. HoldOk(out)
  BY <1>1, <1>2, <1>3, AlikeKeeps DEF HoldOk, Alike
<1>6. \A t : Pieces(out, t) <= Pieces(inv, t)
  BY <1>3, <1>4
<1> QED BY <1>1, <1>3, <1>5, <1>6, AboardOnly

\* Two sides of a trade, where one gains what the other loses.
LEMMA BothSides ==
    ASSUME NEW inv, NEW out, NEW w, NEW x, NEW t,
           NEW c \in Int, NEW d \in Int, c + d = 0,
           HoldOk(inv), HoldOk(out), WaresOk(w), WaresOk(x),
           Gained(out, inv, t, c), Gained(x, w, t, d)
    PROVE  /\ \A u : Pieces(out, u) + Pieces(x, u) <= Pieces(inv, u) + Pieces(w, u)
           /\ \A u \in Goods : Pieces(out, u) + Pieces(x, u) = Pieces(inv, u) + Pieces(w, u)
<1>1. \A u : /\ Pieces(out, u) \in Nat /\ Pieces(x, u) \in Nat
             /\ Pieces(inv, u) \in Nat /\ Pieces(w, u) \in Nat
  BY PiecesType DEF HoldOk, WaresOk
<1>2. ASSUME NEW u
      PROVE  Pieces(out, u) + Pieces(x, u) <= Pieces(inv, u) + Pieces(w, u)
  <2>1. /\ Pieces(out, u) <= Pieces(inv, u) + IF u = t THEN c ELSE 0
        /\ Pieces(x, u) <= Pieces(w, u) + IF u = t THEN d ELSE 0
    BY DEF Gained
  <2>2. CASE u = t
    <3>1. Pieces(out, u) <= Pieces(inv, u) + c /\ Pieces(x, u) <= Pieces(w, u) + d
      BY <2>1, <2>2
    <3> QED BY <1>1, <3>1
  <2>3. CASE u # t
    <3>1. Pieces(out, u) <= Pieces(inv, u) + 0 /\ Pieces(x, u) <= Pieces(w, u) + 0
      BY <2>1, <2>3
    <3> QED BY <1>1, <3>1
  <2> QED BY <2>2, <2>3
<1>3. ASSUME NEW u \in Goods
      PROVE  Pieces(out, u) + Pieces(x, u) = Pieces(inv, u) + Pieces(w, u)
  <2>0. Safe(inv, u) /\ Safe(w, u)
    BY SafeGoods, CargoAssumption
  <2>1. /\ Pieces(out, u) = Pieces(inv, u) + IF u = t THEN c ELSE 0
        /\ Pieces(x, u) = Pieces(w, u) + IF u = t THEN d ELSE 0
    BY <2>0 DEF Gained
  <2>2. CASE u = t
    <3>1. Pieces(out, u) = Pieces(inv, u) + c /\ Pieces(x, u) = Pieces(w, u) + d
      BY <2>1, <2>2
    <3> QED BY <1>1, <3>1
  <2>3. CASE u # t
    <3>1. Pieces(out, u) = Pieces(inv, u) + 0 /\ Pieces(x, u) = Pieces(w, u) + 0
      BY <2>1, <2>3
    <3> QED BY <1>1, <3>1
  <2> QED BY <2>2, <2>3
<1> QED BY <1>2, <1>3

LEMMA NothingGained ==
    ASSUME NEW inv \in Seq(StackType), NEW t
    PROVE  Gained(inv, inv, t, 0)
<1>1. \A u : Pieces(inv, u) \in Nat
  BY PiecesType
<1> QED BY <1>1 DEF Gained

\* Without a stack of the type a trade still takes out what has no id.
LEMMA NoneLeftIs ==
    ASSUME NEW inv \in Seq(StackType), NEW t, ~Has(inv, t)
    PROVE  Gained(Left(inv, t), inv, t, 0)
<1>1. Pieces(inv, t) = 0
  BY PiecesType, SumOfNone DEF Has
<1> DEFINE c == Pieces(inv, t)
<1>2. Gained(Left(inv, t), inv, t, 0 - c) /\ c = 0
  BY <1>1, EmptiedIs
<1> HIDE DEF c
<1>3. 0 - c = 0
  BY <1>2
<1> QED BY <1>2, <1>3

LEMMA SellStocks ==
    ASSUME Stocked, NEW p \in Player, NEW t \in Type, NEW count \in 1..MaxCount,
           Sell(p, t, count)
    PROVE  /\ Stocked' /\ Balanced
           /\ \/ Gained(wares', wares, t, 0) /\ UNCHANGED money
              \/ /\ Gained(wares', wares, t, count)
                 /\ money' = [money EXCEPT ![p] = @ + count * Price(t).buy]
<1> DEFINE inv == hold[p]
           rest == Left(inv, t)
           stack == Taken(inv, t, NewId(rest))
<1>1. p \in alive /\ UNCHANGED alive /\ count \in Nat /\ -count \in Int /\ -count + count = 0
  <2>1. MaxCount \in Nat
    BY CargoAssumption
  <2> QED BY <2>1 DEF Sell, Acting
<1>2. HoldOk(inv) /\ inv \in Seq(StackType) /\ WaresOk(wares) /\ wares \in Seq(StackType)
  BY DEF Stocked, HoldOk, WaresOk
<1>3. \/ ~Has(inv, t) /\ hold' = [hold EXCEPT ![p] = rest] /\ UNCHANGED <<wares, money>>
      \/ /\ Has(inv, t) /\ stack.n >= count
         /\ hold' = [hold EXCEPT ![p] = Without(inv, t, count)]
         /\ wares' = With(wares, inv, t, count)
         /\ money' = [money EXCEPT ![p] = @ + count * Price(t).buy]
      \/ /\ Has(inv, t) /\ hold' = [hold EXCEPT ![p] = Returned(inv, t)]
         /\ UNCHANGED <<wares, money>>
  BY DEF Sell, Without, With, Returned
<1> HIDE DEF rest, stack
<1>4. CASE ~Has(inv, t) /\ hold' = [hold EXCEPT ![p] = rest] /\ UNCHANGED <<wares, money>>
  <2>1. HoldOk(rest) /\ Gained(rest, inv, t, 0)
    BY <1>2, <1>4, EmptiedIs, NoneLeftIs DEF rest
  <2>2. Gained(wares', wares, t, 0) /\ WaresOk(wares')
    BY <1>2, <1>4, NothingGained
  <2>3. /\ \A u : Pieces(rest, u) + Pieces(wares', u) <= Pieces(inv, u) + Pieces(wares, u)
        /\ \A u \in Goods :
              Pieces(rest, u) + Pieces(wares', u) = Pieces(inv, u) + Pieces(wares, u)
    BY <1>2, <2>1, <2>2, BothSides
  <2> QED BY <1>1, <1>4, <2>1, <2>2, <2>3, BalancedFrom
<1>5. CASE /\ Has(inv, t) /\ stack.n >= count
           /\ hold' = [hold EXCEPT ![p] = Without(inv, t, count)]
           /\ wares' = With(wares, inv, t, count)
           /\ money' = [money EXCEPT ![p] = @ + count * Price(t).buy]
  <2>1. count <= Pieces(inv, t)
    BY <1>1, <1>2, <1>5, StackIs DEF stack, rest
  <2>2. HoldOk(Without(inv, t, count)) /\ Gained(Without(inv, t, count), inv, t, -count)
    BY <1>1, <1>2, <1>5, <2>1, WithoutIs
  <2>3. WaresOk(wares') /\ Gained(wares', wares, t, count)
    BY <1>1, <1>2, <1>5, WithIs
  <2>4. /\ \A u : Pieces(Without(inv, t, count), u) + Pieces(wares', u)
                    <= Pieces(inv, u) + Pieces(wares, u)
        /\ \A u \in Goods : Pieces(Without(inv, t, count), u) + Pieces(wares', u)
                              = Pieces(inv, u) + Pieces(wares, u)
    BY <1>1, <1>2, <2>2, <2>3, BothSides
  <2> QED BY <1>1, <1>5, <2>2, <2>3, <2>4, BalancedFrom
<1>6. CASE /\ Has(inv, t) /\ hold' = [hold EXCEPT ![p] = Returned(inv, t)]
           /\ UNCHANGED <<wares, money>>
  <2>1. HoldOk(Returned(inv, t)) /\ Gained(Returned(inv, t), inv, t, 0)
    BY <1>2, <1>6, ReturnedIs
  <2>2. Gained(wares', wares, t, 0) /\ WaresOk(wares')
    BY <1>2, <1>6, NothingGained
  <2>3. /\ \A u : Pieces(Returned(inv, t), u) + Pieces(wares', u)
                    <= Pieces(inv, u) + Pieces(wares, u)
        /\ \A u \in Goods : Pieces(Returned(inv, t), u) + Pieces(wares', u)
                              = Pieces(inv, u) + Pieces(wares, u)
    BY <1>2, <2>1, <2>2, BothSides
  <2> QED BY <1>1, <1>6, <2>1, <2>2, <2>3, BalancedFrom
<1> QED BY <1>3, <1>4, <1>5, <1>6

LEMMA BuyStocks ==
    ASSUME Stocked, NEW p \in Player, NEW t \in Type, NEW count \in 1..MaxCount,
           Buy(p, t, count)
    PROVE  /\ Stocked' /\ Balanced
           /\ \/ Gained(wares', wares, t, 0) /\ UNCHANGED money
              \/ /\ Gained(wares', wares, t, -count) /\ money[p] >= count * Price(t).sell
                 /\ money' = [money EXCEPT ![p] = @ - count * Price(t).sell]
<1> DEFINE inv == hold[p]
           rest == Left(wares, t)
           stack == Taken(wares, t, NewId(rest))
<1>1. p \in alive /\ UNCHANGED alive /\ count \in Nat /\ -count \in Int /\ -count + count = 0 /\ count + (-count) = 0
  <2>1. MaxCount \in Nat
    BY CargoAssumption
  <2> QED BY <2>1 DEF Buy, Acting
<1>2. /\ HoldOk(inv) /\ inv \in Seq(StackType) /\ WaresOk(wares) /\ wares \in Seq(StackType)
      /\ [hold EXCEPT ![p] = inv] = hold
  BY DEF Stocked, HoldOk, WaresOk, Holds
<1>3. \/ ~Has(wares, t) /\ wares' = rest /\ UNCHANGED <<hold, money>>
      \/ /\ Has(wares, t) /\ stack.n >= count
         /\ wares' = Without(wares, t, count)
         /\ hold' = [hold EXCEPT ![p] = With(inv, wares, t, count)]
         /\ money[p] >= count * Price(t).sell
         /\ money' = [money EXCEPT ![p] = @ - count * Price(t).sell]
      \/ Has(wares, t) /\ wares' = Returned(wares, t) /\ UNCHANGED <<hold, money>>
  BY DEF Buy, Without, With, Returned
<1> HIDE DEF rest, stack
<1>4. ASSUME UNCHANGED hold, WaresOk(wares'), Gained(wares', wares, t, 0)
      PROVE  Stocked' /\ Balanced
  <2>1. hold' = [hold EXCEPT ![p] = inv]
    BY <1>2, <1>4
  <2>2. Gained(inv, inv, t, 0)
    BY <1>2, NothingGained
  <2>3. /\ \A u : Pieces(inv, u) + Pieces(wares', u) <= Pieces(inv, u) + Pieces(wares, u)
        /\ \A u \in Goods :
              Pieces(inv, u) + Pieces(wares', u) = Pieces(inv, u) + Pieces(wares, u)
    BY <1>2, <1>4, <2>2, BothSides
  <2> QED BY <1>1, <1>2, <1>4, <2>1, <2>3, BalancedFrom
<1>5. CASE ~Has(wares, t) /\ wares' = rest /\ UNCHANGED <<hold, money>>
  <2>1. WaresOk(wares') /\ Gained(wares', wares, t, 0)
    BY <1>2, <1>5, EmptiedIs, NoneLeftIs DEF rest
  <2> QED BY <1>4, <1>5, <2>1
<1>6. CASE /\ Has(wares, t) /\ stack.n >= count
           /\ wares' = Without(wares, t, count)
           /\ hold' = [hold EXCEPT ![p] = With(inv, wares, t, count)]
           /\ money[p] >= count * Price(t).sell
           /\ money' = [money EXCEPT ![p] = @ - count * Price(t).sell]
  <2>1. count <= Pieces(wares, t)
    BY <1>1, <1>2, <1>6, StackIs DEF stack, rest
  <2>2. WaresOk(wares') /\ Gained(wares', wares, t, -count)
    BY <1>1, <1>2, <1>6, <2>1, WithoutIs
  <2> DEFINE out == With(inv, wares, t, count)
  <2>3. HoldOk(out) /\ Gained(out, inv, t, count)
    BY <1>1, <1>2, <1>6, WithIs
  <2> HIDE DEF out
  <2>4. /\ \A u : Pieces(out, u) + Pieces(wares', u) <= Pieces(inv, u) + Pieces(wares, u)
        /\ \A u \in Goods :
              Pieces(out, u) + Pieces(wares', u) = Pieces(inv, u) + Pieces(wares, u)
    BY <1>1, <1>2, <2>2, <2>3, BothSides
  <2>5. hold' = [hold EXCEPT ![p] = out]
    BY <1>6 DEF out
  <2>6. Stocked' /\ Balanced
    BY <1>1, <2>2, <2>3, <2>4, <2>5, BalancedFrom
  <2> QED BY <1>6, <2>2, <2>6
<1>7. CASE Has(wares, t) /\ wares' = Returned(wares, t) /\ UNCHANGED <<hold, money>>
  <2>1. WaresOk(wares') /\ Gained(wares', wares, t, 0)
    BY <1>2, <1>7, ReturnedIs
  <2> QED BY <1>4, <1>7, <2>1
<1> QED BY <1>3, <1>5, <1>6, <1>7

LEMMA PickUpStocks ==
    ASSUME Stocked, NEW p \in alive, quest[p] \in Quest, quest[p] # NoQuest,
           PickUp(p), UNCHANGED <<wares, alive>>
    PROVE  /\ Stocked'
           /\ \A t \in Goods : Total(t)' = Total(t)
           /\ Total("cargo")' = Total("cargo") + 1
<1> DEFINE inv == hold[p]
           q == quest[p].id
           x == Stack(Nil, "cargo", 1, q)
           out == AddItem(inv, x)
<1>1. hold' = [hold EXCEPT ![p] = out] /\ alive' = alive
  BY DEF PickUp
<1>2. HoldOk(inv) /\ inv \in Seq(StackType) /\ WaresOk(wares) /\ WaresOk(wares')
  BY DEF Stocked, HoldOk
<1>3. x \in StackType /\ x.type = "cargo" /\ x.n = 1 /\ x.id = Nil
  <2>1. q \in 0..MaxQuests
    BY CargoAssumption DEF Quest
  <2>2. x = [id |-> 0, type |-> "cargo", n |-> 1, quest |-> q, slot |-> 0]
    BY DEF Stack, Nil
  <2> HIDE DEF q, x
  <2> QED BY <2>1, <2>2 DEF StackType, Type, Nil
<1> HIDE DEF x
<1>4. OfType(inv, "cargo") = {} => Nil \notin Ids(inv)
  BY <1>2 DEF HoldOk, NilIsCargo, OfType, Ids
<1>5. /\ HoldOk(out)
      /\ \A t : Pieces(out, t) = Pieces(inv, t) + IF "cargo" = t THEN 1 ELSE 0
  <2>1. /\ out \in Seq(StackType) /\ SlotsApart(out)
        /\ IdsApart(inv) /\ (OfType(inv, x.type) = {} => x.id \notin Ids(inv))
             => IdsApart(out)
        /\ NilIsCargo(inv) /\ (x.id = Nil => x.type = "cargo") => NilIsCargo(out)
        /\ \A t : Pieces(out, t) = Pieces(inv, t) + IF x.type = t THEN x.n ELSE 0
    BY <1>2, <1>3, AddItemIs
  <2> HIDE DEF out
  <2> QED BY <1>2, <1>3, <1>4, <2>1 DEF HoldOk
<1> HIDE DEF out
<1>6. /\ Stocked'
      /\ \A t : Total(t)' + (Pieces(inv, t) + Pieces(wares, t))
                  = Total(t) + (Pieces(out, t) + Pieces(wares', t))
      /\ \A t : /\ Total(t) \in Nat /\ Total(t)' \in Nat
                /\ Pieces(inv, t) \in Nat /\ Pieces(wares, t) \in Nat
                /\ Pieces(out, t) \in Nat /\ Pieces(wares', t) \in Nat
  BY <1>1, <1>2, <1>5, OneChanges
<1>7. ASSUME NEW t \in Goods
      PROVE  Total(t)' = Total(t)
  <2>1. Pieces(out, t) = Pieces(inv, t) + 0
    BY <1>5, CargoAssumption
  <2> QED BY <1>6, <2>1
<1>8. Total("cargo")' = Total("cargo") + 1
  <2>1. Pieces(out, "cargo") = Pieces(inv, "cargo") + 1
    BY <1>5
  <2> QED BY <1>6, <2>1
<1> QED BY <1>6, <1>7, <1>8

LEMMA DropOffStocks ==
    ASSUME Stocked, NEW p \in alive, quest[p] # NoQuest,
           DropOff(p), UNCHANGED <<wares, alive>>
    PROVE  Stocked' /\ Balanced
<1> DEFINE inv == hold[p]
           I == QuestItems(inv, quest[p].id)
           out == WithoutFirst(inv, I)
<1>1. hold' = [hold EXCEPT ![p] = out]
  BY DEF DropOff, WithoutQuestItem
<1>2. HoldOk(inv) /\ inv \in Seq(StackType)
  BY DEF Stocked, HoldOk
<1>3. I \in SUBSET DOMAIN inv /\ \A i \in I : inv[i].type = "cargo"
  BY DEF QuestItems, OfType
<1> HIDE DEF I
<1>4. \A t : Pieces(inv, t) \in Nat
  BY <1>2, PiecesType
<1>5. /\ HoldOk(out)
      /\ \A t : Pieces(out, t) <= Pieces(inv, t)
      /\ \A t \in Goods : Pieces(out, t) = Pieces(inv, t)
  <2>1. CASE I = {}
    <3>1. out = inv
      BY <2>1 DEF WithoutFirst
    <3> QED BY <1>2, <1>4, <3>1
  <2>2. CASE I # {}
    <3> DEFINE m == inv[Min(I)]
    <3>1. m.type = "cargo" /\ m.n \in Nat
      BY <1>2, <1>3, <2>2, FirstOf
    <3>2. /\ out \in Seq(StackType)
          /\ SlotsApart(inv) => SlotsApart(out)
          /\ IdsApart(inv) => IdsApart(out)
          /\ NilIsCargo(inv) => NilIsCargo(out)
          /\ \A t : Pieces(out, t) + (IF m.type = t THEN m.n ELSE 0) = Pieces(inv, t)
      BY <1>2, <1>3, <2>2, WithoutFirstIs
    <3> HIDE DEF m, out
    <3>3. HoldOk(out)
      BY <1>2, <3>2 DEF HoldOk
    <3>4. \A t : Pieces(out, t) \in Nat
      BY <3>2, PiecesType
    <3>5. \A t : t # "cargo" => Pieces(out, t) + 0 = Pieces(inv, t)
      BY <3>1, <3>2
    <3>6. Pieces(out, "cargo") + m.n = Pieces(inv, "cargo")
      BY <3>1, <3>2
    <3>7. Pieces(out, "cargo") <= Pieces(inv, "cargo")
      BY <1>4, <3>1, <3>4, <3>6
    <3>8. \A t : t # "cargo" => Pieces(out, t) = Pieces(inv, t)
      BY <3>4, <3>5
    <3>9. \A t : Pieces(out, t) <= Pieces(inv, t)
      BY <1>4, <3>7, <3>8
    <3>10. \A t \in Goods : Pieces(out, t) = Pieces(inv, t)
      BY <3>8, CargoAssumption
    <3> QED BY <3>3, <3>9, <3>10
  <2> QED BY <2>1, <2>2
<1> HIDE DEF out
<1> QED BY <1>1, <1>5, AboardOnly

LEMMA MineStocks ==
    ASSUME Stocked, NEW p \in Player, NEW t \in Goods, Mine(p, t)
    PROVE  Stocked' /\ Total("cargo")' = Total("cargo")
<1> DEFINE inv == hold[p]
           id == NewId(inv)
           x == Stack(id, t, 1, 0)
           out == AddItem(inv, x)
<1>1. hold' = [hold EXCEPT ![p] = out] /\ alive' = alive /\ p \in alive /\ wares' = wares
  BY DEF Mine
<1>2. HoldOk(inv) /\ inv \in Seq(StackType) /\ WaresOk(wares) /\ WaresOk(wares')
  BY <1>1 DEF Stocked, HoldOk
<1>3. id \in Nat \ {Nil} /\ id \notin Ids(inv)
  BY <1>2, NewIdIs
<1>4. x \in StackType /\ x.type = t /\ x.id = id
  <2>1. x = [id |-> id, type |-> t, n |-> 1, quest |-> 0, slot |-> 0]
    BY DEF Stack
  <2>2. t \in Type /\ 0 \in 0..MaxQuests
    BY CargoAssumption DEF Type
  <2> HIDE DEF id, x
  <2> QED BY <1>3, <2>1, <2>2 DEF StackType
<1> HIDE DEF x, id
<1>5. HoldOk(out) /\ Pieces(out, "cargo") = Pieces(inv, "cargo") + 0
  <2>1. /\ out \in Seq(StackType) /\ SlotsApart(out)
        /\ IdsApart(inv) /\ (OfType(inv, x.type) = {} => x.id \notin Ids(inv))
             => IdsApart(out)
        /\ NilIsCargo(inv) /\ (x.id = Nil => x.type = "cargo") => NilIsCargo(out)
        /\ \A u : Pieces(out, u) = Pieces(inv, u) + IF x.type = u THEN x.n ELSE 0
    BY <1>2, <1>4, AddItemIs
  <2>2. t # "cargo"
    BY CargoAssumption
  <2> HIDE DEF out
  <2>3. Pieces(out, "cargo") = Pieces(inv, "cargo") + 0
    BY <1>4, <2>1, <2>2
  <2>4. HoldOk(out)
    BY <1>2, <1>3, <1>4, <2>1, <2>2 DEF HoldOk
  <2> QED BY <2>3, <2>4
<1> HIDE DEF out
<1>6. /\ Stocked'
      /\ Total("cargo")' + (Pieces(inv, "cargo") + Pieces(wares, "cargo"))
           = Total("cargo") + (Pieces(out, "cargo") + Pieces(wares', "cargo"))
      /\ Total("cargo") \in Nat /\ Total("cargo")' \in Nat
      /\ Pieces(inv, "cargo") \in Nat /\ Pieces(wares, "cargo") \in Nat
  <2>1. /\ Stocked'
        /\ \A u : Total(u)' + (Pieces(hold[p], u) + Pieces(wares, u))
                    = Total(u) + (Pieces(out, u) + Pieces(wares', u))
        /\ \A u : /\ Total(u) \in Nat /\ Total(u)' \in Nat
                  /\ Pieces(hold[p], u) \in Nat /\ Pieces(wares, u) \in Nat
    BY <1>1, <1>2, <1>5, OneChanges
  <2> QED BY <2>1
<1> QED BY <1>1, <1>5, <1>6

LEMMA NothingAboard ==
    HoldOk(<<>>) /\ \A t : Pieces(<<>>, t) = 0
<1>1. <<>> \in Seq(StackType)
  OBVIOUS
<1>2. HoldOk(<<>>)
  <2>1. DOMAIN (<<>>) = {}
    OBVIOUS
  <2>2. SlotsApart(<<>>) /\ IdsApart(<<>>) /\ NilIsCargo(<<>>)
    BY <2>1 DEF SlotsApart, IdsApart, NilIsCargo
  <2> QED BY <1>1, <2>2 DEF HoldOk
<1>3. \A t : OfType(<<>>, t) = {}
  BY DEF OfType
<1> QED BY <1>1, <1>2, <1>3, PiecesType, SumOfNone

\* A death leaves nothing of the ship.
LEMMA DieStocks ==
    ASSUME Stocked, NEW p \in Player, Die(p)
    PROVE  Stocked' /\ Total("cargo")' <= Total("cargo")
<1>1. /\ hold' = [hold EXCEPT ![p] = <<>>] /\ alive' = alive \ {p} /\ wares' = wares
      /\ p \in alive
  BY DEF Die
<1>2. <<>> \in Seq(StackType)
  OBVIOUS
<1>3. HoldOk(<<>>) /\ \A t : Pieces(<<>>, t) = 0
  BY NothingAboard
<1>4. hold \in Holds
  BY DEF Stocked
<1>5. /\ hold' \in Holds
      /\ \A t : /\ SumFunction(Loads(hold', t)) + Pieces(hold[p], t)
                     = SumFunction(Loads(hold, t)) + 0
                /\ SumFunction(Loads(hold', t)) \in Nat
                /\ SumFunction(Loads(hold, t)) \in Nat /\ Pieces(hold[p], t) \in Nat
  <2>1. /\ [hold EXCEPT ![p] = <<>>] \in Holds
        /\ \A t : /\ SumFunction(Loads([hold EXCEPT ![p] = <<>>], t)) + Pieces(hold[p], t)
                       = SumFunction(Loads(hold, t)) + Pieces(<<>>, t)
                  /\ SumFunction(Loads([hold EXCEPT ![p] = <<>>], t)) \in Nat
                  /\ SumFunction(Loads(hold, t)) \in Nat
                  /\ Pieces(hold[p], t) \in Nat /\ Pieces(<<>>, t) \in Nat
    BY <1>2, <1>4, LoadChanged
  <2> QED BY <1>1, <1>3, <2>1
<1>6. \A q \in Player : hold'[q] = IF q = p THEN <<>> ELSE hold[q]
  BY <1>1, <1>4 DEF Holds
<1>7. Stocked'
  <2>1. \A q \in Player : HoldOk(hold'[q])
    BY <1>3, <1>6 DEF Stocked
  <2>2. \A q \in Player \ alive' : hold'[q] = <<>>
    BY <1>1, <1>6 DEF Stocked
  <2> QED BY <1>1, <1>5, <2>1, <2>2 DEF Stocked
<1>8. Pieces(wares, "cargo") \in Nat
  BY PiecesType DEF Stocked, WaresOk
<1>9. /\ Total("cargo") = SumFunction(Loads(hold, "cargo")) + Pieces(wares, "cargo")
      /\ Total("cargo")' = SumFunction(Loads(hold', "cargo")) + Pieces(wares', "cargo")
  BY TotalIs
<1>10. Total("cargo")' <= Total("cargo")
  <2> DEFINE before == SumFunction(Loads(hold, "cargo"))
             after == SumFunction(Loads(hold', "cargo"))
             lost == Pieces(hold[p], "cargo")
  <2>1. after + lost = before + 0 /\ after \in Nat /\ before \in Nat /\ lost \in Nat
    BY <1>5
  <2>2. /\ Total("cargo") = before + Pieces(wares, "cargo")
        /\ Total("cargo")' = after + Pieces(wares, "cargo")
    BY <1>1, <1>9
  <2> HIDE DEF before, after, lost
  <2> QED BY <1>8, <2>1, <2>2
<1> QED BY <1>7, <1>10

LEMMA ShakeMarketStocks ==
    ASSUME Stocked, NEW t \in Goods, NEW n \in {0, Stock},
           NEW event \in {"normalize", "shortage_or_war", "boom_or_epidemic"},
           ShakeMarket(t, n, event)
    PROVE  Stocked' /\ Total("cargo")' = Total("cargo")
<1>1. UNCHANGED <<hold, alive>> /\ wares' = AfterEvent(event, t, n)
  BY DEF ShakeMarket
<1>2. n \in Nat
  <2>1. Stock \in Nat
    BY CargoAssumption
  <2>2. n = 0 \/ n = Stock
    BY Zenon
  <2> QED BY <2>1, <2>2
<1>3. WaresOk(wares') /\ Pieces(wares', "cargo") = Pieces(wares, "cargo")
  BY <1>1, <1>2, AfterEventIs DEF Stocked, WaresOk
<1>4. Stocked'
  BY <1>1, <1>3 DEF Stocked
<1> QED BY <1>1, <1>3, <1>4, TotalIs

-----------------------------------------------------------------------------
(***************************************************************************)
(* Dialogues and quests                                                    *)
(***************************************************************************)

\* Where a player may be in the scripts.
Endings == [Script -> {"closed", "arrival", "picked_up", "dropped_off"}]
Talks == {at \in Endings : /\ at["basic"] \in {"closed", "arrival"}
                           /\ at["pickup"] \in {"closed", "arrival", "picked_up"}
                           /\ at["dropoff"] \in {"closed", "arrival", "dropped_off"}}

LEMMA OptIs ==
    ASSUME NEW script, NEW at, NEW next, NEW does, NEW if
    PROVE  /\ Opt(script, at, next, does, if).script = script
           /\ Opt(script, at, next, does, if).at = at
           /\ Opt(script, at, next, does, if).next = next
           /\ Opt(script, at, next, does, if).does = does
           /\ Opt(script, at, next, does, if).if = if
BY DEF Opt

\* From where an option leads to where.
LEMMA OptionsAre ==
    ASSUME NEW o \in Options
    PROVE  /\ o.script \in Script
           /\ o.script = "basic" => o.next = "closed"
           /\ o.script = "pickup" => o.next \in {"closed", "picked_up"}
           /\ o.script = "dropoff" => o.next \in {"closed", "dropped_off"}
           /\ o.next \in {"closed", "arrival", "picked_up", "dropped_off"}
           /\ o.does = "pick_up" => o.script = "pickup" /\ o.at = "arrival"
           /\ o.does = "pickup" => o.if = "pickup_here"
<1> DEFINE Ok == /\ o.script \in Script
                 /\ o.script = "basic" => o.next = "closed"
                 /\ o.script = "pickup" => o.next \in {"closed", "picked_up"}
                 /\ o.script = "dropoff" => o.next \in {"closed", "dropped_off"}
                 /\ o.next \in {"closed", "arrival", "picked_up", "dropped_off"}
                 /\ o.does = "pick_up" => o.script = "pickup" /\ o.at = "arrival"
                 /\ o.does = "pickup" => o.if = "pickup_here"
<1>1. CASE o \in BasicOptions
  <2>1. o.script = "basic" /\ o.next = "closed" /\ o.does # "pick_up"
    BY <1>1, OptIs DEF BasicOptions
  <2>2. o.does = "pickup" => o.if = "pickup_here"
    BY <1>1, OptIs DEF BasicOptions
  <2>3. Ok
    BY <2>1, <2>2 DEF Script
  <2> QED BY <2>3
<1>2. CASE o \in PickupOptions
  <2>1. o.script = "pickup" /\ o.next \in {"closed", "picked_up"} /\ o.does # "pickup"
    BY <1>2, OptIs DEF PickupOptions
  <2>2. o.does = "pick_up" => o.at = "arrival"
    BY <1>2, OptIs DEF PickupOptions
  <2>3. Ok
    BY <2>1, <2>2 DEF Script
  <2> QED BY <2>3
<1>3. CASE o \in DropoffOptions
  <2>1. o.script = "dropoff" /\ o.next \in {"closed", "dropped_off"}
    BY <1>3, OptIs DEF DropoffOptions
  <2>2. o.does # "pick_up" /\ o.does # "pickup"
    BY <1>3, OptIs DEF DropoffOptions
  <2>3. Ok
    BY <2>1, <2>2 DEF Script
  <2> QED BY <2>3
<1> QED BY <1>1, <1>2, <1>3 DEF Options

LEMMA TriggeredIs ==
    ASSUME NEW at \in Talks, NEW s \in Script
    PROVE  /\ Triggered(at, s) \in Talks
           /\ s # "pickup" => Triggered(at, s)["pickup"] = at["pickup"]
BY DEF Triggered, Talks, Endings, Script

LEMMA AnsweredIs ==
    ASSUME NEW at \in Talks, NEW o \in Options, at[o.script] = o.at
    PROVE  /\ Answered(at, o) \in Talks
           /\ Answered(at, o)["pickup"] = "arrival"
                => at["pickup"] = "arrival" \/ o.does = "pickup"
           /\ o.does = "pick_up" => at["pickup"] = "arrival"
           /\ o.does = "pick_up" => Answered(at, o)["pickup"] # "arrival"
<1> DEFINE left == [at EXCEPT ![o.script] = o.next]
<1>1. /\ o.script \in Script
      /\ o.script = "basic" => o.next = "closed"
      /\ o.script = "pickup" => o.next \in {"closed", "picked_up"}
      /\ o.script = "dropoff" => o.next \in {"closed", "dropped_off"}
      /\ o.next \in {"closed", "arrival", "picked_up", "dropped_off"}
      /\ o.does = "pick_up" => o.script = "pickup" /\ o.at = "arrival"
  BY OptionsAre
<1>2. left \in Talks
  BY <1>1 DEF Talks, Endings, Script
<1>3. left["pickup"] = "arrival" => at["pickup"] = "arrival"
  BY <1>1 DEF Talks, Endings, Script
<1>4. o.does = "pick_up" => left["pickup"] # "arrival" /\ at["pickup"] = "arrival"
  BY <1>1 DEF Talks, Endings, Script
<1>5. Answered(at, o) = IF o.does \in Script THEN Triggered(left, o.does) ELSE left
  BY DEF Answered
<1> HIDE DEF left
<1>6. CASE o.does \in Script
  <2>1. o.does # "pick_up"
    BY <1>6 DEF Script
  <2> QED BY <1>2, <1>3, <1>5, <1>6, <2>1, TriggeredIs
<1>7. CASE o.does \notin Script
  BY <1>2, <1>3, <1>4, <1>5, <1>7
<1> QED BY <1>6, <1>7

\* Everything but the inventories.
Status ==
    /\ phase \in {"actions", "flight"}
    /\ money \in [Player -> Nat] /\ alive \subseteq Player
    /\ docked \in [Player -> Planet \cup {NoPlanet}]
    /\ \A p \in Player \ alive : docked[p] = NoPlanet
    /\ quest \in [Player -> Quest \cup {NoQuest}] /\ issued \in 0..MaxQuests
    /\ talk \in [Player -> Talks]

\* A quest can bring a cargo when it has just been given, or when the player is
\* where a cargo is handed out; no quest brings another one.
Owes(at, q) == at["pickup"] = "arrival" \/ (q # NoQuest /\ q.stage = "started")
Owed == {p \in Player : Owes(talk[p], quest[p])}
Charged == Total("cargo") + Cardinality(Owed) <= issued

IInv == Stocked /\ Status /\ Charged

LEMMA OwedFinite ==
    /\ IsFiniteSet(Owed) /\ Cardinality(Owed) \in Nat
    /\ IsFiniteSet(Owed') /\ Cardinality(Owed') \in Nat
<1>1. Owed \in SUBSET Player /\ Owed' \in SUBSET Player /\ IsFiniteSet(Player)
  BY CargoAssumption DEF Owed
<1>2. IsFiniteSet(Owed) /\ IsFiniteSet(Owed')
  BY <1>1, FS_Subset
<1> QED BY <1>2, FS_CardinalityType

\* Nothing that could bring a cargo comes, and no cargo does.
LEMMA ChargedStays ==
    ASSUME Charged, Status, Total("cargo") \in Nat, Total("cargo")' \in Nat,
           Total("cargo")' <= Total("cargo"), Owed' \subseteq Owed, issued' = issued
    PROVE  Charged'
<1>1. Cardinality(Owed') <= Cardinality(Owed)
  BY OwedFinite, FS_Subset
<1>2. issued \in Nat
  BY CargoAssumption DEF Status
<1> QED BY <1>1, <1>2, OwedFinite DEF Charged

Countable == \A t : Total(t) \in Nat

LEMMA TotalNat == Stocked => Countable
<1>1. ASSUME Stocked
      PROVE  \A t : Pieces(wares, t) \in Nat /\ SumFunction(Loads(hold, t)) \in Nat
  BY <1>1, PiecesType, LoadsNatural DEF Stocked, WaresOk
<1> QED BY <1>1, TotalIs DEF Countable

LEMMA TotalNatNext == Stocked' => Countable'
BY TotalNat, PTL

-----------------------------------------------------------------------------
(***************************************************************************)
(* The invariant                                                           *)
(***************************************************************************)

\* Inventories and money change, and nothing else.
LEMMA InventoriesOnly ==
    ASSUME IInv, Stocked', UNCHANGED <<phase, alive, docked, quest, issued, talk>>,
           money' \in [Player -> Nat], Total("cargo")' <= Total("cargo")
    PROVE  IInv'
<1>1. Status'
  BY DEF Status, IInv
<1>2. Owed' = Owed
  BY DEF Owed
<1>3. Total("cargo") \in Nat /\ Total("cargo")' \in Nat
  BY TotalNat, TotalNatNext DEF IInv, Countable
<1>4. Charged'
  BY <1>2, <1>3, ChargedStays DEF IInv
<1> QED BY <1>1, <1>4 DEF IInv

LEMMA Product ==
    ASSUME NEW a \in Nat, NEW b \in Nat
    PROVE  a * b \in Nat
OBVIOUS

LEMMA PriceIs ==
    ASSUME NEW t
    PROVE  Price(t).buy \in Nat /\ Price(t).sell \in Nat
<1>1. Sells \in Nat /\ Buys \in Nat /\ CargoSells \in Nat /\ 0 \in Nat
  BY CargoAssumption
<1> QED BY <1>1 DEF Price

\* A trade pays what is bought, and leaves nobody with a debt.
LEMMA TradeMoney ==
    ASSUME Status, NEW p \in Player, NEW t \in Type, NEW count \in 1..MaxCount,
           Sell(p, t, count) \/ Buy(p, t, count)
    PROVE  money' \in [Player -> Nat]
<1> DEFINE gain == count * Price(t).buy
           cost == count * Price(t).sell
<1>1. gain \in Nat /\ cost \in Nat
  <2>1. count \in Nat
    <3>1. MaxCount \in Nat
      BY CargoAssumption
    <3> QED BY <3>1
  <2> QED BY <2>1, PriceIs, Product
<1>2. \/ money' = money
      \/ money' = [money EXCEPT ![p] = @ + gain]
      \/ money[p] >= cost /\ money' = [money EXCEPT ![p] = @ - cost]
  BY DEF Sell, Buy
<1> HIDE DEF gain, cost
<1>3. money \in [Player -> Nat]
  BY DEF Status
<1> QED BY <1>1, <1>2, <1>3

\* Talking, docking and undocking, with the same quests.
LEMMA NoInventories ==
    ASSUME IInv, UNCHANGED <<hold, wares, alive, quest, issued>>,
           phase' \in {"actions", "flight"}, money' \in [Player -> Nat],
           docked' \in [Player -> Planet \cup {NoPlanet}],
           \A p \in Player \ alive : docked'[p] = NoPlanet,
           talk' \in [Player -> Talks],
           \A p \in Player : talk'[p]["pickup"] = talk[p]["pickup"]
    PROVE  IInv'
<1>1. Status'
  BY DEF Status, IInv
<1>2. Owed' = Owed
  BY DEF Owed, Owes
<1>3. Stocked'
  BY DEF Stocked, IInv
<1>4. Total("cargo")' = Total("cargo") /\ Total("cargo") \in Nat
  BY Unmoved DEF IInv
<1>5. Charged'
  BY <1>2, <1>4, ChargedStays DEF IInv
<1> QED BY <1>1, <1>3, <1>5 DEF IInv

\* Somebody is asked from the beginning of a script that hands nothing out.
LEMMA TriggerTalk ==
    ASSUME talk \in [Player -> Talks], NEW p \in Player,
           talk' = [talk EXCEPT ![p] = Triggered(@, "basic")]
    PROVE  /\ talk' \in [Player -> Talks]
           /\ \A q \in Player : talk'[q]["pickup"] = talk[q]["pickup"]
<1> DEFINE new == Triggered(talk[p], "basic")
<1>1. new \in Talks /\ new["pickup"] = talk[p]["pickup"]
  BY TriggeredIs DEF Script
<1>2. talk' = [talk EXCEPT ![p] = new]
  OBVIOUS
<1> HIDE DEF new
<1> QED BY <1>1, <1>2

LEMMA DieKeeps ==
    ASSUME IInv, NEW p \in Player, Die(p)
    PROVE  IInv'
<1>1. Stocked' /\ Total("cargo")' <= Total("cargo")
  BY DieStocks DEF IInv
<1>2. Status'
  <2> DEFINE left == IF money[p] > Fine THEN money[p] - Fine ELSE 0
  <2>1. left \in Nat
    <3>1. Fine \in Nat /\ money[p] \in Nat
      BY CargoAssumption DEF IInv, Status
    <3> QED BY <3>1
  <2>2. money' = [money EXCEPT ![p] = left]
    BY DEF Die
  <2> HIDE DEF left
  <2>3. money' \in [Player -> Nat]
    BY <2>1, <2>2 DEF IInv, Status
  <2>4. /\ alive' = alive \ {p} /\ docked' = [docked EXCEPT ![p] = NoPlanet]
        /\ UNCHANGED <<phase, quest, issued, talk>>
    BY DEF Die
  <2>5. docked' \in [Player -> Planet \cup {NoPlanet}]
    BY <2>4 DEF IInv, Status
  <2>6. \A q \in Player \ alive' : docked'[q] = NoPlanet
    BY <2>4 DEF IInv, Status
  <2> QED BY <2>3, <2>4, <2>5, <2>6 DEF IInv, Status
<1>3. Owed' = Owed /\ issued' = issued
  BY DEF Owed, Die
<1>4. Total("cargo") \in Nat /\ Total("cargo")' \in Nat
  BY <1>1, TotalNat, TotalNatNext DEF IInv, Countable
<1>5. Charged'
  BY <1>1, <1>3, <1>4, ChargedStays DEF IInv
<1> QED BY <1>1, <1>2, <1>5 DEF IInv

\* Who has no ship is docked nowhere and carries nothing until then.
LEMMA RespawnKeeps ==
    ASSUME IInv, NEW p \in Player, Respawn(p)
    PROVE  IInv'
<1>1. /\ alive' = alive \cup {p}
      /\ UNCHANGED <<phase, hold, wares, money, docked, quest, issued, talk>>
  BY DEF Respawn
<1>2. Stocked' /\ Status'
  BY <1>1 DEF IInv, Stocked, Status
<1>3. Owed' = Owed
  BY <1>1 DEF Owed
<1>4. Total("cargo")' = Total("cargo") /\ Total("cargo") \in Nat
  BY <1>1, Unmoved DEF IInv
<1>5. Charged'
  BY <1>1, <1>3, <1>4, ChargedStays DEF IInv
<1> QED BY <1>2, <1>5 DEF IInv

\* Every new quest is counted, and makes at most one player owe a cargo.
LEMMA UpdateQuestsKeeps ==
    ASSUME IInv, UpdateQuests
    PROVE  IInv'
<1> DEFINE idle == {p \in alive : quest[p] = NoQuest}
           new == IF issued + Cardinality(idle) <= MaxQuests THEN idle ELSE {}
<1>1. IsFiniteSet(idle) /\ Cardinality(idle) \in Nat
  <2>1. idle \in SUBSET Player /\ IsFiniteSet(Player)
    BY CargoAssumption DEF IInv, Status
  <2> QED BY <2>1, FS_Subset, FS_CardinalityType
<1>2. /\ IsFiniteSet(new) /\ Cardinality(new) \in Nat
      /\ issued + Cardinality(new) <= MaxQuests
  <2>1. issued \in Nat /\ issued <= MaxQuests /\ MaxQuests \in Nat
    BY CargoAssumption DEF IInv, Status
  <2>2. IsFiniteSet({}) /\ Cardinality({}) = 0
    BY FS_EmptySet
  <2> HIDE DEF idle
  <2>3. CASE issued + Cardinality(idle) <= MaxQuests
    BY <1>1, <2>3
  <2>4. CASE ~(issued + Cardinality(idle) <= MaxQuests)
    BY <2>1, <2>2, <2>4
  <2> QED BY <2>3, <2>4
<1>3. PICK id \in [new -> issued + 1 .. issued + Cardinality(new)] :
         quest' \in {f \in [Player -> Quest \cup {NoQuest}] :
                        \A p \in Player :
                            IF p \in new THEN f[p] \in NewQuests(p, id[p])
                            ELSE f[p] = IF Failed(p) THEN NoQuest ELSE quest[p]}
  BY DEF UpdateQuests
<1>4. /\ issued' = issued + Cardinality(new) /\ phase' = "flight"
      /\ UNCHANGED <<hold, wares, money, alive, docked, talk>>
  BY DEF UpdateQuests
<1> HIDE DEF new, idle
<1>5. /\ quest' \in [Player -> Quest \cup {NoQuest}]
      /\ \A p \in Player \ new : quest'[p] = NoQuest \/ quest'[p] = quest[p]
  BY <1>3
<1>6. Stocked'
  BY <1>4 DEF IInv, Stocked
<1>7. Status'
  <2>1. issued' \in 0..MaxQuests
    BY <1>2, <1>4, CargoAssumption DEF IInv, Status
  <2> QED BY <1>4, <1>5, <2>1 DEF IInv, Status
<1>8. Owed' \subseteq Owed \cup new
  BY <1>4, <1>5 DEF Owed, Owes
<1>9. Cardinality(Owed') <= Cardinality(Owed) + Cardinality(new)
  <2>1. /\ IsFiniteSet(Owed \cup new)
        /\ Cardinality(Owed \cup new)
             = Cardinality(Owed) + Cardinality(new) - Cardinality(Owed \cap new)
    BY <1>2, OwedFinite, FS_Union
  <2>2. Cardinality(Owed \cap new) \in Nat
    BY OwedFinite, FS_Intersection, FS_CardinalityType
  <2>3. Cardinality(Owed') <= Cardinality(Owed \cup new)
    BY <1>8, <2>1, FS_Subset
  <2> QED BY <1>2, <2>1, <2>2, <2>3, OwedFinite
<1>10. Total("cargo")' = Total("cargo") /\ Total("cargo") \in Nat
  BY <1>4, Unmoved DEF IInv
<1>11. Charged'
  <2>1. issued \in Nat
    BY CargoAssumption DEF IInv, Status
  <2> QED BY <1>2, <1>4, <1>9, <1>10, <2>1, OwedFinite DEF IInv, Charged
<1> QED BY <1>6, <1>7, <1>11 DEF IInv

-----------------------------------------------------------------------------
(***************************************************************************)
(* Options                                                                 *)
(***************************************************************************)

LEMMA Staged ==
    ASSUME NEW q \in Quest, NEW s \in {"started", "picked", "delivered"}
    PROVE  [q EXCEPT !.stage = s] \in Quest /\ [q EXCEPT !.stage = s].stage = s
BY DEF Quest

\* An option that brings no cargo: what it does to quests and dialogues leaves
\* who owes one among those who did.
LEMMA QuietOption ==
    ASSUME IInv, Stocked', NEW p \in Player, NEW o \in Options, Choose(p, o),
           Total("cargo")' <= Total("cargo"),
           money' \in [Player -> Nat],
           docked' = docked \/ docked' = [docked EXCEPT ![p] = NoPlanet],
           NEW q \in Quest \cup {NoQuest}, quest' = [quest EXCEPT ![p] = q],
           q = quest[p] \/ q = NoQuest \/ q.stage # "started"
    PROVE  IInv'
<1>1. /\ talk[p][o.script] = o.at
      /\ talk' = [talk EXCEPT ![p] = Answered(@, o)]
      /\ UNCHANGED <<phase, wares, alive, issued>>
      /\ Shown(p, o)
  BY DEF Choose, Execute
<1>2. /\ talk \in [Player -> Talks] /\ docked \in [Player -> Planet \cup {NoPlanet}]
      /\ quest \in [Player -> Quest \cup {NoQuest}]
  BY DEF IInv, Status
<1> DEFINE new == Answered(talk[p], o)
<1>3. /\ new \in Talks
      /\ new["pickup"] = "arrival" => talk[p]["pickup"] = "arrival" \/ o.does = "pickup"
  BY <1>1, <1>2, AnsweredIs
<1>4. talk' = [talk EXCEPT ![p] = new]
  BY <1>1
<1> HIDE DEF new
<1>5. Status'
  <2>1. talk' \in [Player -> Talks] /\ quest' \in [Player -> Quest \cup {NoQuest}]
    BY <1>2, <1>3, <1>4
  <2>2. docked' \in [Player -> Planet \cup {NoPlanet}]
    BY <1>2
  <2>3. \A r \in Player \ alive' : docked'[r] = NoPlanet
    BY <1>1, <1>2 DEF IInv, Status
  <2> QED BY <1>1, <2>1, <2>2, <2>3 DEF IInv, Status
<1>6. o.does = "pickup" => p \in Owed
  <2> SUFFICES ASSUME o.does = "pickup"
               PROVE  p \in Owed
    OBVIOUS
  <2>1. o.if = "pickup_here"
    BY OptionsAre
  <2>2. quest[p] # NoQuest /\ quest[p].stage = "started"
    BY <1>1, <2>1 DEF Shown
  <2> QED BY <2>2 DEF Owed, Owes
<1>7. Owed' \subseteq Owed
  <2>1. \A r \in Player \ {p} : talk'[r] = talk[r] /\ quest'[r] = quest[r]
    BY <1>2, <1>4
  <2>2. talk'[p] = new /\ quest'[p] = q
    BY <1>2, <1>4
  <2>3. p \in Owed' => p \in Owed
    <3> SUFFICES ASSUME Owes(new, q)
                 PROVE  p \in Owed
      BY <2>2 DEF Owed
    <3>1. CASE new["pickup"] = "arrival"
      BY <1>3, <1>6, <3>1 DEF Owed, Owes
    <3>2. CASE q # NoQuest /\ q.stage = "started"
      BY <3>2 DEF Owed, Owes
    <3> QED BY <3>1, <3>2 DEF Owes
  <2>4. \A r \in Player \ {p} : r \in Owed' => r \in Owed
    BY <2>1 DEF Owed
  <2> QED BY <2>3, <2>4 DEF Owed
<1>8. Total("cargo") \in Nat /\ Total("cargo")' \in Nat
  BY TotalNat, TotalNatNext DEF IInv, Countable
<1>9. Charged'
  BY <1>1, <1>7, <1>8, ChargedStays DEF IInv
<1> QED BY <1>5, <1>9 DEF IInv

\* Picking a cargo up takes the player off the list of those who owe one.
LEMMA PickUpKeeps ==
    ASSUME IInv, NEW p \in alive, NEW o \in Options, Choose(p, o), o.does = "pick_up",
           PickUp(p), quest[p] # NoQuest
    PROVE  IInv' /\ \A t \in Goods : Total(t)' = Total(t)
<1>1. /\ talk[p][o.script] = o.at
      /\ talk' = [talk EXCEPT ![p] = Answered(@, o)]
      /\ UNCHANGED <<phase, wares, alive, issued>>
  BY DEF Choose, Execute
<1>2. /\ talk \in [Player -> Talks] /\ p \in Player
      /\ quest \in [Player -> Quest \cup {NoQuest}] /\ quest[p] \in Quest
  BY DEF IInv, Status
<1> DEFINE new == Answered(talk[p], o)
           q == [quest[p] EXCEPT !.stage = "picked"]
<1>3. new \in Talks /\ talk[p]["pickup"] = "arrival" /\ new["pickup"] # "arrival"
  BY <1>1, <1>2, AnsweredIs
<1>4. q \in Quest /\ q.stage = "picked"
  BY <1>2, Staged
<1>5. talk' = [talk EXCEPT ![p] = new] /\ quest' = [quest EXCEPT ![p] = q]
  BY <1>1 DEF PickUp
<1>6. UNCHANGED <<money, docked>>
  BY DEF PickUp
<1> HIDE DEF new, q
<1>7. /\ Stocked' /\ Total("cargo")' = Total("cargo") + 1
      /\ \A t \in Goods : Total(t)' = Total(t)
  BY <1>1, <1>2, PickUpStocks DEF IInv
<1>8. Status'
  <2>1. talk' \in [Player -> Talks] /\ quest' \in [Player -> Quest \cup {NoQuest}]
    BY <1>2, <1>3, <1>4, <1>5
  <2> QED BY <1>1, <1>6, <2>1 DEF IInv, Status
<1>9. p \in Owed /\ Owed' \subseteq Owed \ {p}
  <2>1. \A r \in Player \ {p} : talk'[r] = talk[r] /\ quest'[r] = quest[r]
    BY <1>2, <1>5
  <2>2. talk'[p] = new /\ quest'[p] = q
    BY <1>2, <1>5
  <2>3. p \in Owed
    BY <1>2, <1>3 DEF Owed, Owes
  <2>4. p \notin Owed'
    BY <1>3, <1>4, <2>2 DEF Owed, Owes
  <2>5. \A r \in Player \ {p} : r \in Owed' => r \in Owed
    BY <2>1 DEF Owed
  <2> QED BY <2>3, <2>4, <2>5 DEF Owed
<1>10. Cardinality(Owed') + 1 <= Cardinality(Owed)
  <2>1. IsFiniteSet(Owed \ {p}) /\ Cardinality(Owed \ {p}) = Cardinality(Owed) - 1
    BY <1>9, OwedFinite, FS_RemoveElement
  <2>2. Cardinality(Owed') <= Cardinality(Owed \ {p})
    BY <1>9, <2>1, FS_Subset
  <2> QED BY <2>1, <2>2, OwedFinite
<1>11. Charged'
  <2>1. Total("cargo") \in Nat /\ issued \in Nat
    BY TotalNat, CargoAssumption DEF IInv, Countable, Status
  <2> QED BY <1>1, <1>7, <1>10, <2>1, OwedFinite DEF IInv, Charged
<1> QED BY <1>7, <1>8, <1>11 DEF IInv

LEMMA ChooseKeeps ==
    ASSUME IInv, NEW p \in Player, NEW o \in Options, Choose(p, o)
    PROVE  IInv' /\ \A t \in Goods : Total(t)' = Total(t)
<1>1. /\ phase = "actions" /\ SideEffects(p, o)
      /\ UNCHANGED <<phase, wares, alive, issued>>
  BY DEF Choose, Execute
<1>2. /\ quest \in [Player -> Quest \cup {NoQuest}] /\ money \in [Player -> Nat]
      /\ quest[p] \in Quest \cup {NoQuest} /\ quest = [quest EXCEPT ![p] = quest[p]]
      /\ Stocked
  BY DEF IInv, Status
<1>3. ASSUME UNCHANGED hold
      PROVE  /\ Stocked' /\ Total("cargo")' <= Total("cargo")
             /\ \A t \in Goods : Total(t)' = Total(t)
  <2>1. Balanced
    BY <1>1, <1>2, <1>3, Unmoved
  <2> QED BY <1>1, <1>2, <1>3, <2>1 DEF Stocked, Balanced
<1>4. ASSUME UNCHANGED <<hold, money, quest>>,
             docked' = docked \/ docked' = [docked EXCEPT ![p] = NoPlanet]
      PROVE  IInv'
  <2>1. Stocked' /\ Total("cargo")' <= Total("cargo")
    BY <1>3, <1>4
  <2>2. money' \in [Player -> Nat] /\ quest' = [quest EXCEPT ![p] = quest[p]]
    BY <1>2, <1>4
  <2> DEFINE q == quest[p]
  <2>3. /\ q \in Quest \cup {NoQuest} /\ quest' = [quest EXCEPT ![p] = q]
        /\ q = quest[p] \/ q = NoQuest \/ q.stage # "started"
    BY <1>2, <2>2
  <2> HIDE DEF q
  <2> QED BY <1>4, <2>1, <2>2, <2>3, QuietOption
<1>5. CASE o.does = "pick_up" /\ PickUp(p)
  <2>1. CASE p \in alive /\ quest[p] # NoQuest
    BY <1>5, <2>1, PickUpKeeps
  <2>2. CASE ~(p \in alive /\ quest[p] # NoQuest)
    <3>1. UNCHANGED <<hold, money, quest, docked>>
      BY <1>5, <2>2 DEF PickUp
    <3> QED BY <1>3, <1>4, <3>1
  <2> QED BY <2>1, <2>2
<1>6. CASE o.does = "drop_off" /\ DropOff(p)
  <2>1. CASE p \in alive /\ quest[p] # NoQuest
    <3>1. Stocked' /\ Balanced
      BY <1>1, <1>2, <1>6, <2>1, DropOffStocks
    <3> DEFINE q == [quest[p] EXCEPT !.stage = "delivered"]
    <3>2. q \in Quest /\ q.stage = "delivered"
      BY <1>2, <2>1, Staged
    <3>3. quest' = [quest EXCEPT ![p] = q] /\ UNCHANGED <<money, docked>>
      BY <1>6, <2>1 DEF DropOff
    <3> HIDE DEF q
    <3>4. /\ q \in Quest \cup {NoQuest} /\ money' \in [Player -> Nat]
          /\ q.stage # "started"
      BY <1>2, <3>2, <3>3
    <3>5. Total("cargo")' <= Total("cargo") /\ docked' = docked
      BY <3>1, <3>3 DEF Balanced
    <3>6. IInv'
      BY <3>1, <3>3, <3>4, <3>5, QuietOption
    <3> QED BY <3>1, <3>6 DEF Balanced
  <2>2. CASE ~(p \in alive /\ quest[p] # NoQuest)
    <3>1. UNCHANGED <<hold, money, quest, docked>>
      BY <1>6, <2>2 DEF DropOff
    <3> QED BY <1>3, <1>4, <3>1
  <2> QED BY <2>1, <2>2
<1>7. CASE o.does = "undock" /\ Undock(p)
  BY <1>3, <1>4, <1>7 DEF Undock
<1>8. CASE o.does = "undock_and_collect" /\ UndockAndCollect(p)
  <2>0. docked' = [docked EXCEPT ![p] = NoPlanet] /\ UNCHANGED hold
    BY <1>8 DEF UndockAndCollect
  <2>1. CASE quest[p] # NoQuest
    <3> DEFINE sum == money[p] + Reward
    <3>1. sum \in Nat
      <4>1. Reward \in Nat /\ money[p] \in Nat
        BY <1>2, CargoAssumption
      <4> QED BY <4>1
    <3>2. money' = [money EXCEPT ![p] = sum] /\ quest' = [quest EXCEPT ![p] = NoQuest]
      BY <1>8, <2>1 DEF UndockAndCollect
    <3> HIDE DEF sum
    <3>3. money' \in [Player -> Nat]
      BY <1>2, <3>1, <3>2
    <3> DEFINE q == NoQuest
    <3>4. /\ q \in Quest \cup {NoQuest} /\ quest' = [quest EXCEPT ![p] = q]
          /\ q = quest[p] \/ q = NoQuest \/ q.stage # "started"
      BY <3>2
    <3> HIDE DEF q
    <3>5. Stocked' /\ Total("cargo")' <= Total("cargo")
      BY <1>3, <2>0
    <3>6. IInv'
      BY <2>0, <3>3, <3>4, <3>5, QuietOption
    <3> QED BY <1>3, <2>0, <3>6
  <2>2. CASE ~(quest[p] # NoQuest)
    <3>1. UNCHANGED <<money, quest>>
      BY <1>8, <2>2 DEF UndockAndCollect
    <3> QED BY <1>3, <1>4, <2>0, <3>1
  <2> QED BY <2>1, <2>2
<1>9. CASE o.does \in Script \cup {"trade"} /\ UNCHANGED <<hold, money, docked, quest>>
  BY <1>3, <1>4, <1>9
<1> QED BY <1>1, <1>5, <1>6, <1>7, <1>8, <1>9 DEF SideEffects

-----------------------------------------------------------------------------
(***************************************************************************)
(* Every step                                                              *)
(***************************************************************************)

\* What a step may do to goods: nothing, unless something flies.
GoodsStay == phase = "actions" =>
                 (\A t \in Goods : Total(t)' = Total(t)) \/ MergedOntoNothing

LEMMA InitHolds == Init => IInv
<1> SUFFICES ASSUME Init
             PROVE  IInv
  OBVIOUS
<1>1. \A p \in Player : hold[p] = <<>> /\ <<>> \in Seq(StackType)
  BY DEF Init
<1>2. hold \in Holds
  BY <1>1 DEF Init, Holds
<1>3. \A p \in Player : HoldOk(hold[p])
  BY <1>1, NothingAboard
<1>4. WaresOk(wares) /\ Pieces(wares, "cargo") = 0
  BY DefaultWaresAre DEF Init, WaresOk
<1>5. Stocked
  BY <1>2, <1>3, <1>4 DEF Init, Stocked
<1>6. Status
  <2> DEFINE at == [s \in Script |-> "closed"]
  <2>1. at \in Talks
    BY DEF Talks, Endings, Script
  <2>2. talk = [p \in Player |-> at]
    BY DEF Init
  <2> HIDE DEF at
  <2>3. talk \in [Player -> Talks]
    BY <2>1, <2>2
  <2>4. 0 \in Nat /\ 0 \in 0..MaxQuests
    BY CargoAssumption
  <2> QED BY <2>3, <2>4 DEF Init, Status
<1>7. Charged
  <2>1. Owed = {}
    BY DEF Init, Owed, Owes, Script
  <2>2. Cardinality(Owed) = 0
    BY <2>1, FS_EmptySet
  <2>3. SumFunction(Loads(hold, "cargo")) = 0
    <3>1. \A p \in Player : Loads(hold, "cargo")[p] = 0
      BY <1>1, NothingAboard DEF Loads
    <3>2. SumFunctionOnSet(Loads(hold, "cargo"), Player) = 0
      BY <3>1, SumZero, CargoAssumption
    <3> QED BY <1>2, <3>2, LoadsNatural
  <2>4. Total("cargo") = 0
    BY <1>4, <2>3, TotalIs
  <2> QED BY <2>2, <2>4 DEF Charged, Init
<1> QED BY <1>5, <1>6, <1>7 DEF IInv

LEMMA ActsKeep ==
    ASSUME IInv, NEW p \in Player, PlayerActs(p)
    PROVE  IInv' /\ GoodsStay
<1>0. Stocked /\ Status
  BY DEF IInv
<1>1. ASSUME NEW from \in Ids(hold[p]), NEW to \in Ids(hold[p]) \cup {Gone},
             Merge(p, from, to)
      PROVE  IInv' /\ GoodsStay
  <2>1. /\ Stocked' /\ Total("cargo")' <= Total("cargo")
        /\ to \in Ids(hold[p]) => Balanced
    BY <1>0, <1>1, MergeStocks
  <2>2. UNCHANGED <<phase, alive, docked, quest, issued, talk>> /\ money' \in [Player -> Nat]
    BY <1>0, <1>1 DEF Merge, Status
  <2>3. IInv'
    BY <2>1, <2>2, InventoriesOnly
  <2>4. GoodsStay
    <3>1. CASE to \in Ids(hold[p])
      BY <2>1, <3>1 DEF GoodsStay, Balanced
    <3>2. CASE to = Gone
      BY <1>1, <3>2 DEF GoodsStay, MergedOntoNothing
    <3> QED BY <3>1, <3>2
  <2> QED BY <2>3, <2>4
<1>2. ASSUME Stocked', Balanced, UNCHANGED <<phase, alive, docked, quest, issued, talk>>,
             money' \in [Player -> Nat]
      PROVE  IInv' /\ GoodsStay
  <2>1. Total("cargo")' <= Total("cargo")
    BY <1>2 DEF Balanced
  <2>2. IInv'
    BY <1>2, <2>1, InventoriesOnly
  <2>3. GoodsStay
    BY <1>2 DEF GoodsStay, Balanced
  <2> QED BY <2>2, <2>3
<1>3. ASSUME NEW i \in Positions(p), NEW count \in 1..MaxCount, Split(p, i, count)
      PROVE  IInv' /\ GoodsStay
  <2>1. Stocked' /\ Balanced
    BY <1>0, <1>3, SplitStocks
  <2>2. UNCHANGED <<phase, alive, docked, quest, issued, talk>> /\ money' \in [Player -> Nat]
    BY <1>0, <1>3 DEF Split, Status
  <2> QED BY <1>2, <2>1, <2>2
<1>4. ASSUME NEW i \in Positions(p), NEW slot \in 0..MaxSlot, Move(p, i, slot)
      PROVE  IInv' /\ GoodsStay
  <2>1. Stocked' /\ Balanced
    BY <1>0, <1>4, MoveStocks
  <2>2. UNCHANGED <<phase, alive, docked, quest, issued, talk>> /\ money' \in [Player -> Nat]
    BY <1>0, <1>4 DEF Move, Status
  <2> QED BY <1>2, <2>1, <2>2
<1>5. ASSUME NEW t \in Type, NEW count \in 1..MaxCount, Sell(p, t, count) \/ Buy(p, t, count)
      PROVE  IInv' /\ GoodsStay
  <2>1. Stocked' /\ Balanced
    BY <1>0, <1>5, SellStocks, BuyStocks
  <2>2. UNCHANGED <<phase, alive, docked, quest, issued, talk>>
    BY <1>5 DEF Sell, Buy
  <2>3. money' \in [Player -> Nat]
    BY <1>0, <1>5, TradeMoney
  <2> QED BY <1>2, <2>1, <2>2, <2>3
<1>6. ASSUME NEW o \in Options, Choose(p, o)
      PROVE  IInv' /\ GoodsStay
  <2>1. IInv' /\ \A t \in Goods : Total(t)' = Total(t)
    BY <1>6, ChooseKeeps
  <2> QED BY <2>1 DEF GoodsStay
<1>7. ASSUME RequestDialogue(p)
      PROVE  IInv' /\ GoodsStay
  <2>1. /\ talk' = [talk EXCEPT ![p] = Triggered(@, "basic")]
        /\ UNCHANGED <<phase, hold, wares, money, alive, docked, quest, issued>>
    BY <1>7 DEF RequestDialogue
  <2>2. /\ talk' \in [Player -> Talks]
        /\ \A q \in Player : talk'[q]["pickup"] = talk[q]["pickup"]
    BY <1>0, <2>1, TriggerTalk DEF Status
  <2>3. IInv'
    BY <1>0, <2>1, <2>2, NoInventories DEF Status
  <2>4. \A t \in Goods : Total(t)' = Total(t)
    BY <1>0, <2>1, Unmoved
  <2> QED BY <2>3, <2>4 DEF GoodsStay
<1> QED BY <1>1, <1>3, <1>4, <1>5, <1>6, <1>7 DEF PlayerActs

LEMMA FlightKeeps ==
    ASSUME IInv, NEW p \in Player, Flight(p)
    PROVE  IInv' /\ GoodsStay
<1>0. Stocked /\ Status
  BY DEF IInv
<1>1. phase = "flight" /\ GoodsStay
  BY DEF Flight, Dock, TakeOff, Die, Respawn, Mine, GoodsStay
<1>2. ASSUME NEW pl \in Planet, Dock(p, pl)
      PROVE  IInv'
  <2>1. /\ p \in alive /\ docked' = [docked EXCEPT ![p] = pl]
        /\ talk' = [talk EXCEPT ![p] = Triggered(@, "basic")]
        /\ UNCHANGED <<phase, hold, wares, money, alive, quest, issued>>
    BY <1>2 DEF Dock
  <2>2. /\ talk' \in [Player -> Talks]
        /\ \A q \in Player : talk'[q]["pickup"] = talk[q]["pickup"]
    BY <1>0, <2>1, TriggerTalk DEF Status
  <2>3. /\ docked' \in [Player -> Planet \cup {NoPlanet}]
        /\ \A q \in Player \ alive : docked'[q] = NoPlanet
    BY <1>0, <2>1 DEF Status
  <2> QED BY <1>0, <2>1, <2>2, <2>3, NoInventories DEF Status
<1>3. ASSUME TakeOff(p)
      PROVE  IInv'
  <2>1. /\ docked' = [docked EXCEPT ![p] = NoPlanet]
        /\ UNCHANGED <<phase, hold, wares, money, alive, quest, issued, talk>>
    BY <1>3 DEF TakeOff
  <2>2. /\ docked' \in [Player -> Planet \cup {NoPlanet}]
        /\ \A q \in Player \ alive : docked'[q] = NoPlanet
    BY <1>0, <2>1 DEF Status
  <2> QED BY <1>0, <2>1, <2>2, NoInventories DEF Status
<1>4. ASSUME NEW t \in Goods, Mine(p, t)
      PROVE  IInv'
  <2>1. Stocked' /\ Total("cargo")' = Total("cargo")
    BY <1>0, <1>4, MineStocks
  <2>2. UNCHANGED <<phase, alive, docked, quest, issued, talk>> /\ money' \in [Player -> Nat]
    BY <1>0, <1>4 DEF Mine, Status
  <2>3. Total("cargo") \in Nat
    BY <1>0, TotalNat DEF Countable
  <2>4. Total("cargo")' <= Total("cargo")
    BY <2>1, <2>3
  <2> QED BY <2>1, <2>2, <2>4, InventoriesOnly
<1> QED BY <1>1, <1>2, <1>3, <1>4, DieKeeps, RespawnKeeps DEF Flight

\* The bound of the model, Fits, has no part in it.
LEMMA StepKeeps == IInv /\ [Step]_vars => IInv' /\ (vars' = vars \/ GoodsStay)
<1> SUFFICES ASSUME IInv, [Step]_vars
             PROVE  IInv' /\ (vars' = vars \/ GoodsStay)
  OBVIOUS
<1>0. Stocked /\ Status
  BY DEF IInv
<1>1. ASSUME NEW p \in Player, PlayerActs(p) \/ Flight(p)
      PROVE  IInv' /\ GoodsStay
  BY <1>1, ActsKeep, FlightKeeps
<1>2. ASSUME UpdateQuests
      PROVE  IInv' /\ GoodsStay
  <2>1. UNCHANGED <<hold, wares>>
    BY <1>2 DEF UpdateQuests
  <2>2. \A t \in Goods : Total(t)' = Total(t)
    BY <1>0, <2>1, Unmoved
  <2> QED BY <1>2, <2>2, UpdateQuestsKeeps DEF GoodsStay
<1>3. ASSUME NextUpdate
      PROVE  IInv' /\ GoodsStay
  <2>1. /\ phase = "flight" /\ phase' = "actions"
        /\ UNCHANGED <<hold, wares, money, alive, docked, quest, issued, talk>>
    BY <1>3 DEF NextUpdate
  <2> QED BY <1>0, <2>1, NoInventories DEF Status, GoodsStay
<1>4. ASSUME NEW t \in Goods, NEW n \in {0, Stock},
             NEW event \in {"normalize", "shortage_or_war", "boom_or_epidemic"},
             ShakeMarket(t, n, event)
      PROVE  IInv' /\ GoodsStay
  <2>1. Stocked' /\ Total("cargo")' = Total("cargo")
    BY <1>0, <1>4, ShakeMarketStocks
  <2>2. UNCHANGED <<phase, alive, docked, quest, issued, talk>> /\ money' \in [Player -> Nat]
    BY <1>0, <1>4 DEF ShakeMarket, Status
  <2>3. Total("cargo") \in Nat
    BY <1>0, TotalNat DEF Countable
  <2>4. Total("cargo")' <= Total("cargo")
    BY <2>1, <2>3
  <2>5. phase = "flight"
    BY <1>4 DEF ShakeMarket
  <2> QED BY <2>1, <2>2, <2>4, <2>5, InventoriesOnly DEF GoodsStay
<1>5. ASSUME UNCHANGED vars
      PROVE  IInv'
  <2>1. UNCHANGED <<phase, hold, wares, money, alive, docked, quest, issued, talk>>
    BY <1>5 DEF vars
  <2> QED BY <1>0, <2>1, NoInventories DEF Status
<1> QED BY <1>1, <1>2, <1>3, <1>4, <1>5 DEF Step

-----------------------------------------------------------------------------
(***************************************************************************)
(* Money                                                                   *)
(***************************************************************************)

Dues == SumFunction([t \in Type |-> Due(t)])
Rewards == SumFunction([p \in Player |-> Rewarded(p)])
Balances == phase = "actions" /\ (money' # money \/ wares' # wares) =>
                SumFunction(money)' - SumFunction(money)
                    = SumFunction([t \in Type |-> Due(t)])
                        + SumFunction([p \in Player |-> Rewarded(p)])

LEMMA MoneyChanged ==
    ASSUME Status, NEW p \in Player, NEW d \in Int, money[p] + d \in Nat,
           money' = [money EXCEPT ![p] = @ + d]
    PROVE  SumFunction(money)' - SumFunction(money) = d
<1>1. money \in [Player -> Nat] /\ IsFiniteSet(Player)
  BY CargoAssumption DEF Status
<1> DEFINE g == [money EXCEPT ![p] = @ + d]
<1>2. /\ DOMAIN g = Player /\ DOMAIN money = Player
      /\ g[p] = money[p] + d /\ \A q \in Player \ {p} : g[q] = money[q]
      /\ Natural(money, Player)
  BY <1>1 DEF Natural
<1>3. money' = g
  OBVIOUS
<1> HIDE DEF g
<1>4. /\ SumFunctionOnSet(g, Player) \in Nat /\ SumFunctionOnSet(money, Player) \in Nat
      /\ money[p] \in Nat
      /\ SumFunctionOnSet(g, Player) + money[p] = SumFunctionOnSet(money, Player) + g[p]
  BY <1>1, <1>2, SumChanged
<1>5. SumFunctionOnSet(g, Player) - SumFunctionOnSet(money, Player) = d
  BY <1>2, <1>4
<1>6. SumFunction(money) = SumFunctionOnSet(money, Player)
  BY <1>2 DEF SumFunction
<1>7. SumFunction(g) = SumFunctionOnSet(g, Player)
  BY <1>2 DEF SumFunction
<1> QED BY <1>3, <1>5, <1>6, <1>7

LEMMA TypesFinite == IsFiniteSet(Type)
BY FS_AddElement, CargoAssumption DEF Type

LEMMA NothingSold ==
    ASSUME \A u \in Type : Sold(u) = 0
    PROVE  Dues = 0
<1> DEFINE f == [u \in Type |-> Due(u)]
<1>1. \A u \in Type : f[u] = 0
  BY PriceIs DEF Due
<1>2. SumFunction(f) = SumFunctionOnSet(f, Type)
  BY DEF SumFunction
<1> HIDE DEF f
<1>3. SumFunctionOnSet(f, Type) = 0
  BY <1>1, SumZero, TypesFinite
<1> QED BY <1>2, <1>3 DEF Dues, f

LEMMA OneSold ==
    ASSUME NEW t \in Type, Due(t) \in Int, \A u \in Type \ {t} : Sold(u) = 0
    PROVE  Dues = Due(t)
<1> DEFINE f == [u \in Type |-> Due(u)]
<1>1. f[t] = Due(t) /\ \A u \in Type \ {t} : f[u] = 0
  BY PriceIs DEF Due
<1>2. SumFunction(f) = SumFunctionOnSet(f, Type)
  BY DEF SumFunction
<1> HIDE DEF f
<1>3. SumFunctionOnSet(f, Type) = f[t]
  BY <1>1, SumOne, TypesFinite
<1> QED BY <1>1, <1>2, <1>3 DEF Dues, f

LEMMA NobodyRewarded ==
    ASSUME UNCHANGED quest
    PROVE  Rewards = 0
<1> DEFINE f == [p \in Player |-> Rewarded(p)]
<1>1. \A p \in Player : f[p] = 0
  BY DEF Rewarded
<1>2. SumFunction(f) = SumFunctionOnSet(f, Player)
  BY DEF SumFunction
<1> HIDE DEF f
<1>3. SumFunctionOnSet(f, Player) = 0
  BY <1>1, SumZero, CargoAssumption
<1> QED BY <1>2, <1>3 DEF Rewards, f

LEMMA OneRewarded ==
    ASSUME Status, NEW p \in Player, quest[p] # NoQuest,
           quest' = [quest EXCEPT ![p] = NoQuest]
    PROVE  Rewards = Reward
<1> DEFINE f == [q \in Player |-> Rewarded(q)]
<1>1. quest'[p] = NoQuest /\ \A q \in Player \ {p} : quest'[q] = quest[q]
  BY DEF Status
<1>2. f[p] = Reward /\ \A q \in Player \ {p} : f[q] = 0
  BY <1>1 DEF Rewarded
<1>3. SumFunction(f) = SumFunctionOnSet(f, Player)
  BY DEF SumFunction
<1>4. Reward \in Int
  BY CargoAssumption
<1> HIDE DEF f
<1>5. SumFunctionOnSet(f, Player) = f[p]
  BY <1>2, <1>4, SumOne, CargoAssumption
<1> QED BY <1>2, <1>3, <1>5 DEF Rewards, f

\* What the market gains is what it is told to gain: its stacks all have ids.
LEMMA WaresGain ==
    ASSUME Stocked, Stocked', NEW t \in Type, NEW d \in Int, Gained(wares', wares, t, d)
    PROVE  Sold(t) = d /\ \A u \in Type \ {t} : Sold(u) = 0
<1>1. WaresOk(wares) /\ wares \in Seq(StackType)
  BY DEF Stocked, WaresOk
<1>2. \A u : Pieces(wares, u) \in Nat
  BY <1>1, PiecesType
<1>3. \A u : Safe(wares, u)
  BY <1>1, SafeGoods
<1>4. \A u : Pieces(wares', u) = Pieces(wares, u) + IF u = t THEN d ELSE 0
  BY <1>3 DEF Gained
<1>5. \A u : Pieces(wares, u)' = Pieces(wares', u)
  BY DEF Pieces, OfType
<1>6. \A u : Sold(u) = Pieces(wares', u) - Pieces(wares, u)
  BY <1>5 DEF Sold
<1>7. Pieces(wares', t) = Pieces(wares, t) + d
  BY <1>4
<1>8. \A u \in Type \ {t} : Pieces(wares', u) = Pieces(wares, u) + 0
  BY <1>4
<1> QED BY <1>2, <1>6, <1>7, <1>8

LEMMA NothingPaid ==
    ASSUME Status, UNCHANGED money
    PROVE  SumFunction(money)' - SumFunction(money) = 0
<1>1. money \in [Player -> Nat] /\ IsFiniteSet(Player)
  BY CargoAssumption DEF Status
<1>2. DOMAIN money = Player /\ Natural(money, Player)
  BY <1>1 DEF Natural
<1>3. SumFunctionOnSet(money, Player) \in Nat
  BY <1>1, <1>2, SumSplit
<1>4. SumFunction(money) \in Nat
  BY <1>2, <1>3 DEF SumFunction
<1>5. SumFunction(money)' = SumFunction(money)
  BY DEF SumFunction
<1> QED BY <1>4, <1>5

LEMMA Negated ==
    ASSUME NEW a \in Nat, NEW b \in Nat
    PROVE  (-a) * b = -(a * b)
OBVIOUS

\* A trade moves the goods it is paid for.
LEMMA TradeBalances ==
    ASSUME Stocked, Stocked', Status, NEW p \in Player, NEW t \in Type,
           NEW count \in 1..MaxCount, Sell(p, t, count) \/ Buy(p, t, count)
    PROVE  SumFunction(money)' - SumFunction(money) = Dues + Rewards
<1> DEFINE gain == count * Price(t).buy
           cost == count * Price(t).sell
           sum == SumFunction(money)' - SumFunction(money)
<1>1. count \in Nat /\ count > 0 /\ -count \in Int /\ ~(-count > 0)
  <2>1. MaxCount \in Nat
    BY CargoAssumption
  <2> QED BY <2>1
<1>2. gain \in Nat /\ cost \in Nat /\ (-count) * Price(t).sell = -cost
  BY <1>1, PriceIs, Product, Negated
<1>3. Rewards = 0
  BY NobodyRewarded DEF Sell, Buy
<1>4. money \in [Player -> Nat] /\ money[p] \in Nat
  BY DEF Status
<1>5. \/ Gained(wares', wares, t, 0) /\ UNCHANGED money
      \/ Gained(wares', wares, t, count) /\ money' = [money EXCEPT ![p] = @ + gain]
      \/ /\ Gained(wares', wares, t, -count) /\ money[p] >= cost
         /\ money' = [money EXCEPT ![p] = @ - cost]
  BY SellStocks, BuyStocks
<1>6. CASE Gained(wares', wares, t, 0) /\ UNCHANGED money
  <2>1. \A u \in Type : Sold(u) = 0
    BY <1>6, WaresGain
  <2>2. Dues = 0
    BY <2>1, NothingSold
  <2>3. sum = 0
    BY <1>6, NothingPaid
  <2> HIDE DEF sum
  <2> QED BY <1>3, <2>2, <2>3 DEF sum
<1>7. CASE Gained(wares', wares, t, count) /\ money' = [money EXCEPT ![p] = @ + gain]
  <2>1. Sold(t) = count /\ \A u \in Type \ {t} : Sold(u) = 0
    BY <1>1, <1>7, WaresGain
  <2>2. Due(t) = gain
    BY <1>1, <2>1 DEF Due
  <2> HIDE DEF gain
  <2>3. Dues = gain
    BY <1>2, <2>1, <2>2, OneSold
  <2>4. sum = gain
    <3>1. gain \in Int /\ money[p] + gain \in Nat
      BY <1>2, <1>4
    <3> QED BY <1>7, <3>1, MoneyChanged
  <2> HIDE DEF sum
  <2> QED BY <1>2, <1>3, <2>3, <2>4 DEF sum
<1>8. CASE /\ Gained(wares', wares, t, -count) /\ money[p] >= cost
           /\ money' = [money EXCEPT ![p] = @ - cost]
  <2>1. Sold(t) = -count /\ \A u \in Type \ {t} : Sold(u) = 0
    BY <1>1, <1>8, WaresGain
  <2>2. Due(t) = -cost
    BY <1>1, <1>2, <2>1 DEF Due
  <2> HIDE DEF cost
  <2> DEFINE d == -cost
  <2>3. d \in Int /\ Due(t) = d /\ money[p] + d = money[p] - cost /\ money[p] + d \in Nat
    BY <1>2, <1>4, <1>8, <2>2
  <2>4. money' = [money EXCEPT ![p] = @ + d]
    BY <1>8, <2>3
  <2> HIDE DEF d
  <2>5. Dues = d
    BY <2>1, <2>3, OneSold
  <2>6. sum = d
    BY <2>3, <2>4, MoneyChanged
  <2> HIDE DEF sum
  <2> QED BY <1>3, <2>3, <2>5, <2>6 DEF sum
<1> QED BY <1>5, <1>6, <1>7, <1>8

\* Of what an option does only a reward moves money.
LEMMA ChooseBalances ==
    ASSUME Stocked, Status, NEW p \in Player, NEW o \in Options, Choose(p, o),
           money' # money \/ wares' # wares
    PROVE  SumFunction(money)' - SumFunction(money) = Dues + Rewards
<1> DEFINE sum == SumFunction(money)' - SumFunction(money)
<1>1. SideEffects(p, o) /\ UNCHANGED wares
  BY DEF Choose, Execute
<1>2. /\ quest[p] # NoQuest
      /\ money' = [money EXCEPT ![p] = @ + Reward]
      /\ quest' = [quest EXCEPT ![p] = NoQuest]
  BY <1>1 DEF SideEffects, PickUp, DropOff, Undock, UndockAndCollect
<1>3. Reward \in Nat /\ money[p] \in Nat
  BY CargoAssumption DEF Status
<1>4. sum = Reward
  <2>1. Reward \in Int /\ money[p] + Reward \in Nat
    BY <1>3
  <2> QED BY <1>2, <2>1, MoneyChanged
<1>5. Rewards = Reward
  BY <1>2, OneRewarded
<1>6. Dues = 0
  <2>1. \A u \in Type : Pieces(wares, u)' = Pieces(wares, u)
    BY <1>1 DEF Pieces, OfType
  <2>2. \A u : Pieces(wares, u) \in Nat
    BY PiecesType DEF Stocked, WaresOk
  <2>3. \A u \in Type : Sold(u) = 0
    BY <2>1, <2>2 DEF Sold
  <2> QED BY <2>3, NothingSold
<1> HIDE DEF sum
<1> QED BY <1>3, <1>4, <1>5, <1>6 DEF sum

LEMMA StepBalances == IInv /\ IInv' /\ [Step]_vars => Balances
<1> SUFFICES ASSUME IInv, IInv', [Step]_vars, phase = "actions",
                    money' # money \/ wares' # wares
             PROVE  SumFunction(money)' - SumFunction(money) = Dues + Rewards
  BY DEF Balances, Dues, Rewards
<1>0. Stocked /\ Stocked' /\ Status
  BY DEF IInv
<1>1. ASSUME NEW p \in Player, PlayerActs(p)
      PROVE  \/ \E t \in Type, count \in 1..MaxCount : Sell(p, t, count) \/ Buy(p, t, count)
             \/ \E o \in Options : Choose(p, o)
  BY <1>1 DEF PlayerActs, Merge, Split, Move, RequestDialogue
<1>2. \E p \in Player : PlayerActs(p)
  <2>1. \A p \in Player : ~Flight(p)
    BY DEF Flight, Dock, TakeOff, Die, Respawn, Mine
  <2>2. ~UpdateQuests
    BY DEF UpdateQuests
  <2>3. ~NextUpdate /\ \A t, n, event : ~ShakeMarket(t, n, event)
    BY DEF NextUpdate, ShakeMarket
  <2>4. Step
    BY DEF vars
  <2> QED BY <2>1, <2>2, <2>3, <2>4 DEF Step
<1> QED BY <1>0, <1>1, <1>2, TradeBalances, ChooseBalances

-----------------------------------------------------------------------------
(***************************************************************************)
(* The theorems                                                            *)
(***************************************************************************)

\* What the invariant says of slots and ids, of types, and of cargo.
LEMMA ApartFrom == IInv => StacksApart
BY DEF IInv, Stocked, HoldOk, SlotsApart, IdsApart, StacksApart

LEMMA TypesFrom == IInv => TypeOK
<1> SUFFICES ASSUME IInv
             PROVE  TypeOK
  OBVIOUS
<1>1. \A p \in Player : Range(hold[p]) \subseteq StackType
  <2>1. \A p \in Player : hold[p] \in Seq(StackType)
    BY DEF IInv, Stocked, HoldOk
  <2>2. \A p \in Player : \A i \in DOMAIN hold[p] : hold[p][i] \in StackType
    BY <2>1, Indexes
  <2> QED BY <2>2 DEF Range
<1>2. Range(wares) \subseteq StackType
  <2>1. wares \in Seq(StackType)
    BY DEF IInv, Stocked, WaresOk
  <2>2. \A i \in DOMAIN wares : wares[i] \in StackType
    BY <2>1, Indexes
  <2> QED BY <2>2 DEF Range
<1>3. \A p \in Player : /\ talk[p].basic \in {"closed", "arrival"}
                        /\ talk[p].pickup \in {"closed", "arrival", "picked_up"}
                        /\ talk[p].dropoff \in {"closed", "arrival", "dropped_off"}
  BY DEF IInv, Status, Talks
<1> QED BY <1>1, <1>2, <1>3 DEF IInv, Status, Stocked, TypeOK

LEMMA OneCargoFrom == IInv => OneCargoPerQuest
<1> SUFFICES ASSUME IInv
             PROVE  OneCargoPerQuest
  OBVIOUS
<1>1. Total("cargo") \in Nat /\ issued \in Nat
  BY TotalNat, CargoAssumption DEF IInv, Countable, Status
<1>2. Total("cargo") + Cardinality(Owed) <= issued
  BY DEF IInv, Charged
<1> QED BY <1>1, <1>2, OwedFinite DEF OneCargoPerQuest

\* Whatever the bound of the model, Fits: the steps alone keep the invariant.
THEOREM StepsKeep == Init /\ [][Step]_vars => []IInv
BY InitHolds, StepKeeps, PTL

\* Fits only bounds the runs.
LEMMA SpecIsSteps == Spec => Init /\ [][Step]_vars
<1>1. [Next]_vars => [Step]_vars
  BY DEF Next
<1> QED BY <1>1, PTL DEF Spec

\* What players do to their goods moves them.
LEMMA StepsKeepGoods == Init /\ [][Step]_vars => GoodsKept
<1>1. IInv /\ [Step]_vars => [GoodsStay]_vars
  BY StepKeeps
<1>2. Init /\ [][Step]_vars => [][GoodsStay]_vars
  BY <1>1, StepsKeep, PTL
<1> QED BY <1>2 DEF GoodsKept, GoodsStay

\* Money moves for goods and rewards.
LEMMA StepsKeepBalance == Init /\ [][Step]_vars => TradesBalance
<1>1. IInv /\ IInv' /\ [Step]_vars => [Balances]_vars
  BY StepBalances
<1>2. Init /\ [][Step]_vars => [][Balances]_vars
  BY <1>1, StepsKeep, PTL
<1> QED BY <1>2, PTL DEF TradesBalance, Balances

\* What holds of inventories, money, quests and dialogues holds always.
THEOREM Invariant == Spec => []IInv
BY SpecIsSteps, StepsKeep, PTL

\* Types: no negative balance, and nothing aboard of who has no ship.
THEOREM TypeCorrect == Spec => []TypeOK
BY TypesFrom, Invariant, PTL

\* One stack per slot and per id aboard of every ship.
THEOREM StacksApartHolds == Spec => []StacksApart
BY ApartFrom, Invariant, PTL

\* No more quest cargo than there have been quests.
THEOREM OneCargoHolds == Spec => []OneCargoPerQuest
BY OneCargoFrom, Invariant, PTL

\* What players do to their goods moves them, and neither makes nor loses any
\* but in a merge onto a stack that is gone.
THEOREM GoodsKeptHolds == Spec => GoodsKept
BY SpecIsSteps, StepsKeepGoods

\* Money moves for the goods that change sides and for rewards, and in no other way.
THEOREM TradesBalanceHolds == Spec => TradesBalance
BY SpecIsSteps, StepsKeepBalance

-----------------------------------------------------------------------------
(***************************************************************************)
(* The bots of Haulers                                                     *)
(***************************************************************************)

\* What a bot says closes a dialogue only to open the next one or to undock.
BotOptions ==
    {o \in Options :
        /\ o.at # "closed"
        /\ IF o.next = "closed"
           THEN o.does \in Script \cup {"undock", "undock_and_collect"}
           ELSE o.does \notin Script}

\* One of them, from its parts.
LEMMA BotOptionIs ==
    ASSUME NEW script, NEW at, NEW next, NEW does, NEW if,
           Opt(script, at, next, does, if) \in Options, at # "closed",
           IF next = "closed" THEN does \in Script \cup {"undock", "undock_and_collect"}
           ELSE does \notin Script
    PROVE  Opt(script, at, next, does, if) \in BotOptions
BY OptIs DEF BotOptions

\* The scripts of the bots are made of such options.
LEMMA BotPathIs == BotPath \in Seq(BotOptions)
<1>1. BasicPath \in Seq(BotOptions)
  <2>1. /\ Opt("basic", "arrival", "closed", "pickup", "pickup_here") \in BotOptions
        /\ Opt("basic", "arrival", "closed", "dropoff", "dropoff_here") \in BotOptions
        /\ Opt("basic", "arrival", "closed", "undock", "always") \in BotOptions
    BY BotOptionIs DEF Options, BasicOptions, Script
  <2> QED BY <2>1 DEF BasicPath
<1>2. PickupPath \in Seq(BotOptions)
  <2>1. /\ Opt("pickup", "arrival", "picked_up", "pick_up", "always") \in BotOptions
        /\ Opt("pickup", "picked_up", "closed", "undock", "always") \in BotOptions
    BY BotOptionIs DEF Options, PickupOptions, Script
  <2> QED BY <2>1 DEF PickupPath
<1>3. DropoffPath \in Seq(BotOptions)
  <2>1. /\ Opt("dropoff", "arrival", "dropped_off", "drop_off", "always") \in BotOptions
        /\ Opt("dropoff", "dropped_off", "closed", "undock_and_collect", "always") \in BotOptions
    BY BotOptionIs DEF Options, DropoffOptions, Script
  <2> QED BY <2>1 DEF DropoffPath
<1> QED BY <1>1, <1>2, <1>3 DEF BotPath

Order == [say : SUBSET BotOptions, go : Planet \cup {NoPlanet}]

HTypes == /\ heading \in [Player -> Planet \cup {NoPlanet}]
          /\ orders \in [Player -> Order]

\* What a bot is about to say answers a dialogue that is where it was, under a
\* condition that still holds, and is all it is about to do.
InTime(p, order) ==
    /\ \A o \in order.say : talk[p][o.script] = o.at /\ Shown(p, o)
    /\ \A o1, o2 \in order.say : o1 = o2
    /\ order.go # NoPlanet => order.say = {} /\ ~Talking(p)

\* A bot is in one dialogue at a time, and in one as long as it is docked.
OneDialogue(p) ==
    /\ \A s1, s2 \in Script : talk[p][s1] # "closed" /\ talk[p][s2] # "closed" => s1 = s2
    /\ docked[p] # NoPlanet => Talking(p)

OnItsWay(p) == heading[p] # NoPlanet => ~Talking(p) /\ p \in alive

BotOk(p) == InTime(p, orders[p]) /\ OneDialogue(p) /\ OnItsWay(p)

HInv == /\ IInv /\ HTypes
        /\ \A p \in Player : BotOk(p)
        /\ phase = "flight" => \A p \in Player : orders[p] = Idle

\* To do nothing is always in time.
LEMMA IdleIs ==
    /\ Idle \in Order /\ Idle.say = {} /\ Idle.go = NoPlanet
    /\ \A p : InTime(p, Idle)
BY DEF Idle, Order, InTime

\* What such an option is.
LEMMA BotOptionsAre ==
    ASSUME NEW o \in BotOptions
    PROVE  /\ o \in Options /\ o.script \in Script /\ o.at # "closed"
           /\ o.next = "closed" => o.does \in Script \cup {"undock", "undock_and_collect"}
           /\ o.next # "closed" => o.does \notin Script
BY OptionsAre DEF BotOptions

\* The first step whose condition holds, in the dialogue that is open.
LEMMA AnswersAre ==
    ASSUME NEW p \in Player, OneDialogue(p)
    PROVE  /\ Answers(p) \subseteq BotOptions
           /\ \A o \in Answers(p) : talk[p][o.script] = o.at /\ Shown(p, o)
           /\ \A o1, o2 \in Answers(p) : o1 = o2
<1>1. ASSUME NEW s \in Script, NextSteps(p, s) # {}
      PROVE  LET o == BotPath[Min(NextSteps(p, s))]
             IN  /\ o \in BotOptions /\ o.script = s /\ o.at = talk[p][s] /\ Shown(p, o)
                 /\ talk[p][s] # "closed"
  <2>1. NextSteps(p, s) \in SUBSET DOMAIN BotPath
    BY DEF NextSteps
  <2>2. \A i \in DOMAIN BotPath : BotPath[i] \in BotOptions /\ i \in Nat
    BY BotPathIs, Indexes
  <2>3. NextSteps(p, s) \in SUBSET Nat
    BY <2>1, <2>2
  <2>4. Min(NextSteps(p, s)) \in NextSteps(p, s)
    BY <1>1, <2>3, MinIs
  <2> DEFINE i == Min(NextSteps(p, s))
  <2>5. i \in DOMAIN BotPath /\ i \in NextSteps(p, s)
    BY <2>1, <2>4
  <2> HIDE DEF i
  <2>6. /\ BotPath[i].script = s /\ BotPath[i].at = talk[p][s] /\ Shown(p, BotPath[i])
    BY <2>5 DEF NextSteps
  <2>7. BotPath[i] \in BotOptions
    BY <2>2, <2>5
  <2>8. BotPath[i].at # "closed"
    BY <2>7, BotOptionsAre
  <2> QED BY <2>6, <2>7, <2>8 DEF i
<1> DEFINE Of(s) == BotPath[Min(NextSteps(p, s))]
<1>2. \A s \in Script : NextSteps(p, s) # {} =>
          /\ Of(s) \in BotOptions /\ Of(s).script = s /\ Of(s).at = talk[p][s]
          /\ Shown(p, Of(s)) /\ talk[p][s] # "closed"
  BY <1>1
<1>3. Answers(p) = {Of(s) : s \in {s \in Script : NextSteps(p, s) # {}}}
  BY DEF Answers
<1> HIDE DEF Of
<1>4. ASSUME NEW o \in Answers(p)
      PROVE  \E s \in Script : NextSteps(p, s) # {} /\ o = Of(s)
  BY <1>3
<1>5. Answers(p) \subseteq BotOptions
  BY <1>2, <1>4
<1>6. \A o \in Answers(p) : talk[p][o.script] = o.at /\ Shown(p, o)
  BY <1>2, <1>4
<1>7. ASSUME NEW o1 \in Answers(p), NEW o2 \in Answers(p)
      PROVE  o1 = o2
  <2>1. PICK s1 \in Script : NextSteps(p, s1) # {} /\ o1 = Of(s1)
    BY <1>4
  <2>2. PICK s2 \in Script : NextSteps(p, s2) # {} /\ o2 = Of(s2)
    BY <1>4
  <2>3. talk[p][s1] # "closed" /\ talk[p][s2] # "closed"
    BY <1>2, <2>1, <2>2
  <2>4. s1 = s2
    BY <2>3 DEF OneDialogue
  <2> QED BY <2>1, <2>2, <2>4
<1> QED BY <1>5, <1>6, <1>7

\* A bot flies to planets only.
LEMMA BoundIs ==
    ASSUME Status, NEW p \in Player, quest[p] # NoQuest
    PROVE  Bound(p) \in Planet \cup {NoPlanet}
<1>1. quest[p] \in Quest
  BY DEF Status
<1>2. quest[p].from \in Planet /\ quest[p].to \in Planet
  BY <1>1 DEF Quest
<1> QED BY <1>2 DEF Bound

\* What a bot decides is in time when it decides it.
LEMMA HaulerActsAre ==
    ASSUME Status, NEW p \in Player, OneDialogue(p)
    PROVE  HaulerActs(p) \in Order /\ InTime(p, HaulerActs(p))
<1>1. CASE p \notin alive \/ quest[p] = NoQuest
  BY <1>1, IdleIs DEF HaulerActs
<1>2. CASE ~(p \notin alive \/ quest[p] = NoQuest) /\ Talking(p)
  <2>1. HaulerActs(p) = [say |-> Answers(p), go |-> NoPlanet]
    BY <1>2 DEF HaulerActs, Idle
  <2> QED BY <2>1, AnswersAre DEF Order, InTime
<1>3. CASE ~(p \notin alive \/ quest[p] = NoQuest) /\ ~Talking(p)
  <2>1. HaulerActs(p) = [say |-> {}, go |-> Bound(p)]
    BY <1>3 DEF HaulerActs, Idle
  <2>2. Bound(p) \in Planet \cup {NoPlanet}
    BY <1>3, BoundIs
  <2> QED BY <1>3, <2>1, <2>2 DEF Order, InTime
<1> QED BY <1>1, <1>2, <1>3

\* A bot nothing happens to stays as it is.
LEMMA BotStays ==
    ASSUME NEW q \in Player, BotOk(q), talk'[q] = talk[q], docked'[q] = docked[q],
           quest'[q] = quest[q], q \in alive' <=> q \in alive,
           heading'[q] = heading[q], orders'[q] = orders[q]
    PROVE  BotOk(q)'
<1>1. Talking(q)' <=> Talking(q)
  BY DEF Talking
<1>2. \A o : Shown(q, o)' <=> Shown(q, o)
  BY DEF Shown
<1>3. InTime(q, orders[q])'
  BY <1>1, <1>2 DEF BotOk, InTime
<1>4. OneDialogue(q)' /\ OnItsWay(q)'
  BY <1>1 DEF BotOk, OneDialogue, OnItsWay
<1> QED BY <1>3, <1>4 DEF BotOk

-----------------------------------------------------------------------------
(* One lemma per action: it is a step of Cargo, and the bots stay in time. *)

BotsOk == /\ HTypes /\ \A p \in Player : BotOk(p)
          /\ phase = "flight" => \A p \in Player : orders[p] = Idle

\* The update ends, and the bots decide.
LEMMA EndUpdateIs ==
    ASSUME HInv, NEW ready \in SUBSET Player, EndUpdate(ready)
    PROVE  Step /\ BotsOk'
<1>1. NextUpdate
  BY DEF EndUpdate
<1>2. \A p \in Player : HaulerActs(p) \in Order /\ InTime(p, HaulerActs(p))
  BY HaulerActsAre DEF HInv, IInv, BotOk
<1>3. /\ UNCHANGED <<talk, docked, quest, alive, heading>> /\ phase' = "actions"
      /\ orders' = [p \in Player |-> IF p \in ready THEN HaulerActs(p) ELSE Idle]
  BY DEF EndUpdate, NextUpdate, Orders
<1>4. HTypes'
  BY <1>2, <1>3, IdleIs DEF HInv, HTypes
<1>5. ASSUME NEW p \in Player
      PROVE  BotOk(p)'
  <2>1. InTime(p, orders'[p])
    BY <1>2, <1>3, IdleIs
  <2>2. Talking(p)' <=> Talking(p)
    BY <1>3 DEF Talking
  <2>3. \A o : Shown(p, o)' <=> Shown(p, o)
    BY <1>3 DEF Shown
  <2>4. InTime(p, orders[p])'
    BY <1>3, <2>1, <2>2, <2>3 DEF InTime
  <2>5. OneDialogue(p)' /\ OnItsWay(p)'
    BY <1>3, <2>2 DEF HInv, BotOk, OneDialogue, OnItsWay
  <2> QED BY <2>4, <2>5 DEF BotOk
<1>6. phase' # "flight"
  BY <1>3
<1> QED BY <1>1, <1>4, <1>5, <1>6 DEF Step, BotsOk

\* Nobody but the player of a dialogue is touched by what it does.
LEMMA OnlyThePlayer ==
    ASSUME NEW p \in Player, NEW o, SideEffects(p, o), Status
    PROVE  /\ \A q \in Player \ {p} : docked'[q] = docked[q] /\ quest'[q] = quest[q]
           /\ o.does \in {"undock", "undock_and_collect"} => docked'[p] = NoPlanet
           /\ docked'[p] # NoPlanet => docked[p] # NoPlanet
<1>1. docked \in [Player -> Planet \cup {NoPlanet}] /\ quest \in [Player -> Quest \cup {NoQuest}]
  BY DEF Status
<1>2. CASE o.does = "pick_up" /\ PickUp(p)
  <2>1. docked' = docked /\ \A q \in Player \ {p} : quest'[q] = quest[q]
    BY <1>1, <1>2 DEF PickUp
  <2> QED BY <1>2, <2>1
<1>3. CASE o.does = "drop_off" /\ DropOff(p)
  <2>1. docked' = docked /\ \A q \in Player \ {p} : quest'[q] = quest[q]
    BY <1>1, <1>3 DEF DropOff
  <2> QED BY <1>3, <2>1
<1>4. CASE o.does = "undock" /\ Undock(p)
  BY <1>1, <1>4 DEF Undock
<1>5. CASE o.does = "undock_and_collect" /\ UndockAndCollect(p)
  BY <1>1, <1>5 DEF UndockAndCollect
<1>6. CASE o.does \in Script \cup {"trade"} /\ UNCHANGED <<hold, money, docked, quest>>
  BY <1>6 DEF Script
<1> QED BY <1>2, <1>3, <1>4, <1>5, <1>6 DEF SideEffects

\* The dialogue that is answered goes on, opens another one, or undocks.
LEMMA OneAnswer ==
    ASSUME NEW at \in Talks, NEW o \in BotOptions, at[o.script] = o.at,
           \A s1, s2 \in Script : at[s1] # "closed" /\ at[s2] # "closed" => s1 = s2
    PROVE  LET new == Answered(at, o)
           IN  /\ \A s1, s2 \in Script : new[s1] # "closed" /\ new[s2] # "closed" => s1 = s2
               /\ (\A s \in Script : new[s] = "closed")
                     => o.does \in {"undock", "undock_and_collect"}
<1>1. /\ o.script \in Script /\ o.at # "closed"
      /\ o.next = "closed" => o.does \in Script \cup {"undock", "undock_and_collect"}
      /\ o.next # "closed" => o.does \notin Script
  BY BotOptionsAre
<1>2. \A s \in Script \ {o.script} : at[s] = "closed"
  BY <1>1
<1>3. DOMAIN at = Script
  BY DEF Talks, Endings
<1> DEFINE left == [at EXCEPT ![o.script] = o.next]
<1>4. /\ DOMAIN left = Script /\ left[o.script] = o.next
      /\ \A s \in Script \ {o.script} : left[s] = "closed"
  BY <1>1, <1>2, <1>3
<1>5. Answered(at, o) = IF o.does \in Script THEN [left EXCEPT ![o.does] = "arrival"]
                        ELSE left
  BY DEF Answered, Triggered
<1> HIDE DEF left
<1>6. CASE o.does \in Script
  <2>1. o.next = "closed"
    BY <1>1, <1>6
  <2>2. \A s \in Script : left[s] = "closed"
    BY <1>4, <2>1
  <2> DEFINE new == [left EXCEPT ![o.does] = "arrival"]
  <2>3. new[o.does] = "arrival" /\ \A s \in Script \ {o.does} : new[s] = "closed"
    BY <1>4, <1>6, <2>2
  <2>4. Answered(at, o) = new
    BY <1>5, <1>6
  <2> HIDE DEF new
  <2> QED BY <1>6, <2>3, <2>4
<1>7. CASE o.does \notin Script
  <2>1. Answered(at, o) = left
    BY <1>5, <1>7
  <2> QED BY <1>1, <1>4, <1>7, <2>1
<1> QED BY <1>6, <1>7

\* What a bot says is an option that a person could choose.
LEMMA SpeakIs ==
    ASSUME HInv, NEW p \in Player, Speak(p)
    PROVE  Step /\ BotsOk'
<1>0. /\ Status /\ HTypes /\ BotOk(p) /\ orders[p] \in Order
      /\ talk \in [Player -> Talks]
  BY DEF HInv, IInv, HTypes, Status
<1>1. PICK o \in orders[p].say :
          /\ Said(p, o) /\ UNCHANGED heading
          /\ IF talk[p][o.script] = o.at THEN Execute(p, o)
             ELSE phase = "actions" /\ UNCHANGED vars
  BY DEF Speak
<1>2. o \in BotOptions /\ talk[p][o.script] = o.at /\ Shown(p, o)
  BY <1>0 DEF Order, BotOk, InTime
<1>3. Execute(p, o) /\ o \in Options
  BY <1>1, <1>2, BotOptionsAre
<1>4. Step
  BY <1>2, <1>3 DEF Step, PlayerActs, Choose
<1>5. /\ phase = "actions" /\ phase' = phase /\ alive' = alive /\ SideEffects(p, o)
      /\ talk' = [talk EXCEPT ![p] = Answered(@, o)]
  BY <1>3 DEF Execute
<1>6. orders' = [orders EXCEPT ![p].say = @ \ {o}]
  BY <1>1 DEF Said
<1>7. orders[p].go = NoPlanet /\ orders[p].say = {o} /\ orders[p].say \subseteq BotOptions
  BY <1>0 DEF BotOk, InTime, Order
<1>8. /\ orders'[p] = [say |-> {}, go |-> NoPlanet]
      /\ \A q \in Player \ {p} : orders'[q] = orders[q]
      /\ orders' \in [Player -> Order]
  <2>1. orders' = [orders EXCEPT ![p] = [say |-> {}, go |-> NoPlanet]]
    <3>1. orders[p] = [say |-> {o}, go |-> NoPlanet]
      BY <1>0, <1>7 DEF Order
    <3>2. [orders[p] EXCEPT !.say = @ \ {o}] = [say |-> {}, go |-> NoPlanet]
      BY <3>1
    <3> QED BY <1>6, <3>2
  <2>2. [say |-> {}, go |-> NoPlanet] \in Order
    BY DEF Order
  <2> QED BY <1>0, <2>1, <2>2 DEF HTypes
<1>9. HTypes'
  BY <1>0, <1>1, <1>8 DEF HTypes
<1>10. ASSUME NEW q \in Player \ {p}
       PROVE  BotOk(q)'
  <2>1. docked'[q] = docked[q] /\ quest'[q] = quest[q]
    BY <1>0, <1>5, OnlyThePlayer
  <2>2. talk'[q] = talk[q] /\ orders'[q] = orders[q] /\ heading'[q] = heading[q]
    BY <1>0, <1>1, <1>5, <1>8
  <2>3. BotOk(q)
    BY DEF HInv
  <2> QED BY <1>5, <2>1, <2>2, <2>3, BotStays
<1>11. BotOk(p)'
  <2>1. Talking(p)
    <3>1. o.script \in Script /\ o.at # "closed"
      BY <1>2, BotOptionsAre
    <3> QED BY <1>2, <3>1 DEF Talking
  <2>2. heading'[p] = NoPlanet
    BY <1>0, <1>1, <2>1 DEF BotOk, OnItsWay
  <2>3. talk[p] \in Talks /\ talk'[p] = Answered(talk[p], o)
    BY <1>0, <1>5
  <2>4. \A s1, s2 \in Script :
            talk[p][s1] # "closed" /\ talk[p][s2] # "closed" => s1 = s2
    BY <1>0 DEF BotOk, OneDialogue
  <2>5. /\ \A s1, s2 \in Script :
               talk'[p][s1] # "closed" /\ talk'[p][s2] # "closed" => s1 = s2
        /\ (\A s \in Script : talk'[p][s] = "closed")
              => o.does \in {"undock", "undock_and_collect"}
    BY <1>2, <2>3, <2>4, OneAnswer
  <2>6. docked'[p] # NoPlanet => Talking(p)'
    BY <1>0, <1>5, <2>5, OnlyThePlayer DEF Talking
  <2>7. InTime(p, orders[p])'
    BY <1>8 DEF InTime
  <2> QED BY <2>2, <2>5, <2>6, <2>7 DEF BotOk, OneDialogue, OnItsWay
<1>12. phase' # "flight"
  BY <1>5
<1> QED BY <1>4, <1>9, <1>10, <1>11, <1>12 DEF BotsOk

\* A bot that sets out talks to nobody, so that it was not docked.
LEMMA NavigateIs ==
    ASSUME HInv, NEW p \in Player, Navigate(p)
    PROVE  UNCHANGED vars /\ BotsOk'
<1>0. /\ Status /\ HTypes /\ BotOk(p) /\ orders[p] \in Order
      /\ docked \in [Player -> Planet \cup {NoPlanet}]
  BY DEF HInv, IInv, HTypes, Status
<1>1. /\ phase = "actions" /\ orders[p].go # NoPlanet
      /\ orders' = [orders EXCEPT ![p].go = NoPlanet]
      /\ UNCHANGED <<phase, hold, wares, money, alive, quest, issued, talk>>
  BY DEF Navigate
<1>2. ~Talking(p) /\ orders[p].say = {} /\ docked[p] = NoPlanet
  BY <1>0, <1>1 DEF BotOk, InTime, OneDialogue
<1>3. docked' = docked
  BY <1>0, <1>2 DEF Navigate
<1>4. /\ orders'[p] = [say |-> {}, go |-> NoPlanet]
      /\ \A q \in Player \ {p} : orders'[q] = orders[q]
      /\ orders' \in [Player -> Order]
  <2>1. orders' = [orders EXCEPT ![p] = [say |-> {}, go |-> NoPlanet]]
    <3>1. orders[p] = [say |-> {}, go |-> orders[p].go]
      BY <1>0, <1>2 DEF Order
    <3>2. [orders[p] EXCEPT !.go = NoPlanet] = [say |-> {}, go |-> NoPlanet]
      BY <3>1
    <3> QED BY <1>1, <3>2
  <2>2. [say |-> {}, go |-> NoPlanet] \in Order
    BY DEF Order
  <2> QED BY <1>0, <2>1, <2>2 DEF HTypes
<1>5. /\ heading' \in [Player -> Planet \cup {NoPlanet}]
      /\ \A q \in Player \ {p} : heading'[q] = heading[q]
      /\ heading'[p] # NoPlanet => p \in alive
  <2>1. orders[p].go \in Planet \cup {NoPlanet}
    BY <1>0 DEF Order
  <2>2. CASE p \in alive
    BY <1>0, <2>1, <2>2 DEF Navigate, HTypes
  <2>3. CASE p \notin alive
    BY <1>0, <2>3 DEF Navigate, HTypes, BotOk, OnItsWay
  <2> QED BY <2>2, <2>3
<1>6. HTypes'
  BY <1>4, <1>5 DEF HTypes
<1>7. ASSUME NEW q \in Player \ {p}
      PROVE  BotOk(q)'
  <2>1. BotOk(q)
    BY DEF HInv
  <2> QED BY <1>1, <1>3, <1>4, <1>5, <2>1, BotStays
<1>8. BotOk(p)'
  <2>1. ~Talking(p)'
    BY <1>1, <1>2 DEF Talking
  <2>2. InTime(p, orders[p])'
    BY <1>4 DEF InTime
  <2>3. OneDialogue(p)'
    BY <1>0, <1>1, <1>2, <1>3, <2>1 DEF BotOk, OneDialogue
  <2>4. OnItsWay(p)'
    BY <1>1, <1>5, <2>1 DEF OnItsWay
  <2> QED BY <2>2, <2>3, <2>4 DEF BotOk
<1> QED BY <1>1, <1>3, <1>6, <1>7, <1>8 DEF BotsOk, vars

\* All has been said by then.
LEMMA QuestsIs ==
    ASSUME HInv, Quests
    PROVE  Step /\ BotsOk'
<1>1. /\ UpdateQuests /\ UNCHANGED <<talk, docked, alive, heading, orders>>
      /\ \A p \in Player : orders[p] = Idle
  BY DEF Quests, UpdateQuests
<1>2. HTypes'
  BY <1>1 DEF HInv, HTypes
<1>3. ASSUME NEW p \in Player
      PROVE  BotOk(p)'
  <2>1. InTime(p, orders[p])'
    BY <1>1 DEF InTime, Idle
  <2>2. Talking(p)' <=> Talking(p)
    BY <1>1 DEF Talking
  <2> QED BY <1>1, <2>1, <2>2 DEF HInv, BotOk, OneDialogue, OnItsWay
<1> QED BY <1>1, <1>2, <1>3 DEF Step, BotsOk

\* In flight nobody has anything to say: it is enough to look at p.
LEMMA InFlight ==
    ASSUME HInv, NEW p \in Player, phase = "flight", phase' = phase, orders' = orders,
           HTypes', OneDialogue(p)', OnItsWay(p)',
           \A q \in Player \ {p} :
              /\ talk'[q] = talk[q] /\ docked'[q] = docked[q] /\ quest'[q] = quest[q]
              /\ q \in alive' <=> q \in alive
              /\ heading'[q] = heading[q]
    PROVE  BotsOk'
<1>1. \A q \in Player : orders[q] = Idle
  BY DEF HInv
<1>2. InTime(p, orders[p])'
  BY <1>1 DEF InTime, Idle
<1>3. ASSUME NEW q \in Player \ {p}
      PROVE  BotOk(q)'
  <2>1. BotOk(q)
    BY DEF HInv
  <2> QED BY <2>1, BotStays
<1> QED BY <1>1, <1>2, <1>3 DEF BotOk, BotsOk

\* The only dialogue there is starts with the landing.
LEMMA LandIs ==
    ASSUME HInv, NEW p \in Player, Land(p)
    PROVE  Step /\ BotsOk'
<1>0. /\ HTypes /\ BotOk(p) /\ talk \in [Player -> Talks]
      /\ docked \in [Player -> Planet \cup {NoPlanet}]
  BY DEF HInv, IInv, Status
<1>1. /\ heading[p] # NoPlanet /\ Dock(p, heading[p])
      /\ heading' = [heading EXCEPT ![p] = NoPlanet] /\ UNCHANGED orders
  BY DEF Land
<1>2. heading[p] \in Planet
  BY <1>0, <1>1 DEF HTypes
<1>3. Step
  BY <1>1, <1>2 DEF Step, Flight
<1>4. /\ phase = "flight" /\ UNCHANGED <<phase, alive, quest>>
      /\ docked' = [docked EXCEPT ![p] = heading[p]]
      /\ talk' = [talk EXCEPT ![p] = Triggered(@, "basic")]
  BY <1>1 DEF Dock
<1>5. talk'[p] = [talk[p] EXCEPT !["basic"] = "arrival"]
  BY <1>0, <1>4 DEF Triggered
<1>6. talk[p] \in [Script -> {"closed", "arrival", "picked_up", "dropped_off"}]
  BY <1>0 DEF Talks, Endings
<1>7. \A s \in Script : talk[p][s] = "closed"
  BY <1>0, <1>1 DEF BotOk, OnItsWay, Talking
<1>8. talk'[p]["basic"] = "arrival" /\ \A s \in Script \ {"basic"} : talk'[p][s] = "closed"
  BY <1>5, <1>6, <1>7 DEF Script
<1>9. OneDialogue(p)'
  <2>1. Talking(p)'
    BY <1>8 DEF Talking, Script
  <2>2. \A s1, s2 \in Script :
            talk'[p][s1] # "closed" /\ talk'[p][s2] # "closed" => s1 = s2
    BY <1>8
  <2> QED BY <2>1, <2>2 DEF OneDialogue
<1>10. HTypes' /\ OnItsWay(p)'
  BY <1>0, <1>1 DEF HTypes, OnItsWay
<1>11. \A q \in Player \ {p} :
           /\ talk'[q] = talk[q] /\ docked'[q] = docked[q] /\ heading'[q] = heading[q]
  BY <1>0, <1>1, <1>4 DEF HTypes
<1>12. BotsOk'
  BY <1>1, <1>4, <1>9, <1>10, <1>11, InFlight
<1> QED BY <1>3, <1>12

\* The dialogues of a dead ship stay open; it is bound for nowhere.
LEMMA ShipDiesIs ==
    ASSUME HInv, NEW p \in Player, ShipDies(p)
    PROVE  Step /\ BotsOk'
<1>0. /\ HTypes /\ BotOk(p) /\ docked \in [Player -> Planet \cup {NoPlanet}]
  BY DEF HInv, IInv, Status
<1>1. /\ Die(p) /\ heading' = [heading EXCEPT ![p] = NoPlanet] /\ UNCHANGED orders
  BY DEF ShipDies
<1>2. Step
  BY <1>1 DEF Step, Flight
<1>3. /\ phase = "flight" /\ UNCHANGED <<phase, quest, talk>> /\ alive' = alive \ {p}
      /\ docked' = [docked EXCEPT ![p] = NoPlanet]
  BY <1>1 DEF Die
<1>4. OneDialogue(p)'
  <2>1. docked'[p] = NoPlanet
    BY <1>0, <1>3
  <2> QED BY <1>0, <1>3, <2>1 DEF BotOk, OneDialogue
<1>5. HTypes' /\ OnItsWay(p)'
  BY <1>0, <1>1 DEF HTypes, OnItsWay
<1>6. \A q \in Player \ {p} :
          /\ talk'[q] = talk[q] /\ docked'[q] = docked[q] /\ heading'[q] = heading[q]
          /\ q \in alive' <=> q \in alive
  BY <1>0, <1>1, <1>3 DEF HTypes
<1>7. BotsOk'
  BY <1>1, <1>3, <1>4, <1>5, <1>6, InFlight
<1> QED BY <1>2, <1>7

\* The new ship has the dialogues of the old one.
LEMMA ShipComesIs ==
    ASSUME HInv, NEW p \in Player, ShipComes(p)
    PROVE  Step /\ BotsOk'
<1>0. HTypes /\ BotOk(p)
  BY DEF HInv
<1>1. Respawn(p) /\ UNCHANGED <<heading, orders>>
  BY DEF ShipComes
<1>2. Step
  BY <1>1 DEF Step, Flight
<1>3. /\ phase = "flight" /\ UNCHANGED <<phase, quest, talk, docked>>
      /\ alive' = alive \cup {p}
  BY <1>1 DEF Respawn
<1>4. OneDialogue(p)' /\ OnItsWay(p)' /\ HTypes'
  <2>1. Talking(p)' <=> Talking(p)
    BY <1>3 DEF Talking
  <2> QED BY <1>0, <1>1, <1>3, <2>1 DEF BotOk, OneDialogue, OnItsWay, HTypes
<1>5. \A q \in Player : q # p => (q \in alive' <=> q \in alive)
  BY <1>3
<1>6. BotsOk'
  BY <1>1, <1>3, <1>4, <1>5, InFlight
<1> QED BY <1>2, <1>6

\* Nobody talks, flies or waits to do something.
LEMMA HaulersInitHolds == HaulersInit => HInv
<1> SUFFICES ASSUME HaulersInit
             PROVE  HInv
  OBVIOUS
<1>1. IInv
  BY InitHolds DEF HaulersInit
<1>2. /\ heading = [p \in Player |-> NoPlanet] /\ orders = [p \in Player |-> Idle]
      /\ docked = [p \in Player |-> NoPlanet]
      /\ talk = [p \in Player |-> [s \in Script |-> "closed"]]
  BY DEF HaulersInit, Init
<1>3. HTypes
  BY <1>2, IdleIs DEF HTypes
<1>4. ASSUME NEW p \in Player
      PROVE  BotOk(p)
  <2>1. InTime(p, orders[p])
    BY <1>2, IdleIs
  <2>2. \A s \in Script : talk[p][s] = "closed"
    BY <1>2
  <2> QED BY <1>2, <2>1, <2>2 DEF BotOk, OneDialogue, OnItsWay
<1> QED BY <1>1, <1>2, <1>3, <1>4 DEF HInv

\* All actions together.
LEMMA HaulersStep == HInv /\ [HaulersNext]_allVars => [Step]_vars /\ HInv'
<1> SUFFICES ASSUME HInv, [HaulersNext]_allVars
             PROVE  [Step]_vars /\ BotsOk'
  BY StepKeeps DEF HInv, BotsOk
<1>1. ASSUME NEW ready \in SUBSET Player, EndUpdate(ready)
      PROVE  [Step]_vars /\ BotsOk'
  BY <1>1, EndUpdateIs
<1>2. ASSUME NEW p \in Player,
             Speak(p) \/ Navigate(p) \/ Land(p) \/ ShipDies(p) \/ ShipComes(p)
      PROVE  [Step]_vars /\ BotsOk'
  BY <1>2, SpeakIs, NavigateIs, LandIs, ShipDiesIs, ShipComesIs
<1>3. CASE Quests
  BY <1>3, QuestsIs
<1>4. CASE UNCHANGED allVars
  <2>1. UNCHANGED vars /\ UNCHANGED <<phase, alive, docked, quest, talk, heading, orders>>
    BY <1>4 DEF allVars, vars
  <2>2. \A p \in Player : BotOk(p)'
    BY <2>1, BotStays DEF HInv
  <2> QED BY <2>1, <2>2 DEF HInv, HTypes, BotsOk
<1> QED BY <1>1, <1>2, <1>3, <1>4 DEF HaulersNext

\* What the bots need for that, at any time.
THEOREM HaulersInvariant == HaulersSpec => []HInv
BY HaulersInitHolds, HaulersStep, PTL DEF HaulersSpec

\* The bots of a room do what people may do, and nothing else: with bots alone,
\* every step is one of Cargo, though a bot acts on the room as it was at the end
\* of an update, and apply_dialogue_option does not look at a condition again.
THEOREM HaulersAreCargo == HaulersSpec => Init /\ [][Step]_vars
<1>1. HaulersInit => Init
  BY DEF HaulersInit
<1> QED BY <1>1, HaulersInvariant, HaulersStep, PTL DEF HaulersSpec

\* What a bot says is never out of date: its dialogue is where it was when the bot
\* decided, and the condition of the option still holds.
THEOREM BotsAnswerInTime ==
    HaulersSpec => [](\A p \in Player : \A o \in orders[p].say :
                          talk[p][o.script] = o.at /\ Shown(p, o))
<1>1. HInv => \A p \in Player : \A o \in orders[p].say :
                  talk[p][o.script] = o.at /\ Shown(p, o)
  BY DEF HInv, BotOk, InTime
<1> QED BY <1>1, HaulersInvariant, PTL

\* A bot has at most one dialogue open, is in one as long as it is docked, and in
\* none while it flies to a planet.
THEOREM BotsTalkWhileDocked ==
    HaulersSpec => [](\A p \in Player : OneDialogue(p) /\ OnItsWay(p))
<1>1. HInv => \A p \in Player : OneDialogue(p) /\ OnItsWay(p)
  BY DEF HInv, BotOk
<1> QED BY <1>1, HaulersInvariant, PTL

\* So bots keep all that Cargo promises: one cargo per quest, stacks apart, goods
\* that are neither made nor lost, and a reward as the only money for nothing.
THEOREM HaulersKeep ==
    HaulersSpec => /\ []TypeOK /\ []StacksApart /\ []OneCargoPerQuest
                   /\ GoodsKept /\ TradesBalance
<1>1. HaulersSpec => []IInv
  BY HaulersAreCargo, StepsKeep, PTL
<1>2. HaulersSpec => []TypeOK /\ []StacksApart /\ []OneCargoPerQuest
  BY <1>1, TypesFrom, ApartFrom, OneCargoFrom, PTL
<1>3. HaulersSpec => GoodsKept /\ TradesBalance
  BY HaulersAreCargo, StepsKeepGoods, StepsKeepBalance
<1> QED BY <1>2, <1>3
=============================================================================
