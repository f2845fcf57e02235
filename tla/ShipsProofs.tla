---------------------------- MODULE ShipsProofs ----------------------------
(***************************************************************************)
(* Proofs about Ships, for any number of players, ships and locations and  *)
(* any durations: what the update does with the long actions of a ship,    *)
(* and the safety properties of the room.                                  *)
(***************************************************************************)
EXTENDS Ships, VectorsProofs

(***************************************************************************)
(* The inductive invariant.                                                *)
(***************************************************************************)

IsJump(a) == a.kind = "jump"

\* The long actions of a ship in location l: all of them still run, at most
\* one is a jump, to another location, at most one is a docking, and it comes
\* after every undocking and is not over before it.
Running(acts) == \A i \in DOMAIN acts : acts[i].left > 0
Elsewhere(l, acts) == \A i \in DOMAIN acts : IsJump(acts[i]) => acts[i].to # l
OneJump(acts) == \A i, j \in DOMAIN acts : IsJump(acts[i]) /\ IsJump(acts[j]) => i = j
OneDock(acts) ==
    \A i, j \in DOMAIN acts : acts[i].kind = "dock" /\ acts[j].kind = "dock" => i = j
DockLast(acts) ==
    \A i, j \in DOMAIN acts :
        acts[i].kind = "dock" /\ acts[j].kind = "undock" => j < i /\ acts[j].left <= acts[i].left
Short(acts) == \A i \in DOMAIN acts : acts[i].kind = "undock" => acts[i].left <= DockTime

Orderly(l, acts) ==
    /\ Running(acts) /\ Short(acts)
    /\ Elsewhere(l, acts) /\ OneJump(acts)
    /\ OneDock(acts) /\ DockLast(acts)

OnlyJumps(acts) == \A i \in DOMAIN acts : IsJump(acts[i])

\* A docked ship flies nowhere and has nothing left to do but jump.
Moored(c) == c.docked # 0 => c.target = 0 /\ OnlyJumps(c.acts)

Sound(l, c) == c \in ShipType /\ Orderly(l, c.acts) /\ Moored(c)

Flights == \A l \in Location, s \in ShipId : Is(l, s) => Sound(l, at[l][s])

\* Who waits for a ship has none, unless it brought its Respawn along.
Waiting ==
    /\ \A p \in Player : p \notin seated => respawn[p] = 0
    /\ \A p \in Player : respawn[p] > 0 => p \in carried \/ (ship[p] = NoShip /\ ~paused)
    /\ paused => phase = 0

IInv == TypeOK /\ OneCopy /\ OwnedShipFlies /\ Flights /\ Waiting

-----------------------------------------------------------------------------
(* Long actions.                                                           *)

LEMMA Constants ==
    /\ Locations \in Nat /\ Locations > 0 /\ 1 \in Location
    /\ DockTime \in Nat /\ DockTime > 0
    /\ JumpTime \in Nat /\ JumpTime > 0
    /\ RespawnTime \in Nat /\ RespawnTime > 0
    /\ GameTime \in Nat /\ GameTime > 0
    /\ PauseTime \in Nat /\ PauseTime > 0
    /\ Ships \in Nat
    /\ NoShip \notin ShipId
    /\ NoShip \notin ShipType
<1>1. {Locations, DockTime, JumpTime, RespawnTime, GameTime, PauseTime} \subseteq Nat \ {0}
  BY ShipsAssumption
<1>2. {Ships, MaxActs} \subseteq Nat
  BY ShipsAssumption
<1> QED BY <1>1, <1>2, ShipsAssumption, NoShipAssumption DEF Location, ShipId

\* Any selection of orderly actions is orderly, without the time left.
LEMMA SelectionOrderly ==
    ASSUME NEW l \in Location, NEW acts \in Seq(ActType), NEW r \in Seq(ActType),
           NEW I \in SUBSET (1..Len(acts)), NEW g, Picks(g, r, acts, I)
    PROVE  /\ Short(acts) => Short(r)
           /\ Elsewhere(l, acts) => Elsewhere(l, r)
           /\ OneJump(acts) => OneJump(r)
           /\ OneDock(acts) => OneDock(r)
           /\ DockLast(acts) => DockLast(r)
           /\ Running(acts) => Running(r)
           /\ OnlyJumps(acts) => OnlyJumps(r)
<1>1. /\ DOMAIN r = 1..Len(r) /\ DOMAIN acts = 1..Len(acts)
      /\ Len(r) \in Nat /\ Len(acts) \in Nat
  OBVIOUS
<1>2. /\ \A n \in DOMAIN r : g[n] \in DOMAIN acts /\ r[n] = acts[g[n]]
      /\ \A m, n \in DOMAIN r : m < n => g[m] < g[n]
  BY <1>1 DEF Picks, Increasing
<1>3. \A n \in DOMAIN r : n \in Nat /\ g[n] \in Nat
  BY <1>1, <1>2
<1>4. \A m, n \in DOMAIN r : g[m] = g[n] => m = n
  BY <1>2, <1>3
<1>5. \A m, n \in DOMAIN r : g[m] < g[n] => m < n
  BY <1>2, <1>3
<1>6. Short(acts) => Short(r)
  BY <1>2 DEF Short
<1>7. Elsewhere(l, acts) => Elsewhere(l, r)
  BY <1>2 DEF Elsewhere
<1>8. OneJump(acts) => OneJump(r)
  BY <1>2, <1>4 DEF OneJump
<1>9. OneDock(acts) => OneDock(r)
  BY <1>2, <1>4 DEF OneDock
<1>10. DockLast(acts) => DockLast(r)
  BY <1>2, <1>5 DEF DockLast
<1>11. Running(acts) => Running(r)
  BY <1>2 DEF Running
<1>12. OnlyJumps(acts) => OnlyJumps(r)
  BY <1>2 DEF OnlyJumps
<1> QED BY <1>6, <1>7, <1>8, <1>9, <1>10, <1>11, <1>12

\* revalidate keeps orderly actions orderly, also when a jump comes on top.
LEMMA RevalidatedOrderly ==
    ASSUME NEW l \in Location, NEW acts \in Seq(ActType),
           Running(acts), Short(acts), Elsewhere(l, acts), OneDock(acts), DockLast(acts)
    PROVE  /\ Revalidated(acts) \in Seq(ActType)
           /\ Orderly(l, Revalidated(acts))
           /\ OnlyJumps(acts) => OnlyJumps(Revalidated(acts))
<1> DEFINE I == {i \in DOMAIN acts : \A j \in 1..(i - 1) : ~Conflict(acts[j], acts[i])}
           r == Retained(acts, I)
<1>1. I \in SUBSET (1..Len(acts))
  OBVIOUS
<1>2. r \in Seq(ActType)
  BY <1>1, RetainedProperties
<1>3. PICK g : Picks(g, r, acts, I)
  BY <1>1, RetainedProperties
<1>4. \A i, j \in I : IsJump(acts[i]) /\ IsJump(acts[j]) /\ i < j => FALSE
  BY DEF Conflict, IsJump
<1>5. \A i \in I : i \in Nat
  BY <1>1
<1> HIDE DEF I
<1>6. r = Revalidated(acts)
  BY DEF Revalidated, I
<1> HIDE DEF r
<1>7. OneJump(r)
  <2>1. DOMAIN r = 1..Len(r) /\ Len(r) \in Nat
    BY <1>2
  <2>2. \A n \in DOMAIN r : g[n] \in I /\ r[n] = acts[g[n]]
    BY <1>3, <2>1 DEF Picks
  <2>3. \A m, n \in DOMAIN r : m < n => g[m] < g[n]
    BY <1>3, <2>1 DEF Picks, Increasing
  <2>4. \A m, n \in DOMAIN r : m < n => ~(IsJump(r[m]) /\ IsJump(r[n]))
    BY <1>4, <2>2, <2>3
  <2>5. \A m, n \in DOMAIN r : m < n \/ n < m \/ m = n
    BY <2>1
  <2> QED BY <2>4, <2>5 DEF OneJump
<1>8. /\ Running(r) /\ Short(r) /\ Elsewhere(l, r) /\ OneDock(r) /\ DockLast(r)
      /\ OnlyJumps(acts) => OnlyJumps(r)
  BY <1>1, <1>2, <1>3, SelectionOrderly
<1> QED BY <1>2, <1>6, <1>7, <1>8 DEF Orderly

\* One tick takes one from every action and changes nothing else.
LEMMA TickedActs ==
    ASSUME NEW c \in ShipType, Running(c.acts)
    PROVE  /\ Ticked(c) \in Seq(ActType)
           /\ Len(Ticked(c)) = Len(c.acts) /\ DOMAIN c.acts = 1..Len(Ticked(c))
           /\ \A i \in DOMAIN c.acts : /\ Ticked(c)[i].kind = c.acts[i].kind
                                       /\ Ticked(c)[i].to = c.acts[i].to
                                       /\ Ticked(c)[i].left = c.acts[i].left - 1
<1>1. c.acts \in Seq(ActType)
  BY DEF ShipType
<1>2. DOMAIN c.acts = 1..Len(c.acts) /\ Len(c.acts) \in Nat
  BY <1>1
<1>3. ASSUME NEW i \in DOMAIN c.acts
      PROVE  /\ Ticked(c)[i] \in ActType
             /\ Ticked(c)[i].kind = c.acts[i].kind
             /\ Ticked(c)[i].to = c.acts[i].to
             /\ Ticked(c)[i].left = c.acts[i].left - 1
  <2> DEFINE a == c.acts[i]
  <2>1. a \in ActType /\ a.left > 0
    BY <1>1, <1>2 DEF Running
  <2>2. Ticked(c)[i] = [a EXCEPT !.left = @ - 1]
    BY DEF Ticked
  <2> HIDE DEF a
  <2>3. [a EXCEPT !.left = @ - 1] \in ActType
    BY <2>1 DEF ActType
  <2> QED BY <2>1, <2>2, <2>3 DEF ActType, a
<1>4. Ticked(c) \in [1..Len(c.acts) -> ActType]
  <2>1. DOMAIN Ticked(c) = 1..Len(c.acts) /\ Ticked(c) = [i \in DOMAIN c.acts |-> Ticked(c)[i]]
    BY <1>2 DEF Ticked
  <2> QED BY <1>2, <1>3, <2>1
<1>5. Ticked(c) \in Seq(ActType) /\ Len(Ticked(c)) = Len(c.acts)
  BY <1>2, <1>4
<1> QED BY <1>2, <1>3, <1>5

\* What finishes and what is kept of orderly actions: a jump or a docking that
\* finishes was the only one, and with the docking every undocking is over.
LEMMA FinishedAndKept ==
    ASSUME NEW l \in Location, NEW c \in ShipType, Orderly(l, c.acts)
    PROVE  /\ Finished(c) \in Seq(ActType)
           /\ Elsewhere(l, Finished(c)) /\ DockLast(Finished(c))
           /\ Kept(c) \in Seq(ActType) /\ Orderly(l, Kept(c))
           /\ \A i \in DOMAIN Finished(c) : IsJump(Finished(c)[i]) =>
                \A j \in DOMAIN Kept(c) : ~IsJump(Kept(c)[j])
           /\ \A i \in DOMAIN Finished(c) : Finished(c)[i].kind = "dock" => OnlyJumps(Kept(c))
           /\ OnlyJumps(c.acts) => OnlyJumps(Finished(c)) /\ OnlyJumps(Kept(c))
<1> DEFINE t == Ticked(c)
           F == {i \in DOMAIN c.acts : Ticked(c)[i].left <= 0}
           K == {i \in DOMAIN c.acts : Ticked(c)[i].left > 0}
           f == Finished(c)
           k == Kept(c)
<1>1. c.acts \in Seq(ActType)
  BY DEF ShipType
<1>2. /\ t \in Seq(ActType)
      /\ Len(t) = Len(c.acts) /\ DOMAIN c.acts = 1..Len(t) /\ Len(t) \in Nat
      /\ \A i \in 1..Len(t) : /\ t[i].kind = c.acts[i].kind
                              /\ t[i].to = c.acts[i].to
                              /\ t[i].left = c.acts[i].left - 1
                              /\ c.acts[i].left \in Nat
                              /\ t[i] \in ActType /\ c.acts[i] \in ActType
  <2>1. Running(c.acts)
    BY DEF Orderly
  <2>2. /\ t \in Seq(ActType)
        /\ Len(t) = Len(c.acts) /\ DOMAIN c.acts = 1..Len(t)
        /\ \A i \in DOMAIN c.acts : /\ t[i].kind = c.acts[i].kind
                                    /\ t[i].to = c.acts[i].to
                                    /\ t[i].left = c.acts[i].left - 1
    BY <2>1, TickedActs
  <2>3. \A i \in 1..Len(t) : t[i] \in ActType /\ c.acts[i] \in ActType
    BY <1>1, <2>2
  <2> QED BY <2>2, <2>3 DEF ActType
<1>3. F \in SUBSET (1..Len(t)) /\ K \in SUBSET (1..Len(t))
  BY <1>2
<1>4. f = Retained(t, F) /\ k = Retained(t, K)
  BY DEF Finished, Kept
<1>5. f \in Seq(ActType) /\ k \in Seq(ActType)
  BY <1>2, <1>3, <1>4, RetainedProperties
<1>6. PICK g : Picks(g, f, t, F)
  BY <1>2, <1>3, <1>4, RetainedProperties
<1>7. PICK h : Picks(h, k, t, K)
  BY <1>2, <1>3, <1>4, RetainedProperties
<1>8. \A i \in F : t[i].left <= 0
  OBVIOUS
<1>9. \A i \in K : t[i].left > 0
  OBVIOUS
<1> HIDE DEF t, F, K, f, k
<1>10. /\ Short(t) /\ Elsewhere(l, t) /\ OneJump(t) /\ OneDock(t) /\ DockLast(t)
       /\ OnlyJumps(c.acts) => OnlyJumps(t)
  <2>1. DOMAIN t = 1..Len(t) /\ DOMAIN c.acts = 1..Len(t)
    BY <1>2
  <2>2. Short(t)
    <3>1. Short(c.acts) /\ DockTime \in Nat
      BY Constants DEF Orderly
    <3>2. \A n \in Nat : n <= DockTime => n - 1 <= DockTime
      BY <3>1
    <3> QED BY <1>2, <2>1, <3>1, <3>2 DEF Short
  <2>3. Elsewhere(l, t) /\ OneJump(t) /\ OneDock(t)
    BY <1>2, <2>1 DEF Elsewhere, OneJump, OneDock, Orderly, IsJump
  <2>4. DockLast(t)
    <3>1. SUFFICES ASSUME NEW i \in DOMAIN t, NEW j \in DOMAIN t,
                          t[i].kind = "dock", t[j].kind = "undock"
                   PROVE  j < i /\ t[j].left <= t[i].left
      BY DEF DockLast
    <3>2. DockLast(c.acts)
      BY DEF Orderly
    <3>3. j < i /\ c.acts[j].left <= c.acts[i].left
      BY <1>2, <2>1, <3>1, <3>2 DEF DockLast
    <3> QED BY <1>2, <2>1, <3>3
  <2>5. OnlyJumps(c.acts) => OnlyJumps(t)
    BY <1>2, <2>1 DEF OnlyJumps, IsJump
  <2> QED BY <2>2, <2>3, <2>4, <2>5
<1>11. /\ Elsewhere(l, f) /\ DockLast(f)
       /\ OnlyJumps(t) => OnlyJumps(f)
  BY <1>2, <1>3, <1>5, <1>6, <1>10, SelectionOrderly
<1>12. /\ Short(k) /\ Elsewhere(l, k) /\ OneJump(k) /\ OneDock(k) /\ DockLast(k)
       /\ OnlyJumps(t) => OnlyJumps(k)
  BY <1>2, <1>3, <1>5, <1>7, <1>10, SelectionOrderly
<1>13. /\ DOMAIN f = 1..Len(f) /\ DOMAIN k = 1..Len(k) /\ DOMAIN t = 1..Len(t)
  BY <1>2, <1>5
<1>14. /\ \A i \in DOMAIN f : g[i] \in F /\ f[i] = t[g[i]] /\ g[i] \in DOMAIN t
       /\ \A j \in DOMAIN k : h[j] \in K /\ k[j] = t[h[j]] /\ h[j] \in DOMAIN t
  BY <1>3, <1>6, <1>7, <1>13 DEF Picks
<1>15. Running(k)
  BY <1>9, <1>14 DEF Running
<1>16. \A i \in DOMAIN f, j \in DOMAIN k : g[i] # h[j] /\ f[i].left < k[j].left
  <2>1. \A i \in F, j \in K : i # j /\ t[i].left < t[j].left
    <3>1. \A i \in 1..Len(t) : t[i].left \in Int
      BY <1>2 DEF ActType
    <3> QED BY <1>3, <1>8, <1>9, <3>1
  <2> QED BY <1>14, <2>1
<1>17. \A i \in DOMAIN f, j \in DOMAIN k : ~(IsJump(f[i]) /\ IsJump(k[j]))
  BY <1>10, <1>14, <1>16 DEF OneJump
<1>18. ASSUME NEW i \in DOMAIN f, f[i].kind = "dock", NEW j \in DOMAIN k
       PROVE  IsJump(k[j])
  <2>1. k[j].kind # "dock"
    BY <1>10, <1>14, <1>16, <1>18 DEF OneDock
  <2>2. ASSUME k[j].kind = "undock"
        PROVE  FALSE
    <3>1. k[j].left <= f[i].left
      BY <1>10, <1>14, <1>18, <2>2 DEF DockLast
    <3>2. f[i] \in ActType /\ k[j] \in ActType
      BY <1>5, <1>13
    <3>3. f[i].left \in Nat /\ k[j].left \in Nat
      BY <3>2 DEF ActType
    <3>4. f[i].left < k[j].left
      BY <1>16
    <3> QED BY <3>1, <3>3, <3>4
  <2>3. k[j].kind \in {"dock", "undock", "jump"}
    <3>1. k[j] \in ActType
      BY <1>5, <1>13
    <3> QED BY <3>1 DEF ActType
  <2> QED BY <2>1, <2>2, <2>3 DEF IsJump
<1>19. \A i \in DOMAIN f : f[i].kind = "dock" => OnlyJumps(k)
  BY <1>18 DEF OnlyJumps
<1>20. Orderly(l, k)
  BY <1>12, <1>15 DEF Orderly
<1> QED BY <1>5, <1>10, <1>11, <1>12, <1>17, <1>19, <1>20 DEF f, k

\* Where a ship is docked after n actions of a list that finishes: a docked ship
\* stays docked, and one that was not is only after a docking.
LEMMA DockedAfterActs ==
    ASSUME NEW l \in Location, NEW c \in ShipType, Orderly(l, c.acts), Moored(c),
           NEW n \in 0..Len(Finished(c))
    PROVE  /\ DockedAfter(c, n) \in 0..Locations
           /\ c.docked # 0 => DockedAfter(c, n) = c.docked
           /\ c.docked = 0 /\ DockedAfter(c, n) # 0 =>
                \E i \in 1..n : Finished(c)[i].kind = "dock"
<1> DEFINE f == Finished(c)
           M == {i \in 1..n : Tied(f[i])}
<1>1. f \in Seq(ActType)
  BY FinishedAndKept
<1>2. n \in Nat /\ \A i \in 1..n : i \in DOMAIN f /\ f[i] \in ActType
  BY <1>1
<1>3. DockedAfter(c, n) = IF M = {} THEN c.docked
                          ELSE IF f[Max(M)].kind = "dock" THEN f[Max(M)].to ELSE 0
  BY DEF DockedAfter
<1>4. c.docked \in 0..Locations
  BY DEF ShipType
<1>5. c.docked # 0 => M = {}
  <2>1. c.docked # 0 => OnlyJumps(f)
    BY FinishedAndKept DEF Moored
  <2> QED BY <1>2, <2>1 DEF OnlyJumps, IsJump, Tied
<1>6. ASSUME M # {}
      PROVE  Max(M) \in 1..n
  <2>1. M \in SUBSET (1..n)
    OBVIOUS
  <2> HIDE DEF M
  <2>2. \E x \in M : \A y \in M : x >= y
    BY <1>2, <1>6, <2>1, GreatestNumber
  <2>3. Max(M) \in M
    BY <2>2 DEF Max
  <2> QED BY <2>1, <2>3
<1> HIDE DEF f, M
<1>7. CASE M = {}
  BY <1>3, <1>4, <1>7
<1>8. CASE M # {}
  <2>1. Max(M) \in 1..n /\ f[Max(M)] \in ActType
    BY <1>2, <1>6, <1>8
  <2>2. f[Max(M)].to \in 1..Locations
    BY <2>1 DEF ActType, Location
  <2>3. /\ DockedAfter(c, n) = IF f[Max(M)].kind = "dock" THEN f[Max(M)].to ELSE 0
        /\ c.docked = 0
    BY <1>3, <1>5, <1>8
  <2>4. CASE f[Max(M)].kind = "dock"
    BY <2>1, <2>2, <2>3, <2>4, Constants DEF f
  <2>5. CASE f[Max(M)].kind # "dock"
    BY <2>3, <2>5, Constants
  <2> QED BY <2>4, <2>5
<1> QED BY <1>7, <1>8

\* No undocking finishes while the ship is docked.
LEMMA NeverUndockedAgain ==
    ASSUME NEW l \in Location, NEW c \in ShipType, Orderly(l, c.acts), Moored(c),
           NEW n \in 0..Len(Finished(c)), NEW k \in Location
    PROVE  UndockedAgain(k, c, n) = {}
<1> DEFINE f == Finished(c)
<1> SUFFICES ASSUME NEW i \in 1..n, f[i].kind = "undock", DockedAfter(c, i - 1) = k
             PROVE  FALSE
  BY DEF UndockedAgain
<1>1. f \in Seq(ActType) /\ DockLast(f) /\ (OnlyJumps(c.acts) => OnlyJumps(f))
  BY FinishedAndKept
<1>2. i \in DOMAIN f /\ i - 1 \in 0..Len(f) /\ i \in Nat
  BY <1>1
<1>3. k # 0
  BY DEF Location
<1>4. c.docked = 0
  <2>1. c.docked # 0 => OnlyJumps(f)
    BY <1>1 DEF Moored
  <2> QED BY <1>2, <2>1 DEF OnlyJumps, IsJump
<1> HIDE DEF f
<1>5. PICK j \in 1..(i - 1) : f[j].kind = "dock"
  BY <1>2, <1>3, <1>4, DockedAfterActs DEF f
<1>6. j \in DOMAIN f /\ j < i /\ j \in Nat
  <2>1. DOMAIN f = 1..Len(f) /\ Len(f) \in Nat
    BY <1>1
  <2> QED BY <1>2, <2>1
<1>7. i < j
  BY <1>1, <1>2, <1>5, <1>6 DEF DockLast
<1> QED BY <1>2, <1>6, <1>7

\* The ship after n actions of its list: as it was, but for where it is docked and
\* what is left to do.
LEMMA AfterFinishedSound ==
    ASSUME NEW l \in Location, NEW c, Sound(l, c),
           NEW n \in 0..Len(Finished(c)), NEW k \in Location
    PROVE  LET d == AfterFinished(k, c, n)
           IN  /\ d \in ShipType /\ Moored(d)
               /\ d.orphan = c.orphan
               /\ d.acts = Kept(c)
               /\ c.docked # 0 => d.docked = c.docked
<1> DEFINE f == Finished(c)
           d == AfterFinished(k, c, n)
           none == [i \in 1..Cardinality(UndockedAgain(k, c, n)) |-> UndockAct(k)]
           lands == \E i \in 1..n : f[i].kind = "dock"
<1>1. c \in ShipType /\ Orderly(l, c.acts) /\ Moored(c)
  BY DEF Sound
<1>2. /\ f \in Seq(ActType) /\ Kept(c) \in Seq(ActType)
      /\ \A i \in DOMAIN f : f[i].kind = "dock" => OnlyJumps(Kept(c))
      /\ OnlyJumps(c.acts) => OnlyJumps(Kept(c))
  BY <1>1, FinishedAndKept
<1>3. none = <<>>
  <2>1. UndockedAgain(k, c, n) = {}
    BY <1>1, NeverUndockedAgain
  <2>2. Cardinality(UndockedAgain(k, c, n)) = 0
    BY <2>1, FS_EmptySet
  <2> QED BY <2>2
<1>4. Kept(c) \o none = Kept(c)
  <2>1. \A s \in Seq(ActType) : s \o <<>> = s
    OBVIOUS
  <2> HIDE DEF none
  <2> QED BY <1>2, <1>3, <2>1
<1>5. d = [c EXCEPT !.docked = DockedAfter(c, n), !.target = IF lands THEN 0 ELSE @,
                    !.acts = Kept(c) \o none]
  BY DEF AfterFinished
<1>6. /\ DockedAfter(c, n) \in 0..Locations
      /\ c.docked # 0 => DockedAfter(c, n) = c.docked
      /\ c.docked = 0 /\ DockedAfter(c, n) # 0 => lands
  BY <1>1, DockedAfterActs
<1>7. lands => OnlyJumps(Kept(c))
  <2>1. \A i \in 1..n : i \in DOMAIN f
    BY <1>2
  <2> QED BY <1>2, <2>1
<1>8. d = [c EXCEPT !.docked = DockedAfter(c, n), !.target = IF lands THEN 0 ELSE @,
                    !.acts = Kept(c)]
  BY <1>4, <1>5
<1> HIDE DEF f, lands, none, d
<1>9. /\ d.docked = DockedAfter(c, n)
      /\ d.target = IF lands THEN 0 ELSE c.target
      /\ d.acts = Kept(c) /\ d.orphan = c.orphan
      /\ d \in ShipType
  <2>1. c.target \in 0..Locations /\ 0 \in 0..Locations
    BY <1>1, Constants DEF ShipType
  <2> QED BY <1>1, <1>2, <1>6, <1>8, <2>1 DEF ShipType
<1>10. Moored(d)
  <2>1. SUFFICES ASSUME DockedAfter(c, n) # 0
                 PROVE  d.target = 0 /\ OnlyJumps(Kept(c))
    BY <1>9 DEF Moored
  <2>2. CASE c.docked # 0
    BY <1>1, <1>2, <1>9, <2>2 DEF Moored
  <2>3. CASE c.docked = 0
    BY <1>6, <1>7, <1>9, <2>1, <2>3
  <2> QED BY <2>2, <2>3
<1> QED BY <1>6, <1>9, <1>10 DEF d

\* A ship whose actions are not orderly yet is sound once they are.
LEMMA NewActsSound ==
    ASSUME NEW l \in Location, NEW c, Sound(l, c),
           NEW acts \in Seq(ActType), Orderly(l, acts),
           c.docked # 0 => OnlyJumps(acts)
    PROVE  /\ Sound(l, [c EXCEPT !.acts = acts])
           /\ [c EXCEPT !.acts = acts].orphan = c.orphan
           /\ [c EXCEPT !.acts = acts].acts = acts
<1> DEFINE d == [c EXCEPT !.acts = acts]
<1>1. c \in ShipType
  BY DEF Sound
<1>2. /\ d \in ShipType
      /\ d.docked = c.docked /\ d.target = c.target /\ d.orphan = c.orphan /\ d.acts = acts
  BY <1>1 DEF ShipType
<1> HIDE DEF d
<1>3. Moored(d)
  BY <1>2 DEF Sound, Moored
<1>4. Sound(l, d)
  BY <1>2, <1>3 DEF Sound
<1> QED BY <1>2, <1>4 DEF d

\* So is one that gives up flying to a planet, or is not docked and flies to one.
LEMMA NewTargetSound ==
    ASSUME NEW l \in Location, NEW c, Sound(l, c),
           NEW q \in 0..Locations, q = 0 \/ c.docked = 0
    PROVE  /\ Sound(l, [c EXCEPT !.target = q])
           /\ [c EXCEPT !.target = q].orphan = c.orphan
<1> DEFINE d == [c EXCEPT !.target = q]
<1>1. c \in ShipType
  BY DEF Sound
<1>2. /\ d \in ShipType
      /\ d.docked = c.docked /\ d.target = q /\ d.orphan = c.orphan /\ d.acts = c.acts
  BY <1>1 DEF ShipType
<1> HIDE DEF d
<1>3. Moored(d)
  BY <1>2 DEF Sound, Moored
<1>4. Sound(l, d)
  BY <1>2, <1>3 DEF Sound
<1> QED BY <1>2, <1>4 DEF d

\* undock_ship
LEMMA UndockedSound ==
    ASSUME NEW l \in Location, NEW c, Sound(l, c)
    PROVE  /\ Sound(l, Undocked(l, c))
           /\ Undocked(l, c).docked = 0
           /\ Undocked(l, c).orphan = c.orphan
<1>1. c \in ShipType /\ Orderly(l, c.acts) /\ c.acts \in Seq(ActType)
  BY DEF Sound, ShipType
<1>2. CASE c.docked = 0
  BY <1>2 DEF Undocked
<1>3. CASE c.docked # 0
  <2> DEFINE acts == c.acts \o Undocks(l, c.docked)
             d == [c EXCEPT !.docked = 0, !.acts = acts]
  <2>1. Undocked(l, c) = d
    BY <1>3 DEF Undocked
  <2>2. OnlyJumps(c.acts)
    BY <1>3 DEF Sound, Moored
  <2>3. /\ acts \in Seq(ActType)
        /\ \/ acts = c.acts
           \/ /\ Len(acts) = Len(c.acts) + 1
              /\ \A i \in 1..Len(c.acts) : acts[i] = c.acts[i]
              /\ acts[Len(c.acts) + 1] = UndockAct(l)
    <3>1. CASE c.docked # l
      <4>1. Undocks(l, c.docked) = <<>>
        BY <3>1 DEF Undocks
      <4>2. \A s \in Seq(ActType) : s \o <<>> = s
        OBVIOUS
      <4> QED BY <1>1, <4>1, <4>2
    <3>2. CASE c.docked = l
      <4> DEFINE u == UndockAct(l)
      <4>1. u \in ActType
        BY Constants DEF UndockAct, Act, ActType
      <4>2. Undocks(l, c.docked) = <<u>>
        BY <3>2 DEF Undocks
      <4> HIDE DEF u
      <4>3. /\ c.acts \o <<u>> \in Seq(ActType)
            /\ Len(c.acts \o <<u>>) = Len(c.acts) + 1
            /\ \A i \in 1..Len(c.acts) : (c.acts \o <<u>>)[i] = c.acts[i]
            /\ (c.acts \o <<u>>)[Len(c.acts) + 1] = u
        BY <1>1, <4>1
      <4> QED BY <4>2, <4>3 DEF u
    <3> QED BY <3>1, <3>2
  <2> HIDE DEF acts
  <2>4. /\ d \in ShipType
        /\ d.docked = 0 /\ d.orphan = c.orphan /\ d.acts = acts
    <3>1. acts \in Seq(ActType) /\ 0 \in 0..Locations
      BY <2>3, Constants
    <3> QED BY <1>1, <3>1 DEF ShipType
  <2>5. Orderly(l, acts)
    <3>1. CASE acts = c.acts
      BY <1>1, <3>1
    <3>2. CASE /\ Len(acts) = Len(c.acts) + 1
               /\ \A i \in 1..Len(c.acts) : acts[i] = c.acts[i]
               /\ acts[Len(c.acts) + 1] = UndockAct(l)
      <4> DEFINE n == Len(c.acts) + 1
                 u == acts[n]
      <4>1. u.kind = "undock" /\ u.left = DockTime
        BY <3>2 DEF UndockAct, Act
      <4>2. \A i \in DOMAIN acts : (i \in DOMAIN c.acts /\ acts[i] = c.acts[i]) \/ i = n
        BY <1>1, <2>3, <3>2
      <4>3. \A i \in DOMAIN acts : acts[i].kind # "dock"
        BY <2>2, <4>1, <4>2 DEF OnlyJumps, IsJump
      <4>4. OneDock(acts) /\ DockLast(acts)
        BY <4>3 DEF OneDock, DockLast
      <4> HIDE DEF n
      <4>5. Running(acts)
        BY <1>1, <4>1, <4>2, Constants DEF Running, Orderly
      <4>6. Short(acts)
        BY <1>1, <4>1, <4>2, Constants DEF Short, Orderly
      <4>7. Elsewhere(l, acts) /\ OneJump(acts)
        BY <1>1, <4>1, <4>2 DEF Elsewhere, OneJump, IsJump, Orderly
      <4> QED BY <4>4, <4>5, <4>6, <4>7 DEF Orderly
    <3> QED BY <2>3, <3>1, <3>2
  <2>6. Moored(d)
    BY <2>4 DEF Moored
  <2> HIDE DEF d
  <2> QED BY <2>1, <2>4, <2>5, <2>6 DEF Sound
<1> QED BY <1>2, <1>3

\* try_start_dock, while the ship flies to the planet of its location.
LEMMA DocksSound ==
    ASSUME NEW l \in Location, NEW c, Sound(l, c), c.target = l, ~Docking(c)
    PROVE  /\ Sound(l, Docks(c))
           /\ Docks(c).docked = c.docked /\ Docks(c).orphan = c.orphan
<1> DEFINE a == Act("dock", c.target, DockTime)
           acts == Append(c.acts, a)
           n == Len(c.acts) + 1
           d == [c EXCEPT !.acts = acts, !.target = 0]
<1>1. c \in ShipType /\ Orderly(l, c.acts) /\ c.acts \in Seq(ActType)
  BY DEF Sound, ShipType
<1>2. c.docked = 0
  BY DEF Sound, Moored, Location
<1>3. a \in ActType /\ a.kind = "dock" /\ a.left = DockTime
  BY Constants DEF Act, ActType
<1>4. Docks(c) = d
  BY DEF Docks
<1>5. \A i \in DOMAIN c.acts : c.acts[i].kind # "dock"
  BY DEF Docking
<1> HIDE DEF a
<1>6. /\ acts \in Seq(ActType) /\ acts[n] = a /\ n \in Nat
      /\ \A i \in DOMAIN acts : (i \in DOMAIN c.acts /\ acts[i] = c.acts[i] /\ i < n) \/ i = n
  BY <1>1, <1>3
<1> HIDE DEF acts, n
<1>7. /\ d \in ShipType
      /\ d.docked = 0 /\ d.orphan = c.orphan /\ d.acts = acts
  <2>1. 0 \in 0..Locations
    BY Constants
  <2> QED BY <1>1, <1>2, <1>6, <2>1 DEF ShipType
<1>8. Running(acts)
  BY <1>1, <1>3, <1>6, Constants DEF Running, Orderly
<1>9. Short(acts)
  BY <1>1, <1>3, <1>6 DEF Short, Orderly
<1>10. Elsewhere(l, acts) /\ OneJump(acts)
  BY <1>1, <1>3, <1>6 DEF Elsewhere, OneJump, IsJump, Orderly
<1>11. OneDock(acts)
  BY <1>3, <1>5, <1>6 DEF OneDock
<1>12. DockLast(acts)
  <2> SUFFICES ASSUME NEW i \in DOMAIN acts, NEW j \in DOMAIN acts,
                      acts[i].kind = "dock", acts[j].kind = "undock"
               PROVE  j < i /\ acts[j].left <= acts[i].left
    BY DEF DockLast
  <2>1. i = n
    BY <1>5, <1>6
  <2>2. j < n /\ acts[j] = c.acts[j] /\ j \in DOMAIN c.acts
    BY <1>3, <1>6
  <2>3. c.acts[j].left <= DockTime
    BY <1>1, <2>2 DEF Short, Orderly
  <2> QED BY <1>3, <1>6, <2>1, <2>2, <2>3
<1>13. Orderly(l, acts)
  BY <1>8, <1>9, <1>10, <1>11, <1>12 DEF Orderly
<1>14. Moored(d)
  BY <1>7 DEF Moored
<1> HIDE DEF d
<1> QED BY <1>2, <1>4, <1>7, <1>13, <1>14 DEF Sound

\* update_initiate_ship_docking_by_navigation
LEMMA ArrivingSound ==
    ASSUME NEW l \in Location, NEW s \in Here(l), Sound(l, at[l][s]),
           NEW near \in SUBSET {t \in Here(l) : at[l][t].target = l}
    PROVE  /\ Sound(l, Arriving(l, near)[s])
           /\ Arriving(l, near)[s].docked = at[l][s].docked
           /\ Arriving(l, near)[s].orphan = at[l][s].orphan
<1> DEFINE c == at[l][s]
<1>1. Arriving(l, near)[s] = IF s \in near /\ ~Docking(c) THEN Docks(c) ELSE c
  BY DEF Arriving
<1>2. s \in near => c.target = l
  OBVIOUS
<1> HIDE DEF c
<1>3. CASE s \in near /\ ~Docking(c)
  BY <1>1, <1>2, <1>3, DocksSound DEF c
<1>4. CASE ~(s \in near /\ ~Docking(c))
  BY <1>1, <1>4 DEF c
<1> QED BY <1>3, <1>4

\* try_start_shoot, try_start_launch
LEMMA ShotSound ==
    ASSUME NEW l \in Location, NEW c, Sound(l, c)
    PROVE  /\ Sound(l, [c EXCEPT !.acts = Revalidated(@)])
           /\ [c EXCEPT !.acts = Revalidated(@)].orphan = c.orphan
<1>1. c.acts \in Seq(ActType) /\ Orderly(l, c.acts)
  BY DEF Sound, ShipType
<1>2. /\ Revalidated(c.acts) \in Seq(ActType)
      /\ Orderly(l, Revalidated(c.acts))
      /\ OnlyJumps(c.acts) => OnlyJumps(Revalidated(c.acts))
  BY <1>1, RevalidatedOrderly DEF Orderly
<1>3. c.docked # 0 => OnlyJumps(c.acts)
  BY DEF Sound, Moored
<1> DEFINE acts == Revalidated(c.acts)
<1>4. acts \in Seq(ActType) /\ Orderly(l, acts) /\ (c.docked # 0 => OnlyJumps(acts))
  BY <1>2, <1>3
<1> HIDE DEF acts
<1>5. Sound(l, [c EXCEPT !.acts = acts]) /\ [c EXCEPT !.acts = acts].orphan = c.orphan
  BY <1>4, NewActsSound
<1> QED BY <1>5 DEF acts

\* LongActionStart::TransSystemJump
LEMMA JumpStartsSound ==
    ASSUME NEW l \in Location, NEW c, Sound(l, c), c.docked = 0,
           NEW to \in Location, to # l
    PROVE  LET acts == Revalidated(Append(c.acts, Act("jump", to, JumpTime)))
           IN  /\ Sound(l, [c EXCEPT !.acts = acts])
               /\ [c EXCEPT !.acts = acts].orphan = c.orphan
<1> DEFINE a == Act("jump", to, JumpTime)
           more == Append(c.acts, a)
           n == Len(c.acts) + 1
<1>1. c.acts \in Seq(ActType) /\ Orderly(l, c.acts)
  BY DEF Sound, ShipType
<1>2. a \in ActType /\ a.kind = "jump" /\ a.to = to /\ a.left = JumpTime
  BY Constants DEF Act, ActType
<1> HIDE DEF a
<1>3. /\ more \in Seq(ActType) /\ more[n] = a
      /\ \A i \in DOMAIN more : (i \in DOMAIN c.acts /\ more[i] = c.acts[i]) \/ i = n
  BY <1>1, <1>2
<1> HIDE DEF more, n
<1>4. Running(more)
  BY <1>1, <1>2, <1>3, Constants DEF Running, Orderly
<1>5. Short(more) /\ Elsewhere(l, more)
  BY <1>1, <1>2, <1>3 DEF Short, Elsewhere, Orderly
<1>6. OneDock(more) /\ DockLast(more)
  BY <1>1, <1>2, <1>3 DEF OneDock, DockLast, Orderly
<1>7. Revalidated(more) \in Seq(ActType) /\ Orderly(l, Revalidated(more))
  BY <1>3, <1>4, <1>5, <1>6, RevalidatedOrderly
<1> DEFINE acts == Revalidated(more)
<1> HIDE DEF acts
<1>8. Sound(l, [c EXCEPT !.acts = acts]) /\ [c EXCEPT !.acts = acts].orphan = c.orphan
  BY <1>7, NewActsSound DEF acts
<1> QED BY <1>8 DEF acts, more, a

\* A jump that finishes leads to another location, and only the ship of a player jumps.
LEMMA JumpOfActs ==
    ASSUME NEW l \in Location, NEW c, Sound(l, c), NEW owned \in BOOLEAN, JumpOf(c, owned) # 0
    PROVE  /\ owned
           /\ JumpOf(c, owned) \in 1..Len(Finished(c))
           /\ IsJump(Finished(c)[JumpOf(c, owned)])
           /\ Finished(c)[JumpOf(c, owned)].to \in Location \ {l}
<1> DEFINE f == Finished(c)
           J == {i \in DOMAIN f : owned /\ f[i].kind = "jump" /\ DockedAfter(c, i - 1) = 0}
<1>1. JumpOf(c, owned) = IF J = {} THEN 0 ELSE Min(J)
  BY DEF JumpOf
<1>2. f \in Seq(ActType) /\ Elsewhere(l, f)
  BY FinishedAndKept DEF Sound
<1>3. J \subseteq DOMAIN f /\ \A i \in J : owned /\ f[i].kind = "jump"
  OBVIOUS
<1>4. DOMAIN f = 1..Len(f) /\ Len(f) \in Nat
  BY <1>2
<1> HIDE DEF f, J
<1>5. J # {} /\ J \subseteq Nat
  BY <1>1, <1>3, <1>4
<1>6. Min(J) \in J
  BY <1>5, LeastNumber DEF Min
<1> DEFINE m == Min(J)
<1> HIDE DEF m
<1>7. m \in J /\ JumpOf(c, owned) = m
  BY <1>1, <1>5, <1>6 DEF m
<1>8. m \in DOMAIN f /\ owned /\ IsJump(f[m])
  BY <1>3, <1>7 DEF IsJump
<1>9. f[m] \in ActType
  BY <1>2, <1>8
<1>10. f[m].to \in Location
  BY <1>9 DEF ActType
<1> QED BY <1>2, <1>4, <1>7, <1>8, <1>10 DEF Elsewhere, f

\* The ship that stays, after everything that finishes.
LEMMA StaysSound ==
    ASSUME NEW l \in Location, NEW c, Sound(l, c)
    PROVE  LET d == AfterFinished(l, c, Len(Finished(c)))
           IN  /\ Sound(l, d)
               /\ d.orphan = c.orphan
               /\ c.docked # 0 => d.docked = c.docked
<1> DEFINE d == AfterFinished(l, c, Len(Finished(c)))
<1>1. Finished(c) \in Seq(ActType) /\ Orderly(l, Kept(c))
  BY FinishedAndKept DEF Sound
<1>2. Len(Finished(c)) \in 0..Len(Finished(c))
  BY <1>1
<1>3. /\ d \in ShipType /\ Moored(d) /\ d.orphan = c.orphan /\ d.acts = Kept(c)
      /\ c.docked # 0 => d.docked = c.docked
  BY <1>2, AfterFinishedSound
<1> HIDE DEF d
<1>4. Sound(l, d)
  BY <1>1, <1>3 DEF Sound
<1> QED BY <1>3, <1>4 DEF d

\* And its clone, which comes with what it had done before the jump.
LEMMA JumpedSound ==
    ASSUME NEW l \in Location, NEW c, Sound(l, c), NEW n \in 1..Len(Finished(c)),
           IsJump(Finished(c)[n]), NEW k \in Location
    PROVE  /\ Sound(k, AfterFinished(l, c, n))
           /\ AfterFinished(l, c, n).orphan = c.orphan
<1> DEFINE d == AfterFinished(l, c, n)
<1>1. /\ Finished(c) \in Seq(ActType) /\ Orderly(l, Kept(c))
      /\ \A i \in DOMAIN Finished(c) : IsJump(Finished(c)[i]) =>
           \A j \in DOMAIN Kept(c) : ~IsJump(Kept(c)[j])
  BY FinishedAndKept DEF Sound
<1>2. n \in 0..Len(Finished(c)) /\ n \in DOMAIN Finished(c)
  BY <1>1
<1>3. d \in ShipType /\ Moored(d) /\ d.orphan = c.orphan /\ d.acts = Kept(c)
  BY <1>2, AfterFinishedSound
<1> HIDE DEF d
<1>4. Elsewhere(k, Kept(c))
  BY <1>1, <1>2 DEF Elsewhere
<1>5. Orderly(k, Kept(c))
  BY <1>1, <1>4 DEF Orderly
<1>6. Sound(k, d)
  BY <1>3, <1>5 DEF Sound
<1> QED BY <1>3, <1>6 DEF d

-----------------------------------------------------------------------------
(* The orders of the players.                                              *)

LEMMA PutShip ==
    ASSUME NEW T, NEW w \in [Location -> [ShipId -> T]],
           NEW l \in Location, NEW s \in ShipId, NEW c \in T
    PROVE  /\ [w EXCEPT ![l][s] = c] \in [Location -> [ShipId -> T]]
           /\ \A k \in Location, t \in ShipId :
                [w EXCEPT ![l][s] = c][k][t] = IF k = l /\ t = s THEN c ELSE w[k][t]
<1> DEFINE v == [w[l] EXCEPT ![s] = c]
<1>1. /\ v \in [ShipId -> T]
      /\ \A t \in ShipId : v[t] = IF t = s THEN c ELSE w[l][t]
  OBVIOUS
<1>2. [w EXCEPT ![l][s] = c] = [w EXCEPT ![l] = v]
  OBVIOUS
<1> HIDE DEF v
<1> QED BY <1>1, <1>2

\* Whatever an order makes of the ship, if it is sound and as much an orphan.
LEMMA OrderKeeps ==
    ASSUME IInv, NEW l \in Location, NEW p \in Player, Ready(l, p),
           NEW c, Sound(l, c), c.orphan = Mine(l, p).orphan, Order(l, p, c)
    PROVE  IInv'
<1> DEFINE s == ship[p]
<1>1. TypeOK /\ OneCopy /\ OwnedShipFlies /\ Flights /\ Waiting
  BY DEF IInv
<1>2. s \in ShipId /\ Is(l, s) /\ c \in ShipType
  BY <1>1 DEF Ready, TypeOK, Sound
<1>3. at' = [at EXCEPT ![l][s] = c]
  BY DEF Order
<1>4. UNCHANGED <<timed, phase, paused, left, seated, ship, respawn, carried, bombed>>
  BY DEF Order
<1>5. c # NoShip /\ c.orphan = at[l][s].orphan
  BY <1>2, Constants DEF Mine
<1> HIDE DEF s
<1>6. /\ at' \in [Location -> [ShipId -> ShipType \cup {NoShip}]]
      /\ \A k \in Location, t \in ShipId :
           at'[k][t] = IF k = l /\ t = s THEN c ELSE at[k][t]
  <2>1. c \in ShipType \cup {NoShip} /\ at \in [Location -> [ShipId -> ShipType \cup {NoShip}]]
    BY <1>1, <1>2 DEF TypeOK
  <2> QED BY <1>2, <1>3, <2>1, PutShip
<1>7. \A k \in Location, t \in ShipId : Is(k, t)' <=> Is(k, t)
  BY <1>2, <1>5, <1>6 DEF Is
<1>8. TypeOK'
  BY <1>1, <1>4, <1>6 DEF TypeOK
<1>9. OneCopy'
  BY <1>1, <1>7 DEF OneCopy
<1>10. OwnedShipFlies'
  <2>1. \A k \in Location, t \in ShipId : Is(k, t) => at'[k][t].orphan = at[k][t].orphan
    BY <1>5, <1>6
  <2>2. \A q \in Player : ship[q] # NoShip => ship[q] \in ShipId
    BY <1>1 DEF TypeOK
  <2>3. \A q \in Player, k \in Location :
          ship[q] # NoShip /\ Is(k, ship[q]) =>
            Is(k, ship[q])' /\ at'[k][ship'[q]].orphan = at[k][ship[q]].orphan
    BY <1>4, <1>7, <2>1, <2>2
  <2> QED BY <1>1, <1>4, <2>3 DEF OwnedShipFlies
<1>11. Flights'
  <2>1. SUFFICES ASSUME NEW k \in Location, NEW t \in ShipId, Is(k, t)'
                 PROVE  Sound(k, at'[k][t])
    BY DEF Flights, Sound, Orderly, Running, Short, Elsewhere, OneJump, OneDock, DockLast, Moored
  <2>2. Sound(k, at[k][t])
    BY <1>1, <1>7, <2>1 DEF Flights
  <2>3. CASE k = l /\ t = s
    BY <1>6, <2>3
  <2>4. CASE ~(k = l /\ t = s)
    BY <1>6, <2>2, <2>4
  <2> QED BY <2>3, <2>4
<1>12. Waiting'
  BY <1>1, <1>4 DEF Waiting
<1> QED BY <1>8, <1>9, <1>10, <1>11, <1>12 DEF IInv

LEMMA MineSound ==
    ASSUME IInv, NEW l \in Location, NEW p \in Player, Ready(l, p)
    PROVE  Sound(l, Mine(l, p))
<1>1. ship[p] \in ShipId /\ Is(l, ship[p])
  BY DEF IInv, TypeOK, Ready
<1> QED BY <1>1 DEF IInv, Flights, Mine

LEMMA OrdersKeep ==
    ASSUME IInv, NEW l \in Location, NEW p \in Player,
           \/ Navigate(l, p) \/ DockNavigate(l, p) \/ Steer(l, p)
           \/ UndockByDialogue(l, p) \/ Shoot(l, p)
           \/ \E to \in Location : StartJump(l, p, to)
    PROVE  IInv'
<1> DEFINE c == Mine(l, p)
           u == Undocked(l, c)
<1>1. Ready(l, p)
  BY DEF Navigate, DockNavigate, Steer, UndockByDialogue, Shoot, StartJump
<1>2. Sound(l, c)
  BY <1>1, MineSound
<1>3. Sound(l, u) /\ u.docked = 0 /\ u.orphan = c.orphan
  BY <1>2, UndockedSound
<1>4. 0 \in 0..Locations /\ l \in 0..Locations
  BY Constants DEF Location
<1>5. CASE Navigate(l, p)
  <2>1. Sound(l, [u EXCEPT !.target = 0]) /\ [u EXCEPT !.target = 0].orphan = u.orphan
    BY <1>3, <1>4, NewTargetSound
  <2>2. Order(l, p, [u EXCEPT !.target = 0])
    BY <1>5 DEF Navigate
  <2> QED BY <1>1, <1>3, <2>1, <2>2, OrderKeeps
<1>6. CASE DockNavigate(l, p)
  <2>1. Sound(l, [u EXCEPT !.target = l]) /\ [u EXCEPT !.target = l].orphan = u.orphan
    BY <1>3, <1>4, NewTargetSound
  <2>2. Order(l, p, [u EXCEPT !.target = l])
    BY <1>6 DEF DockNavigate
  <2> QED BY <1>1, <1>3, <2>1, <2>2, OrderKeeps
<1>7. CASE Steer(l, p)
  <2>1. Sound(l, [c EXCEPT !.target = 0]) /\ [c EXCEPT !.target = 0].orphan = c.orphan
    BY <1>2, <1>4, NewTargetSound
  <2>2. Order(l, p, [c EXCEPT !.target = 0])
    BY <1>7 DEF Steer
  <2> QED BY <1>1, <2>1, <2>2, OrderKeeps
<1>8. CASE UndockByDialogue(l, p)
  <2>1. Order(l, p, u)
    BY <1>8 DEF UndockByDialogue
  <2> QED BY <1>1, <1>3, <2>1, OrderKeeps
<1>9. CASE Shoot(l, p)
  <2>1. Sound(l, [c EXCEPT !.acts = Revalidated(@)])
        /\ [c EXCEPT !.acts = Revalidated(@)].orphan = c.orphan
    BY <1>2, ShotSound
  <2>2. Order(l, p, [c EXCEPT !.acts = Revalidated(@)])
    BY <1>9 DEF Shoot
  <2> QED BY <1>1, <2>1, <2>2, OrderKeeps
<1>10. ASSUME NEW to \in Location, StartJump(l, p, to)
       PROVE  IInv'
  <2> DEFINE d == [c EXCEPT !.acts = Revalidated(Append(@, Act("jump", to, JumpTime)))]
  <2>1. c.docked = 0 /\ to # l /\ Order(l, p, d)
    BY <1>10 DEF StartJump
  <2>2. Sound(l, d) /\ d.orphan = c.orphan
    BY <1>2, <2>1, JumpStartsSound
  <2> HIDE DEF d
  <2> QED BY <1>1, <2>1, <2>2, OrderKeeps
<1> QED BY <1>5, <1>6, <1>7, <1>8, <1>9, <1>10

-----------------------------------------------------------------------------
(* Who plays in the room.                                                  *)

\* Only the location of new ships changes, and only there are they.
LEMMA SpawnedShips ==
    ASSUME NEW w \in [Location -> [ShipId -> ShipType \cup {NoShip}]], NEW ids
    PROVE  /\ Spawned(w, ids) \in [Location -> [ShipId -> ShipType \cup {NoShip}]]
           /\ \A l \in Location, s \in ShipId :
                Spawned(w, ids)[l][s] = IF l = 1 /\ s \in Range(ids) THEN NewShip ELSE w[l][s]
<1> DEFINE v == [s \in ShipId |-> IF s \in Range(ids) THEN NewShip ELSE w[1][s]]
<1>1. 1 \in Location
  BY Constants
<1>2. NewShip \in ShipType
  <2>1. <<>> \in Seq(ActType) /\ 0 \in 0..Locations
    BY Constants
  <2> QED BY <2>1 DEF NewShip, ShipType
<1>3. /\ v \in [ShipId -> ShipType \cup {NoShip}]
      /\ \A s \in ShipId : v[s] = IF s \in Range(ids) THEN NewShip ELSE w[1][s]
  BY <1>1, <1>2
<1>4. Spawned(w, ids) = [w EXCEPT ![1] = v]
  BY DEF Spawned
<1> HIDE DEF v
<1> QED BY <1>1, <1>3, <1>4

LEMMA NewShipSound == \A l \in Location : Sound(l, NewShip) /\ ~NewShip.orphan
<1>1. <<>> \in Seq(ActType) /\ 0 \in 0..Locations
  BY Constants
<1>2. NewShip \in ShipType
  BY <1>1 DEF NewShip, ShipType
<1>3. NewShip.acts = <<>> /\ DOMAIN NewShip.acts = {} /\ NewShip.docked = 0
  BY DEF NewShip
<1>4. \A l \in Location : Orderly(l, NewShip.acts)
  BY <1>3 DEF Orderly, Running, Short, Elsewhere, OneJump, OneDock, DockLast
<1> QED BY <1>2, <1>3, <1>4 DEF Sound, Moored, NewShip

\* spawn_ship for some players of the room, with ids that no ship and no player
\* has: every part of the invariant that is about ships is kept, and the players
\* who got a ship own one.
LEMMA SpawnKeeps ==
    ASSUME TypeOK, OneCopy, OwnedShipFlies, Flights,
           NEW Q \in SUBSET Player, NEW ids \in [Q -> Free], IsInjective(ids),
           at' = Spawned(at, ids), ship' = Owning(ids), Q \subseteq seated',
           seated \subseteq seated', bombed' = bombed \ Q
    PROVE  /\ at' \in [Location -> [ShipId -> ShipType \cup {NoShip}]]
           /\ ship' \in [Player -> ShipId \cup {NoShip}]
           /\ \A p \in Player : ship'[p] = IF p \in Q THEN ids[p] ELSE ship[p]
           /\ OneCopy' /\ OwnedShipFlies' /\ Flights'
<1>1. /\ at \in [Location -> [ShipId -> ShipType \cup {NoShip}]]
      /\ ship \in [Player -> ShipId \cup {NoShip}]
  BY DEF TypeOK
<1>2. /\ at' \in [Location -> [ShipId -> ShipType \cup {NoShip}]]
      /\ \A l \in Location, s \in ShipId :
           at'[l][s] = IF l = 1 /\ s \in Range(ids) THEN NewShip ELSE at[l][s]
  BY <1>1, SpawnedShips
<1>3. \A s \in Free : s \in ShipId /\ s \notin Range(ship) /\ \A l \in Location : ~Is(l, s)
  BY DEF Free
<1>4. \A p \in Q : ids[p] \in Free /\ ids[p] \in Range(ids)
  BY DEF Range
<1>5. Range(ids) \subseteq Free
  BY DEF Range
<1>6. ship' = [p \in Player |-> IF p \in Q THEN ids[p] ELSE ship[p]]
  BY DEF Owning
<1>7. /\ ship' \in [Player -> ShipId \cup {NoShip}]
      /\ \A p \in Player : ship'[p] = IF p \in Q THEN ids[p] ELSE ship[p]
  BY <1>1, <1>3, <1>4, <1>6
<1>8. NewShip # NoShip
  BY NewShipSound, Constants DEF Sound
<1>9. \A l \in Location, s \in ShipId :
        Is(l, s)' <=> (Is(l, s) \/ (l = 1 /\ s \in Range(ids)))
  BY <1>2, <1>8 DEF Is
<1>10. OneCopy'
  BY <1>3, <1>5, <1>9 DEF OneCopy
<1>11. Flights'
  <2>1. SUFFICES ASSUME NEW l \in Location, NEW s \in ShipId, Is(l, s)'
                 PROVE  Sound(l, at'[l][s])
    BY DEF Flights, Sound, Orderly, Running, Short, Elsewhere, OneJump, OneDock, DockLast, Moored
  <2>2. CASE l = 1 /\ s \in Range(ids)
    BY <1>2, <2>2, NewShipSound
  <2>3. CASE ~(l = 1 /\ s \in Range(ids))
    BY <1>2, <1>9, <2>1, <2>3 DEF Flights
  <2> QED BY <2>2, <2>3
<1>12. OwnedShipFlies'
  <2>1. SUFFICES ASSUME NEW p \in Player, ship'[p] # NoShip
                 PROVE  /\ p \in seated'
                        /\ p \notin bombed' =>
                             \E l \in Location : Is(l, ship[p])' /\ ~at'[l][ship'[p]].orphan
                        /\ \A q \in Player \ {p} : ship'[q] # ship'[p]
    BY DEF OwnedShipFlies
  <2>2. ASSUME NEW q \in Player \ {p}
        PROVE  ship'[q] # ship'[p]
    <3>1. q \in Player /\ q # p
      OBVIOUS
    <3>2. CASE p \in Q /\ q \in Q
      BY <1>7, <3>1, <3>2 DEF IsInjective
    <3>3. CASE p \in Q /\ q \notin Q
      BY <1>1, <1>3, <1>4, <1>7, <3>1, <3>3 DEF Range
    <3>4. CASE p \notin Q /\ q \in Q
      BY <1>1, <1>3, <1>4, <1>7, <3>1, <3>4 DEF Range
    <3>5. CASE p \notin Q /\ q \notin Q
      BY <1>7, <2>1, <3>1, <3>5 DEF OwnedShipFlies
    <3> QED BY <3>2, <3>3, <3>4, <3>5
  <2>3. CASE p \in Q
    <3>1. ship'[p] \in Range(ids) /\ ship'[p] \in ShipId
      BY <1>3, <1>4, <1>7, <2>3
    <3>2. at'[1][ship'[p]] = NewShip /\ Is(1, ship[p])' /\ 1 \in Location
      BY <1>2, <1>8, <3>1, Constants DEF Is
    <3> QED BY <2>2, <2>3, <3>2, NewShipSound, Constants
  <2>4. CASE p \notin Q
    <3>1. ship'[p] = ship[p] /\ ship[p] \in ShipId /\ ship[p] \in Range(ship)
      BY <1>1, <1>7, <2>1, <2>4 DEF Range
    <3>2. ship[p] \notin Range(ids)
      BY <1>3, <1>5, <3>1
    <3>3. \A l \in Location : at'[l][ship'[p]] = at[l][ship[p]] /\ (Is(l, ship[p])' <=> Is(l, ship[p]))
      BY <1>2, <3>1, <3>2 DEF Is
    <3>4. /\ p \in seated
          /\ p \notin bombed => \E l \in Location : Is(l, ship[p]) /\ ~at[l][ship[p]].orphan
      BY <2>1, <3>1 DEF OwnedShipFlies
    <3> QED BY <2>2, <2>4, <3>3, <3>4
  <2> QED BY <2>3, <2>4
<1> QED BY <1>2, <1>7, <1>10, <1>11, <1>12

LEMMA JoinKeeps ==
    ASSUME IInv, NEW p \in Player, NEW r \in 0..RespawnTime, Join(p, r)
    PROVE  IInv'
<1>1. TypeOK /\ OneCopy /\ OwnedShipFlies /\ Flights /\ Waiting
  BY DEF IInv
<1>2. /\ p \notin seated /\ seated' = seated \cup {p}
      /\ respawn' = [respawn EXCEPT ![p] = r]
      /\ carried' = IF r > 0 THEN carried \cup {p} ELSE carried
      /\ UNCHANGED <<timed, phase, paused, left, bombed>>
  BY DEF Join
<1>3. PICK ids \in FreshIds({p}, Free) : at' = Spawned(at, ids) /\ ship' = Owning(ids)
  BY DEF Join
<1>4. ids \in [{p} -> Free] /\ IsInjective(ids)
  BY DEF FreshIds
<1>5. bombed' = bombed \ {p} /\ {p} \in SUBSET Player /\ {p} \subseteq seated' /\ seated \subseteq seated'
  BY <1>1, <1>2 DEF TypeOK
<1>6. /\ at' \in [Location -> [ShipId -> ShipType \cup {NoShip}]]
      /\ ship' \in [Player -> ShipId \cup {NoShip}]
      /\ \A q \in Player : ship'[q] = IF q \in {p} THEN ids[q] ELSE ship[q]
      /\ OneCopy' /\ OwnedShipFlies' /\ Flights'
  BY <1>1, <1>3, <1>4, <1>5, SpawnKeeps
<1>7. /\ respawn' \in [Player -> 0..RespawnTime]
      /\ \A q \in Player : respawn'[q] = IF q = p THEN r ELSE respawn[q]
  BY <1>1, <1>2 DEF TypeOK
<1>8. TypeOK'
  BY <1>1, <1>2, <1>6, <1>7 DEF TypeOK
<1>9. Waiting'
  <2>1. \A q \in Player : q \notin seated' => respawn'[q] = 0
    BY <1>1, <1>2, <1>7 DEF Waiting
  <2>2. \A q \in Player : respawn'[q] > 0 => q \in carried' \/ (ship'[q] = NoShip /\ ~paused')
    BY <1>1, <1>2, <1>6, <1>7 DEF Waiting
  <2>3. paused' => phase' = 0
    BY <1>1, <1>2 DEF Waiting
  <2> QED BY <2>1, <2>2, <2>3 DEF Waiting
<1> QED BY <1>6, <1>8, <1>9 DEF IInv

LEMMA AddBotKeeps ==
    ASSUME IInv, NEW p \in Player, AddBot(p)
    PROVE  IInv'
<1>1. TypeOK /\ OneCopy /\ OwnedShipFlies /\ Flights /\ Waiting
  BY DEF IInv
<1>2. /\ seated' = seated \cup {p}
      /\ UNCHANGED <<timed, phase, paused, left, ship, respawn, carried, bombed, at>>
  BY DEF AddBot
<1>3. TypeOK'
  BY <1>1, <1>2 DEF TypeOK
<1>4. OneCopy' /\ OwnedShipFlies'
  BY <1>1, <1>2 DEF OneCopy, OwnedShipFlies, Is
<1>5. Flights'
  BY <1>1, <1>2 DEF Flights, Is, Sound, Orderly, Running, Short, Elsewhere, OneJump, OneDock, DockLast, Moored
<1>6. Waiting'
  BY <1>1, <1>2 DEF Waiting
<1> QED BY <1>3, <1>4, <1>5, <1>6 DEF IInv

\* Nothing about a ship but the mark of an orphan changes.
MarksOnly(w) ==
    /\ w \in [Location -> [ShipId -> ShipType \cup {NoShip}]]
    /\ \A l \in Location, s \in ShipId :
         w[l][s] = at[l][s] \/ (Is(l, s) /\ w[l][s] = [at[l][s] EXCEPT !.orphan = TRUE])

LEMMA MarkedSound ==
    ASSUME NEW l \in Location, NEW c, Sound(l, c)
    PROVE  Sound(l, [c EXCEPT !.orphan = TRUE])
<1> DEFINE d == [c EXCEPT !.orphan = TRUE]
<1>1. c \in ShipType
  BY DEF Sound
<1>2. d \in ShipType /\ d.docked = c.docked /\ d.target = c.target /\ d.acts = c.acts
  BY <1>1 DEF ShipType
<1> HIDE DEF d
<1>3. Sound(l, d)
  BY <1>2 DEF Sound, Moored
<1> QED BY <1>3 DEF d

LEMMA MarksKeep ==
    ASSUME IInv, MarksOnly(at')
    PROVE  /\ \A l \in Location, s \in ShipId : Is(l, s)' <=> Is(l, s)
           /\ OneCopy' /\ Flights'
<1>1. TypeOK /\ OneCopy /\ Flights
  BY DEF IInv
<1>2. \A l \in Location, s \in ShipId :
        Is(l, s) => Sound(l, at[l][s]) /\ Sound(l, [at[l][s] EXCEPT !.orphan = TRUE])
  BY <1>1, MarkedSound DEF Flights
<1>3. \A l \in Location, s \in ShipId :
        at'[l][s] = at[l][s] \/ (Is(l, s) /\ at'[l][s] = [at[l][s] EXCEPT !.orphan = TRUE])
  BY DEF MarksOnly
<1>4. \A l \in Location : \A c : Sound(l, c) => c # NoShip
  BY Constants DEF Sound
<1>5. \A l \in Location, s \in ShipId : Is(l, s)' <=> Is(l, s)
  <2>1. SUFFICES ASSUME NEW l \in Location, NEW s \in ShipId
                 PROVE  Is(l, s)' <=> Is(l, s)
    OBVIOUS
  <2>2. CASE at'[l][s] = at[l][s]
    BY <2>2 DEF Is
  <2>3. CASE Is(l, s) /\ at'[l][s] = [at[l][s] EXCEPT !.orphan = TRUE]
    <3>1. at'[l][s] # NoShip
      BY <1>2, <1>4, <2>3
    <3> QED BY <2>3, <3>1 DEF Is
  <2> QED BY <1>3, <2>2, <2>3
<1>6. OneCopy'
  BY <1>1, <1>5 DEF OneCopy
<1>7. Flights'
  <2>1. SUFFICES ASSUME NEW l \in Location, NEW s \in ShipId, Is(l, s)'
                 PROVE  Sound(l, at'[l][s])
    BY DEF Flights, Sound, Orderly, Running, Short, Elsewhere, OneJump, OneDock, DockLast, Moored
  <2> QED BY <1>2, <1>3, <1>5, <2>1
<1> QED BY <1>5, <1>6, <1>7

\* find_and_extract_ship marks the ship, and nothing that is not in its place.
LEMMA ExtractedMarks ==
    ASSUME TypeOK, NEW s \in ShipId
    PROVE  /\ Extracted(at, s) \in [Location -> [ShipId -> ShipType \cup {NoShip}]]
           /\ \A l \in Location, t \in ShipId :
                \/ Extracted(at, s)[l][t] = at[l][t]
                \/ t = s /\ Is(l, t) /\ Extracted(at, s)[l][t] = [at[l][t] EXCEPT !.orphan = TRUE]
<1> DEFINE L == {l \in Location : at[l][s] # NoShip}
           m == CHOOSE l \in L : \A k \in L : l <= k
           c == [at[m][s] EXCEPT !.orphan = TRUE]
<1>1. at \in [Location -> [ShipId -> ShipType \cup {NoShip}]]
  BY DEF TypeOK
<1>2. CASE L = {}
  BY <1>1, <1>2 DEF Extracted
<1>3. CASE L # {}
  <2>1. L \subseteq Nat
    BY DEF Location
  <2> HIDE DEF L
  <2>2. m \in L
    BY <1>3, <2>1, LeastNumber
  <2> HIDE DEF m
  <2>3. m \in Location /\ at[m][s] # NoShip
    BY <2>2 DEF L
  <2>4. at[m][s] \in ShipType
    BY <1>1, <2>3
  <2>5. c \in ShipType
    BY <2>4 DEF ShipType
  <2>6. Extracted(at, s) = [at EXCEPT ![m][s] = c]
    <3>1. Extracted(at, s) = [at EXCEPT ![m][s].orphan = TRUE]
      BY <1>3 DEF Extracted, L, m
    <3> QED BY <3>1
  <2>7. c \in ShipType \cup {NoShip}
    BY <2>5
  <2> HIDE DEF c
  <2>8. /\ Extracted(at, s) \in [Location -> [ShipId -> ShipType \cup {NoShip}]]
        /\ \A k \in Location, t \in ShipId :
             Extracted(at, s)[k][t] = IF k = m /\ t = s THEN c ELSE at[k][t]
    BY <1>1, <2>3, <2>6, <2>7, PutShip
  <2> QED BY <2>3, <2>8 DEF c, Is
<1> QED BY <1>2, <1>3

LEMMA LeaveKeeps ==
    ASSUME IInv, NEW p \in Player, Leave(p)
    PROVE  IInv'
<1>1. TypeOK /\ OneCopy /\ OwnedShipFlies /\ Flights /\ Waiting
  BY DEF IInv
<1>2. /\ seated' = seated \ {p}
      /\ at' = IF ship[p] = NoShip THEN at ELSE Extracted(at, ship[p])
      /\ ship' = [ship EXCEPT ![p] = NoShip]
      /\ respawn' = [respawn EXCEPT ![p] = 0]
      /\ carried' = carried \ {p} /\ bombed' = bombed \ {p}
      /\ UNCHANGED <<timed, phase, paused, left>>
  BY DEF Leave
<1>3. /\ at' \in [Location -> [ShipId -> ShipType \cup {NoShip}]]
      /\ \A l \in Location, t \in ShipId :
           \/ at'[l][t] = at[l][t]
           \/ t = ship[p] /\ Is(l, t) /\ at'[l][t] = [at[l][t] EXCEPT !.orphan = TRUE]
  <2>1. CASE ship[p] = NoShip
    BY <1>1, <1>2, <2>1 DEF TypeOK
  <2>2. CASE ship[p] # NoShip
    <3>1. ship[p] \in ShipId
      BY <1>1, <2>2 DEF TypeOK
    <3>2. at' = Extracted(at, ship[p])
      BY <1>2, <2>2
    <3> DEFINE s == ship[p]
    <3> HIDE DEF s
    <3>3. s \in ShipId /\ at' = Extracted(at, s)
      BY <3>1, <3>2 DEF s
    <3>4. /\ at' \in [Location -> [ShipId -> ShipType \cup {NoShip}]]
          /\ \A l \in Location, t \in ShipId :
               \/ at'[l][t] = at[l][t]
               \/ t = s /\ Is(l, t) /\ at'[l][t] = [at[l][t] EXCEPT !.orphan = TRUE]
      BY <1>1, <3>3, ExtractedMarks
    <3> QED BY <3>4 DEF s
  <2> QED BY <2>1, <2>2
<1>4. MarksOnly(at')
  BY <1>3 DEF MarksOnly
<1>5. /\ \A l \in Location, s \in ShipId : Is(l, s)' <=> Is(l, s)
      /\ OneCopy' /\ Flights'
  BY <1>4, MarksKeep
<1>6. /\ ship' \in [Player -> ShipId \cup {NoShip}]
      /\ \A q \in Player : ship'[q] = IF q = p THEN NoShip ELSE ship[q]
      /\ respawn' \in [Player -> 0..RespawnTime]
      /\ \A q \in Player : respawn'[q] = IF q = p THEN 0 ELSE respawn[q]
  <2>1. 0 \in 0..RespawnTime
    BY Constants
  <2> QED BY <1>1, <1>2, <2>1 DEF TypeOK
<1>7. TypeOK'
  BY <1>1, <1>2, <1>3, <1>6 DEF TypeOK
<1>8. Waiting'
  <2>1. \A q \in Player : respawn'[q] > 0 => q # p
    BY <1>6
  <2> QED BY <1>1, <1>2, <1>6, <2>1 DEF Waiting
<1>9. OwnedShipFlies'
  <2>1. SUFFICES ASSUME NEW q \in Player, ship'[q] # NoShip
                 PROVE  /\ q \in seated'
                        /\ q \notin bombed' =>
                             \E l \in Location : Is(l, ship[q])' /\ ~at'[l][ship'[q]].orphan
                        /\ \A r \in Player \ {q} : ship'[r] # ship'[q]
    BY DEF OwnedShipFlies
  <2>2. q # p /\ ship'[q] = ship[q] /\ ship[q] # NoShip /\ ship[q] \in ShipId
    BY <1>1, <1>6, <2>1 DEF TypeOK
  <2>3. /\ q \in seated /\ (q \notin bombed => \E l \in Location : Is(l, ship[q]) /\ ~at[l][ship[q]].orphan)
        /\ \A r \in Player \ {q} : ship[r] # ship[q]
    BY <1>1, <2>2 DEF OwnedShipFlies
  <2>4. \A r \in Player \ {q} : ship'[r] # ship'[q]
    BY <1>6, <2>2, <2>3
  <2>5. \A l \in Location : Is(l, ship[q]) => Is(l, ship[q])' /\ at'[l][ship[q]] = at[l][ship[q]]
    <3>1. ship[q] # ship[p]
      BY <2>2, <2>3
    <3>2. \A l \in Location : at'[l][ship[q]] = at[l][ship[q]]
      BY <1>3, <2>2, <3>1
    <3> QED BY <2>2, <3>2 DEF Is
  <2> QED BY <1>2, <2>2, <2>3, <2>4, <2>5
<1> QED BY <1>5, <1>7, <1>8, <1>9 DEF IInv

LEMMA CleanupKeeps ==
    ASSUME IInv, CleanupOrphanedShips
    PROVE  IInv'
<1>1. TypeOK /\ OneCopy /\ OwnedShipFlies /\ Flights /\ Waiting
  BY DEF IInv
<1>2. at' = [l \in Location |-> [s \in ShipId |->
                IF Is(l, s) /\ s \notin Range(ship)
                THEN [at[l][s] EXCEPT !.orphan = TRUE] ELSE at[l][s]]]
  BY DEF CleanupOrphanedShips
<1>3. UNCHANGED <<timed, phase, paused, left, seated, ship, respawn, carried, bombed>>
  BY DEF CleanupOrphanedShips
<1>4. \A l \in Location, s \in ShipId :
        at[l][s] \in ShipType \cup {NoShip}
        /\ (Is(l, s) => [at[l][s] EXCEPT !.orphan = TRUE] \in ShipType)
  <2>1. SUFFICES ASSUME NEW l \in Location, NEW s \in ShipId
                 PROVE  /\ at[l][s] \in ShipType \cup {NoShip}
                        /\ Is(l, s) => [at[l][s] EXCEPT !.orphan = TRUE] \in ShipType
    OBVIOUS
  <2>2. at[l][s] \in ShipType \cup {NoShip}
    BY <1>1 DEF TypeOK
  <2>3. \A c \in ShipType : [c EXCEPT !.orphan = TRUE] \in ShipType
    BY DEF ShipType
  <2> QED BY <2>2, <2>3 DEF Is
<1>5. \A l \in Location, s \in ShipId :
        at'[l][s] = IF Is(l, s) /\ s \notin Range(ship)
                    THEN [at[l][s] EXCEPT !.orphan = TRUE] ELSE at[l][s]
  BY <1>2
<1>6. MarksOnly(at')
  <2>1. at' \in [Location -> [ShipId -> ShipType \cup {NoShip}]]
    BY <1>2, <1>4
  <2> QED BY <1>5, <2>1 DEF MarksOnly
<1>7. /\ \A l \in Location, s \in ShipId : Is(l, s)' <=> Is(l, s)
      /\ OneCopy' /\ Flights'
  BY <1>6, MarksKeep
<1>8. TypeOK' /\ Waiting'
  BY <1>1, <1>3, <1>6 DEF TypeOK, Waiting, MarksOnly
<1>9. OwnedShipFlies'
  <2>1. \A p \in Player : ship[p] # NoShip => ship[p] \in ShipId /\ ship[p] \in Range(ship)
    BY <1>1 DEF TypeOK, Range
  <2>2. \A p \in Player, l \in Location :
          ship[p] # NoShip /\ Is(l, ship[p]) => Is(l, ship[p])' /\ at'[l][ship[p]] = at[l][ship[p]]
    BY <1>3, <1>5, <2>1 DEF Is
  <2> QED BY <1>1, <1>3, <2>2 DEF OwnedShipFlies
<1> QED BY <1>7, <1>8, <1>9 DEF IInv

-----------------------------------------------------------------------------
(* The update.                                                             *)

LEMMA WaitKeeps ==
    ASSUME IInv, Wait
    PROVE  IInv'
<1>1. TypeOK /\ OneCopy /\ OwnedShipFlies /\ Flights /\ Waiting
  BY DEF IInv
<1>2. /\ left > 1 /\ left' = left - 1
      /\ UNCHANGED <<timed, phase, paused, seated, ship, respawn, carried, bombed, at>>
  BY DEF Wait
<1>3. left' \in 1..(GameTime + PauseTime)
  BY <1>1, <1>2, Constants DEF TypeOK
<1>4. TypeOK'
  BY <1>1, <1>2, <1>3 DEF TypeOK
<1>5. OneCopy' /\ OwnedShipFlies' /\ Waiting'
  BY <1>1, <1>2 DEF OneCopy, OwnedShipFlies, Waiting, Is
<1>6. Flights'
  BY <1>1, <1>2 DEF Flights, Is, Sound, Orderly, Running, Short, Elsewhere, OneJump, OneDock, DockLast, Moored
<1> QED BY <1>4, <1>5, <1>6 DEF IInv

LEMMA RestartKeeps ==
    ASSUME IInv, Restart
    PROVE  IInv'
<1> DEFINE none == [l \in Location |-> [s \in ShipId |-> NoShip]]
<1>1. TypeOK /\ OneCopy /\ OwnedShipFlies /\ Flights /\ Waiting
  BY DEF IInv
<1>2. /\ phase = 0 /\ paused' = FALSE /\ left' = GameTime /\ bombed' = {} /\ paused
      /\ UNCHANGED <<timed, phase, seated, respawn, carried>>
  BY DEF Restart
<1>3. PICK ids \in FreshIds(seated, ShipId) : at' = Spawned(none, ids) /\ ship' = Owning(ids)
  BY DEF Restart
<1>4. ids \in [seated -> ShipId] /\ IsInjective(ids)
  BY DEF FreshIds
<1>5. /\ none \in [Location -> [ShipId -> ShipType \cup {NoShip}]]
      /\ \A l \in Location, s \in ShipId : none[l][s] = NoShip
  OBVIOUS
<1> HIDE DEF none
<1>6. /\ at' \in [Location -> [ShipId -> ShipType \cup {NoShip}]]
      /\ \A l \in Location, s \in ShipId :
           at'[l][s] = IF l = 1 /\ s \in Range(ids) THEN NewShip ELSE NoShip
  <2>1. /\ at' \in [Location -> [ShipId -> ShipType \cup {NoShip}]]
        /\ \A l \in Location, s \in ShipId :
             at'[l][s] = IF l = 1 /\ s \in Range(ids) THEN NewShip ELSE none[l][s]
    BY <1>3, <1>5, SpawnedShips
  <2> QED BY <1>5, <2>1
<1>7. NewShip # NoShip
  BY NewShipSound, Constants DEF Sound
<1>8. \A l \in Location, s \in ShipId : Is(l, s)' <=> (l = 1 /\ s \in Range(ids))
  BY <1>6, <1>7 DEF Is
<1>9. seated \subseteq Player
  BY <1>1 DEF TypeOK
<1>10. /\ ship' \in [Player -> ShipId \cup {NoShip}]
       /\ \A p \in Player : ship'[p] = IF p \in seated THEN ids[p] ELSE ship[p]
       /\ \A p \in seated : ids[p] \in ShipId /\ ids[p] \in Range(ids)
  <2>1. ship' = [p \in Player |-> IF p \in seated THEN ids[p] ELSE ship[p]]
    BY <1>3, <1>4 DEF Owning
  <2>2. \A p \in seated : ids[p] \in ShipId /\ ids[p] \in Range(ids)
    BY <1>4 DEF Range
  <2> QED BY <1>1, <2>1, <2>2 DEF TypeOK
<1>11. \A p \in Player : p \notin seated => ship'[p] = NoShip
  BY <1>1, <1>10 DEF OwnedShipFlies
<1>12. TypeOK'
  <2>1. GameTime \in 1..(GameTime + PauseTime)
    BY Constants
  <2>2. /\ timed' \in BOOLEAN /\ phase' \in 0..Locations /\ paused' \in BOOLEAN
        /\ left' \in 1..(GameTime + PauseTime)
        /\ seated' \subseteq Player /\ carried' \subseteq seated' /\ bombed' \subseteq seated'
        /\ respawn' \in [Player -> 0..RespawnTime]
    BY <1>1, <1>2, <2>1 DEF TypeOK
  <2> QED BY <1>6, <1>10, <2>2 DEF TypeOK
<1>13. OneCopy'
  BY <1>8 DEF OneCopy
<1>14. Flights'
  <2>1. SUFFICES ASSUME NEW l \in Location, NEW s \in ShipId, Is(l, s)'
                 PROVE  Sound(l, at'[l][s])
    BY DEF Flights, Sound, Orderly, Running, Short, Elsewhere, OneJump, OneDock, DockLast, Moored
  <2> QED BY <1>6, <1>8, <2>1, NewShipSound
<1>15. OwnedShipFlies'
  <2>1. SUFFICES ASSUME NEW p \in Player, ship'[p] # NoShip
                 PROVE  /\ p \in seated'
                        /\ \E l \in Location : at'[l][ship'[p]] # NoShip /\ ~at'[l][ship'[p]].orphan
                        /\ \A q \in Player \ {p} : ship'[q] # ship'[p]
    BY DEF OwnedShipFlies, Is
  <2>2. p \in seated /\ ship'[p] = ids[p] /\ ids[p] \in ShipId /\ ids[p] \in Range(ids)
    BY <1>10, <1>11, <2>1
  <2>3. at'[1][ship'[p]] = NewShip /\ 1 \in Location
    BY <1>6, <2>2, Constants
  <2>4. \A q \in Player \ {p} : ship'[q] # ship'[p]
    <3>1. SUFFICES ASSUME NEW q \in Player, q # p
                   PROVE  ship'[q] # ship'[p]
      OBVIOUS
    <3>2. CASE q \in seated
      BY <1>4, <1>10, <2>2, <3>1, <3>2 DEF IsInjective
    <3>3. CASE q \notin seated
      BY <1>11, <2>1, <3>3
    <3> QED BY <3>2, <3>3
  <2> QED BY <1>2, <1>7, <2>2, <2>3, <2>4, NewShipSound
<1>16. Waiting'
  <2>1. \A p \in Player : respawn[p] > 0 => p \in carried
    BY <1>1, <1>2 DEF Waiting
  <2> QED BY <1>1, <1>2, <2>1 DEF Waiting
<1> QED BY <1>12, <1>13, <1>14, <1>15, <1>16 DEF IInv

\* What the players wait for after the first part of the update: who waited for
\* its last turn has a ship now, or the game is over and nobody waits.
LEMMA RespawnsAfterTime ==
    ASSUME TypeOK, Waiting, ~paused, phase = 0, TimePasses
    PROVE  /\ left' \in 1..(GameTime + PauseTime)
           /\ phase' \in 0..Locations /\ paused' \in BOOLEAN
           /\ respawn' \in [Player -> 0..RespawnTime]
           /\ carried' \subseteq carried
           /\ \A p \in Player : respawn'[p] > 0 => respawn[p] > 1 /\ ~paused'
           /\ \A p \in carried : respawn'[p] > 0 => p \in carried'
           /\ paused' => phase' = 0
<1>1. /\ respawn \in [Player -> 0..RespawnTime] /\ left \in 1..(GameTime + PauseTime)
      /\ RespawnTime \in Nat
  BY Constants DEF TypeOK
<1>2. CASE timed /\ left <= 1
  <2>1. /\ paused' = TRUE /\ left' = PauseTime
        /\ respawn' = [p \in Player |-> 0]
        /\ carried' = {} /\ phase' = phase
    BY <1>2 DEF TimePasses
  <2>2. PauseTime \in 1..(GameTime + PauseTime)
    BY Constants
  <2>3. phase' = 0 /\ 0 \in 0..Locations /\ 0 \in 0..RespawnTime
    BY <2>1, Constants
  <2>4. respawn' \in [Player -> 0..RespawnTime] /\ \A p \in Player : respawn'[p] = 0
    BY <2>1, <2>3
  <2>5. \A p \in carried : p \in Player
    BY DEF TypeOK
  <2>6. phase' \in 0..Locations /\ paused' \in BOOLEAN /\ carried' \subseteq carried
    BY <2>1, <2>3
  <2> QED BY <2>1, <2>2, <2>3, <2>4, <2>5, <2>6
<1>3. CASE ~(timed /\ left <= 1)
  <2>1. /\ left' = (IF timed THEN left - 1 ELSE left)
        /\ phase' = 1 /\ respawn' = RespawnsTicked
        /\ carried' = {p \in carried : respawn[p] > 1}
        /\ paused' = FALSE
    BY <1>3 DEF TimePasses
  <2>2. left' \in 1..(GameTime + PauseTime)
    <3>1. CASE timed
      BY <1>1, <1>3, <2>1, <3>1, Constants
    <3>2. CASE ~timed
      BY <1>1, <2>1, <3>2
    <3> QED BY <3>1, <3>2
  <2>3. 1 \in 0..Locations
    BY Constants
  <2>4. \A p \in Player : /\ respawn'[p] = IF respawn[p] > 0 THEN respawn[p] - 1 ELSE 0
                          /\ respawn[p] \in 0..RespawnTime
    BY <1>1, <2>1 DEF RespawnsTicked
  <2>5. \A p \in Player : respawn'[p] \in 0..RespawnTime /\ (respawn'[p] > 0 => respawn[p] > 1)
    BY <1>1, <2>4
  <2>6. respawn' \in [Player -> 0..RespawnTime]
    BY <2>1, <2>5 DEF RespawnsTicked
  <2>7. carried' \subseteq carried /\ \A p \in carried : respawn'[p] > 0 => p \in carried'
    <3>1. \A p \in carried : p \in Player
      BY DEF TypeOK
    <3> QED BY <2>1, <2>5, <3>1
  <2>8. phase' \in 0..Locations /\ paused' \in BOOLEAN /\ ~paused'
    BY <2>1, <2>3
  <2> QED BY <2>2, <2>5, <2>6, <2>7, <2>8
<1> QED BY <1>2, <1>3

LEMMA UpdatePlayersKeeps ==
    ASSUME IInv, UpdatePlayers
    PROVE  IInv'
<1> DEFINE Q == {p \in seated : respawn[p] = 1}
<1>1. TypeOK /\ OneCopy /\ OwnedShipFlies /\ Flights /\ Waiting
  BY DEF IInv
<1>2. phase = 0 /\ ~paused /\ UNCHANGED <<timed, seated>> /\ TimePasses
  BY DEF UpdatePlayers
<1>3. PICK ids \in FreshIds(Q, Free) :
        at' = Spawned(at, ids) /\ ship' = Owning(ids) /\ bombed' = bombed \ DOMAIN ids
  BY DEF UpdatePlayers, RespawnsFinish
<1>4. ids \in [Q -> Free] /\ IsInjective(ids)
  BY DEF FreshIds
<1>5. Q \in SUBSET Player /\ Q \subseteq seated' /\ seated \subseteq seated' /\ bombed' = bombed \ Q
  BY <1>1, <1>2, <1>3, <1>4 DEF TypeOK
<1>6. \A p \in Q : respawn[p] = 1
  OBVIOUS
<1> HIDE DEF Q
<1>7. /\ at' \in [Location -> [ShipId -> ShipType \cup {NoShip}]]
      /\ ship' \in [Player -> ShipId \cup {NoShip}]
      /\ \A p \in Player : ship'[p] = IF p \in Q THEN ids[p] ELSE ship[p]
      /\ OneCopy' /\ OwnedShipFlies' /\ Flights'
  BY <1>1, <1>3, <1>4, <1>5, SpawnKeeps
<1>8. /\ left' \in 1..(GameTime + PauseTime)
      /\ phase' \in 0..Locations /\ paused' \in BOOLEAN
      /\ respawn' \in [Player -> 0..RespawnTime]
      /\ carried' \subseteq carried
      /\ \A p \in Player : respawn'[p] > 0 => respawn[p] > 1 /\ ~paused'
      /\ \A p \in carried : respawn'[p] > 0 => p \in carried'
      /\ paused' => phase' = 0
  BY <1>1, <1>2, RespawnsAfterTime
<1>9. TypeOK'
  BY <1>1, <1>2, <1>5, <1>7, <1>8 DEF TypeOK
<1>10. Waiting'
  <2>1. \A p \in Player : respawn'[p] \in Nat /\ respawn[p] \in Nat
    BY <1>1, <1>8 DEF TypeOK
  <2>2. \A p \in Player : p \notin seated' => respawn'[p] = 0
    BY <1>1, <1>2, <1>8, <2>1 DEF Waiting
  <2>3. \A p \in Player : respawn'[p] > 0 => p \in carried' \/ (ship'[p] = NoShip /\ ~paused')
    BY <1>1, <1>6, <1>7, <1>8, <2>1 DEF Waiting
  <2> QED BY <1>8, <2>2, <2>3 DEF Waiting
<1> QED BY <1>7, <1>9, <1>10 DEF IInv

\* update_location takes every ship as follows: a dead one or one that is blown up
\* is gone, one that jumps is in the other location instead, the others stay.
Jumped(l, copy, jump, s, k) ==
    s \in Here(l) /\ jump[s] # 0 /\ Finished(copy[s])[jump[s]].to = k

Settles(l, copy, jump, dead, blown) ==
    /\ \A s \in Here(l) :
         /\ jump[s] # 0 =>
              /\ s \in Range(Bereft(dead)) /\ s \notin dead /\ s \notin blown
              /\ Finished(copy[s])[jump[s]].to \in Location \ {l}
         /\ at'[l][s] = IF s \in dead \cup blown \/ at[l][s].orphan \/ jump[s] # 0
                        THEN NoShip
                        ELSE AfterFinished(l, copy[s], Len(Finished(copy[s])))
         /\ Sound(l, AfterFinished(l, copy[s], Len(Finished(copy[s]))))
         /\ ~at[l][s].orphan => ~AfterFinished(l, copy[s], Len(Finished(copy[s]))).orphan
         /\ at[l][s].docked # 0 => AfterFinished(l, copy[s], Len(Finished(copy[s]))).docked # 0
         /\ jump[s] # 0 =>
              \A k \in Location :
                /\ Sound(k, AfterFinished(l, copy[s], jump[s]))
                /\ AfterFinished(l, copy[s], jump[s]).orphan = at[l][s].orphan
    /\ \A s \in ShipId \ Here(l) : at'[l][s] = NoShip
    /\ \A k \in Location \ {l}, s \in ShipId :
         at'[k][s] = IF Jumped(l, copy, jump, s, k)
                     THEN AfterFinished(l, copy[s], jump[s]) ELSE at[k][s]

LEMMA SettledShips ==
    ASSUME IInv, NEW l \in Location,
           NEW near \in SUBSET {s \in Here(l) : at[l][s].target = l},
           NEW dead \in SUBSET Here(l), NEW hit \in SUBSET Here(l),
           NEW copy, copy = Arriving(l, near),
           NEW jump, jump = Jumps(l, copy, dead),
           at' = Settled(l, copy, jump, dead \cup Blown(l, hit, jump))
    PROVE  Settles(l, copy, jump, dead, Blown(l, hit, jump))
<1> DEFINE gone == dead \cup Blown(l, hit, jump)
           stays(s) == AfterFinished(l, copy[s], Len(Finished(copy[s])))
<1> DEFINE elsewhere(k, s) == IF Jumped(l, copy, jump, s, k)
                              THEN AfterFinished(l, copy[s], jump[s]) ELSE at[k][s]
           here(s) == IF s \notin Here(l) \ gone \/ ToClean(at[l][s], jump[s] # 0) THEN NoShip
                      ELSE stays(s)
           row(k) == [s \in ShipId |-> IF k # l THEN elsewhere(k, s) ELSE here(s)]
<1>1. at' = [k \in Location |-> row(k)]
  BY DEF Settled, Jumped
<1> HIDE DEF elsewhere, here
<1>2. ASSUME NEW k \in Location, NEW s \in ShipId
      PROVE  /\ k # l => at'[k][s] = elsewhere(k, s)
             /\ k = l => at'[l][s] = here(s)
  <2>1. row(k)[s] = IF k # l THEN elsewhere(k, s) ELSE here(s)
    OBVIOUS
  <2> HIDE DEF row
  <2>2. at'[k] = row(k)
    BY <1>1
  <2> QED BY <2>1, <2>2
<1> HIDE DEF row
<1>3. /\ \A k \in Location \ {l}, s \in ShipId : at'[k][s] = elsewhere(k, s)
      /\ \A s \in ShipId : at'[l][s] = here(s)
  BY <1>2
<1> HIDE DEF gone, stays
<1>4. \A s \in ShipId \ Here(l) : at'[l][s] = NoShip
  BY <1>3 DEF here
<1>5. ASSUME NEW s \in Here(l)
      PROVE  /\ s \in ShipId
             /\ Sound(l, copy[s])
             /\ copy[s].docked = at[l][s].docked /\ copy[s].orphan = at[l][s].orphan
             /\ jump[s] = IF s \in dead THEN 0 ELSE JumpOf(copy[s], s \in Range(Bereft(dead)))
  <2>1. s \in ShipId /\ Is(l, s)
    BY DEF Here
  <2>2. Sound(l, at[l][s])
    BY <2>1 DEF IInv, Flights
  <2>3. jump[s] = IF s \in dead THEN 0 ELSE JumpOf(copy[s], s \in Range(Bereft(dead)))
    BY DEF Jumps
  <2> QED BY <2>1, <2>2, <2>3, ArrivingSound
<1>6. ASSUME NEW s \in Here(l)
      PROVE  at'[l][s] = IF s \in gone \/ at[l][s].orphan \/ jump[s] # 0 THEN NoShip ELSE stays(s)
  BY <1>3, <1>5 DEF here, ToClean
<1>7. ASSUME NEW s \in Here(l)
      PROVE  /\ Sound(l, stays(s))
             /\ ~at[l][s].orphan => ~stays(s).orphan
             /\ at[l][s].docked # 0 => stays(s).docked # 0
  <2> DEFINE c == copy[s]
  <2>1. Sound(l, c)
    BY <1>5
  <2> HIDE DEF c
  <2>2. LET d == AfterFinished(l, c, Len(Finished(c)))
        IN  Sound(l, d) /\ d.orphan = c.orphan /\ (c.docked # 0 => d.docked = c.docked)
    BY <2>1, StaysSound
  <2> QED BY <1>5, <2>2 DEF c, stays
<1>8. ASSUME NEW s \in Here(l), jump[s] # 0
      PROVE  /\ s \in Range(Bereft(dead)) /\ s \notin gone
             /\ Finished(copy[s])[jump[s]].to \in Location \ {l}
             /\ \A k \in Location : Sound(k, AfterFinished(l, copy[s], jump[s]))
             /\ AfterFinished(l, copy[s], jump[s]).orphan = at[l][s].orphan
  <2> DEFINE c == copy[s]
             n == jump[s]
             owned == s \in Range(Bereft(dead))
  <2>1. Sound(l, c) /\ s \notin dead /\ n = JumpOf(c, owned) /\ n # 0 /\ owned \in BOOLEAN
    BY <1>5, <1>8
  <2>2. s \notin Blown(l, hit, jump)
    BY <1>8 DEF Blown
  <2> HIDE DEF c, n, owned
  <2>3. /\ owned
        /\ n \in 1..Len(Finished(c)) /\ IsJump(Finished(c)[n])
        /\ Finished(c)[n].to \in Location \ {l}
    BY <2>1, JumpOfActs
  <2>4. \A k \in Location : Sound(k, AfterFinished(l, c, n)) /\ AfterFinished(l, c, n).orphan = c.orphan
    BY <2>1, <2>3, JumpedSound
  <2> QED BY <1>5, <2>1, <2>2, <2>3, <2>4, Constants DEF c, n, owned, gone
<1>9. ASSUME NEW s \in Here(l)
      PROVE  /\ jump[s] # 0 =>
                  /\ s \in Range(Bereft(dead)) /\ s \notin gone
                  /\ Finished(copy[s])[jump[s]].to \in Location \ {l}
             /\ at'[l][s] = IF s \in gone \/ at[l][s].orphan \/ jump[s] # 0 THEN NoShip ELSE stays(s)
             /\ Sound(l, stays(s))
             /\ ~at[l][s].orphan => ~stays(s).orphan
             /\ at[l][s].docked # 0 => stays(s).docked # 0
             /\ jump[s] # 0 =>
                  \A k \in Location :
                    /\ Sound(k, AfterFinished(l, copy[s], jump[s]))
                    /\ AfterFinished(l, copy[s], jump[s]).orphan = at[l][s].orphan
  BY <1>6, <1>7, <1>8
<1> QED BY <1>3, <1>4, <1>9 DEF Settles, elsewhere, gone, stays

LEMMA BereftOwners ==
    ASSUME TypeOK, NEW dead \in SUBSET ShipId
    PROVE  /\ Bereft(dead) \in [Player -> ShipId \cup {NoShip}]
           /\ \A p \in Player : Bereft(dead)[p] = IF ship[p] \in dead THEN NoShip ELSE ship[p]
           /\ \A p \in Player : Bereft(dead)[p] # NoShip =>
                Bereft(dead)[p] = ship[p] /\ ship[p] \in ShipId \ dead
<1>1. ship \in [Player -> ShipId \cup {NoShip}]
  BY DEF TypeOK
<1> QED BY <1>1 DEF Bereft

LEMMA UpdateLocationKeeps ==
    ASSUME IInv, NEW l \in Location, UpdateLocation(l)
    PROVE  IInv'
<1>1. TypeOK /\ OneCopy /\ OwnedShipFlies /\ Flights /\ Waiting
  BY DEF IInv
<1>2. /\ phase = l /\ phase' = IF l = Locations THEN 0 ELSE l + 1
      /\ UNCHANGED <<timed, paused, left, seated, carried>>
  BY DEF UpdateLocation
<1>3. PICK near \in SUBSET {s \in Here(l) : at[l][s].target = l}, dead \in SUBSET Here(l) :
        \E copy \in {Arriving(l, near)} : \E jump \in {Jumps(l, copy, dead)} :
        \E hit \in SUBSET (Here(l) \cap Range(Bereft(dead))) :
           Happens(l, copy, jump, dead, Blown(l, hit, jump))
  BY DEF UpdateLocation
<1> DEFINE copy == Arriving(l, near)
           jump == Jumps(l, copy, dead)
           owns == Bereft(dead)
<1>4. PICK hit \in SUBSET Here(l) : Happens(l, copy, jump, dead, Blown(l, hit, jump))
  <2>1. \E hit \in SUBSET (Here(l) \cap Range(owns)) :
           Happens(l, copy, jump, dead, Blown(l, hit, jump))
    BY <1>3
  <2> HIDE DEF copy, jump
  <2> QED BY <2>1
<1> DEFINE blown == Blown(l, hit, jump)
<1> HIDE DEF copy, jump
<1>5. /\ ship' = owns /\ respawn' = RespawnsStarted(owns)
      /\ bombed' = bombed \cup {p \in Player : owns[p] \in blown}
      /\ at' = Settled(l, copy, jump, dead \cup blown)
  BY <1>4 DEF Happens
<1>6. Here(l) \subseteq ShipId /\ dead \in SUBSET ShipId /\ blown \subseteq Here(l)
  BY DEF Here, Blown
<1>7. /\ owns \in [Player -> ShipId \cup {NoShip}]
      /\ \A p \in Player : owns[p] = IF ship[p] \in dead THEN NoShip ELSE ship[p]
      /\ \A p \in Player : owns[p] # NoShip =>
           owns[p] = ship[p] /\ ship[p] # NoShip /\ ship[p] \in ShipId \ dead
  BY <1>1, <1>6, BereftOwners, Constants
<1>8. Settles(l, copy, jump, dead, blown)
  <2>1. copy = Arriving(l, near) /\ jump = Jumps(l, copy, dead)
    BY DEF copy, jump
  <2> QED BY <1>5, <2>1, SettledShips
<1> HIDE DEF owns, blown
<1>9. \A s \in ShipId : s \in Here(l) <=> Is(l, s)
  BY DEF Here
<1>10. \A k \in Location, s \in ShipId : Is(k, s)' =>
         \/ k = l /\ Is(l, s) /\ jump[s] = 0
         \/ k # l /\ Jumped(l, copy, jump, s, k) /\ Is(l, s) /\ jump[s] # 0
         \/ k # l /\ ~Jumped(l, copy, jump, s, k) /\ Is(k, s)
  BY <1>8, <1>9 DEF Settles, Is, Jumped
<1>11. \A k \in Location, s \in ShipId : Is(k, s)' => Sound(k, at'[k][s])
  <2>1. SUFFICES ASSUME NEW k \in Location, NEW s \in ShipId, Is(k, s)'
                 PROVE  Sound(k, at'[k][s])
    OBVIOUS
  <2>2. at'[k][s] # NoShip
    BY <2>1 DEF Is
  <2>3. CASE k = l
    BY <1>8, <1>9, <2>2, <2>3 DEF Settles
  <2>4. CASE k # l /\ Jumped(l, copy, jump, s, k)
    BY <1>8, <2>4 DEF Jumped, Settles
  <2>5. CASE k # l /\ ~Jumped(l, copy, jump, s, k)
    <3>1. at'[k][s] = at[k][s]
      BY <1>8, <2>5 DEF Settles
    <3> QED BY <1>1, <2>2, <3>1 DEF Flights, Is
  <2> QED BY <2>3, <2>4, <2>5
<1>12. Flights'
  BY <1>11 DEF Flights, Sound, Orderly, Running, Short, Elsewhere, OneJump, OneDock, DockLast, Moored
<1>13. OneCopy'
  <2>1. SUFFICES ASSUME NEW s \in ShipId, NEW k \in Location, NEW m \in Location,
                        Is(k, s)', Is(m, s)'
                 PROVE  k = m
    BY DEF OneCopy
  <2>2. \A j \in Location : Jumped(l, copy, jump, s, j) =>
          Is(l, s) /\ j = Finished(copy[s])[jump[s]].to
    BY <1>9 DEF Jumped
  <2>3. \A i, j \in Location : Is(i, s) /\ Is(j, s) => i = j
    BY <1>1 DEF OneCopy
  <2> QED BY <1>10, <2>1, <2>2, <2>3
<1>14. TypeOK'
  <2>1. at' \in [Location -> [ShipId -> ShipType \cup {NoShip}]]
    <3>1. \A k \in Location, s \in ShipId : at'[k][s] \in ShipType \cup {NoShip}
      BY <1>11 DEF Is, Sound
    <3>2. at' = [k \in Location |-> [s \in ShipId |-> at'[k][s]]]
      BY <1>5 DEF Settled
    <3> QED BY <3>1, <3>2
  <2>2. respawn' \in [Player -> 0..RespawnTime]
    <3>1. RespawnTime \in 0..RespawnTime
      BY Constants
    <3> QED BY <1>1, <1>5, <3>1 DEF TypeOK, RespawnsStarted
  <2>3. phase' \in 0..Locations
    BY <1>2, Constants DEF Location
  <2>4. bombed' \subseteq seated'
    <3>1. \A p \in Player : owns[p] \in blown => ship[p] # NoShip
      BY <1>6, <1>7, Constants
    <3> QED BY <1>1, <1>2, <1>5, <3>1 DEF TypeOK, OwnedShipFlies
  <2> QED BY <1>1, <1>2, <1>5, <1>7, <2>1, <2>2, <2>3, <2>4 DEF TypeOK
<1>15. OwnedShipFlies'
  <2>1. SUFFICES ASSUME NEW p \in Player, ship'[p] # NoShip
                 PROVE  /\ p \in seated'
                        /\ p \notin bombed' =>
                             \E k \in Location : at'[k][ship'[p]] # NoShip /\ ~at'[k][ship'[p]].orphan
                        /\ \A q \in Player \ {p} : ship'[q] # ship'[p]
    BY DEF OwnedShipFlies, Is
  <2> DEFINE s == ship[p]
  <2>2. ship'[p] = s /\ s # NoShip /\ s \in ShipId /\ s \notin dead
    BY <1>5, <1>7, <2>1
  <2>3. /\ p \in seated
        /\ p \notin bombed => \E k \in Location : Is(k, s) /\ ~at[k][s].orphan
        /\ \A q \in Player \ {p} : ship[q] # s
    BY <1>1, <2>2 DEF OwnedShipFlies
  <2> HIDE DEF s
  <2>4. \A q \in Player \ {p} : ship'[q] # ship'[p]
    BY <1>5, <1>7, <2>1, <2>2, <2>3
  <2>5. ASSUME p \notin bombed'
        PROVE  \E k \in Location : at'[k][s] # NoShip /\ ~at'[k][s].orphan
    <3>1. p \notin bombed /\ s \notin blown
      BY <1>5, <2>2, <2>5
    <3>2. PICK k \in Location : Is(k, s) /\ ~at[k][s].orphan
      BY <2>3, <3>1
    <3>3. CASE k # l
      <4>1. ~Is(l, s)
        BY <1>1, <2>2, <3>2, <3>3 DEF OneCopy
      <4>2. ~Jumped(l, copy, jump, s, k)
        BY <1>9, <2>2, <4>1 DEF Jumped
      <4>3. at'[k][s] = at[k][s]
        BY <1>8, <2>2, <3>3, <4>2 DEF Settles
      <4> QED BY <3>2, <4>3 DEF Is
    <3>4. CASE k = l /\ jump[s] = 0
      <4>1. s \in Here(l) /\ ~at[l][s].orphan
        BY <1>9, <2>2, <3>2, <3>4
      <4> DEFINE d == AfterFinished(l, copy[s], Len(Finished(copy[s])))
      <4>2. at'[l][s] = d /\ Sound(l, d) /\ ~d.orphan
        BY <1>8, <2>2, <3>1, <3>4, <4>1 DEF Settles
      <4> HIDE DEF d
      <4> QED BY <3>4, <4>2, Constants DEF Sound
    <3>5. CASE k = l /\ jump[s] # 0
      <4> DEFINE m == Finished(copy[s])[jump[s]].to
                 d == AfterFinished(l, copy[s], jump[s])
      <4>1. s \in Here(l) /\ ~at[l][s].orphan
        BY <1>9, <2>2, <3>2, <3>5
      <4>2. m \in Location \ {l}
        BY <1>8, <3>5, <4>1 DEF Settles
      <4>3. Jumped(l, copy, jump, s, m)
        BY <3>5, <4>1 DEF Jumped
      <4> HIDE DEF m
      <4>4. at'[m][s] = d /\ Sound(m, d) /\ d.orphan = at[l][s].orphan
        BY <1>8, <2>2, <3>5, <4>1, <4>2, <4>3 DEF Settles
      <4> HIDE DEF d
      <4> QED BY <4>1, <4>2, <4>4, Constants DEF Sound
    <3> QED BY <3>3, <3>4, <3>5
  <2> QED BY <1>2, <2>2, <2>3, <2>4, <2>5
<1>16. Waiting'
  <2>1. ~paused
    BY <1>1, <1>2, Constants DEF Waiting, Location
  <2>2. \A p \in Player : respawn'[p] = IF p \in seated /\ owns[p] = NoShip /\ respawn[p] = 0
                                        THEN RespawnTime ELSE respawn[p]
    BY <1>5 DEF RespawnsStarted
  <2>3. \A p \in Player : respawn[p] \in Nat
    BY <1>1 DEF TypeOK
  <2>4. \A p \in Player : ship[p] = NoShip => owns[p] = NoShip
    BY <1>7
  <2>5. \A p \in Player : p \notin seated' => respawn'[p] = 0
    BY <1>1, <1>2, <2>2 DEF Waiting
  <2>6. \A p \in Player : respawn'[p] > 0 => p \in carried' \/ (ship'[p] = NoShip /\ ~paused')
    BY <1>1, <1>2, <1>5, <2>1, <2>2, <2>3, <2>4 DEF Waiting
  <2> QED BY <1>2, <2>1, <2>5, <2>6 DEF Waiting
<1> QED BY <1>12, <1>13, <1>14, <1>15, <1>16 DEF IInv

-----------------------------------------------------------------------------
(* The theorems.                                                           *)

LEMMA InitIInv == Init => IInv
<1> SUFFICES ASSUME Init
             PROVE  IInv
  OBVIOUS
<1>1. /\ timed \in BOOLEAN /\ phase = 0 /\ paused = FALSE /\ left = GameTime
      /\ seated = {} /\ carried = {} /\ bombed = {}
      /\ ship = [p \in Player |-> NoShip]
      /\ respawn = [p \in Player |-> 0]
      /\ at = [l \in Location |-> [s \in ShipId |-> NoShip]]
  BY DEF Init
<1>2. \A l \in Location, s \in ShipId : ~Is(l, s)
  BY <1>1 DEF Is
<1>3. TypeOK
  <2>1. left \in 1..(GameTime + PauseTime)
    BY <1>1, Constants
  <2>2. phase \in 0..Locations /\ 0 \in 0..RespawnTime
    BY <1>1, Constants
  <2> QED BY <1>1, <2>1, <2>2 DEF TypeOK
<1>4. OneCopy /\ OwnedShipFlies /\ Flights /\ Waiting
  BY <1>1, <1>2 DEF OneCopy, OwnedShipFlies, Flights, Waiting
<1> QED BY <1>3, <1>4 DEF IInv

LEMMA NextIInv == IInv /\ [Next]_vars => IInv'
<1> SUFFICES ASSUME IInv, [Next]_vars
             PROVE  IInv'
  OBVIOUS
<1>1. CASE UNCHANGED vars
  BY <1>1 DEF vars, IInv, TypeOK, OneCopy, OwnedShipFlies, Flights, Waiting, Is, Sound,
              Orderly, Running, Short, Elsewhere, OneJump, OneDock, DockLast, Moored
<1>2. ASSUME NEW l \in Location, NEW p \in Player,
             \/ Navigate(l, p) \/ DockNavigate(l, p) \/ Steer(l, p)
             \/ UndockByDialogue(l, p) \/ Shoot(l, p)
             \/ \E to \in Location : StartJump(l, p, to)
      PROVE  IInv'
  BY <1>2, OrdersKeep
<1>3. ASSUME NEW p \in Player, Leave(p) \/ AddBot(p) \/ \E r \in 0..RespawnTime : Join(p, r)
      PROVE  IInv'
  BY <1>3, LeaveKeeps, AddBotKeeps, JoinKeeps
<1>4. CASE CleanupOrphanedShips
  BY <1>4, CleanupKeeps
<1>5. CASE Restart \/ Wait \/ UpdatePlayers
  BY <1>5, RestartKeeps, WaitKeeps, UpdatePlayersKeeps
<1>6. ASSUME NEW l \in Location, UpdateLocation(l)
      PROVE  IInv'
  BY <1>6, UpdateLocationKeeps
<1> QED BY <1>1, <1>2, <1>3, <1>4, <1>5, <1>6 DEF Next

LEMMA SpecIInv == Spec => []IInv
<1> QED BY InitIInv, NextIInv, PTL DEF Spec

(* TypeCorrect: the state keeps its shape, for any number of ships,        *)
(* locations and players.                                                  *)
THEOREM TypeCorrect == Spec => []TypeOK
<1>1. IInv => TypeOK
  BY DEF IInv
<1> QED BY <1>1, SpecIInv, PTL

(* OneCopyHolds: a ship that jumps is cloned into the other location, and  *)
(* still no ship is ever in two: it has only one jump on its list, and     *)
(* what is left behind goes in the same update.                            *)
THEOREM OneCopyHolds == Spec => []OneCopy
<1>1. IInv => OneCopy
  BY DEF IInv
<1> QED BY <1>1, SpecIInv, PTL

(* OwnedShipFliesHolds: but for the blast, whose players keep the id of    *)
(* nothing, whoever has a ship finds it in some location, not marked for   *)
(* the cleanup, and shares it with nobody.                                 *)
THEOREM OwnedShipFliesHolds == Spec => []OwnedShipFlies
<1>1. IInv => OwnedShipFlies
  BY DEF IInv
<1> QED BY <1>1, SpecIInv, PTL

(* StaysDockedHolds: no update undocks a ship.  It rests on the order of   *)
(* the long actions: what is left of an undocking comes before a docking   *)
(* and is over no later, so a docked ship has nothing left to do but jump. *)
THEOREM StaysDockedHolds == Spec => StaysDocked
<1>1. ASSUME IInv, [Next]_vars,
             NEW s \in ShipId, NEW l \in Location, phase = l, Is(l, s), at[l][s].docked # 0
      PROVE  at'[l][s] = NoShip \/ at'[l][s].docked # 0
  <2>1. phase # 0
    BY <1>1 DEF Location
  <2>2. CASE UNCHANGED vars
    BY <1>1, <2>2 DEF vars
  <2>3. ASSUME NEW k \in Location, UpdateLocation(k)
        PROVE  at'[l][s] = NoShip \/ at'[l][s].docked # 0
    <3>1. k = l
      BY <1>1, <2>3 DEF UpdateLocation
    <3>2. PICK near \in SUBSET {t \in Here(l) : at[l][t].target = l}, dead \in SUBSET Here(l) :
            \E copy \in {Arriving(l, near)} : \E jump \in {Jumps(l, copy, dead)} :
            \E hit \in SUBSET (Here(l) \cap Range(Bereft(dead))) :
               Happens(l, copy, jump, dead, Blown(l, hit, jump))
      BY <2>3, <3>1 DEF UpdateLocation
    <3> DEFINE copy == Arriving(l, near)
               jump == Jumps(l, copy, dead)
    <3>3. PICK hit \in SUBSET Here(l) : Happens(l, copy, jump, dead, Blown(l, hit, jump))
      <4>1. \E hit \in SUBSET (Here(l) \cap Range(Bereft(dead))) :
               Happens(l, copy, jump, dead, Blown(l, hit, jump))
        BY <3>2
      <4> HIDE DEF copy, jump
      <4> QED BY <4>1
    <3> HIDE DEF copy, jump
    <3>4. at' = Settled(l, copy, jump, dead \cup Blown(l, hit, jump))
      BY <3>3 DEF Happens
    <3>5. Settles(l, copy, jump, dead, Blown(l, hit, jump))
      <4>1. copy = Arriving(l, near) /\ jump = Jumps(l, copy, dead)
        BY DEF copy, jump
      <4> QED BY <1>1, <3>4, <4>1, SettledShips
    <3>6. s \in Here(l)
      BY <1>1 DEF Here
    <3> QED BY <1>1, <3>5, <3>6 DEF Settles
  <2>4. \A k \in Location, p \in Player :
          ~(\/ Navigate(k, p) \/ DockNavigate(k, p) \/ Steer(k, p)
            \/ UndockByDialogue(k, p) \/ Shoot(k, p)
            \/ \E to \in Location : StartJump(k, p, to))
    BY <2>1 DEF Navigate, DockNavigate, Steer, UndockByDialogue, Shoot, StartJump, Ready
  <2>5. \A p \in Player : ~(Leave(p) \/ AddBot(p) \/ \E r \in 0..RespawnTime : Join(p, r))
    BY <2>1 DEF Leave, AddBot, Join
  <2>6. ~(CleanupOrphanedShips \/ Restart \/ Wait \/ UpdatePlayers)
    BY <2>1 DEF CleanupOrphanedShips, Restart, Wait, UpdatePlayers
  <2> QED BY <1>1, <2>2, <2>3, <2>4, <2>5, <2>6 DEF Next
<1>2. IInv /\ [Next]_vars =>
        [\A s \in ShipId, l \in Location :
           phase = l /\ Is(l, s) /\ at[l][s].docked # 0 =>
             at'[l][s] = NoShip \/ at'[l][s].docked # 0]_vars
  BY <1>1
<1> QED BY <1>2, SpecIInv, PTL DEF Spec, StaysDocked

(* KeepsItsShipHolds: nothing but its death, the next game or a Respawn it *)
(* brought along takes a ship from a player of the room.                   *)
THEOREM KeepsItsShipHolds == Spec => KeepsItsShip
<1>1. ASSUME IInv, [Next]_vars,
             NEW p \in seated \cap seated', ship[p] # NoShip, ship'[p] # ship[p]
      PROVE  ship'[p] = NoShip \/ (paused /\ ~paused') \/ p \in carried
  <2>1. p \in Player /\ TypeOK /\ Waiting /\ ship \in [Player -> ShipId \cup {NoShip}]
    BY <1>1 DEF IInv, TypeOK
  <2>2. CASE UNCHANGED vars
    BY <1>1, <2>2 DEF vars
  <2>3. ASSUME NEW k \in Location, NEW q \in Player,
               \/ Navigate(k, q) \/ DockNavigate(k, q) \/ Steer(k, q)
               \/ UndockByDialogue(k, q) \/ Shoot(k, q)
               \/ \E to \in Location : StartJump(k, q, to)
        PROVE  FALSE
    BY <1>1, <2>3
       DEF Navigate, DockNavigate, Steer, UndockByDialogue, Shoot, StartJump, Order
  <2>4. ASSUME NEW q \in Player, Leave(q)
        PROVE  FALSE
    BY <1>1, <2>1, <2>4 DEF Leave
  <2>5. ASSUME NEW q \in Player, AddBot(q)
        PROVE  FALSE
    BY <1>1, <2>5 DEF AddBot
  <2>6. ASSUME NEW q \in Player, NEW r \in 0..RespawnTime, Join(q, r)
        PROVE  FALSE
    <3>1. PICK ids \in FreshIds({q}, Free) : ship' = Owning(ids)
      BY <2>6 DEF Join
    <3>2. p # q /\ DOMAIN ids = {q}
      BY <2>6 DEF Join, FreshIds
    <3> QED BY <1>1, <2>1, <3>1, <3>2 DEF Owning
  <2>7. CASE CleanupOrphanedShips
    BY <1>1, <2>7 DEF CleanupOrphanedShips
  <2>8. CASE Restart
    BY <2>8 DEF Restart
  <2>9. CASE Wait
    BY <1>1, <2>9 DEF Wait
  <2>10. CASE UpdatePlayers
    <3>1. PICK ids \in FreshIds({q \in seated : respawn[q] = 1}, Free) : ship' = Owning(ids)
      BY <2>10 DEF UpdatePlayers, RespawnsFinish
    <3>2. DOMAIN ids = {q \in seated : respawn[q] = 1}
      BY DEF FreshIds
    <3>3. respawn[p] = 1
      BY <1>1, <2>1, <3>1, <3>2 DEF Owning
    <3> QED BY <1>1, <2>1, <3>3 DEF Waiting
  <2>11. ASSUME NEW k \in Location, UpdateLocation(k)
         PROVE  ship'[p] = NoShip
    <3>1. \E dead : ship' = Bereft(dead)
      BY <2>11 DEF UpdateLocation, Happens
    <3> QED BY <1>1, <2>1, <3>1 DEF Bereft
  <2> QED BY <1>1, <2>2, <2>3, <2>4, <2>5, <2>6, <2>7, <2>8, <2>9, <2>10, <2>11 DEF Next
<1>2. IInv /\ [Next]_vars =>
        [\A p \in seated \cap seated' :
           ship[p] # NoShip /\ ship'[p] # ship[p] =>
             ship'[p] = NoShip \/ (paused /\ ~paused') \/ p \in carried]_vars
  BY <1>1
<1> QED BY <1>2, SpecIInv, PTL DEF Spec, KeepsItsShip
=============================================================================
