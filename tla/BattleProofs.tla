---------------------------- MODULE BattleProofs ----------------------------
(***************************************************************************)
(* Theorems about Battle, for any number of players, ships, rockets and    *)
(* turrets, any healths, damages and durations: who owns a ship owns one   *)
(* that is there, a pirate is paid for once, the dead do not shoot, a      *)
(* turret and its act keep in step, and goods that were caught are gone.   *)
(***************************************************************************)
EXTENDS Battle, VectorsProofs

AnyShipType == ShipOf(Int)
EventType == [kind : {"docked", "died"}, ship : ShipId, pirate : BOOLEAN,
              dealer : ShipId \cup {None}]
TellingType == [kind : {"docked", "died"}, ship : ShipId]

-----------------------------------------------------------------------------
(* The inductive invariant.                                                *)

Shape ==
    /\ phase \in {"events", "orders", "fly", "hp", "acts", "blasts"}
    /\ own \in [Player -> ShipId \cup {None}]
    /\ ship \in [ShipId -> AnyShipType \cup {None}]
    /\ blasts \subseteq BlastType /\ floats \subseteq Mineral
    /\ events \subseteq EventType /\ told \subseteq TellingType /\ bombed \subseteq Player

\* No two players own one ship; unless a blast took it it is there, of no
\* pirate, and only the blasts of this update can have marked it.
Owners ==
    /\ \A p, q \in Player : own[p] # None /\ own[p] = own[q] => p = q
    /\ \A p \in Player : own[p] # None /\ p \notin bombed =>
          /\ own[p] \in Present /\ ~ship[own[p]].pirate
          /\ phase # "blasts" => ~ship[own[p]].clean
    /\ \A e \in events : e.kind = "docked" /\ e.ship \in Present => ship[e.ship].pirate

\* What was told of a ship that is there: it landed and is docked, or it died in
\* this update and will be removed at its end.
Tellings ==
    \A t \in told : t.ship \in Present =>
        /\ t.kind = "docked" => ship[t.ship].docked
        /\ t.kind = "died" => ship[t.ship].clean /\ phase \in {"acts", "blasts"}

\* Whoever still has a ship when the actions end has one that is alive.
Alive == phase = "acts" => \A p \in Player : own[p] \in Present => ship[own[p]].hp > 0

\* A turret and its act count the same ticks; the cooldown is a step ahead of the
\* act in the part of the update between the two.
Ahead == IF phase \in {"hp", "acts"} THEN 1 ELSE 0
OneAct(acts) == \A i, j \in DOMAIN acts : acts[i].turret = acts[j].turret => i = j
InStep(c, n) ==
    /\ OneAct(c.acts)
    /\ \A i \in DOMAIN c.acts : c.acts[i].left = c.cool[c.acts[i].turret] + n
    /\ \A t \in Turret : c.cool[t] > 0 => \E i \in DOMAIN c.acts : c.acts[i].turret = t
Turrets == \A s \in Present : InStep(ship[s], Ahead)

IInv == Shape /\ Owners /\ Tellings /\ Alive /\ Turrets /\ GoodsOnce

-----------------------------------------------------------------------------
(* Constants and records.                                                  *)

LEMMA Constants ==
    /\ PlayerHp \in Nat /\ PirateHp \in Nat /\ HomeHp \in Nat /\ Cooldown \in Nat
    /\ Lifetime \in Nat /\ DecayTime \in Nat /\ BlastTime \in Nat
    /\ PlayerHp > 0 /\ PirateHp > 0 /\ HomeHp > 0 /\ Cooldown > 0
    /\ Lifetime > 0 /\ DecayTime > 0 /\ BlastTime > 0
    /\ Shot \in Nat /\ StarHit \in Nat /\ Heal \in Nat /\ WreckBlast \in Nat
    /\ RocketBlast \in Nat /\ MaxMinerals \in Nat /\ Penalty \in Nat /\ MaxMoney \in Nat
    /\ None \notin ShipId /\ None \notin RocketId /\ None \notin Mineral
    /\ None \notin AnyShipType /\ None \notin RocketType
<1>1. {PlayerHp, PirateHp, HomeHp, Cooldown, Lifetime, DecayTime, BlastTime} \subseteq Nat \ {0}
  BY BattleAssumption
<1>2. {Shot, StarHit, Heal, WreckBlast, RocketBlast, MaxMinerals} \subseteq Nat
  BY BattleAssumption
<1>3. {Penalty, MaxMoney} \subseteq Nat
  BY BattleAssumption
<1> QED BY <1>1, <1>2, <1>3, BattleAssumption, NoneAssumption DEF AnyShipType

\* The fields of a ship, and what a change of one of them leaves.
LEMMA ShipFields ==
    ASSUME NEW c \in AnyShipType
    PROVE  /\ c.pirate \in BOOLEAN /\ c.hp \in Int /\ c.dealer \in ShipId \cup {None}
           /\ c.clean \in BOOLEAN /\ c.docked \in BOOLEAN /\ c.tractor \in Mineral \cup {None}
           /\ c.acts \in Seq(ActType) /\ c.cool \in [Turret -> 0..Cooldown]
  BY DEF AnyShipType, ShipOf

LEMMA NewShips ==
    ASSUME NEW pirate \in BOOLEAN
    PROVE  /\ NewShip(pirate) \in AnyShipType
           /\ NewShip(pirate).pirate = pirate /\ ~NewShip(pirate).clean
           /\ ~NewShip(pirate).docked /\ NewShip(pirate).acts = <<>>
           /\ NewShip(pirate).cool = NewTurrets
           /\ NewShip(pirate).hp = IF pirate THEN PirateHp ELSE PlayerHp
<1>1. NewTurrets \in [Turret -> 0..Cooldown]
  BY Constants DEF NewTurrets
<1>2. <<>> \in Seq(ActType)
  OBVIOUS
<1>3. BareShip \in AnyShipType
  BY <1>1, <1>2, Constants DEF BareShip, AnyShipType, ShipOf
<1>4. /\ BareShip.pirate = FALSE /\ BareShip.clean = FALSE /\ BareShip.docked = FALSE
      /\ BareShip.acts = <<>> /\ BareShip.cool = NewTurrets /\ BareShip.hp = PlayerHp
      /\ BareShip.dealer = None /\ BareShip.tractor = None
  BY DEF BareShip
<1>5. CASE pirate
  <2>1. NewShip(pirate) = [BareShip EXCEPT !.pirate = TRUE, !.hp = PirateHp]
    BY <1>5 DEF NewShip
  <2>2. [BareShip EXCEPT !.pirate = TRUE, !.hp = PirateHp] \in AnyShipType
    <3> DEFINE h == PirateHp
               b == TRUE
    <3>1. h \in Int /\ b \in BOOLEAN
      BY Constants
    <3> HIDE DEF h, b
    <3>2. [BareShip EXCEPT !.pirate = b, !.hp = h] \in AnyShipType
      BY <1>3, <3>1 DEF AnyShipType, ShipOf
    <3> QED BY <3>2 DEF h, b
  <2>3. /\ NewShip(pirate).pirate = TRUE /\ NewShip(pirate).hp = PirateHp
        /\ NewShip(pirate).clean = FALSE /\ NewShip(pirate).docked = FALSE
    BY <1>3, <1>4, <2>1 DEF AnyShipType, ShipOf
  <2>4. NewShip(pirate).acts = <<>> /\ NewShip(pirate).cool = NewTurrets
    BY <1>3, <1>4, <2>1 DEF AnyShipType, ShipOf
  <2>5. pirate = TRUE
    BY <1>5
  <2> QED BY <2>1, <2>2, <2>3, <2>4, <2>5
<1>6. CASE ~pirate
  <2>1. NewShip(pirate) = BareShip /\ pirate = FALSE
    BY <1>6 DEF NewShip
  <2> QED BY <1>3, <1>4, <2>1
<1> QED BY <1>5, <1>6

LEMMA HurtShips ==
    ASSUME NEW c \in AnyShipType, NEW n \in Nat
    PROVE  /\ Hurt(c, n) \in AnyShipType
           /\ Hurt(c, n).hp = IF c.hp > n THEN c.hp - n ELSE 0
           /\ Hurt(c, n).clean = (c.clean \/ c.hp <= n)
           /\ Hurt(c, n).dealer = None /\ Hurt(c, n).pirate = c.pirate
           /\ Hurt(c, n).docked = c.docked /\ Hurt(c, n).tractor = c.tractor
           /\ Hurt(c, n).acts = c.acts /\ Hurt(c, n).cool = c.cool
<1> DEFINE h == IF c.hp > n THEN c.hp - n ELSE 0
           b == c.clean \/ c.hp <= n
<1>1. h \in Int /\ b \in BOOLEAN
  BY DEF AnyShipType, ShipOf
<1>2. Hurt(c, n) = [c EXCEPT !.hp = h, !.dealer = None, !.clean = b]
  BY DEF Hurt
<1> HIDE DEF h, b
<1>3. Hurt(c, n) \in AnyShipType
  BY <1>1, <1>2 DEF AnyShipType, ShipOf
<1>4. Hurt(c, n).hp = h /\ Hurt(c, n).clean = b /\ Hurt(c, n).dealer = None
  BY <1>2 DEF AnyShipType, ShipOf
<1>5. /\ Hurt(c, n).pirate = c.pirate
      /\ Hurt(c, n).docked = c.docked /\ Hurt(c, n).tractor = c.tractor
      /\ Hurt(c, n).acts = c.acts /\ Hurt(c, n).cool = c.cool
  BY <1>2 DEF AnyShipType, ShipOf
<1> QED BY <1>3, <1>4, <1>5 DEF h, b

LEMMA HealedShips ==
    ASSUME NEW c \in AnyShipType
    PROVE  /\ Healed(c) \in AnyShipType
           /\ Healed(c).hp = Fewer(c.hp + Heal, PlayerHp) /\ Healed(c).clean = c.clean
           /\ Healed(c).dealer = None /\ Healed(c).pirate = c.pirate
           /\ Healed(c).docked = c.docked /\ Healed(c).tractor = c.tractor
           /\ Healed(c).acts = c.acts /\ Healed(c).cool = c.cool
<1> DEFINE h == Fewer(c.hp + Heal, PlayerHp)
<1>1. h \in Int
  BY Constants DEF AnyShipType, ShipOf, Fewer
<1>2. Healed(c) = [c EXCEPT !.hp = h, !.dealer = None]
  BY DEF Healed
<1> HIDE DEF h
<1>3. Healed(c) \in AnyShipType
  BY <1>1, <1>2 DEF AnyShipType, ShipOf
<1>4. Healed(c).hp = h /\ Healed(c).clean = c.clean /\ Healed(c).dealer = None
  BY <1>2 DEF AnyShipType, ShipOf
<1>5. /\ Healed(c).pirate = c.pirate
      /\ Healed(c).docked = c.docked /\ Healed(c).tractor = c.tractor
      /\ Healed(c).acts = c.acts /\ Healed(c).cool = c.cool
  BY <1>2 DEF AnyShipType, ShipOf
<1> QED BY <1>3, <1>4, <1>5 DEF h

LEMMA CleanedShips ==
    ASSUME NEW c \in AnyShipType, NEW b \in BOOLEAN
    PROVE  LET d == [c EXCEPT !.clean = b]
           IN  /\ d \in AnyShipType /\ d.clean = b
               /\ d.hp = c.hp /\ d.dealer = c.dealer /\ d.pirate = c.pirate
               /\ d.docked = c.docked /\ d.tractor = c.tractor
               /\ d.acts = c.acts /\ d.cool = c.cool
<1> DEFINE d == [c EXCEPT !.clean = b]
<1>1. d \in AnyShipType
  BY DEF AnyShipType, ShipOf
<1>2. d.clean = b /\ d.hp = c.hp /\ d.dealer = c.dealer /\ d.pirate = c.pirate
  BY DEF AnyShipType, ShipOf
<1>3. d.docked = c.docked /\ d.tractor = c.tractor /\ d.acts = c.acts /\ d.cool = c.cool
  BY DEF AnyShipType, ShipOf
<1> QED BY <1>1, <1>2, <1>3

LEMMA CooledShips ==
    ASSUME NEW c \in AnyShipType, NEW m \in Mineral \cup {None}
    PROVE  LET d == [Cooled(c) EXCEPT !.tractor = m]
           IN  /\ d \in AnyShipType /\ d.tractor = m
               /\ d.hp = c.hp /\ d.dealer = c.dealer /\ d.pirate = c.pirate
               /\ d.docked = c.docked /\ d.clean = c.clean /\ d.acts = c.acts
               /\ \A t \in Turret : d.cool[t] = IF c.cool[t] > 0 THEN c.cool[t] - 1 ELSE 0
<1> DEFINE k == [t \in Turret |-> IF c.cool[t] > 0 THEN c.cool[t] - 1 ELSE 0]
           e == [c EXCEPT !.cool = k]
           d == [e EXCEPT !.tractor = m]
<1>1. Cooled(c) = e
  BY DEF Cooled
<1>2. \A t \in Turret : c.cool[t] \in 0..Cooldown
  BY ShipFields
<1>3. k \in [Turret -> 0..Cooldown]
  BY <1>2, Constants
<1>4. \A t \in Turret : k[t] = IF c.cool[t] > 0 THEN c.cool[t] - 1 ELSE 0
  OBVIOUS
<1> HIDE DEF k
<1>5. e \in AnyShipType
  BY <1>3 DEF AnyShipType, ShipOf
<1>6. /\ e.hp = c.hp /\ e.dealer = c.dealer /\ e.pirate = c.pirate
      /\ e.docked = c.docked /\ e.clean = c.clean /\ e.acts = c.acts /\ e.cool = k
  BY DEF AnyShipType, ShipOf
<1> HIDE DEF e
<1>7. d \in AnyShipType
  BY <1>5 DEF AnyShipType, ShipOf
<1>8. /\ d.hp = e.hp /\ d.dealer = e.dealer /\ d.pirate = e.pirate /\ d.tractor = m
      /\ d.docked = e.docked /\ d.clean = e.clean /\ d.acts = e.acts /\ d.cool = e.cool
  BY <1>5 DEF AnyShipType, ShipOf
<1> QED BY <1>1, <1>4, <1>6, <1>7, <1>8

-----------------------------------------------------------------------------
(* Turrets and their acts.                                                 *)

\* What is left of the acts after a tick.
LEMMA KeptActs ==
    ASSUME NEW acts \in Seq(ActType), OneAct(acts)
    PROVE  /\ Kept(acts) \in Seq(ActType) /\ OneAct(Kept(acts))
           /\ \A n \in DOMAIN Kept(acts) : \E i \in DOMAIN acts :
                 /\ Kept(acts)[n].turret = acts[i].turret
                 /\ Kept(acts)[n].left = acts[i].left - 1
           /\ \A i \in DOMAIN acts : acts[i].left > 1 =>
                 \E n \in DOMAIN Kept(acts) : Kept(acts)[n].turret = acts[i].turret
<1> DEFINE T == [turret : Turret, does : {"shoot", "launch"},
                 at : ShipId \cup Mineral \cup {None}, left : 0..Cooldown]
           s == Ticked(acts)
           I == {i \in DOMAIN acts : s[i].left > 0}
           r == Kept(acts)
<1>1. /\ DOMAIN s = DOMAIN acts /\ DOMAIN acts = 1..Len(acts) /\ Len(acts) \in Nat
      /\ \A i \in DOMAIN acts : acts[i] \in ActType /\ s[i] = [acts[i] EXCEPT !.left = @ - 1]
  BY DEF Ticked
<1>2. ASSUME NEW a \in ActType
      PROVE  LET b == [a EXCEPT !.left = @ - 1]
             IN  b \in T /\ b.left = a.left - 1 /\ b.turret = a.turret
                 /\ (b.left > 0 => b \in ActType)
  <2> DEFINE n == a.left - 1
             b == [a EXCEPT !.left = n]
  <2>1. a.left \in 1..Cooldown
    BY <1>2 DEF ActType
  <2>2. n \in 0..Cooldown /\ (n > 0 => n \in 1..Cooldown)
    BY <2>1, Constants
  <2> HIDE DEF n
  <2>3. b.left = n /\ b.turret = a.turret
    BY <1>2 DEF ActType
  <2>4. b \in T
    BY <1>2, <2>2 DEF ActType
  <2>5. ASSUME n \in 1..Cooldown
        PROVE  b \in ActType
    BY <1>2, <2>5 DEF ActType
  <2> QED BY <2>2, <2>3, <2>4, <2>5 DEF n
<1>3. \A i \in DOMAIN acts : /\ s[i] \in T /\ s[i].left = acts[i].left - 1
                             /\ s[i].turret = acts[i].turret
                             /\ s[i].left > 0 => s[i] \in ActType
  BY <1>1, <1>2
<1>4. s \in Seq(T) /\ Len(s) = Len(acts)
  <2>1. s = [i \in 1..Len(acts) |-> s[i]]
    BY <1>1 DEF Ticked
  <2> HIDE DEF s, T
  <2> QED BY <1>1, <1>3, <2>1
<1>5. I \in SUBSET (1..Len(s)) /\ r = Retained(s, I)
  BY <1>1, <1>4 DEF Kept
<1>6. \A i \in 1..Len(s) : i \in I <=> s[i].left > 0
  BY <1>1, <1>4
<1> HIDE DEF s, T, I, r
<1>7. r \in Seq(T) /\ \E g : Picks(g, r, s, I)
  BY <1>4, <1>5, RetainedProperties
<1>8. PICK g : Picks(g, r, s, I)
  BY <1>7
<1>9. /\ DOMAIN r = 1..Len(r) /\ Len(r) \in Nat
      /\ \A n \in DOMAIN r : g[n] \in I /\ g[n] \in DOMAIN acts /\ r[n] = s[g[n]]
  BY <1>1, <1>4, <1>5, <1>7, <1>8 DEF Picks
<1>10. \A n \in DOMAIN r : r[n] \in ActType
  BY <1>1, <1>3, <1>4, <1>6, <1>9
<1>11. r \in Seq(ActType)
  <2>1. r = [n \in 1..Len(r) |-> r[n]]
    BY <1>7
  <2> QED BY <1>9, <1>10, <2>1
<1>12. \A n \in DOMAIN r : \E i \in DOMAIN acts :
          r[n].turret = acts[i].turret /\ r[n].left = acts[i].left - 1
  BY <1>3, <1>9
<1>13. \A i \in DOMAIN acts : acts[i].left > 1 =>
          \E n \in DOMAIN r : r[n].turret = acts[i].turret
  <2> SUFFICES ASSUME NEW i \in DOMAIN acts, acts[i].left > 1
               PROVE  \E n \in DOMAIN r : r[n].turret = acts[i].turret
    OBVIOUS
  <2>1. acts[i].left \in Int
    BY <1>1, Constants DEF ActType
  <2>2. i \in I
    BY <1>1, <1>3, <1>4, <1>6, <2>1
  <2>3. PICK n \in 1..Len(r) : g[n] = i
    BY <1>8, <2>2 DEF Picks
  <2> QED BY <1>3, <1>9, <2>3
<1>14. OneAct(r)
  <2> SUFFICES ASSUME NEW m \in DOMAIN r, NEW n \in DOMAIN r, r[m].turret = r[n].turret
               PROVE  m = n
    BY DEF OneAct
  <2>1. g[m] = g[n]
    BY <1>3, <1>9 DEF OneAct
  <2>2. ~(m < n) /\ ~(n < m)
    BY <1>1, <1>8, <1>9, <2>1 DEF Picks, Increasing
  <2> QED BY <1>9, <2>2
<1> QED BY <1>11, <1>12, <1>13, <1>14 DEF r

\* revalidate drops nothing when a turret that is at rest is told to act.
LEMMA StartedActs ==
    ASSUME NEW acts \in Seq(ActType), OneAct(acts), NEW a \in ActType,
           \A i \in DOMAIN acts : acts[i].turret # a.turret
    PROVE  LET r == Revalidated(Append(acts, a))
           IN  /\ r \in Seq(ActType) /\ OneAct(r)
               /\ \A n \in DOMAIN r : r[n] = a \/ \E i \in DOMAIN acts : r[n] = acts[i]
               /\ \E n \in DOMAIN r : r[n] = a
               /\ \A i \in DOMAIN acts : \E n \in DOMAIN r : r[n] = acts[i]
<1> DEFINE s == Append(acts, a)
           I == {i \in DOMAIN s : \A j \in 1..(i - 1) : s[j].turret # s[i].turret}
           r == Revalidated(s)
<1>1. /\ s \in Seq(ActType) /\ Len(s) = Len(acts) + 1 /\ Len(acts) \in Nat
      /\ DOMAIN s = 1..Len(s) /\ DOMAIN acts = 1..Len(acts)
      /\ s[Len(acts) + 1] = a /\ \A i \in DOMAIN acts : s[i] = acts[i]
  OBVIOUS
<1>2. r = Retained(s, I)
  BY DEF Revalidated
<1>3. \A i \in DOMAIN s : i \in DOMAIN acts \/ i = Len(acts) + 1
  BY <1>1
<1> HIDE DEF s
<1>4. OneAct(s)
  BY <1>1, <1>3 DEF OneAct
<1>5. I = 1..Len(s)
  BY <1>1, <1>4 DEF OneAct
<1> HIDE DEF I, r
<1>6. r \in Seq(ActType) /\ \E g : Picks(g, r, s, I)
  BY <1>1, <1>2, <1>5, RetainedProperties
<1>7. PICK g : Picks(g, r, s, I)
  BY <1>6
<1>8. DOMAIN r = 1..Len(r) /\ Len(r) \in Nat /\ \A n \in DOMAIN r : g[n] \in DOMAIN s /\ r[n] = s[g[n]]
  BY <1>1, <1>5, <1>6, <1>7 DEF Picks
<1>9. \A i \in DOMAIN s : \E n \in DOMAIN r : r[n] = s[i]
  BY <1>1, <1>5, <1>7, <1>8 DEF Picks
<1>10. OneAct(r)
  <2> SUFFICES ASSUME NEW m \in DOMAIN r, NEW n \in DOMAIN r, r[m].turret = r[n].turret
               PROVE  m = n
    BY DEF OneAct
  <2>1. g[m] = g[n]
    BY <1>4, <1>8 DEF OneAct
  <2>2. ~(m < n) /\ ~(n < m)
    BY <1>1, <1>7, <1>8, <2>1 DEF Picks, Increasing
  <2> QED BY <1>8, <2>2
<1>11. \A n \in DOMAIN r : r[n] = a \/ \E i \in DOMAIN acts : r[n] = acts[i]
  BY <1>1, <1>3, <1>8
<1>12. \E n \in DOMAIN r : r[n] = a
  <2>1. Len(acts) + 1 \in DOMAIN s
    BY <1>1
  <2> QED BY <1>1, <1>9, <2>1
<1>13. \A i \in DOMAIN acts : \E n \in DOMAIN r : r[n] = acts[i]
  <2>1. \A i \in DOMAIN acts : i \in DOMAIN s
    BY <1>1
  <2> QED BY <1>1, <1>9, <2>1
<1> QED BY <1>6, <1>10, <1>11, <1>12, <1>13 DEF r, s

LEMMA StartedShips ==
    ASSUME NEW c \in AnyShipType, InStep(c, 0), NEW t \in Turret, AtRest(c, t),
           NEW what \in {"shoot", "launch"}, NEW at \in ShipId \cup Mineral \cup {None}
    PROVE  LET d == Started(c, t, what, at)
           IN  /\ d \in AnyShipType /\ InStep(d, 0)
               /\ d.hp = c.hp /\ d.dealer = c.dealer /\ d.pirate = c.pirate
               /\ d.docked = c.docked /\ d.clean = c.clean /\ d.tractor = c.tractor
<1> DEFINE k == [c.cool EXCEPT ![t] = Cooldown]
           e == [c EXCEPT !.cool = k]
           a == [turret |-> t, does |-> what, at |-> at, left |-> Cooldown]
           acts == Revalidated(Append(c.acts, a))
           d == [e EXCEPT !.acts = acts]
<1>1. c.acts \in Seq(ActType) /\ c.cool \in [Turret -> 0..Cooldown]
  BY ShipFields
<1>2. a \in ActType /\ a.turret = t /\ a.left = Cooldown
  BY Constants DEF ActType
<1>3. Cooldown \in 0..Cooldown
  BY Constants
<1>4. k \in [Turret -> 0..Cooldown] /\ k[t] = Cooldown /\ \A u \in Turret \ {t} : k[u] = c.cool[u]
  BY <1>1, <1>3
<1>5. UsedUp(c, t) = e
  BY DEF UsedUp
<1> HIDE DEF k
<1>6. e \in AnyShipType /\ e.acts = c.acts
  BY <1>4 DEF AnyShipType, ShipOf
<1>7. /\ e.hp = c.hp /\ e.dealer = c.dealer /\ e.pirate = c.pirate /\ e.tractor = c.tractor
      /\ e.docked = c.docked /\ e.clean = c.clean /\ e.cool = k
  BY DEF AnyShipType, ShipOf
<1>8. Started(c, t, what, at) = d
  BY <1>5, <1>6 DEF Started
<1>9. \A i \in DOMAIN c.acts : /\ c.acts[i] \in ActType /\ c.acts[i].turret \in Turret
                                /\ c.acts[i].left \in Int /\ c.acts[i].left > 0
  <2>1. \A i \in DOMAIN c.acts : c.acts[i] \in ActType
    BY <1>1
  <2>2. \A b \in ActType : b.turret \in Turret /\ b.left \in Int /\ b.left > 0
    BY Constants DEF ActType
  <2> QED BY <2>1, <2>2
<1>10. \A i \in DOMAIN c.acts : c.acts[i].turret # t
  BY <1>1, <1>9, Constants DEF InStep, AtRest
<1> HIDE DEF a, e
<1>11. /\ acts \in Seq(ActType) /\ OneAct(acts)
       /\ \A n \in DOMAIN acts : acts[n] = a \/ \E i \in DOMAIN c.acts : acts[n] = c.acts[i]
       /\ \E n \in DOMAIN acts : acts[n] = a
       /\ \A i \in DOMAIN c.acts : \E n \in DOMAIN acts : acts[n] = c.acts[i]
  BY <1>1, <1>2, <1>10, StartedActs DEF InStep
<1> HIDE DEF acts
<1>12. d \in AnyShipType
  BY <1>6, <1>11 DEF AnyShipType, ShipOf
<1>13. /\ d.hp = e.hp /\ d.dealer = e.dealer /\ d.pirate = e.pirate /\ d.tractor = e.tractor
       /\ d.docked = e.docked /\ d.clean = e.clean /\ d.cool = e.cool /\ d.acts = acts
  BY <1>6 DEF AnyShipType, ShipOf
<1> HIDE DEF d
<1>14. InStep(d, 0)
  <2>1. \A n \in DOMAIN acts : acts[n].left = k[acts[n].turret] + 0
    <3> SUFFICES ASSUME NEW n \in DOMAIN acts
                 PROVE  acts[n].left = k[acts[n].turret] + 0
      OBVIOUS
    <3>1. CASE acts[n] = a
      BY <1>2, <1>4, <3>1, Constants
    <3>2. ASSUME NEW i \in DOMAIN c.acts, acts[n] = c.acts[i]
          PROVE  acts[n].left = k[acts[n].turret] + 0
      BY <1>4, <1>9, <1>10, <3>2 DEF InStep
    <3> QED BY <1>11, <3>1, <3>2
  <2>2. \A u \in Turret : k[u] > 0 => \E n \in DOMAIN acts : acts[n].turret = u
    BY <1>2, <1>4, <1>11 DEF InStep
  <2> QED BY <1>7, <1>11, <1>13, <2>1, <2>2 DEF InStep
<1> QED BY <1>7, <1>8, <1>12, <1>13, <1>14

\* Cooling down puts the cooldown a tick ahead, and the end of the acts catches up.
LEMMA CooledInStep ==
    ASSUME NEW c \in AnyShipType, NEW d \in AnyShipType, InStep(c, 0), d.acts = c.acts,
           \A t \in Turret : d.cool[t] = IF c.cool[t] > 0 THEN c.cool[t] - 1 ELSE 0
    PROVE  InStep(d, 1)
<1>1. /\ c.acts \in Seq(ActType) /\ c.cool \in [Turret -> 0..Cooldown]
      /\ \A i \in DOMAIN c.acts : c.acts[i] \in ActType
  BY ShipFields
<1>2. \A i \in DOMAIN c.acts : c.acts[i].left \in 1..Cooldown /\ c.acts[i].turret \in Turret
  BY <1>1 DEF ActType
<1>3. \A t \in Turret : c.cool[t] \in Int
  BY <1>1, Constants
<1>4. \A i \in DOMAIN d.acts : d.acts[i].left = d.cool[d.acts[i].turret] + 1
  BY <1>2, <1>3, Constants DEF InStep
<1>5. \A t \in Turret : d.cool[t] > 0 => \E i \in DOMAIN d.acts : d.acts[i].turret = t
  BY <1>3 DEF InStep
<1> QED BY <1>4, <1>5 DEF InStep

LEMMA KeptInStep ==
    ASSUME NEW c \in AnyShipType, NEW d \in AnyShipType, InStep(c, 1),
           d.acts = Kept(c.acts), d.cool = c.cool
    PROVE  InStep(d, 0)
<1>1. /\ c.acts \in Seq(ActType) /\ c.cool \in [Turret -> 0..Cooldown]
      /\ \A i \in DOMAIN c.acts : c.acts[i] \in ActType
  BY ShipFields
<1>2. \A i \in DOMAIN c.acts : c.acts[i].left \in 1..Cooldown /\ c.acts[i].turret \in Turret
  BY <1>1 DEF ActType
<1>3. \A t \in Turret : c.cool[t] \in Int
  BY <1>1, Constants
<1>4. /\ OneAct(d.acts)
      /\ \A n \in DOMAIN d.acts : \E i \in DOMAIN c.acts :
            /\ d.acts[n].turret = c.acts[i].turret
            /\ d.acts[n].left = c.acts[i].left - 1
      /\ \A i \in DOMAIN c.acts : c.acts[i].left > 1 =>
            \E n \in DOMAIN d.acts : d.acts[n].turret = c.acts[i].turret
  BY <1>1, KeptActs DEF InStep
<1>5. \A n \in DOMAIN d.acts : d.acts[n].left = d.cool[d.acts[n].turret] + 0
  BY <1>2, <1>3, <1>4, Constants DEF InStep
<1>6. \A t \in Turret : d.cool[t] > 0 => \E n \in DOMAIN d.acts : d.acts[n].turret = t
  BY <1>2, <1>3, <1>4 DEF InStep
<1> QED BY <1>4, <1>5, <1>6 DEF InStep

LEMMA NewInStep ==
    ASSUME NEW c, c.acts = <<>>, c.cool = NewTurrets, NEW n
    PROVE  InStep(c, n)
<1>1. DOMAIN c.acts = {}
  OBVIOUS
<1>2. \A t \in Turret : ~(c.cool[t] > 0)
  BY DEF NewTurrets
<1> QED BY <1>1, <1>2 DEF InStep, OneAct

-----------------------------------------------------------------------------
(* The steps.                                                              *)

LEMMA There ==
    ASSUME Shape
    PROVE  /\ \A s \in Present : s \in ShipId /\ ship[s] # None /\ ship[s] \in AnyShipType
           /\ \A s \in ShipId : s \notin Present => ship[s] = None
           /\ \A p \in Player : own[p] \in ShipId \cup {None}
           /\ Present \subseteq ShipId /\ Owned \subseteq ShipId
           /\ \A p \in Player : own[p] # None => own[p] \in Owned
           /\ \A s \in Owned : \E p \in Player : own[p] = s
  BY Constants DEF Shape, Present, Owned, Range

LEMMA Spawning ==
    ASSUME NEW w \in [ShipId -> AnyShipType \cup {None}], NEW ids, NEW pirate \in BOOLEAN
    PROVE  /\ Spawned(w, ids, pirate) \in [ShipId -> AnyShipType \cup {None}]
           /\ \A s \in ShipId \ ids : Spawned(w, ids, pirate)[s] = w[s]
           /\ \A s \in ShipId : s \in ids =>
                 /\ Spawned(w, ids, pirate)[s] # None
                 /\ Spawned(w, ids, pirate)[s].pirate = pirate
                 /\ ~Spawned(w, ids, pirate)[s].clean
                 /\ InStep(Spawned(w, ids, pirate)[s], 0)
<1> DEFINE c == NewShip(pirate)
           x == Spawned(w, ids, pirate)
<1>1. c \in AnyShipType /\ c.pirate = pirate /\ ~c.clean /\ c.acts = <<>> /\ c.cool = NewTurrets
  BY NewShips
<1>2. c # None
  BY <1>1, Constants
<1>3. x = [s \in ShipId |-> IF s \in ids THEN c ELSE w[s]]
  BY DEF Spawned
<1> HIDE DEF c, x
<1>4. InStep(c, 0)
  BY <1>1, NewInStep
<1> QED BY <1>1, <1>2, <1>3, <1>4 DEF x

LEMMA Ordered ==
    ASSUME IInv, NEW p \in Player, NEW c \in AnyShipType, Commands(p), Order(p, c),
           c.hp = ship[own[p]].hp, c.pirate = ship[own[p]].pirate,
           c.docked = ship[own[p]].docked, c.clean = ship[own[p]].clean, InStep(c, 0)
    PROVE  IInv'
<1>1. /\ phase = "orders" /\ own[p] \in Present /\ ship' = [ship EXCEPT ![own[p]] = c]
      /\ UNCHANGED <<phase, own, blasts, floats, events, bombed, told, caught>>
  BY DEF Commands, Order, history
<1>2. c # None
  BY Constants
<1>3. /\ ship \in [ShipId -> AnyShipType \cup {None}] /\ own[p] \in ShipId
      /\ \A s \in Present : ship[s] # None
  BY <1>1, There DEF IInv, Shape
<1>4. /\ ship' \in [ShipId -> AnyShipType \cup {None}]
      /\ \A s \in ShipId : ship'[s] = IF s = own[p] THEN c ELSE ship[s]
  BY <1>1, <1>3
<1>5. Present' = Present
  BY <1>1, <1>2, <1>3, <1>4 DEF Present
<1>6. \A s \in Present : /\ ship'[s].pirate = ship[s].pirate /\ ship'[s].docked = ship[s].docked
                         /\ ship'[s].clean = ship[s].clean
  BY <1>4 DEF Present
<1>7. Shape'
  BY <1>1, <1>4 DEF IInv, Shape
<1>8. Owners'
  BY <1>1, <1>5, <1>6 DEF IInv, Owners
<1>9. Tellings'
  BY <1>1, <1>5, <1>6 DEF IInv, Tellings
<1>10. Alive' /\ GoodsOnce'
  BY <1>1 DEF Alive, GoodsOnce
<1>11. Turrets'
  <2>1. Ahead = 0 /\ Ahead' = 0
    BY <1>1 DEF Ahead
  <2>2. \A s \in Present : InStep(ship[s], 0)
    BY <2>1 DEF IInv, Turrets
  <2>3. \A s \in Present : InStep(ship'[s], 0)
    BY <1>4, <2>2 DEF Present
  <2>4. \A s \in Present : InStep(ship[s], Ahead)'
    BY <2>1, <2>3
  <2> QED BY <1>5, <2>4 DEF Turrets
<1> QED BY <1>7, <1>8, <1>9, <1>10, <1>11 DEF IInv

LEMMA Ordering ==
    ASSUME IInv, NEW p \in Player,
           \/ \E t \in Turret, at \in ShipId \cup Mineral : Shoot(p, t, at)
           \/ Launch(p)
           \/ \E m \in Mineral \cup {None} : Tractor(p, m)
    PROVE  IInv'
<1> DEFINE c == ship[own[p]]
<1>1. Commands(p)
  BY DEF Shoot, Launch, Tractor
<1>2. c \in AnyShipType
  BY <1>1, There DEF IInv, Commands
<1>3. InStep(c, 0)
  BY <1>1 DEF IInv, Turrets, Ahead, Commands
<1>4. ASSUME NEW t \in Turret, NEW at \in ShipId \cup Mineral, Shoot(p, t, at)
      PROVE  IInv'
  <2> DEFINE d == Started(c, t, "shoot", at)
  <2>1. AtRest(c, t) /\ Order(p, d)
    BY <1>4 DEF Shoot
  <2> HIDE DEF c
  <2>2. /\ d \in AnyShipType /\ InStep(d, 0) /\ d.hp = c.hp /\ d.pirate = c.pirate
        /\ d.docked = c.docked /\ d.clean = c.clean
    BY <1>2, <1>3, <2>1, StartedShips
  <2> HIDE DEF d
  <2> QED BY <1>1, <2>1, <2>2, Ordered DEF c
<1>5. ASSUME Launch(p)
      PROVE  IInv'
  <2> DEFINE d == Started(c, Rack, "launch", None)
  <2>1. AtRest(c, Rack) /\ Order(p, d)
    BY <1>5 DEF Launch
  <2>2. Rack \in Turret
    BY BattleAssumption
  <2> HIDE DEF c
  <2>3. /\ d \in AnyShipType /\ InStep(d, 0) /\ d.hp = c.hp /\ d.pirate = c.pirate
        /\ d.docked = c.docked /\ d.clean = c.clean
    BY <1>2, <1>3, <2>1, <2>2, StartedShips
  <2> HIDE DEF d
  <2> QED BY <1>1, <2>1, <2>3, Ordered DEF c
<1>6. ASSUME NEW m \in Mineral \cup {None}, Tractor(p, m)
      PROVE  IInv'
  <2> DEFINE d == [c EXCEPT !.tractor = m]
  <2>1. Order(p, d)
    BY <1>6 DEF Tractor
  <2> HIDE DEF c
  <2>2. d \in AnyShipType
    BY <1>2 DEF AnyShipType, ShipOf
  <2>3. /\ d.hp = c.hp /\ d.pirate = c.pirate /\ d.docked = c.docked /\ d.clean = c.clean
        /\ d.acts = c.acts /\ d.cool = c.cool
    BY <1>2 DEF AnyShipType, ShipOf
  <2>4. InStep(d, 0)
    BY <1>3, <2>3 DEF InStep
  <2> HIDE DEF d
  <2> QED BY <1>1, <2>1, <2>2, <2>3, <2>4, Ordered DEF c
<1> QED BY <1>4, <1>5, <1>6

LEMMA Pausing ==
    ASSUME IInv, Pause
    PROVE  IInv'
<1>1. /\ phase = "orders" /\ phase' = "events"
      /\ UNCHANGED <<own, ship, blasts, floats, events, bombed, told, caught>>
  BY DEF Pause, space, history
<1>2. Present' = Present
  BY <1>1 DEF Present
<1>3. Shape'
  BY <1>1 DEF IInv, Shape
<1>4. Owners' /\ Tellings'
  BY <1>1, <1>2 DEF IInv, Owners, Tellings
<1>5. Alive' /\ GoodsOnce'
  BY <1>1 DEF Alive, GoodsOnce
<1>6. Turrets'
  BY <1>1, <1>2 DEF IInv, Turrets, Ahead
<1> QED BY <1>3, <1>4, <1>5, <1>6 DEF IInv

LEMMA FreeIds ==
    /\ Free \subseteq ShipId
    /\ \A s \in Free : s \notin Present /\ s \notin Owned /\ \A e \in events : e.ship # s
  BY DEF Free

LEMMA HandlingEvents ==
    ASSUME IInv, HandleEvents
    PROVE  IInv'
<1>1. /\ phase = "events" /\ phase' = "orders" /\ events' = {}
      /\ UNCHANGED <<own, blasts, floats, bombed>>
  BY DEF HandleEvents
<1>2. PICK new \in SUBSET Free : ship' = Spawned(Marked(ship), new, TRUE) /\ told' = Forgotten(new)
  BY DEF HandleEvents
<1> DEFINE w == Marked(ship)
<1>3. /\ w \in [ShipId -> AnyShipType \cup {None}]
      /\ \A s \in ShipId : w[s] # None <=> ship[s] # None
      /\ \A s \in Present : /\ w[s].pirate = ship[s].pirate /\ w[s].docked = ship[s].docked
                            /\ w[s].acts = ship[s].acts /\ w[s].cool = ship[s].cool
                            /\ s \notin Landed => w[s].clean = ship[s].clean
  <2>1. \A s \in ShipId : w[s] = IF s \in Landed /\ ship[s] # None
                                 THEN [ship[s] EXCEPT !.clean = TRUE] ELSE ship[s]
    BY DEF Marked
  <2>2. \A s \in Present : LET d == [ship[s] EXCEPT !.clean = TRUE]
                           IN  /\ d \in AnyShipType /\ d.pirate = ship[s].pirate
                               /\ d.docked = ship[s].docked
                               /\ d.acts = ship[s].acts /\ d.cool = ship[s].cool
    BY There, CleanedShips DEF IInv
  <2>3. ASSUME NEW s \in ShipId
        PROVE  /\ w[s] \in AnyShipType \cup {None}
               /\ w[s] # None <=> ship[s] # None
    <3>1. CASE s \in Present
      <4> DEFINE d == [ship[s] EXCEPT !.clean = TRUE]
      <4>1. d \in AnyShipType /\ ship[s] \in AnyShipType /\ ship[s] # None
        BY <2>2, <3>1, There DEF IInv
      <4>2. w[s] = d \/ w[s] = ship[s]
        BY <2>1
      <4> HIDE DEF d
      <4> QED BY <4>1, <4>2, Constants
    <3>2. CASE s \notin Present
      BY <2>1, <3>2, There DEF IInv
    <3> QED BY <3>1, <3>2
  <2>4. ASSUME NEW s \in Present
        PROVE  /\ w[s].pirate = ship[s].pirate /\ w[s].docked = ship[s].docked
               /\ w[s].acts = ship[s].acts /\ w[s].cool = ship[s].cool
               /\ s \notin Landed => w[s].clean = ship[s].clean
    BY <2>1, <2>2, <2>4, There DEF IInv
  <2>5. w = [s \in ShipId |-> w[s]]
    BY DEF Marked
  <2> HIDE DEF w
  <2> QED BY <2>3, <2>4, <2>5
<1>4. ship' = Spawned(w, new, TRUE)
  BY <1>2
<1> HIDE DEF w
<1>5. /\ ship' \in [ShipId -> AnyShipType \cup {None}]
      /\ \A s \in ShipId \ new : ship'[s] = w[s]
      /\ \A s \in ShipId : s \in new =>
            /\ ship'[s] # None /\ ship'[s].pirate /\ ~ship'[s].clean /\ InStep(ship'[s], 0)
  <2>1. TRUE \in BOOLEAN /\ w \in [ShipId -> AnyShipType \cup {None}]
    BY <1>3
  <2>2. /\ Spawned(w, new, TRUE) \in [ShipId -> AnyShipType \cup {None}]
        /\ \A s \in ShipId \ new : Spawned(w, new, TRUE)[s] = w[s]
        /\ \A s \in ShipId : s \in new =>
              /\ Spawned(w, new, TRUE)[s] # None
              /\ Spawned(w, new, TRUE)[s].pirate = TRUE
              /\ ~Spawned(w, new, TRUE)[s].clean
              /\ InStep(Spawned(w, new, TRUE)[s], 0)
    BY <2>1, Spawning
  <2> QED BY <2>2, <1>4
<1>6. /\ new \subseteq ShipId
      /\ \A s \in new : s \notin Present /\ s \notin Owned /\ \A e \in events : e.ship # s
  BY FreeIds
<1>7. /\ Present \subseteq ShipId /\ Present' \subseteq ShipId
      /\ \A s \in Present : s \in Present' /\ s \notin new
      /\ \A s \in Present' : s \in Present \/ s \in new
  BY <1>3, <1>5, <1>6 DEF Present
<1>8. Shape'
  BY <1>1, <1>2, <1>5 DEF IInv, Shape, Forgotten
<1>9. Owners'
  <2>1. \A p, q \in Player : own'[p] # None /\ own'[p] = own'[q] => p = q
    BY <1>1 DEF IInv, Owners
  <2>2. ASSUME NEW p \in Player, own'[p] # None, p \notin bombed'
        PROVE  own'[p] \in Present' /\ ~ship'[own'[p]].pirate /\ ~ship'[own'[p]].clean
    <3>1. own[p] \in Present /\ ~ship[own[p]].pirate /\ ~ship[own[p]].clean
      BY <1>1, <2>2 DEF IInv, Owners
    <3>2. own[p] \notin Landed
      BY <3>1 DEF Landed, IInv, Owners
    <3> QED BY <1>1, <1>3, <1>5, <1>7, <3>1, <3>2
  <2> QED BY <1>1, <2>1, <2>2 DEF Owners
<1>10. Tellings'
  <2> SUFFICES ASSUME NEW t \in told', t.ship \in Present'
               PROVE  /\ t.kind = "docked" => ship'[t.ship].docked
                      /\ t.kind = "died" => FALSE
    BY DEF Tellings
  <2>1. t \in told /\ t.ship \in Present
    BY <1>2, <1>7 DEF Forgotten
  <2> QED BY <1>1, <1>3, <1>5, <1>7, <2>1 DEF IInv, Tellings
<1>11. Alive' /\ GoodsOnce'
  BY <1>1 DEF Alive, GoodsOnce
<1>12. Turrets'
  <2>1. Ahead = 0 /\ Ahead' = 0
    BY <1>1 DEF Ahead
  <2>2. ASSUME NEW s \in Present'
        PROVE  InStep(ship'[s], 0)
    <3>1. CASE s \in new
      BY <1>5, <1>7, <3>1
    <3>2. CASE s \in Present
      <4>1. InStep(ship[s], 0)
        BY <2>1, <3>2 DEF IInv, Turrets
      <4>2. ship'[s] = w[s] /\ w[s].acts = ship[s].acts /\ w[s].cool = ship[s].cool
        BY <1>3, <1>5, <1>7, <3>2
      <4> QED BY <4>1, <4>2 DEF InStep
    <3> QED BY <1>7, <3>1, <3>2
  <2> QED BY <2>1, <2>2 DEF Turrets
<1> QED BY <1>8, <1>9, <1>10, <1>11, <1>12 DEF IInv

LEMMA Ruling ==
    ASSUME IInv, Rules
    PROVE  IInv'
<1>1. /\ phase = "orders" /\ phase' \in {"events", "fly"}
      /\ UNCHANGED <<blasts, floats, events, bombed, caught>>
  BY DEF Rules
<1>. PICK back \in SUBSET {p \in Player : own[p] = None} :
         \E ids \in Injections(back, Free) :
           /\ ship' = Spawned(ship, Range(ids), FALSE)
           /\ own' = [p \in Player |-> IF p \in back THEN ids[p] ELSE own[p]]
           /\ told' = Forgotten(Range(ids))
  BY DEF Rules
<1>2. PICK ids \in Injections(back, Free) :
         /\ ship' = Spawned(ship, Range(ids), FALSE)
         /\ own' = [p \in Player |-> IF p \in back THEN ids[p] ELSE own[p]]
         /\ told' = Forgotten(Range(ids))
  OBVIOUS
<1> DEFINE new == Range(ids)
<1>3. /\ \A p \in back : ids[p] \in Free /\ ids[p] \in new
      /\ \A p, q \in back : ids[p] = ids[q] => p = q
      /\ new \subseteq Free
  BY <1>2 DEF Injections, IsInjective, Range
<1>4. ship' = Spawned(ship, new, FALSE) /\ told' = Forgotten(new)
  BY <1>2
<1> HIDE DEF new
<1>5. /\ ship' \in [ShipId -> AnyShipType \cup {None}]
      /\ \A s \in ShipId \ new : ship'[s] = ship[s]
      /\ \A s \in ShipId : s \in new =>
            /\ ship'[s] # None /\ ~ship'[s].pirate /\ ~ship'[s].clean /\ InStep(ship'[s], 0)
  <2>1. FALSE \in BOOLEAN /\ ship \in [ShipId -> AnyShipType \cup {None}]
    BY DEF IInv, Shape
  <2>2. /\ Spawned(ship, new, FALSE) \in [ShipId -> AnyShipType \cup {None}]
        /\ \A s \in ShipId \ new : Spawned(ship, new, FALSE)[s] = ship[s]
        /\ \A s \in ShipId : s \in new =>
              /\ Spawned(ship, new, FALSE)[s] # None
              /\ Spawned(ship, new, FALSE)[s].pirate = FALSE
              /\ ~Spawned(ship, new, FALSE)[s].clean
              /\ InStep(Spawned(ship, new, FALSE)[s], 0)
    BY <2>1, Spawning
  <2> QED BY <2>2, <1>4
<1>6. /\ new \subseteq ShipId
      /\ \A s \in new : s \notin Present /\ s \notin Owned /\ \A e \in events : e.ship # s
  BY <1>3, FreeIds
<1>7. /\ Present \subseteq ShipId /\ Present' \subseteq ShipId
      /\ \A s \in Present : s \in Present' /\ s \notin new
      /\ \A s \in Present' : s \in Present \/ s \in new
      /\ \A s \in new : s \in Present'
  BY <1>5, <1>6 DEF Present
<1>8. /\ own' \in [Player -> ShipId \cup {None}]
      /\ \A p \in Player : IF p \in back THEN own[p] = None /\ own'[p] \in new /\ own'[p] = ids[p]
                                         ELSE own'[p] = own[p] /\ own[p] \notin new
  <2>1. \A p \in Player : IF p \in back THEN own[p] = None /\ own'[p] \in new /\ own'[p] = ids[p]
                                        ELSE own'[p] = own[p]
    BY <1>2, <1>3
  <2>2. \A p \in Player : own[p] \notin new
    BY <1>6, There, Constants DEF IInv
  <2>3. \A p \in Player : own'[p] \in ShipId \cup {None}
    BY <1>6, <2>1, There DEF IInv
  <2>4. own' = [p \in Player |-> own'[p]]
    BY <1>2
  <2> QED BY <2>1, <2>2, <2>3, <2>4
<1>9. Shape'
  BY <1>1, <1>4, <1>5, <1>8 DEF IInv, Shape, Forgotten
<1>10. Owners'
  <2>1. ASSUME NEW p \in Player, NEW q \in Player, own'[p] # None, own'[p] = own'[q]
        PROVE  p = q
    BY <1>3, <1>8, <2>1 DEF IInv, Owners
  <2>2. ASSUME NEW p \in Player, own'[p] # None, p \notin bombed'
        PROVE  own'[p] \in Present' /\ ~ship'[own'[p]].pirate /\ ~ship'[own'[p]].clean
    <3>1. CASE p \in back
      BY <1>5, <1>6, <1>7, <1>8, <3>1
    <3>2. CASE p \notin back
      <4>1. own'[p] = own[p] /\ own[p] \notin new
        BY <1>8, <3>2
      <4>2. own[p] \in Present /\ ~ship[own[p]].pirate /\ ~ship[own[p]].clean
        BY <1>1, <2>2, <4>1 DEF IInv, Owners
      <4> QED BY <1>5, <1>7, <4>1, <4>2
    <3> QED BY <3>1, <3>2
  <2>3. \A e \in events' : e.kind = "docked" /\ e.ship \in Present' => ship'[e.ship].pirate
    BY <1>1, <1>5, <1>6, <1>7 DEF IInv, Owners
  <2> QED BY <2>1, <2>2, <2>3 DEF Owners
<1>11. Tellings'
  <2> SUFFICES ASSUME NEW t \in told', t.ship \in Present'
               PROVE  /\ t.kind = "docked" => ship'[t.ship].docked
                      /\ t.kind = "died" => FALSE
    BY DEF Tellings
  <2>1. t \in told /\ t.ship \in Present
    BY <1>4, <1>7 DEF Forgotten
  <2> QED BY <1>1, <1>5, <1>7, <2>1 DEF IInv, Tellings
<1>12. Alive' /\ GoodsOnce'
  BY <1>1 DEF Alive, GoodsOnce
<1>13. Turrets'
  <2>1. Ahead = 0 /\ Ahead' = 0
    BY <1>1 DEF Ahead
  <2>2. \A s \in Present' : InStep(ship'[s], 0)
    BY <1>5, <1>7, <2>1 DEF IInv, Turrets
  <2> QED BY <2>1, <2>2 DEF Turrets
<1> QED BY <1>9, <1>10, <1>11, <1>12, <1>13 DEF IInv

\* A new game: Init, and the restart after the pause.
NewGame ==
    /\ phase = "events" /\ own \in Injections(Player, ShipId)
    /\ ship = Spawned([s \in ShipId |-> None], Range(own), FALSE)
    /\ blasts = {} /\ floats = {} /\ events = {} /\ told = {} /\ bombed = {}

LEMMA Beginning == NewGame => IInv
<1> SUFFICES ASSUME NewGame
             PROVE  IInv
  OBVIOUS
<1> DEFINE w == [s \in ShipId |-> None]
           new == Range(own)
<1>1. w \in [ShipId -> AnyShipType \cup {None}] /\ \A s \in ShipId : w[s] = None
  OBVIOUS
<1>2. ship = Spawned(w, new, FALSE)
  BY DEF NewGame
<1> HIDE DEF w, new
<1>3. /\ ship \in [ShipId -> AnyShipType \cup {None}]
      /\ \A s \in ShipId \ new : ship[s] = None
      /\ \A s \in ShipId : s \in new =>
            /\ ship[s] # None /\ ~ship[s].pirate /\ ~ship[s].clean /\ InStep(ship[s], 0)
  <2>1. FALSE \in BOOLEAN /\ w \in [ShipId -> AnyShipType \cup {None}]
    BY <1>1
  <2>2. /\ Spawned(w, new, FALSE) \in [ShipId -> AnyShipType \cup {None}]
        /\ \A s \in ShipId \ new : Spawned(w, new, FALSE)[s] = w[s]
        /\ \A s \in ShipId : s \in new =>
              /\ Spawned(w, new, FALSE)[s] # None
              /\ Spawned(w, new, FALSE)[s].pirate = FALSE
              /\ ~Spawned(w, new, FALSE)[s].clean
              /\ InStep(Spawned(w, new, FALSE)[s], 0)
    BY <2>1, Spawning
  <2> QED BY <1>1, <1>2, <2>2
<1>4. /\ own \in [Player -> ShipId \cup {None}]
      /\ \A p \in Player : own[p] \in ShipId /\ own[p] \in new
      /\ \A p, q \in Player : own[p] = own[q] => p = q
  BY DEF Injections, IsInjective, Range, NewGame, new
<1>5. \A s \in Present : s \in ShipId /\ s \in new
  BY <1>3 DEF Present
<1>6. \A p \in Player : own[p] \in Present
  BY <1>3, <1>4 DEF Present
<1>7. Shape
  BY <1>3, <1>4 DEF Shape, NewGame
<1>8. Owners
  BY <1>3, <1>4, <1>6 DEF Owners, NewGame
<1>9. Tellings /\ Alive /\ GoodsOnce
  BY DEF Tellings, Alive, GoodsOnce, NewGame
<1>10. Turrets
  BY <1>3, <1>5 DEF Turrets, Ahead, NewGame
<1> QED BY <1>7, <1>8, <1>9, <1>10 DEF IInv

LEMMA Initially == Init => IInv
<1>1. ASSUME own \in Injections(Player, ShipId)
      PROVE  Owned = Range(own)
  BY <1>1, Constants DEF Owned, Injections, Range
<1>2. Init => NewGame
  BY <1>1 DEF Init, NewGame
<1> QED BY <1>2, Beginning

LEMMA Restarting == Restart => IInv'
<1>1. Restart => NewGame'
  BY DEF Restart, NewGame
<1>2. NewGame' => IInv'
  BY Beginning, PTL
<1> QED BY <1>1, <1>2

LEMMA Flights ==
    ASSUME IInv, Fly
    PROVE  IInv'
<1>1. /\ phase = "fly" /\ phase' = "hp"
      /\ UNCHANGED <<own, blasts, events, bombed, told>>
  BY DEF Fly
<1>. PICK far \in SUBSET {s \in Present : ship[s].tractor \in floats} :
       \E got \in SUBSET {s \in Present : Pulls(s, far)} :
         /\ ship' = [s \in ShipId |-> IF s \notin Present THEN None
                       ELSE [Cooled(ship[s]) EXCEPT !.tractor = IF Pulls(s, far) THEN @ ELSE None]]
         /\ floats' = FloatsAfter(got)
         /\ caught' = Given(got)
  BY DEF Fly
<1>2. PICK got \in SUBSET {s \in Present : Pulls(s, far)} :
         /\ ship' = [s \in ShipId |-> IF s \notin Present THEN None
                       ELSE [Cooled(ship[s]) EXCEPT !.tractor = IF Pulls(s, far) THEN @ ELSE None]]
         /\ floats' = FloatsAfter(got)
         /\ caught' = Given(got)
  OBVIOUS
<1>3. ASSUME NEW s \in Present
      PROVE  /\ ship'[s] \in AnyShipType /\ InStep(ship'[s], 1)
             /\ ship'[s].pirate = ship[s].pirate /\ ship'[s].docked = ship[s].docked
             /\ ship'[s].clean = ship[s].clean
             /\ Pulls(s, far) => ship'[s].tractor = ship[s].tractor
  <2> DEFINE c == ship[s]
             m == IF Pulls(s, far) THEN c.tractor ELSE None
             d == [Cooled(c) EXCEPT !.tractor = m]
  <2>1. c \in AnyShipType /\ s \in ShipId
    BY <1>3, There DEF IInv
  <2>2. m \in Mineral \cup {None}
    BY <2>1, ShipFields
  <2>3. Cooled(c).tractor = c.tractor
    BY <2>1 DEF Cooled, AnyShipType, ShipOf
  <2>4. ship'[s] = d
    BY <1>2, <1>3, <2>1, <2>3
  <2>5. InStep(c, 0)
    BY <1>1, <1>3 DEF IInv, Turrets, Ahead
  <2>6. Pulls(s, far) => m = c.tractor
    OBVIOUS
  <2> HIDE DEF c, m
  <2>7. /\ d \in AnyShipType /\ d.tractor = m /\ d.pirate = c.pirate
        /\ d.docked = c.docked /\ d.clean = c.clean /\ d.acts = c.acts
        /\ \A t \in Turret : d.cool[t] = IF c.cool[t] > 0 THEN c.cool[t] - 1 ELSE 0
    BY <2>1, <2>2, CooledShips
  <2> HIDE DEF d
  <2>8. InStep(d, 1)
    BY <2>1, <2>5, <2>7, CooledInStep
  <2> QED BY <2>4, <2>6, <2>7, <2>8 DEF c
<1>4. /\ ship' = [s \in ShipId |-> ship'[s]]
      /\ \A s \in ShipId : s \notin Present => ship'[s] = None
  BY <1>2
<1>5. ship' \in [ShipId -> AnyShipType \cup {None}]
  BY <1>3, <1>4
<1>6. Present' = Present /\ Present \subseteq ShipId
  BY <1>3, <1>4, Constants DEF Present
<1>7. Shape'
  BY <1>1, <1>2, <1>5 DEF IInv, Shape, FloatsAfter
<1>8. Owners'
  BY <1>1, <1>3, <1>6 DEF IInv, Owners
<1>9. Tellings'
  BY <1>1, <1>3, <1>6 DEF IInv, Tellings
<1>10. Alive'
  BY <1>1 DEF Alive
<1>11. Turrets'
  BY <1>1, <1>3, <1>6 DEF Turrets, Ahead
<1>12. GoodsOnce'
  <2> SUFFICES ASSUME NEW c \in caught'
               PROVE  /\ c[2] \notin floats'
                      /\ own'[c[1]] # None /\ ship'[own'[c[1]]].tractor = c[2]
    BY DEF GoodsOnce
  <2>1. PICK p \in {q \in Player : own[q] \in got} : c = <<p, ship[own[p]].tractor>>
    BY <1>2 DEF Given
  <2>2. own[p] \in got /\ own[p] \in Present /\ Pulls(own[p], far) /\ own[p] # None
    BY <2>1, There, Constants DEF IInv, Pulls
  <2>3. c[1] = p /\ c[2] = ship[own[p]].tractor
    BY <2>1
  <2>4. c[2] \notin floats'
    BY <1>2, <2>2, <2>3 DEF FloatsAfter
  <2> QED BY <1>1, <1>3, <2>2, <2>3, <2>4
<1> QED BY <1>7, <1>8, <1>9, <1>10, <1>11, <1>12 DEF IInv

LEMMA Explosions ==
    ASSUME IInv, NEW b \in blasts, Explode(b)
    PROVE  IInv'
<1>1. /\ phase = "blasts" /\ phase' = "blasts"
      /\ UNCHANGED <<own, floats, events, bombed, told, caught>>
  BY DEF Explode, history
<1>2. PICK now \in SUBSET (Hittable \ (b.hit \cup ({b.of} \cap RocketId))) :
         /\ ship' = [s \in ShipId |-> IF s \in Present \cap now THEN Hurt(ship[s], b.power)
                                      ELSE ship[s]]
         /\ blasts' = (blasts \ {b}) \cup
                      IF b.left = 1 THEN {}
                      ELSE {[b EXCEPT !.left = @ - 1, !.hit = @ \cup now, !.done = TRUE]}
  BY DEF Explode
<1>3. /\ b \in BlastType /\ b.power \in Nat /\ b.left \in 1..BlastTime
      /\ b.hit \in SUBSET (ShipId \cup RocketId \cup {Home})
  <2>1. b \in BlastType
    BY DEF IInv, Shape
  <2> QED BY <2>1, Constants DEF BlastType
<1>4. ASSUME NEW s \in Present
      PROVE  /\ ship'[s] \in AnyShipType /\ InStep(ship'[s], 0)
             /\ ship'[s].pirate = ship[s].pirate /\ ship'[s].docked = ship[s].docked
             /\ ship[s].clean => ship'[s].clean
  <2> DEFINE c == ship[s]
             d == Hurt(c, b.power)
  <2>1. c \in AnyShipType /\ s \in ShipId
    BY <1>4, There DEF IInv
  <2>2. InStep(c, 0)
    BY <1>1, <1>4 DEF IInv, Turrets, Ahead
  <2>3. ship'[s] = d \/ ship'[s] = c
    BY <1>2, <2>1
  <2> HIDE DEF c
  <2>4. /\ d \in AnyShipType /\ d.pirate = c.pirate /\ d.docked = c.docked
        /\ d.clean = (c.clean \/ c.hp <= b.power) /\ d.acts = c.acts /\ d.cool = c.cool
    BY <1>3, <2>1, HurtShips
  <2>5. InStep(d, 0)
    BY <2>2, <2>4 DEF InStep
  <2> HIDE DEF d
  <2> QED BY <2>1, <2>2, <2>3, <2>4, <2>5 DEF c
<1>5. /\ ship' = [s \in ShipId |-> ship'[s]]
      /\ \A s \in ShipId : s \notin Present => ship'[s] = None
  BY <1>2, There DEF IInv
<1>6. ship' \in [ShipId -> AnyShipType \cup {None}]
  BY <1>4, <1>5
<1>7. Present' = Present /\ Present \subseteq ShipId
  BY <1>4, <1>5, Constants DEF Present
<1>8. blasts' \subseteq BlastType
  <2> DEFINE n == b.left - 1
             h == b.hit \cup now
             x == [b EXCEPT !.left = n, !.hit = h, !.done = TRUE]
  <2>1. now \subseteq ShipId \cup RocketId \cup {Home}
    BY DEF Hittable, WithHealth, Present, Flying
  <2>2. h \in SUBSET (ShipId \cup RocketId \cup {Home})
    BY <1>3, <2>1
  <2>3. b.left # 1 => n \in 1..BlastTime
    BY <1>3, Constants
  <2> HIDE DEF n, h
  <2>4. b.left # 1 => x \in BlastType
    BY <1>3, <2>2, <2>3 DEF BlastType
  <2>5. blasts' \subseteq blasts \cup IF b.left = 1 THEN {} ELSE {x}
    BY <1>2 DEF n, h
  <2> QED BY <2>4, <2>5 DEF IInv, Shape
<1>9. Shape'
  BY <1>1, <1>6, <1>8 DEF IInv, Shape
<1>10. Owners'
  BY <1>1, <1>4, <1>7 DEF IInv, Owners
<1>11. Tellings'
  BY <1>1, <1>4, <1>7 DEF IInv, Tellings
<1>12. Alive' /\ GoodsOnce'
  BY <1>1 DEF Alive, GoodsOnce
<1>13. Turrets'
  BY <1>1, <1>4, <1>7 DEF Turrets, Ahead
<1> QED BY <1>9, <1>10, <1>11, <1>12, <1>13 DEF IInv

LEMMA CleaningUp ==
    ASSUME IInv, Cleanup
    PROVE  IInv'
<1>1. /\ phase = "blasts" /\ phase' = "events"
      /\ ship' = Cleaned(ship)
      /\ blasts' = {[b EXCEPT !.done = FALSE] : b \in blasts}
      /\ bombed' = bombed \cup {p \in Player : own[p] # None /\ ship'[own[p]] = None}
      /\ told' = Forgotten({s \in ShipId : ship'[s] = None})
      /\ UNCHANGED <<own, floats, events>>
  BY DEF Cleanup
<1>2. \A s \in ShipId : ship'[s] = IF ship[s] = None THEN None
                                   ELSE IF ship[s].clean THEN None ELSE ship[s]
  BY <1>1 DEF Cleaned, IInv, Shape
<1>3. ship' = [s \in ShipId |-> ship'[s]]
  BY <1>1 DEF Cleaned, IInv, Shape
<1>4. \A s \in ShipId : ship'[s] \in AnyShipType \cup {None}
  BY <1>2 DEF IInv, Shape
<1>5. \A s \in Present' : s \in Present /\ s \in ShipId /\ ship'[s] = ship[s] /\ ~ship[s].clean
  BY <1>2 DEF Present
<1>6. blasts' \subseteq BlastType
  <2>1. \A b \in BlastType : [b EXCEPT !.done = FALSE] \in BlastType
    BY DEF BlastType
  <2> QED BY <1>1, <2>1 DEF IInv, Shape
<1>7. Shape'
  BY <1>1, <1>3, <1>4, <1>6 DEF IInv, Shape, Forgotten
<1>8. Owners'
  <2>1. \A p, q \in Player : own'[p] # None /\ own'[p] = own'[q] => p = q
    BY <1>1 DEF IInv, Owners
  <2>2. ASSUME NEW p \in Player, own'[p] # None, p \notin bombed'
        PROVE  own'[p] \in Present' /\ ~ship'[own'[p]].pirate /\ ~ship'[own'[p]].clean
    <3>1. own[p] \in Present /\ ~ship[own[p]].pirate
      BY <1>1, <2>2 DEF IInv, Owners
    <3>2. ship'[own[p]] # None
      BY <1>1, <2>2
    <3>3. own[p] \in Present'
      BY <3>1, <3>2 DEF Present
    <3> QED BY <1>1, <1>5, <3>1, <3>3
  <2>3. \A e \in events' : e.kind = "docked" /\ e.ship \in Present' => ship'[e.ship].pirate
    BY <1>1, <1>5 DEF IInv, Owners
  <2> QED BY <2>1, <2>2, <2>3 DEF Owners
<1>9. Tellings'
  BY <1>1, <1>5 DEF IInv, Tellings, Forgotten
<1>10. Alive' /\ GoodsOnce'
  BY <1>1 DEF Alive, GoodsOnce
<1>11. Turrets'
  BY <1>1, <1>5 DEF IInv, Turrets, Ahead
<1> QED BY <1>7, <1>8, <1>9, <1>10, <1>11 DEF IInv

LEMMA NewBlasts ==
    ASSUME NEW of \in ShipId \cup RocketId, NEW power \in {WreckBlast, RocketBlast}
    PROVE  NewBlast(of, power) \in BlastType
<1>1. BlastTime \in 1..BlastTime
  BY Constants
<1> QED BY <1>1 DEF NewBlast, BlastType

LEMMA HealthLooked ==
    ASSUME IInv, HpEffects
    PROVE  IInv'
<1>1. /\ phase = "hp" /\ phase' = "acts" /\ MineralsGrow
      /\ UNCHANGED <<bombed, caught>>
  BY DEF HpEffects
<1>2. PICK burnt \in SUBSET Present :
        \E healed \in SUBSET {s \in Present \ burnt : ~ship[s].pirate /\ ship[s].hp < PlayerHp} :
          TakeHealth(HealthAfter(burnt, healed))
  BY DEF HpEffects
<1>3. PICK healed \in SUBSET {s \in Present \ burnt : ~ship[s].pirate /\ ship[s].hp < PlayerHp} :
        TakeHealth(HealthAfter(burnt, healed))
  BY <1>2
<1> DEFINE after == HealthAfter(burnt, healed)
           died == {s \in Present : after[s].hp <= 0}
<1>4. /\ \A s \in ShipId : ship'[s] = IF s \notin Present THEN None
                                      ELSE [after[s] EXCEPT !.clean = @ \/ s \in died]
      /\ ship' = [s \in ShipId |-> ship'[s]]
  <2>1. ship' = [s \in ShipId |-> IF s \notin Present THEN None
                                  ELSE [after[s] EXCEPT !.clean = @ \/ s \in died]]
    BY <1>3 DEF TakeHealth
  <2> HIDE DEF after, died
  <2> QED BY <2>1
<1>5. own' = Bereft(died)
  BY <1>3 DEF TakeHealth
<1>6. events' = events \cup {[kind |-> "died", ship |-> s, pirate |-> ship[s].pirate,
                              dealer |-> after[s].dealer] : s \in died}
  BY <1>3 DEF TakeHealth
<1>7. told' = told \cup {[kind |-> "died", ship |-> s] : s \in died}
  BY <1>3 DEF TakeHealth
<1>8. blasts' = blasts \cup {NewBlast(s, WreckBlast) : s \in died}
                       \cup {NewBlast(r, RocketBlast) : r \in Blown}
  BY <1>3 DEF TakeHealth
<1>9. \A s \in Present : s \in died <=> after[s].hp <= 0
  OBVIOUS
<1>10. died \subseteq Present
  OBVIOUS
<1>11. \A s \in Present : after[s] = IF s \in burnt THEN Hurt(ship[s], StarHit)
                                     ELSE IF s \in healed THEN Healed(ship[s]) ELSE ship[s]
  BY DEF HealthAfter
<1> HIDE DEF after, died
<1>12. ASSUME NEW s \in Present
       PROVE  /\ after[s] \in AnyShipType
              /\ after[s].pirate = ship[s].pirate /\ after[s].docked = ship[s].docked
              /\ after[s].acts = ship[s].acts /\ after[s].cool = ship[s].cool
              /\ after[s].hp > 0 => after[s].clean = ship[s].clean
  <2> DEFINE c == ship[s]
  <2>1. c \in AnyShipType
    BY <1>12, There DEF IInv
  <2>2. after[s] \in {Hurt(c, StarHit), Healed(c), c}
    BY <1>11, <1>12
  <2> HIDE DEF c
  <2>3. CASE after[s] = Hurt(c, StarHit)
    <3> DEFINE d == Hurt(c, StarHit)
    <3>1. /\ d \in AnyShipType /\ d.pirate = c.pirate /\ d.docked = c.docked
          /\ d.acts = c.acts /\ d.cool = c.cool
          /\ d.clean = (c.clean \/ c.hp <= StarHit)
          /\ d.hp = IF c.hp > StarHit THEN c.hp - StarHit ELSE 0
      BY <2>1, Constants, HurtShips
    <3>2. c.hp \in Int /\ c.clean \in BOOLEAN
      BY <2>1, ShipFields
    <3> HIDE DEF d
    <3>3. d.hp > 0 => ~(c.hp <= StarHit)
      BY <3>1, <3>2, Constants
    <3> QED BY <2>3, <3>1, <3>2, <3>3 DEF c, d
  <2>4. CASE after[s] = Healed(c)
    BY <2>1, <2>4, HealedShips DEF c
  <2>5. CASE after[s] = c
    BY <2>1, <2>5 DEF c
  <2> QED BY <2>2, <2>3, <2>4, <2>5
<1>13. ASSUME NEW s \in Present
       PROVE  /\ ship'[s] \in AnyShipType
              /\ ship'[s].pirate = ship[s].pirate /\ ship'[s].docked = ship[s].docked
              /\ ship'[s].acts = ship[s].acts /\ ship'[s].cool = ship[s].cool
              /\ ship'[s].hp = after[s].hp
              /\ ship'[s].clean = (after[s].clean \/ s \in died)
  <2> DEFINE a == after[s]
             b == a.clean \/ s \in died
             d == [a EXCEPT !.clean = b]
  <2>1. s \in ShipId
    BY <1>13, There DEF IInv
  <2>2. ship'[s] = d
    BY <1>4, <1>13, <2>1
  <2>3. a \in AnyShipType /\ b \in BOOLEAN
    BY <1>12, <1>13, ShipFields
  <2> HIDE DEF b
  <2>4. /\ d \in AnyShipType /\ d.clean = b /\ d.hp = a.hp /\ d.pirate = a.pirate
        /\ d.docked = a.docked /\ d.acts = a.acts /\ d.cool = a.cool
    BY <2>3, CleanedShips
  <2> QED BY <1>12, <1>13, <2>2, <2>4 DEF b
<1>14. \A s \in ShipId : s \notin Present => ship'[s] = None
  BY <1>4
<1>15. ship' \in [ShipId -> AnyShipType \cup {None}]
  BY <1>4, <1>13, <1>14
<1>16. Present' = Present /\ Present \subseteq ShipId
  BY <1>13, <1>14, Constants DEF Present
<1>17. /\ own' \in [Player -> ShipId \cup {None}]
       /\ \A p \in Player : own'[p] = IF own[p] \in died THEN None ELSE own[p]
  <2>1. \A p \in Player : own'[p] = IF own[p] \in died THEN None ELSE own[p]
    BY <1>5 DEF Bereft
  <2>2. own' = [p \in Player |-> own'[p]]
    BY <1>5 DEF Bereft
  <2> QED BY <2>1, <2>2, There DEF IInv
<1>18. events' \subseteq EventType
  <2>1. ASSUME NEW s \in died
        PROVE  [kind |-> "died", ship |-> s, pirate |-> ship[s].pirate,
                dealer |-> after[s].dealer] \in EventType
    <3>1. s \in ShipId /\ ship[s] \in AnyShipType /\ after[s] \in AnyShipType
      BY <1>10, <1>12, <2>1, There DEF IInv
    <3>2. ship[s].pirate \in BOOLEAN /\ after[s].dealer \in ShipId \cup {None}
      BY <3>1, ShipFields
    <3> QED BY <3>1, <3>2 DEF EventType
  <2> QED BY <1>6, <2>1 DEF IInv, Shape
<1>19. told' \subseteq TellingType
  BY <1>7, <1>10, <1>16 DEF IInv, Shape, TellingType
<1>20. blasts' \subseteq BlastType
  <2>1. \A s \in died : NewBlast(s, WreckBlast) \in BlastType
    BY <1>10, <1>16, NewBlasts
  <2>2. \A r \in Blown : NewBlast(r, RocketBlast) \in BlastType
    BY NewBlasts DEF Blown, Flying
  <2> QED BY <1>8, <2>1, <2>2 DEF IInv, Shape
<1>21. Shape'
  <2>1. floats' \subseteq Mineral
    BY <1>1 DEF MineralsGrow, FreeMinerals, IInv, Shape
  <2> QED BY <1>1, <1>15, <1>17, <1>18, <1>19, <1>20, <2>1 DEF IInv, Shape
<1>22. Owners'
  <2>1. \A p, q \in Player : own'[p] # None /\ own'[p] = own'[q] => p = q
    BY <1>17 DEF IInv, Owners
  <2>2. ASSUME NEW p \in Player, own'[p] # None, p \notin bombed'
        PROVE  own'[p] \in Present' /\ ~ship'[own'[p]].pirate /\ ~ship'[own'[p]].clean
    <3>1. own'[p] = own[p] /\ own[p] \notin died
      BY <1>17, <2>2
    <3>2. own[p] \in Present /\ ~ship[own[p]].pirate /\ ~ship[own[p]].clean
      BY <1>1, <2>2, <3>1 DEF IInv, Owners
    <3>3. after[own[p]].hp > 0
      BY <1>9, <1>12, <3>1, <3>2, ShipFields
    <3>4. ~after[own[p]].clean /\ ~after[own[p]].pirate
      BY <1>12, <3>2, <3>3
    <3>5. ~ship'[own[p]].clean /\ ~ship'[own[p]].pirate
      BY <1>12, <1>13, <3>1, <3>2, <3>4
    <3> QED BY <1>16, <3>1, <3>2, <3>5
  <2>3. \A e \in events' : e.kind = "docked" /\ e.ship \in Present' => ship'[e.ship].pirate
    BY <1>6, <1>13, <1>16 DEF IInv, Owners
  <2> QED BY <2>1, <2>2, <2>3 DEF Owners
<1>23. Tellings'
  <2> SUFFICES ASSUME NEW t \in told', t.ship \in Present
               PROVE  /\ t.kind = "docked" => ship'[t.ship].docked
                      /\ t.kind = "died" => ship'[t.ship].clean
    BY <1>1, <1>16 DEF Tellings
  <2>1. CASE t \in told
    BY <1>1, <1>13, <2>1 DEF IInv, Tellings
  <2>2. ASSUME NEW s \in died, t = [kind |-> "died", ship |-> s]
        PROVE  t.kind # "docked" /\ ship'[t.ship].clean
    BY <1>10, <1>13, <2>2
  <2> QED BY <1>7, <2>1, <2>2
<1>24. Alive'
  <2> SUFFICES ASSUME NEW p \in Player, own'[p] \in Present
               PROVE  ship'[own'[p]].hp > 0
    BY <1>16 DEF Alive
  <2>1. own'[p] = own[p] /\ own[p] \notin died
    BY <1>16, <1>17, Constants
  <2> QED BY <1>9, <1>12, <1>13, <2>1, ShipFields
<1>25. Turrets'
  <2>1. Ahead = 1 /\ Ahead' = 1
    BY <1>1 DEF Ahead
  <2>2. \A s \in Present : InStep(ship'[s], 1)
    BY <1>13, <2>1 DEF IInv, Turrets, InStep
  <2> QED BY <1>16, <2>1, <2>2 DEF Turrets
<1>26. GoodsOnce'
  BY <1>1 DEF GoodsOnce
<1> QED BY <1>21, <1>22, <1>23, <1>24, <1>25, <1>26 DEF IInv

\* What FinishActs makes of a ship that n shots hit, the last of them by by.
Finished(c, n, by, lands) ==
    [Struck(c, n, by) EXCEPT !.acts = Kept(@), !.docked = @ \/ lands]

LEMMA FinishedShips ==
    ASSUME NEW c \in AnyShipType, NEW n \in Nat, NEW by \in ShipId \cup {None},
           NEW lands \in BOOLEAN, OneAct(c.acts)
    PROVE  LET d == Finished(c, n, by, lands)
           IN  /\ d \in AnyShipType /\ d.acts = Kept(c.acts)
               /\ d.docked = (c.docked \/ lands)
               /\ d.hp = c.hp - n * Shot /\ d.dealer = IF n = 0 THEN c.dealer ELSE by
               /\ d.pirate = c.pirate /\ d.clean = c.clean /\ d.cool = c.cool
<1> DEFINE h == c.hp - n * Shot
           w == IF n = 0 THEN c.dealer ELSE by
           e == [c EXCEPT !.hp = h, !.dealer = w]
           k == Kept(c.acts)
           b == c.docked \/ lands
           d == [e EXCEPT !.acts = k, !.docked = b]
<1>1. /\ c.hp \in Int /\ c.dealer \in ShipId \cup {None} /\ c.acts \in Seq(ActType)
      /\ c.docked \in BOOLEAN
  BY ShipFields
<1>2. h \in Int /\ w \in ShipId \cup {None} /\ b \in BOOLEAN
  BY <1>1, Constants
<1>3. k \in Seq(ActType)
  BY <1>1, KeptActs
<1>4. Struck(c, n, by) = e
  BY DEF Struck
<1> HIDE DEF h, w
<1>5. /\ e \in AnyShipType /\ e.acts = c.acts /\ e.docked = c.docked
  BY <1>2 DEF AnyShipType, ShipOf
<1>6. e.hp = h /\ e.dealer = w /\ e.pirate = c.pirate /\ e.clean = c.clean /\ e.cool = c.cool
  BY DEF AnyShipType, ShipOf
<1>7. Finished(c, n, by, lands) = d
  BY <1>4, <1>5 DEF Finished
<1> HIDE DEF e, k, b
<1>8. d \in AnyShipType
  BY <1>2, <1>3, <1>5 DEF AnyShipType, ShipOf
<1>9. /\ d.acts = k /\ d.docked = b /\ d.hp = e.hp /\ d.dealer = e.dealer
      /\ d.pirate = e.pirate /\ d.clean = e.clean /\ d.cool = e.cool
  BY <1>5 DEF AnyShipType, ShipOf
<1> HIDE DEF d
<1>10. /\ d \in AnyShipType /\ d.acts = Kept(c.acts) /\ d.docked = (c.docked \/ lands)
       /\ d.hp = c.hp - n * Shot /\ d.dealer = IF n = 0 THEN c.dealer ELSE by
       /\ d.pirate = c.pirate /\ d.clean = c.clean /\ d.cool = c.cool
  BY <1>6, <1>8, <1>9 DEF k, b, h, w
<1> QED BY <1>7, <1>10

LEMMA PendingFinite ==
    ASSUME Shape
    PROVE  IsFiniteSet(Pending)
<1>1. Present \subseteq ShipId
  BY There
<1>2. IsFiniteSet(Present)
  BY <1>1, FS_Subset, BattleAssumption
<1>3. Cardinality(Turret) \in Nat
  BY FS_CardinalityType, BattleAssumption
<1>4. IsFiniteSet(1..Cardinality(Turret))
  BY <1>3, FS_Interval
<1>5. IsFiniteSet(Present \X (1..Cardinality(Turret)))
  BY <1>2, <1>4, FS_Product
<1>6. Pending \subseteq Present \X (1..Cardinality(Turret))
  BY DEF Pending
<1> QED BY <1>5, <1>6, FS_Subset

\* What the end of the actions does to a ship: who lands, how many shots hit it, whose
\* was the last of them.
ShotsOn(s) == {f \in Finishing("shoot") : ActAt(f).at = s}

Ended(landing, last) ==
    /\ \A s \in Present :
         /\ Cardinality(ShotsOn(s)) \in Nat
         /\ IF ShotsOn(s) = {} THEN Cardinality(ShotsOn(s)) = 0
            ELSE last[s] \in Present /\ HasOwner(last[s])
         /\ ship'[s] \in AnyShipType /\ ship'[s].acts = Kept(ship[s].acts)
         /\ ship'[s].docked = (ship[s].docked \/ s \in landing)
         /\ ship'[s].hp = ship[s].hp - Cardinality(ShotsOn(s)) * Shot
         /\ ship'[s].dealer = IF Cardinality(ShotsOn(s)) = 0 THEN ship[s].dealer
                              ELSE last[s]
         /\ ship'[s].pirate = ship[s].pirate /\ ship'[s].clean = ship[s].clean
         /\ ship'[s].cool = ship[s].cool
    /\ ship' \in [ShipId -> AnyShipType \cup {None}]
    /\ \A s \in ShipId : s \notin Present => ship'[s] = None
    /\ events' = events \cup {[kind |-> "docked", ship |-> s, pirate |-> TRUE,
                               dealer |-> None] : s \in landing}
    /\ told' = told \cup {[kind |-> "docked", ship |-> s] : s \in landing}
    /\ floats' \subseteq floats

LEMMA ActsEnd ==
    ASSUME IInv, FinishActs
    PROVE  \E landing \in SUBSET Approaching : \E last \in [Present -> Present \cup {None}] :
             Ended(landing, last)
<1>1. PICK landing \in SUBSET Approaching :
         LET shots == Finishing("shoot")
             On(s) == {f \in shots : ActAt(f).at = s}
         IN /\ \E last \in {g \in [Present -> Present \cup {None}] :
                              \A s \in Present : IF On(s) = {} THEN g[s] = None
                                                 ELSE \E f \in On(s) : g[s] = f[1]} :
                 ship' = [s \in ShipId |-> IF s \notin Present THEN None
                            ELSE [Struck(ship[s], Cardinality(On(s)), last[s])
                                    EXCEPT !.acts = Kept(@), !.docked = @ \/ s \in landing]]
            /\ \E inRange \in SUBSET {ActAt(f).at : f \in shots} : floats' = floats \ inRange
            /\ events' = events \cup {[kind |-> "docked", ship |-> s, pirate |-> TRUE,
                                       dealer |-> None] : s \in landing}
            /\ told' = told \cup {[kind |-> "docked", ship |-> s] : s \in landing}
  BY DEF FinishActs
<1>2. PICK last \in {g \in [Present -> Present \cup {None}] :
                       \A s \in Present : IF ShotsOn(s) = {} THEN g[s] = None
                                          ELSE \E f \in ShotsOn(s) : g[s] = f[1]} :
         ship' = [s \in ShipId |-> IF s \notin Present THEN None
                    ELSE [Struck(ship[s], Cardinality(ShotsOn(s)), last[s])
                            EXCEPT !.acts = Kept(@), !.docked = @ \/ s \in landing]]
  BY <1>1 DEF ShotsOn
<1>3. /\ \E inRange \in SUBSET {ActAt(f).at : f \in Finishing("shoot")} :
            floats' = floats \ inRange
      /\ events' = events \cup {[kind |-> "docked", ship |-> s, pirate |-> TRUE,
                                 dealer |-> None] : s \in landing}
      /\ told' = told \cup {[kind |-> "docked", ship |-> s] : s \in landing}
  BY <1>1
<1>4. floats' \subseteq floats
  BY <1>3
<1>5. /\ last \in [Present -> Present \cup {None}]
      /\ \A s \in Present : IF ShotsOn(s) = {} THEN last[s] = None
                            ELSE \E f \in ShotsOn(s) : last[s] = f[1]
  BY <1>2
<1>6. /\ ship' = [s \in ShipId |-> ship'[s]]
      /\ \A s \in ShipId : s \notin Present => ship'[s] = None
      /\ \A s \in ShipId : s \in Present =>
           ship'[s] = [Struck(ship[s], Cardinality(ShotsOn(s)), last[s])
                         EXCEPT !.acts = Kept(@), !.docked = @ \/ s \in landing]
  BY <1>2
<1>7. ASSUME NEW s \in Present
      PROVE  /\ Cardinality(ShotsOn(s)) \in Nat
             /\ IF ShotsOn(s) = {} THEN Cardinality(ShotsOn(s)) = 0
                ELSE last[s] \in Present /\ HasOwner(last[s])
             /\ ship'[s] \in AnyShipType /\ ship'[s].acts = Kept(ship[s].acts)
             /\ ship'[s].docked = (ship[s].docked \/ s \in landing)
             /\ ship'[s].hp = ship[s].hp - Cardinality(ShotsOn(s)) * Shot
             /\ ship'[s].dealer = IF Cardinality(ShotsOn(s)) = 0 THEN ship[s].dealer
                                  ELSE last[s]
             /\ ship'[s].pirate = ship[s].pirate /\ ship'[s].clean = ship[s].clean
             /\ ship'[s].cool = ship[s].cool
  <2> DEFINE c == ship[s]
             n == Cardinality(ShotsOn(s))
             by == last[s]
             lands == s \in landing
  <2>1. c \in AnyShipType /\ s \in ShipId /\ OneAct(c.acts)
    BY <1>7, There DEF IInv, Turrets, InStep
  <2>2. IsFiniteSet(ShotsOn(s))
    <3>1. ShotsOn(s) \subseteq Pending
      BY DEF ShotsOn, Finishing
    <3>2. IsFiniteSet(Pending)
      BY PendingFinite DEF IInv
    <3> QED BY <3>1, <3>2, FS_Subset
  <2>3. n \in Nat
    BY <2>2, FS_CardinalityType
  <2>4. ShotsOn(s) = {} => n = 0
    BY FS_EmptySet
  <2>5. by \in ShipId \cup {None} /\ lands \in BOOLEAN
    <3>1. by \in Present \cup {None}
      BY <1>5, <1>7
    <3> QED BY <3>1, There DEF IInv
  <2>6. ASSUME ShotsOn(s) # {}
        PROVE  last[s] \in Present /\ HasOwner(last[s])
    <3>1. PICK f \in ShotsOn(s) : last[s] = f[1]
      BY <1>5, <1>7, <2>6
    <3>2. f \in Pending /\ HasOwner(f[1])
      BY DEF ShotsOn, Finishing
    <3> QED BY <3>1, <3>2 DEF Pending
  <2>7. ship'[s] = Finished(c, n, by, lands)
    BY <1>6, <1>7, <2>1 DEF Finished
  <2> DEFINE d == Finished(c, n, by, lands)
  <2> HIDE DEF c, n, by, lands
  <2>8. /\ d \in AnyShipType /\ d.acts = Kept(c.acts)
        /\ d.docked = (c.docked \/ lands)
        /\ d.hp = c.hp - n * Shot /\ d.dealer = IF n = 0 THEN c.dealer ELSE by
        /\ d.pirate = c.pirate /\ d.clean = c.clean /\ d.cool = c.cool
    BY <2>1, <2>3, <2>5, FinishedShips
  <2>9. ship'[s] = d
    BY <2>7
  <2> HIDE DEF d
  <2>10. /\ ship'[s] \in AnyShipType /\ ship'[s].acts = Kept(c.acts)
         /\ ship'[s].docked = (c.docked \/ lands)
         /\ ship'[s].hp = c.hp - n * Shot
         /\ ship'[s].dealer = IF n = 0 THEN c.dealer ELSE by
         /\ ship'[s].pirate = c.pirate /\ ship'[s].clean = c.clean
         /\ ship'[s].cool = c.cool
    BY <2>8, <2>9
  <2> QED BY <2>3, <2>4, <2>6, <2>10 DEF c, n, by, lands
<1>8. ship' \in [ShipId -> AnyShipType \cup {None}]
  BY <1>6, <1>7
<1>9. Ended(landing, last)
  BY <1>3, <1>4, <1>6, <1>7, <1>8 DEF Ended
<1> QED BY <1>5, <1>9

LEMMA ActsEnding ==
    ASSUME IInv, FinishActs
    PROVE  IInv'
<1>1. phase = "acts" /\ phase' = "blasts" /\ UNCHANGED <<own, blasts, bombed>>
  BY DEF FinishActs
<1>. PICK landing \in SUBSET Approaching : \E last \in [Present -> Present \cup {None}] :
             Ended(landing, last)
  BY ActsEnd
<1>. PICK last \in [Present -> Present \cup {None}] : Ended(landing, last)
  OBVIOUS
<1>2. /\ \A s \in Present :
           /\ ship'[s] \in AnyShipType /\ ship'[s].acts = Kept(ship[s].acts)
           /\ ship'[s].docked = (ship[s].docked \/ s \in landing)
           /\ ship'[s].pirate = ship[s].pirate /\ ship'[s].clean = ship[s].clean
           /\ ship'[s].cool = ship[s].cool
      /\ ship' \in [ShipId -> AnyShipType \cup {None}]
      /\ \A s \in ShipId : s \notin Present => ship'[s] = None
      /\ events' = events \cup {[kind |-> "docked", ship |-> s, pirate |-> TRUE,
                                 dealer |-> None] : s \in landing}
      /\ told' = told \cup {[kind |-> "docked", ship |-> s] : s \in landing}
      /\ floats' \subseteq floats
  BY DEF Ended
<1>3. /\ landing \subseteq Present /\ Present \subseteq ShipId
      /\ \A s \in landing : ship[s].pirate
  BY There DEF Approaching, IInv
<1>4. Present' = Present
  BY <1>2, Constants DEF Present
<1>5. Shape'
  <2>1. \A s \in landing : [kind |-> "docked", ship |-> s, pirate |-> TRUE,
                            dealer |-> None] \in EventType
    BY <1>3 DEF EventType
  <2>2. \A s \in landing : [kind |-> "docked", ship |-> s] \in TellingType
    BY <1>3 DEF TellingType
  <2>3. events' \subseteq EventType /\ told' \subseteq TellingType
    BY <1>2, <2>1, <2>2 DEF IInv, Shape
  <2> QED BY <1>1, <1>2, <2>3 DEF IInv, Shape
<1>6. Owners'
  <2>1. ASSUME NEW e \in events', e.kind = "docked", e.ship \in Present
        PROVE  ship'[e.ship].pirate
    <3>1. CASE e \in events
      BY <1>2, <2>1, <3>1 DEF IInv, Owners
    <3>2. ASSUME NEW s \in landing, e.ship = s
          PROVE  ship'[e.ship].pirate
      BY <1>2, <1>3, <3>2
    <3> QED BY <1>2, <3>1, <3>2
  <2> QED BY <1>1, <1>2, <1>4, <2>1 DEF IInv, Owners
<1>7. Tellings'
  <2> SUFFICES ASSUME NEW t \in told', t.ship \in Present
               PROVE  /\ t.kind = "docked" => ship'[t.ship].docked
                      /\ t.kind = "died" => ship'[t.ship].clean
    BY <1>1, <1>4 DEF Tellings
  <2>1. CASE t \in told
    BY <1>2, <2>1 DEF IInv, Tellings
  <2>2. ASSUME NEW s \in landing, t = [kind |-> "docked", ship |-> s]
        PROVE  t.kind # "died" /\ ship'[t.ship].docked
    BY <1>2, <1>3, <2>2
  <2> QED BY <1>2, <2>1, <2>2
<1>8. Alive' /\ GoodsOnce'
  BY <1>1 DEF Alive, GoodsOnce
<1>9. Turrets'
  <2>1. Ahead = 1 /\ Ahead' = 0
    BY <1>1 DEF Ahead
  <2>2. \A s \in Present : ship[s] \in AnyShipType /\ InStep(ship[s], 1)
    BY <2>1, There DEF IInv, Turrets
  <2>3. \A s \in Present : InStep(ship'[s], 0)
    BY <1>2, <2>2, KeptInStep
  <2> QED BY <1>4, <2>1, <2>3 DEF Turrets
<1> QED BY <1>5, <1>6, <1>7, <1>8, <1>9 DEF IInv

LEMMA Stuttering ==
    ASSUME IInv, UNCHANGED vars
    PROVE  IInv'
<1>1. UNCHANGED <<phase, own, ship, blasts, floats, events, bombed, told, caught>>
  BY DEF vars
<1>2. Present' = Present /\ Ahead' = Ahead
  BY <1>1 DEF Present, Ahead
<1>3. Shape' /\ GoodsOnce'
  BY <1>1 DEF IInv, Shape, GoodsOnce
<1>4. Owners' /\ Tellings' /\ Alive'
  BY <1>1, <1>2 DEF IInv, Owners, Tellings, Alive
<1>5. Turrets'
  BY <1>1, <1>2 DEF IInv, Turrets
<1> QED BY <1>3, <1>4, <1>5 DEF IInv

LEMMA Inductive == IInv /\ [Next]_vars => IInv'
<1> SUFFICES ASSUME IInv, [Next]_vars
             PROVE  IInv'
  OBVIOUS
<1>1. CASE HandleEvents
  BY <1>1, HandlingEvents
<1>2. ASSUME NEW p \in Player,
             \/ \E t \in Turret, at \in ShipId \cup Mineral : Shoot(p, t, at)
             \/ Launch(p)
             \/ \E m \in Mineral \cup {None} : Tractor(p, m)
      PROVE  IInv'
  BY <1>2, Ordering
<1>3. CASE Rules
  BY <1>3, Ruling
<1>4. CASE Pause
  BY <1>4, Pausing
<1>5. CASE Restart
  BY <1>5, Restarting
<1>6. CASE Fly
  BY <1>6, Flights
<1>7. CASE HpEffects
  BY <1>7, HealthLooked
<1>8. CASE FinishActs
  BY <1>8, ActsEnding
<1>9. ASSUME NEW b \in blasts, Explode(b)
      PROVE  IInv'
  BY <1>9, Explosions
<1>10. CASE Cleanup
  BY <1>10, CleaningUp
<1>11. CASE UNCHANGED vars
  BY <1>11, Stuttering
<1> QED BY <1>1, <1>2, <1>3, <1>4, <1>5, <1>6, <1>7, <1>8, <1>9, <1>10, <1>11 DEF Next

-----------------------------------------------------------------------------
(* The theorems.                                                           *)

\* The inductive invariant holds throughout: what every theorem below rests on.
THEOREM Invariant == Spec => []IInv
BY Initially, Inductive, PTL DEF Spec

\* However many ships there are and whatever kills them, a player's ship_id names a
\* ship that is there, of no pirate and of nobody else, until a blast takes the ship.
THEOREM OwnerKnowsHolds == Spec => []OwnerKnows
<1>1. IInv => OwnerKnows
  BY DEF IInv, Owners, OwnerKnows
<1> QED BY <1>1, Invariant, PTL

\* What is caught by a beam is neither there to be caught again nor given to anybody
\* who did not pull it.
THEOREM GoodsOnceHolds == Spec => []GoodsOnce
<1>1. IInv => GoodsOnce
  BY DEF IInv
<1> QED BY <1>1, Invariant, PTL

\* Whatever cooldowns and orders there are, revalidate never drops an act whose turret
\* is used up, and no turret has two acts.
THEOREM TurretInStepHolds == Spec => []TurretInStep
<1>1. ASSUME IInv, phase = "orders", NEW s \in Present, NEW t \in Turret
      PROVE  LET mine == {i \in DOMAIN ship[s].acts : ship[s].acts[i].turret = t}
             IN IF ship[s].cool[t] = 0 THEN mine = {}
                ELSE \E i \in mine : mine = {i} /\ ship[s].acts[i].left = ship[s].cool[t]
  <2> DEFINE c == ship[s]
             mine == {i \in DOMAIN c.acts : c.acts[i].turret = t}
  <2>1. InStep(c, 0)
    BY <1>1 DEF IInv, Turrets, Ahead
  <2>2. /\ c.acts \in Seq(ActType) /\ c.cool \in [Turret -> 0..Cooldown]
    BY <1>1, There, ShipFields DEF IInv
  <2>3. \A i \in DOMAIN c.acts : /\ c.acts[i].left \in 1..Cooldown
                                  /\ c.acts[i].turret \in Turret
    <3>1. \A i \in DOMAIN c.acts : c.acts[i] \in ActType
      BY <2>2
    <3> QED BY <3>1 DEF ActType
  <2>4. c.cool[t] \in 0..Cooldown /\ Cooldown \in Nat
    BY <2>2, Constants
  <2> HIDE DEF c
  <2>5. \A i \in DOMAIN c.acts : c.acts[i].left = c.cool[c.acts[i].turret]
    BY <2>1, <2>2, <2>3, <2>4 DEF InStep
  <2>6. CASE c.cool[t] = 0
    <3>1. mine = {}
      BY <2>3, <2>4, <2>5, <2>6
    <3> QED BY <2>6, <3>1 DEF c
  <2>7. CASE c.cool[t] # 0
    <3>1. PICK i \in DOMAIN c.acts : c.acts[i].turret = t
      BY <2>1, <2>4, <2>7 DEF InStep
    <3>2. i \in mine /\ mine = {i}
      BY <2>1, <3>1 DEF InStep, OneAct
    <3>3. c.acts[i].left = c.cool[t]
      BY <2>5, <3>1
    <3> QED BY <2>7, <3>2, <3>3 DEF c
  <2> QED BY <2>6, <2>7
<1>2. IInv => TurretInStep
  BY <1>1 DEF TurretInStep
<1> QED BY <1>2, Invariant, PTL

\* A ship is told of once as dead and once as landed, in whatever order it does both:
\* no pirate pays two bounties or hits the planet twice.
THEOREM EachPirateOnceHolds == Spec => EachPirateOnce
<1> DEFINE A == \A e \in events' \ events : [kind |-> e.kind, ship |-> e.ship] \notin told
<1>1. ASSUME IInv, HpEffects, NEW e \in events' \ events
      PROVE  [kind |-> e.kind, ship |-> e.ship] \notin told
  <2>1. e.kind = "died" /\ e.ship \in Present /\ phase = "hp"
    <3>1. PICK after : TakeHealth(after)
      BY <1>1 DEF HpEffects
    <3> DEFINE died == {s \in Present : after[s].hp <= 0}
    <3>2. events' = events \cup {[kind |-> "died", ship |-> s, pirate |-> ship[s].pirate,
                                  dealer |-> after[s].dealer] : s \in died}
      BY <3>1 DEF TakeHealth
    <3>3. phase = "hp"
      BY <1>1 DEF HpEffects
    <3> QED BY <1>1, <3>2, <3>3
  <2> DEFINE t == [kind |-> e.kind, ship |-> e.ship]
  <2>2. t.kind = e.kind /\ t.ship = e.ship
    OBVIOUS
  <2> HIDE DEF t
  <2>3. t \notin told
    BY <1>1, <2>1, <2>2 DEF IInv, Tellings
  <2> QED BY <2>3 DEF t
<1>2. ASSUME IInv, FinishActs, NEW e \in events' \ events
      PROVE  [kind |-> e.kind, ship |-> e.ship] \notin told
  <2>1. PICK s \in Approaching : e.kind = "docked" /\ e.ship = s
    <3>1. PICK landing \in SUBSET Approaching :
             \E last \in [Present -> Present \cup {None}] : Ended(landing, last)
      BY <1>2, ActsEnd
    <3>2. events' = events \cup {[kind |-> "docked", ship |-> s, pirate |-> TRUE,
                                  dealer |-> None] : s \in landing}
      BY <3>1 DEF Ended
    <3> QED BY <1>2, <3>2
  <2>2. s \in Present /\ ~ship[s].docked
    BY DEF Approaching
  <2> DEFINE t == [kind |-> e.kind, ship |-> e.ship]
  <2>3. t.kind = "docked" /\ t.ship = s
    BY <2>1
  <2> HIDE DEF t
  <2>4. t \notin told
    BY <1>2, <2>2, <2>3 DEF IInv, Tellings
  <2> QED BY <2>4 DEF t
<1>3. ASSUME IInv, [Next]_vars
      PROVE  A
  <2>1. CASE HpEffects
    BY <1>1, <1>3, <2>1
  <2>2. CASE FinishActs
    BY <1>2, <1>3, <2>2
  <2>3. CASE ~HpEffects /\ ~FinishActs
    <3>1. events' \subseteq events
      <4>1. ASSUME NEW p \in Player, NEW c, Order(p, c)
            PROVE  events' = events
        BY <4>1 DEF Order
      <4>2. ASSUME NEW p \in Player,
                   \/ \E t \in Turret, at \in ShipId \cup Mineral : Shoot(p, t, at)
                   \/ Launch(p)
                   \/ \E m \in Mineral \cup {None} : Tractor(p, m)
            PROVE  events' = events
        BY <4>1, <4>2 DEF Shoot, Launch, Tractor
      <4>3. HandleEvents \/ Restart => events' = {}
        BY DEF HandleEvents, Restart
      <4>4. Rules \/ Pause \/ Fly \/ Cleanup \/ UNCHANGED vars => events' = events
        BY DEF Rules, Pause, Fly, Cleanup, vars
      <4>5. ASSUME NEW b \in blasts, Explode(b)
            PROVE  events' = events
        BY <4>5 DEF Explode
      <4> QED BY <1>3, <2>3, <4>2, <4>3, <4>4, <4>5 DEF Next
    <3> QED BY <3>1
  <2> QED BY <2>1, <2>2, <2>3
<1>4. IInv /\ [Next]_vars => [A]_vars
  BY <1>3
<1> QED BY <1>4, Invariant, PTL DEF Spec, EachPirateOnce

\* Whatever healths and damages there are, a shot that hurts is of a player whose ship
\* was alive when the healths were looked at.
THEOREM DeadDoNotShootHolds == Spec => DeadDoNotShoot
<1> DEFINE A == phase = "acts" =>
                  \A s \in Present : ship'[s].hp < ship[s].hp =>
                      /\ ship'[s].dealer \in Owned
                      /\ ship[ship'[s].dealer].hp > 0
<1>1. ASSUME IInv, FinishActs, NEW s \in Present, ship'[s].hp < ship[s].hp
      PROVE  ship'[s].dealer \in Owned /\ ship[ship'[s].dealer].hp > 0
  <2>1. phase = "acts"
    BY <1>1 DEF FinishActs
  <2>2. PICK landing \in SUBSET Approaching :
          \E last \in [Present -> Present \cup {None}] : Ended(landing, last)
    BY <1>1, ActsEnd
  <2>3. PICK last \in [Present -> Present \cup {None}] : Ended(landing, last)
    BY <2>2
  <2> DEFINE n == Cardinality(ShotsOn(s))
  <2>4. /\ n \in Nat
        /\ IF ShotsOn(s) = {} THEN n = 0 ELSE last[s] \in Present /\ HasOwner(last[s])
        /\ ship'[s].hp = ship[s].hp - n * Shot
        /\ ship'[s].dealer = IF n = 0 THEN ship[s].dealer ELSE last[s]
    BY <1>1, <2>3 DEF Ended
  <2>5. ship[s].hp \in Int
    BY <1>1, There, ShipFields DEF IInv
  <2> HIDE DEF n
  <2>6. n # 0
    <3>1. n = 0 => n * Shot = 0
      BY Constants
    <3> QED BY <1>1, <2>4, <2>5, <3>1
  <2>7. ship'[s].dealer = last[s] /\ last[s] \in Present /\ last[s] \in Owned
    BY <2>4, <2>6 DEF HasOwner
  <2>8. PICK p \in Player : own[p] = last[s]
    BY <1>1, <2>7, There DEF IInv
  <2> QED BY <1>1, <2>1, <2>7, <2>8 DEF IInv, Alive
<1>2. ASSUME IInv, [Next]_vars
      PROVE  [A]_vars
  <2>1. CASE FinishActs
    BY <1>1, <1>2, <2>1
  <2>2. CASE ~FinishActs /\ ~UNCHANGED vars
    <3>1. ASSUME NEW p \in Player,
                 \/ \E t \in Turret, at \in ShipId \cup Mineral : Shoot(p, t, at)
                 \/ Launch(p)
                 \/ \E m \in Mineral \cup {None} : Tractor(p, m)
          PROVE  phase # "acts"
      BY <3>1 DEF Shoot, Launch, Tractor, Commands
    <3>2. ASSUME HandleEvents \/ Rules \/ Pause \/ Restart \/ Fly \/ HpEffects \/ Cleanup
          PROVE  phase # "acts"
      BY <3>2 DEF HandleEvents, Rules, Pause, Restart, Fly, HpEffects, Cleanup
    <3>3. ASSUME NEW b \in blasts, Explode(b)
          PROVE  phase # "acts"
      BY <3>3 DEF Explode
    <3> QED BY <1>2, <2>2, <3>1, <3>2, <3>3 DEF Next
  <2> QED BY <2>1, <2>2
<1>3. IInv /\ [Next]_vars => [A]_vars
  BY <1>2
<1> QED BY <1>3, Invariant, PTL DEF Spec, DeadDoNotShoot

-----------------------------------------------------------------------------
(* Type correctness: what the numbers are bounded by.                      *)

\* What all the shots of one update can do to a ship.
Volley == Shot * Cardinality(Turret) * Cardinality(Player)

\* A ship is shot at in two updates after it was last seen alive at most: what the
\* first of them left without health is marked before the second, and is gone after it.
Healths ==
    \A s \in Present :
        /\ ship[s].hp <= IF ship[s].pirate THEN PirateHp ELSE PlayerHp
        /\ ship[s].hp >= IF phase = "blasts" /\ ship[s].clean THEN -2 * Volley ELSE -Volley
        /\ phase = "acts" /\ ship[s].hp <= 0 => ship[s].clean

\* A rocket that is not about to be removed has time left to lose.
Rockets ==
    /\ rocket \in [RocketId -> RocketType \cup {None}]
    /\ \A r \in Flying : IF rocket[r].clean THEN phase \in {"hp", "acts", "blasts"}
                         ELSE rocket[r].left >= 1

Counts ==
    /\ paused \in BOOLEAN /\ over \in BOOLEAN /\ home \in 0..HomeHp
    /\ money \in [Player -> 0..MaxMoney] /\ coming \in 0..Cardinality(Player)
    /\ IsFiniteSet(events) /\ Cardinality(floats) <= MaxMinerals

LEMMA Monotone ==
    ASSUME NEW a \in Nat, NEW b \in Nat, NEW c \in Nat, a <= b
    PROVE  a * c <= b * c
<1>1. (b - a) * c >= 0
  OBVIOUS
<1>2. (b - a) * c = b * c - a * c
  OBVIOUS
<1>3. a * c \in Int /\ b * c \in Int
  OBVIOUS
<1> QED BY <1>1, <1>2, <1>3

LEMMA Volleys ==
    /\ Cardinality(Turret) \in Nat /\ Cardinality(Player) \in Nat
    /\ Volley \in Nat /\ LeastHp = -2 * Volley
<1>1. Cardinality(Turret) \in Nat /\ Cardinality(Player) \in Nat
  BY FS_CardinalityType, BattleAssumption
<1> DEFINE t == Cardinality(Turret)
           p == Cardinality(Player)
<1>2. t \in Nat /\ p \in Nat /\ Shot \in Nat
  BY <1>1, Constants
<1> HIDE DEF t, p
<1>3. Shot * t \in Nat
  BY <1>2
<1>4. Shot * t * p \in Nat
  BY <1>2, <1>3
<1>5. -2 * Shot * t * p = -2 * (Shot * t * p)
  BY <1>2
<1> QED BY <1>1, <1>4, <1>5 DEF t, p, Volley, LeastHp

\* A ship is hit at most by every turret of every ship that has an owner.
LEMMA ShotsBound ==
    ASSUME IInv, NEW s \in Present
    PROVE  /\ Cardinality(ShotsOn(s)) \in Nat
           /\ Cardinality(ShotsOn(s)) * Shot \in Nat
           /\ Cardinality(ShotsOn(s)) * Shot <= Volley
<1> DEFINE S == ShotsOn(s)
           f == [x \in S |-> <<x[1], ActAt(x).turret>>]
<1>1. \A x \in S : /\ x \in Present \X (1..Cardinality(Turret)) /\ x[1] \in Owned
                   /\ x[2] \in DOMAIN ship[x[1]].acts /\ ActAt(x) = ship[x[1]].acts[x[2]]
                   /\ x = <<x[1], x[2]>> /\ x[1] \in Present
  BY DEF ShotsOn, Finishing, Pending, ActAt, HasOwner
<1>2. \A x \in S : ActAt(x).turret \in Turret
  <2> SUFFICES ASSUME NEW x \in S
               PROVE  ActAt(x).turret \in Turret
    OBVIOUS
  <2>1. ship[x[1]].acts \in Seq(ActType)
    BY <1>1, There, ShipFields DEF IInv
  <2>2. ActAt(x) \in ActType
    BY <1>1, <2>1
  <2> QED BY <2>2 DEF ActType
<1>3. \A x, y \in S : f[x] = f[y] => x = y
  <2> SUFFICES ASSUME NEW x \in S, NEW y \in S, f[x] = f[y]
               PROVE  x = y
    OBVIOUS
  <2>1. x[1] = y[1] /\ ActAt(x).turret = ActAt(y).turret
    OBVIOUS
  <2>2. OneAct(ship[x[1]].acts)
    BY <1>1 DEF IInv, Turrets, InStep
  <2>3. x[2] = y[2]
    BY <1>1, <2>1, <2>2 DEF OneAct
  <2> QED BY <1>1, <2>1, <2>3
<1>4. f \in Injection(S, Owned \X Turret)
  BY <1>1, <1>2, <1>3 DEF Injection, IsInjective
<1>5. IsFiniteSet(Owned) /\ Cardinality(Owned) <= Cardinality(Player)
  <2> DEFINE R == Range(own)
  <2>1. own \in Surjection(Player, R)
    BY DEF IInv, Shape, Surjection, Range
  <2>2. IsFiniteSet(R) /\ Cardinality(R) <= Cardinality(Player)
    BY <2>1, FS_Surjection, BattleAssumption
  <2>3. Owned \subseteq R
    BY DEF Owned
  <2>4. IsFiniteSet(Owned) /\ Cardinality(Owned) <= Cardinality(R)
    BY <2>2, <2>3, FS_Subset
  <2>5. Cardinality(Owned) \in Nat /\ Cardinality(R) \in Nat
    BY <2>2, <2>4, FS_CardinalityType
  <2> QED BY <2>2, <2>4, <2>5, Volleys
<1>6. /\ IsFiniteSet(Owned \X Turret)
      /\ Cardinality(Owned \X Turret) = Cardinality(Owned) * Cardinality(Turret)
  BY <1>5, FS_Product, BattleAssumption
<1> HIDE DEF f, S
<1>7. IsFiniteSet(S) /\ Cardinality(S) <= Cardinality(Owned \X Turret)
  BY <1>4, <1>6, FS_Injection
<1> DEFINE n == Cardinality(S)
           o == Cardinality(Owned)
           t == Cardinality(Turret)
           p == Cardinality(Player)
<1>8. n \in Nat /\ o \in Nat /\ t \in Nat /\ p \in Nat /\ o <= p /\ n <= o * t /\ Shot \in Nat
  BY <1>5, <1>6, <1>7, FS_CardinalityType, Volleys, Constants
<1>9. Volley = Shot * t * p
  BY DEF Volley
<1> HIDE DEF n, o, t, p
<1>10. o * t \in Nat /\ p * t \in Nat /\ o * t <= p * t
  BY <1>8, Monotone
<1>11. n <= p * t
  BY <1>8, <1>10
<1>12. n * Shot <= (p * t) * Shot
  BY <1>8, <1>10, <1>11, Monotone
<1>13. n * Shot \in Nat /\ (p * t) * Shot = Shot * t * p
  BY <1>8
<1>14. n \in Nat /\ n * Shot \in Nat /\ n * Shot <= Volley
  BY <1>8, <1>9, <1>12, <1>13
<1> QED BY <1>14 DEF n, S

LEMMA RocketFields ==
    ASSUME NEW f \in RocketType
    PROVE  /\ f.left \in 0..(Lifetime + DecayTime) /\ f.decays \in BOOLEAN
           /\ f.dead \in BOOLEAN /\ f.clean \in BOOLEAN
  BY DEF RocketType

LEMMA MarkedRockets ==
    ASSUME NEW f \in RocketType
    PROVE  /\ [f EXCEPT !.clean = TRUE] \in RocketType /\ [f EXCEPT !.clean = TRUE].clean
           /\ Collided(f) \in RocketType /\ Collided(f).left = f.left
  BY DEF RocketType, Collided

LEMMA DecayedRockets ==
    ASSUME NEW f \in RocketType, f.left >= 1
    PROVE  /\ Decayed(f) \in RocketType
           /\ ~Decayed(f).clean => Decayed(f).left >= 1
<1> DEFINE h == IF f.decays THEN f
                ELSE IF f.left > 1 THEN [f EXCEPT !.left = f.left - 1]
                ELSE [f EXCEPT !.left = DecayTime, !.decays = TRUE]
<1>1. f.left \in Nat /\ f.left <= Lifetime + DecayTime
  BY RocketFields, Constants
<1>2. h \in RocketType /\ h.left >= 1
  <2>1. CASE f.decays
    BY <2>1
  <2>2. CASE ~f.decays /\ f.left > 1
    <3> DEFINE n == f.left - 1
    <3>1. n \in 0..(Lifetime + DecayTime) /\ n >= 1
      BY <1>1, <2>2, Constants
    <3> HIDE DEF n
    <3>2. [f EXCEPT !.left = n] \in RocketType /\ [f EXCEPT !.left = n].left = n
      BY <3>1 DEF RocketType
    <3> QED BY <2>2, <3>1, <3>2 DEF n
  <2>3. CASE ~f.decays /\ ~(f.left > 1)
    <3> DEFINE n == DecayTime
               b == TRUE
    <3>1. n \in 0..(Lifetime + DecayTime) /\ n >= 1 /\ b \in BOOLEAN
      BY Constants
    <3> HIDE DEF n, b
    <3>2. /\ [f EXCEPT !.left = n, !.decays = b] \in RocketType
          /\ [f EXCEPT !.left = n, !.decays = b].left = n
      BY <3>1 DEF RocketType
    <3> QED BY <2>3, <3>1, <3>2 DEF n, b
  <2> QED BY <2>1, <2>2, <2>3
<1> DEFINE n == h.left - 1
           b == h.clean \/ h.left <= 1
           d == [h EXCEPT !.left = n, !.clean = b]
<1>3. Decayed(f) = IF ~h.decays THEN h ELSE d
  BY DEF Decayed
<1> HIDE DEF h
<1>4. h.left \in Nat /\ h.left <= Lifetime + DecayTime /\ h.clean \in BOOLEAN
  BY <1>2, RocketFields, Constants
<1>5. n \in 0..(Lifetime + DecayTime) /\ b \in BOOLEAN /\ (~b => n >= 1)
  BY <1>2, <1>4, Constants
<1> HIDE DEF n, b
<1>6. d \in RocketType /\ d.left = n /\ d.clean = b
  BY <1>2, <1>5 DEF RocketType
<1> QED BY <1>2, <1>3, <1>5, <1>6

LEMMA RocketsKept == Shape /\ Rockets /\ [Next]_vars => Rockets'
<1> SUFFICES ASSUME Shape, Rockets, [Next]_vars
             PROVE  Rockets'
  OBVIOUS
<1>1. \A r \in Flying : rocket[r] \in RocketType /\ r \in RocketId /\ rocket[r] # None
  BY DEF Rockets, Flying
<1>2. \A r \in RocketId : r \notin Flying => rocket[r] = None
  BY DEF Flying
\* It is enough to look at each rocket that is there afterwards.
<1>3. ASSUME rocket' = [r \in RocketId |-> rocket'[r]],
             \A r \in RocketId : rocket'[r] # None =>
                 /\ rocket'[r] \in RocketType
                 /\ IF rocket'[r].clean THEN phase' \in {"hp", "acts", "blasts"}
                    ELSE rocket'[r].left >= 1
      PROVE  Rockets'
  <2>1. rocket' \in [RocketId -> RocketType \cup {None}]
    BY <1>3
  <2> QED BY <1>3, <2>1 DEF Rockets, Flying
<1>4. ASSUME rocket' = rocket,
             phase \in {"hp", "acts", "blasts"} => phase' \in {"hp", "acts", "blasts"}
      PROVE  Rockets'
  BY <1>4 DEF Rockets, Flying
<1>5. CASE HandleEvents \/ Rules \/ Pause \/ UNCHANGED vars
  BY <1>4, <1>5 DEF HandleEvents, Rules, Pause, space, vars
<1>6. ASSUME NEW p \in Player,
             \/ \E t \in Turret, at \in ShipId \cup Mineral : Shoot(p, t, at)
             \/ Launch(p)
             \/ \E m \in Mineral \cup {None} : Tractor(p, m)
      PROVE  Rockets'
  BY <1>4, <1>6 DEF Shoot, Launch, Tractor, Order
<1>7. CASE Restart
  <2>1. rocket' = [r \in RocketId |-> None]
    BY <1>7 DEF Restart
  <2> QED BY <1>3, <2>1
<1>8. CASE Fly
  <2>1. PICK collide \in SUBSET Flying : rocket' = RocketsAfter(collide)
    BY <1>8 DEF Fly
  <2>2. phase = "fly" /\ phase' = "hp"
    BY <1>8 DEF Fly
  <2>3. \A r \in RocketId : rocket'[r] =
           IF r \notin Flying THEN None
           ELSE Decayed(IF r \in collide THEN Collided(rocket[r]) ELSE rocket[r])
    BY <2>1 DEF RocketsAfter
  <2>4. ASSUME NEW r \in Flying
        PROVE  rocket'[r] \in RocketType /\ (~rocket'[r].clean => rocket'[r].left >= 1)
    <3> DEFINE f == IF r \in collide THEN Collided(rocket[r]) ELSE rocket[r]
    <3>1. rocket[r] \in RocketType /\ rocket[r].left >= 1
      BY <1>1, <2>2 DEF Rockets
    <3>2. f \in RocketType /\ f.left >= 1
      BY <3>1, MarkedRockets
    <3>3. rocket'[r] = Decayed(f)
      BY <1>1, <2>3
    <3> HIDE DEF f
    <3> QED BY <3>2, <3>3, DecayedRockets
  <2>5. rocket' = [r \in RocketId |-> rocket'[r]]
    BY <2>1 DEF RocketsAfter
  <2> QED BY <1>3, <2>2, <2>3, <2>4, <2>5
<1>9. CASE HpEffects
  <2>1. /\ rocket' = [r \in RocketId |-> IF r \in Blown
                                         THEN [rocket[r] EXCEPT !.clean = TRUE] ELSE rocket[r]]
        /\ phase = "hp" /\ phase' = "acts"
    BY <1>9 DEF HpEffects
  <2>2. ASSUME NEW r \in RocketId, rocket'[r] # None
        PROVE  /\ rocket'[r] \in RocketType
               /\ rocket'[r].clean \/ rocket'[r].left >= 1
    <3>1. CASE r \in Blown
      <4>1. rocket'[r] = [rocket[r] EXCEPT !.clean = TRUE]
        BY <2>1, <3>1
      <4> QED BY <1>1, <3>1, <4>1, MarkedRockets DEF Blown
    <3>2. CASE r \notin Blown
      BY <1>1, <1>2, <2>1, <2>2, <3>2 DEF Rockets
    <3> QED BY <3>1, <3>2
  <2>3. rocket' = [r \in RocketId |-> rocket'[r]]
    BY <2>1
  <2> QED BY <1>3, <2>1, <2>2, <2>3
<1>10. CASE FinishActs
  <2> DEFINE x == [left |-> Lifetime, decays |-> FALSE, dead |-> FALSE, clean |-> FALSE]
  <2>1. PICK new \in SUBSET FreeRockets :
           rocket' = [r \in RocketId |-> IF r \in new THEN x ELSE rocket[r]]
    BY <1>10 DEF FinishActs
  <2>2. phase = "acts" /\ phase' = "blasts"
    BY <1>10 DEF FinishActs
  <2>3. x \in RocketType /\ x.left >= 1 /\ ~x.clean
    BY Constants DEF RocketType
  <2> HIDE DEF x
  <2>4. ASSUME NEW r \in RocketId, rocket'[r] # None
        PROVE  /\ rocket'[r] \in RocketType
               /\ rocket'[r].clean \/ rocket'[r].left >= 1
    <3>1. CASE r \in new
      BY <2>1, <2>3, <3>1
    <3>2. CASE r \notin new
      BY <1>1, <1>2, <2>1, <2>4, <3>2 DEF Rockets
    <3> QED BY <3>1, <3>2
  <2>5. rocket' = [r \in RocketId |-> rocket'[r]]
    BY <2>1
  <2> QED BY <1>3, <2>2, <2>4, <2>5
<1>11. ASSUME NEW b \in blasts, Explode(b)
       PROVE  Rockets'
  <2>1. phase = "blasts" /\ phase' = "blasts"
    BY <1>11 DEF Explode
  <2>2. PICK now : rocket' = [r \in RocketId |-> IF r \in Flying \cap now
                                THEN [rocket[r] EXCEPT !.clean = TRUE] ELSE rocket[r]]
    BY <1>11 DEF Explode
  <2>3. ASSUME NEW r \in RocketId, rocket'[r] # None
        PROVE  /\ rocket'[r] \in RocketType
               /\ rocket'[r].clean \/ rocket'[r].left >= 1
    <3>1. CASE r \in Flying \cap now
      <4>1. rocket'[r] = [rocket[r] EXCEPT !.clean = TRUE]
        BY <2>2, <3>1
      <4> QED BY <1>1, <3>1, <4>1, MarkedRockets
    <3>2. CASE r \notin Flying \cap now
      BY <1>1, <1>2, <2>2, <2>3, <3>2 DEF Rockets
    <3> QED BY <3>1, <3>2
  <2>4. rocket' = [r \in RocketId |-> rocket'[r]]
    BY <2>2
  <2> QED BY <1>3, <2>1, <2>3, <2>4
<1>12. CASE Cleanup
  <2>1. rocket' = Cleaned(rocket)
    BY <1>12 DEF Cleanup
  <2>2. /\ rocket' = [r \in RocketId |-> rocket'[r]]
        /\ \A r \in RocketId : rocket'[r] = IF rocket[r] = None THEN None
                                            ELSE IF rocket[r].clean THEN None ELSE rocket[r]
    BY <2>1 DEF Cleaned, Rockets
  <2> QED BY <1>1, <1>2, <1>3, <2>2 DEF Rockets
<1> QED BY <1>5, <1>6, <1>7, <1>8, <1>9, <1>10, <1>11, <1>12 DEF Next

\* Between the end of one update and the deaths of the next no health changes.
LEMMA QuietHealths ==
    ASSUME Healths, phase \notin {"acts", "blasts"}, phase' \notin {"acts", "blasts"},
           \A s \in Present' :
               \/ /\ s \in Present
                  /\ ship'[s].pirate = ship[s].pirate /\ ship'[s].hp = ship[s].hp
               \/ ship'[s].hp = IF ship'[s].pirate THEN PirateHp ELSE PlayerHp
    PROVE  Healths'
<1>1. ASSUME NEW s \in Present'
      PROVE  /\ ship'[s].hp <= IF ship'[s].pirate THEN PirateHp ELSE PlayerHp
             /\ ship'[s].hp >= -Volley
  <2>1. CASE s \in Present /\ ship'[s].pirate = ship[s].pirate /\ ship'[s].hp = ship[s].hp
    BY <2>1 DEF Healths
  <2>2. CASE ship'[s].hp = IF ship'[s].pirate THEN PirateHp ELSE PlayerHp
    BY <2>2, Constants, Volleys
  <2> QED BY <1>1, <2>1, <2>2
<1>2. ASSUME NEW s \in Present'
      PROVE  /\ ship'[s].hp <= IF ship'[s].pirate THEN PirateHp ELSE PlayerHp
             /\ ship'[s].hp >= IF phase' = "blasts" /\ ship'[s].clean
                               THEN -2 * Volley' ELSE -Volley'
             /\ phase' = "acts" /\ ship'[s].hp <= 0 => ship'[s].clean
  BY <1>1, <1>2 DEF Volley
<1> QED BY <1>2 DEF Healths

LEMMA SpawnsQuiet ==
    ASSUME Healths, phase \notin {"acts", "blasts"}, phase' \notin {"acts", "blasts"},
           NEW ids, NEW pirate \in BOOLEAN,
           \A s \in Present' :
               \/ /\ s \in Present
                  /\ ship'[s].pirate = ship[s].pirate /\ ship'[s].hp = ship[s].hp
               \/ ship'[s] = NewShip(pirate)
    PROVE  Healths'
<1>1. NewShip(pirate).hp = IF NewShip(pirate).pirate THEN PirateHp ELSE PlayerHp
  BY NewShips
<1>2. \A s \in Present' :
         \/ /\ s \in Present
            /\ ship'[s].pirate = ship[s].pirate /\ ship'[s].hp = ship[s].hp
         \/ ship'[s].hp = IF ship'[s].pirate THEN PirateHp ELSE PlayerHp
  BY <1>1
<1> QED BY <1>2, QuietHealths

LEMMA HealthsQuiet ==
    ASSUME IInv, Healths, \/ HandleEvents \/ Rules \/ Pause \/ Restart \/ Fly
                          \/ \E p \in Player :
                               \/ \E t \in Turret, at \in ShipId \cup Mineral : Shoot(p, t, at)
                               \/ Launch(p)
                               \/ \E m \in Mineral \cup {None} : Tractor(p, m)
    PROVE  Healths'
<1>0. /\ \A s \in Present : s \in ShipId /\ ship[s] # None /\ ship[s] \in AnyShipType
      /\ \A s \in ShipId : s \notin Present => ship[s] = None
      /\ \A s \in Present' : s \in ShipId /\ ship'[s] # None
  BY There DEF IInv, Present
<1>1. CASE HandleEvents
  <2>1. PICK new \in SUBSET Free : ship' = Spawned(Marked(ship), new, TRUE)
    BY <1>1 DEF HandleEvents
  <2>2. \A s \in ShipId : ship'[s] = IF s \in new THEN NewShip(TRUE)
                                     ELSE IF s \in Landed /\ ship[s] # None
                                     THEN [ship[s] EXCEPT !.clean = TRUE] ELSE ship[s]
    BY <2>1 DEF Spawned, Marked
  <2>3. \A s \in Present : LET d == [ship[s] EXCEPT !.clean = TRUE]
                           IN  d.pirate = ship[s].pirate /\ d.hp = ship[s].hp
    BY <1>0, CleanedShips
  <2>4. ASSUME NEW s \in Present'
        PROVE  \/ /\ s \in Present
                  /\ ship'[s].pirate = ship[s].pirate /\ ship'[s].hp = ship[s].hp
               \/ ship'[s] = NewShip(TRUE)
    <3>1. CASE s \in new
      BY <1>0, <2>2, <3>1
    <3>2. CASE s \notin new /\ s \in Present
      BY <1>0, <2>2, <2>3, <3>2
    <3>3. CASE s \notin new /\ s \notin Present
      BY <1>0, <2>2, <3>3
    <3> QED BY <3>1, <3>2, <3>3
  <2>5. phase = "events" /\ phase' = "orders" /\ TRUE \in BOOLEAN
    BY <1>1 DEF HandleEvents
  <2> QED BY <2>4, <2>5, SpawnsQuiet
<1>2. CASE Rules
  <2>1. PICK ids : ship' = Spawned(ship, ids, FALSE)
    BY <1>2 DEF Rules
  <2>2. \A s \in ShipId : ship'[s] = IF s \in ids THEN NewShip(FALSE) ELSE ship[s]
    BY <2>1 DEF Spawned
  <2>3. \A s \in Present' :
          \/ /\ s \in Present
             /\ ship'[s].pirate = ship[s].pirate /\ ship'[s].hp = ship[s].hp
          \/ ship'[s] = NewShip(FALSE)
    BY <1>0, <2>2
  <2>4. phase = "orders" /\ phase' \in {"events", "fly"} /\ FALSE \in BOOLEAN
    BY <1>2 DEF Rules
  <2> QED BY <2>3, <2>4, SpawnsQuiet
<1>3. CASE Pause
  <2>1. phase = "orders" /\ phase' = "events" /\ ship' = ship /\ Present' = Present
    BY <1>3 DEF Pause, space, Present
  <2> QED BY <2>1, QuietHealths
<1>4. CASE Restart
  <2>1. PICK ids : ship' = Spawned([s \in ShipId |-> None], ids, FALSE)
    BY <1>4 DEF Restart
  <2>2. \A s \in ShipId : ship'[s] = IF s \in ids THEN NewShip(FALSE) ELSE None
    BY <2>1 DEF Spawned
  <2>3. \A s \in Present' : ship'[s] = NewShip(FALSE)
    BY <1>0, <2>2
  <2>4. phase = "orders" /\ phase' = "events" /\ FALSE \in BOOLEAN
    BY <1>4 DEF Restart
  <2> QED BY <2>3, <2>4, SpawnsQuiet
<1>5. CASE Fly
  <2>1. PICK far, got :
         ship' = [s \in ShipId |-> IF s \notin Present THEN None
                       ELSE [Cooled(ship[s]) EXCEPT !.tractor = IF Pulls(s, far) THEN @ ELSE None]]
    BY <1>5 DEF Fly
  <2>2. ASSUME NEW s \in Present'
        PROVE  /\ s \in Present
               /\ ship'[s].pirate = ship[s].pirate /\ ship'[s].hp = ship[s].hp
    <3>1. s \in Present
      BY <1>0, <2>1
    <3> DEFINE c == ship[s]
               m == IF Pulls(s, far) THEN c.tractor ELSE None
    <3>2. c \in AnyShipType
      BY <1>0, <3>1
    <3>3. m \in Mineral \cup {None} /\ Cooled(c).tractor = c.tractor
      BY <3>2 DEF Cooled, AnyShipType, ShipOf
    <3>4. ship'[s] = [Cooled(c) EXCEPT !.tractor = m]
      BY <1>0, <2>1, <3>1, <3>3
    <3> HIDE DEF c, m
    <3>5. ship'[s].pirate = c.pirate /\ ship'[s].hp = c.hp
      BY <3>2, <3>3, <3>4, CooledShips
    <3> QED BY <3>1, <3>5 DEF c
  <2>3. phase = "fly" /\ phase' = "hp"
    BY <1>5 DEF Fly
  <2> QED BY <2>2, <2>3, QuietHealths
<1>6. ASSUME NEW p \in Player,
             \/ \E t \in Turret, at \in ShipId \cup Mineral : Shoot(p, t, at)
             \/ Launch(p)
             \/ \E m \in Mineral \cup {None} : Tractor(p, m)
      PROVE  Healths'
  <2> DEFINE c == ship[own[p]]
  <2>1. Commands(p)
    BY <1>6 DEF Shoot, Launch, Tractor
  <2>2. c \in AnyShipType /\ InStep(c, 0)
    BY <1>0, <2>1 DEF IInv, Turrets, Ahead, Commands
  <2>3. PICK d : Order(p, d) /\ d.hp = c.hp /\ d.pirate = c.pirate
    <3>1. ASSUME NEW t \in Turret, NEW at \in ShipId \cup Mineral, Shoot(p, t, at)
          PROVE  \E d : Order(p, d) /\ d.hp = c.hp /\ d.pirate = c.pirate
      <4>1. AtRest(c, t) /\ Order(p, Started(c, t, "shoot", at))
        BY <3>1 DEF Shoot
      <4>2. /\ Started(c, t, "shoot", at).hp = c.hp
            /\ Started(c, t, "shoot", at).pirate = c.pirate
        BY <2>2, <4>1, StartedShips
      <4> QED BY <4>1, <4>2
    <3>2. ASSUME Launch(p)
          PROVE  \E d : Order(p, d) /\ d.hp = c.hp /\ d.pirate = c.pirate
      <4>1. AtRest(c, Rack) /\ Order(p, Started(c, Rack, "launch", None)) /\ Rack \in Turret
        BY <3>2, BattleAssumption DEF Launch
      <4>2. /\ Started(c, Rack, "launch", None).hp = c.hp
            /\ Started(c, Rack, "launch", None).pirate = c.pirate
        BY <2>2, <4>1, StartedShips
      <4> QED BY <4>1, <4>2
    <3>3. ASSUME NEW m \in Mineral \cup {None}, Tractor(p, m)
          PROVE  \E d : Order(p, d) /\ d.hp = c.hp /\ d.pirate = c.pirate
      <4>1. Order(p, [c EXCEPT !.tractor = m])
        BY <3>3 DEF Tractor
      <4>2. [c EXCEPT !.tractor = m].hp = c.hp /\ [c EXCEPT !.tractor = m].pirate = c.pirate
        BY <2>2 DEF AnyShipType, ShipOf
      <4> QED BY <4>1, <4>2
    <3> QED BY <1>6, <3>1, <3>2, <3>3
  <2>4. /\ phase = "orders" /\ phase' = "orders" /\ ship' = [ship EXCEPT ![own[p]] = d]
        /\ own[p] \in Present
    BY <2>1, <2>3 DEF Commands, Order
  <2>5. \A s \in ShipId : ship'[s] = IF s = own[p] THEN d ELSE ship[s]
    BY <2>4 DEF IInv, Shape
  <2>6. \A s \in Present' : /\ s \in Present
                            /\ ship'[s].pirate = ship[s].pirate /\ ship'[s].hp = ship[s].hp
    BY <1>0, <2>3, <2>4, <2>5
  <2> QED BY <2>4, <2>6, QuietHealths
<1> QED BY <1>1, <1>2, <1>3, <1>4, <1>5, <1>6

LEMMA HealthsLooked ==
    ASSUME IInv, Healths, HpEffects
    PROVE  Healths'
<1>1. phase = "hp" /\ phase' = "acts"
  BY DEF HpEffects
<1>2. PICK burnt \in SUBSET Present :
        \E healed \in SUBSET {s \in Present \ burnt : ~ship[s].pirate /\ ship[s].hp < PlayerHp} :
          TakeHealth(HealthAfter(burnt, healed))
  BY DEF HpEffects
<1>3. PICK healed \in SUBSET {s \in Present \ burnt : ~ship[s].pirate /\ ship[s].hp < PlayerHp} :
        TakeHealth(HealthAfter(burnt, healed))
  BY <1>2
<1> DEFINE after == HealthAfter(burnt, healed)
<1>4. /\ \A s \in Present : s \in ShipId /\ ship[s] \in AnyShipType
      /\ \A s \in Present' : s \in ShipId /\ ship'[s] # None
  BY There DEF IInv, Present
<1>5. \A s \in ShipId : ship'[s] = IF s \notin Present THEN None
                                   ELSE [after[s] EXCEPT !.clean = @ \/ after[s].hp <= 0]
  <2>1. ship' = [s \in ShipId |-> IF s \notin Present THEN None
                                  ELSE [after[s] EXCEPT !.clean = @
                                          \/ s \in {x \in Present : after[x].hp <= 0}]]
    BY <1>3 DEF TakeHealth
  <2> HIDE DEF after
  <2> QED BY <2>1
<1>6. \A s \in Present : after[s] = IF s \in burnt THEN Hurt(ship[s], StarHit)
                                    ELSE IF s \in healed THEN Healed(ship[s]) ELSE ship[s]
  BY DEF HealthAfter
<1> HIDE DEF after
<1>7. ASSUME NEW s \in Present
      PROVE  /\ after[s] \in AnyShipType /\ after[s].pirate = ship[s].pirate
             /\ after[s].hp <= IF ship[s].pirate THEN PirateHp ELSE PlayerHp
             /\ after[s].hp >= -Volley
  <2> DEFINE c == ship[s]
  <2>1. c \in AnyShipType /\ c.hp \in Int /\ c.pirate \in BOOLEAN
    BY <1>4, <1>7, ShipFields
  <2>2. /\ c.hp <= IF c.pirate THEN PirateHp ELSE PlayerHp
        /\ c.hp >= -Volley
    BY <1>1, <1>7 DEF Healths
  <2>3. \/ after[s] = Hurt(c, StarHit)
        \/ after[s] = Healed(c) /\ ~c.pirate
        \/ after[s] = c
    BY <1>6, <1>7
  <2> HIDE DEF c
  <2>4. CASE after[s] = Hurt(c, StarHit)
    <3> DEFINE d == Hurt(c, StarHit)
    <3>1. /\ d \in AnyShipType /\ d.pirate = c.pirate
          /\ d.hp = IF c.hp > StarHit THEN c.hp - StarHit ELSE 0
      BY <2>1, Constants, HurtShips
    <3> HIDE DEF d
    <3>2. /\ d.hp <= IF c.pirate THEN PirateHp ELSE PlayerHp
          /\ d.hp >= -Volley
      BY <2>1, <2>2, <3>1, Constants, Volleys
    <3> QED BY <2>4, <3>1, <3>2 DEF c, d
  <2>5. CASE after[s] = Healed(c) /\ ~c.pirate
    <3> DEFINE d == Healed(c)
    <3>1. /\ d \in AnyShipType /\ d.pirate = c.pirate /\ d.hp = Fewer(c.hp + Heal, PlayerHp)
      BY <2>1, HealedShips
    <3> HIDE DEF d
    <3>2. d.hp <= PlayerHp /\ d.hp >= -Volley
      BY <2>1, <2>2, <3>1, Constants, Volleys DEF Fewer
    <3> QED BY <2>5, <3>1, <3>2 DEF c, d
  <2>6. CASE after[s] = c
    BY <2>1, <2>2, <2>6 DEF c
  <2> QED BY <2>3, <2>4, <2>5, <2>6
<1>8. ASSUME NEW s \in Present'
      PROVE  /\ ship'[s].hp <= IF ship'[s].pirate THEN PirateHp ELSE PlayerHp
             /\ ship'[s].hp >= -Volley
             /\ ship'[s].hp <= 0 => ship'[s].clean
  <2>1. s \in Present
    BY <1>4, <1>5
  <2> DEFINE a == after[s]
             b == a.clean \/ a.hp <= 0
             d == [a EXCEPT !.clean = b]
  <2>2. ship'[s] = d
    BY <1>4, <1>5, <2>1
  <2>3. a \in AnyShipType /\ b \in BOOLEAN
    BY <1>7, <2>1, ShipFields
  <2>4. a.hp <= 0 => b
    OBVIOUS
  <2> HIDE DEF b
  <2>5. d.clean = b /\ d.hp = a.hp /\ d.pirate = a.pirate
    BY <2>3, CleanedShips
  <2> QED BY <1>7, <2>1, <2>2, <2>4, <2>5
<1>9. Volley' = Volley
  BY DEF Volley
<1> QED BY <1>1, <1>8, <1>9 DEF Healths

LEMMA HealthsAfterShots ==
    ASSUME IInv, Healths, FinishActs
    PROVE  Healths'
<1>1. phase = "acts" /\ phase' = "blasts"
  BY DEF FinishActs
<1>2. PICK landing \in SUBSET Approaching :
        \E last \in [Present -> Present \cup {None}] : Ended(landing, last)
  BY ActsEnd
<1>3. /\ \A s \in Present :
           /\ ship'[s].hp = ship[s].hp - Cardinality(ShotsOn(s)) * Shot
           /\ ship'[s].pirate = ship[s].pirate /\ ship'[s].clean = ship[s].clean
      /\ \A s \in ShipId : s \notin Present => ship'[s] = None
  BY <1>2 DEF Ended
<1>4. ASSUME NEW s \in Present'
      PROVE  /\ ship'[s].hp <= IF ship'[s].pirate THEN PirateHp ELSE PlayerHp
             /\ ship'[s].hp >= IF ship'[s].clean THEN -2 * Volley ELSE -Volley
  <2>1. s \in Present
    BY <1>3 DEF Present
  <2> DEFINE k == Cardinality(ShotsOn(s)) * Shot
             h == ship[s].hp
             v == Volley
  <2>2. k \in Nat /\ k <= v /\ h \in Int /\ v \in Nat
    BY <2>1, ShotsBound, There, ShipFields, Volleys DEF IInv
  <2>3. /\ h <= IF ship[s].pirate THEN PirateHp ELSE PlayerHp
        /\ h >= -v /\ (h <= 0 => ship[s].clean)
    BY <1>1, <2>1 DEF Healths
  <2>4. /\ ship'[s].hp = h - k /\ ship'[s].pirate = ship[s].pirate
        /\ ship'[s].clean = ship[s].clean
    BY <1>3, <2>1
  <2> HIDE DEF k, h, v
  <2>5. /\ h - k <= IF ship[s].pirate THEN PirateHp ELSE PlayerHp
        /\ h - k >= IF ship[s].clean THEN -2 * v ELSE -v
    BY <2>2, <2>3, Constants
  <2> QED BY <2>4, <2>5 DEF v
<1>5. Volley' = Volley
  BY DEF Volley
<1> QED BY <1>1, <1>4, <1>5 DEF Healths

LEMMA HealthsAfterBlast ==
    ASSUME IInv, Healths, NEW b \in blasts, Explode(b)
    PROVE  Healths'
<1>1. phase = "blasts" /\ phase' = "blasts"
  BY DEF Explode
<1>2. PICK now : ship' = [s \in ShipId |-> IF s \in Present \cap now
                                           THEN Hurt(ship[s], b.power) ELSE ship[s]]
  BY DEF Explode
<1>3. b.power \in Nat
  <2>1. b \in BlastType
    BY DEF IInv, Shape
  <2> QED BY <2>1, Constants DEF BlastType
<1>4. ASSUME NEW s \in Present'
      PROVE  /\ ship'[s].hp <= IF ship'[s].pirate THEN PirateHp ELSE PlayerHp
             /\ ship'[s].hp >= IF ship'[s].clean THEN -2 * Volley ELSE -Volley
  <2>1. s \in Present
    BY <1>2 DEF Present
  <2> DEFINE c == ship[s]
             d == Hurt(c, b.power)
             n == b.power
             v == Volley
  <2>2. c \in AnyShipType /\ c.hp \in Int /\ c.clean \in BOOLEAN /\ s \in ShipId /\ v \in Nat
    BY <2>1, There, ShipFields, Volleys DEF IInv
  <2>3. /\ c.hp <= IF c.pirate THEN PirateHp ELSE PlayerHp
        /\ c.hp >= IF c.clean THEN -2 * v ELSE -v
    BY <1>1, <2>1 DEF Healths
  <2>4. ship'[s] = d \/ ship'[s] = c
    BY <1>2, <2>2
  <2> HIDE DEF c
  <2>5. /\ d.hp = IF c.hp > n THEN c.hp - n ELSE 0
        /\ d.clean = (c.clean \/ c.hp <= n) /\ d.pirate = c.pirate /\ n \in Nat
    BY <1>3, <2>2, HurtShips
  <2> HIDE DEF d, n, v
  <2>6. /\ d.hp <= IF d.pirate THEN PirateHp ELSE PlayerHp
        /\ d.hp >= 0
    BY <2>2, <2>3, <2>5, Constants
  <2>7. d.hp >= IF d.clean THEN -2 * v ELSE -v
    <3>1. d.hp \in Int
      BY <2>2, <2>5
    <3> QED BY <2>2, <2>6, <3>1
  <2> QED BY <2>3, <2>4, <2>6, <2>7 DEF v
<1>5. Volley' = Volley
  BY DEF Volley
<1> QED BY <1>1, <1>4, <1>5 DEF Healths

LEMMA HealthsKept == IInv /\ Healths /\ [Next]_vars => Healths'
<1> SUFFICES ASSUME IInv, Healths, [Next]_vars
             PROVE  Healths'
  OBVIOUS
<1>1. CASE Cleanup
  <2>1. phase = "blasts" /\ phase' = "events" /\ ship' = Cleaned(ship)
    BY <1>1 DEF Cleanup
  <2>2. \A s \in ShipId : ship'[s] = IF ship[s] = None THEN None
                                     ELSE IF ship[s].clean THEN None ELSE ship[s]
    BY <2>1 DEF Cleaned, IInv, Shape
  <2>3. \A s \in Present' : s \in Present /\ ship'[s] = ship[s] /\ ~ship[s].clean
    BY <2>2 DEF Present
  <2>4. Volley' = Volley
    BY DEF Volley
  <2> QED BY <2>1, <2>3, <2>4 DEF Healths
<1>2. CASE UNCHANGED vars
  BY <1>2 DEF Healths, Present, Volley, vars
<1> QED BY <1>1, <1>2, HealthsQuiet, HealthsLooked, HealthsAfterShots, HealthsAfterBlast DEF Next

LEMMA PresentFinite ==
    ASSUME Shape
    PROVE  IsFiniteSet(Present)
<1>1. Present \subseteq ShipId
  BY There
<1> QED BY <1>1, FS_Subset, BattleAssumption

LEMMA Landings ==
    ASSUME IsFiniteSet(events)
    PROVE  /\ Cardinality(Landed) \in Nat
           /\ \A p \in Player : Bounties(p) \in Nat
<1> DEFINE D == {e \in events : e.kind = "docked"}
           f == [e \in D |-> e.ship]
           T == {e.ship : e \in D}
<1>1. IsFiniteSet(D)
  BY FS_Subset
<1>2. f \in Surjection(D, T)
  BY DEF Surjection
<1>3. Landed = T
  BY DEF Landed
<1> HIDE DEF D, f, T
<1>4. IsFiniteSet(Landed)
  BY <1>1, <1>2, <1>3, FS_Surjection
<1>5. ASSUME NEW p \in Player
      PROVE  Bounties(p) \in Nat
  <2> DEFINE B == {e \in Dead : e.pirate /\ e.dealer # None /\ e.dealer = own[p]}
  <2>1. B \subseteq events
    BY DEF Dead
  <2>2. IsFiniteSet(B)
    BY <2>1, FS_Subset
  <2>3. Bounties(p) = Cardinality(B)
    BY DEF Bounties
  <2> QED BY <2>2, <2>3, FS_CardinalityType
<1> QED BY <1>4, <1>5, FS_CardinalityType

LEMMA EventsFinite == Shape /\ IsFiniteSet(events) /\ [Next]_vars => IsFiniteSet(events')
<1> SUFFICES ASSUME Shape, IsFiniteSet(events), [Next]_vars
             PROVE  IsFiniteSet(events')
  OBVIOUS
<1>1. CASE HpEffects
  <2>1. PICK after : TakeHealth(after)
    BY <1>1 DEF HpEffects
  <2> DEFINE died == {s \in Present : after[s].hp <= 0}
             x(s) == [kind |-> "died", ship |-> s, pirate |-> ship[s].pirate,
                      dealer |-> after[s].dealer]
             T == {x(s) : s \in died}
             f == [s \in died |-> x(s)]
  <2>2. events' = events \cup T
    BY <2>1 DEF TakeHealth
  <2>3. IsFiniteSet(died)
    BY PresentFinite, FS_Subset
  <2>4. f \in Surjection(died, T)
    BY DEF Surjection
  <2> HIDE DEF died, x, T, f
  <2>5. IsFiniteSet(T)
    BY <2>3, <2>4, FS_Surjection
  <2> QED BY <2>2, <2>5, FS_Union
<1>2. CASE FinishActs
  <2>1. PICK landing \in SUBSET Approaching :
          events' = events \cup {[kind |-> "docked", ship |-> s, pirate |-> TRUE,
                                  dealer |-> None] : s \in landing}
    BY <1>2 DEF FinishActs
  <2> DEFINE x(s) == [kind |-> "docked", ship |-> s, pirate |-> TRUE, dealer |-> None]
             T == {x(s) : s \in landing}
             f == [s \in landing |-> x(s)]
  <2>2. events' = events \cup T
    BY <2>1
  <2>3. IsFiniteSet(landing)
    <3>1. landing \subseteq Present
      BY DEF Approaching
    <3> QED BY <3>1, PresentFinite, FS_Subset
  <2>4. f \in Surjection(landing, T)
    BY DEF Surjection
  <2> HIDE DEF x, T, f
  <2>5. IsFiniteSet(T)
    BY <2>3, <2>4, FS_Surjection
  <2> QED BY <2>2, <2>5, FS_Union
<1>3. CASE HandleEvents \/ Restart
  <2>1. events' = {}
    BY <1>3 DEF HandleEvents, Restart
  <2> QED BY <2>1, FS_EmptySet
<1>4. CASE Rules \/ Pause \/ Fly \/ Cleanup \/ UNCHANGED vars
  BY <1>4 DEF Rules, Pause, Fly, Cleanup, vars
<1>5. ASSUME NEW p \in Player,
             \/ \E t \in Turret, at \in ShipId \cup Mineral : Shoot(p, t, at)
             \/ Launch(p)
             \/ \E m \in Mineral \cup {None} : Tractor(p, m)
      PROVE  IsFiniteSet(events')
  BY <1>5 DEF Shoot, Launch, Tractor, Order
<1>6. ASSUME NEW b \in blasts, Explode(b)
      PROVE  IsFiniteSet(events')
  BY <1>6 DEF Explode
<1> QED BY <1>1, <1>2, <1>3, <1>4, <1>5, <1>6 DEF Next

\* What floats is never more than update_state_minerals makes.
LEMMA FloatsKept ==
    Shape /\ Cardinality(floats) <= MaxMinerals /\ [Next]_vars
      => Cardinality(floats') <= MaxMinerals
<1> SUFFICES ASSUME Shape, Cardinality(floats) <= MaxMinerals, [Next]_vars
             PROVE  Cardinality(floats') <= MaxMinerals
  OBVIOUS
<1>1. floats \subseteq Mineral /\ IsFiniteSet(floats) /\ Cardinality(floats) \in Nat
  <2>1. floats \subseteq Mineral
    BY DEF Shape
  <2>2. IsFiniteSet(floats)
    BY <2>1, FS_Subset, BattleAssumption
  <2> QED BY <2>1, <2>2, FS_CardinalityType
<1>2. ASSUME floats' \subseteq floats
      PROVE  Cardinality(floats') <= MaxMinerals
  <2>1. IsFiniteSet(floats') /\ Cardinality(floats') <= Cardinality(floats)
    BY <1>1, <1>2, FS_Subset
  <2>2. Cardinality(floats') \in Nat
    BY <2>1, FS_CardinalityType
  <2> QED BY <1>1, <2>1, <2>2, Constants
<1>3. CASE HpEffects
  <2>1. PICK new \in SUBSET FreeMinerals :
          /\ Cardinality(new) = Fewer(MaxMinerals - Cardinality(floats), Cardinality(FreeMinerals))
          /\ floats' = floats \cup new
    BY <1>3 DEF HpEffects, MineralsGrow
  <2>2. FreeMinerals \subseteq Mineral
    BY DEF FreeMinerals
  <2>3. IsFiniteSet(FreeMinerals)
    BY <2>2, FS_Subset, BattleAssumption
  <2>4. IsFiniteSet(new)
    BY <2>3, FS_Subset
  <2>5. Cardinality(floats \cup new)
          = Cardinality(floats) + Cardinality(new) - Cardinality(floats \cap new)
    BY <1>1, <2>4, FS_Union
  <2>6. Cardinality(floats \cap new) \in Nat
    <3>1. floats \cap new \subseteq floats
      OBVIOUS
    <3>2. IsFiniteSet(floats \cap new)
      BY <1>1, <3>1, FS_Subset
    <3> QED BY <3>2, FS_CardinalityType
  <2>7. Cardinality(new) \in Nat /\ Cardinality(FreeMinerals) \in Nat
    BY <2>3, <2>4, FS_CardinalityType
  <2> DEFINE a == Cardinality(floats)
             b == Cardinality(new)
             i == Cardinality(floats \cap new)
             r == Cardinality(FreeMinerals)
             z == Cardinality(floats')
  <2>8. /\ a \in Nat /\ b \in Nat /\ i \in Nat /\ r \in Nat /\ z = a + b - i
        /\ b = Fewer(MaxMinerals - a, r)
    BY <1>1, <2>1, <2>5, <2>6, <2>7
  <2> HIDE DEF a, b, i, r, z
  <2>9. z <= MaxMinerals
    BY <2>8, Constants DEF Fewer
  <2> QED BY <2>9 DEF z
<1>4. CASE Fly
  <2>1. floats' \subseteq floats
    BY <1>4 DEF Fly, FloatsAfter
  <2> QED BY <1>2, <2>1
<1>5. CASE FinishActs
  <2>1. floats' \subseteq floats
    BY <1>5 DEF FinishActs
  <2> QED BY <1>2, <2>1
<1>6. CASE HandleEvents \/ Rules \/ Pause \/ Restart \/ Cleanup \/ UNCHANGED vars
  <2>1. floats' = floats \/ floats' = {}
    BY <1>6 DEF HandleEvents, Rules, Pause, Restart, Cleanup, space, vars
  <2> QED BY <1>2, <2>1
<1>7. ASSUME NEW p \in Player,
             \/ \E t \in Turret, at \in ShipId \cup Mineral : Shoot(p, t, at)
             \/ Launch(p)
             \/ \E m \in Mineral \cup {None} : Tractor(p, m)
      PROVE  floats' = floats
  BY <1>7 DEF Shoot, Launch, Tractor, Order
<1>8. ASSUME NEW b \in blasts, Explode(b)
      PROVE  floats' = floats
  BY <1>8 DEF Explode
<1> QED BY <1>2, <1>3, <1>4, <1>5, <1>6, <1>7, <1>8 DEF Next

LEMMA CountsKept == Shape /\ Counts /\ [Next]_vars => Counts'
<1> SUFFICES ASSUME Shape, Counts, [Next]_vars
             PROVE  Counts'
  OBVIOUS
<1>1. /\ paused \in BOOLEAN /\ over \in BOOLEAN
      /\ home \in Nat /\ home <= HomeHp /\ HomeHp \in Nat
      /\ money \in [Player -> 0..MaxMoney] /\ coming \in 0..Cardinality(Player)
      /\ \A p \in Player : money[p] \in Nat /\ money[p] <= MaxMoney
      /\ Cardinality(Player) \in Nat /\ MaxMoney \in Nat /\ Penalty \in Nat
  BY Constants, Volleys DEF Counts
<1>2. IsFiniteSet(events') /\ Cardinality(floats') <= MaxMinerals
  BY EventsFinite, FloatsKept DEF Counts
<1>3. ASSUME paused' \in BOOLEAN, over' \in BOOLEAN, home' \in 0..HomeHp,
             money' \in [Player -> 0..MaxMoney], coming' \in 0..Cardinality(Player)
      PROVE  Counts'
  BY <1>2, <1>3 DEF Counts
<1>4. 0 \in 0..Cardinality(Player) /\ Cardinality(Player) \in 0..Cardinality(Player)
  BY <1>1
<1>5. CASE HandleEvents
  <2>1. /\ paused' = paused /\ coming' = 0 /\ home' = HomeAfter
        /\ over' = (over \/ (Landed # {} /\ HomeAfter = 0))
        /\ money' = [p \in Player |-> Fewer(money[p] + Bounties(p), MaxMoney)]
    BY <1>5 DEF HandleEvents
  <2>2. Cardinality(Landed) \in Nat /\ \A p \in Player : Bounties(p) \in Nat
    BY Landings DEF Counts
  <2>3. home' \in 0..HomeHp
    BY <1>1, <2>1, <2>2 DEF HomeAfter
  <2>4. \A p \in Player : Fewer(money[p] + Bounties(p), MaxMoney) \in 0..MaxMoney
    BY <1>1, <2>2 DEF Fewer
  <2>5. over' \in BOOLEAN /\ money' \in [Player -> 0..MaxMoney]
    BY <1>1, <2>1, <2>4
  <2> QED BY <1>1, <1>3, <1>4, <2>1, <2>3, <2>5
<1>6. CASE Rules
  <2>1. paused' \in {over, TRUE} /\ coming' \in {0, Cardinality(Player)}
        /\ UNCHANGED <<over, home, money>>
    BY <1>6 DEF Rules, Wave
  <2>2. home' \in 0..HomeHp /\ money' \in [Player -> 0..MaxMoney]
    BY <1>1, <2>1
  <2> QED BY <1>1, <1>3, <1>4, <2>1, <2>2
<1>7. CASE Pause
  <2>1. coming' \in {0, Cardinality(Player)} /\ UNCHANGED <<paused, over, home, money>>
    BY <1>7 DEF Pause, Wave
  <2>2. home' \in 0..HomeHp /\ money' \in [Player -> 0..MaxMoney]
    BY <1>1, <2>1
  <2> QED BY <1>1, <1>3, <1>4, <2>1, <2>2
<1>8. CASE Restart
  <2>1. /\ paused' = FALSE /\ over' = FALSE /\ home' = HomeHp
        /\ money' = [p \in Player |-> 0] /\ coming' = 0
    BY <1>8 DEF Restart
  <2>2. home' \in 0..HomeHp /\ 0 \in 0..MaxMoney
    BY <1>1, <2>1
  <2>3. money' \in [Player -> 0..MaxMoney]
    BY <2>1, <2>2
  <2> QED BY <1>3, <1>4, <2>1, <2>2, <2>3
<1>9. CASE HpEffects
  <2>1. PICK after : TakeHealth(after)
    BY <1>9 DEF HpEffects
  <2>2. HomeHeals /\ UNCHANGED <<paused, over, coming>>
    BY <1>9 DEF HpEffects
  <2> DEFINE died == {s \in Present : after[s].hp <= 0}
             x(p) == IF own[p] \notin died THEN money[p]
                     ELSE IF money[p] > Penalty THEN money[p] - Penalty ELSE 0
  <2>3. money' = [p \in Player |-> x(p)]
    BY <2>1 DEF TakeHealth
  <2>4. \A p \in Player : x(p) \in 0..MaxMoney
    <3> HIDE DEF died
    <3> QED BY <1>1
  <2> HIDE DEF x
  <2>5. money' \in [Player -> 0..MaxMoney]
    BY <2>3, <2>4
  <2>6. home' \in 0..HomeHp
    BY <1>1, <2>2 DEF HomeHeals, Fewer
  <2> QED BY <1>1, <1>3, <2>2, <2>5, <2>6
<1>10. ASSUME NEW b \in blasts, Explode(b)
       PROVE  Counts'
  <2>1. b \in BlastType
    BY DEF Shape
  <2>2. b.power \in Nat
    BY <2>1, Constants DEF BlastType
  <2>3. UNCHANGED <<paused, over, money, coming>>
    BY <1>10 DEF Explode
  <2>4. PICK now : home' = IF Home \notin now THEN home
                           ELSE IF home > b.power THEN home - b.power ELSE 0
    BY <1>10 DEF Explode
  <2>5. home' \in 0..HomeHp
    BY <1>1, <2>2, <2>4
  <2> QED BY <1>1, <1>3, <2>3, <2>5
<1>11. CASE Fly \/ FinishActs \/ Cleanup \/ UNCHANGED vars
  <2>1. UNCHANGED <<paused, over, home, money, coming>>
    BY <1>11 DEF Fly, FinishActs, Cleanup, vars
  <2> QED BY <1>1, <1>3, <2>1
<1>12. ASSUME NEW p \in Player,
              \/ \E t \in Turret, at \in ShipId \cup Mineral : Shoot(p, t, at)
              \/ Launch(p)
              \/ \E m \in Mineral \cup {None} : Tractor(p, m)
       PROVE  Counts'
  <2>1. UNCHANGED <<paused, over, home, money, coming>>
    BY <1>12 DEF Shoot, Launch, Tractor, Order
  <2> QED BY <1>1, <1>3, <2>1
<1> QED BY <1>5, <1>6, <1>7, <1>8, <1>9, <1>10, <1>11, <1>12 DEF Next

LEMMA BoundsInitially == Init => Healths /\ Rockets /\ Counts
<1> SUFFICES ASSUME Init
             PROVE  Healths /\ Rockets /\ Counts
  OBVIOUS
<1>1. \A s \in Present : ship[s] = NewShip(FALSE)
  BY DEF Init, Spawned, Present
<1>2. Healths
  <2>1. /\ NewShip(FALSE).pirate = FALSE /\ NewShip(FALSE).hp = PlayerHp
        /\ ~NewShip(FALSE).clean
    <3>1. FALSE \in BOOLEAN
      OBVIOUS
    <3> QED BY <3>1, NewShips
  <2>2. phase = "events"
    BY DEF Init
  <2>3. ASSUME NEW s \in Present
        PROVE  /\ ship[s].hp = PlayerHp /\ ship[s].pirate = FALSE /\ ~ship[s].clean
    BY <1>1, <2>1
  <2>4. ASSUME NEW s \in Present
        PROVE  /\ ship[s].hp <= IF ship[s].pirate THEN PirateHp ELSE PlayerHp
               /\ ship[s].hp >= IF phase = "blasts" /\ ship[s].clean THEN -2 * Volley ELSE -Volley
               /\ phase = "acts" /\ ship[s].hp <= 0 => ship[s].clean
    <3> DEFINE h == ship[s].hp
               v == Volley
    <3>1. h = PlayerHp /\ v \in Nat /\ PlayerHp \in Nat /\ PlayerHp > 0
      BY <2>3, <2>4, Constants, Volleys
    <3> HIDE DEF h, v
    <3>2. h <= PlayerHp /\ h >= -v /\ ~(h <= 0)
      BY <3>1
    <3> QED BY <2>2, <2>3, <2>4, <3>2 DEF h, v
  <2> QED BY <2>4 DEF Healths
<1>3. Rockets
  BY DEF Init, Rockets, Flying
<1>4. Counts
  <2>1. IsFiniteSet({}) /\ Cardinality({}) = 0
    BY FS_EmptySet
  <2>2. /\ paused = FALSE /\ over = FALSE /\ home = HomeHp /\ coming = 0
        /\ money = [p \in Player |-> 0] /\ events = {} /\ floats = {}
    BY DEF Init
  <2>3. home \in 0..HomeHp /\ coming \in 0..Cardinality(Player) /\ 0 \in 0..MaxMoney
    BY <2>2, Constants, Volleys
  <2>4. money \in [Player -> 0..MaxMoney]
    BY <2>2, <2>3
  <2>5. IsFiniteSet(events) /\ Cardinality(floats) <= MaxMinerals
    BY <2>1, <2>2, Constants
  <2>6. paused \in BOOLEAN /\ over \in BOOLEAN
    BY <2>2
  <2> QED BY <2>3, <2>4, <2>5, <2>6 DEF Counts
<1> QED BY <1>2, <1>3, <1>4

\* The state keeps its shape: health never rises above that of a new ship nor falls
\* further than the shots of two updates, a decay never runs below 0, and neither the
\* planet, the money nor the minerals pass their limits.
THEOREM TypeCorrect == Spec => []TypeOK
<1>1. ASSUME IInv, Healths, Rockets, Counts
      PROVE  TypeOK
  <2>1. ASSUME NEW s \in Present
        PROVE  ship[s] \in ShipType
    <3> DEFINE c == ship[s]
    <3>1. c \in AnyShipType /\ c.hp \in Int
      BY <1>1, There, ShipFields DEF IInv
    <3>2. /\ c.hp <= IF c.pirate THEN PirateHp ELSE PlayerHp
          /\ c.hp >= IF phase = "blasts" /\ c.clean THEN -2 * Volley ELSE -Volley
      BY <1>1 DEF Healths
    <3> HIDE DEF c
    <3>3. c.hp \in LeastHp..(PlayerHp + PirateHp)
      BY <3>1, <3>2, Constants, Volleys
    <3>4. c \in ShipType
      BY <3>1, <3>3 DEF ShipType, AnyShipType, ShipOf
    <3> QED BY <3>4 DEF c
  <2>2. ship \in [ShipId -> ShipType \cup {None}]
    <3>1. \A s \in ShipId : ship[s] \in ShipType \cup {None}
      BY <1>1, <2>1, There DEF IInv
    <3>2. ship = [s \in ShipId |-> ship[s]]
      BY <1>1 DEF IInv, Shape
    <3> QED BY <3>1, <3>2
  <2>3. \A s \in Present : ship[s].hp <= IF ship[s].pirate THEN PirateHp ELSE PlayerHp
    BY <1>1 DEF Healths
  <2> QED BY <1>1, <2>2, <2>3 DEF TypeOK, IInv, Shape, Rockets, Counts
<1>2. IInv /\ Healths /\ Rockets /\ Counts /\ [Next]_vars
        => Healths' /\ Rockets' /\ Counts'
  BY HealthsKept, RocketsKept, CountsKept DEF IInv
<1> QED BY <1>1, <1>2, BoundsInitially, Invariant, Inductive, Initially, PTL DEF Spec
=============================================================================
