------------------------------- MODULE Battle -------------------------------
(***************************************************************************)
(* Combat in one location of a pirate defence: shots, rockets, blasts,     *)
(* health, deaths and bounties, pirates that land on the planet, and what  *)
(* tractor beams catch (combat.rs, hp.rs, tractoring.rs, pirate_defence.rs,*)
(* abilities.rs, decay.rs and the parts of world.rs that call them).       *)
(*                                                                         *)
(* One update of the room is one piece under the write lock of STATE.  It  *)
(* is split here into the functions it calls, in their order, and phase    *)
(* says which comes next: events, orders, fly, hp, acts, blasts.  Most of  *)
(* what can go wrong is between them: a ship that is dead to one of them   *)
(* and not to the next.                                                    *)
(*                                                                         *)
(* Abstractions.  Time is counted in updates; when a wave, a respawn or a  *)
(* restart is due is open.  Positions are left out: what is near, in range *)
(* or hit is open.  Ids are random in the code and never used twice; here  *)
(* one is used again once nothing refers to it.  The order of the ships is *)
(* left out: whose of several shots is the last is open.  Wrecks, effects  *)
(* and asteroids are left out; containers are pulled as minerals are.      *)
(***************************************************************************)
EXTENDS Vectors, Functions

CONSTANTS
    Player,        \* of the room, bots included
    ShipId,        \* bound: the ships there can be at a time
    RocketId,      \* bound: the rockets there can be at a time
    Mineral,
    Turret, Rack,  \* the turrets of a ship, and the one that launches
    None,
    PlayerHp, PirateHp, HomeHp,        \* health of a ship, a pirate, the planet
    Shot, StarHit, Heal,               \* what a shot, the star, the regeneration do
    WreckBlast, RocketBlast,           \* damage of a blast
    Cooldown,      \* SHOOT_COOLDOWN_TICKS
    Lifetime,      \* PROJECTILE_LIFETIME_TICKS
    DecayTime,     \* WRECK_DECAY_TICKS, which a rocket decays in as well
    BlastTime,     \* radius / spread_speed
    MaxMinerals,   \* MAX_NAT_SPAWN_MINERALS
    Penalty,       \* what a death costs, in bounties
    MaxMoney       \* bound: the bounties a player can have

Home == "home"

ASSUME BattleAssumption ==
    /\ {PlayerHp, PirateHp, HomeHp, Cooldown, Lifetime, DecayTime, BlastTime} \subseteq Nat \ {0}
    /\ {Shot, StarHit, Heal, WreckBlast, RocketBlast, MaxMinerals} \subseteq Nat
    /\ {Penalty, MaxMoney} \subseteq Nat
    /\ Rack \in Turret /\ IsFiniteSet(Turret)
    /\ IsFiniteSet(Player) /\ IsFiniteSet(ShipId) /\ IsFiniteSet(RocketId) /\ IsFiniteSet(Mineral)
    /\ None \notin ShipId \cup RocketId \cup Mineral

VARIABLES
    phase,
    paused,
    over,      \* game_over
    home,      \* the health of the planet
    own,       \* ship_id of each player
    money,
    ship,      \* the ships of the location, None for an id that is not there
    rocket,    \* its projectiles
    blasts,    \* its explosions
    floats,    \* its minerals
    events,    \* the ShipDocked and ShipDied to be handled by the next update
    coming,    \* and the number of PirateSpawns
    bombed,    \* history: whose ship was taken by a blast
    told,      \* history: what was fired about the ships that are there
    caught     \* history: which goods were given to whom in this update

vars == <<phase, paused, over, home, own, money, ship, rocket, blasts, floats, events,
          coming, bombed, told, caught>>
space == <<ship, rocket, blasts, floats>>
history == <<bombed, told, caught>>

\* gen_turrets: every turret is at rest.
NewTurrets == [t \in Turret |-> 0]

BareShip == [pirate |-> FALSE, hp |-> PlayerHp, dealer |-> None, clean |-> FALSE,
             docked |-> FALSE, tractor |-> None, acts |-> <<>>, cool |-> NewTurrets]

\* The templates of a pirate and of a player.
NewShip(pirate) ==
    IF pirate THEN [BareShip EXCEPT !.pirate = TRUE, !.hp = PirateHp] ELSE BareShip

Present == {s \in ShipId : ship[s] # None}
Flying == {r \in RocketId : rocket[r] # None}
Owned == Range(own) \ {None}
Targets(s) == {ship[s].acts[i].at : i \in DOMAIN ship[s].acts}

\* The ids nothing refers to.
Free == {s \in ShipId \ (Present \cup Owned) :
           /\ \A x \in Present : ship[x].dealer # s /\ s \notin Targets(x)
           /\ \A e \in events : e.dealer # s /\ e.ship # s
           /\ \A b \in blasts : b.of # s /\ s \notin b.hit}
FreeRockets == {r \in RocketId \ Flying : \A b \in blasts : b.of # r /\ r \notin b.hit}
FreeMinerals == {m \in Mineral \ (floats \cup {c[2] : c \in caught}) :
                   \A s \in Present : ship[s].tractor # m /\ m \notin Targets(s)}

Fewer(n, m) == IF n < m THEN n ELSE m
Injections(Q, F) == {f \in [Q -> F] : IsInjective(f)}

\* spawn_ship
Spawned(w, ids, pirate) == [s \in ShipId |-> IF s \in ids THEN NewShip(pirate) ELSE w[s]]

Forgotten(ids) == {t \in told : t.ship \notin ids}

-----------------------------------------------------------------------------
(* Events: update_events.                                                  *)

Landed == {e.ship : e \in {e \in events : e.kind = "docked"}}
Dead == {e \in events : e.kind = "died"}

\* on_ship_docked: a pirate that lands is marked and costs the planet a part of
\* its health, which may end the game.
HomeAfter == IF home > Cardinality(Landed) THEN home - Cardinality(Landed) ELSE 0
Marked(w) == [s \in ShipId |-> IF s \in Landed /\ w[s] # None
                               THEN [w[s] EXCEPT !.clean = TRUE] ELSE w[s]]

\* on_ship_died: the bounty goes to whoever owns the ship that hit last, now.
Bounties(p) == Cardinality({e \in Dead : e.pirate /\ e.dealer # None /\ e.dealer = own[p]})

HandleEvents ==
    /\ phase = "events"
    /\ \E new \in SUBSET Free :
         \* on_pirate_spawn; bound: as many pirates as there are ids
         /\ Cardinality(new) = IF paused THEN 0 ELSE Fewer(coming, Cardinality(Free))
         /\ ship' = Spawned(Marked(ship), new, TRUE)
         /\ told' = Forgotten(new)
    /\ home' = HomeAfter
    /\ over' = (over \/ (Landed # {} /\ HomeAfter = 0))
    /\ money' = [p \in Player |-> Fewer(money[p] + Bounties(p), MaxMoney)]
    /\ events' = {} /\ coming' = 0 /\ caught' = {}
    /\ phase' = "orders"
    /\ UNCHANGED <<paused, own, rocket, blasts, floats, bombed>>

-----------------------------------------------------------------------------
(* Orders: update_player_actions.  Those given in the pause are left out:  *)
(* the restart throws away what they do.                                   *)

\* revalidate: the first act of a turret stays.
Revalidated(acts) ==
    Retained(acts, {i \in DOMAIN acts : \A j \in 1..(i - 1) : acts[j].turret # acts[i].turret})

\* set_max_cooldown
UsedUp(c, t) == [c EXCEPT !.cool[t] = Cooldown]

AtRest(c, t) == c.cool[t] = 0

\* Seeded fault: a shot takes longer than the turret takes to cool down.
Sluggish(c, t, what, at) ==
    [UsedUp(c, t) EXCEPT !.acts =
        Revalidated(Append(@, [turret |-> t, does |-> what, at |-> at, left |-> Cooldown + 1]))]

\* What try_start_shoot and try_start_launch do once they are valid.
Started(c, t, what, at) ==
    [UsedUp(c, t) EXCEPT !.acts =
        Revalidated(Append(@, [turret |-> t, does |-> what, at |-> at, left |-> Cooldown]))]

Commands(p) ==
    /\ phase = "orders" /\ ~paused
    /\ own[p] \in Present
Order(p, c) ==
    /\ ship' = [ship EXCEPT ![own[p]] = c]
    /\ UNCHANGED <<phase, paused, over, home, own, money, rocket, blasts, floats, events,
                   coming, history>>

\* validate_shoot: the rack can be told to shoot as well.
Shoot(p, t, at) ==
    /\ Commands(p)
    /\ AtRest(ship[own[p]], t)
    /\ at \in Present \cup floats
    /\ Order(p, Started(ship[own[p]], t, "shoot", at))

\* The acts under way: of which ship, and where among its acts.
Pending == {f \in Present \X (1..Cardinality(Turret)) : f[2] \in DOMAIN ship[f[1]].acts}
ActAt(f) == ship[f[1]].acts[f[2]]
Launches == {f \in Pending : ActAt(f).does = "launch"}

\* validate_launch; bound: there is a rocket left for it.
Launch(p) ==
    /\ Commands(p)
    /\ AtRest(ship[own[p]], Rack)
    /\ Cardinality(Launches) < Cardinality(FreeRockets)
    /\ Order(p, Started(ship[own[p]], Rack, "launch", None))

\* Action::Tractor, with what floats and with what is too far away or gone.
Tractor(p, m) ==
    /\ Commands(p)
    /\ m \in floats \cup {None} /\ ship[own[p]].tractor # m
    /\ Order(p, [ship[own[p]] EXCEPT !.tractor = m])

-----------------------------------------------------------------------------
(* The rest of update_world_iter before the location.                      *)

\* update_state_pirate_defence, paused or not: one pirate for each player.
Wave == coming' \in {0, Cardinality(Player)}

\* finish_long_act_player, then the end of the game.
Rules ==
    /\ phase = "orders" /\ ~paused
    /\ Wave
    /\ \E back \in SUBSET {p \in Player : own[p] = None} :
       \E ids \in Injections(back, Free) :
         /\ ship' = Spawned(ship, Range(ids), FALSE)
         /\ own' = [p \in Player |-> IF p \in back THEN ids[p] ELSE own[p]]
         /\ told' = Forgotten(Range(ids))
    /\ paused' \in {over, TRUE}  \* the game ends with the planet or with its time
    /\ phase' = IF paused' THEN "events" ELSE "fly"
    /\ UNCHANGED <<over, home, money, rocket, blasts, floats, events, bombed, caught>>

Pause ==
    /\ phase = "orders" /\ paused
    /\ Wave
    /\ phase' = "events"
    /\ UNCHANGED <<paused, over, home, own, money, space, events, history>>

\* The pause is over: seed_state, and a ship for every player.
Restart ==
    /\ phase = "orders" /\ paused
    /\ \E ids \in Injections(Player, ShipId) :
         /\ own' = ids
         /\ ship' = Spawned([s \in ShipId |-> None], Range(ids), FALSE)
    /\ paused' = FALSE /\ over' = FALSE
    /\ home' = HomeHp
    /\ money' = [p \in Player |-> 0]
    /\ rocket' = [r \in RocketId |-> None]
    /\ blasts' = {} /\ floats' = {} /\ events' = {} /\ coming' = 0
    /\ bombed' = {} /\ told' = {} /\ caught' = {}
    /\ phase' = "events"

-----------------------------------------------------------------------------
(* The location: update_location.                                          *)

\* update_ships_tractoring: a beam holds what floats within its range.
Pulls(s, far) == ship[s].tractor \in floats /\ s \notin far

Cooled(c) == [c EXCEPT !.cool = [t \in Turret |-> IF @[t] > 0 THEN @[t] - 1 ELSE 0]]

\* Seeded fault: what is caught floats on.
StillFloating(got) == floats

\* update_tractored_objects: gone if any ship caught it, given to each of them.
FloatsAfter(got) == floats \ {ship[s].tractor : s \in got}

\* apply_tractored_items_consumption: who owns a ship that caught it gets the goods.
Given(got) == {<<p, ship[own[p]].tractor>> : p \in {q \in Player : own[q] \in got}}

\* update_projectile_collisions: damage enough to kill it, whatever it hit.
Collided(f) == [f EXCEPT !.dead = TRUE, !.clean = TRUE]

\* apply_decay: a lifetime that is over becomes a decay, which begins at once.
Decayed(f) ==
    LET h == IF f.decays THEN f
             ELSE IF f.left > 1 THEN [f EXCEPT !.left = @ - 1]
             ELSE [f EXCEPT !.left = DecayTime, !.decays = TRUE]
    IN IF ~h.decays THEN h
       ELSE [h EXCEPT !.left = @ - 1, !.clean = @ \/ h.left <= 1]

\* update_decay, for the rockets
RocketsAfter(collide) ==
    [r \in RocketId |-> IF r \notin Flying THEN None
                        ELSE Decayed(IF r \in collide THEN Collided(rocket[r]) ELSE rocket[r])]

Fly ==
    /\ phase = "fly"
    /\ \E far \in SUBSET {s \in Present : ship[s].tractor \in floats} :
       \E got \in SUBSET {s \in Present : Pulls(s, far)} :
         /\ ship' = [s \in ShipId |-> IF s \notin Present THEN None
                       ELSE [Cooled(ship[s]) EXCEPT !.tractor = IF Pulls(s, far) THEN @ ELSE None]]
         /\ floats' = FloatsAfter(got)
         /\ caught' = Given(got)
    /\ \E collide \in SUBSET Flying : rocket' = RocketsAfter(collide)
    /\ phase' = "hp"
    /\ UNCHANGED <<paused, over, home, own, money, blasts, events, coming, bombed, told>>

-----------------------------------------------------------------------------
\* damage_objects: it names the object itself as the one that dealt the damage.
Hurt(c, n) == [c EXCEPT !.hp = IF @ > n THEN @ - n ELSE 0, !.dealer = None,
                        !.clean = @ \/ c.hp <= n]

\* Seeded fault: health grows without end.
HealedPastMax(c) == [c EXCEPT !.hp = @ + Heal, !.dealer = None]

\* heal_objects
Healed(c) == [c EXCEPT !.hp = Fewer(@ + Heal, PlayerHp), !.dealer = None]

\* Seeded fault: the player keeps the id of its dead ship.
ForgetsNobody(died) == own

\* The owner of a dead ship has none.
Bereft(died) == [p \in Player |-> IF own[p] \in died THEN None ELSE own[p]]

\* create_explosion
NewBlast(of, power) == [of |-> of, power |-> power, left |-> BlastTime, hit |-> {},
                       done |-> FALSE]

\* The rockets that blow up.
Blown == {r \in Flying : rocket[r].dead}

\* The regeneration of the planet, which adds up to a point now and then.
HomeHeals == home' \in {home, Fewer(home + 1, HomeHp)}

\* update_state_minerals fills up.
MineralsGrow ==
    \E new \in SUBSET FreeMinerals :
      /\ Cardinality(new) = Fewer(MaxMinerals - Cardinality(floats), Cardinality(FreeMinerals))
      /\ floats' = floats \cup new

\* What the star or the regeneration does to each ship.
HealthAfter(burnt, healed) ==
    [s \in Present |-> IF s \in burnt THEN Hurt(ship[s], StarHit)
                       ELSE IF s \in healed THEN Healed(ship[s]) ELSE ship[s]]

\* What becomes of the ships, and of the players whose ships die.
TakeHealth(after) ==
    LET died == {s \in Present : after[s].hp <= 0}
    IN /\ ship' = [s \in ShipId |-> IF s \notin Present THEN None
                                    ELSE [after[s] EXCEPT !.clean = @ \/ s \in died]]
       /\ own' = Bereft(died)
       /\ money' = [p \in Player |->
                      IF own[p] \notin died THEN money[p]
                      ELSE IF money[p] > Penalty THEN money[p] - Penalty ELSE 0]
       /\ events' = events \cup {[kind |-> "died", ship |-> s, pirate |-> ship[s].pirate,
                                  dealer |-> after[s].dealer] : s \in died}
       /\ told' = told \cup {[kind |-> "died", ship |-> s] : s \in died}
       /\ blasts' = blasts \cup {NewBlast(s, WreckBlast) : s \in died}
                           \cup {NewBlast(r, RocketBlast) : r \in Blown}

\* update_hp_effects, then update_state_minerals.  The regeneration may lift a ship
\* that shots left without health before anybody looks.
HpEffects ==
    /\ phase = "hp"
    /\ \E burnt \in SUBSET Present :
       \E healed \in SUBSET {s \in Present \ burnt : ~ship[s].pirate /\ ship[s].hp < PlayerHp} :
         TakeHealth(HealthAfter(burnt, healed))
    /\ rocket' = [r \in RocketId |-> IF r \in Blown
                                     THEN [rocket[r] EXCEPT !.clean = TRUE] ELSE rocket[r]]
    /\ HomeHeals /\ MineralsGrow
    /\ phase' = "acts"
    /\ UNCHANGED <<paused, over, coming, bombed, caught>>

-----------------------------------------------------------------------------
\* tick_long_act
Ticked(acts) == [i \in DOMAIN acts |-> [acts[i] EXCEPT !.left = @ - 1]]
Kept(acts) == Retained(Ticked(acts), {i \in DOMAIN acts : Ticked(acts)[i].left > 0})

\* Seeded fault: an act is finished whoever owns the ship.
AnyShip(s) == s \in Present

\* players_by_ship_id_read, taken after the deaths.
HasOwner(s) == s \in Owned

\* finish_long_act: of a ship nobody owns, shots and launches come to nothing.
Finishing(does) ==
    {f \in Pending : HasOwner(f[1]) /\ ActAt(f).left <= 1 /\ ActAt(f).does = does}

\* resolve_shoot: health may fall below 0, and nothing is marked.
Struck(c, n, by) == [c EXCEPT !.hp = @ - n * Shot, !.dealer = IF n = 0 THEN @ ELSE by]

\* npc_act: pirates that are not docked make for the planet.
Approaching == {s \in Present : ship[s].pirate /\ ~ship[s].docked}

\* Long actions end; pirates that navigate to the planet dock, dead or not.
FinishActs ==
    /\ phase = "acts"
    /\ \E landing \in SUBSET Approaching :
         LET shots == Finishing("shoot")
             On(s) == {f \in shots : ActAt(f).at = s}
         IN /\ \E last \in {g \in [Present -> Present \cup {None}] :
                              \A s \in Present : IF On(s) = {} THEN g[s] = None
                                                 ELSE \E f \in On(s) : g[s] = f[1]} :
                 ship' = [s \in ShipId |-> IF s \notin Present THEN None
                            ELSE [Struck(ship[s], Cardinality(On(s)), last[s])
                                    EXCEPT !.acts = Kept(@), !.docked = @ \/ s \in landing]]
            /\ \E inRange \in SUBSET {ActAt(f).at : f \in shots} : floats' = floats \ inRange
            /\ events' = events \cup {[kind |-> "docked", ship |-> s, pirate |-> TRUE,
                                       dealer |-> None] : s \in landing}
            /\ told' = told \cup {[kind |-> "docked", ship |-> s] : s \in landing}
    /\ \E new \in SUBSET FreeRockets :
         \* resolve_launch
         /\ Cardinality(new) = Cardinality(Finishing("launch"))
         /\ rocket' = [r \in RocketId |->
                         IF r \in new THEN [left |-> Lifetime, decays |-> FALSE,
                                            dead |-> FALSE, clean |-> FALSE]
                         ELSE rocket[r]]
    /\ phase' = "blasts"
    /\ UNCHANGED <<paused, over, home, own, money, blasts, coming, bombed, caught>>

-----------------------------------------------------------------------------
\* object_index_into_health_mut
WithHealth == Present \cup Flying \cup {Home}

\* What the indexes of this update know: not the rockets it launched.
Hittable == WithHealth \ {r \in Flying : ~rocket[r].decays /\ rocket[r].left = Lifetime}

\* update_explosions, one blast after the other: each hits an object once, and what it
\* takes is only marked, a ship without a ShipDied and a rocket without a blast.
Explode(b) ==
    /\ phase = "blasts" /\ ~b.done
    /\ \E now \in SUBSET (Hittable \ (b.hit \cup ({b.of} \cap RocketId))) :
         /\ ship' = [s \in ShipId |-> IF s \in Present \cap now THEN Hurt(ship[s], b.power)
                                      ELSE ship[s]]
         /\ rocket' = [r \in RocketId |-> IF r \in Flying \cap now
                                          THEN [rocket[r] EXCEPT !.clean = TRUE] ELSE rocket[r]]
         /\ home' = IF Home \notin now THEN home
                    ELSE IF home > b.power THEN home - b.power ELSE 0
         /\ blasts' = (blasts \ {b}) \cup
                      IF b.left = 1 THEN {}  \* to_clean; nothing asks for it any more
                      ELSE {[b EXCEPT !.left = @ - 1, !.hit = @ \cup now, !.done = TRUE]}
    /\ UNCHANGED <<phase, paused, over, own, money, floats, events, coming, history>>

\* Seeded fault: what is marked stays.
CleansNothing(w) == w

\* cleanup_objects
Cleaned(w) == [x \in DOMAIN w |-> IF w[x] = None THEN None
                                  ELSE IF w[x].clean THEN None ELSE w[x]]

Cleanup ==
    /\ phase = "blasts" /\ \A b \in blasts : b.done
    /\ ship' = Cleaned(ship)
    /\ rocket' = Cleaned(rocket)
    /\ blasts' = {[b EXCEPT !.done = FALSE] : b \in blasts}
    /\ bombed' = bombed \cup {p \in Player : own[p] # None /\ ship'[own[p]] = None}
    /\ told' = Forgotten({s \in ShipId : ship'[s] = None})
    /\ phase' = "events"
    /\ UNCHANGED <<paused, over, home, own, money, floats, events, coming, caught>>

-----------------------------------------------------------------------------
Init ==
    /\ phase = "events" /\ paused = FALSE /\ over = FALSE
    /\ home = HomeHp
    /\ own \in Injections(Player, ShipId)
    /\ money = [p \in Player |-> 0]
    /\ ship = Spawned([s \in ShipId |-> None], Owned, FALSE)
    /\ rocket = [r \in RocketId |-> None]
    /\ blasts = {} /\ floats = {} /\ events = {} /\ coming = 0
    /\ bombed = {} /\ told = {} /\ caught = {}

Next ==
    \/ HandleEvents
    \/ \E p \in Player :
         \/ \E t \in Turret, at \in ShipId \cup Mineral : Shoot(p, t, at)
         \/ Launch(p)
         \/ \E m \in Mineral \cup {None} : Tractor(p, m)
    \/ Rules \/ Pause \/ Restart
    \/ Fly \/ HpEffects \/ FinishActs \/ (\E b \in blasts : Explode(b)) \/ Cleanup

Spec == Init /\ [][Next]_vars

-----------------------------------------------------------------------------
(* Properties.                                                             *)

ActType == [turret : Turret, does : {"shoot", "launch"},
            at : ShipId \cup Mineral \cup {None}, left : 1..Cooldown]
LeastHp == -2 * Shot * Cardinality(Turret) * Cardinality(Player)
ShipOf(hps) ==
    [pirate : BOOLEAN, hp : hps, dealer : ShipId \cup {None},
     clean : BOOLEAN, docked : BOOLEAN, tractor : Mineral \cup {None},
     acts : Seq(ActType), cool : [Turret -> 0..Cooldown]]
ShipType == ShipOf(LeastHp..(PlayerHp + PirateHp))
RocketType == [left : 0..(Lifetime + DecayTime), decays : BOOLEAN,
               dead : BOOLEAN, clean : BOOLEAN]
BlastType == [of : ShipId \cup RocketId, power : {WreckBlast, RocketBlast}, left : 1..BlastTime,
              hit : SUBSET (ShipId \cup RocketId \cup {Home}), done : BOOLEAN]

ASSUME NoneAssumption == None \notin ShipOf(Int) \cup RocketType

(* TypeOK: the shape of the state.  Health never rises above that of a new *)
(* ship; it may fall below 0, by the shots of two updates and no more: in  *)
(* the second of them the ship is dead and still there to be shot at.      *)
TypeOK ==
    /\ phase \in {"events", "orders", "fly", "hp", "acts", "blasts"}
    /\ paused \in BOOLEAN /\ over \in BOOLEAN /\ home \in 0..HomeHp
    /\ own \in [Player -> ShipId \cup {None}]
    /\ money \in [Player -> 0..MaxMoney]
    /\ ship \in [ShipId -> ShipType \cup {None}]
    /\ \A s \in Present : ship[s].hp <= IF ship[s].pirate THEN PirateHp ELSE PlayerHp
    /\ rocket \in [RocketId -> RocketType \cup {None}]
    /\ blasts \subseteq BlastType
    /\ floats \subseteq Mineral /\ Cardinality(floats) <= MaxMinerals
    /\ coming \in 0..Cardinality(Player) /\ bombed \subseteq Player

(* OwnerKnows: who owns a ship owns one that is there and not about to be  *)
(* removed, of no pirate and of nobody else, unless a blast took it.       *)
OwnerKnows ==
    \A p \in Player : own[p] # None =>
        /\ \A q \in Player \ {p} : own[q] # own[p]
        /\ p \notin bombed => own[p] \in Present /\ ~ship[own[p]].pirate
        /\ p \notin bombed /\ phase # "blasts" => ~ship[own[p]].clean

(* EachPirateOnce: a ship dies once and lands once, so that a pirate pays  *)
(* one bounty and costs the planet one hit, although it may do both and    *)
(* stays among the ships after it did either.                              *)
EachPirateOnce ==
    [][\A e \in events' \ events : [kind |-> e.kind, ship |-> e.ship] \notin told]_vars

(* GoodsOnce: what was caught is gone, and was given to ships that pulled  *)
(* it; more than one of them may get all of it.                            *)
GoodsOnce ==
    phase = "hp" => \A c \in caught : /\ c[2] \notin floats
                                      /\ own[c[1]] # None /\ ship[own[c[1]]].tractor = c[2]

(* DeadDoNotShoot: what a shot hurts, it hurts for a player whose ship was *)
(* alive when the healths were looked at, whatever happens to it then.     *)
DeadDoNotShoot ==
    [][phase = "acts" =>
         \A s \in Present : ship'[s].hp < ship[s].hp =>
             /\ ship'[s].dealer \in Owned
             /\ ship[ship'[s].dealer].hp > 0]_vars

(* TurretInStep: a turret is at rest exactly when it has no act under way, *)
(* so that a shot that is begun is never dropped by revalidate after the   *)
(* turret was used up, and no turret fires twice in one rest.              *)
TurretInStep ==
    phase = "orders" =>
        \A s \in Present, t \in Turret :
            LET mine == {i \in DOMAIN ship[s].acts : ship[s].acts[i].turret = t}
            IN IF ship[s].cool[t] = 0 THEN mine = {}
               ELSE \E i \in mine : mine = {i} /\ ship[s].acts[i].left = ship[s].cool[t]
=============================================================================
