-------------------------------- MODULE Ships --------------------------------
(***************************************************************************)
(* The ships of one room: how they are spawned, fly between the locations, *)
(* dock and undock by long actions, die and come back, and how the game    *)
(* that owns them ends, pauses and starts again (world.rs,                 *)
(* long_actions.rs, locations.rs, the ship parts of main.rs).              *)
(*                                                                         *)
(* The room is updated under the write lock of STATE in one piece.  Here   *)
(* that piece is a step for the players and the game and then one for each *)
(* location in order; phase is the location that comes next, 0 between two *)
(* updates, when orders, joins, closes and the cleanup of the main thread  *)
(* come in.  An order is carried out at the start of the next update in    *)
(* the code, here when it is given; nothing it depends on happens between. *)
(*                                                                         *)
(* Abstractions.  Time is counted in updates.  Positions are left out:     *)
(* which ships are near the planet they fly to, which have no health left  *)
(* and which a blast catches is open.  A location has one planet, known by *)
(* the location.  Shots only count for the revalidation of long actions    *)
(* they cause.  Bots are players that join without a ship; ships of nobody *)
(* (npc) are left out.  Orders are those the browser sends: Respawn,       *)
(* DockInternal and UndockInternal, which the server accepts from a client *)
(* as well, are only started by the server itself.                         *)
(***************************************************************************)
EXTENDS Vectors, Functions, SequencesExt

CONSTANTS
    Player,
    Ships,         \* bound: the number of ship ids, used again when they are free
    NoShip,
    Locations,     \* the number of locations; ships are spawned in the first
    DockTime,      \* SHIP_DOCK_TIME_TICKS, of docking and of undocking
    JumpTime,      \* TRANS_SYSTEM_JUMP_TIME
    RespawnTime,   \* PLAYER_RESPAWN_TIME_MC
    GameTime,      \* milliseconds_remaining of a fresh game
    PauseTime,     \* and of the pause after it
    MaxActs        \* bound: long actions of a ship when it is given an order

ASSUME ShipsAssumption ==
    /\ {Locations, DockTime, JumpTime, RespawnTime, GameTime, PauseTime} \subseteq Nat \ {0}
    /\ {Ships, MaxActs} \subseteq Nat
    /\ NoShip \notin 1..Ships

VARIABLES
    timed,      \* whether the game ends by time: in every mode but the tutorial
    phase,      \* the location to be updated next, 0 between two updates
    paused,
    left,       \* milliseconds_remaining
    seated,     \* the players of the room
    ship,       \* ship_id of each player
    respawn,    \* what is left of the Respawn of each player, 0 if there is none
    carried,    \* history: who brought a Respawn along from another room
    bombed,     \* history: whose ship was taken by a blast
    at          \* at[l][s]: the ship s in location l, NoShip if it is not there

vars == <<timed, phase, paused, left, seated, ship, respawn, carried, bombed, at>>

Location == 1..Locations
ShipId == 1..Ships

Act(kind, to, time) == [kind |-> kind, to |-> to, left |-> time]
NewShip == [docked |-> 0, target |-> 0, acts |-> <<>>, orphan |-> FALSE]

Is(l, s) == at[l][s] # NoShip
Here(l) == {s \in ShipId : Is(l, s)}
\* New ids are random: none of a ship, nor of one its player still asks for.
Free == {s \in ShipId : s \notin Range(ship) /\ \A l \in Location : ~Is(l, s)}

\* Ids of F for the ships of the players in Q: all different, the lowest.
FreshIds(Q, F) == {f \in [Q -> F] : /\ IsInjective(f)
                                    /\ \A s \in F, q \in Q : s < f[q] => s \in Range(f)}

\* spawn_ship, for the players of ids: in the first location.
Spawned(w, ids) ==
    [w EXCEPT ![1] = [s \in ShipId |-> IF s \in Range(ids) THEN NewShip ELSE @[s]]]
Owning(ids) == [p \in Player |-> IF p \in DOMAIN ids THEN ids[p] ELSE ship[p]]

-----------------------------------------------------------------------------
(* Long actions.                                                           *)

Conflict(a, b) == (a.kind = "jump") = (b.kind = "jump")
Tied(a) == a.kind \in {"dock", "undock"}

\* revalidate: of the jumps the first stays, and of docking and undocking.
Revalidated(acts) ==
    Retained(acts, {i \in DOMAIN acts : \A j \in 1..(i - 1) : ~Conflict(acts[j], acts[i])})

Docking(c) == \E i \in DOMAIN c.acts : c.acts[i].kind = "dock"

\* try_start_dock, as update_initiate_ship_docking_by_navigation starts it.
Docks(c) == [c EXCEPT !.acts = Append(@, Act("dock", c.target, DockTime)), !.target = 0]

\* Seeded fault: undocking has a time of its own.
SlowUndock(q) == Act("undock", q, DockTime + 1)

UndockAct(q) == Act("undock", q, DockTime)

\* try_start_undock: the planet is looked for in the location of the ship.
Undocks(l, q) == IF q = l THEN <<UndockAct(q)>> ELSE <<>>

\* update_initiate_ship_docking_by_navigation, for the ships near their planet.
Arriving(l, near) ==
    [s \in Here(l) |-> IF s \in near /\ ~Docking(at[l][s]) THEN Docks(at[l][s]) ELSE at[l][s]]

\* undock_ship
Undocked(l, c) ==
    IF c.docked = 0 THEN c
    ELSE [c EXCEPT !.docked = 0, !.acts = @ \o Undocks(l, c.docked)]

\* tick_long_act
Ticked(c) == [i \in DOMAIN c.acts |-> [c.acts[i] EXCEPT !.left = @ - 1]]
\* Seeded fault: a finished action stays in the list.
KeptForEver(c) == Ticked(c)

Kept(c) == Retained(Ticked(c), {i \in DOMAIN c.acts : Ticked(c)[i].left > 0})
Finished(c) == Retained(Ticked(c), {i \in DOMAIN c.acts : Ticked(c)[i].left <= 0})

\* finish_long_act, one after the other: where the ship is docked after n of them.
DockedAfter(c, n) ==
    LET f == Finished(c)
        moves == {i \in 1..n : Tied(f[i])}
    IN IF moves = {} THEN c.docked
       ELSE IF f[Max(moves)].kind = "dock" THEN f[Max(moves)].to ELSE 0

\* The first jump that finishes while the ship is not docked, 0 if none does.
JumpOf(c, owned) ==
    LET f == Finished(c)
        J == {i \in DOMAIN f : owned /\ f[i].kind = "jump" /\ DockedAfter(c, i - 1) = 0}
    IN IF J = {} THEN 0 ELSE Min(J)

\* An undocking that finishes while the ship is docked starts another one.
UndockedAgain(l, c, n) ==
    {i \in 1..n : Finished(c)[i].kind = "undock" /\ DockedAfter(c, i - 1) = l}

\* The ship after the first n of them.
AfterFinished(l, c, n) ==
    [c EXCEPT
       !.docked = DockedAfter(c, n),
       !.target = IF \E i \in 1..n : Finished(c)[i].kind = "dock" THEN 0 ELSE @,
       !.acts = Kept(c) \o [i \in 1..Cardinality(UndockedAgain(l, c, n)) |-> UndockAct(l)]]

-----------------------------------------------------------------------------
(* Orders of the players: update_player_actions, paused or not.            *)

Ready(l, p) ==
    /\ phase = 0 /\ p \in seated /\ ship[p] # NoShip
    /\ Is(l, ship[p]) /\ \A k \in 1..(l - 1) : ~Is(k, ship[p])

Order(l, p, c) ==
    /\ at' = [at EXCEPT ![l][ship[p]] = c]
    /\ UNCHANGED <<timed, phase, paused, left, seated, ship, respawn, carried, bombed>>

Mine(l, p) == at[l][ship[p]]
Busy(l, p) == Len(Mine(l, p).acts) >= MaxActs

\* Action::Navigate
Navigate(l, p) ==
    /\ Ready(l, p) /\ ~Busy(l, p)
    /\ Order(l, p, [Undocked(l, Mine(l, p)) EXCEPT !.target = 0])

\* Action::DockNavigate, to the planet the player sees.
DockNavigate(l, p) ==
    /\ Ready(l, p) /\ ~Busy(l, p)
    /\ Order(l, p, [Undocked(l, Mine(l, p)) EXCEPT !.target = l])

\* Action::Gas, Reverse, TurnLeft, TurnRight and MoveAxis.
Steer(l, p) ==
    /\ Ready(l, p)
    /\ Order(l, p, [Mine(l, p) EXCEPT !.target = 0])

\* DialogueOptionSideEffect::Undock
UndockByDialogue(l, p) ==
    /\ Ready(l, p) /\ ~Busy(l, p)
    /\ Order(l, p, Undocked(l, Mine(l, p)))

\* try_start_shoot, try_start_launch
Shoot(l, p) ==
    /\ Ready(l, p)
    /\ Order(l, p, [Mine(l, p) EXCEPT !.acts = Revalidated(@)])

\* LongActionStart::TransSystemJump
StartJump(l, p, to) ==
    /\ Ready(l, p) /\ ~Busy(l, p) /\ to # l
    /\ Mine(l, p).docked = 0
    /\ Order(l, p, [Mine(l, p) EXCEPT
                      !.acts = Revalidated(Append(@, Act("jump", to, JumpTime)))])

-----------------------------------------------------------------------------
(* Who plays in the room.                                                  *)

\* bound: whoever comes in takes n ids and leaves one for each ship to come.
IdsLeft(n) ==
    Cardinality(Free) >= n + Cardinality({p \in seated : respawn[p] > 0 \/ ship[p] = NoShip})

\* move_player_to_room: the player comes as it left the other room, Respawn included.
Join(p, r) ==
    /\ phase = 0 /\ p \notin seated /\ IdsLeft(IF r > 0 THEN 2 ELSE 1)
    /\ \E ids \in FreshIds({p}, Free) : at' = Spawned(at, ids) /\ ship' = Owning(ids)
    /\ seated' = seated \cup {p}
    /\ respawn' = [respawn EXCEPT ![p] = r]
    /\ carried' = IF r > 0 THEN carried \cup {p} ELSE carried
    /\ UNCHANGED <<timed, phase, paused, left, bombed>>

\* add_player, for a bot.
AddBot(p) ==
    /\ phase = 0 /\ p \notin seated /\ IdsLeft(1)
    /\ seated' = seated \cup {p}
    /\ UNCHANGED <<timed, phase, paused, left, ship, respawn, carried, bombed, at>>

\* find_and_extract_ship: every copy in the first location that has one is marked.
Extracted(w, s) ==
    LET L == {l \in Location : w[l][s] # NoShip} IN
    IF L = {} THEN w
    ELSE [w EXCEPT ![CHOOSE l \in L : \A k \in L : l <= k][s].orphan = TRUE]

\* remove_player_from_state, move_player_to_room
Leave(p) ==
    /\ phase = 0 /\ p \in seated
    /\ seated' = seated \ {p}
    /\ at' = IF ship[p] = NoShip THEN at ELSE Extracted(at, ship[p])
    /\ ship' = [ship EXCEPT ![p] = NoShip]
    /\ respawn' = [respawn EXCEPT ![p] = 0]
    /\ carried' = carried \ {p}
    /\ bombed' = bombed \ {p}
    /\ UNCHANGED <<timed, phase, paused, left>>

\* cleanup_orphaned_ships of the main thread, in the frames that come to it.
CleanupOrphanedShips ==
    /\ phase = 0
    /\ at' = [l \in Location |-> [s \in ShipId |->
                IF Is(l, s) /\ s \notin Range(ship)
                THEN [at[l][s] EXCEPT !.orphan = TRUE] ELSE at[l][s]]]
    /\ UNCHANGED <<timed, phase, paused, left, seated, ship, respawn, carried, bombed>>

-----------------------------------------------------------------------------
(* The update: update_world_iter.                                          *)

\* A paused game: after the pause the next one, with a ship for everyone.
Restart ==
    /\ phase = 0 /\ paused /\ left <= 1
    /\ \E ids \in FreshIds(seated, ShipId) :
         /\ at' = Spawned([l \in Location |-> [s \in ShipId |-> NoShip]], ids)
         /\ ship' = Owning(ids)
    /\ paused' = FALSE /\ left' = GameTime /\ bombed' = {}
    /\ UNCHANGED <<timed, phase, seated, respawn, carried>>

Wait ==
    /\ phase = 0 /\ paused /\ left > 1
    /\ left' = left - 1
    /\ UNCHANGED <<timed, phase, paused, seated, ship, respawn, carried, bombed, at>>

\* tick_long_act_player
RespawnsTicked == [p \in Player |-> IF respawn[p] > 0 THEN respawn[p] - 1 ELSE 0]

\* Seeded fault: a Respawn that runs when the game ends is kept.
KeepsRespawns ==
    IF timed /\ left <= 1
    THEN /\ paused' = TRUE /\ left' = PauseTime
         /\ respawn' = RespawnsTicked
         /\ carried' = {p \in carried : respawn[p] > 1}
         /\ UNCHANGED phase
    ELSE /\ left' = IF timed THEN left - 1 ELSE left
         /\ phase' = 1
         /\ respawn' = RespawnsTicked
         /\ carried' = {p \in carried : respawn[p] > 1}
         /\ UNCHANGED paused

\* The end of the game clears the long actions of the players.
TimePasses ==
    IF timed /\ left <= 1
    THEN /\ paused' = TRUE /\ left' = PauseTime
         /\ respawn' = [p \in Player |-> 0]
         /\ carried' = {}
         /\ UNCHANGED phase
    ELSE /\ left' = IF timed THEN left - 1 ELSE left
         /\ phase' = 1
         /\ respawn' = RespawnsTicked
         /\ carried' = {p \in carried : respawn[p] > 1}
         /\ UNCHANGED paused

\* finish_long_act_player: whose Respawn is over gets a ship, one or none it had.
RespawnsFinish ==
    \E ids \in FreshIds({p \in seated : respawn[p] = 1}, Free) :
       /\ at' = Spawned(at, ids) /\ ship' = Owning(ids)
       /\ bombed' = bombed \ DOMAIN ids

\* Players first.
UpdatePlayers ==
    /\ phase = 0 /\ ~paused
    /\ RespawnsFinish
    /\ TimePasses
    /\ UNCHANGED <<timed, seated>>

\* Seeded fault: the player keeps the id of its dead ship.
ForgetsNobody(dead) == ship

\* update_hp_effects: the owner of a dead ship has none.
Bereft(dead) == [p \in Player |-> IF ship[p] \in dead THEN NoShip ELSE ship[p]]

\* Seeded fault: only players that never had a ship are waited for.
OnlyNewcomers(owns) == respawn

\* update_ships_respawn
RespawnsStarted(owns) ==
    [p \in Player |-> IF p \in seated /\ owns[p] = NoShip /\ respawn[p] = 0
                      THEN RespawnTime ELSE respawn[p]]

\* Seeded fault: a ship that jumps is not taken out of where it was.
LeavesCopy(c, jumped) == c.orphan

\* cleanup_objects
ToClean(c, jumped) == c.orphan \/ jumped

\* update_explosions: health that a blast takes to 0 marks the ship after the
\* health was looked at, so that it dies without a wreck, a ShipDied or a word
\* to its owner.  The clone of a ship that jumped is elsewhere.
Blown(l, hit, jump) == {s \in hit : ~at[l][s].orphan /\ jump[s] = 0}

\* Which of its actions takes each ship to another location, 0 if none does.
Jumps(l, copy, dead) ==
    [s \in Here(l) |-> IF s \in dead THEN 0 ELSE JumpOf(copy[s], s \in Range(Bereft(dead)))]

\* Where the ships are afterwards: the clone of one that jumped where it jumped to.
Settled(l, copy, jump, gone) ==
    [k \in Location |-> [s \in ShipId |->
        IF k # l
        THEN IF s \in Here(l) /\ jump[s] # 0 /\ Finished(copy[s])[jump[s]].to = k
             THEN AfterFinished(l, copy[s], jump[s]) ELSE at[k][s]
        ELSE IF s \notin Here(l) \ gone \/ ToClean(at[l][s], jump[s] # 0) THEN NoShip
             ELSE AfterFinished(l, copy[s], Len(Finished(copy[s])))]]

Happens(l, copy, jump, dead, blown) ==
    /\ ship' = Bereft(dead)
    /\ respawn' = RespawnsStarted(Bereft(dead))
    /\ bombed' = bombed \cup {p \in Player : Bereft(dead)[p] \in blown}
    /\ at' = Settled(l, copy, jump, dead \cup blown)

UpdateLocation(l) ==
    /\ phase = l
    /\ \E near \in SUBSET {s \in Here(l) : at[l][s].target = l}, dead \in SUBSET Here(l) :
       \E copy \in {Arriving(l, near)} : \E jump \in {Jumps(l, copy, dead)} :
       \E hit \in SUBSET (Here(l) \cap Range(Bereft(dead))) :  \* others count as dead
          Happens(l, copy, jump, dead, Blown(l, hit, jump))
    /\ phase' = IF l = Locations THEN 0 ELSE l + 1
    /\ UNCHANGED <<timed, paused, left, seated, carried>>

-----------------------------------------------------------------------------
Init ==
    /\ timed \in BOOLEAN
    /\ phase = 0 /\ paused = FALSE /\ left = GameTime
    /\ seated = {} /\ carried = {} /\ bombed = {}
    /\ ship = [p \in Player |-> NoShip]
    /\ respawn = [p \in Player |-> 0]
    /\ at = [l \in Location |-> [s \in ShipId |-> NoShip]]

Next ==
    \/ \E l \in Location, p \in Player :
         \/ Navigate(l, p) \/ DockNavigate(l, p) \/ Steer(l, p)
         \/ UndockByDialogue(l, p) \/ Shoot(l, p)
         \/ \E to \in Location : StartJump(l, p, to)
    \/ \E p \in Player : Leave(p) \/ AddBot(p) \/ \E r \in 0..RespawnTime : Join(p, r)
    \/ CleanupOrphanedShips
    \/ Restart \/ Wait \/ UpdatePlayers
    \/ \E l \in Location : UpdateLocation(l)

Spec == Init /\ [][Next]_vars

(* The main thread updates the room again and again.                       *)
Update == Restart \/ Wait \/ UpdatePlayers \/ \E l \in Location : UpdateLocation(l)
FairSpec == Spec /\ WF_vars(Update)

-----------------------------------------------------------------------------
(* Properties.                                                             *)

ActType == [kind : {"dock", "undock", "jump"}, to : Location, left : Nat]
ShipType == [docked : 0..Locations, target : 0..Locations, acts : Seq(ActType),
             orphan : BOOLEAN]

ASSUME NoShipAssumption == NoShip \notin ShipType

(* TypeOK: the shape of the state.                                         *)
TypeOK ==
    /\ timed \in BOOLEAN
    /\ phase \in 0..Locations /\ paused \in BOOLEAN /\ left \in 1..(GameTime + PauseTime)
    /\ seated \subseteq Player /\ carried \subseteq seated /\ bombed \subseteq seated
    /\ ship \in [Player -> ShipId \cup {NoShip}]
    /\ respawn \in [Player -> 0..RespawnTime]
    /\ at \in [Location -> [ShipId -> ShipType \cup {NoShip}]]

(* OneCopy: a ship is never in two locations, although a jump puts a clone *)
(* into the other location and leaves the ship to a later cleanup.         *)
OneCopy ==
    \A s \in ShipId, k, l \in Location : Is(k, s) /\ Is(l, s) => k = l

(* OwnedShipFlies: the ship a player owns is there, is not about to be     *)
(* cleaned up, and is owned by nobody else; only players of the room own.  *)
(* A blast is the one thing that takes a ship and leaves its player the id.*)
OwnedShipFlies ==
    \A p \in Player : ship[p] # NoShip =>
        /\ p \in seated
        /\ p \notin bombed => \E l \in Location : Is(l, ship[p]) /\ ~at[l][ship[p]].orphan
        /\ \A q \in Player \ {p} : ship[q] # ship[p]

(* StaysDocked: the update never undocks a ship: an undocking that was     *)
(* started earlier has always finished when a later docking does, although *)
(* nothing cancels it when the player turns back.                          *)
StaysDocked ==
    [][\A s \in ShipId, l \in Location :
         phase = l /\ Is(l, s) /\ at[l][s].docked # 0 =>
             at'[l][s] = NoShip \/ at'[l][s].docked # 0]_vars

(* KeepsItsShip: a player of the room keeps its ship until the ship dies   *)
(* or the game restarts.  The one exception is who comes from another room *)
(* in the middle of its Respawn: it is not cancelled there.                *)
KeepsItsShip ==
    [][\A p \in seated \cap seated' :
         ship[p] # NoShip /\ ship'[p] # ship[p] =>
             ship'[p] = NoShip \/ (paused /\ ~paused') \/ p \in carried]_vars

(* ShipComesBack: a player without a ship gets one, unless it leaves.      *)
ShipComesBack ==
    \A p \in Player : (p \in seated /\ ship[p] = NoShip)
                        ~> (p \notin seated \/ ship[p] # NoShip)
=============================================================================
