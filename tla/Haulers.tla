------------------------------ MODULE Haulers ------------------------------
(***************************************************************************)
(* The bots of a Cargo Rush room (server/src/bots.rs), which fly and talk  *)
(* the delivery quests of Cargo.  Every 200 ms, after an update of the     *)
(* room, each bot looks at the room and queues what it does; the next      *)
(* update carries that out before it looks at the quests.                  *)
(*                                                                         *)
(* All players are bots here: they share nothing with people but the       *)
(* market, which they never use.  The two seconds a bot waits before it    *)
(* says something are turns in which it does nothing.  How far the ship    *)
(* has flown to the planet it is bound for is left open.                   *)
(***************************************************************************)
EXTENDS Cargo

VARIABLES
    heading,  \* dock_target, or the planet of the Dock action that follows it
    orders    \* what each bot put into player_actions

allVars == <<phase, hold, wares, money, alive, docked, quest, issued, talk, heading, orders>>

Idle == [say |-> {}, go |-> NoPlanet]

-----------------------------------------------------------------------------
(* What a bot does.                                                        *)

\* The bot_path of the three scripts, in their order.
BasicPath ==
    <<Opt("basic", "arrival", "closed", "pickup", "pickup_here"),
      Opt("basic", "arrival", "closed", "dropoff", "dropoff_here"),
      Opt("basic", "arrival", "closed", "undock", "always")>>
PickupPath ==
    <<Opt("pickup", "arrival", "picked_up", "pick_up", "always"),
      Opt("pickup", "picked_up", "closed", "undock", "always")>>
DropoffPath ==
    <<Opt("dropoff", "arrival", "dropped_off", "drop_off", "always"),
      Opt("dropoff", "dropped_off", "closed", "undock_and_collect", "always")>>
BotPath == BasicPath \o PickupPath \o DropoffPath

\* Seeded fault: a bot that arrives follows only the steps with a condition.
NextStepsOfQuests(p, script) ==
    {i \in DOMAIN BotPath : LET o == BotPath[i]
                            IN  /\ o.script = script /\ o.at = talk[p][script]
                                /\ Shown(p, o)
                                /\ o.script = "basic" => o.if # "always"}

\* The steps from this place whose condition holds: get_next_bot_path takes the
\* first of them.
NextSteps(p, script) ==
    {i \in DOMAIN BotPath : LET o == BotPath[i]
                            IN  /\ o.script = script /\ o.at = talk[p][script]
                                /\ Shown(p, o)}

\* make_dialogue_act, in every dialogue that is open.
Answers(p) ==
    {BotPath[Min(NextSteps(p, s))] : s \in {s \in Script : NextSteps(p, s) # {}}}

Talking(p) == \E s \in Script : talk[p][s] # "closed"

\* Where the quest takes the ship, unless it is bound for there or docked there.
Bound(p) ==
    LET q == quest[p]
        to == CASE q.stage = "started" /\ docked[p] # q.from -> q.from
                [] q.stage = "picked" /\ docked[p] # q.to -> q.to
                [] OTHER -> NoPlanet
    IN  IF to = heading[p] THEN NoPlanet ELSE to

\* bot_cargo_rush_hauler_act: who talks does nothing else.
HaulerActs(p) ==
    IF p \notin alive \/ quest[p] = NoQuest THEN Idle
    ELSE IF Talking(p) THEN [Idle EXCEPT !.say = Answers(p)]
    ELSE [Idle EXCEPT !.go = Bound(p)]

\* do_bot_players_actions: some bots still wait.
Orders(ready) == [p \in Player |-> IF p \in ready THEN HaulerActs(p) ELSE Idle]

\* The end of update_room, and the beginning of the next.
EndUpdate(ready) ==
    /\ NextUpdate
    /\ orders' = Orders(ready)
    /\ UNCHANGED heading

-----------------------------------------------------------------------------
(* What the next update makes of it.                                       *)

Said(p, o) == orders' = [orders EXCEPT ![p].say = @ \ {o}]

\* SelectDialogueOption; without a transition from where the dialogue is,
\* nothing comes of it.
Speak(p) ==
    \E o \in orders[p].say :
        /\ Said(p, o)
        /\ IF talk[p][o.script] = o.at THEN Execute(p, o)
           ELSE phase = "actions" /\ UNCHANGED vars
        /\ UNCHANGED heading

\* DockNavigate, which undocks first.
Navigate(p) ==
    /\ phase = "actions" /\ orders[p].go # NoPlanet
    /\ orders' = [orders EXCEPT ![p].go = NoPlanet]
    /\ IF p \in alive
       THEN /\ heading' = [heading EXCEPT ![p] = orders[p].go]
            /\ docked' = [docked EXCEPT ![p] = NoPlanet]
       ELSE UNCHANGED <<heading, docked>>
    /\ UNCHANGED <<phase, hold, wares, money, alive, quest, issued, talk>>

\* update_quests comes after all actions.
Quests == /\ \A p \in Player : orders[p] = Idle
          /\ UpdateQuests
          /\ UNCHANGED <<heading, orders>>

\* The ship gets there, and dock_ship clears dock_target.
Land(p) ==
    /\ heading[p] # NoPlanet
    /\ Dock(p, heading[p])
    /\ heading' = [heading EXCEPT ![p] = NoPlanet]
    /\ UNCHANGED orders

\* A ship dies with its dock_target; its player's dialogues stay open.
ShipDies(p) ==
    /\ Die(p)
    /\ heading' = [heading EXCEPT ![p] = NoPlanet]
    /\ UNCHANGED orders

ShipComes(p) == Respawn(p) /\ UNCHANGED <<heading, orders>>

HaulersInit ==
    /\ Init
    /\ heading = [p \in Player |-> NoPlanet] /\ orders = [p \in Player |-> Idle]

HaulersNext ==
    \/ \E ready \in SUBSET Player : EndUpdate(ready)
    \/ \E p \in Player : Speak(p) \/ Navigate(p) \/ Land(p) \/ ShipDies(p) \/ ShipComes(p)
    \/ Quests

(* Fairness.  The main thread updates the room for ever; a bot gets its    *)
(* turn again and again, and its waiting time runs out; a ship that is     *)
(* bound for a planet gets there and a Respawn ends, both after a number   *)
(* of updates.  Nothing makes a ship die.                                  *)
HaulersSpec ==
    /\ HaulersInit /\ [][HaulersNext]_allVars
    /\ WF_allVars(Quests)
    /\ \A p \in Player :
          /\ WF_allVars(Speak(p)) /\ WF_allVars(Navigate(p))
          /\ SF_allVars(Land(p)) /\ SF_allVars(ShipComes(p))
          /\ SF_allVars(\E ready \in SUBSET Player : p \in ready /\ EndUpdate(ready))

-----------------------------------------------------------------------------
(* HaulersDeliver: a bot never gets stuck.  It delivers every quest it has *)
(* unless its ship dies on the way, and is paid for every delivery unless  *)
(* its ships die for ever; a bot that finds itself with a new ship and the *)
(* dialogues of the old one talks its way out of them and goes on          *)
(* (bot_cargo_rush_hauler_act, get_next_bot_path).                         *)
OnQuest(p, id) == quest[p] # NoQuest /\ quest[p].id = id
Delivered(p, id) == OnQuest(p, id) /\ quest[p].stage = "delivered"
UnderWay(p, id) ==
    /\ p \in alive /\ OnQuest(p, id)
    /\ quest[p].stage = "picked" => HasQuestItem(hold[p], id)
HaulersDeliver ==
    \A p \in Player, id \in 1..MaxQuests :
        /\ UnderWay(p, id) ~> Delivered(p, id) \/ p \notin alive
        /\ []<>(p \notin alive) \/ (Delivered(p, id) ~> quest[p] = NoQuest)
=============================================================================
