-------------------------------- MODULE Cargo --------------------------------
(***************************************************************************)
(* What the ships of a Cargo Rush room carry: the stacks of an inventory,  *)
(* the market of a planet, and the delivery quests with the dialogues that *)
(* move them on (inventory.rs, market.rs, dialogue.rs, cargo_rush.rs and   *)
(* the scripts in resources/dialogue_scripts).                             *)
(*                                                                         *)
(* One update of the room handles the events of the last one, then the     *)
(* actions of the players, then the quests, then everything that flies;    *)
(* phase says which of the two open-ended parts is under way.              *)
(*                                                                         *)
(* Abstractions.  Players trade with one planet; attempt_trade asks        *)
(* neither for a docked ship nor for an open trade window, and a window    *)
(* stays open after an undock, so that they may do so at any time.  The    *)
(* window sends one line per trade.  Prices are constant: no property      *)
(* compares one with another.  Where a ship docks and what it mines is     *)
(* open.  A dialogue opens at once, in the code one or two updates later.  *)
(* Who chooses an option sees the room as it is, without the delay of a    *)
(* broadcast.  The restart of a game, which takes money, quests, ships and *)
(* dialogues from everybody, is Init again.  Players send what the windows *)
(* of the browser offer: a split takes off at least one piece and leaves   *)
(* one, a merge is of one type; the server only refuses a split of the     *)
(* whole stack or more.                                                    *)
(***************************************************************************)
EXTENDS Vectors, FiniteSetsExt, Functions, SequencesExt

CONSTANTS
    Player, Planet, NoPlanet,
    Goods,         \* the types that are traded
    NoQuest,
    Sells, Buys,   \* what a planet asks and gives for a good
    CargoSells,    \* and asks for a quest cargo; it gives nothing for one
    Reward,
    Fine,          \* what a death costs
    Stock,         \* the default quantity of a good on the market
    MaxSlot,       \* bound: the last slot that is used
    MaxGoods,      \* bound: pieces of a good when one is mined
    MaxCount,      \* bound: pieces in a trade or a split
    MaxMoney,      \* bound: money of a player who sells
    MaxQuests      \* bound: quests of all players

ASSUME CargoAssumption ==
    /\ {Sells, Buys, CargoSells, Reward, Fine, Stock} \subseteq Nat
    /\ {MaxSlot, MaxGoods, MaxCount, MaxMoney, MaxQuests} \subseteq Nat
    /\ "cargo" \notin Goods /\ NoPlanet \notin Planet
    /\ IsFiniteSet(Player) /\ IsFiniteSet(Goods)

VARIABLES
    phase,    \* "actions" or "flight"
    hold,     \* the inventory of the ship of each player
    wares,    \* that of the market
    money,
    alive,    \* the players that own a ship
    docked,   \* docked_at
    quest,    \* the quest of each player
    issued,   \* how many quests there have been
    talk      \* dialogue_states: where each player is in each script

vars == <<phase, hold, wares, money, alive, docked, quest, issued, talk>>

Nil == 0    \* the id every cargo is picked up with
Gone == -1  \* the id of a stack that is no more
Type == Goods \cup {"cargo"}
Price(t) == IF t = "cargo" THEN [sell |-> CargoSells, buy |-> 0]
                           ELSE [sell |-> Sells, buy |-> Buys]

-----------------------------------------------------------------------------
(* Inventories: sequences of stacks, each in a slot of its own.            *)

Stack(id, t, n, q) == [id |-> id, type |-> t, n |-> n, quest |-> q, slot |-> 0]

Ids(inv) == {inv[i].id : i \in DOMAIN inv}
Slots(inv) == {inv[i].slot : i \in DOMAIN inv}
OfType(inv, t) == {i \in DOMAIN inv : inv[i].type = t}
Pieces(inv, t) == SumFunctionOnSet([i \in DOMAIN inv |-> inv[i].n], OfType(inv, t))

\* new_id and prng_id; ids are only looked up within an inventory.
NewId(inv) == Min(1..(Len(inv) + 1) \ Ids(inv))

\* shake_items: a stack whose slot is taken moves up to the next free one.
FreeFrom(i, taken) == Min(i..(i + Cardinality(taken)) \ taken)
Shaken(inv) ==
    LET slot[i \in DOMAIN inv] == FreeFrom(inv[i].slot, {slot[j] : j \in 1..(i - 1)})
    IN  [i \in DOMAIN inv |-> [inv[i] EXCEPT !.slot = slot[i]]]

\* group_items_of_same_type: the first stack of a type gets what the others have.
Firsts(inv) == {i \in DOMAIN inv : \A j \in 1..(i - 1) : inv[j].type # inv[i].type}
Grouped(inv) ==
    Retained([i \in DOMAIN inv |-> [inv[i] EXCEPT !.n = Pieces(inv, inv[i].type)]],
             Firsts(inv))

\* A stack n more pieces are put on.
Grown(inv, i, n) == [inv EXCEPT ![i].n = @ + n]

\* Seeded fault: a new stack stays in the slot it comes with.
AddItemUnshaken(inv, x) ==
    LET I == OfType(inv, x.type)
    IN  IF I = {} THEN Append(inv, x) ELSE Grown(inv, Min(I), x.n)

\* Seeded fault: a stack that is there is replaced.
AddItemReplacing(inv, x) ==
    LET I == OfType(inv, x.type)
    IN  Shaken(IF I = {} THEN Append(inv, x) ELSE [inv EXCEPT ![Min(I)].n = x.n])

\* add_item: onto the first stack of its type, whatever its quest.
AddItem(inv, x) ==
    LET I == OfType(inv, x.type)
    IN  Shaken(IF I = {} THEN Append(inv, x) ELSE Grown(inv, Min(I), x.n))

\* consume_items_of_type leaves this, without whatever has a nil id, ...
Left(inv, t) ==
    Grouped(Retained(inv, {i \in DOMAIN inv : inv[i].type # t /\ inv[i].id # Nil}))

\* Seeded fault: what is taken is not added up.
TakenFirst(inv, t, id) == [inv[Min(OfType(inv, t))] EXCEPT !.id = id]

\* ... and takes this, as one stack.
Taken(inv, t, id) ==
    [inv[Min(OfType(inv, t))] EXCEPT !.n = Pieces(inv, t), !.id = id]

Carried(t) == SumFunction([p \in Player |-> Pieces(hold[p], t)])
Total(t) == Carried(t) + Pieces(wares, t)
Has(inv, t) == OfType(inv, t) # {}
QuestItems(inv, q) == {i \in OfType(inv, "cargo") : inv[i].quest = q}
HasQuestItem(inv, q) == QuestItems(inv, q) # {}

\* Vec::remove, at the first of the indexes I if there is any.
WithoutFirst(inv, I) == IF I = {} THEN inv ELSE Retained(inv, DOMAIN inv \ {Min(I)})

-----------------------------------------------------------------------------
(* The actions of players.                                                 *)

Acting(p) == phase = "actions" /\ p \in alive
Positions(p) == DOMAIN hold[p]

\* The windows merge two stacks of a type; one may be gone by now.
Mergeable(inv, from, to) ==
    /\ from # to
    /\ \A i, j \in DOMAIN inv :
          inv[i].id = from /\ inv[j].id = to => inv[i].type = inv[j].type

WithId(inv, id) == {i \in DOMAIN inv : inv[i].id = id}

\* merge_item_stacks: what is moved is gone when the other stack is.
Merged(inv, from, to) ==
    LET moved == inv[Min(WithId(inv, from))]
        others == WithoutFirst(inv, WithId(inv, from))
        I == WithId(others, to)
    IN  IF I = {} THEN others ELSE Grown(others, Min(I), moved.n)
Merge(p, from, to) ==
    /\ Acting(p)
    /\ Mergeable(hold[p], from, to)
    /\ hold' = [hold EXCEPT ![p] = Merged(@, from, to)]
    /\ UNCHANGED <<phase, wares, money, alive, docked, quest, issued, talk>>

\* split_item_stack: the new stack takes the next free slot.  That count is at least
\* 1 is up to the window.
SplitOff(inv, i, count) ==
    [inv[i] EXCEPT !.id = NewId(inv), !.n = count, !.slot = FreeFrom(@ + 1, Slots(inv))]
Split(p, i, count) ==
    /\ Acting(p)
    /\ hold[p][i].n > count
    /\ hold' = [hold EXCEPT ![p] = Append(Grown(@, i, -count), SplitOff(@, i, count))]
    /\ UNCHANGED <<phase, wares, money, alive, docked, quest, issued, talk>>

\* move_item_stack
MovedTo(inv, i, slot) == [inv EXCEPT ![i].slot = slot]
Move(p, i, slot) ==
    /\ Acting(p)
    /\ slot \notin Slots(hold[p])
    /\ hold' = [hold EXCEPT ![p] = MovedTo(@, i, slot)]
    /\ UNCHANGED <<phase, wares, money, alive, docked, quest, issued, talk>>

(* attempt_trade, one line that sells.  The stacks of the type are taken   *)
(* out of the inventory first, whatever comes of the sale.                 *)
Sell(p, t, count) ==
    LET rest == Left(hold[p], t)
        stack == Taken(hold[p], t, NewId(rest))
    IN  /\ Acting(p)
        /\ money[p] + count * Price(t).buy <= MaxMoney
        /\ IF ~Has(hold[p], t)
           THEN /\ hold' = [hold EXCEPT ![p] = rest]
                /\ UNCHANGED <<wares, money>>
           ELSE IF stack.n >= count
           THEN /\ hold' = [hold EXCEPT ![p] =
                       IF stack.n > count
                       THEN AddItem(rest, [stack EXCEPT !.n = @ - count]) ELSE rest]
                /\ wares' = AddItem(wares, [stack EXCEPT !.id = NewId(wares), !.n = count])
                /\ money' = [money EXCEPT ![p] = @ + count * Price(t).buy]
           ELSE /\ hold' = [hold EXCEPT ![p] = AddItem(rest, stack)]
                /\ UNCHANGED <<wares, money>>
        /\ UNCHANGED <<phase, alive, docked, quest, issued, talk>>

\* attempt_trade, one line that buys.
Buy(p, t, count) ==
    LET rest == Left(wares, t)
        stack == Taken(wares, t, NewId(rest))
        cost == count * Price(t).sell
    IN  /\ Acting(p)
        /\ IF ~Has(wares, t)
           THEN /\ wares' = rest
                /\ UNCHANGED <<hold, money>>
           ELSE IF stack.n >= count /\ money[p] >= cost
           THEN /\ wares' = IF stack.n > count
                            THEN AddItem(rest, [stack EXCEPT !.n = @ - count]) ELSE rest
                /\ hold' = [hold EXCEPT ![p] =
                       AddItem(@, [stack EXCEPT !.id = NewId(hold[p]), !.n = count])]
                /\ money' = [money EXCEPT ![p] = @ - cost]
           ELSE /\ wares' = AddItem(rest, stack)
                /\ UNCHANGED <<hold, money>>
        /\ UNCHANGED <<phase, alive, docked, quest, issued, talk>>

-----------------------------------------------------------------------------
(* Dialogues.  An option leads from one place in a script to another, or   *)
(* closes the dialogue.  The window and the bots look at the condition of  *)
(* an option; apply_dialogue_option does not look at it again.             *)

Script == {"basic", "pickup", "dropoff"}

Opt(script, at, next, does, if) ==
    [script |-> script, at |-> at, next |-> next, does |-> does, if |-> if]

BasicOptions ==
    {Opt("basic", "arrival", "closed", "pickup", "pickup_here"),
     Opt("basic", "arrival", "closed", "dropoff", "dropoff_here"),
     Opt("basic", "arrival", "closed", "trade", "always"),
     Opt("basic", "arrival", "closed", "undock", "always")}
PickupOptions ==
    {Opt("pickup", "arrival", "picked_up", "pick_up", "always"),
     Opt("pickup", "arrival", "closed", "undock", "always"),
     Opt("pickup", "picked_up", "closed", "undock", "always"),
     Opt("pickup", "picked_up", "closed", "basic", "always")}
DropoffOptions ==
    {Opt("dropoff", "arrival", "dropped_off", "drop_off", "always"),
     Opt("dropoff", "arrival", "closed", "undock", "always"),
     Opt("dropoff", "dropped_off", "closed", "undock_and_collect", "always"),
     Opt("dropoff", "dropped_off", "closed", "basic", "always")}
Options == BasicOptions \cup PickupOptions \cup DropoffOptions

\* Seeded fault: the stage of the quest does not matter.
ShownAtAnyStage(p, o) ==
    \/ o.if = "always"
    \/ /\ p \in alive /\ docked[p] # NoPlanet /\ quest[p] # NoQuest
       /\ \/ o.if = "pickup_here" /\ docked[p] = quest[p].from
          \/ o.if = "dropoff_here" /\ docked[p] = quest[p].to

\* check_trigger_conditions
Shown(p, o) ==
    \/ o.if = "always"
    \/ /\ p \in alive /\ docked[p] # NoPlanet /\ quest[p] # NoQuest
       /\ \/ o.if = "pickup_here" /\ docked[p] = quest[p].from /\ quest[p].stage = "started"
          \/ o.if = "dropoff_here" /\ docked[p] = quest[p].to /\ quest[p].stage = "picked"

\* Seeded fault: a cargo is picked up without a ship.
PickUpWithoutShip(p) ==
    /\ IF quest[p] # NoQuest
       THEN /\ quest' = [quest EXCEPT ![p].stage = "picked"]
            /\ hold' = [hold EXCEPT ![p] = AddItem(@, Stack(Nil, "cargo", 1, quest[p].id))]
       ELSE UNCHANGED <<quest, hold>>
    /\ UNCHANGED <<money, docked>>

\* apply_side_effects: each of them, and what it leaves alone.
PickUp(p) ==
    /\ IF p \in alive /\ quest[p] # NoQuest
       THEN /\ quest' = [quest EXCEPT ![p].stage = "picked"]
            /\ hold' = [hold EXCEPT ![p] = AddItem(@, Stack(Nil, "cargo", 1, quest[p].id))]
       ELSE UNCHANGED <<quest, hold>>
    /\ UNCHANGED <<money, docked>>

WithoutQuestItem(inv, q) == WithoutFirst(inv, QuestItems(inv, q))
DropOff(p) ==
    /\ IF p \in alive /\ quest[p] # NoQuest
       THEN /\ quest' = [quest EXCEPT ![p].stage = "delivered"]
            /\ hold' = [hold EXCEPT ![p] = WithoutQuestItem(@, quest[p].id)]
       ELSE UNCHANGED <<quest, hold>>
    /\ UNCHANGED <<money, docked>>

Undock(p) ==
    /\ docked' = [docked EXCEPT ![p] = NoPlanet]
    /\ UNCHANGED <<hold, money, quest>>

UndockAndCollect(p) ==
    /\ docked' = [docked EXCEPT ![p] = NoPlanet]
    /\ IF quest[p] # NoQuest
       THEN /\ money' = [money EXCEPT ![p] = @ + Reward]
            /\ quest' = [quest EXCEPT ![p] = NoQuest]
       ELSE UNCHANGED <<money, quest>>
    /\ UNCHANGED hold

\* What an option does.  The trade window is no part of the model.
SideEffects(p, o) ==
    \/ o.does = "pick_up" /\ PickUp(p)
    \/ o.does = "drop_off" /\ DropOff(p)
    \/ o.does = "undock" /\ Undock(p)
    \/ o.does = "undock_and_collect" /\ UndockAndCollect(p)
    \/ o.does \in Script \cup {"trade"} /\ UNCHANGED <<hold, money, docked, quest>>

\* trigger_dialogue: from the beginning, wherever it was.
Triggered(at, script) == [at EXCEPT ![script] = "arrival"]

\* A SwitchDialogue side effect opens another script.
Answered(at, o) ==
    LET left == [at EXCEPT ![o.script] = o.next]
    IN  IF o.does \in Script THEN Triggered(left, o.does) ELSE left

\* execute_dialog_option, apply_dialogue_option: a transition of the script
\* from where the dialogue is; its side effects, then the next place.
Execute(p, o) ==
    /\ phase = "actions"
    /\ talk[p][o.script] = o.at
    /\ SideEffects(p, o)
    /\ talk' = [talk EXCEPT ![p] = Answered(@, o)]
    /\ UNCHANGED <<phase, wares, alive, issued>>

\* The window shows the options whose condition holds (build_dialogue_options).
Choose(p, o) == Shown(p, o) /\ Execute(p, o)

\* RequestDialogue, sent when the trade window is closed.
RequestDialogue(p) ==
    /\ phase = "actions"
    /\ talk' = [talk EXCEPT ![p] = Triggered(@, "basic")]
    /\ UNCHANGED <<phase, hold, wares, money, alive, docked, quest, issued>>

-----------------------------------------------------------------------------
(* The other parts of an update.                                           *)

\* generate_random_quest: from a planet where the ship is not.
Quest == [id : 1..MaxQuests, from : Planet, to : Planet,
          stage : {"started", "picked", "delivered"}]
NewQuests(p, id) ==
    {q \in Quest : /\ q.id = id /\ q.stage = "started"
                   /\ q.from # docked[p] /\ q.to # q.from}

\* update_quests: who has none gets one, who lost the cargo loses the quest.
Failed(p) == /\ p \in alive /\ quest[p] # NoQuest
             /\ quest[p].stage = "picked" /\ ~HasQuestItem(hold[p], quest[p].id)
UpdateQuests ==
    LET idle == {p \in alive : quest[p] = NoQuest}
        new == IF issued + Cardinality(idle) <= MaxQuests THEN idle ELSE {}
    IN  /\ phase = "actions"
        /\ phase' = "flight"
        /\ \E id \in [new -> issued + 1 .. issued + Cardinality(new)] :
              /\ IsInjective(id)
              /\ quest' \in {f \in [Player -> Quest \cup {NoQuest}] :
                                \A p \in Player :
                                    IF p \in new THEN f[p] \in NewQuests(p, id[p])
                                    ELSE f[p] = IF Failed(p) THEN NoQuest ELSE quest[p]}
        /\ issued' = issued + Cardinality(new)
        /\ UNCHANGED <<hold, wares, money, alive, docked, talk>>

(* apply_price_event: set_quantity puts a good that is sold out back into  *)
(* slot 0, whatever is there; some events remove empty stacks.             *)
SetQuantity(inv, t, n) ==
    LET I == OfType(inv, t)
    IN  IF I = {} THEN Append(inv, Stack(NewId(inv), t, n, 0))
                  ELSE [inv EXCEPT ![Max(I)].n = n]
CleanedUp(inv) == Retained(inv, {i \in DOMAIN inv : inv[i].n > 0})
AfterEvent(event, t, n) ==
    CASE event = "normalize" -> CleanedUp(SetQuantity(Shaken(wares), t, n))
      [] event = "shortage_or_war" -> CleanedUp(SetQuantity(wares, t, n))
      [] event = "boom_or_epidemic" -> SetQuantity(wares, t, n)

\* shake_market draws an event for every planet, from time to time.
ShakeMarket(t, n, event) ==
    /\ phase = "flight"
    /\ Carried(t) + n <= MaxGoods
    /\ wares' = AfterEvent(event, t, n)
    /\ UNCHANGED <<phase, hold, money, alive, docked, quest, issued, talk>>

\* A landing fires ShipDocked, which asks for the basic dialogue.
Dock(p, pl) ==
    /\ phase = "flight" /\ p \in alive /\ docked[p] = NoPlanet
    /\ docked' = [docked EXCEPT ![p] = pl]
    /\ talk' = [talk EXCEPT ![p] = Triggered(@, "basic")]
    /\ UNCHANGED <<phase, hold, wares, money, alive, quest, issued>>

\* An Undock of the ship controls, past every dialogue.
TakeOff(p) ==
    /\ phase = "flight" /\ docked[p] # NoPlanet
    /\ docked' = [docked EXCEPT ![p] = NoPlanet]
    /\ UNCHANGED <<phase, hold, wares, money, alive, quest, issued, talk>>

\* apply_tractored_items_consumption, of a mineral.
Mine(p, t) ==
    /\ phase = "flight" /\ p \in alive
    /\ Total(t) < MaxGoods
    /\ hold' = [hold EXCEPT ![p] = AddItem(@, Stack(NewId(@), t, 1, 0))]
    /\ UNCHANGED <<phase, wares, money, alive, docked, quest, issued, talk>>

\* update_hp_effects: the ship, what it carries and a fine are gone ...
Die(p) ==
    /\ phase = "flight" /\ p \in alive
    /\ alive' = alive \ {p}
    /\ hold' = [hold EXCEPT ![p] = <<>>]
    /\ docked' = [docked EXCEPT ![p] = NoPlanet]
    /\ money' = [money EXCEPT ![p] = IF @ > Fine THEN @ - Fine ELSE 0]
    /\ UNCHANGED <<phase, wares, quest, issued, talk>>

\* ... until the Respawn is over.
Respawn(p) ==
    /\ phase = "flight" /\ p \notin alive
    /\ alive' = alive \cup {p}
    /\ UNCHANGED <<phase, hold, wares, money, docked, quest, issued, talk>>

\* The next update begins.
NextUpdate ==
    /\ phase = "flight"
    /\ phase' = "actions"
    /\ UNCHANGED <<hold, wares, money, alive, docked, quest, issued, talk>>

-----------------------------------------------------------------------------

DefaultWares ==
    Shaken([i \in 1..Cardinality(Goods) |-> Stack(i, SetToSeq(Goods)[i], Stock, 0)])

Init ==
    /\ phase = "flight"
    /\ hold = [p \in Player |-> <<>>] /\ wares = DefaultWares
    /\ money = [p \in Player |-> 0] /\ alive = Player
    /\ docked = [p \in Player |-> NoPlanet]
    /\ quest = [p \in Player |-> NoQuest] /\ issued = 0
    /\ talk = [p \in Player |-> [s \in Script |-> "closed"]]

PlayerActs(p) ==
    \/ \E from \in Ids(hold[p]), to \in Ids(hold[p]) \cup {Gone} : Merge(p, from, to)
    \/ \E i \in Positions(p) :
         \/ \E count \in 1..MaxCount : Split(p, i, count)
         \/ \E slot \in 0..MaxSlot : Move(p, i, slot)
    \/ \E t \in Type, count \in 1..MaxCount : Sell(p, t, count) \/ Buy(p, t, count)
    \/ \E o \in Options : Choose(p, o)
    \/ RequestDialogue(p)

Flight(p) ==
    \/ \E pl \in Planet : Dock(p, pl)
    \/ TakeOff(p) \/ Die(p) \/ Respawn(p)
    \/ \E t \in Goods : Mine(p, t)

Step ==
    \/ \E p \in Player : PlayerActs(p) \/ Flight(p)
    \/ UpdateQuests \/ NextUpdate
    \/ \E t \in Goods, n \in {0, Stock},
         event \in {"normalize", "shortage_or_war", "boom_or_epidemic"} :
            ShakeMarket(t, n, event)

\* Slots only grow when stacks collide: the bound of the model.
Fits == /\ \A p \in Player : Slots(hold[p]) \subseteq 0..MaxSlot
        /\ Slots(wares) \subseteq 0..MaxSlot
Next == Step /\ Fits'

Spec == Init /\ [][Next]_vars

-----------------------------------------------------------------------------

StackType == [id : Nat, type : Type, n : Nat, quest : 0..MaxQuests, slot : Nat]

\* What the variables hold: nobody has a negative balance, and who has no ship
\* carries nothing and is docked nowhere.
TypeOK ==
    /\ phase \in {"actions", "flight"}
    /\ \A p \in Player : Range(hold[p]) \subseteq StackType
    /\ Range(wares) \subseteq StackType
    /\ money \in [Player -> Nat] /\ alive \subseteq Player
    /\ docked \in [Player -> Planet \cup {NoPlanet}]
    /\ \A p \in Player \ alive : hold[p] = <<>> /\ docked[p] = NoPlanet
    /\ quest \in [Player -> Quest \cup {NoQuest}] /\ issued \in 0..MaxQuests
    /\ \A p \in Player : /\ talk[p].basic \in {"closed", "arrival"}
                         /\ talk[p].pickup \in {"closed", "arrival", "picked_up"}
                         /\ talk[p].dropoff \in {"closed", "arrival", "dropped_off"}

(* No two stacks of a ship share a slot or an id, however they were merged,*)
(* split, moved, traded, mined and picked up: the window draws one stack   *)
(* per slot, and an action on an id finds the first stack that has it      *)
(* (shake_items, split_item_stack, move_item_stack).                       *)
StacksApart ==
    \A p \in Player : \A i, j \in DOMAIN hold[p] :
        i # j => hold[p][i].slot # hold[p][j].slot /\ hold[p][i].id # hold[p][j].id

(* Players neither make goods nor lose them: what is split, merged, moved, *)
(* sold and bought stays aboard or on the market, whether a trade works    *)
(* out or not.  There is one exception, a merge onto a stack that is gone  *)
(* by now, which drops the other stack (merge_item_stacks).                *)
MergedOntoNothing == \E p \in Player : \E from \in Ids(hold[p]) : Merge(p, from, Gone)
GoodsKept ==
    [][phase = "actions" =>
          (\A t \in Goods : Total(t)' = Total(t)) \/ MergedOntoNothing]_vars

(* Money changes hands for the goods that change sides and for nothing     *)
(* else but a reward: whatever stacks a trade takes out, puts back, groups *)
(* and merges, the pieces that arrive on the other side are those paid for *)
(* (attempt_trade, add_item).                                              *)
Sold(t) == Pieces(wares, t)' - Pieces(wares, t)
Due(t) == Sold(t) * IF Sold(t) > 0 THEN Price(t).buy ELSE Price(t).sell
Rewarded(p) == IF quest[p] # NoQuest /\ quest'[p] = NoQuest THEN Reward ELSE 0
TradesBalance ==
    [][phase = "actions" /\ (money' # money \/ wares' # wares) =>
          SumFunction(money)' - SumFunction(money)
              = SumFunction([t \in Type |-> Due(t)])
                + SumFunction([p \in Player |-> Rewarded(p)])]_vars

(* A quest brings one cargo into the world, though its dialogue may stay   *)
(* open over landings, deaths and later quests, and though the cargo may   *)
(* be sold and bought back (check_trigger_conditions, apply_side_effects). *)
OneCargoPerQuest == Total("cargo") <= issued
=============================================================================
