# Verification of SRN

SRN is a multiplayer game of space ships and planets. A Rust server (`srn/server`)
owns the rooms and simulates the world in each of them; browsers (`srn/client`) show
it and send what their players do. The same simulation, compiled to WebAssembly
(`srn/world`), runs in the browser, which predicts the actions of its own player and
reconciles them with what the server broadcasts.

This directory holds TLA+ models of the server and of the parts of the browser that
talk to it, the TLC configurations that check them on small instances, and TLAPS
proofs. `PROJECT.json` names, for every definition that models code, the lines it
stands for (`map`), for every run what it checks (`runs`), for every property a
seeded fault that breaks it (`mutants`), and what in this code is hard to test
(`hazards`).

    tlc -config RoomsLive.cfg MCRooms.tla       model-checks one configuration
    tlapm RoomsProofs.tla                       checks the proofs about one component

## 1. The system

### Components

| component | source (under `srn/`) | state | operations | how it meets the others |
|---|---|---|---|---|
| room registry | `server/src/rooms_api.rs`, `states.rs`, `api_struct.rs` | `STATE`: a vector of rooms and five index maps; `ROOMS_READ` | create, list, move a player, drop empty rooms, reindex | every other component finds rooms and players through the maps |
| main thread | `main.rs` | frame budget, elapsed counters | a frame: broadcast, update of every room, events, cleanup of players, rooms and ships | keeps the write guard of `STATE` for the frame |
| connections | `main_ws_server.rs` | `CLIENT_SENDERS` and its set, errors, message counts, a bounded channel per client | connect, receive, send, close, disconnect by force | a worker and a reader thread per client, a dispatcher, a cleaner |
| message routing | `xcast.rs`, `server_events.rs` | `MAIN_DISPATCHER`, `EVENTS` | broadcast, unicast, filter by the id of the game | from the frame and the workers to every browser |
| ships and long actions | `world.rs`, `long_actions.rs`, `world_actions.rs`, `hp.rs` | ships per location, timed actions of ships and players, time left | dock, undock, jump, die, respawn, end and restart of a game | changed by the frame; joins and closes come in between |
| inventories, market, quests, dialogues | `inventory.rs`, `market.rs`, `cargo_rush.rs`, `dialogue.rs` | stacks, wares, money, stage of a quest, open dialogues | merge, split, move, trade, pick up, drop off, collect | changed by the actions of players and by landings and deaths |
| the browser's connection | `client/src/NetState.ts`, `utils/api.ts` | what it waits for and shows | choose a room, join, follow states, leave | reads what message routing delivers |
| prediction in the browser | `client/src/StateSyncer.ts`, `NetState.ts`, `world/src/lib.rs`, `server/src/net.rs` | the world it shows, the true world, pending packets, the world kept in WebAssembly | predict, settle, give up, rebase, correct, overwrite | sends packets of actions to the frame, reads the states and reports it broadcasts |
| combat and tractoring | `combat.rs`, `hp.rs`, `abilities.rs`, `tractoring.rs`, `properties/decay.rs` | health, cooldowns, shots under way, rockets, blasts, what floats in space | order, fly, hurt, heal, explode, catch, clean up | parts of one update, in a fixed order |
| pirate defence | `pirate_defence.rs` | the health of the planet, bounties, the queue of pirates | spawn, dock, pay, lose, restart | events that the next update handles |
| bots | `bots.rs` | none but what they look at; waiting times | answer a dialogue, navigate to a planet | act through the queue of player actions |
| replays | `replay.rs`, `world/src/lib.rs`, `NetState.ts` | a first state and differences, the state restored last, the moment shown | record, pack, load, rewind, play | reads the states of one game |
| movement | `spatial_movement.rs`, `planet_movement.rs`, `trajectory.rs` | positions | geometry of every tick | open choices of the models: who lands, who is in reach |
| other modes | `tutorial.rs`, `sandbox.rs` | as the game | | not modelled by themselves |
| HTTP interfaces | `sandbox_api.rs`, `resources_api.rs` | `SAVED_STATES`, files | save, load, list | their locks are modelled |

`PROJECT.json` lists the rest (chat, diffs, interpolation, generation, user interface,
tooling) with the reason why each is left out.

### What is hard about it

* **One big lock and what is outside it.** `STATE` is one `RwLock`. A frame is one
  write section, but every client operation is several, with frames, closes and
  forced disconnects in between. Five kinds of threads disconnect a client.
* **Indexes that are never cleared.** `reindex_rooms` only inserts. Every lookup may
  meet an entry of a room or of a player that is gone.
* **Waiting inside locks.** Bounded channels are filled inside locks that the thread
  that would drain them may need.
* **A filter at the far end.** Every message goes into the channel of every client and
  is checked against the game its client is in when it *leaves* the channel.
* **Ids that change under a room.** A game that restarts gets a new state id, and all
  that waits in a queue under the old one is dropped.
* **Frames that are cut short.** Beyond its budget a frame skips events and cleanup.
* **Long actions that overlap.** A ship has a list of them, which one tick may finish
  in turn, while a jump takes the ship away from under the rest.
* **Trades that take first and check later**, over stacks that players rearrange.
* **Two clocks and two worlds in the browser.** It predicts what its player does, hears of
  it late, twice or never, and has to forget what never happened without losing what did.
* **An order of functions inside one update.** A ship is dead to one of them and not to
  the next; what a shot, a blast, a landing and a bounty make of it depends on that order.
* **Differences that are applied backwards and forwards**, from whichever state was
  restored last.

### What makes each component correct

* Registry: the maps lead to every living room and settled player; nobody sits in two
  rooms; who is gone leaves for good; no inhabited room is dropped, every empty one is.
* Threads: no deadlock beyond the known ones; the lists of clients agree.
* Delivery: a browser shows its own room only and never goes back in time; joins, quits
  and restarts reach it.
* Ships: one copy of each; an owned ship flies; who lost a ship gets another; who is
  docked is not undocked by an action of the past.
* Cargo: stacks do not hide each other; goods and money are conserved by trades; a
  quest brings one cargo into the world. A bot never gets stuck with a quest.
* Prediction: what is shown as done is real or on its way; what the server told is not
  hidden; every packet is settled; in the end the browser shows what the server has.
* Combat: owners and ships agree; a pirate is counted once; what was caught is gone; the
  dead do not shoot; a turret and its shot stay in step.
* Replays: what is shown at a moment is what was recorded around it, whatever was shown before.

## 2. The modules

| module | models | composed with |
|---|---|---|
| `Rooms` | room registry, moves, room creation by the browser, cleanup | `RoomsProofs` extends it |
| `ServerThreads` | threads, locks, bounded channels | uses `Vectors`; `ServerThreadsProofs` extends it |
| `Delivery` | states and events from the game to the browser | instantiates `Picture`; `DeliveryProofs` extends it |
| `Picture` | what delivery promises: the abstract specification | implemented by `Delivery` |
| `Ships` | ships, long actions, respawn, rounds of a game | uses `Vectors`; `ShipsProofs` extends it |
| `Cargo` | inventories, market, quests, dialogues of Cargo Rush | uses `Vectors`; extended by `Haulers` |
| `Haulers` | the bots of Cargo Rush, which fly and talk the quests of `Cargo` | extends `Cargo` and constrains its steps; `CargoProofs` extends it |
| `Syncer` | prediction in the browser, with the queue, the fixed steps and the broadcast of the server | `BrowserProofs` extends it |
| `Battle` | combat, tractor beams and the life of a pirate defence | uses `Vectors`; `BattleProofs` extends it |
| `Replays` | recording, packing, loading and rewinding of a game | uses `Vectors`; `BrowserProofs` extends it |
| `Vectors` | what `Vec::retain`, and a loop that rebuilds a vector, leave of it (`Retained`) | used by five components |
| `VectorsProofs` | lemmas about `Retained`, induction, sums | extended by the proofs of the five |
| `MCRooms`, `MCServerThreads`, `MCDelivery`, `MCShips`, `MCCargo`, `MCHaulers`, `MCSyncer`, `MCBattle`, `MCReplays` | symmetry and definitions for TLC | |

The modules share the code they look at and divide the questions: `ServerThreads`
knows which thread waits for what and nothing of the messages; `Delivery` takes each
critical section as one step and follows the messages; `Rooms` follows the players
through the registry. Each header comment says what the module abstracts from.

### Rooms

`values` is `RoomsState.values`; a room has its id, the number of its game (`gen`, so
that `<<id, gen>>` is the state id), how often each connection is listed in it, and
`mark`, its `last_players_mark`. `index` is the five maps, with 0 or `NoSid` for "no
entry". `main` is where the main thread is in its frame; while it is not `"idle"` it
holds `STATE` and no other section can run. `pc` takes a connection from the browser's
choice of a room (`choose`, `wait`, `send`) through the three sections of
`move_player_to_room` (`SwitchRoom`, `PushPlayer`, `ReindexAfterPush`) to its close
(`CloseUnlist`, `CloseRemove`) or forced disconnect (`ForceUnlist`, `ForceRemove`).
`MainUpdate` updates every room, restarts any of them and reindexes; `MainShortcut` is a
frame out of budget; `MainEvents` and `HandleEvent` carry out requests for rooms;
`MainToCleanup` and `MainOrphans` are the cleanups.

### ServerThreads

A thread is a program counter. `WantOf` says which lock or channel the next step at a
counter has to acquire, `held` who is inside each lock; `Blockers(t)` follow from
both. A blocking send into a full channel waits for the thread that drains it in the same
way. Every handler that asks for something while it holds something else is broken up
exactly there; a handler that takes one lock, works and lets go is one step.

### Delivery and Picture

`events`, `mainq`, `queue`, `net` and `inbox` are the way of a message: from the game to
the frame, to the dispatcher, into the channel of each client, through the socket, and
back. `Casts` is the check of `xcast.rs`, made in `SendToClient` against `index`, the
map from players to state ids. `ui` is `NetState`: it drops everything until
`RoomSwitched`, then follows states. `Broadcast`, `UpdateRoom`, `Restart` and
`HandleEvent` are the frame; `MovePlayer`, `ReindexMove`, `NotifyStateChanged`,
`Personalize` and `CloseRemove` the handlers of the workers. A closing client broadcasts
nothing: `select_state` looks its state id up among the ids of the rooms
(`states.rs:105`, `:115`), finds nothing, and `on_client_close` returns before its broadcast
(`main_ws_server.rs:686`).

`Picture` knows no queues: each room advances, a browser shows moments its room has had,
never an earlier one and never of another room. `PictureForward` is `P!Spec` with the
games as `world` and the pictures of the browsers as `shown`.

### Ships

The update of a room runs under one lock, but location by location: `phase` is the
location that comes next. `UpdatePlayers` ticks the respawns and the game, and
`UpdateLocation(l)` is the whole of `update_location`: deaths, docking by navigation, long
actions one by one (`Ticked`, `Finished`, `AfterFinished`), respawns, cleanup of marked
ships. Between two updates come the orders of players, joins from other rooms, closes
and `CleanupOrphanedShips`. `Restart` ends the pause: fresh ships for everybody. A ship
that a blast takes (`bombed`) is marked after the deaths of the update were looked for, so
that it goes without a `ShipDied` and its player gets no `Respawn`. Orders are what the
browser sends. The server would also accept `Respawn`, `DockInternal` and `UndockInternal` from a
client (`long_actions.rs:231`); here only the server itself starts them.

### Cargo

`hold` and `wares` are sequences of stacks as in the code, because the code looks for
the *first* stack of a type or an id, and the order of a sequence decides which that is.
`Shaken`, `Grouped`, `AddItem`, `Left`, `Taken`, `Merged`, `SplitOff` and `MovedTo` are the
functions of `inventory.rs`; `Sell` and `Buy` the two halves of `attempt_trade`, with all their branches. An id is the
least number that is free in its inventory; quest cargo has the nil id, as in the code.
`BasicOptions`, `PickupOptions` and `DropoffOptions` are the tables of the dialogue
scripts, `Choose` is `execute_dialog_option` for an option whose condition holds: the server does
not look at the condition again, so that this stands for a window that is up to date, and what a
person may choose from a window one broadcast old is left out. `UpdateQuests` is the rule part of an
update; landings, deaths, respawns, mining and market events come after it (`phase`).
Players merge stacks of one type only, because the window offers nothing else
(`ItemGrid.tsx`, `getMoveKind`); the server does not check it. Nor does it check that a split
takes off at least one piece (`inventory.rs:305` refuses only a count the stack does not exceed):
the window sees to that, and that no stack is empty or negative (`TypeOK`) rests on it.
`StacksApart` is about holds. On the market two stacks may share slot 0, where a price event
puts a good back (`ShakeMarket`).

### Haulers

`Haulers` takes the state and the actions of `Cargo` and lets only bots play: `EndUpdate`
is `do_bot_players_actions`, in which each bot that does not wait looks at the room and
fills `orders`; `Speak` and `Navigate` are what the next update makes of them, before
`Quests`; `Land`, `ShipDies` and `ShipComes` are the events of the flight. `BotPath` is the
`bot_path` of the three dialogue scripts, `NextSteps` are the steps of it that are open to a bot, and
`Answers` takes the first of them. Here the delay is part of the model: `Speak` executes what
was decided in the update before, whatever its condition is by then.

### Syncer

A world is reduced to what browser and server may disagree about: which packets are queued,
processed and executed, where the player's ship is, and the time. `Update` is `update_world`
with its division of elapsed time into intervals; it serves the server and both worlds of the
browser, as in the code. `state`, `trueState` and `pending` are those of `StateSyncer`. In
JavaScript the two worlds may be one object (`same`) or two that share one array
(`shared`); this decides what a packet changes and is part of the state. `cache` is the
world the WebAssembly module keeps between two incremental updates. `Act` is `onPlayerAction`,
`ReceiveInit` and `ReceiveState` the handling of a message, and `Frame` is
`onTimeUpdate` in its three cases: one world (`FrameInSync`), two that are updated,
merged by the table `reconciliation` and corrected (`FrameDesynced`), or a
frame too long to simulate (`FrameTooLong`). A gap between the two positions is a violation only
when it exceeds what is invisible (`Tolerated`) and also what a ship may fly in a frame of that
length (`Passed`); `Corrections` moves a ship on the screen some way towards its true place, no
nearer than `Passed`, and one off the screen all the way. How far it moves is open, at least one
unit: the code's distance grows with the frame and with the gap to the power 1.5. Time is counted from the present of the
server, which makes the state space finite.

### Battle

One update of a room is cut into the functions it calls (`phase`): the events of the last update
(deaths, landings, bounties, pirates), orders, the flight of rockets and the tractor beams
(`Fly`), healths and deaths (`HpEffects`), long actions (`FinishActs`), and blasts and cleanup
(`Explode`, `Cleanup`). Everything positions decide is open: who is hit, near, in range. The
histories `bombed`, `told` and `caught` serve the properties and no guard.

### Replays

A recorded state has its ticks, one map entry that may be null and one array whose elements have a
field that may be null: these are the three ways in which a difference can fail to be
reversible. `diff` and `Reordered` are the differences of `replay.rs` and how they are put in order;
where the code compares the texts of two paths, `StartsAlike` compares the digits of two indexes.
`AfterOp` is one operation of a patch, `Patching` all of them, and `Typed` what
becomes of the document when it is a `GameState` again. `Add` is `ReplayDiffed::add`, which keeps
neither the difference nor the mark of a state when a patch fails. `Restoring` applies
batch after batch, from the first state or from the one restored last (`apply_n_diffs`);
`rewindReplayToMs` is the browser's. The module calls its specification `ReplaySpec`, so
that it can stand beside `Syncer` in `BrowserProofs`: one `NetState` either predicts or
replays.

## 3. The runs

Sizes are distinct states.

| run | instance | checks | states |
|---|---|---|---|
| `rooms_live` | 1 connection that joins twice, 2 rooms, 1 restart each, fair | `OneSeat`, `MapsLead`, `NoEviction`, `GoneForGood`, `EmptyRoomDropped`, `AcceptedRoomAppears` | 148 k |
| `rooms_stale_target` | 2 connections, 2 rooms | violates `JoinsAskedRoom` | |
| `threads_two` | 2 connections, one fails | `KnownDeadlocks`, `ClientsListed` | 1.5 M |
| `threads_http` | 1 connection, 2 HTTP requests | `KnownDeadlocks` | 0.8 M |
| `delivery_rooms` | 2 browsers, 2 rooms, 1 restart each | `OwnRoomOnly`, `PictureForward` | 4.8 M |
| `delivery_live` | 1 browser, 1 room, fair | `JoinCompletes`, `QuitterLeaves`, `RestartShown` | 192 k |
| `ships_flights` | 2 players, 3 ships, 2 locations, fair | `TypeOK`, `OneCopy`, `OwnedShipFlies`, `StaysDocked`, `KeepsItsShip`, `ShipComesBack` | 491 k |
| `cargo_trade` | 1 player, 2 planets, 1 mineral, 2 quests | `TypeOK`, `StacksApart`, `OneCargoPerQuest`, `GoodsKept`, `TradesBalance` | 0.9 M |
| `haulers_deliver` | 2 bots, 2 planets, 2 quests, fair | `HaulersDeliver` | 29 k |
| `syncer_predicts` | 1 packet, 3 lengths of frames, 1 restart, fair | `TypeOK`, `CacheFresh`, `NothingInvented`, `ToldIsShown`, `Settles`, `Converges` | 333 k |
| `replays_rewind` | 3 states of 19 contents | `ShowsTheMoment`, `FramesKept` | 735 k |
| `battle_pirates` | 2 players, 2 ships, 1 rocket, 1 mineral | `TypeOK`, `OwnerKnows`, `GoodsOnce`, `TurretInStep`, `EachPirateOnce`, `DeadDoNotShoot` | 3.9 M |

### What they show

* The maps of the registry, never cleared, are right for everything that still exists,
  whatever was dropped or restarted. They are wrong for what does not: a join of a
  dropped room lands in another (`rooms_stale_target`), where `states.rs:151` means to refuse.
* The threads of the server can deadlock in four ways, each waiting for something inside a
  lock: a socket error under the read guard of `STATE`, a full channel of a client under
  `CLIENT_SENDERS`, a client whose worker panicked under the same lock, and a full
  `MAIN_DISPATCHER` under `STATE`. `KnownDeadlocks` names the four and holds: there is no
  fifth among the modelled threads.
* A browser never shows another room's state, nor an earlier one, although messages are
  filtered only at the end of their way. A join may wait for ever when the game it names
  restarts before `RoomSwitched` is checked; `JoinCompletes` shows that to be the only way.
* Docking and undocking may run side by side, against the comment of `revalidate`; even so no
  docked ship is undocked by an earlier action (`StaysDocked`).
* A player loses a living ship in one case only: it came from another room in the middle
  of a respawn (`KeepsItsShip`).
* Trades conserve goods and money in every branch. The one way to lose goods is a merge
  onto a stack that is gone (`GoodsKept`).
* A hauler is never stuck: it gets a cargo to its planet unless its ship dies on the way, and
  is paid unless its ships die for ever (`HaulersDeliver`), whatever dialogues a death left open.
  A drop-off dialogue that outlives a ship even lets its player be paid for a cargo that
  was lost. A person who delivers and chooses to stay on the planet has no option left that
  collects (`cargo_rush.rs:137`); the bots never take that one.
* What a browser shows as done is pending, on its way, queued or executed (`NothingInvented`), in spite
  of packets that are dropped while the socket connects, reports that come late or never,
  ships that are lost and games that restart. The worlds of the browser may for some frames run a
  packet twice, because a desynced frame hides what is processed before the rebase reads it
  and both worlds queue it; the next state of the server repairs it, and once the player
  is quiet the browser comes to show what the server has (`Converges`): the same packets executed,
  and the ship within the invisible distance or, in a slow browser, within what a ship may fly
  in a frame. Above 33 frames per second that is 0.3 units; at 20 frames it is 0.5, and such a gap
  is kept.
* A rewound replay shows the two recorded states around the moment asked for, from wherever it
  was rewound, with one exception in `NetState.ts:470`, where ticks are compared with
  milliseconds (`ShowsTheMoment`). A recording leaves a state out in one case only, which
  `FramesKept` spells out.
* In a battle a pirate is told of once in each way (`EachPirateOnce`), but it may do both, pay a bounty
  and hit the planet. A ship is dead from the next look at the healths, and nobody shoots
  after it (`DeadDoNotShoot`). Two tractor beams on one object both get all of it
  (`GoodsOnce`).

### Bounds, and why they are enough

* *Connections and rooms.* The code treats connections alike and rooms alike; the
  hazards are about a player, and about a room and the room that takes its place in the
  vector. `rooms_live` has one connection, which moves between two rooms; that two connections do
  not disturb each other is proved for any number of them (section 4), and
  `rooms_stale_target` and `delivery_rooms` have two.
* *Channels of capacity 1* (`EventCap`, `MainCap`, `QueueCap`) for 128, 16384 and 128: a
  channel has to be empty, partly filled and full, and full must be near. In
  `delivery_live` they are larger (4, 7 and 1), so that a fair run is not about full
  channels: events are dropped when `EVENTS` is full, and nothing promises them then.
* *`MaxErrors` 0 or 1* for 10: the last error that is forgiven and the first that is not.
* *`CleanupTimeout` 1* for ten seconds: a room is empty, nearly due and due.
* *`MaxGen` 1*: a game, and the game after it. *`MaxTicks` 0 or 1*: what orders pictures is
  their game and their tick; the refinement is checked over restarts, the liveness over both.
* *`MaxJoins` 2* in `rooms_live`, for a move between rooms; 1 where two connections meet.
* *Ships*: docking takes 1 or 2 updates and a jump 2, so that either may finish first; 3
  ships for 2 players let a clone and a fresh ship exist at once; `MaxActs` bounds the long
  actions a ship has when it is given another.
* *Cargo*: two pieces of a good and of quest cargo make stacks that can be split, sold in
  part and asked too much of; slots 0 and 1 collide, and `Fits` keeps stacks within them;
  two quests let a cargo and a dialogue outlive the quest they belong to. Prices are small
  and differ from each other, so that a swapped price shows in `TradesBalance`.
* *Haulers*: two bots and two planets, so that quests cross; the second quest starts with
  whatever the first left behind.
* *Syncer*: frames of 2, 4 and 10 half intervals are one step, two, and too long even when slowed
  down. In the first a gap of 2 passes, the invisible one, in the second one of 4, more than
  that: an action moves the ship by 3, so that one action's gap is corrected in the short frames
  and let pass in the long ones, and that of two is corrected in both. The limits (`AheadMax`,
  `PendingLife`, `ShareLife`) are one interval or half of one, so
  that a state is late, a packet too old and a report gone within a few steps. One packet is
  enough for a life of a packet; that packets do not disturb each other is in the proofs for
  `CacheFresh`, `NothingInvented` and `ToldIsShown`, which hold for any number. `Lag` and `Lead` keep the clocks
  close, `NetCap` is one message each way, so that messages are late but not reordered: it is
  one socket.
* *Battle*: a player's ship dies from one shot, a pirate from two or from a rocket; two updates are a
  cooldown and a blast, so that an act, a rest and a blast can each be half done. Two
  ships and two players make an owner, a pirate and a newcomer meet in one id.
* *Replays*: indices are written in base 3, and arrays have 0, 3 or 7 elements: no index, one digit, and
  two digits with different first ones; with 9 and 13 elements an index of three digits starts
  like one of two, "100" like "10", or does not. An entry or a field holds one of two values
  (`Value`), so that it can change as well as come and go. Three states let a difference follow
  another; two ticks are a millisecond, so that a moment falls on a mark and between two.

### Fairness

* `Rooms`: the main loop and the workers run for ever. Client sections are strongly fair
  because they wait for `STATE`, which the frame gives back again and again. The events
  and the cleanup are strongly fair: the budget may cut any frame but not every frame
  from some time on, as the counters that trigger them are only reset when they ran.
* `Delivery`: weak fairness of every thread, none for failures, quits, updates or restarts.
* `Ships`: weak fairness of the update of the room, and of nothing a player does.
* `Haulers`: weak fairness of what an update does with the orders of a bot, since an update
  carries out the whole queue; strong fairness of a bot's turn, a landing and a respawn, which
  need several updates in a state that comes and goes. None for deaths.
* `Syncer`: weak fairness of the server's updates and broadcasts, of frames and of both directions of
  the socket. None for the player, for others, for restarts and for the loss of a ship.
* `ServerThreads`, `Cargo`, `Battle` and `Replays` are checked for safety only. The deadlocks of the threads
  are stated as an invariant over who waits for whom, so that TLC's own deadlock check is off
  in its two runs: a partial deadlock would not stop the system, and a total one is known. A
  replay ends when all is recorded and played, so that check is off in `replays_rewind`, too.

## 4. The proofs

Every safety property that a passing run checks is also a theorem: it holds for every number of
connections, rooms, players, ships, goods, packets and recorded states, for arrays of every length,
and for every capacity, duration, price and limit, not only for those of the run. Each proof rests on the named
assumption about the constants of its module (`RoomsAssumption`, `CargoAssumption`, ...), and in
`Ships` and `Battle` on one more, that the value for "no ship" is not a ship; TLC
evaluates them in every run. The proofs share one form: an inductive invariant `IInv`, one lemma
for each action that says what it does to each part of it, one that collects them, and theorems
about `Spec` that follow from it. The bounds that keep the state space finite (`MaxGen`,
`MaxQuests`, ...) are parameters like any other: no proof depends on their being small.

| module | theorems |
|---|---|
| `RoomsProofs` | `TypeCorrect`, `SeatedAtMostOnce` (`OneSeat`), `MapsAreRight` (`MapsLead`), `NobodyEvicted` (`NoEviction`) |
| `ServerThreadsProofs` | `KnownDeadlocksHolds`, `ClientsListedHolds` |
| `DeliveryProofs` | `TypeCorrect`, `OwnRoomOnlyHolds`, `PictureForwardHolds`: `Delivery` implements `Picture` |
| `ShipsProofs` | `TypeCorrect`, `OneCopyHolds`, `OwnedShipFliesHolds`, `StaysDockedHolds`, `KeepsItsShipHolds` |
| `CargoProofs` | about `Cargo`: `TypeCorrect`, `StacksApartHolds`, `OneCargoHolds`, `GoodsKeptHolds`, `TradesBalanceHolds` |
| | about `Haulers`: `HaulersAreCargo`, `BotsAnswerInTime`, `BotsTalkWhileDocked`, `HaulersKeep` |
| `BrowserProofs` | about `Syncer`: `TypeCorrect`, `CacheIsFresh`, `ToldStaysShown`, `NothingIsInvented` |
| | about `Replays`: `BatchIs`, `RInvHolds`, `ReplayTypes`, `FramesKeptHolds`, `ShowsTheMomentHolds` |
| `BattleProofs` | `TypeCorrect`, `OwnerKnowsHolds`, `GoodsOnceHolds`, `TurretInStepHolds`, `EachPirateOnceHolds`, `DeadDoNotShootHolds` |
| `VectorsProofs` | what `InOrder` and `Retained` return, for the others to cite |

**Rooms.** `RoomsIndexed` and `SeatIndexed` alone are not inductive: that reindexing gives every
room its own place needs the ids of the vector to be distinct (`DistinctRooms`), which
needs every request in `EVENTS` to be fresh (`FreshRequests`); that it gives every player its own
place needs `OneSeat`, which needs a player between two sections of a move to sit nowhere
(`UnseatedWhileMoving`), and the room it moves to to be a room (`Targets`).
The argument has two halves. Steps that only take players out of rooms leave the maps alone,
and what they say of the remaining ones stays true (`Shrinking`, `SeatTakenShrinks`). Steps that
move rooms or players in the vector end in `reindex_rooms`, which makes all entries anew
for what is there (`ReindexedFresh`, `Reindexing`). `NobodyEvicted` takes `IInv` and shows that
the one action that drops rooms keeps those with a player (`StepKeepsPlayed`).

**ServerThreads.** The core is `Locks`: which locks a thread is inside follows from where it is,
and from where it will return to when it is on the error path (`Returning`). From it,
`KnownDeadlocks` is an argument about the order of the locks: outside the four known places every
thread asks only for what comes later in the order than all it holds, so that the last lock
anybody waits for has a holder who waits for none. `ClientsListed` follows a client through its
life: nobody knows of it before it is listed (`Fresh`); list and set agree unless a thread
is just taking it out, and only one can be (`Agreed`, `Alone`, `Unlisted`); a message is due only
to clients that were listed when the list was locked (`Due`).

**Delivery.** A state is followed along its way - dispatcher, channel, socket, browser. On every
stretch the states of one room lie in the order they were cloned in (`Flow`), and what a browser
shows is not later than anything still to come (`Shown`); this is what makes a `Receive` a
`Show` of `Picture`. That no state of another room comes needs `Placed`: seat, index and
socket of a client agree with what it asked for, or one of them is empty. Every step of `Delivery`
is shown to be a step of `Picture` or to leave its variables alone.

**Ships.** `OneCopy` and `OwnedShipFlies` need to know what a list of long actions can be
(`Orderly`): all of them still run, there is one jump at most and it leads elsewhere, one
docking at most, which comes after every undocking and is not over before it. The last is why no
docked ship is undocked by an action of the past (`StaysDocked`), and it holds although
docking and undocking are revalidated as if they could run side by side. `Waiting` says
that who waits for a respawn has no ship, unless it came with its respawn from another room: that
is the exception of `KeepsItsShip`.

**Cargo.** Most of the proof is about inventories of any length, free of the actions: what each
operation of `inventory.rs` does to the pieces of each type, the slots and the ids (`ShakenIs`,
`GroupedIs`, `AddItemIs`, `LeftIs`, `MergedIs`, ...). `Stocked` says that slots and ids are apart in
every hold, and that only quest cargo has the nil id: a trade of one good removes whatever
has that id (`consume_items_of_type` marks with it what it takes), so that a good with a nil id
would be lost. Nothing on the market has it (`WaresOk`). `Charged` makes `OneCargoPerQuest` inductive:
the cargo there is, together with the players who may still be handed one (`Owed`: their quest has
just started, or their pickup dialogue is where cargo is handed out), is never more than the
quests given. `GoodsKept` and `TradesBalance` are then facts about single steps from `IInv`; a
trade is a `Gained` on either side, in each of its branches. `StepsKeep` says that `IInv` owes nothing
to `Fits`, the bound of the run on slots.

**Haulers.** `HaulersAreCargo` is a refinement: every step of the bots is a step of `Cargo` or leaves
its variables alone, so that `HaulersKeep` follows without looking at an inventory again. Two
things are in the way. A bot answers a dialogue that it looked at in the update before, under a
condition nobody checks again; and `DockNavigate` undocks the ship in a part of the update where
only an answer to a dialogue does. The invariant `HInv` deals with both: what a bot is about to say is one answer,
to a dialogue that is still where it was, under a condition that still holds (`InTime`, which is
`BotsAnswerInTime`); a bot has one dialogue open at most, has one as long as it is docked, and none
while it is bound for a planet (`BotsTalkWhileDocked`), so that who sets out was not docked. The last
rests on the scripts: `BotOptions` says that a step of theirs closes a dialogue only to open the
next one or to undock. That the bots deliver at all (`HaulersDeliver`) is liveness and stays with TLC.

**Syncer.** `TypeOK /\ CacheFresh /\ Aliased` is inductive. `Aliased` says that two worlds that are one
object are equal and share their array of actions; `ToldIsShown` needs it, since a frame that
finds one object updates the shown world only. `NothingInvented` has an invariant of its own on top,
`Truthful`: what the server reports it has executed (`Honest`), what is on its way to the browser
reports no more than that (`ToldAll`), and everything either world of the browser has touched,
queued or executed, is pending or on the server (`Accounted`). The true world is in it because
a frame may put it in the place of the shown one.

**Battle.** Owners have a ship that is there, of no pirate, unless a blast took it (`Owners`);
what was told of a ship that is still there left its mark on it, docked or dead (`Tellings`), which is
why nothing is told twice. A turret and its act count the same ticks, but in the part of an
update between the two the cooldown is one ahead (`InStep`, `Ahead`). While an update does its actions,
whoever still has a ship has one that is alive (`Alive`), which is what `DeadDoNotShoot` needs.

**Replays.** What a recording rests on is one theorem about two states `a` and `b` of any size,
`BatchIs`: the batch of their differences, applied to `a`, gives `b` - up to a map entry that is null in
`b` and may be gone from the result - or fails, and then the two arrays are `Cut`, as `FramesKept` spells out.
It is proved operation by operation. `DiffIs` says what the list of differences is, `ReorderedIs` that the
reordering mirrors each index within its run of removals (`Spot`), and `Changed(a, b, D, doc)` that a
document on its way has the places `D` of `b` and the others of `a`. As long as every operation finds its
target this is kept (`FieldStep`, `AddStep`, `GoneStep`): always when the array does not shrink
(`Growing`), and when it does, up to the end of the first run that removes an element (`Shrinking`). If that
run has all the removals of elements, only the ticks are left (`LastStep`); if not, the next removal is of an
index that the shorter array lacks (`CutFails`), and the run has the shape of `Cut` (`CutIs`). That
`Cut` is needed for a loss is proved, not that it always brings one: a field lost before it may make one run
of it all.

The inductive invariant `RInv` then says that there are states `kept[0]`, `kept[1]`, ... (`Chain`), each
the outcome of the next batch, each as good as some frame and at a mark of its own, that the marks grow,
and that the state restored last is one of them, in the recorder the last (`Holds`). From this, `StateAt`:
whatever was restored before, forwards from it or from the beginning, the state of a mark is the one kept
for it. `Shows` carries over to the screen what `ClosestIs` finds about the two marks around a
moment. `FramesKept` is in `RInv` itself, since it looks back to the state before, which later
additions must not change (`PriorStays`).

**Induction and sums.** The induction theorems of the library take an operator as a parameter, which the
installed provers cannot instantiate. Where a proof needs induction, the property is a *set*
(`Numbers`, `FiniteSets` of `VectorsProofs`): a set of numbers that holds 0 and with each number the
next holds all of them, by the least one it could lack. On this rest the lemmas about
`SumFunctionOnSet` of the community modules, the sum `Pieces` and money are counted with:
`SumSplit`, `SumRest`, `SumMapped`, `SumOne` and their like. The slots that `Shaken` gives, a recursive
function, are got the same way (`PlacingExists`), as are the documents of a patch and the runs of
removals in `Replays` (`PatchesExist`, `TurnsExist`).

Model-checked only is all liveness, which is out of the prover's reach: `GoneForGood`, `EmptyRoomDropped`,
`AcceptedRoomAppears`, `JoinCompletes`, `QuitterLeaves`, `RestartShown`, `ShipComesBack`,
`HaulersDeliver`, `Settles` and `Converges`.

## 5. What is not modelled

Numbers in floating point (movement, ranges, interpolation) are out of TLC's reach; the models leave
their outcomes open. The bots that shoot, the steps of the tutorial and the commands of the sandbox
are left for later. Wording, notifications, rendering, generation of systems, chat, the files of
replays and resources, and tooling have no part in any property.

A message that lacks its third part makes the worker panic under the write guard of `STATE`
(`tag.unwrap()`, `main_ws_server.rs:497` and `:532`), which poisons the lock for everybody. The
browser always sends that part, and `ServerThreads` leaves the panic out.

Two things of combat are written as the code has them and not judged: `damage_objects`
records the *target* as the one who did the last damage (`combat.rs:917`), so that a blast pays no
bounty, and a rocket that is caught in another's blast vanishes without exploding. The
event that tells a player of its ship is addressed with its two ids swapped
(`HandleShipSpawned` of `Delivery`) and reaches nobody; no property is about it.

Data races in the sense of undefined behaviour do not occur in the safe Rust modelled here.

## 6. Plan

1. **Quests.** Whether a sale may drop quest cargo, and whether a cargo that merges into one of an
   earlier quest can ever be delivered.
2. **`Tutorial`**: the life cycle of the last mode with rules of its own.

At most a dozen runs are kept: a new question joins an existing run where one instance can
answer both, and the violated one goes when the code is mended.
