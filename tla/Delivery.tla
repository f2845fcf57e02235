------------------------------ MODULE Delivery ------------------------------
(***************************************************************************)
(* What the server tells the browsers and how it gets there: the events of *)
(* the game (server_events.rs), the channel of the dispatcher, the channel *)
(* of each connection and the check of every message against the game its  *)
(* client is in (main_ws_server.rs, xcast.rs), the socket, and the part of *)
(* NetState.ts that waits for the switch of rooms and then follows the     *)
(* states of the server.                                                   *)
(*                                                                         *)
(* A room runs one game after another, each under a fresh state id, here   *)
(* the room and the number of its game.                                    *)
(*                                                                         *)
(* Abstractions.  Locks are the subject of module ServerThreads: what a    *)
(* thread does inside one write section of STATE is one step here, and the *)
(* dispatcher gives a message to all listed clients at once, waiting until *)
(* every channel has room.  Rooms neither appear nor go and a browser      *)
(* joins once: module Rooms.  Of the game only its ticks are kept.         *)
(***************************************************************************)
EXTENDS Integers, Sequences, FiniteSets

CONSTANTS
    Client,      \* connections, each with the browser that opened it
    Room,
    NoRoom,      \* "in no room"
    NoSid,       \* "in no game"
    NoPicture,   \* "nothing shown yet"
    MaxGen,      \* bound: restarts of the game of a room
    MaxTicks,    \* bound: ticks of a game
    EventCap,    \* capacity of the EVENTS channel (128 in the code)
    MainCap,     \* capacity of MAIN_DISPATCHER (128 * 128)
    QueueCap,    \* capacity of the channel of a client (128)
    NetCap,      \* bound: messages under way in a socket
    MaxKicks,    \* bound: requests to quit of one player
    Paced        \* whether the dispatcher keeps up with the broadcasts

ASSUME DeliveryAssumption ==
    /\ IsFiniteSet(Client)
    /\ {MaxGen, MaxTicks, MaxKicks} \subseteq Nat
    /\ Paced \in BOOLEAN
    /\ {EventCap, MainCap, QueueCap, NetCap} \subseteq Nat \ {0}
    /\ NoRoom \notin Room
    /\ NoSid \notin Room \X (0..MaxGen)
    /\ NoPicture \notin Room \X (0..MaxGen) \X (0..MaxTicks)

VARIABLES
    game,     \* game[r]: the number of the game of room r and its ticks
    seat,     \* the room each player is in
    index,    \* idx_state_id_by_player_id
    listed,   \* the clients that are not is_disconnected
    events,   \* the EVENTS channel
    mainq,    \* MAIN_DISPATCHER
    queue,    \* the channel of each client
    net,      \* the socket of each client, towards the browser
    inbox,    \* and towards the server
    pc,       \* where the worker of each connection is
    newSid,   \* new_state_id of move_player_to_room
    ui,       \* the browser: what it waits for and shows
    kicks     \* requests to quit of each player

vars == <<game, seat, index, listed, events, mainq, queue, net, inbox, pc, newSid, ui, kicks>>

Sid == Room \X (0..MaxGen)
SidOf(r, g) == <<r, g[r][1]>>
PictureOf(r) == <<r, game[r][1], game[r][2]>>

(* reindex_rooms inserts the players of the vector and removes nobody.     *)
Reindexed(s, g) == [c \in Client |-> IF s[c] = NoRoom THEN index[c] ELSE SidOf(s[c], g)]

(* Messages: to and for are the two ids of an XCast, the game and, of a    *)
(* Unicast, the client; body is what the message is about.                 *)
Nobody == NoRoom
StateMsg(r) == [kind |-> "state", to |-> SidOf(r, game), for |-> Nobody,
                body |-> PictureOf(r)]
Msg(kind, to, for, body) == [kind |-> kind, to |-> to, for |-> for, body |-> body]

\* try_send: a message that does not fit is dropped.
TrySend(m) == IF Len(mainq) < MainCap THEN Append(mainq, m) ELSE mainq
Fire(es) == SubSeq(events \o es, 1, IF Len(events \o es) < EventCap
                                    THEN Len(events \o es) ELSE EventCap)

\* Seeded fault: the states are not checked against the game of the client.
StatesForAll(c, m, sid) ==
    \/ m.kind \in {"state", "started"}
    \/ m.for = c /\ (m.kind = "leave" \/ m.to = sid)

(* check_message_casting, for the game the client is in now.               *)
Casts(c, m, sid) ==
    CASE m.kind = "leave" -> m.for = c
      [] m.kind \in {"state", "started"} -> m.to = sid
      [] OTHER -> m.to = sid /\ m.for = c

-----------------------------------------------------------------------------
(* The browser: NetState.ts.                                               *)

\* connect and onopen: the room is chosen and asked for at once.
Open(c, r) ==
    /\ pc[c] = "off"
    /\ pc' = [pc EXCEPT ![c] = "loop"]
    /\ listed' = listed \cup {c}
    /\ ui' = [ui EXCEPT ![c] = [mode |-> "switching", room |-> r, pic |-> NoPicture]]
    /\ inbox' = [inbox EXCEPT ![c] = <<"switch">>]
    /\ UNCHANGED <<game, seat, index, events, mainq, queue, net, newSid, kicks>>

Arrived(c) == Head(net[c])
Pop(s, c) == [s EXCEPT ![c] = Tail(@)]

\* handleMessage while switchingRooms: everything else is dropped.
ReceiveSwitching(c) ==
    /\ ui[c].mode = "switching" /\ net[c] # <<>>
    /\ net' = Pop(net, c)
    /\ IF Arrived(c).kind = "switched"
       THEN /\ ui' = [ui EXCEPT ![c].mode = "playing"]
            /\ inbox' = [inbox EXCEPT ![c] = Append(@, "name")]
       ELSE UNCHANGED <<ui, inbox>>
    /\ UNCHANGED <<game, seat, index, listed, events, mainq, queue, pc, newSid, kicks>>

\* The syncer takes a state of another game as the first one and overwrites.
ReceiveState(c) ==
    /\ ui[c].mode = "playing" /\ net[c] # <<>> /\ Arrived(c).kind = "state"
    /\ net' = Pop(net, c)
    /\ ui' = [ui EXCEPT ![c].pic = Arrived(c).body]
    /\ UNCHANGED <<game, seat, index, listed, events, mainq, queue, inbox, pc, newSid, kicks>>

\* Seeded fault: the socket stays open.
LeavesSilently(c) ==
    /\ ui[c].mode = "playing" /\ net[c] # <<>> /\ Arrived(c).kind = "leave"
    /\ net' = Pop(net, c)
    /\ ui' = [ui EXCEPT ![c].mode = "left"]
    /\ UNCHANGED <<game, seat, index, listed, events, mainq, queue, inbox, pc, newSid, kicks>>

\* RoomLeave: disconnectAndDestroy closes the socket.
ReceiveLeave(c) ==
    /\ ui[c].mode = "playing" /\ net[c] # <<>> /\ Arrived(c).kind = "leave"
    /\ net' = Pop(net, c)
    /\ ui' = [ui EXCEPT ![c].mode = "left"]
    /\ inbox' = [inbox EXCEPT ![c] = Append(@, "close")]
    /\ UNCHANGED <<game, seat, index, listed, events, mainq, queue, pc, newSid, kicks>>

\* Events are shown and not kept; a second RoomSwitched is an unknown message.
ReceiveOther(c) ==
    /\ ui[c].mode = "playing" /\ net[c] # <<>>
    /\ Arrived(c).kind \in {"started", "spawned", "switched"}
    /\ net' = Pop(net, c)
    /\ UNCHANGED <<game, seat, index, listed, events, mainq, queue, inbox, pc, newSid, ui, kicks>>

\* Nobody listens any more.
ReceiveLeft(c) ==
    /\ ui[c].mode = "left" /\ net[c] # <<>>
    /\ net' = Pop(net, c)
    /\ UNCHANGED <<game, seat, index, listed, events, mainq, queue, inbox, pc, newSid, ui, kicks>>

Browser(c) == \/ ReceiveSwitching(c) \/ ReceiveState(c) \/ ReceiveLeave(c)
              \/ ReceiveOther(c) \/ ReceiveLeft(c)

-----------------------------------------------------------------------------
(* The worker of a connection: main_ws_server.rs.                          *)

Request(c, what) == pc[c] = "loop" /\ inbox[c] # <<>> /\ Head(inbox[c]) = what

\* move_player_to_room: seated, with a ship, in its second write section ...
MovePlayer(c) ==
    /\ Request(c, "switch")
    /\ inbox' = Pop(inbox, c)
    /\ seat' = [seat EXCEPT ![c] = ui[c].room]
    /\ newSid' = [newSid EXCEPT ![c] = SidOf(ui[c].room, game)]
    /\ events' = Fire(<<[kind |-> "spawned", of |-> c]>>)
    /\ pc' = [pc EXCEPT ![c] = "reindex"]
    /\ UNCHANGED <<game, index, listed, mainq, queue, net, ui, kicks>>

\* Seeded fault: left to the next frame.
NotReindexed(c) ==
    /\ pc[c] = "reindex"
    /\ pc' = [pc EXCEPT ![c] = "notify"]
    /\ UNCHANGED <<game, seat, index, listed, events, mainq, queue, net, inbox, newSid, ui, kicks>>

\* ... indexed in its third ...
ReindexMove(c) ==
    /\ pc[c] = "reindex"
    /\ index' = Reindexed(seat, game)
    /\ pc' = [pc EXCEPT ![c] = "notify"]
    /\ UNCHANGED <<game, seat, listed, events, mainq, queue, net, inbox, newSid, ui, kicks>>

\* ... and told outside, under the state id of the second.
NotifyStateChanged(c) ==
    /\ pc[c] = "notify"
    /\ mainq' = TrySend(Msg("switched", newSid[c], c, NoPicture))
    /\ pc' = [pc EXCEPT ![c] = "loop"]
    /\ UNCHANGED <<game, seat, index, listed, events, queue, net, inbox, newSid, ui, kicks>>

\* select_state_mut: through the index, which keeps the players that left.
Found(c) == index[c] # NoSid
RoomOf(c) == index[c][1]

\* on_client_personalize: the room sees the new name at once.
Personalize(c) ==
    /\ Request(c, "name")
    /\ inbox' = Pop(inbox, c)
    /\ mainq' = IF Found(c) THEN TrySend(StateMsg(RoomOf(c))) ELSE mainq
    /\ UNCHANGED <<game, seat, index, listed, events, queue, net, pc, newSid, ui, kicks>>

\* on_client_close: unlist and remove the player.  The state it would then broadcast
\* is never found: select_state looks a state id up among the ids of the rooms.
CloseRemove(c) ==
    /\ Request(c, "close")
    /\ inbox' = Pop(inbox, c)
    /\ listed' = listed \ {c}
    /\ seat' = [seat EXCEPT ![c] = NoRoom]
    /\ pc' = [pc EXCEPT ![c] = "gone"]
    /\ UNCHANGED <<game, index, events, mainq, queue, net, newSid, ui, kicks>>

\* The connection fails: force_disconnect_client, and the worker leaves its loop.
ForceDisconnect(c) ==
    /\ pc[c] = "loop"
    /\ listed' = listed \ {c}
    /\ seat' = [seat EXCEPT ![c] = NoRoom]
    /\ pc' = [pc EXCEPT ![c] = "gone"]
    /\ ui' = [ui EXCEPT ![c].mode = "left"]
    /\ UNCHANGED <<game, index, events, mainq, queue, net, inbox, newSid, kicks>>

\* on_message_to_send_to_client
SendToClient(c) ==
    /\ pc[c] = "loop" /\ queue[c] # <<>> /\ Len(net[c]) < NetCap
    /\ queue' = Pop(queue, c)
    /\ net' = IF c \in listed /\ index[c] # NoSid /\ Casts(c, Head(queue[c]), index[c])
              THEN [net EXCEPT ![c] = Append(@, Head(queue[c]))] ELSE net
    /\ UNCHANGED <<game, seat, index, listed, events, mainq, inbox, pc, newSid, ui, kicks>>

Worker(c) == \/ MovePlayer(c) \/ ReindexMove(c) \/ NotifyStateChanged(c)
             \/ Personalize(c) \/ CloseRemove(c) \/ SendToClient(c)

-----------------------------------------------------------------------------
(* The dispatcher.                                                         *)

Dispatch ==
    /\ mainq # <<>>
    /\ \A c \in listed : Len(queue[c]) < QueueCap
    /\ queue' = [c \in Client |-> IF c \in listed THEN Append(queue[c], Head(mainq))
                                                  ELSE queue[c]]
    /\ mainq' = Tail(mainq)
    /\ UNCHANGED <<game, seat, index, listed, events, net, inbox, pc, newSid, ui, kicks>>

-----------------------------------------------------------------------------
(* The main thread: main.rs, and the dialogue option that quits.           *)

\* Every 100 ms, against a dispatcher that looks every millisecond.
Broadcast(r) ==
    /\ Paced => mainq = <<>>
    /\ mainq' = TrySend(StateMsg(r))
    /\ UNCHANGED <<game, seat, index, listed, events, queue, net, inbox, pc, newSid, ui, kicks>>

\* update_room, then reindex_rooms.
UpdateRoom(r) ==
    /\ game[r][2] < MaxTicks
    /\ game' = [game EXCEPT ![r][2] = @ + 1]
    /\ index' = Reindexed(seat, game')
    /\ UNCHANGED <<seat, listed, events, mainq, queue, net, inbox, pc, newSid, ui, kicks>>

(* The ShipSpawned events of the players of r, in any order of its vector. *)
PlayersOf(r) == {c \in Client : seat[c] = r}
Spawns(r) == {s \in [1..Cardinality(PlayersOf(r)) -> [kind : {"spawned"}, of : PlayersOf(r)]] :
                {s[i].of : i \in DOMAIN s} = PlayersOf(r)}

\* Seeded fault: the maps keep the state id of the game before.
RestartKeepsIndex(r) ==
    /\ game[r][1] < MaxGen
    /\ game' = [game EXCEPT ![r] = <<@[1] + 1, 0>>]
    /\ \E s \in Spawns(r) :
         events' = Fire(Append(s, [kind |-> "started", of |-> SidOf(r, game')]))
    /\ UNCHANGED <<seat, index, listed, mainq, queue, net, inbox, pc, newSid, ui, kicks>>

\* The pause after a game is over: a new game, a ship for every player.
Restart(r) ==
    /\ game[r][1] < MaxGen
    /\ game' = [game EXCEPT ![r] = <<@[1] + 1, 0>>]
    /\ index' = Reindexed(seat, game')
    /\ \E s \in Spawns(r) :
         events' = Fire(Append(s, [kind |-> "started", of |-> SidOf(r, game')]))
    /\ UNCHANGED <<seat, listed, mainq, queue, net, inbox, pc, newSid, ui, kicks>>

\* DialogOptionEffect::QuitTutorial
QuitPlayer(c) ==
    /\ kicks[c] < MaxKicks /\ seat[c] # NoRoom /\ ui[c].mode = "playing"
    /\ kicks' = [kicks EXCEPT ![c] = @ + 1]
    /\ events' = Fire(<<[kind |-> "quit", of |-> c]>>)
    /\ UNCHANGED <<game, seat, index, listed, mainq, queue, net, inbox, pc, newSid, ui>>

Event == Head(events)

HandleShipSpawned ==
    /\ Event.kind = "spawned"
    /\ IF ~Found(Event.of) THEN UNCHANGED mainq
       ELSE /\ Len(mainq) < MainCap
            /\ mainq' = Append(mainq, Msg("spawned", Event.of, SidOf(RoomOf(Event.of), game),
                                          Event.of))

HandleGameStarted ==
    /\ Event.kind = "started"
    /\ Len(mainq) < MainCap
    /\ mainq' = Append(mainq, Msg("started", Event.of, Nobody, NoPicture))

\* kick_player
HandleQuitPlayer ==
    /\ Event.kind = "quit"
    /\ mainq' = TrySend(Msg("leave", NoSid, Event.of, NoPicture))

HandleEvent ==
    /\ events # <<>>
    /\ events' = Tail(events)
    /\ HandleShipSpawned \/ HandleGameStarted \/ HandleQuitPlayer
    /\ UNCHANGED <<game, seat, index, listed, queue, net, inbox, pc, newSid, ui, kicks>>

-----------------------------------------------------------------------------
Init ==
    /\ game = [r \in Room |-> <<0, 0>>]
    /\ seat = [c \in Client |-> NoRoom]
    /\ index = [c \in Client |-> NoSid]
    /\ listed = {}
    /\ events = <<>> /\ mainq = <<>>
    /\ queue = [c \in Client |-> <<>>] /\ net = [c \in Client |-> <<>>]
    /\ inbox = [c \in Client |-> <<>>]
    /\ pc = [c \in Client |-> "off"]
    /\ newSid = [c \in Client |-> NoSid]
    /\ ui = [c \in Client |-> [mode |-> "off", room |-> NoRoom, pic |-> NoPicture]]
    /\ kicks = [c \in Client |-> 0]

Next ==
    \/ \E c \in Client, r \in Room : Open(c, r)
    \/ \E c \in Client : Browser(c) \/ Worker(c) \/ ForceDisconnect(c) \/ QuitPlayer(c)
    \/ Dispatch
    \/ \E r \in Room : Broadcast(r) \/ UpdateRoom(r) \/ Restart(r)
    \/ HandleEvent

Spec == Init /\ [][Next]_vars

(* Every thread goes on with what it has to do, and so does the browser:   *)
(* the loops of the server sleep a millisecond and try again, a frame      *)
(* broadcasts, updates and handles the events.  The frame may be cut short *)
(* before the events, but not for ever: events_elapsed is only reset when  *)
(* they were handled.  Nobody is made to fail, to quit or to restart.      *)
Fairness ==
    /\ \A c \in Client : /\ WF_vars(MovePlayer(c)) /\ WF_vars(ReindexMove(c))
                         /\ WF_vars(NotifyStateChanged(c)) /\ WF_vars(Personalize(c))
                         /\ WF_vars(CloseRemove(c)) /\ WF_vars(SendToClient(c))
                         /\ WF_vars(Browser(c))
    /\ WF_vars(Dispatch) /\ WF_vars(HandleEvent)
    /\ \A r \in Room : WF_vars(Broadcast(r))

FairSpec == Spec /\ Fairness

-----------------------------------------------------------------------------
(* Properties.                                                             *)

Pic == Room \X (0..MaxGen) \X (0..MaxTicks)

MsgType == [kind : {"state", "switched", "leave", "started", "spawned"},
            to : Sid \cup Client \cup {NoSid}, for : Sid \cup Client \cup {Nobody},
            body : Pic \cup Client \cup {NoPicture}]

EventType == [kind : {"spawned", "quit"}, of : Client] \cup [kind : {"started"}, of : Sid]

UiType == [mode : {"off", "switching", "playing", "left"},
           room : Room \cup {NoRoom}, pic : Pic \cup {NoPicture}]

(* TypeOK: every channel carries messages of its kind, and nothing counts  *)
(* beyond its bound.                                                       *)
TypeOK ==
    /\ game \in [Room -> (0..MaxGen) \X (0..MaxTicks)]
    /\ seat \in [Client -> Room \cup {NoRoom}]
    /\ index \in [Client -> Sid \cup {NoSid}]
    /\ listed \subseteq Client
    /\ events \in Seq(EventType)
    /\ mainq \in Seq(MsgType)
    /\ queue \in [Client -> Seq(MsgType)] /\ net \in [Client -> Seq(MsgType)]
    /\ inbox \in [Client -> Seq({"switch", "name", "close"})]
    /\ pc \in [Client -> {"off", "loop", "reindex", "notify", "gone"}]
    /\ newSid \in [Client -> Sid \cup {NoSid}]
    /\ ui \in [Client -> UiType]
    /\ kicks \in [Client -> 0..MaxKicks]

(* OwnRoomOnly: a browser never shows the state of a room other than the   *)
(* one it asked for, although every message goes into the channel of every *)
(* client and is only checked when it leaves it.                           *)
OwnRoomOnly ==
    \A c \in Client : ui[c].pic # NoPicture => ui[c].pic[1] = ui[c].room

P == INSTANCE Picture WITH world <- game, shown <- [c \in Client |-> ui[c].pic]

(* PictureForward: the whole way of a state, from the write section it is  *)
(* cloned in to the browser, implements Picture: no browser ever goes back *)
(* to an earlier state of its game or to an earlier game, whoever          *)
(* published the states it gets, and however many were dropped.            *)
PictureForward == P!Spec

(* JoinCompletes: a browser that waits for its switch of rooms gets it,    *)
(* unless its connection fails or the very game it is told to join is over *)
(* by then: RoomSwitched comes after the index it is checked against.      *)
GameJoinedIsOver(c) == newSid[c] # NoSid /\ newSid[c] # SidOf(newSid[c][1], game)

JoinCompletes ==
    \A c \in Client : ui[c].mode = "switching"
                        ~> (ui[c].mode \in {"playing", "left"} \/ GameJoinedIsOver(c))

(* QuitterLeaves: a player who quits is removed from its room in the end,  *)
(* by way of the server, its browser and the server again.                 *)
QuitterLeaves ==
    \A c \in Client : kicks[c] > 0 ~> seat[c] = NoRoom

(* RestartShown: whoever plays is shown the game its room has come to.     *)
RestartShown ==
    \A c \in Client : (ui[c].mode = "playing" /\ seat[c] # NoRoom)
        ~> (ui[c].mode = "left" \/ (ui[c].pic # NoPicture /\ ui[c].pic[2] = game[ui[c].room][1]))
=============================================================================
