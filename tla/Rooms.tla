------------------------------- MODULE Rooms -------------------------------
(***************************************************************************)
(* The room registry of the game server and everything that moves players  *)
(* between rooms: StateContainer / RoomsState (api_struct.rs, states.rs),  *)
(* rooms_api.rs, the frame of the main thread (main.rs), the room related  *)
(* handlers of the client threads (main_ws_server.rs) and the choice of a  *)
(* room made by the browser (client/src/utils/api.ts).                     *)
(*                                                                         *)
(* Rooms live in a vector; every lookup goes through index maps that       *)
(* reindex_rooms only ever inserts into, so an entry outlives the room or  *)
(* the player it was made for.  STATE is one RwLock: each client operation *)
(* is a few separate write sections, and the main thread keeps the write   *)
(* guard for a whole frame.                                                *)
(*                                                                         *)
(* Abstractions.  Bots are never removed from a room, so                   *)
(* players.len() == bots.len() is "no human is seated": only humans are    *)
(* kept, as the number of entries of Room.state.players with their id.     *)
(* ROOMS_READ holds the ids of the vector whenever reindex_rooms is not    *)
(* rebuilding it; a reader that meets a rebuild sees a part of them.       *)
(* One game mode is modelled: the browser lists the rooms of one mode.     *)
(***************************************************************************)
EXTENDS Integers, Sequences, FiniteSets

CONSTANTS
    Client,          \* connections: each accepts a fresh uuid and never returns
    Room,            \* room ids the server can hand out
    NoRoom,          \* "no target room"
    NoSid,           \* "no entry" of a map to state ids
    Other,           \* any event that is not a CreateRoomRequest
    MaxGen,          \* bound: restarts of the game of one room
    CleanupTimeout,  \* ROOM_CLEANUP_NO_PLAYERS_TIMEOUT_MS in steps of Elapse
    EventCap,        \* capacity of the EVENTS channel (128 in the code)
    MaxJoins         \* bound: SwitchRoom messages of one connection

ASSUME RoomsAssumption ==
    /\ MaxGen \in Nat /\ CleanupTimeout \in Nat
    /\ EventCap \in Nat \ {0} /\ MaxJoins \in Nat
    /\ NoRoom \notin Room /\ Other \notin Room
    /\ NoSid \notin Room \X Nat

NoMark == -1         \* last_players_mark = None

VARIABLES
    values,    \* RoomsState.values
    index,     \* the five maps of RoomsState; index 0 stands for "no entry"
    events,    \* the EVENTS channel
    asked,     \* room ids returned by POST /api/rooms/create
    main,      \* where the main thread is in its frame; it holds STATE unless "idle"
    pc,        \* where each connection is, its browser and its server thread together
    target,    \* the room a connection wants to join
    joins,     \* SwitchRoom messages of each connection
    listed,    \* CLIENT_SENDERS_SET: the connections that are not is_disconnected
    forcing    \* the connection force_disconnect_client is removing, or NoClient

vars == <<values, index, events, asked, main, pc, target, joins, listed, forcing>>

NoClient == NoRoom
Sid == Room \X (0..MaxGen)
SidOf(room) == <<room.id, room.gen>>

RoomType == [id: Room, gen: 0..MaxGen, seats: [Client -> Nat],
             mark: NoMark..(CleanupTimeout + 1)]
IndexType == [room: [Room -> Nat], roomSid: [Room -> Sid \cup {NoSid}],
              player: [Client -> Nat], playerSid: [Client -> Sid \cup {NoSid}],
              sid: [Sid -> Nat]]

\* "choose", "wait" and "send" are steps of the browser, the others of the thread
\* handle_request runs for the connection.
PC == {"new", "choose", "wait", "send", "push", "index", "joined", "drain", "top",
       "closing", "gone"}
MainPC == {"idle", "updated", "events", "orphans"}

StateFree == main = "idle"
RoomIds == {values[i].id : i \in 1..Len(values)}
Seated(c, vals) == {i \in 1..Len(vals) : vals[i].seats[c] > 0}
Empty(room) == \A c \in Client : room.seats[c] = 0

-----------------------------------------------------------------------------
(* The index maps.                                                         *)

\* The last of a set of positions: a later insert into a HashMap wins.
LastOf(S) == CHOOSE i \in S : \A j \in S : j <= i

\* reindex_rooms: every room and every player found in the vector gets a fresh
\* entry, whatever is no longer there keeps the entry it had.
Reindexed(vals, idx) ==
    LET At(id) == {i \in 1..Len(vals) : vals[i].id = id}
        With(s) == {i \in 1..Len(vals) : SidOf(vals[i]) = s}
    IN [room |-> [r \in Room |->
            IF At(r) = {} THEN idx.room[r] ELSE LastOf(At(r))],
        roomSid |-> [r \in Room |->
            IF At(r) = {} THEN idx.roomSid[r] ELSE SidOf(vals[LastOf(At(r))])],
        player |-> [c \in Client |->
            IF Seated(c, vals) = {} THEN idx.player[c] ELSE LastOf(Seated(c, vals))],
        playerSid |-> [c \in Client |->
            IF Seated(c, vals) = {} THEN idx.playerSid[c]
            ELSE SidOf(vals[LastOf(Seated(c, vals))])],
        sid |-> [s \in Sid |->
            IF With(s) = {} THEN idx.sid[s] ELSE LastOf(With(s))]]

\* values.get_mut(idx): an index outside of the vector is None.
InVector(i) == i \in 1..Len(values)

\* select_state_mut, then find the player and remove one entry of it; nothing
\* happens when the index leads nowhere or to a room without that player.
SeatTaken(c) ==
    LET i == index.player[c]
    IN IF InVector(i) /\ values[i].seats[c] > 0
       THEN [values EXCEPT ![i].seats[c] = @ - 1]
       ELSE values

\* try_send on the bounded EVENTS channel: a full channel drops the event.
Fired(q, e) == IF Len(q) < EventCap THEN Append(q, e) ELSE q

-----------------------------------------------------------------------------
(* The browser: connect, pick a room, ask for it.                          *)

Connect(c) ==
    /\ pc[c] = "new" /\ forcing = NoClient
    /\ pc' = [pc EXCEPT ![c] = "choose"]
    /\ listed' = listed \cup {c}
    /\ UNCHANGED <<values, index, events, asked, main, target, joins, forcing>>

\* getRoomToJoin: the first room of the listing, whichever that is.
ChooseListed(c) ==
    /\ pc[c] = "choose"
    /\ \E r \in RoomIds : target' = [target EXCEPT ![c] = r]
    /\ pc' = [pc EXCEPT ![c] = "send"]
    /\ UNCHANGED <<values, index, events, asked, main, joins, listed, forcing>>

\* getRoomToJoin with an empty listing (no room, or a rebuild of ROOMS_READ in
\* progress): POST create fires CreateRoomRequest and answers with the new id
\* whether or not the channel took the event.
ChooseCreate(c) ==
    /\ pc[c] = "choose"
    /\ \E r \in Room \ asked :
          /\ asked' = asked \cup {r}
          /\ events' = Fired(events, r)
          /\ target' = [target EXCEPT ![c] = r]
    /\ pc' = [pc EXCEPT ![c] = "wait"]
    /\ UNCHANGED <<values, index, main, joins, listed, forcing>>

\* waitUntilRoomExists polls the listing; after ten seconds the promise rejects
\* and the connection stays open without a room.
RoomAppeared(c) ==
    /\ pc[c] = "wait" /\ target[c] \in RoomIds
    /\ pc' = [pc EXCEPT ![c] = "send"]
    /\ UNCHANGED <<values, index, events, asked, main, target, joins, listed, forcing>>

WaitTimedOut(c) ==
    /\ pc[c] = "wait"
    /\ pc' = [pc EXCEPT ![c] = "drain"]
    /\ target' = [target EXCEPT ![c] = NoRoom]
    /\ UNCHANGED <<values, index, events, asked, main, joins, listed, forcing>>

-----------------------------------------------------------------------------
(* The thread of a connection.  move_player_to_room is three separate       *)
(* write sections on STATE, on_client_room_join a fourth.                   *)

\* Section 1: take the player out of the room its index leads to.
SwitchRoom(c) ==
    /\ pc[c] = "send" /\ StateFree /\ joins[c] < MaxJoins
    /\ values' = SeatTaken(c)
    /\ joins' = [joins EXCEPT ![c] = @ + 1]
    /\ pc' = [pc EXCEPT ![c] = "push"]
    /\ UNCHANGED <<index, events, asked, main, target, listed, forcing>>

\* Section 2: find_room_by_id_mut and push.  Without such a room the function
\* returns: the player taken out in section 1 is dropped.
PushPlayer(c) ==
    /\ pc[c] = "push" /\ StateFree
    /\ LET i == index.room[target[c]]
       IN IF InVector(i)
          THEN /\ values' = [values EXCEPT ![i].seats[c] = @ + 1]
               /\ events' = Fired(events, Other)             \* ShipSpawned
               /\ pc' = [pc EXCEPT ![c] = "index"]
          ELSE /\ pc' = [pc EXCEPT ![c] = "joined"]
               /\ UNCHANGED <<values, events>>
    /\ UNCHANGED <<index, asked, main, target, joins, listed, forcing>>

\* Seeded fault: section 3 forgotten.
NoReindexAfterPush(c) ==
    /\ pc[c] = "index" /\ StateFree
    /\ pc' = [pc EXCEPT ![c] = "joined"]
    /\ UNCHANGED <<values, index, events, asked, main, target, joins, listed, forcing>>

\* Section 3.
ReindexAfterPush(c) ==
    /\ pc[c] = "index" /\ StateFree
    /\ index' = Reindexed(values, index)
    /\ pc' = [pc EXCEPT ![c] = "joined"]
    /\ UNCHANGED <<values, events, asked, main, target, joins, listed, forcing>>

\* on_client_room_join: RoomJoined is fired for a player the index leads to.
RoomJoined(c) ==
    /\ pc[c] = "joined" /\ StateFree
    /\ LET i == index.player[c]
       IN events' = IF InVector(i) /\ values[i].seats[c] > 0
                    THEN Fired(events, Other) ELSE events
    /\ pc' = [pc EXCEPT ![c] = "drain"]
    /\ target' = [target EXCEPT ![c] = NoRoom]
    /\ UNCHANGED <<values, index, asked, main, joins, listed, forcing>>

\* The thread drains its inner queue without looking at is_disconnected; another
\* SwitchRoom may be next.
AnotherSwitch(c) ==
    /\ pc[c] = "drain" /\ joins[c] \in 1..(MaxJoins - 1)
    /\ pc' = [pc EXCEPT ![c] = "choose"]
    /\ UNCHANGED <<values, index, events, asked, main, target, joins, listed, forcing>>

EndDrain(c) ==
    /\ pc[c] = "drain"
    /\ pc' = [pc EXCEPT ![c] = "top"]
    /\ UNCHANGED <<values, index, events, asked, main, target, joins, listed, forcing>>

\* The top of the thread's loop: it ends once the connection is unlisted.  The
\* thread is also there while the browser is busy choosing a room.
LoopTop(c) ==
    /\ \/ pc[c] = "top"
       \/ pc[c] \in {"choose", "wait", "send"} /\ c \notin listed
    /\ pc' = [pc EXCEPT ![c] = IF c \in listed THEN "drain" ELSE "gone"]
    /\ UNCHANGED <<values, index, events, asked, main, target, joins, listed, forcing>>

\* on_client_close: unlist under CLIENT_SENDERS, then remove the player under
\* STATE.  The final x_cast_state is unreachable: select_state looks the state id
\* up among room ids.
CloseUnlist(c) ==
    /\ pc[c] \in {"drain", "choose", "wait", "send"} /\ forcing = NoClient
    /\ \A d \in Client : pc[d] # "closing"
    /\ pc' = [pc EXCEPT ![c] = "closing"]
    /\ listed' = listed \ {c}
    /\ UNCHANGED <<values, index, events, asked, main, target, joins, forcing>>

CloseRemove(c) ==
    /\ pc[c] = "closing" /\ StateFree
    /\ values' = SeatTaken(c)
    /\ pc' = [pc EXCEPT ![c] = "gone"]
    /\ UNCHANGED <<index, events, asked, main, target, joins, listed, forcing>>

-----------------------------------------------------------------------------
(* force_disconnect_client, run by the reader thread, the dispatcher or     *)
(* cleanup_bad_clients_thread for a connection with too many errors, at any *)
(* point of the connection's own thread, and again while the errors last.   *)

ForceUnlist(c) ==
    /\ pc[c] # "new" /\ forcing = NoClient
    /\ \A d \in Client : pc[d] # "closing"
    /\ forcing' = c
    /\ listed' = listed \ {c}
    /\ UNCHANGED <<values, index, events, asked, main, pc, target, joins>>

ForceRemove(c) ==
    /\ forcing = c /\ StateFree
    /\ values' = SeatTaken(c)
    /\ forcing' = NoClient
    /\ UNCHANGED <<index, events, asked, main, pc, target, joins, listed>>

-----------------------------------------------------------------------------
(* The frame of the main thread, under one write guard.                     *)

\* Seeded fault: a room that is joined again keeps its mark.
MarkedOnly(room) ==
    IF room.mark = NoMark /\ Empty(room) THEN [room EXCEPT !.mark = 0] ELSE room

\* Seeded fault: rooms without players are never marked.
NeverMarked(room) ==
    IF room.mark # NoMark /\ ~Empty(room) THEN [room EXCEPT !.mark = NoMark] ELSE room

\* The first loop of cleanup_empty_rooms.  The mark is the age of the emptiness.
Marked(room) ==
    IF room.mark = NoMark /\ Empty(room) THEN [room EXCEPT !.mark = 0]
    ELSE IF room.mark # NoMark /\ ~Empty(room) THEN [room EXCEPT !.mark = NoMark]
    ELSE room

Expired(room) == room.mark > CleanupTimeout

\* values.retain: new holds, in order, the rooms of old whose position is in keep.
Retains(old, keep, new) ==
    \E n \in 0..Len(old) : \E f \in [1..n -> 1..Len(old)] :
        /\ \A i, j \in 1..n : i < j => f[i] < f[j]
        /\ {f[i] : i \in 1..n} = keep
        /\ new = [i \in 1..n |-> old[f[i]]]

\* A room's game ends and is seeded again under a new state id; the players stay.
Restarted(room) == [room EXCEPT !.gen = IF @ < MaxGen THEN @ + 1 ELSE @]

\* Seeded fault: the frame does not reindex after its updates.
UpdateWithoutReindex ==
    /\ StateFree
    /\ \E again \in SUBSET Room :
       LET marked == [i \in 1..Len(values) |->
                        IF values[i].id \in again THEN Restarted(Marked(values[i]))
                        ELSE Marked(values[i])]
           keep == {i \in 1..Len(values) : ~Expired(marked[i])}
       IN Retains(marked, keep, values')
    /\ main' = "updated"
    /\ UNCHANGED <<index, events, asked, pc, target, joins, listed, forcing>>

\* cleanup_empty_rooms, update_room of every room (which may restart games and
\* fires events), reindex_rooms.
MainUpdate ==
    /\ StateFree
    /\ \E again \in SUBSET Room :
       LET marked == [i \in 1..Len(values) |->
                        IF values[i].id \in again THEN Restarted(Marked(values[i]))
                        ELSE Marked(values[i])]
           keep == {i \in 1..Len(values) : ~Expired(marked[i])}
       IN Retains(marked, keep, values')
    /\ index' = Reindexed(values', index)
    /\ events' \in {events, Fired(events, Other)}
    /\ main' = "updated"
    /\ UNCHANGED <<asked, pc, target, joins, listed, forcing>>

\* Over budget: the rest of the frame is skipped.
MainShortcut ==
    /\ main \in {"updated", "events"}
    /\ main = "events" => events = <<>>
    /\ main' = "idle"
    /\ UNCHANGED <<values, index, events, asked, pc, target, joins, listed, forcing>>

\* Every EVENT_TRIGGER_TIME the events are drained, in other frames they wait.
MainEvents ==
    /\ main = "updated" /\ main' = "events"
    /\ UNCHANGED <<values, index, events, asked, pc, target, joins, listed, forcing>>

\* Seeded fault: the event is taken from the channel and the room is not made.
EventIgnored ==
    /\ main = "events" /\ events # <<>>
    /\ events' = Tail(events)
    /\ UNCHANGED <<values, index, asked, main, pc, target, joins, listed, forcing>>

NewRoom(r) == [id |-> r, gen |-> 0, seats |-> [c \in Client |-> 0], mark |-> NoMark]

\* handle_events, one event; create_room_impl pushes the room and reindexes.
HandleEvent ==
    /\ main = "events" /\ events # <<>>
    /\ events' = Tail(events)
    /\ IF Head(events) \in Room
       THEN /\ values' = Append(values, NewRoom(Head(events)))
            /\ index' = Reindexed(values', index)
       ELSE UNCHANGED <<values, index>>
    /\ UNCHANGED <<asked, main, pc, target, joins, listed, forcing>>

MainToCleanup ==
    /\ \/ main = "updated"
       \/ main = "events" /\ events = <<>>
    /\ main' = "orphans"
    /\ UNCHANGED <<values, index, events, asked, pc, target, joins, listed, forcing>>

\* Seeded fault: the players of lost connections stay.
NoOrphanCleanup ==
    /\ main = "orphans" /\ main' = "idle"
    /\ UNCHANGED <<values, index, events, asked, pc, target, joins, listed, forcing>>

\* cleanup_orphaned_players of every room; the maps are not rebuilt.
MainOrphans ==
    /\ main = "orphans" /\ main' = "idle"
    /\ values' = [i \in 1..Len(values) |-> [values[i] EXCEPT
                    !.seats = [c \in Client |-> IF c \in listed THEN @[c] ELSE 0]]]
    /\ UNCHANGED <<index, events, asked, pc, target, joins, listed, forcing>>

\* The clock of the marks.
Elapse ==
    /\ \E i \in 1..Len(values) : values[i].mark \in 0..CleanupTimeout
    /\ values' = [i \in 1..Len(values) |-> [values[i] EXCEPT
                    !.mark = IF @ \in 0..CleanupTimeout THEN @ + 1 ELSE @]]
    /\ UNCHANGED <<index, events, asked, main, pc, target, joins, listed, forcing>>

-----------------------------------------------------------------------------
Init ==
    /\ values = <<>>
    /\ index = [room |-> [r \in Room |-> 0], roomSid |-> [r \in Room |-> NoSid],
                player |-> [c \in Client |-> 0], playerSid |-> [c \in Client |-> NoSid],
                sid |-> [s \in Sid |-> 0]]
    /\ events = <<>> /\ asked = {} /\ main = "idle"
    /\ pc = [c \in Client |-> "new"]
    /\ target = [c \in Client |-> NoRoom]
    /\ joins = [c \in Client |-> 0]
    /\ listed = {} /\ forcing = NoClient

\* The steps a connection takes unasked once it has begun a join.
ThreadStep(c) ==
    \/ PushPlayer(c) \/ ReindexAfterPush(c) \/ RoomJoined(c)
    \/ EndDrain(c) \/ LoopTop(c) \/ CloseRemove(c)

BrowserStep(c) ==
    \/ ChooseListed(c) \/ ChooseCreate(c) \/ RoomAppeared(c) \/ WaitTimedOut(c)
    \/ SwitchRoom(c)

ClientStep(c) ==
    \/ Connect(c) \/ BrowserStep(c) \/ ThreadStep(c) \/ AnotherSwitch(c)
    \/ CloseUnlist(c) \/ ForceUnlist(c) \/ ForceRemove(c)

MainStep ==
    \/ MainUpdate \/ MainShortcut \/ MainEvents \/ HandleEvent \/ MainToCleanup
    \/ MainOrphans

Next == MainStep \/ Elapse \/ \E c \in Client : ClientStep(c)

Spec == Init /\ [][Next]_vars

\* The main thread and the threads of the connections keep running.  A step that
\* waits for STATE gets it again and again (strong fairness: the main thread lets
\* go of the write guard between frames), and the frame budget does not cut off
\* the events or the orphan cleanup in every frame for ever.
Fairness ==
    /\ WF_vars(MainUpdate) /\ WF_vars(HandleEvent) /\ WF_vars(MainOrphans)
    /\ WF_vars(MainShortcut \/ MainToCleanup)
    /\ SF_vars(MainEvents) /\ SF_vars(MainToCleanup)
    /\ WF_vars(Elapse)
    /\ \A c \in Client : /\ SF_vars(ThreadStep(c))
                         /\ SF_vars(ForceRemove(c))

FairSpec == Spec /\ Fairness

-----------------------------------------------------------------------------
(* Properties.                                                             *)

\* Every variable keeps to the values the code can give it.
TypeOK ==
    /\ values \in Seq(RoomType) /\ index \in IndexType
    /\ events \in Seq(Room \cup {Other}) /\ Len(events) <= EventCap
    /\ asked \in SUBSET Room /\ main \in MainPC
    /\ pc \in [Client -> PC] /\ target \in [Client -> Room \cup {NoRoom}]
    /\ joins \in [Client -> 0..MaxJoins]
    /\ listed \in SUBSET Client /\ forcing \in Client \cup {NoClient}

\* A room is in the vector at most once and idx_by_room_id, idx_by_state_id and
\* state_id_by_room_id lead to it whenever STATE is free, whatever was dropped,
\* created or restarted: the maps themselves are never cleared (reindex_rooms).
RoomsIndexed ==
    \A i \in 1..Len(values) :
        /\ index.room[values[i].id] = i
        /\ index.sid[SidOf(values[i])] = i
        /\ index.roomSid[values[i].id] = SidOf(values[i])

\* A connection never plays in two rooms, nor twice in one, although a move
\* between rooms is three separate critical sections (move_player_to_room).
OneSeat ==
    \A c \in Client : \A i, j \in 1..Len(values) :
        /\ values[i].seats[c] <= 1
        /\ values[i].seats[c] = 1 /\ values[j].seats[c] = 1 => i = j

\* Between its own operations a seated player is found where it sits, and under the
\* id of the state being played there: its messages are filtered by that id and
\* its actions are queued there, also after restarts and after other rooms went.
SeatIndexed ==
    \A c \in Client : \A i \in 1..Len(values) :
        values[i].seats[c] > 0 /\ pc[c] # "index"
            => index.player[c] = i /\ index.playerSid[c] = SidOf(values[i])

\* Both: what is looked up through the maps is there, however many rooms went.
MapsLead == RoomsIndexed /\ SeatIndexed

\* The ids still to become rooms are distinct, were handed out, and are in no room:
\* a room enters the vector once.
FreshRequests ==
    /\ \A k \in 1..Len(events) : events[k] \in Room =>
          /\ events[k] \in asked
          /\ \A i \in 1..Len(values) : values[i].id # events[k]
    /\ \A k, l \in 1..Len(events) : events[k] \in Room /\ events[k] = events[l] => k = l

DistinctRooms ==
    /\ \A i \in 1..Len(values) : values[i].id \in asked
    /\ \A i, j \in 1..Len(values) : values[i].id = values[j].id => i = j

\* Between sections 1 and 2 of a move the player sits nowhere.
UnseatedWhileMoving ==
    \A c \in Client : pc[c] = "push" => \A i \in 1..Len(values) : values[i].seats[c] = 0

Targets == \A c \in Client : pc[c] \in {"wait", "send", "push"} => target[c] \in Room

\* The invariant the registry maintains step by step; RoomsProofs shows it inductive.
IInv ==
    /\ TypeOK /\ Targets
    /\ DistinctRooms /\ FreshRequests
    /\ RoomsIndexed /\ OneSeat /\ SeatIndexed /\ UnseatedWhileMoving

\* cleanup_empty_rooms never drops a room with somebody in it, not even one that
\* was joined just before its time was up.
NoEviction ==
    [][\A i \in 1..Len(values) :
           ~Empty(values[i]) => \E j \in 1..Len(values') : values'[j].id = values[i].id]_vars

\* A connection that is gone (closed, kicked for errors, or cut off half way through
\* a join) is eventually out of every room for good.
GoneForGood ==
    \A c \in Client : pc[c] = "gone" ~> [](Seated(c, values) = {})

\* A room nobody comes back to is eventually dropped.
EmptyRoomDropped ==
    \A r \in Room :
        []<>(\A i \in 1..Len(values) : values[i].id = r => ~Empty(values[i]))

\* A CreateRoomRequest the channel accepted becomes a room, however many frames
\* cut their events off.
AcceptedRoomAppears ==
    \A r \in Room :
        (\E k \in 1..Len(events) : events[k] = r) ~> r \in RoomIds

\* states.rs:151 calls a room that is no longer there "attempt to join non-existent
\* room": a join seats the player in the room it asked for or nowhere.
JoinsAskedRoom ==
    [][\A c \in Client : pc[c] = "push" /\ pc'[c] = "index" =>
          \A i \in 1..Len(values) :
              values'[i].seats[c] > values[i].seats[c] => values[i].id = target[c]]_vars
=============================================================================
