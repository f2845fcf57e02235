---------------------------- MODULE ServerThreads ----------------------------
(***************************************************************************)
(* The threads of the server and the locks they take: the main thread      *)
(* (main.rs), the dispatcher, the cleaner of bad clients, a worker and a   *)
(* reader thread for every connection (main_ws_server.rs) and the HTTP     *)
(* handlers of sandbox_api.rs.                                             *)
(*                                                                         *)
(* A thread is a program counter.  Wants names what the next step of a     *)
(* program counter has to acquire; held says which threads are inside each *)
(* lock.  STATE is a RwLock, kept as the two locks "stateW" and "stateR".  *)
(* The two bounded channels are waited for in the same way as locks: a     *)
(* blocking send into a full channel waits for the thread that drains it.  *)
(*                                                                         *)
(* Abstractions.  Only the lengths of the channels are kept; what the      *)
(* messages say is in module Delivery.  A handler that takes a lock, does  *)
(* its work and drops the lock without asking for anything else is one     *)
(* step.  EVENTS, PING_STORE and ROOMS_READ are left out: they are only    *)
(* taken by steps that ask for nothing more while inside, or (PING_STORE)  *)
(* for the dispatcher's sender alone.  CLIENT_ERRORS_LAST_CHECK and        *)
(* CLIENT_MESSAGE_COUNTS_LAST_CHECK are only taken under the lock of the   *)
(* map they go with.  Time is a free choice: any check may find its        *)
(* sampling interval over, any message may be the one too many of its      *)
(* interval, any frame may be cut short.                                   *)
(***************************************************************************)
EXTENDS Vectors

CONSTANTS
    Client,        \* connections; each gets a fresh uuid
    Http,          \* HTTP requests to the sandbox handlers
    Failing,       \* the connections whose sockets may fail
    Chatty,        \* the connections that send text messages
    NoClient,      \* "no client"
    MaxErrors,     \* MAX_ERRORS (10 in the code)
    QueueCap,      \* capacity of the channel of a client (128)
    MainCap,       \* capacity of MAIN_DISPATCHER (128 * 128)
    SplitMayFail   \* whether client.split().unwrap() may panic

ASSUME ServerThreadsAssumption ==
    /\ MaxErrors \in Nat /\ QueueCap \in Nat \ {0} /\ MainCap \in Nat \ {0}
    /\ SplitMayFail \in BOOLEAN
    /\ Failing \subseteq Client /\ Chatty \subseteq Client
    /\ NoClient \notin Client

VARIABLES
    pc,       \* where each thread is
    held,     \* held[l]: the threads inside lock l
    list,     \* CLIENT_SENDERS
    set,      \* CLIENT_SENDERS_SET: the clients that are not is_disconnected
    errors,   \* CLIENT_ERRORS; counts above MAX_ERRORS are all alike
    queue,    \* messages in the channel of each client
    mainq,    \* messages in MAIN_DISPATCHER
    todo,     \* clients the dispatcher has yet to send its message to
    cur,      \* the client a thread is counting an error of or disconnecting
    ret       \* where a thread goes on after disconnect_if_bad

vars == <<pc, held, list, set, errors, queue, mainq, todo, cur, ret>>

Main == <<"main", NoClient>>
Dispatcher == <<"dispatcher", NoClient>>
Cleaner == <<"cleaner", NoClient>>
W(c) == <<"worker", c>>
R(c) == <<"reader", c>>
H(h) == <<"http", h>>
Thread == {Main, Dispatcher, Cleaner} \cup {W(c) : c \in Client}
            \cup {R(c) : c \in Client} \cup {H(h) : h \in Http}

Lock == {"errors", "senders", "stateW", "stateR", "disp", "counts", "saved"}

\* A writer of STATE excludes everybody, a reader the writers; the others are mutexes.
Conflicts(l) == CASE l = "stateW" -> {"stateW", "stateR"}
                  [] l = "stateR" -> {"stateW"}
                  [] OTHER -> {l}

(* What the step at each program counter has to acquire; the counters that *)
(* are not listed need nothing.                                            *)
WantOf ==
    [connect |-> "senders",
     inc |-> "errors", bad |-> "errors", unlist |-> "senders", evict |-> "stateW",
     count |-> "counts", overInc |-> "errors", edit |-> "stateW", tell |-> "disp",
     move1 |-> "stateW", move2 |-> "stateW", move3 |-> "stateW",
     notify |-> "disp", joined |-> "stateW", pong |-> "disp",
     close |-> "senders", closeW |-> "stateW", closeR |-> "stateR",
     cast |-> "stateR",
     lockSenders |-> "senders",
     frame |-> "stateW", broadcast |-> "disp", event |-> "disp",
     save |-> "stateW", saveInto |-> "saved", load |-> "saved", replace |-> "stateW"]

Holders(l) == UNION {held[k] : k \in Conflicts(l)}

(* The threads one of which has to move before t can: t itself when it     *)
(* asks for a lock it is inside.                                           *)
Blockers(t) ==
    CASE pc[t] \in DOMAIN WantOf -> Holders(WantOf[pc[t]])
      [] pc[t] = "deliver" /\ todo # <<>> ->
            IF queue[Head(todo)] >= QueueCap /\ pc[W(Head(todo))] # "gone"
            THEN {W(Head(todo))} ELSE {}
      [] pc[t] = "post" -> IF mainq >= MainCap THEN {Dispatcher} ELSE {}
      [] OTHER -> {}

At(t, p) == pc[t] = p /\ Blockers(t) = {}
Goto(t, p) == pc' = [pc EXCEPT ![t] = p]
Take(t, l) == held' = [held EXCEPT ![l] = @ \cup {t}]
Drop(t, ls) == held' = [l \in Lock |-> IF l \in ls THEN held[l] \ {t} ELSE held[l]]
Publish == mainq' = IF mainq < MainCap THEN mainq + 1 ELSE mainq

-----------------------------------------------------------------------------
(* increment_client_errors, disconnect_if_bad and force_disconnect_client, *)
(* called by every kind of thread.  Calls(t, c, p): thread t enters the    *)
(* error path for client c and goes on at p.                               *)

Calls(t, entry, c, p) ==
    /\ Goto(t, entry)
    /\ cur' = [cur EXCEPT ![t] = c]
    /\ ret' = [ret EXCEPT ![t] = p]

Returns(t, p) ==
    /\ Goto(t, p)
    /\ cur' = [cur EXCEPT ![t] = NoClient]
    /\ ret' = [ret EXCEPT ![t] = "none"]

OneMore(n) == IF n > MaxErrors THEN n ELSE n + 1

IncrementClientErrors(t) ==
    /\ At(t, "inc")
    /\ errors' = [errors EXCEPT ![cur[t]] = OneMore(@)]
    /\ Goto(t, "bad")
    /\ UNCHANGED <<held, list, set, queue, mainq, todo, cur, ret>>

(* The guard of CLIENT_ERRORS lives until disconnect_if_bad returns, so    *)
(* force_disconnect_client runs inside it.                                 *)
DisconnectIfBad(t) ==
    /\ At(t, "bad")
    /\ \E reset \in BOOLEAN :
         /\ errors' = IF reset THEN [c \in Client |-> 0] ELSE errors
         /\ IF errors'[cur[t]] > MaxErrors
            THEN Goto(t, "unlist") /\ Take(t, "errors") /\ UNCHANGED <<cur, ret>>
            ELSE Returns(t, ret[t]) /\ UNCHANGED held
    /\ UNCHANGED <<list, set, queue, mainq, todo>>

ForceUnlist(t) ==
    /\ At(t, "unlist")
    /\ Take(t, "senders")
    /\ set' = set \ {cur[t]}
    /\ Goto(t, "remove")
    /\ UNCHANGED <<list, errors, queue, mainq, todo, cur, ret>>

\* senders.remove at the position of the client; every id is there once at most.
Without(s, c) == Retained(s, {i \in DOMAIN s : s[i] # c})

\* Seeded fault: only the set forgets the client.
SenderStays(t) ==
    /\ At(t, "remove")
    /\ Goto(t, "evict")
    /\ UNCHANGED <<held, list, set, errors, queue, mainq, todo, cur, ret>>

RemoveSender(t) ==
    /\ At(t, "remove")
    /\ list' = Without(list, cur[t])
    /\ Goto(t, "evict")
    /\ UNCHANGED <<held, set, errors, queue, mainq, todo, cur, ret>>

\* disconnect_if_bad returns true: the worker leaves its loop.
AfterForce(t) == IF ret[t] = "drain" THEN "gone" ELSE ret[t]

ForceRemovePlayer(t) ==
    /\ At(t, "evict")
    /\ Drop(t, {"senders", "errors"})
    /\ Returns(t, AfterForce(t))
    /\ UNCHANGED <<list, set, errors, queue, mainq, todo>>

ErrorPath(t) == \/ IncrementClientErrors(t) \/ DisconnectIfBad(t)
                \/ ForceUnlist(t) \/ RemoveSender(t) \/ ForceRemovePlayer(t)

-----------------------------------------------------------------------------
(* The worker of a connection: handle_request.                             *)

ConnectPush(c) ==
    /\ At(W(c), "connect")
    /\ list' = Append(list, c)
    /\ Goto(W(c), "insert")
    /\ UNCHANGED <<held, set, errors, queue, mainq, todo, cur, ret>>

\* The insert into the set comes after the guard of CLIENT_SENDERS is gone.
ConnectInsert(c) ==
    /\ At(W(c), "insert")
    /\ set' = set \cup {c}
    /\ \/ pc' = [pc EXCEPT ![W(c)] = "top", ![R(c)] = "recv"]
       \/ SplitMayFail /\ Goto(W(c), "gone")
    /\ UNCHANGED <<held, list, errors, queue, mainq, todo, cur, ret>>

LoopTop(c) ==
    /\ At(W(c), "top")
    /\ IF c \in set THEN Calls(W(c), "bad", c, "drain")
                    ELSE Goto(W(c), "gone") /\ UNCHANGED <<cur, ret>>
    /\ UNCHANGED <<held, list, set, errors, queue, mainq, todo>>

(* A message of the inner queue, or none: a text, a close, or on to the    *)
(* messages for the client.                                                *)
Drain(c) ==
    /\ At(W(c), "drain")
    /\ \E p \in {"close", "send"} \cup (IF c \in Chatty THEN {"count"} ELSE {}) :
         Goto(W(c), p)
    /\ UNCHANGED <<held, list, set, errors, queue, mainq, todo, cur, ret>>

\* The message is dropped, acted on, or one too many: then the error is counted
\* while the guard of CLIENT_MESSAGE_COUNTS is kept.
CheckMessageOverflow(c) ==
    /\ At(W(c), "count")
    /\ \/ Goto(W(c), "overInc") /\ Take(W(c), "counts")
       \/ /\ \E p \in {"drain", "edit", "move1", "pong"} : Goto(W(c), p)
          /\ UNCHANGED held
    /\ UNCHANGED <<list, set, errors, queue, mainq, todo, cur, ret>>

CountOverflow(c) ==
    /\ At(W(c), "overInc")
    /\ errors' = [errors EXCEPT ![c] = OneMore(@)]
    /\ Drop(W(c), {"counts"})
    /\ Goto(W(c), "drain")
    /\ UNCHANGED <<list, set, queue, mainq, todo, cur, ret>>

\* on_client_schedule_player_action(_batch) and on_client_personalize: edit the
\* state of the player's room and publish inside the write section.
EditState(c) ==
    /\ At(W(c), "edit")
    /\ \/ Goto(W(c), "tell") /\ Take(W(c), "stateW")
       \/ Goto(W(c), "drain") /\ UNCHANGED held
    /\ UNCHANGED <<list, set, errors, queue, mainq, todo, cur, ret>>

PublishEdit(c) ==
    /\ At(W(c), "tell")
    /\ Publish
    /\ Drop(W(c), {"stateW"})
    /\ Goto(W(c), "drain")
    /\ UNCHANGED <<list, set, errors, queue, todo, cur, ret>>

\* move_player_to_room and on_client_room_join: four write sections, and the
\* message to the client between the last two.
MoveSection(c) ==
    /\ \E p \in {"move1", "move2", "move3", "joined"} : At(W(c), p)
    /\ \/ Goto(W(c), [move1 |-> "move2", move2 |-> "move3", move3 |-> "notify",
                      joined |-> "drain"][pc[W(c)]])
       \/ pc[W(c)] = "move2" /\ Goto(W(c), "joined")
    /\ UNCHANGED <<held, list, set, errors, queue, mainq, todo, cur, ret>>

NotifyStateChanged(c) ==
    /\ At(W(c), "notify")
    /\ Publish
    /\ Goto(W(c), "joined")
    /\ UNCHANGED <<held, list, set, errors, queue, todo, cur, ret>>

OnClientPing(c) ==
    /\ At(W(c), "pong")
    /\ Publish
    /\ Goto(W(c), "drain")
    /\ UNCHANGED <<held, list, set, errors, queue, todo, cur, ret>>

(* on_client_close keeps the guard of CLIENT_SENDERS until it returns.     *)
CloseUnlist(c) ==
    /\ At(W(c), "close")
    /\ Take(W(c), "senders")
    /\ set' = set \ {c}
    /\ Goto(W(c), "closeList")
    /\ UNCHANGED <<list, errors, queue, mainq, todo, cur, ret>>

CloseRemoveSender(c) ==
    /\ At(W(c), "closeList")
    /\ list' = Without(list, c)
    /\ Goto(W(c), "closeW")
    /\ UNCHANGED <<held, set, errors, queue, mainq, todo, cur, ret>>

\* Seeded fault: the write guard has no block of its own and is kept.
CloseKeepsGuard(c) ==
    /\ At(W(c), "closeW")
    /\ Take(W(c), "stateW")
    /\ Goto(W(c), "closeR")
    /\ UNCHANGED <<list, set, errors, queue, mainq, todo, cur, ret>>

\* The player is in no room: return.
CloseRemovePlayer(c) ==
    /\ At(W(c), "closeW")
    /\ \/ Goto(W(c), "closeR") /\ UNCHANGED held
       \/ Goto(W(c), "gone") /\ Drop(W(c), {"senders"})
    /\ UNCHANGED <<list, set, errors, queue, mainq, todo, cur, ret>>

\* select_state looks a state id up among the ids of the rooms: the state is never
\* found, and the broadcast after it not reached.
CloseReadState(c) ==
    /\ At(W(c), "closeR")
    /\ Drop(W(c), {"senders"})
    /\ Goto(W(c), "gone")
    /\ UNCHANGED <<list, set, errors, queue, mainq, todo, cur, ret>>

(* The messages the dispatcher put into the channel of the client.         *)
NextMessage(c) ==
    /\ At(W(c), "send")
    /\ IF queue[c] = 0
       THEN Goto(W(c), "top") /\ UNCHANGED queue
       ELSE /\ queue' = [queue EXCEPT ![c] = @ - 1]
            /\ Goto(W(c), IF c \in set THEN "cast" ELSE "send")
    /\ UNCHANGED <<held, list, set, errors, mainq, todo, cur, ret>>

\* on_message_to_send_to_client keeps the read guard of STATE over the socket.
CheckMessageCasting(c) ==
    /\ At(W(c), "cast")
    /\ \/ Goto(W(c), "socket") /\ Take(W(c), "stateR")
       \/ Goto(W(c), "send") /\ UNCHANGED held
    /\ UNCHANGED <<list, set, errors, queue, mainq, todo, cur, ret>>

SocketSend(c) ==
    /\ At(W(c), "socket")
    /\ \/ Goto(W(c), "sent") /\ UNCHANGED <<cur, ret>>
       \/ c \in Failing /\ Calls(W(c), "inc", c, "sent")
    /\ UNCHANGED <<held, list, set, errors, queue, mainq, todo>>

MessageSent(c) ==
    /\ At(W(c), "sent")
    /\ Drop(W(c), {"stateR"})
    /\ Goto(W(c), "send")
    /\ UNCHANGED <<list, set, errors, queue, mainq, todo, cur, ret>>

Worker(c) ==
    \/ ConnectPush(c) \/ ConnectInsert(c) \/ LoopTop(c) \/ Drain(c)
    \/ CheckMessageOverflow(c) \/ CountOverflow(c) \/ EditState(c) \/ PublishEdit(c)
    \/ MoveSection(c) \/ NotifyStateChanged(c) \/ OnClientPing(c)
    \/ CloseUnlist(c) \/ CloseRemoveSender(c) \/ CloseRemovePlayer(c)
    \/ CloseReadState(c)
    \/ NextMessage(c) \/ CheckMessageCasting(c) \/ SocketSend(c) \/ MessageSent(c)
    \/ ErrorPath(W(c))

-----------------------------------------------------------------------------
(* The reader of a connection.  A message it receives goes into the inner  *)
(* queue of the worker, which Drain draws from at will; an error is        *)
(* counted.                                                                *)

Recv(c) ==
    /\ At(R(c), "recv")
    /\ IF c \in set THEN c \in Failing /\ Calls(R(c), "inc", c, "recv")
                    ELSE Goto(R(c), "gone") /\ UNCHANGED <<cur, ret>>
    /\ UNCHANGED <<held, list, set, errors, queue, mainq, todo>>

Reader(c) == Recv(c) \/ ErrorPath(R(c))

-----------------------------------------------------------------------------
(* dispatcher_thread: every message goes to every listed client, in the    *)
(* order of CLIENT_SENDERS, inside the lock of CLIENT_SENDERS.             *)

TakeMessage ==
    /\ At(Dispatcher, "take")
    /\ mainq > 0
    /\ mainq' = mainq - 1
    /\ Goto(Dispatcher, "lockSenders")
    /\ UNCHANGED <<held, list, set, errors, queue, todo, cur, ret>>

LockSenders ==
    /\ At(Dispatcher, "lockSenders")
    /\ Take(Dispatcher, "senders")
    /\ todo' = list
    /\ Goto(Dispatcher, "deliver")
    /\ UNCHANGED <<list, set, errors, queue, mainq, cur, ret>>

\* The receiver of a worker that is gone is gone with it: send returns an error.
Deliver ==
    /\ At(Dispatcher, "deliver")
    /\ todo # <<>>
    /\ todo' = Tail(todo)
    /\ LET c == Head(todo) IN
         IF pc[W(c)] = "gone"
         THEN Calls(Dispatcher, "inc", c, "deliver") /\ UNCHANGED queue
         ELSE queue' = [queue EXCEPT ![c] = @ + 1] /\ UNCHANGED <<pc, cur, ret>>
    /\ UNCHANGED <<held, list, set, errors, mainq>>

Delivered ==
    /\ At(Dispatcher, "deliver")
    /\ todo = <<>>
    /\ Drop(Dispatcher, {"senders"})
    /\ Goto(Dispatcher, "take")
    /\ UNCHANGED <<list, set, errors, queue, mainq, todo, cur, ret>>

DispatcherThread == TakeMessage \/ LockSenders \/ Deliver \/ Delivered
                      \/ ErrorPath(Dispatcher)

\* cleanup_bad_clients_thread: the clients it listed under the lock, one by one.
CleanupBadClients ==
    /\ At(Cleaner, "scan")
    /\ held["errors"] = {}
    /\ \E c \in Client : Calls(Cleaner, "bad", c, "scan")
    /\ UNCHANGED <<held, list, set, errors, queue, mainq, todo>>

-----------------------------------------------------------------------------
(* main_thread: one frame is one write section on STATE.                   *)

StartFrame ==
    /\ At(Main, "frame")
    /\ Take(Main, "stateW")
    /\ \E p \in {"broadcast", "update", "endFrame"} : Goto(Main, p)
    /\ UNCHANGED <<list, set, errors, queue, mainq, todo, cur, ret>>

\* The state of one room, or a RoomLeave; there may be more to publish.
BroadcastState ==
    /\ At(Main, "broadcast")
    /\ Publish
    /\ Goto(Main, "update")
    /\ UNCHANGED <<held, list, set, errors, queue, todo, cur, ret>>

\* What the rest of a frame turns to next: an event for a client, one more
\* message that is dropped when the channel is full, or the end of the frame.
FrameWork ==
    /\ At(Main, "update")
    /\ \E p \in {"broadcast", "event", "endFrame"} : Goto(Main, p)
    /\ UNCHANGED <<held, list, set, errors, queue, mainq, todo, cur, ret>>

\* send_event_to_client waits for room in the channel inside the dispatcher's mutex.
LockDispatcher ==
    /\ At(Main, "event")
    /\ Take(Main, "disp")
    /\ Goto(Main, "post")
    /\ UNCHANGED <<list, set, errors, queue, mainq, todo, cur, ret>>

SendEvent ==
    /\ At(Main, "post")
    /\ mainq' = mainq + 1
    /\ Drop(Main, {"disp"})
    /\ Goto(Main, "update")
    /\ UNCHANGED <<list, set, errors, queue, todo, cur, ret>>

EndFrame ==
    /\ At(Main, "endFrame")
    /\ Drop(Main, {"stateW"})
    /\ Goto(Main, "frame")
    /\ UNCHANGED <<list, set, errors, queue, mainq, todo, cur, ret>>

MainThread == \/ StartFrame \/ BroadcastState \/ FrameWork \/ LockDispatcher
              \/ SendEvent \/ EndFrame

-----------------------------------------------------------------------------
(* sandbox_api.rs: save_current_state locks STATE and then SAVED_STATES,   *)
(* load_saved_state the other way round.  The second lock of a save comes  *)
(* after a check that the state has the id of the player, a leftover of    *)
(* personal states: ids of states and of players are fresh uuids, so it    *)
(* never holds.                                                            *)
\* Seeded fault: the state is the player's own.
OwnState == TRUE

PersonalState == FALSE

SaveCurrentState(h) ==
    /\ At(H(h), "save")
    /\ IF PersonalState THEN Goto(H(h), "saveInto") /\ Take(H(h), "stateW")
                        ELSE Goto(H(h), "idle") /\ UNCHANGED held
    /\ UNCHANGED <<list, set, errors, queue, mainq, todo, cur, ret>>

LoadSavedState(h) ==
    /\ At(H(h), "load")
    /\ Take(H(h), "saved")
    /\ Goto(H(h), "replace")
    /\ UNCHANGED <<list, set, errors, queue, mainq, todo, cur, ret>>

\* The last lock either handler takes: both guards are dropped at the return.
EndRequest(h) ==
    /\ \E p \in {"replace", "saveInto"} : At(H(h), p)
    /\ Drop(H(h), {"stateW", "saved"})
    /\ Goto(H(h), "idle")
    /\ UNCHANGED <<list, set, errors, queue, mainq, todo, cur, ret>>

Request(h) ==
    /\ At(H(h), "idle")
    /\ \E p \in {"save", "load"} : Goto(H(h), p)
    /\ UNCHANGED <<held, list, set, errors, queue, mainq, todo, cur, ret>>

HttpThread(h) == SaveCurrentState(h) \/ LoadSavedState(h) \/ EndRequest(h) \/ Request(h)

-----------------------------------------------------------------------------
Init ==
    /\ pc = [t \in Thread |->
               [main |-> "frame", dispatcher |-> "take", cleaner |-> "scan",
                worker |-> "connect", reader |-> "none", http |-> "idle"][t[1]]]
    /\ held = [l \in Lock |-> {}]
    /\ list = <<>> /\ set = {}
    /\ errors = [c \in Client |-> 0]
    /\ queue = [c \in Client |-> 0] /\ mainq = 0 /\ todo = <<>>
    /\ cur = [t \in Thread |-> NoClient]
    /\ ret = [t \in Thread |-> "none"]

Next ==
    \/ \E c \in Client : Worker(c) \/ Reader(c)
    \/ DispatcherThread
    \/ CleanupBadClients \/ ErrorPath(Cleaner)
    \/ MainThread
    \/ \E h \in Http : HttpThread(h)

Spec == Init /\ [][Next]_vars

-----------------------------------------------------------------------------
(* Properties.                                                             *)

(* A set of threads each of which waits for another one of the set, or for *)
(* itself: none of them ever moves again.                                  *)
Deadlocked(S) == S # {} /\ \A t \in S : Blockers(t) \cap S # {}

(* The four places where the code waits for something inside a lock that  *)
(* may be needed to get it.  on_message_to_send_to_client keeps its read   *)
(* guard of STATE while it disconnects a bad client, ...                   *)
ErrorUnderRead(t) == \E c \in Client : t = W(c) /\ ret[t] = "sent"
(* ... the dispatcher sends into a full channel inside CLIENT_SENDERS, ... *)
FullUnderSenders(t) == t = Dispatcher /\ pc[t] = "deliver"
(* ... and disconnects a client whose worker is gone inside it, and the    *)
(* main thread sends into a full MAIN_DISPATCHER inside STATE.             *)
ErrorUnderSenders(t) == t = Dispatcher /\ ret[t] = "deliver"
FullUnderState(t) == t = Main /\ pc[t] = "post"

(* KnownDeadlocks: the threads of the server deadlock in no way other than *)
(* those four: the locks of every other pair of handlers, forced          *)
(* disconnects, closes, frames, overflowing clients and requests, are      *)
(* taken in one order.                                                     *)
KnownDeadlocks ==
    LET Waiting == {t \in Thread : Blockers(t) # {}}
        Known == {t \in Waiting : ErrorUnderRead(t) \/ FullUnderSenders(t)
                                    \/ ErrorUnderSenders(t) \/ FullUnderState(t)}
    IN  \A S \in SUBSET (Waiting \ Known) : ~ Deadlocked(S)

(* SendersAgree: whenever CLIENT_SENDERS is free, is_disconnected (the     *)
(* set) tells of every connection exactly what CLIENT_SENDERS does, except *)
(* between the two steps of a new connection: closes and forced            *)
(* disconnects by five kinds of threads never leave one without the other. *)
SendersAgree ==
    held["senders"] = {} =>
        \A c \in Client : pc[W(c)] = "insert"
                            \/ (c \in set <=> \E i \in DOMAIN list : list[i] = c)

(* ReceiverListed: the dispatcher never meets a client whose worker is     *)
(* gone: while a client is due a message the worker that drains its        *)
(* channel is alive, whichever thread disconnects it, unless the worker    *)
(* could not split its socket.                                             *)
ReceiverListed ==
    \A i \in DOMAIN todo : pc[W(todo[i])] = "gone" => pc[R(todo[i])] = "none"

(* ClientsListed: whichever of the threads disconnects a client, what the  *)
(* others read of it agrees with itself and with its worker.               *)
ClientsListed == SendersAgree /\ ReceiverListed

=============================================================================
