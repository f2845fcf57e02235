------------------------- MODULE ServerThreadsProofs -------------------------
(***************************************************************************)
(* Theorems about ServerThreads, for every number of connections and of    *)
(* requests: the threads deadlock in the four known ways only, and what    *)
(* they read of a client agrees.                                           *)
(*                                                                         *)
(* IInv is the inductive invariant.  Its core is Locks: which locks a      *)
(* thread is inside follows from where it is.  From it, KnownDeadlocks is  *)
(* the order of the locks.  The rest follows a client through its life:    *)
(* Fresh before it is listed, Agreed and Unlisted while threads take it    *)
(* out of the list and of the set, Due while it waits for a message.       *)
(***************************************************************************)
EXTENDS ServerThreads, VectorsProofs

ErrorPC == {"inc", "bad", "unlist", "remove", "evict"}
WorkerPC ==
    {"connect", "insert", "top", "drain", "count", "overInc", "edit", "tell", "move1", "move2",
     "move3", "notify", "joined", "pong", "close", "closeList", "closeW", "closeR",
     "send", "cast", "socket", "sent", "gone"} \cup ErrorPC

\* Where the threads of each kind may be, and where the error path leads them back to.
Kind(t) == t[1]
PcsOf ==
    [main |-> {"frame", "broadcast", "update", "event", "post", "endFrame"},
     dispatcher |-> {"take", "lockSenders", "deliver"} \cup ErrorPC,
     cleaner |-> {"scan"} \cup ErrorPC,
     worker |-> WorkerPC,
     reader |-> {"none", "recv", "gone"} \cup ErrorPC,
     http |-> {"idle", "save", "load", "replace"}]
Pcs(t) == PcsOf[Kind(t)]
PC == UNION {Pcs(t) : t \in Thread}
RetsOf ==
    [main |-> {}, dispatcher |-> {"deliver"}, cleaner |-> {"scan"},
     worker |-> {"drain", "sent"}, reader |-> {"recv"}, http |-> {}]
Rets(t) == RetsOf[Kind(t)]
Ret == {"none", "deliver", "scan", "drain", "sent", "recv"}

-----------------------------------------------------------------------------
(* The inductive invariant.                                                *)

Shape ==
    /\ pc \in [Thread -> PC] /\ held \in [Lock -> SUBSET Thread]
    /\ list \in Seq(Client) /\ todo \in Seq(Client) /\ set \subseteq Client
    /\ errors \in [Client -> Nat]
    /\ cur \in [Thread -> Client \cup {NoClient}] /\ ret \in [Thread -> Ret]

Places == \A t \in Thread : pc[t] \in Pcs(t)

(* The error path of t is about a client, its own if t is a worker, and    *)
(* has a way back.  The dispatcher never gets to its end: it waits there   *)
(* for the lock it is inside.                                              *)
Returning ==
    /\ \A t \in Thread : IF pc[t] \in ErrorPC THEN ret[t] \in Rets(t) /\ cur[t] \in Client
                                              ELSE ret[t] = "none"
    /\ \A c \in Client : pc[W(c)] \in ErrorPC => cur[W(c)] = c
    /\ pc[Dispatcher] \notin {"remove", "evict"}

\* The locks a thread is inside that is at p and has to return to r.
In(p, r, l) ==
    \/ l = "errors" /\ p \in {"unlist", "remove", "evict"}
    \/ l = "senders" /\ \/ p \in {"remove", "evict", "closeList", "closeW", "closeR", "deliver"}
                        \/ r = "deliver"
    \/ l = "stateW" /\ p \in {"tell", "broadcast", "update", "event", "post", "endFrame"}
    \/ l = "stateR" /\ (p \in {"socket", "sent"} \/ r = "sent")
    \/ l = "disp" /\ p = "post"
    \/ l = "counts" /\ p = "overInc"
    \/ l = "saved" /\ p = "replace"
Inside(t, l) == In(pc[t], ret[t], l)

Locks == \A l \in Lock, t \in Thread : t \in held[l] <=> Inside(t, l)
Alone == \A t, u \in held["senders"] : t = u

Listed(c) == \E i \in DOMAIN list : list[i] = c
Leaving(c) == pc[W(c)] = "closeList" \/ \E t \in Thread : pc[t] = "remove" /\ cur[t] = c

Agreed == \A c \in Client : pc[W(c)] = "insert" \/ Leaving(c) \/ (c \in set <=> Listed(c))

\* Nobody knows of a connection before its worker has listed it.
Fresh ==
    \A c \in Client : pc[W(c)] \in {"connect", "insert"} =>
        /\ errors[c] = 0 /\ c \notin set /\ pc[R(c)] = "none"
        /\ pc[W(c)] = "insert" <=> Listed(c)
        /\ \A t \in Thread : cur[t] = c => pc[t] \notin {"inc", "unlist", "remove", "evict"}

\* Who is being disconnected is no longer in the set; its worker ends after that.
Unlisted ==
    /\ \A t \in Thread : pc[t] \in {"remove", "evict"} => cur[t] \notin set
    /\ \A c \in Client : /\ pc[W(c)] \in {"closeList", "closeW", "closeR"} => c \notin set
                         /\ pc[W(c)] = "gone" => pc[R(c)] = "none" \/ c \notin set

Due ==
    /\ todo # <<>> => Dispatcher \in held["senders"]
    /\ \A i \in DOMAIN todo : Listed(todo[i])
    /\ ReceiverListed

IInv == Shape /\ Places /\ Returning /\ Locks /\ Alone /\ Agreed /\ Fresh /\ Unlisted /\ Due

-----------------------------------------------------------------------------
(* The threads and what each kind of them may do.                          *)

LEMMA Threads ==
    /\ Main \in Thread /\ Dispatcher \in Thread /\ Cleaner \in Thread
    /\ \A c \in Client : W(c) \in Thread /\ R(c) \in Thread
    /\ \A h \in Http : H(h) \in Thread
    /\ \A t \in Thread : \/ t = Main \/ t = Dispatcher \/ t = Cleaner
                         \/ \E c \in Client : t = W(c) \/ t = R(c)
                         \/ \E h \in Http : t = H(h)
  BY DEF Thread

LEMMA Kinds ==
    /\ Kind(Main) = "main" /\ Kind(Dispatcher) = "dispatcher" /\ Kind(Cleaner) = "cleaner"
    /\ \A c : Kind(W(c)) = "worker" /\ Kind(R(c)) = "reader" /\ Kind(H(c)) = "http"
    /\ \A c, d : W(c) = W(d) => c = d
    /\ \A c, d : R(c) = R(d) => c = d
  BY DEF Kind, Main, Dispatcher, Cleaner, W, R, H

LEMMA PlacesOfKinds ==
    /\ Pcs(Main) = {"frame", "broadcast", "update", "event", "post", "endFrame"}
    /\ Pcs(Dispatcher) = {"take", "lockSenders", "deliver"} \cup ErrorPC
    /\ Pcs(Cleaner) = {"scan"} \cup ErrorPC
    /\ \A c : Pcs(W(c)) = WorkerPC
    /\ \A c : Pcs(R(c)) = {"none", "recv", "gone"} \cup ErrorPC
    /\ \A h : Pcs(H(h)) = {"idle", "save", "load", "replace"}
  BY Kinds DEF Pcs, PcsOf

LEMMA ReturnsOfKinds ==
    /\ Rets(Main) = {} /\ Rets(Dispatcher) = {"deliver"} /\ Rets(Cleaner) = {"scan"}
    /\ \A c : Rets(W(c)) = {"drain", "sent"} /\ Rets(R(c)) = {"recv"} /\ Rets(H(c)) = {}
  BY Kinds DEF Rets, RetsOf

\* Who can be where, and return to where.
LEMMA WhoIsWhere ==
    ASSUME Places, Returning, NEW t \in Thread
    PROVE  /\ pc[t] \in {"post", "broadcast", "event", "frame"} => t = Main
           /\ pc[t] \in {"deliver", "take", "lockSenders"} \/ ret[t] = "deliver" => t = Dispatcher
           /\ pc[t] \in WorkerPC \ (ErrorPC \cup {"gone"}) \/ ret[t] \in {"sent", "drain"}
                => \E c \in Client : t = W(c)
           /\ ret[t] \in {"none", "deliver", "scan", "sent", "drain", "recv"}
<1>1. CASE t = Main
  BY <1>1, PlacesOfKinds, ReturnsOfKinds DEF Places, Returning, ErrorPC, WorkerPC
<1>2. CASE t = Dispatcher
  BY <1>2, PlacesOfKinds, ReturnsOfKinds DEF Places, Returning, ErrorPC, WorkerPC
<1>3. CASE t = Cleaner
  BY <1>3, PlacesOfKinds, ReturnsOfKinds DEF Places, Returning, ErrorPC, WorkerPC
<1>4. CASE \E c \in Client : t = W(c)
  BY <1>4, PlacesOfKinds, ReturnsOfKinds DEF Places, Returning, ErrorPC, WorkerPC
<1>5. CASE \E c \in Client : t = R(c)
  BY <1>5, PlacesOfKinds, ReturnsOfKinds DEF Places, Returning, ErrorPC, WorkerPC
<1>6. CASE \E h \in Http : t = H(h)
  BY <1>6, PlacesOfKinds, ReturnsOfKinds DEF Places, Returning, ErrorPC, WorkerPC
<1> QED BY <1>1, <1>2, <1>3, <1>4, <1>5, <1>6, Threads

\* What a thread waits for.
LEMMA BlockersAtALock ==
    ASSUME NEW t \in Thread, pc[t] \in DOMAIN WantOf
    PROVE  Blockers(t) = Holders(WantOf[pc[t]])
<1>1. pc[t] # "deliver" /\ pc[t] # "post"
  BY DEF WantOf
<1> QED BY <1>1 DEF Blockers

LEMMA HoldersOfALock ==
    /\ Holders("stateW") = held["stateW"] \cup held["stateR"]
    /\ Holders("stateR") = held["stateW"]
    /\ \A l \in {"errors", "senders", "disp", "counts", "saved"} : Holders(l) = held[l]
  BY DEF Holders, Conflicts

-----------------------------------------------------------------------------
(* KnownDeadlocks: outside the four known places, whoever waits inside one *)
(* lock waits for a later one in the order counts and saved, errors,       *)
(* senders, STATE, dispatcher.                                             *)

\* What a thread that is in none of the four places waits for.
LEMMA WaitsForALock ==
    ASSUME Places, Returning, NEW t \in Thread, Blockers(t) # {},
           ~ErrorUnderRead(t), ~FullUnderSenders(t), ~ErrorUnderSenders(t), ~FullUnderState(t)
    PROVE  /\ pc[t] \in DOMAIN WantOf /\ Blockers(t) = Holders(WantOf[pc[t]])
           /\ ret[t] \notin {"sent", "deliver"} /\ pc[t] # "post"
<1>1. pc[t] # "deliver" /\ pc[t] # "post" /\ ret[t] # "deliver"
  BY WhoIsWhere DEF FullUnderSenders, ErrorUnderSenders, FullUnderState
<1>2. ret[t] # "sent"
  BY WhoIsWhere DEF ErrorUnderRead
<1>3. pc[t] \in DOMAIN WantOf
  BY <1>1 DEF Blockers
<1> QED BY <1>1, <1>2, <1>3, BlockersAtALock

\* The order of the locks: inside one, a thread waits for one that comes later.
LEMMA LocksInOrder ==
    ASSUME NEW t \in Thread, pc[t] \in DOMAIN WantOf,
           ret[t] \notin {"sent", "deliver"}, pc[t] # "post"
    PROVE  /\ ~Inside(t, "disp")
           /\ Inside(t, "stateW") \/ Inside(t, "stateR") => WantOf[pc[t]] = "disp"
           /\ Inside(t, "senders") => WantOf[pc[t]] \in {"stateW", "stateR", "disp"}
           /\ Inside(t, "errors") => WantOf[pc[t]] \in {"senders", "stateW"}
           /\ Inside(t, "counts") => WantOf[pc[t]] = "errors"
           /\ Inside(t, "saved") => WantOf[pc[t]] = "stateW"
           /\ WantOf[pc[t]] \in Lock
  BY DEF Inside, In, WantOf, Lock

LEMMA InvariantKnowsDeadlocks ==
    ASSUME Shape, Places, Returning, Locks
    PROVE  KnownDeadlocks
<1> DEFINE Waiting == {t \in Thread : Blockers(t) # {}}
           Known == {t \in Waiting : ErrorUnderRead(t) \/ FullUnderSenders(t)
                                       \/ ErrorUnderSenders(t) \/ FullUnderState(t)}
<1>1. SUFFICES ASSUME NEW S \in SUBSET (Waiting \ Known), S # {},
                      \A t \in S : Blockers(t) \cap S # {}
               PROVE  FALSE
  BY DEF KnownDeadlocks, Deadlocked
<1>2. \A t \in S : t \in Thread /\ pc[t] \in DOMAIN WantOf
                     /\ Blockers(t) = Holders(WantOf[pc[t]])
                     /\ ret[t] \notin {"sent", "deliver"} /\ pc[t] # "post"
  BY WaitsForALock
<1>3. \A t \in S : /\ ~Inside(t, "disp")
                   /\ Inside(t, "stateW") \/ Inside(t, "stateR") => WantOf[pc[t]] = "disp"
                   /\ Inside(t, "senders") => WantOf[pc[t]] \in {"stateW", "stateR", "disp"}
                   /\ Inside(t, "errors") => WantOf[pc[t]] \in {"senders", "stateW"}
                   /\ Inside(t, "counts") => WantOf[pc[t]] = "errors"
                   /\ Inside(t, "saved") => WantOf[pc[t]] = "stateW"
                   /\ WantOf[pc[t]] \in Lock
  BY <1>2, LocksInOrder
<1> HIDE DEF Waiting, Known
<1>4. \A t \in S : \E u \in S : u \in Holders(WantOf[pc[t]])
  BY <1>1, <1>2
<1>5. \A l \in Lock, u \in S : u \in held[l] => Inside(u, l)
  BY <1>2 DEF Locks
<1>6. \A t \in S : WantOf[pc[t]] # "disp"
  BY <1>3, <1>4, <1>5, HoldersOfALock DEF Lock
<1>7. \A t \in S : WantOf[pc[t]] \notin {"stateW", "stateR"}
  BY <1>3, <1>4, <1>5, <1>6, HoldersOfALock DEF Lock
<1>8. \A t \in S : WantOf[pc[t]] # "senders"
  BY <1>3, <1>4, <1>5, <1>6, <1>7, HoldersOfALock DEF Lock
<1>9. \A t \in S : WantOf[pc[t]] # "errors"
  BY <1>3, <1>4, <1>5, <1>7, <1>8, HoldersOfALock DEF Lock
<1>10. \A t \in S : WantOf[pc[t]] \notin {"counts", "saved"}
  BY <1>3, <1>4, <1>5, <1>7, <1>9, HoldersOfALock DEF Lock
<1> QED BY <1>1, <1>3, <1>6, <1>7, <1>8, <1>9, <1>10 DEF Lock

-----------------------------------------------------------------------------
(* Most steps only move a thread on, into a lock or out of it.             *)

Closing == {"closeW", "closeR"}
Quiet(p) == p \notin ErrorPC \cup {"connect", "insert", "closeList", "none"}
HeldAfter(t, took, dropped) ==
    [l \in Lock |-> IF l \in dropped THEN held[l] \ {t}
                    ELSE IF l \in took THEN held[l] \cup {t} ELSE held[l]]

Comes(t, p, took, dropped) ==
    pc' = [pc EXCEPT ![t] = p] /\ held' = HeldAfter(t, took, dropped)

MovesOn(t, p, took, dropped) ==
    /\ p \in Pcs(t) /\ Quiet(pc[t]) /\ Quiet(p)
    /\ pc' = [pc EXCEPT ![t] = p] /\ UNCHANGED <<list, set, errors, todo, cur, ret>>
    /\ held' = HeldAfter(t, took, dropped)
    /\ \A l \in Lock : In(p, "none", l) <=> l \in took \/ (In(pc[t], "none", l) /\ l \notin dropped)
    /\ "senders" \notin took /\ dropped \cap took = {}
    /\ p \in Closing \cup {"gone"} => pc[t] \in Closing
    /\ t = Dispatcher => "senders" \notin dropped \/ todo = <<>>

LEMMA MovingOn ==
    ASSUME IInv, NEW t \in Thread, NEW p, NEW took, NEW dropped,
           MovesOn(t, p, took, dropped)
    PROVE  IInv'
<1>1. /\ Shape /\ Places /\ Returning /\ Locks /\ Alone /\ Agreed /\ Fresh /\ Unlisted /\ Due
      /\ p \in Pcs(t) /\ Quiet(pc[t]) /\ Quiet(p)
      /\ UNCHANGED <<list, set, errors, todo, cur, ret>>
      /\ held' = HeldAfter(t, took, dropped)
      /\ \A l \in Lock :
           In(p, "none", l) <=> l \in took \/ (In(pc[t], "none", l) /\ l \notin dropped)
      /\ "senders" \notin took /\ dropped \cap took = {}
      /\ p \in Closing \cup {"gone"} => pc[t] \in Closing
      /\ t = Dispatcher => "senders" \notin dropped \/ todo = <<>>
  BY DEF IInv, MovesOn
<1>2. pc'[t] = p /\ \A u \in Thread \ {t} : pc'[u] = pc[u]
  BY <1>1 DEF MovesOn, Shape
<1>3. ret[t] = "none"
  BY <1>1 DEF Returning, Quiet
<1>4. \A l \in Lock : /\ t \in held'[l] <=> l \in took \/ (t \in held[l] /\ l \notin dropped)
                      /\ \A u \in Thread \ {t} : u \in held'[l] <=> u \in held[l]
  BY <1>1 DEF HeldAfter
<1>5. Shape'
  <2>1. pc' \in [Thread -> PC]
    BY <1>1 DEF MovesOn, Shape, PC
  <2>2. held' \in [Lock -> SUBSET Thread]
    BY <1>1 DEF HeldAfter, Shape
  <2> QED BY <1>1, <2>1, <2>2 DEF Shape
<1>6. Places'
  BY <1>1, <1>2 DEF Places
<1>7. Returning'
  <2>1. pc'[Dispatcher] \notin {"remove", "evict"}
    BY <1>1, <1>2, Threads DEF Returning, Quiet, ErrorPC
  <2> QED BY <1>1, <1>2, <1>3, <2>1, Threads DEF Returning, Quiet
<1>8. Locks'
  <2>1. \A l \in Lock : t \in held'[l] <=> Inside(t, l)'
    BY <1>1, <1>2, <1>3, <1>4 DEF Locks, Inside
  <2>2. \A l \in Lock, u \in Thread \ {t} : u \in held'[l] <=> Inside(u, l)'
    BY <1>1, <1>2, <1>4 DEF Locks, Inside
  <2> QED BY <2>1, <2>2 DEF Locks
<1>9. held'["senders"] \subseteq held["senders"]
  BY <1>1 DEF HeldAfter, Lock
<1>10. Alone'
  BY <1>1, <1>9 DEF Alone
<1>11. Agreed'
  <2>1. \A c \in Client : Listed(c)' <=> Listed(c)
    BY <1>1 DEF Listed
  <2>2. \A c \in Client : Leaving(c) => Leaving(c)'
    BY <1>1, <1>2, Threads DEF Leaving, Quiet, ErrorPC
  <2>3. \A c \in Client : pc[W(c)] = "insert" => pc'[W(c)] = "insert"
    BY <1>1, <1>2, Threads DEF Quiet
  <2> QED BY <1>1, <2>1, <2>2, <2>3 DEF Agreed
<1>12. Fresh'
  <2>1. \A c \in Client : Listed(c)' <=> Listed(c)
    BY <1>1 DEF Listed
  <2>2. \A c \in Client : /\ pc'[W(c)] \in {"connect", "insert"} => pc'[W(c)] = pc[W(c)]
                          /\ pc[R(c)] = "none" => pc'[R(c)] = "none"
    BY <1>1, <1>2, Threads DEF Quiet
  <2>3. \A u \in Thread : pc'[u] \in {"inc", "unlist", "remove", "evict"} => pc[u] = pc'[u]
    BY <1>1, <1>2 DEF Quiet, ErrorPC
  <2> QED BY <1>1, <2>1, <2>2, <2>3 DEF Fresh
<1>13. Unlisted'
  <2>1. \A u \in Thread : pc'[u] \in {"remove", "evict"} => pc[u] = pc'[u]
    BY <1>1, <1>2 DEF Quiet, ErrorPC
  <2>2. \A c \in Client : pc'[W(c)] \in Closing \cup {"closeList"}
                            => pc[W(c)] \in Closing \cup {"closeList"}
    BY <1>1, <1>2, Threads DEF Quiet
  <2>3. \A c \in Client : pc'[W(c)] = "gone" => pc[W(c)] \in Closing \cup {"gone"}
    BY <1>1, <1>2, Threads
  <2>4. \A c \in Client : pc[R(c)] = "none" => pc'[R(c)] = "none"
    BY <1>1, <1>2, Threads DEF Quiet
  <2> QED BY <1>1, <2>1, <2>2, <2>3, <2>4 DEF Unlisted, Closing
<1>14. Due'
  <2>1. todo # <<>> => Dispatcher \in held'["senders"]
    BY <1>1, <1>4, Threads DEF Due, Lock
  <2>2. \A i \in DOMAIN todo : Listed(todo[i])'
    BY <1>1 DEF Due, Listed
  <2>3. ASSUME NEW i \in DOMAIN todo, pc'[W(todo[i])] = "gone"
        PROVE  pc'[R(todo[i])] = "none"
    <3>1. todo[i] \in Client
      BY <1>1 DEF Shape
    <3>2. pc[R(todo[i])] = "none" => pc'[R(todo[i])] = "none"
      BY <1>1, <1>2, <3>1, Threads DEF Quiet
    <3>3. CASE pc[W(todo[i])] = "gone"
      BY <1>1, <3>2, <3>3 DEF Due, ReceiverListed
    <3>4. CASE pc[W(todo[i])] # "gone"
      <4>1. t = W(todo[i]) /\ pc[t] \in Closing
        BY <1>1, <1>2, <2>3, <3>1, <3>4, Threads
      <4>2. t \in held["senders"] /\ Dispatcher \in held["senders"]
        BY <1>1, <4>1 DEF Due, Locks, Inside, In, Closing, Lock, Shape
      <4>3. t = Dispatcher
        BY <1>1, <4>2 DEF Alone
      <4> QED BY <4>1, <4>3, Kinds
    <3> QED BY <3>3, <3>4
  <2> QED BY <1>1, <2>1, <2>2, <2>3 DEF Due, ReceiverListed
<1> QED BY <1>5, <1>6, <1>7, <1>8, <1>10, <1>11, <1>12, <1>13, <1>14 DEF IInv

\* What Take and Drop make of the locks.
LEMMA TakesAndDrops ==
    ASSUME Shape, NEW t
    PROVE  /\ held = HeldAfter(t, {}, {})
           /\ \A l \in Lock : Take(t, l) => held' = HeldAfter(t, {l}, {})
           /\ \A ls : Drop(t, ls) => held' = HeldAfter(t, {}, ls)
<1>1. held = HeldAfter(t, {}, {})
  BY DEF Shape, HeldAfter
<1>2. \A l \in Lock : Take(t, l) => held' = HeldAfter(t, {l}, {})
  BY DEF Shape, HeldAfter, Take
<1>3. \A ls : Drop(t, ls) => held' = HeldAfter(t, {}, ls)
  BY DEF HeldAfter, Drop
<1> QED BY <1>1, <1>2, <1>3

LEMMA WorkerMovesOn ==
    ASSUME IInv, NEW c \in Client,
           \/ Drain(c) \/ CheckMessageOverflow(c) \/ EditState(c)
           \/ PublishEdit(c) \/ MoveSection(c) \/ NotifyStateChanged(c)
           \/ OnClientPing(c) \/ CloseRemovePlayer(c) \/ CloseReadState(c)
           \/ NextMessage(c) \/ CheckMessageCasting(c)
           \/ MessageSent(c)
    PROVE  IInv'
<1>1. Shape /\ Places
  BY DEF IInv
<1>2. CASE Drain(c)
  <2>1. pc[W(c)] = "drain" /\ UNCHANGED <<list, set, errors, todo, cur, ret>>
    BY <1>2 DEF Drain, At
  <2>2. \E p \in {"close", "send", "count"} : Comes(W(c), p, {}, {})
    BY <1>1, <1>2, TakesAndDrops DEF Drain, At, Goto, Comes
  <2>3. ASSUME NEW p \in {"close", "send", "count"}, Comes(W(c), p, {}, {})
        PROVE  IInv'
    <3>1. MovesOn(W(c), p, {}, {})
      BY <2>1, <2>3, PlacesOfKinds, Kinds DEF MovesOn, Comes, Quiet,
            ErrorPC, WorkerPC, In, Closing, Lock
    <3> QED BY <3>1, MovingOn, Threads
  <2> QED BY <2>2, <2>3
<1>3. CASE CheckMessageOverflow(c)
  <2>1. pc[W(c)] = "count" /\ UNCHANGED <<list, set, errors, todo, cur, ret>>
    BY <1>3 DEF CheckMessageOverflow, At
  <2>2. \/ \E p \in {"overInc"} : Comes(W(c), p, {"counts"}, {})
        \/ \E p \in {"drain", "edit", "move1", "pong"} : Comes(W(c), p, {}, {})
    BY <1>1, <1>3, TakesAndDrops DEF CheckMessageOverflow, At, Goto, Comes, Lock
  <2>3. ASSUME NEW p \in {"overInc"}, Comes(W(c), p, {"counts"}, {})
        PROVE  IInv'
    <3>1. MovesOn(W(c), p, {"counts"}, {})
      BY <2>1, <2>3, PlacesOfKinds, Kinds DEF MovesOn, Comes, Quiet,
            ErrorPC, WorkerPC, In, Closing, Lock
    <3> QED BY <3>1, MovingOn, Threads
  <2>4. ASSUME NEW p \in {"drain", "edit", "move1", "pong"}, Comes(W(c), p, {}, {})
        PROVE  IInv'
    <3>1. MovesOn(W(c), p, {}, {})
      BY <2>1, <2>4, PlacesOfKinds, Kinds DEF MovesOn, Comes, Quiet,
            ErrorPC, WorkerPC, In, Closing, Lock
    <3> QED BY <3>1, MovingOn, Threads
  <2> QED BY <2>2, <2>3, <2>4
<1>4. CASE EditState(c)
  <2>1. pc[W(c)] = "edit" /\ UNCHANGED <<list, set, errors, todo, cur, ret>>
    BY <1>4 DEF EditState, At
  <2>2. \/ \E p \in {"tell"} : Comes(W(c), p, {"stateW"}, {})
        \/ \E p \in {"drain"} : Comes(W(c), p, {}, {})
    BY <1>1, <1>4, TakesAndDrops DEF EditState, At, Goto, Comes, Lock
  <2>3. ASSUME NEW p \in {"tell"}, Comes(W(c), p, {"stateW"}, {})
        PROVE  IInv'
    <3>1. MovesOn(W(c), p, {"stateW"}, {})
      BY <2>1, <2>3, PlacesOfKinds, Kinds DEF MovesOn, Comes, Quiet,
            ErrorPC, WorkerPC, In, Closing, Lock
    <3> QED BY <3>1, MovingOn, Threads
  <2>4. ASSUME NEW p \in {"drain"}, Comes(W(c), p, {}, {})
        PROVE  IInv'
    <3>1. MovesOn(W(c), p, {}, {})
      BY <2>1, <2>4, PlacesOfKinds, Kinds DEF MovesOn, Comes, Quiet,
            ErrorPC, WorkerPC, In, Closing, Lock
    <3> QED BY <3>1, MovingOn, Threads
  <2> QED BY <2>2, <2>3, <2>4
<1>5. CASE PublishEdit(c)
  <2>1. pc[W(c)] = "tell" /\ UNCHANGED <<list, set, errors, todo, cur, ret>>
    BY <1>5 DEF PublishEdit, At
  <2>2. \E p \in {"drain"} : Comes(W(c), p, {}, {"stateW"})
    BY <1>1, <1>5, TakesAndDrops DEF PublishEdit, At, Goto, Comes
  <2>3. ASSUME NEW p \in {"drain"}, Comes(W(c), p, {}, {"stateW"})
        PROVE  IInv'
    <3>1. MovesOn(W(c), p, {}, {"stateW"})
      BY <2>1, <2>3, PlacesOfKinds, Kinds DEF MovesOn, Comes, Quiet,
            ErrorPC, WorkerPC, In, Closing, Lock
    <3> QED BY <3>1, MovingOn, Threads
  <2> QED BY <2>2, <2>3
<1>6. CASE MoveSection(c)
  <2>1. pc[W(c)] \in {"move1", "move2", "move3", "joined"}
        /\ UNCHANGED <<list, set, errors, todo, cur, ret>>
    BY <1>6 DEF MoveSection, At
  <2>2. \E p \in {"move2", "move3", "notify", "drain", "joined"} : Comes(W(c), p, {}, {})
    BY <1>1, <1>6, TakesAndDrops DEF MoveSection, At, Goto, Comes
  <2>3. ASSUME NEW p \in {"move2", "move3", "notify", "drain", "joined"}, Comes(W(c), p, {}, {})
        PROVE  IInv'
    <3>1. MovesOn(W(c), p, {}, {})
      BY <2>1, <2>3, PlacesOfKinds, Kinds DEF MovesOn, Comes, Quiet,
            ErrorPC, WorkerPC, In, Closing, Lock
    <3> QED BY <3>1, MovingOn, Threads
  <2> QED BY <2>2, <2>3
<1>7. CASE NotifyStateChanged(c)
  <2>1. pc[W(c)] = "notify" /\ UNCHANGED <<list, set, errors, todo, cur, ret>>
    BY <1>7 DEF NotifyStateChanged, At
  <2>2. \E p \in {"joined"} : Comes(W(c), p, {}, {})
    BY <1>1, <1>7, TakesAndDrops DEF NotifyStateChanged, At, Goto, Comes
  <2>3. ASSUME NEW p \in {"joined"}, Comes(W(c), p, {}, {})
        PROVE  IInv'
    <3>1. MovesOn(W(c), p, {}, {})
      BY <2>1, <2>3, PlacesOfKinds, Kinds DEF MovesOn, Comes, Quiet,
            ErrorPC, WorkerPC, In, Closing, Lock
    <3> QED BY <3>1, MovingOn, Threads
  <2> QED BY <2>2, <2>3
<1>8. CASE OnClientPing(c)
  <2>1. pc[W(c)] = "pong" /\ UNCHANGED <<list, set, errors, todo, cur, ret>>
    BY <1>8 DEF OnClientPing, At
  <2>2. \E p \in {"drain"} : Comes(W(c), p, {}, {})
    BY <1>1, <1>8, TakesAndDrops DEF OnClientPing, At, Goto, Comes
  <2>3. ASSUME NEW p \in {"drain"}, Comes(W(c), p, {}, {})
        PROVE  IInv'
    <3>1. MovesOn(W(c), p, {}, {})
      BY <2>1, <2>3, PlacesOfKinds, Kinds DEF MovesOn, Comes, Quiet,
            ErrorPC, WorkerPC, In, Closing, Lock
    <3> QED BY <3>1, MovingOn, Threads
  <2> QED BY <2>2, <2>3
<1>9. CASE CloseRemovePlayer(c)
  <2>1. pc[W(c)] = "closeW" /\ UNCHANGED <<list, set, errors, todo, cur, ret>>
    BY <1>9 DEF CloseRemovePlayer, At
  <2>2. \/ \E p \in {"closeR"} : Comes(W(c), p, {}, {})
        \/ \E p \in {"gone"} : Comes(W(c), p, {}, {"senders"})
    BY <1>1, <1>9, TakesAndDrops DEF CloseRemovePlayer, At, Goto, Comes
  <2>3. ASSUME NEW p \in {"closeR"}, Comes(W(c), p, {}, {})
        PROVE  IInv'
    <3>1. MovesOn(W(c), p, {}, {})
      BY <2>1, <2>3, PlacesOfKinds, Kinds DEF MovesOn, Comes, Quiet,
            ErrorPC, WorkerPC, In, Closing, Lock
    <3> QED BY <3>1, MovingOn, Threads
  <2>4. ASSUME NEW p \in {"gone"}, Comes(W(c), p, {}, {"senders"})
        PROVE  IInv'
    <3>1. MovesOn(W(c), p, {}, {"senders"})
      BY <2>1, <2>4, PlacesOfKinds, Kinds DEF MovesOn, Comes, Quiet,
            ErrorPC, WorkerPC, In, Closing, Lock
    <3> QED BY <3>1, MovingOn, Threads
  <2> QED BY <2>2, <2>3, <2>4
<1>10. CASE CloseReadState(c)
  <2>1. pc[W(c)] = "closeR" /\ UNCHANGED <<list, set, errors, todo, cur, ret>>
    BY <1>10 DEF CloseReadState, At
  <2>2. \E p \in {"gone"} : Comes(W(c), p, {}, {"senders"})
    BY <1>1, <1>10, TakesAndDrops DEF CloseReadState, At, Goto, Comes
  <2>3. ASSUME NEW p \in {"gone"}, Comes(W(c), p, {}, {"senders"})
        PROVE  IInv'
    <3>1. MovesOn(W(c), p, {}, {"senders"})
      BY <2>1, <2>3, PlacesOfKinds, Kinds DEF MovesOn, Comes, Quiet,
            ErrorPC, WorkerPC, In, Closing, Lock
    <3> QED BY <3>1, MovingOn, Threads
  <2> QED BY <2>2, <2>3
<1>12. CASE NextMessage(c)
  <2>1. pc[W(c)] = "send" /\ UNCHANGED <<list, set, errors, todo, cur, ret>>
    BY <1>12 DEF NextMessage, At
  <2>2. \E p \in {"top", "cast", "send"} : Comes(W(c), p, {}, {})
    BY <1>1, <1>12, TakesAndDrops DEF NextMessage, At, Goto, Comes
  <2>3. ASSUME NEW p \in {"top", "cast", "send"}, Comes(W(c), p, {}, {})
        PROVE  IInv'
    <3>1. MovesOn(W(c), p, {}, {})
      BY <2>1, <2>3, PlacesOfKinds, Kinds DEF MovesOn, Comes, Quiet,
            ErrorPC, WorkerPC, In, Closing, Lock
    <3> QED BY <3>1, MovingOn, Threads
  <2> QED BY <2>2, <2>3
<1>13. CASE CheckMessageCasting(c)
  <2>1. pc[W(c)] = "cast" /\ UNCHANGED <<list, set, errors, todo, cur, ret>>
    BY <1>13 DEF CheckMessageCasting, At
  <2>2. \/ \E p \in {"socket"} : Comes(W(c), p, {"stateR"}, {})
        \/ \E p \in {"send"} : Comes(W(c), p, {}, {})
    BY <1>1, <1>13, TakesAndDrops DEF CheckMessageCasting, At, Goto, Comes, Lock
  <2>3. ASSUME NEW p \in {"socket"}, Comes(W(c), p, {"stateR"}, {})
        PROVE  IInv'
    <3>1. MovesOn(W(c), p, {"stateR"}, {})
      BY <2>1, <2>3, PlacesOfKinds, Kinds DEF MovesOn, Comes, Quiet,
            ErrorPC, WorkerPC, In, Closing, Lock
    <3> QED BY <3>1, MovingOn, Threads
  <2>4. ASSUME NEW p \in {"send"}, Comes(W(c), p, {}, {})
        PROVE  IInv'
    <3>1. MovesOn(W(c), p, {}, {})
      BY <2>1, <2>4, PlacesOfKinds, Kinds DEF MovesOn, Comes, Quiet,
            ErrorPC, WorkerPC, In, Closing, Lock
    <3> QED BY <3>1, MovingOn, Threads
  <2> QED BY <2>2, <2>3, <2>4
<1>14. CASE MessageSent(c)
  <2>1. pc[W(c)] = "sent" /\ UNCHANGED <<list, set, errors, todo, cur, ret>>
    BY <1>14 DEF MessageSent, At
  <2>2. \E p \in {"send"} : Comes(W(c), p, {}, {"stateR"})
    BY <1>1, <1>14, TakesAndDrops DEF MessageSent, At, Goto, Comes
  <2>3. ASSUME NEW p \in {"send"}, Comes(W(c), p, {}, {"stateR"})
        PROVE  IInv'
    <3>1. MovesOn(W(c), p, {}, {"stateR"})
      BY <2>1, <2>3, PlacesOfKinds, Kinds DEF MovesOn, Comes, Quiet,
            ErrorPC, WorkerPC, In, Closing, Lock
    <3> QED BY <3>1, MovingOn, Threads
  <2> QED BY <2>2, <2>3
<1> QED BY <1>2, <1>3, <1>4, <1>5, <1>6, <1>7, <1>8, <1>9, <1>10, <1>12, <1>13, <1>14

LEMMA OthersMoveOn ==
    ASSUME IInv, \/ TakeMessage \/ Delivered \/ StartFrame \/ BroadcastState
           \/ FrameWork \/ LockDispatcher \/ SendEvent \/ EndFrame
    PROVE  IInv'
<1>1. Shape /\ Places
  BY DEF IInv
<1>2. CASE TakeMessage
  <2>1. pc[Dispatcher] = "take" /\ UNCHANGED <<list, set, errors, todo, cur, ret>>
    BY <1>2 DEF TakeMessage, At
  <2>2. \E p \in {"lockSenders"} : Comes(Dispatcher, p, {}, {})
    BY <1>1, <1>2, TakesAndDrops DEF TakeMessage, At, Goto, Comes
  <2>3. ASSUME NEW p \in {"lockSenders"}, Comes(Dispatcher, p, {}, {})
        PROVE  IInv'
    <3>1. MovesOn(Dispatcher, p, {}, {})
      BY <2>1, <2>3, PlacesOfKinds, Kinds DEF MovesOn, Comes, Quiet,
            ErrorPC, WorkerPC, In, Closing, Lock
    <3> QED BY <3>1, MovingOn, Threads
  <2> QED BY <2>2, <2>3
<1>3. CASE Delivered
  <2>1. pc[Dispatcher] = "deliver" /\ UNCHANGED <<list, set, errors, todo, cur, ret>> /\ todo = <<>>
    BY <1>3 DEF Delivered, At
  <2>2. \E p \in {"take"} : Comes(Dispatcher, p, {}, {"senders"})
    BY <1>1, <1>3, TakesAndDrops DEF Delivered, At, Goto, Comes
  <2>3. ASSUME NEW p \in {"take"}, Comes(Dispatcher, p, {}, {"senders"})
        PROVE  IInv'
    <3>1. MovesOn(Dispatcher, p, {}, {"senders"})
      BY <2>1, <2>3, PlacesOfKinds, Kinds DEF MovesOn, Comes, Quiet,
            ErrorPC, WorkerPC, In, Closing, Lock
    <3> QED BY <3>1, MovingOn, Threads
  <2> QED BY <2>2, <2>3
<1>4. CASE StartFrame
  <2>1. pc[Main] = "frame" /\ UNCHANGED <<list, set, errors, todo, cur, ret>>
    BY <1>4 DEF StartFrame, At
  <2>2. \E p \in {"broadcast", "update", "endFrame"} : Comes(Main, p, {"stateW"}, {})
    BY <1>1, <1>4, TakesAndDrops DEF StartFrame, At, Goto, Comes, Lock
  <2>3. ASSUME NEW p \in {"broadcast", "update", "endFrame"}, Comes(Main, p, {"stateW"}, {})
        PROVE  IInv'
    <3>1. MovesOn(Main, p, {"stateW"}, {})
      BY <2>1, <2>3, PlacesOfKinds, Kinds DEF MovesOn, Comes, Quiet,
            ErrorPC, WorkerPC, In, Closing, Lock
    <3> QED BY <3>1, MovingOn, Threads
  <2> QED BY <2>2, <2>3
<1>5. CASE BroadcastState
  <2>1. pc[Main] = "broadcast" /\ UNCHANGED <<list, set, errors, todo, cur, ret>>
    BY <1>5 DEF BroadcastState, At
  <2>2. \E p \in {"update"} : Comes(Main, p, {}, {})
    BY <1>1, <1>5, TakesAndDrops DEF BroadcastState, At, Goto, Comes
  <2>3. ASSUME NEW p \in {"update"}, Comes(Main, p, {}, {})
        PROVE  IInv'
    <3>1. MovesOn(Main, p, {}, {})
      BY <2>1, <2>3, PlacesOfKinds, Kinds DEF MovesOn, Comes, Quiet,
            ErrorPC, WorkerPC, In, Closing, Lock
    <3> QED BY <3>1, MovingOn, Threads
  <2> QED BY <2>2, <2>3
<1>6. CASE FrameWork
  <2>1. pc[Main] = "update" /\ UNCHANGED <<list, set, errors, todo, cur, ret>>
    BY <1>6 DEF FrameWork, At
  <2>2. \E p \in {"broadcast", "event", "endFrame"} : Comes(Main, p, {}, {})
    BY <1>1, <1>6, TakesAndDrops DEF FrameWork, At, Goto, Comes
  <2>3. ASSUME NEW p \in {"broadcast", "event", "endFrame"}, Comes(Main, p, {}, {})
        PROVE  IInv'
    <3>1. MovesOn(Main, p, {}, {})
      BY <2>1, <2>3, PlacesOfKinds, Kinds DEF MovesOn, Comes, Quiet,
            ErrorPC, WorkerPC, In, Closing, Lock
    <3> QED BY <3>1, MovingOn, Threads
  <2> QED BY <2>2, <2>3
<1>7. CASE LockDispatcher
  <2>1. pc[Main] = "event" /\ UNCHANGED <<list, set, errors, todo, cur, ret>>
    BY <1>7 DEF LockDispatcher, At
  <2>2. \E p \in {"post"} : Comes(Main, p, {"disp"}, {})
    BY <1>1, <1>7, TakesAndDrops DEF LockDispatcher, At, Goto, Comes, Lock
  <2>3. ASSUME NEW p \in {"post"}, Comes(Main, p, {"disp"}, {})
        PROVE  IInv'
    <3>1. MovesOn(Main, p, {"disp"}, {})
      BY <2>1, <2>3, PlacesOfKinds, Kinds DEF MovesOn, Comes, Quiet,
            ErrorPC, WorkerPC, In, Closing, Lock
    <3> QED BY <3>1, MovingOn, Threads
  <2> QED BY <2>2, <2>3
<1>8. CASE SendEvent
  <2>1. pc[Main] = "post" /\ UNCHANGED <<list, set, errors, todo, cur, ret>>
    BY <1>8 DEF SendEvent, At
  <2>2. \E p \in {"update"} : Comes(Main, p, {}, {"disp"})
    BY <1>1, <1>8, TakesAndDrops DEF SendEvent, At, Goto, Comes
  <2>3. ASSUME NEW p \in {"update"}, Comes(Main, p, {}, {"disp"})
        PROVE  IInv'
    <3>1. MovesOn(Main, p, {}, {"disp"})
      BY <2>1, <2>3, PlacesOfKinds, Kinds DEF MovesOn, Comes, Quiet,
            ErrorPC, WorkerPC, In, Closing, Lock
    <3> QED BY <3>1, MovingOn, Threads
  <2> QED BY <2>2, <2>3
<1>9. CASE EndFrame
  <2>1. pc[Main] = "endFrame" /\ UNCHANGED <<list, set, errors, todo, cur, ret>>
    BY <1>9 DEF EndFrame, At
  <2>2. \E p \in {"frame"} : Comes(Main, p, {}, {"stateW"})
    BY <1>1, <1>9, TakesAndDrops DEF EndFrame, At, Goto, Comes
  <2>3. ASSUME NEW p \in {"frame"}, Comes(Main, p, {}, {"stateW"})
        PROVE  IInv'
    <3>1. MovesOn(Main, p, {}, {"stateW"})
      BY <2>1, <2>3, PlacesOfKinds, Kinds DEF MovesOn, Comes, Quiet,
            ErrorPC, WorkerPC, In, Closing, Lock
    <3> QED BY <3>1, MovingOn, Threads
  <2> QED BY <2>2, <2>3
<1> QED BY <1>2, <1>3, <1>4, <1>5, <1>6, <1>7, <1>8, <1>9

LEMMA HttpMovesOn ==
    ASSUME IInv, NEW h \in Http,
           \/ SaveCurrentState(h) \/ LoadSavedState(h) \/ EndRequest(h)
           \/ Request(h)
    PROVE  IInv'
<1>1. Shape /\ Places
  BY DEF IInv
<1>2. CASE SaveCurrentState(h)
  <2>1. pc[H(h)] = "save" /\ UNCHANGED <<list, set, errors, todo, cur, ret>>
    BY <1>2 DEF SaveCurrentState, PersonalState, At
  <2>2. \E p \in {"idle"} : Comes(H(h), p, {}, {})
    BY <1>1, <1>2, TakesAndDrops DEF SaveCurrentState, PersonalState, At, Goto, Comes
  <2>3. ASSUME NEW p \in {"idle"}, Comes(H(h), p, {}, {})
        PROVE  IInv'
    <3>1. MovesOn(H(h), p, {}, {})
      BY <2>1, <2>3, PlacesOfKinds, Kinds DEF MovesOn, Comes, Quiet,
            ErrorPC, WorkerPC, In, Closing, Lock
    <3> QED BY <3>1, MovingOn, Threads
  <2> QED BY <2>2, <2>3
<1>3. CASE LoadSavedState(h)
  <2>1. pc[H(h)] = "load" /\ UNCHANGED <<list, set, errors, todo, cur, ret>>
    BY <1>3 DEF LoadSavedState, At
  <2>2. \E p \in {"replace"} : Comes(H(h), p, {"saved"}, {})
    BY <1>1, <1>3, TakesAndDrops DEF LoadSavedState, At, Goto, Comes, Lock
  <2>3. ASSUME NEW p \in {"replace"}, Comes(H(h), p, {"saved"}, {})
        PROVE  IInv'
    <3>1. MovesOn(H(h), p, {"saved"}, {})
      BY <2>1, <2>3, PlacesOfKinds, Kinds DEF MovesOn, Comes, Quiet,
            ErrorPC, WorkerPC, In, Closing, Lock
    <3> QED BY <3>1, MovingOn, Threads
  <2> QED BY <2>2, <2>3
<1>4. CASE EndRequest(h)
  <2>1. pc[H(h)] = "replace" /\ UNCHANGED <<list, set, errors, todo, cur, ret>>
    BY <1>4, <1>1, PlacesOfKinds, Threads DEF EndRequest, At, Places, ErrorPC
  <2>2. \E p \in {"idle"} : Comes(H(h), p, {}, {"stateW", "saved"})
    BY <1>1, <1>4, TakesAndDrops DEF EndRequest, At, Goto, Comes
  <2>3. ASSUME NEW p \in {"idle"}, Comes(H(h), p, {}, {"stateW", "saved"})
        PROVE  IInv'
    <3>1. MovesOn(H(h), p, {}, {"stateW", "saved"})
      BY <2>1, <2>3, PlacesOfKinds, Kinds DEF MovesOn, Comes, Quiet,
            ErrorPC, WorkerPC, In, Closing, Lock
    <3> QED BY <3>1, MovingOn, Threads
  <2> QED BY <2>2, <2>3
<1>5. CASE Request(h)
  <2>1. pc[H(h)] = "idle" /\ UNCHANGED <<list, set, errors, todo, cur, ret>>
    BY <1>5 DEF Request, At
  <2>2. \E p \in {"save", "load"} : Comes(H(h), p, {}, {})
    BY <1>1, <1>5, TakesAndDrops DEF Request, At, Goto, Comes
  <2>3. ASSUME NEW p \in {"save", "load"}, Comes(H(h), p, {}, {})
        PROVE  IInv'
    <3>1. MovesOn(H(h), p, {}, {})
      BY <2>1, <2>3, PlacesOfKinds, Kinds DEF MovesOn, Comes, Quiet,
            ErrorPC, WorkerPC, In, Closing, Lock
    <3> QED BY <3>1, MovingOn, Threads
  <2> QED BY <2>2, <2>3
<1> QED BY <1>2, <1>3, <1>4, <1>5

-----------------------------------------------------------------------------
(* The other steps: a thread turns to the error path, goes on along it,    *)
(* or changes what is known of the clients.                                *)

Turns(t, p, c, r, took, dropped) ==
    /\ p \in Pcs(t) /\ r \in Ret /\ c \in Client \cup {NoClient}
    /\ IF p \in ErrorPC THEN r \in Rets(t) /\ c \in Client ELSE r = "none"
    /\ \A d \in Client : t = W(d) /\ p \in ErrorPC => c = d
    /\ t = Dispatcher => p \notin {"remove", "evict"}
    /\ pc' = [pc EXCEPT ![t] = p]
    /\ cur' = [cur EXCEPT ![t] = c]
    /\ ret' = [ret EXCEPT ![t] = r]
    /\ held' = HeldAfter(t, took, dropped)
    /\ \A l \in Lock : In(p, r, l) <=> l \in took \/ (In(pc[t], ret[t], l) /\ l \notin dropped)
    /\ dropped \cap took = {}
    /\ "senders" \in took => held["senders"] = {}

\* What the clients of the threads, and the threads themselves, come to.
LEMMA Turning ==
    ASSUME IInv, NEW t \in Thread, NEW p, NEW c, NEW r, NEW took, NEW dropped,
           Turns(t, p, c, r, took, dropped)
    PROVE  /\ pc' \in [Thread -> PC] /\ held' \in [Lock -> SUBSET Thread]
           /\ cur' \in [Thread -> Client \cup {NoClient}] /\ ret' \in [Thread -> Ret]
           /\ pc'[t] = p /\ cur'[t] = c
           /\ \A u \in Thread \ {t} : pc'[u] = pc[u] /\ cur'[u] = cur[u]
           /\ Places' /\ Returning' /\ Locks' /\ Alone'
           /\ "senders" \notin took => held'["senders"] \subseteq held["senders"]
           /\ "senders" \notin dropped => held["senders"] \subseteq held'["senders"]
           /\ held["senders"] \ {t} \subseteq held'["senders"]
<1>1. Shape /\ Places /\ Returning /\ Locks /\ Alone
  BY DEF IInv
<1>2. /\ p \in Pcs(t) /\ r \in Ret /\ c \in Client \cup {NoClient}
      /\ IF p \in ErrorPC THEN r \in Rets(t) /\ c \in Client ELSE r = "none"
      /\ \A d \in Client : t = W(d) /\ p \in ErrorPC => c = d
      /\ t = Dispatcher => p \notin {"remove", "evict"}
      /\ held' = HeldAfter(t, took, dropped)
      /\ \A l \in Lock : In(p, r, l) <=> l \in took \/ (In(pc[t], ret[t], l) /\ l \notin dropped)
      /\ dropped \cap took = {}
      /\ "senders" \in took => held["senders"] = {}
  BY DEF Turns
<1>3. pc' \in [Thread -> PC] /\ pc'[t] = p /\ \A u \in Thread \ {t} : pc'[u] = pc[u]
  BY <1>1, <1>2 DEF Turns, Shape, PC
<1>4. /\ cur' \in [Thread -> Client \cup {NoClient}]
      /\ cur'[t] = c /\ \A u \in Thread \ {t} : cur'[u] = cur[u]
  BY <1>1, <1>2 DEF Turns, Shape
<1>5. ret' \in [Thread -> Ret] /\ ret'[t] = r /\ \A u \in Thread \ {t} : ret'[u] = ret[u]
  BY <1>1, <1>2 DEF Turns, Shape
<1>6. held' \in [Lock -> SUBSET Thread]
  BY <1>1, <1>2 DEF HeldAfter, Shape
<1>7. \A l \in Lock : /\ t \in held'[l] <=> l \in took \/ (t \in held[l] /\ l \notin dropped)
                      /\ \A u \in Thread \ {t} : u \in held'[l] <=> u \in held[l]
  BY <1>2 DEF HeldAfter
<1>8. Places'
  BY <1>1, <1>2, <1>3 DEF Places
<1>9. Returning'
  <2>1. \A u \in Thread : IF pc'[u] \in ErrorPC THEN ret'[u] \in Rets(u) /\ cur'[u] \in Client
                                                ELSE ret'[u] = "none"
    BY <1>1, <1>2, <1>3, <1>4, <1>5 DEF Returning
  <2>2. \A d \in Client : pc'[W(d)] \in ErrorPC => cur'[W(d)] = d
    BY <1>1, <1>2, <1>3, <1>4, Threads DEF Returning
  <2>3. pc'[Dispatcher] \notin {"remove", "evict"}
    BY <1>1, <1>2, <1>3, Threads DEF Returning
  <2> QED BY <2>1, <2>2, <2>3 DEF Returning
<1>10. Locks'
  <2>1. \A l \in Lock : t \in held'[l] <=> Inside(t, l)'
    BY <1>1, <1>2, <1>3, <1>5, <1>7 DEF Locks, Inside
  <2>2. \A l \in Lock, u \in Thread \ {t} : u \in held'[l] <=> Inside(u, l)'
    BY <1>1, <1>3, <1>5, <1>7 DEF Locks, Inside
  <2> QED BY <2>1, <2>2 DEF Locks
<1>11. /\ "senders" \notin took => held'["senders"] \subseteq held["senders"]
       /\ "senders" \notin dropped => held["senders"] \subseteq held'["senders"]
       /\ held["senders"] \ {t} \subseteq held'["senders"]
       /\ "senders" \in took => held'["senders"] \subseteq {t}
  BY <1>2 DEF HeldAfter, Lock
<1>12. Alone'
  BY <1>1, <1>11 DEF Alone
<1> QED BY <1>3, <1>4, <1>5, <1>6, <1>8, <1>9, <1>10, <1>11, <1>12

Listing == {"connect", "insert"}

\* The steps that leave the list and the set of the clients alone.
LEMMA OnTheWay ==
    ASSUME IInv, NEW t \in Thread, NEW p, NEW c, NEW r, NEW took, NEW dropped,
           Turns(t, p, c, r, took, dropped),
           UNCHANGED <<list, set, todo>>, errors' \in [Client -> Nat],
           \A d \in Client : pc[W(d)] \in Listing => errors'[d] = 0,
           pc[t] \notin Listing \cup {"none", "remove", "closeList"},
           p \notin Listing \cup Closing \cup {"none", "remove", "evict", "closeList"},
           p \in {"inc", "unlist"} => pc[W(c)] \notin Listing,
           "senders" \notin took, t = Dispatcher => "senders" \notin dropped,
           \A d \in Client : t = W(d) /\ p = "gone"
                               => d \notin set /\ \A i \in DOMAIN todo : todo[i] # d
    PROVE  IInv'
<1>1. Shape /\ Agreed /\ Fresh /\ Unlisted /\ Due
  BY DEF IInv
<1>2. /\ pc' \in [Thread -> PC] /\ held' \in [Lock -> SUBSET Thread]
      /\ cur' \in [Thread -> Client \cup {NoClient}] /\ ret' \in [Thread -> Ret]
      /\ pc'[t] = p /\ cur'[t] = c
      /\ \A u \in Thread \ {t} : pc'[u] = pc[u] /\ cur'[u] = cur[u]
      /\ Places' /\ Returning' /\ Locks' /\ Alone'
      /\ "senders" \notin dropped => held["senders"] \subseteq held'["senders"]
      /\ held["senders"] \ {t} \subseteq held'["senders"]
  BY Turning
<1>3. Shape'
  BY <1>1, <1>2 DEF Shape
<1>4. \A d \in Client : Listed(d)' <=> Listed(d)
  BY DEF Listed
<1>5. \A d \in Client : /\ pc'[W(d)] \in Listing <=> pc[W(d)] \in Listing
                        /\ pc[W(d)] \in Listing => pc'[W(d)] = pc[W(d)]
                        /\ pc[R(d)] = "none" => pc'[R(d)] = "none"
                        /\ pc[W(d)] = "closeList" => pc'[W(d)] = "closeList"
                        /\ pc'[W(d)] \in Closing \cup {"closeList"} => pc'[W(d)] = pc[W(d)]
                        /\ W(d) # t => pc'[W(d)] = pc[W(d)]
  BY <1>2, Threads
<1>6. Agreed'
  <2>1. \A d \in Client : Leaving(d) => Leaving(d)'
    BY <1>2, <1>5 DEF Leaving
  <2> QED BY <1>1, <1>4, <1>5, <2>1 DEF Agreed, Listing
<1>7. Fresh'
  <2>1. \A d \in Client, u \in Thread : pc[W(d)] \in Listing /\ cur'[u] = d
          => pc'[u] \notin {"inc", "unlist", "remove", "evict"}
    BY <1>1, <1>2 DEF Fresh, Listing
  <2> QED BY <1>1, <1>4, <1>5, <2>1 DEF Fresh, Listing
<1>8. Unlisted'
  <2>1. \A u \in Thread : pc'[u] \in {"remove", "evict"} => pc[u] = pc'[u] /\ cur[u] = cur'[u]
    BY <1>2
  <2>2. \A d \in Client : pc'[W(d)] = "gone" => pc[W(d)] = "gone" \/ d \notin set
    BY <1>2, <1>5
  <2> QED BY <1>1, <1>5, <2>1, <2>2 DEF Unlisted, Closing
<1>9. Due'
  <2>1. todo # <<>> => Dispatcher \in held'["senders"]
    BY <1>1, <1>2 DEF Due
  <2>2. \A i \in DOMAIN todo : todo[i] \in Client
    BY <1>1 DEF Shape
  <2>3. \A i \in DOMAIN todo : pc'[W(todo[i])] = "gone" => pc'[R(todo[i])] = "none"
    BY <1>1, <1>2, <1>5, <2>2 DEF Due, ReceiverListed
  <2>4. \A i \in DOMAIN todo : Listed(todo[i])'
    BY <1>1, <1>4, <2>2 DEF Due
  <2> QED BY <2>1, <2>3, <2>4 DEF Due, ReceiverListed
<1> QED BY <1>2, <1>3, <1>6, <1>7, <1>8, <1>9 DEF IInv

\* Who is about to take a lock finds nobody inside it.
LEMMA NobodyInside ==
    /\ \A t \in Thread : At(t, "unlist") => pc[t] = "unlist" /\ held["senders"] = {}
    /\ \A t \in Thread : At(t, "close") => pc[t] = "close" /\ held["senders"] = {}
    /\ \A t \in Thread : At(t, "lockSenders") => pc[t] = "lockSenders" /\ held["senders"] = {}
<1>1. \A t \in Thread, p \in {"unlist", "close", "lockSenders"} :
        At(t, p) => pc[t] = p /\ Holders("senders") = {}
  BY BlockersAtALock DEF At, WantOf
<1> QED BY <1>1, HoldersOfALock

\* The error path of any thread, up to the lock of the list.
LEMMA IncrementingErrors ==
    ASSUME IInv, NEW t \in Thread, IncrementClientErrors(t)
    PROVE  IInv'
<1>1. Shape /\ Places /\ Returning /\ Fresh
  BY DEF IInv
<1>2. /\ pc[t] = "inc" /\ pc' = [pc EXCEPT ![t] = "bad"]
      /\ errors' = [errors EXCEPT ![cur[t]] = OneMore(@)]
      /\ UNCHANGED <<held, list, set, todo, cur, ret>>
  BY DEF IncrementClientErrors, At, Goto
<1>3. ret[t] \in Rets(t) /\ cur[t] \in Client /\ \A d \in Client : t = W(d) => cur[t] = d
  BY <1>1, <1>2 DEF Returning, ErrorPC
<1>4. Turns(t, "bad", cur[t], ret[t], {}, {})
  <2>1. "bad" \in Pcs(t)
    BY <1>1, <1>2, Threads, PlacesOfKinds DEF Places, ErrorPC, WorkerPC
  <2>2. cur' = [cur EXCEPT ![t] = cur[t]] /\ ret' = [ret EXCEPT ![t] = ret[t]] /\ ret[t] \in Ret
    BY <1>1, <1>2 DEF Shape
  <2>3. held' = HeldAfter(t, {}, {})
    BY <1>1, <1>2, TakesAndDrops
  <2>4. \A l \in Lock : In("bad", ret[t], l) <=> In("inc", ret[t], l)
    BY DEF In
  <2> QED BY <1>2, <1>3, <2>1, <2>2, <2>3, <2>4 DEF Turns, ErrorPC
<1>5. errors' \in [Client -> Nat]
  <2>1. errors[cur[t]] \in Nat
    BY <1>1, <1>3 DEF Shape
  <2>2. OneMore(errors[cur[t]]) \in Nat
    BY <2>1 DEF OneMore
  <2> QED BY <1>1, <1>2, <2>2 DEF Shape
<1>6. \A d \in Client : pc[W(d)] \in Listing => errors'[d] = 0
  <2> SUFFICES ASSUME NEW d \in Client, pc[W(d)] \in Listing
               PROVE  errors'[d] = 0
    OBVIOUS
  <2>1. errors[d] = 0 /\ cur[t] # d
    BY <1>1, <1>2 DEF Fresh, Listing
  <2> QED BY <1>1, <1>2, <2>1 DEF Shape
<1> QED BY <1>2, <1>4, <1>5, <1>6, OnTheWay DEF Listing, Closing

LEMMA Disconnecting ==
    ASSUME IInv, NEW t \in Thread, DisconnectIfBad(t)
    PROVE  IInv'
<1>1. Shape /\ Places /\ Returning /\ Fresh
  BY DEF IInv
<1>2. PICK reset \in BOOLEAN :
        /\ errors' = IF reset THEN [c \in Client |-> 0] ELSE errors
        /\ IF errors'[cur[t]] > MaxErrors
           THEN Goto(t, "unlist") /\ Take(t, "errors") /\ UNCHANGED <<cur, ret>>
           ELSE Returns(t, ret[t]) /\ UNCHANGED held
  BY DEF DisconnectIfBad
<1>3. pc[t] = "bad" /\ UNCHANGED <<list, set, todo>>
  BY DEF DisconnectIfBad, At
<1>4. ret[t] \in Rets(t) /\ cur[t] \in Client /\ \A d \in Client : t = W(d) => cur[t] = d
  BY <1>1, <1>3 DEF Returning, ErrorPC
<1>5. errors' \in [Client -> Nat] /\ \A d \in Client : errors[d] = 0 => errors'[d] = 0
  BY <1>1, <1>2 DEF Shape
<1>6. \A d \in Client : pc[W(d)] \in Listing => errors'[d] = 0
  BY <1>1, <1>5 DEF Fresh, Listing
<1>7. CASE errors'[cur[t]] > MaxErrors
  <2>1. pc' = [pc EXCEPT ![t] = "unlist"] /\ held' = HeldAfter(t, {"errors"}, {})
        /\ UNCHANGED <<cur, ret>>
    BY <1>1, <1>2, <1>7, TakesAndDrops DEF Goto, Lock
  <2>2. Turns(t, "unlist", cur[t], ret[t], {"errors"}, {})
    <3>1. "unlist" \in Pcs(t)
      BY <1>1, <1>3, Threads, PlacesOfKinds DEF Places, ErrorPC, WorkerPC
    <3>2. cur' = [cur EXCEPT ![t] = cur[t]] /\ ret' = [ret EXCEPT ![t] = ret[t]] /\ ret[t] \in Ret
      BY <1>1, <2>1 DEF Shape
    <3>3. \A l \in Lock : In("unlist", ret[t], l) <=> l = "errors" \/ In("bad", ret[t], l)
      BY DEF In
    <3> QED BY <1>3, <1>4, <2>1, <3>1, <3>2, <3>3 DEF Turns, ErrorPC
  <2>3. pc[W(cur[t])] \notin Listing
    <3>1. errors'[cur[t]] # 0
      BY <1>4, <1>5, <1>7, ServerThreadsAssumption
    <3> QED BY <1>4, <1>6, <3>1
  <2> QED BY <1>3, <1>5, <1>6, <2>2, <2>3, OnTheWay DEF Listing, Closing
<1>8. CASE ~(errors'[cur[t]] > MaxErrors)
  <2>1. /\ pc' = [pc EXCEPT ![t] = ret[t]] /\ cur' = [cur EXCEPT ![t] = NoClient]
        /\ ret' = [ret EXCEPT ![t] = "none"] /\ held' = HeldAfter(t, {}, {})
    BY <1>1, <1>2, <1>8, TakesAndDrops DEF Goto, Returns
  <2>2. ret[t] \in Pcs(t) /\ ret[t] \in {"deliver", "scan", "drain", "sent", "recv"}
    BY <1>4, Threads, PlacesOfKinds, ReturnsOfKinds DEF WorkerPC
  <2>3. Turns(t, ret[t], NoClient, "none", {}, {})
    <3>1. \A l \in Lock : In(ret[t], "none", l) <=> In("bad", ret[t], l)
      BY <2>2 DEF In
    <3>2. ret[t] \notin ErrorPC
      BY <2>2 DEF ErrorPC
    <3> QED BY <1>3, <2>1, <2>2, <3>1, <3>2 DEF Turns, ErrorPC, Ret
  <2> QED BY <1>3, <1>5, <1>6, <2>2, <2>3, OnTheWay DEF Listing, Closing
<1> QED BY <1>7, <1>8

LEMMA Evicting ==
    ASSUME IInv, NEW t \in Thread, ForceRemovePlayer(t)
    PROVE  IInv'
<1>1. Shape /\ Places /\ Returning /\ Locks /\ Alone /\ Fresh /\ Unlisted /\ Due
  BY DEF IInv
<1>2. /\ pc[t] = "evict" /\ pc' = [pc EXCEPT ![t] = AfterForce(t)]
      /\ cur' = [cur EXCEPT ![t] = NoClient] /\ ret' = [ret EXCEPT ![t] = "none"]
      /\ held' = HeldAfter(t, {}, {"senders", "errors"})
      /\ UNCHANGED <<errors, list, set, todo>>
  BY <1>1, TakesAndDrops DEF ForceRemovePlayer, At, Goto, Returns
<1>3. ret[t] \in Rets(t) /\ cur[t] \in Client /\ \A d \in Client : t = W(d) => cur[t] = d
  BY <1>1, <1>2 DEF Returning, ErrorPC
<1>4. t # Dispatcher /\ t \in held["senders"]
  BY <1>1, <1>2 DEF Returning, Locks, Inside, In, Lock
<1>5. /\ AfterForce(t) \in Pcs(t) /\ ret[t] \in {"scan", "drain", "sent", "recv"}
      /\ AfterForce(t) \in {"scan", "gone", "sent", "recv"}
      /\ AfterForce(t) = ret[t] \/ (AfterForce(t) = "gone" /\ ret[t] = "drain")
  BY <1>3, <1>4, Threads, PlacesOfKinds, ReturnsOfKinds DEF WorkerPC, AfterForce
<1>6. todo = <<>>
  BY <1>1, <1>4 DEF Due, Alone
<1>7. Turns(t, AfterForce(t), NoClient, "none", {}, {"senders", "errors"})
  <2>1. \A l \in Lock : In(AfterForce(t), "none", l)
                          <=> In("evict", ret[t], l) /\ l \notin {"senders", "errors"}
    BY <1>5 DEF In
  <2>2. AfterForce(t) \notin ErrorPC
    BY <1>5 DEF ErrorPC
  <2> QED BY <1>2, <1>5, <2>1, <2>2 DEF Turns, ErrorPC, Ret
<1>8. \A d \in Client : t = W(d) => d \notin set /\ \A i \in DOMAIN todo : todo[i] # d
  BY <1>1, <1>2, <1>3, <1>6 DEF Unlisted
<1>9. errors' \in [Client -> Nat] /\ \A d \in Client : pc[W(d)] \in Listing => errors'[d] = 0
  BY <1>1, <1>2 DEF Shape, Fresh, Listing
<1>10. pc[t] \notin Listing \cup {"none", "remove", "closeList"}
  BY <1>2 DEF Listing
<1>11. AfterForce(t) \notin Listing \cup Closing
                           \cup {"none", "remove", "evict", "closeList", "inc", "unlist"}
  BY <1>5 DEF Listing, Closing
<1> HIDE DEF AfterForce
<1> QED BY <1>2, <1>4, <1>7, <1>8, <1>9, <1>10, <1>11, OnTheWay

-----------------------------------------------------------------------------
(* The calls of the error path, and the ends of the worker and the reader. *)

LEMMA Calling ==
    ASSUME IInv, NEW t \in Thread, NEW entry \in {"inc", "bad"}, NEW c \in Client,
           NEW p \in Rets(t), Calls(t, entry, c, p),
           UNCHANGED <<held, list, set, errors, todo>>,
           Quiet(pc[t]), entry = "inc" => pc[W(c)] \notin Listing,
           \A d \in Client : t = W(d) => c = d,
           \A l \in Lock : In("inc", p, l) <=> In(pc[t], "none", l)
    PROVE  IInv'
<1>1. Shape /\ Places /\ Returning /\ Fresh
  BY DEF IInv
<1>2. /\ pc' = [pc EXCEPT ![t] = entry] /\ cur' = [cur EXCEPT ![t] = c]
      /\ ret' = [ret EXCEPT ![t] = p]
  BY DEF Calls, Goto
<1>3. Turns(t, entry, c, p, {}, {})
  <2>1. entry \in Pcs(t)
    <3>1. t \notin {H(h) : h \in Http} /\ t # Main
      BY ReturnsOfKinds
    <3> QED BY <3>1, Threads, PlacesOfKinds DEF ErrorPC, WorkerPC
  <2>2. p \in Ret
    BY Threads, ReturnsOfKinds DEF Ret
  <2>3. ret[t] = "none" /\ held' = HeldAfter(t, {}, {})
    BY <1>1, TakesAndDrops DEF Returning, Quiet
  <2>4. \A l \in Lock : In(entry, p, l) <=> In(pc[t], ret[t], l)
    BY <2>3 DEF In
  <2> QED BY <1>2, <2>1, <2>2, <2>3, <2>4 DEF Turns, ErrorPC
<1>4. errors' \in [Client -> Nat] /\ \A d \in Client : pc[W(d)] \in Listing => errors'[d] = 0
  BY <1>1 DEF Shape, Fresh, Listing
<1> QED BY <1>3, <1>4, OnTheWay DEF Quiet, ErrorPC, Listing, Closing

LEMMA LoopingOn ==
    ASSUME IInv, NEW c \in Client, LoopTop(c)
    PROVE  IInv'
<1>1. Shape /\ Places /\ Returning /\ Locks /\ Alone /\ Agreed /\ Fresh /\ Due
  BY DEF IInv
<1>2. pc[W(c)] = "top" /\ UNCHANGED <<held, list, set, errors, todo>>
  BY DEF LoopTop, At
<1>3. CASE c \in set
  <2>1. Calls(W(c), "bad", c, "drain") /\ "drain" \in Rets(W(c))
    BY <1>3, ReturnsOfKinds DEF LoopTop
  <2>2. \A l \in Lock : In("inc", "drain", l) <=> In(pc[W(c)], "none", l)
    BY <1>2 DEF In
  <2>3. Quiet(pc[W(c)]) /\ \A d \in Client : W(c) = W(d) => c = d
    BY <1>2, Kinds DEF Quiet, ErrorPC
  <2> QED BY <1>2, <2>1, <2>2, <2>3, Threads, Calling
<1>4. CASE c \notin set
  <2>1. pc' = [pc EXCEPT ![W(c)] = "gone"] /\ UNCHANGED <<cur, ret>>
    BY <1>4 DEF LoopTop, Goto
  <2>2. ret[W(c)] = "none" /\ cur' = [cur EXCEPT ![W(c)] = cur[W(c)]]
        /\ ret' = [ret EXCEPT ![W(c)] = "none"]
    BY <1>1, <1>2, <2>1, Threads DEF Returning, ErrorPC, Shape
  <2>3. \A i \in DOMAIN todo : todo[i] # c
    <3>1. SUFFICES ASSUME Listed(c), todo # <<>>
                   PROVE  FALSE
      BY <1>1 DEF Due
    <3>2. PICK t \in Thread : pc[t] = "remove"
      BY <1>1, <1>2, <1>4, <3>1 DEF Agreed, Leaving
    <3>3. t \in held["senders"] /\ Dispatcher \in held["senders"]
      BY <1>1, <3>1, <3>2 DEF Due, Locks, Inside, In, Lock
    <3> QED BY <1>1, <3>2, <3>3 DEF Alone, Returning
  <2>4. Turns(W(c), "gone", cur[W(c)], "none", {}, {})
    <3>1. held' = HeldAfter(W(c), {}, {})
      BY <1>1, <1>2, TakesAndDrops
    <3>2. \A l \in Lock : In("gone", "none", l) <=> In("top", "none", l)
      BY DEF In
    <3>3. "gone" \in Pcs(W(c)) /\ cur[W(c)] \in Client \cup {NoClient}
      BY <1>1, Threads, PlacesOfKinds DEF WorkerPC, Shape
    <3> QED BY <1>2, <2>1, <2>2, <3>1, <3>2, <3>3 DEF Turns, ErrorPC, Ret
  <2>5. errors' \in [Client -> Nat] /\ \A d \in Client : pc[W(d)] \in Listing => errors'[d] = 0
    BY <1>1, <1>2 DEF Shape, Fresh, Listing
  <2>6. \A d \in Client : W(c) = W(d) => d \notin set /\ \A i \in DOMAIN todo : todo[i] # d
    BY <1>4, <2>3, Kinds
  <2> QED BY <1>2, <2>4, <2>5, <2>6, Threads, OnTheWay DEF Listing, Closing
<1> QED BY <1>3, <1>4

LEMMA CountingOverflow ==
    ASSUME IInv, NEW c \in Client, CountOverflow(c)
    PROVE  IInv'
<1>1. Shape /\ Returning /\ Fresh
  BY DEF IInv
<1>2. /\ pc[W(c)] = "overInc" /\ pc' = [pc EXCEPT ![W(c)] = "drain"]
      /\ errors' = [errors EXCEPT ![c] = OneMore(@)]
      /\ held' = HeldAfter(W(c), {}, {"counts"})
      /\ UNCHANGED <<list, set, todo, cur, ret>>
  BY <1>1, TakesAndDrops DEF CountOverflow, At, Goto
<1>3. Turns(W(c), "drain", cur[W(c)], "none", {}, {"counts"})
  <2>1. ret[W(c)] = "none" /\ cur' = [cur EXCEPT ![W(c)] = cur[W(c)]]
        /\ ret' = [ret EXCEPT ![W(c)] = "none"]
    BY <1>1, <1>2, Threads DEF Returning, ErrorPC, Shape
  <2>2. \A l \in Lock : In("drain", "none", l) <=> In("overInc", "none", l) /\ l # "counts"
    BY DEF In
  <2>3. "drain" \in Pcs(W(c)) /\ cur[W(c)] \in Client \cup {NoClient}
    BY <1>1, Threads, PlacesOfKinds DEF WorkerPC, Shape
  <2> QED BY <1>2, <2>1, <2>2, <2>3 DEF Turns, ErrorPC, Ret
<1>4. errors' \in [Client -> Nat]
  <2>1. OneMore(errors[c]) \in Nat
    BY <1>1 DEF OneMore, Shape
  <2> QED BY <1>1, <1>2, <2>1 DEF Shape
<1>5. \A d \in Client : pc[W(d)] \in Listing => errors'[d] = 0
  BY <1>1, <1>2 DEF Shape, Fresh, Listing
<1> QED BY <1>2, <1>3, <1>4, <1>5, Threads, Kinds, OnTheWay DEF Listing, Closing

LEMMA SendingToSocket ==
    ASSUME IInv, NEW c \in Client, SocketSend(c)
    PROVE  IInv'
<1>1. Shape
  BY DEF IInv
<1>2. pc[W(c)] = "socket" /\ UNCHANGED <<held, list, set, errors, todo>>
  BY DEF SocketSend, At
<1>3. CASE Goto(W(c), "sent") /\ UNCHANGED <<cur, ret>>
  <2>1. pc' = [pc EXCEPT ![W(c)] = "sent"] /\ held' = HeldAfter(W(c), {}, {})
    BY <1>1, <1>2, <1>3, TakesAndDrops DEF Goto
  <2>2. "sent" \in Pcs(W(c))
    BY PlacesOfKinds DEF WorkerPC
  <2>3. \A l \in Lock : In("sent", "none", l) <=> In("socket", "none", l)
    BY DEF In
  <2>4. MovesOn(W(c), "sent", {}, {})
    BY <1>2, <1>3, <2>1, <2>2, <2>3, Kinds DEF MovesOn, Quiet, ErrorPC, Closing
  <2> QED BY <2>4, MovingOn, Threads
<1>4. CASE Calls(W(c), "inc", c, "sent")
  <2>1. "sent" \in Rets(W(c)) /\ \A d \in Client : W(c) = W(d) => c = d
    BY ReturnsOfKinds, Kinds
  <2>2. \A l \in Lock : In("inc", "sent", l) <=> In(pc[W(c)], "none", l)
    BY <1>2 DEF In
  <2>3. Quiet(pc[W(c)]) /\ pc[W(c)] \notin Listing
    BY <1>2 DEF Quiet, ErrorPC, Listing
  <2> QED BY <1>2, <1>4, <2>1, <2>2, <2>3, Threads, Calling
<1> QED BY <1>3, <1>4 DEF SocketSend

LEMMA Receiving ==
    ASSUME IInv, NEW c \in Client, Recv(c)
    PROVE  IInv'
<1>1. Shape /\ Returning /\ Fresh
  BY DEF IInv
<1>2. pc[R(c)] = "recv" /\ UNCHANGED <<held, list, set, errors, todo>>
  BY DEF Recv, At
<1>3. CASE c \in set
  <2>1. Calls(R(c), "inc", c, "recv")
    BY <1>3 DEF Recv
  <2>2. "recv" \in Rets(R(c)) /\ \A d \in Client : R(c) # W(d)
    BY ReturnsOfKinds, Kinds
  <2>3. \A l \in Lock : In("inc", "recv", l) <=> In(pc[R(c)], "none", l)
    BY <1>2 DEF In
  <2>4. Quiet(pc[R(c)]) /\ pc[W(c)] \notin Listing
    BY <1>1, <1>2, <1>3 DEF Quiet, ErrorPC, Listing, Fresh
  <2> QED BY <1>2, <2>1, <2>2, <2>3, <2>4, Threads, Calling
<1>4. CASE c \notin set
  <2>1. pc' = [pc EXCEPT ![R(c)] = "gone"] /\ UNCHANGED <<cur, ret>>
    BY <1>4 DEF Recv, Goto
  <2>2. Turns(R(c), "gone", cur[R(c)], "none", {}, {})
    <3>1. ret[R(c)] = "none" /\ cur' = [cur EXCEPT ![R(c)] = cur[R(c)]]
          /\ ret' = [ret EXCEPT ![R(c)] = "none"]
      BY <1>1, <1>2, <2>1, Threads DEF Returning, ErrorPC, Shape
    <3>2. \A l \in Lock : In("gone", "none", l) <=> In("recv", "none", l)
      BY DEF In
    <3>3. "gone" \in Pcs(R(c)) /\ cur[R(c)] \in Client \cup {NoClient}
      BY <1>1, Threads, PlacesOfKinds DEF Shape
    <3>4. held' = HeldAfter(R(c), {}, {})
      BY <1>1, <1>2, TakesAndDrops
    <3> QED BY <1>2, <2>1, <3>1, <3>2, <3>3, <3>4, Kinds DEF Turns, ErrorPC, Ret
  <2>3. errors' \in [Client -> Nat] /\ \A d \in Client : pc[W(d)] \in Listing => errors'[d] = 0
    BY <1>1, <1>2 DEF Shape, Fresh, Listing
  <2>4. \A d \in Client : R(c) # W(d)
    BY Kinds
  <2> QED BY <1>2, <2>2, <2>3, <2>4, Threads, Kinds, OnTheWay DEF Listing, Closing
<1> QED BY <1>3, <1>4

LEMMA CleaningUp ==
    ASSUME IInv, CleanupBadClients
    PROVE  IInv'
<1>1. pc[Cleaner] = "scan" /\ UNCHANGED <<held, list, set, errors, todo>>
  BY DEF CleanupBadClients, At
<1>2. PICK c \in Client : Calls(Cleaner, "bad", c, "scan")
  BY DEF CleanupBadClients
<1>3. "scan" \in Rets(Cleaner) /\ \A d \in Client : Cleaner # W(d)
  BY ReturnsOfKinds, Kinds
<1>4. \A l \in Lock : In("inc", "scan", l) <=> In(pc[Cleaner], "none", l)
  BY <1>1 DEF In
<1>5. Quiet(pc[Cleaner])
  BY <1>1 DEF Quiet, ErrorPC
<1> QED BY <1>1, <1>2, <1>3, <1>4, <1>5, Threads, Calling

-----------------------------------------------------------------------------
(* The steps that change the list or the set of the clients.               *)

\* A thread inside the list that is not the dispatcher has it for itself.
LEMMA NothingDue ==
    ASSUME IInv, NEW t \in held["senders"], t # Dispatcher
    PROVE  todo = <<>>
  BY DEF IInv, Due, Alone

LEMMA WithoutOne ==
    ASSUME Shape, NEW c \in Client, list' = Without(list, c)
    PROVE  /\ list' \in Seq(Client)
           /\ \A d \in Client : Listed(d)' <=> Listed(d) /\ d # c
<1> DEFINE I == {i \in DOMAIN list : list[i] # c}
<1>1. list \in Seq(Client) /\ I \in SUBSET (1..Len(list)) /\ list' = Retained(list, I)
  BY DEF Shape, Without
<1>2. \A i \in 1..Len(list) : i \in I <=> list[i] # c
  BY <1>1
<1> HIDE DEF I
<1>3. list' \in Seq(Client) /\ \E g : Picks(g, list', list, I)
  BY <1>1, RetainedProperties
<1>4. PICK g : Picks(g, list', list, I)
  BY <1>3
<1>5. DOMAIN list' = 1..Len(list') /\ DOMAIN list = 1..Len(list)
  BY <1>1, <1>3
<1>6. ASSUME NEW d \in Client, Listed(d)'
      PROVE  Listed(d) /\ d # c
  BY <1>1, <1>2, <1>4, <1>5, <1>6 DEF Listed, Picks
<1>7. ASSUME NEW d \in Client, Listed(d), d # c
      PROVE  Listed(d)'
  <2>1. PICK i \in 1..Len(list) : list[i] = d
    BY <1>5, <1>7 DEF Listed
  <2>2. PICK n \in 1..Len(list') : g[n] = i
    BY <1>2, <1>4, <1>7, <2>1 DEF Picks
  <2>3. list'[n] = d
    BY <1>4, <2>1, <2>2 DEF Picks
  <2> QED BY <1>5, <2>3 DEF Listed
<1> QED BY <1>3, <1>6, <1>7

\* force_disconnect_client and on_client_close take the client out of the set first, ...
LEMMA Unlisting ==
    ASSUME IInv, NEW t \in Thread, NEW p, NEW k, NEW r, NEW c \in Client,
           Turns(t, p, k, r, {"senders"}, {}),
           set' = set \ {c}, UNCHANGED <<list, errors, todo>>,
           \/ pc[t] = "unlist" /\ p = "remove" /\ cur[t] = c /\ k = c
           \/ pc[t] = "close" /\ p = "closeList" /\ t = W(c)
    PROVE  IInv'
<1>1. Shape /\ Returning /\ Agreed /\ Fresh /\ Unlisted /\ Due
  BY DEF IInv
<1>2. /\ pc' \in [Thread -> PC] /\ held' \in [Lock -> SUBSET Thread]
      /\ cur' \in [Thread -> Client \cup {NoClient}] /\ ret' \in [Thread -> Ret]
      /\ pc'[t] = p /\ cur'[t] = k
      /\ \A u \in Thread \ {t} : pc'[u] = pc[u] /\ cur'[u] = cur[u]
      /\ Places' /\ Returning' /\ Locks' /\ Alone'
      /\ held["senders"] \subseteq held'["senders"]
  BY Turning
<1>3. Shape'
  BY <1>1, <1>2 DEF Shape
<1>4. \A d \in Client : Listed(d)' <=> Listed(d)
  BY DEF Listed
<1>5. \A d \in Client : /\ pc'[W(d)] \in Listing <=> pc[W(d)] \in Listing
                        /\ pc[W(d)] \in Listing => pc'[W(d)] = pc[W(d)]
                        /\ pc'[R(d)] = "none" <=> pc[R(d)] = "none"
                        /\ pc[W(d)] = "closeList" => pc'[W(d)] = "closeList"
                        /\ pc'[W(d)] \in Closing \cup {"gone"} => pc[W(d)] = pc'[W(d)]
  BY <1>2, Threads DEF Listing, Closing
<1>6. Leaving(c)'
  BY <1>2 DEF Leaving
<1>7. \A d \in Client : Leaving(d) => Leaving(d)'
  BY <1>2, <1>5 DEF Leaving
<1>8. Agreed'
  BY <1>1, <1>4, <1>5, <1>6, <1>7 DEF Agreed, Listing
<1>9. pc[W(c)] \notin Listing
  BY <1>1 DEF Fresh, Listing
<1>10. Fresh'
  <2>1. \A d \in Client, u \in Thread : pc[W(d)] \in Listing /\ cur'[u] = d
          => pc'[u] \notin {"inc", "unlist", "remove", "evict"}
    BY <1>1, <1>2, <1>9 DEF Fresh, Listing
  <2> QED BY <1>1, <1>4, <1>5, <2>1 DEF Fresh, Listing
<1>11. Unlisted'
  <2>1. \A u \in Thread : pc'[u] \in {"remove", "evict"} => cur'[u] \notin set'
    BY <1>1, <1>2 DEF Unlisted
  <2>2. \A d \in Client : pc'[W(d)] = "closeList" => pc[W(d)] = "closeList" \/ d = c
    BY <1>2, Threads, Kinds
  <2> QED BY <1>1, <1>5, <2>1, <2>2 DEF Unlisted, Closing
<1>12. Due'
  <2>1. \A i \in DOMAIN todo : todo[i] \in Client
    BY <1>1 DEF Shape
  <2> QED BY <1>1, <1>2, <1>4, <1>5, <2>1 DEF Due, ReceiverListed
<1> QED BY <1>2, <1>3, <1>8, <1>10, <1>11, <1>12 DEF IInv

\* ... then its sender out of the list.
LEMMA Delisting ==
    ASSUME IInv, NEW t \in Thread, NEW p, NEW r, NEW c \in Client,
           Turns(t, p, cur[t], r, {}, {}),
           list' = Without(list, c), UNCHANGED <<set, errors, todo>>,
           t # Dispatcher, t \in held["senders"],
           \/ pc[t] = "remove" /\ p = "evict" /\ cur[t] = c
           \/ pc[t] = "closeList" /\ p = "closeW" /\ t = W(c)
    PROVE  IInv'
<1>1. Shape /\ Returning /\ Agreed /\ Fresh /\ Unlisted /\ Due
  BY DEF IInv
<1>2. /\ pc' \in [Thread -> PC] /\ held' \in [Lock -> SUBSET Thread]
      /\ cur' \in [Thread -> Client \cup {NoClient}] /\ ret' \in [Thread -> Ret]
      /\ pc'[t] = p /\ cur'[t] = cur[t]
      /\ \A u \in Thread \ {t} : pc'[u] = pc[u] /\ cur'[u] = cur[u]
      /\ Places' /\ Returning' /\ Locks' /\ Alone'
      /\ held["senders"] \subseteq held'["senders"]
  BY Turning
<1>3. todo = <<>> /\ c \notin set
  BY <1>1, NothingDue DEF Unlisted
<1>4. list' \in Seq(Client) /\ \A d \in Client : Listed(d)' <=> Listed(d) /\ d # c
  BY <1>1, WithoutOne
<1>5. Shape'
  BY <1>1, <1>2, <1>4 DEF Shape
<1>6. \A d \in Client : /\ pc'[W(d)] \in Listing <=> pc[W(d)] \in Listing
                        /\ pc[W(d)] \in Listing => pc'[W(d)] = pc[W(d)]
                        /\ pc'[R(d)] = "none" <=> pc[R(d)] = "none"
                        /\ pc[W(d)] = "closeList" => pc'[W(d)] = "closeList" \/ d = c
                        /\ pc'[W(d)] \in {"closeR", "closeList", "gone"}
                             => pc[W(d)] = pc'[W(d)]
                        /\ pc'[W(d)] = "closeW" => pc[W(d)] = pc'[W(d)] \/ d = c
  BY <1>2, Threads, Kinds DEF Listing
<1>7. Agreed'
  <2>1. \A d \in Client : Leaving(d) => Leaving(d)' \/ d = c
    BY <1>2, <1>6 DEF Leaving
  <2> QED BY <1>1, <1>3, <1>4, <1>6, <2>1 DEF Agreed, Listing
<1>8. pc[W(c)] \notin Listing
  BY <1>1 DEF Fresh, Listing
<1>9. Fresh'
  <2>1. \A d \in Client, u \in Thread : pc[W(d)] \in Listing /\ cur'[u] = d
          => pc'[u] \notin {"inc", "unlist", "remove", "evict"}
    BY <1>1, <1>2, <1>8 DEF Fresh, Listing
  <2> QED BY <1>1, <1>4, <1>6, <1>8, <2>1 DEF Fresh, Listing
<1>10. Unlisted'
  <2>1. \A u \in Thread : pc'[u] \in {"remove", "evict"} => cur'[u] \notin set'
    BY <1>1, <1>2 DEF Unlisted
  <2> QED BY <1>1, <1>3, <1>6, <2>1 DEF Unlisted
<1>11. Due'
  BY <1>3 DEF Due, ReceiverListed
<1> QED BY <1>2, <1>5, <1>7, <1>9, <1>10, <1>11 DEF IInv

LEMMA ForcedUnlisting ==
    ASSUME IInv, NEW t \in Thread, ForceUnlist(t)
    PROVE  IInv'
<1>1. Shape /\ Places /\ Returning /\ Locks
  BY DEF IInv
<1>2. /\ pc[t] = "unlist" /\ held["senders"] = {} /\ pc' = [pc EXCEPT ![t] = "remove"]
      /\ held' = HeldAfter(t, {"senders"}, {}) /\ set' = set \ {cur[t]}
      /\ UNCHANGED <<list, errors, todo, cur, ret>>
  BY <1>1, NobodyInside, TakesAndDrops DEF ForceUnlist, Goto, Lock
<1>3. ret[t] \in Rets(t) /\ cur[t] \in Client /\ \A d \in Client : t = W(d) => cur[t] = d
  BY <1>1, <1>2 DEF Returning, ErrorPC
<1>4. t # Dispatcher
  BY <1>1, <1>2, <1>3, ReturnsOfKinds DEF Locks, Inside, In, Lock
<1>5. Turns(t, "remove", cur[t], ret[t], {"senders"}, {})
  <2>1. "remove" \in Pcs(t)
    BY <1>1, <1>2, Threads, PlacesOfKinds DEF Places, ErrorPC, WorkerPC
  <2>2. cur' = [cur EXCEPT ![t] = cur[t]] /\ ret' = [ret EXCEPT ![t] = ret[t]] /\ ret[t] \in Ret
    BY <1>1, <1>2 DEF Shape
  <2>3. \A l \in Lock : In("remove", ret[t], l) <=> l = "senders" \/ In("unlist", ret[t], l)
    BY DEF In
  <2> QED BY <1>2, <1>3, <1>4, <2>1, <2>2, <2>3 DEF Turns, ErrorPC
<1> QED BY <1>2, <1>3, <1>5, Unlisting

LEMMA ClosedUnlisting ==
    ASSUME IInv, NEW c \in Client, CloseUnlist(c)
    PROVE  IInv'
<1>1. Shape /\ Places /\ Returning
  BY DEF IInv
<1>2. /\ pc[W(c)] = "close" /\ held["senders"] = {} /\ pc' = [pc EXCEPT ![W(c)] = "closeList"]
      /\ held' = HeldAfter(W(c), {"senders"}, {}) /\ set' = set \ {c}
      /\ UNCHANGED <<list, errors, todo, cur, ret>>
  BY <1>1, NobodyInside, TakesAndDrops, Threads DEF CloseUnlist, Goto, Lock
<1>3. Turns(W(c), "closeList", cur[W(c)], "none", {"senders"}, {})
  <2>1. ret[W(c)] = "none" /\ cur' = [cur EXCEPT ![W(c)] = cur[W(c)]]
        /\ ret' = [ret EXCEPT ![W(c)] = "none"]
    BY <1>1, <1>2, Threads DEF Returning, ErrorPC, Shape
  <2>2. \A l \in Lock : In("closeList", "none", l) <=> l = "senders" \/ In("close", "none", l)
    BY DEF In
  <2>3. "closeList" \in Pcs(W(c)) /\ cur[W(c)] \in Client \cup {NoClient}
    BY <1>1, Threads, PlacesOfKinds DEF WorkerPC, Shape
  <2> QED BY <1>2, <2>1, <2>2, <2>3 DEF Turns, ErrorPC, Ret
<1> QED BY <1>2, <1>3, Threads, Unlisting

LEMMA ForcedDelisting ==
    ASSUME IInv, NEW t \in Thread, RemoveSender(t)
    PROVE  IInv'
<1>1. Shape /\ Places /\ Returning /\ Locks
  BY DEF IInv
<1>2. /\ pc[t] = "remove" /\ pc' = [pc EXCEPT ![t] = "evict"]
      /\ held' = HeldAfter(t, {}, {}) /\ list' = Without(list, cur[t])
      /\ UNCHANGED <<set, errors, todo, cur, ret>>
  BY <1>1, TakesAndDrops DEF RemoveSender, At, Goto
<1>3. ret[t] \in Rets(t) /\ cur[t] \in Client /\ \A d \in Client : t = W(d) => cur[t] = d
  BY <1>1, <1>2 DEF Returning, ErrorPC
<1>4. t # Dispatcher /\ t \in held["senders"]
  BY <1>1, <1>2 DEF Returning, Locks, Inside, In, Lock
<1>5. Turns(t, "evict", cur[t], ret[t], {}, {})
  <2>1. "evict" \in Pcs(t)
    BY <1>1, <1>2, Threads, PlacesOfKinds DEF Places, ErrorPC, WorkerPC
  <2>2. cur' = [cur EXCEPT ![t] = cur[t]] /\ ret' = [ret EXCEPT ![t] = ret[t]] /\ ret[t] \in Ret
    BY <1>1, <1>2 DEF Shape
  <2>3. \A l \in Lock : In("evict", ret[t], l) <=> In("remove", ret[t], l)
    BY DEF In
  <2> QED BY <1>2, <1>3, <1>4, <2>1, <2>2, <2>3 DEF Turns, ErrorPC
<1> QED BY <1>2, <1>3, <1>4, <1>5, Delisting

LEMMA ClosedDelisting ==
    ASSUME IInv, NEW c \in Client, CloseRemoveSender(c)
    PROVE  IInv'
<1>1. Shape /\ Places /\ Returning /\ Locks
  BY DEF IInv
<1>2. /\ pc[W(c)] = "closeList" /\ pc' = [pc EXCEPT ![W(c)] = "closeW"]
      /\ held' = HeldAfter(W(c), {}, {}) /\ list' = Without(list, c)
      /\ UNCHANGED <<set, errors, todo, cur, ret>>
  BY <1>1, TakesAndDrops DEF CloseRemoveSender, At, Goto
<1>3. W(c) # Dispatcher /\ W(c) \in held["senders"]
  BY <1>1, <1>2, Threads, Kinds DEF Locks, Inside, In, Lock
<1>4. Turns(W(c), "closeW", cur[W(c)], "none", {}, {})
  <2>1. ret[W(c)] = "none" /\ cur' = [cur EXCEPT ![W(c)] = cur[W(c)]]
        /\ ret' = [ret EXCEPT ![W(c)] = "none"]
    BY <1>1, <1>2, Threads DEF Returning, ErrorPC, Shape
  <2>2. \A l \in Lock : In("closeW", "none", l) <=> In("closeList", "none", l)
    BY DEF In
  <2>3. "closeW" \in Pcs(W(c)) /\ cur[W(c)] \in Client \cup {NoClient}
    BY <1>1, Threads, PlacesOfKinds DEF WorkerPC, Shape
  <2> QED BY <1>2, <2>1, <2>2, <2>3 DEF Turns, ErrorPC, Ret
<1> QED BY <1>2, <1>3, <1>4, Threads, Delisting

\* A new connection is listed before anybody else knows of it.
LEMMA Pushing ==
    ASSUME IInv, NEW c \in Client, ConnectPush(c)
    PROVE  IInv'
<1>1. Shape /\ Places /\ Returning /\ Agreed /\ Fresh /\ Unlisted /\ Due
  BY DEF IInv
<1>2. /\ pc[W(c)] = "connect" /\ pc' = [pc EXCEPT ![W(c)] = "insert"]
      /\ held' = HeldAfter(W(c), {}, {}) /\ list' = Append(list, c)
      /\ UNCHANGED <<set, errors, todo, cur, ret>>
  BY <1>1, TakesAndDrops DEF ConnectPush, At, Goto
<1>3. Turns(W(c), "insert", cur[W(c)], "none", {}, {})
  <2>1. ret[W(c)] = "none" /\ cur' = [cur EXCEPT ![W(c)] = cur[W(c)]]
        /\ ret' = [ret EXCEPT ![W(c)] = "none"]
    BY <1>1, <1>2, Threads DEF Returning, ErrorPC, Shape
  <2>2. \A l \in Lock : In("insert", "none", l) <=> In("connect", "none", l)
    BY DEF In
  <2>3. "insert" \in Pcs(W(c)) /\ cur[W(c)] \in Client \cup {NoClient}
    BY <1>1, Threads, PlacesOfKinds DEF WorkerPC, Shape
  <2> QED BY <1>2, <2>1, <2>2, <2>3 DEF Turns, ErrorPC, Ret
<1>4. /\ pc' \in [Thread -> PC] /\ held' \in [Lock -> SUBSET Thread]
      /\ pc'[W(c)] = "insert" /\ \A u \in Thread \ {W(c)} : pc'[u] = pc[u]
      /\ Places' /\ Returning' /\ Locks' /\ Alone'
      /\ held["senders"] \subseteq held'["senders"]
  BY <1>3, Threads, Turning
<1>5. list' \in Seq(Client) /\ \A d \in Client : Listed(d)' <=> Listed(d) \/ d = c
  <2>1. list \in Seq(Client) /\ list' \in Seq(Client) /\ Len(list') = Len(list) + 1
        /\ list'[Len(list) + 1] = c /\ \A i \in 1..Len(list) : list'[i] = list[i]
    BY <1>1, <1>2 DEF Shape
  <2> QED BY <2>1 DEF Listed
<1>6. Shape'
  BY <1>1, <1>2, <1>4, <1>5 DEF Shape
<1>7. \A d \in Client : /\ d # c => pc'[W(d)] = pc[W(d)]
                        /\ pc'[R(d)] = pc[R(d)]
  BY <1>4, Threads, Kinds
<1>8. Agreed'
  <2>1. \A d \in Client : Leaving(d) => Leaving(d)'
    BY <1>2, <1>4, <1>7, Threads DEF Leaving
  <2> QED BY <1>1, <1>2, <1>4, <1>5, <1>7, <2>1 DEF Agreed
<1>9. Fresh'
  <2>1. \A u \in Thread : pc'[u] \in {"inc", "unlist", "remove", "evict"} => pc[u] = pc'[u]
    BY <1>4
  <2> QED BY <1>1, <1>2, <1>4, <1>5, <1>7, <2>1 DEF Fresh
<1>10. Unlisted'
  BY <1>1, <1>2, <1>4, <1>7 DEF Unlisted
<1>11. Due'
  <2>1. \A i \in DOMAIN todo : todo[i] \in Client
    BY <1>1 DEF Shape
  <2> QED BY <1>1, <1>2, <1>4, <1>5, <1>7, <2>1 DEF Due, ReceiverListed
<1> QED BY <1>4, <1>6, <1>8, <1>9, <1>10, <1>11 DEF IInv

LEMMA Inserting ==
    ASSUME IInv, NEW c \in Client, ConnectInsert(c)
    PROVE  IInv'
<1>1. Shape /\ Places /\ Returning /\ Locks /\ Alone /\ Agreed /\ Fresh /\ Unlisted /\ Due
  BY DEF IInv
<1>2. /\ pc[W(c)] = "insert" /\ set' = set \cup {c}
      /\ UNCHANGED <<held, list, errors, todo, cur, ret>>
      /\ \/ pc' = [pc EXCEPT ![W(c)] = "top", ![R(c)] = "recv"]
         \/ pc' = [pc EXCEPT ![W(c)] = "gone"]
  BY DEF ConnectInsert, At, Goto
<1>3. Listed(c) /\ pc[R(c)] = "none"
      /\ \A t \in Thread : cur[t] = c => pc[t] \notin {"inc", "unlist", "remove", "evict"}
  BY <1>1, <1>2 DEF Fresh
<1>4. /\ \/ pc'[W(c)] = "top" /\ pc'[R(c)] = "recv"
         \/ pc'[W(c)] = "gone" /\ pc'[R(c)] = "none"
      /\ \A u \in Thread \ {W(c), R(c)} : pc'[u] = pc[u]
      /\ pc' \in [Thread -> PC]
  <2>1. {"top", "gone", "recv"} \subseteq PC /\ W(c) # R(c)
    BY Threads, Kinds, PlacesOfKinds DEF PC, WorkerPC
  <2>2. CASE pc' = [pc EXCEPT ![W(c)] = "top", ![R(c)] = "recv"]
    BY <1>1, <2>1, <2>2, Threads DEF Shape
  <2>3. CASE pc' = [pc EXCEPT ![W(c)] = "gone"]
    BY <1>1, <1>3, <2>1, <2>3, Threads DEF Shape
  <2> QED BY <1>2, <2>2, <2>3
<1>5. \A d \in Client : /\ d # c => pc'[W(d)] = pc[W(d)] /\ pc'[R(d)] = pc[R(d)]
                        /\ pc'[W(d)] = pc[W(d)] \/ d = c
  BY <1>4, Threads, Kinds
<1>6. \A u \in Thread : pc'[u] = pc[u] \/ (pc'[u] \in {"top", "gone", "recv"}
                                            /\ pc[u] \in {"insert", "none"})
  BY <1>2, <1>3, <1>4
<1>7. Shape'
  BY <1>1, <1>2, <1>4 DEF Shape
<1>8. Places'
  BY <1>1, <1>4, Threads, PlacesOfKinds DEF Places, WorkerPC
<1>9. Returning'
  <2>1. pc'[Dispatcher] \notin {"remove", "evict"}
    BY <1>1, <1>6, Threads DEF Returning
  <2>2. \A u \in Thread : pc'[u] \in ErrorPC <=> pc[u] \in ErrorPC
    BY <1>6 DEF ErrorPC
  <2> QED BY <1>1, <1>2, <2>1, <2>2, Threads DEF Returning
<1>10. Locks'
  <2>1. \A l \in Lock, p \in {"top", "gone", "recv", "insert", "none"} : ~In(p, "none", l)
    BY DEF In
  <2>2. \A u \in Thread : pc'[u] # pc[u] => ret[u] = "none"
    BY <1>1, <1>6 DEF Returning, ErrorPC
  <2>3. \A l \in Lock, u \in Thread : Inside(u, l)' <=> Inside(u, l)
    BY <1>2, <1>6, <2>1, <2>2 DEF Inside
  <2> QED BY <1>1, <1>2, <2>3 DEF Locks
<1>11. Alone'
  BY <1>1, <1>2 DEF Alone
<1>12. \A d \in Client : Listed(d)' <=> Listed(d)
  BY <1>2 DEF Listed
<1>13. Agreed'
  <2>1. \A d \in Client : Leaving(d) => Leaving(d)'
    <3>1. \A u \in Thread : pc[u] = "remove" => pc'[u] = "remove"
      BY <1>6
    <3>2. \A d \in Client : pc[W(d)] = "closeList" => pc'[W(d)] = "closeList"
      BY <1>6, Threads
    <3> QED BY <1>2, <3>1, <3>2 DEF Leaving
  <2> QED BY <1>1, <1>2, <1>3, <1>5, <1>12, <2>1 DEF Agreed
<1>14. Fresh'
  <2>1. \A u \in Thread : pc'[u] \in {"inc", "unlist", "remove", "evict"} => pc[u] = pc'[u]
    BY <1>6
  <2>2. pc'[W(c)] \notin {"connect", "insert"}
    BY <1>4
  <2> QED BY <1>1, <1>2, <1>5, <1>12, <2>1, <2>2 DEF Fresh
<1>15. Unlisted'
  <2>1. \A u \in Thread : pc'[u] \in {"remove", "evict"} => pc[u] = pc'[u]
    BY <1>6
  <2> QED BY <1>1, <1>2, <1>3, <1>4, <1>5, <2>1 DEF Unlisted
<1>16. Due'
  <2>1. \A i \in DOMAIN todo : todo[i] \in Client
    BY <1>1 DEF Shape
  <2> QED BY <1>1, <1>2, <1>4, <1>5, <1>12, <2>1 DEF Due, ReceiverListed
<1> QED BY <1>7, <1>8, <1>9, <1>10, <1>11, <1>13, <1>14, <1>15, <1>16 DEF IInv

\* The dispatcher takes up a message when nobody is inside the list.
LEMMA LockingSenders ==
    ASSUME IInv, LockSenders
    PROVE  IInv'
<1>1. Shape /\ Places /\ Returning /\ Locks /\ Agreed /\ Fresh /\ Unlisted
  BY DEF IInv
<1>2. /\ pc[Dispatcher] = "lockSenders" /\ held["senders"] = {}
      /\ pc' = [pc EXCEPT ![Dispatcher] = "deliver"]
      /\ held' = HeldAfter(Dispatcher, {"senders"}, {}) /\ todo' = list
      /\ UNCHANGED <<list, set, errors, cur, ret>>
  BY <1>1, NobodyInside, TakesAndDrops, Threads DEF LockSenders, Goto, Lock
<1>3. Turns(Dispatcher, "deliver", cur[Dispatcher], "none", {"senders"}, {})
  <2>1. ret[Dispatcher] = "none" /\ cur' = [cur EXCEPT ![Dispatcher] = cur[Dispatcher]]
        /\ ret' = [ret EXCEPT ![Dispatcher] = "none"]
    BY <1>1, <1>2, Threads DEF Returning, ErrorPC, Shape
  <2>2. \A l \in Lock : In("deliver", "none", l) <=> l = "senders" \/ In("lockSenders", "none", l)
    BY DEF In
  <2>3. "deliver" \in Pcs(Dispatcher) /\ cur[Dispatcher] \in Client \cup {NoClient}
    BY <1>1, Threads, PlacesOfKinds DEF Shape
  <2> QED BY <1>2, <2>1, <2>2, <2>3 DEF Turns, ErrorPC, Ret
<1>4. /\ pc' \in [Thread -> PC] /\ held' \in [Lock -> SUBSET Thread]
      /\ pc'[Dispatcher] = "deliver" /\ \A u \in Thread \ {Dispatcher} : pc'[u] = pc[u]
      /\ Places' /\ Returning' /\ Locks' /\ Alone'
  BY <1>3, Threads, Turning
<1>5. \A d \in Client : pc'[W(d)] = pc[W(d)] /\ pc'[R(d)] = pc[R(d)]
  BY <1>4, Threads, Kinds
<1>6. \A d \in Client : (Listed(d)' <=> Listed(d)) /\ (Leaving(d) => Leaving(d)')
  BY <1>2, <1>4, <1>5 DEF Listed, Leaving
<1>7. \A u \in Thread : pc'[u] \in {"inc", "unlist", "remove", "evict"} => pc[u] = pc'[u]
  BY <1>4
<1>8. Shape'
  BY <1>1, <1>2, <1>4 DEF Shape
<1>9. Agreed'
  BY <1>1, <1>2, <1>5, <1>6 DEF Agreed
<1>10. Fresh'
  BY <1>1, <1>2, <1>5, <1>6, <1>7 DEF Fresh
<1>11. Unlisted'
  BY <1>1, <1>2, <1>5, <1>7 DEF Unlisted
<1>12. Due'
  <2>1. Dispatcher \in held'["senders"]
    BY <1>2, Threads DEF HeldAfter, Lock
  <2>2. \A i \in DOMAIN list : list[i] \in Client /\ Listed(list[i])
    BY <1>1 DEF Shape, Listed
  <2>3. \A d \in Client : ~Leaving(d)
    BY <1>1, <1>2, Threads DEF Leaving, Locks, Inside, In, Lock
  <2>4. \A d \in Client : Listed(d) /\ pc[W(d)] = "gone" => pc[R(d)] = "none"
    BY <1>1, <2>3 DEF Agreed, Unlisted
  <2> QED BY <1>2, <1>5, <1>6, <2>1, <2>2, <2>4 DEF Due, ReceiverListed
<1> QED BY <1>4, <1>8, <1>9, <1>10, <1>11, <1>12 DEF IInv

LEMMA FewerDue ==
    ASSUME IInv, todo # <<>>, todo' = Tail(todo),
           UNCHANGED <<pc, held, list, set, errors, cur, ret>>
    PROVE  IInv'
<1>1. Shape /\ Places /\ Returning /\ Locks /\ Alone /\ Agreed /\ Fresh /\ Unlisted /\ Due
  BY DEF IInv
<1>2. /\ todo' \in Seq(Client) /\ \A i \in DOMAIN todo' : i + 1 \in DOMAIN todo
      /\ \A i \in DOMAIN todo' : todo'[i] = todo[i + 1]
  BY <1>1 DEF Shape
<1>3. Shape' /\ Places' /\ Returning' /\ Locks' /\ Alone'
  <2>1. Shape'
    BY <1>1, <1>2 DEF Shape
  <2>2. Places' /\ Returning' /\ Alone'
    BY <1>1 DEF Places, Returning, Alone
  <2>3. Locks'
    BY <1>1 DEF Locks, Inside
  <2> QED BY <2>1, <2>2, <2>3
<1>4. \A d \in Client : (Listed(d)' <=> Listed(d)) /\ (Leaving(d) <=> Leaving(d)')
  BY DEF Listed, Leaving
<1>5. Agreed' /\ Fresh' /\ Unlisted'
  BY <1>1, <1>4 DEF Agreed, Fresh, Unlisted
<1>6. Due'
  <2>1. \A i \in DOMAIN todo : todo[i] \in Client
    BY <1>1 DEF Shape
  <2>2. \A i \in DOMAIN todo :
        Listed(todo[i]) /\ (pc[W(todo[i])] = "gone" => pc[R(todo[i])] = "none")
    BY <1>1, <2>1 DEF Due, ReceiverListed
  <2>3. Dispatcher \in held'["senders"]
    BY <1>1 DEF Due
  <2>4. ReceiverListed'
    BY <1>2, <2>2 DEF ReceiverListed
  <2>5. \A i \in DOMAIN todo' : \E j \in DOMAIN list' : list'[j] = todo'[i]
    BY <1>2, <2>2 DEF Listed
  <2> QED BY <2>3, <2>4, <2>5 DEF Due, Listed
<1> QED BY <1>3, <1>5, <1>6 DEF IInv

LEMMA Delivering ==
    ASSUME IInv, Deliver
    PROVE  IInv'
<1>1. Shape /\ Places /\ Returning /\ Locks /\ Alone /\ Agreed /\ Fresh /\ Unlisted /\ Due
  BY DEF IInv
<1>2. /\ pc[Dispatcher] = "deliver" /\ todo # <<>> /\ todo' = Tail(todo)
      /\ UNCHANGED <<held, list, set, errors>>
  BY DEF Deliver, At
<1> DEFINE c == Head(todo)
<1>3. c \in Client
  BY <1>1, <1>2 DEF Shape
<1>4. CASE pc[W(c)] # "gone"
  <2>1. UNCHANGED <<pc, cur, ret>>
    BY <1>4 DEF Deliver
  <2> QED BY <1>2, <2>1, FewerDue
<1>5. CASE pc[W(c)] = "gone"
  <2>1. pc' = [pc EXCEPT ![Dispatcher] = "inc"] /\ cur' = [cur EXCEPT ![Dispatcher] = c]
        /\ ret' = [ret EXCEPT ![Dispatcher] = "deliver"]
    BY <1>5 DEF Deliver, Calls, Goto
  <2>2. Turns(Dispatcher, "inc", c, "deliver", {}, {})
    <3>1. held' = HeldAfter(Dispatcher, {}, {})
      BY <1>1, <1>2, TakesAndDrops
    <3>2. ret[Dispatcher] = "none"
      BY <1>1, <1>2, Threads DEF Returning, ErrorPC
    <3>3. \A l \in Lock : In("inc", "deliver", l) <=> In("deliver", "none", l)
      BY DEF In
    <3>4. "inc" \in Pcs(Dispatcher) /\ "deliver" \in Rets(Dispatcher)
          /\ \A d \in Client : Dispatcher # W(d)
      BY PlacesOfKinds, ReturnsOfKinds, Kinds DEF ErrorPC
    <3> QED BY <1>2, <1>3, <2>1, <3>1, <3>2, <3>3, <3>4 DEF Turns, ErrorPC, Ret
  <2> HIDE DEF c
  <2>3. /\ pc' \in [Thread -> PC] /\ held' \in [Lock -> SUBSET Thread]
        /\ cur' \in [Thread -> Client \cup {NoClient}] /\ ret' \in [Thread -> Ret]
        /\ pc'[Dispatcher] = "inc" /\ cur'[Dispatcher] = c
        /\ \A u \in Thread \ {Dispatcher} : pc'[u] = pc[u] /\ cur'[u] = cur[u]
        /\ Places' /\ Returning' /\ Locks' /\ Alone'
    BY <2>2, Threads, Turning
  <2>4. \A d \in Client : pc'[W(d)] = pc[W(d)] /\ pc'[R(d)] = pc[R(d)]
    BY <2>3, Threads, Kinds
  <2>5. \A d \in Client : (Listed(d)' <=> Listed(d)) /\ (Leaving(d) => Leaving(d)')
    BY <1>2, <2>3, <2>4 DEF Listed, Leaving
  <2>6. /\ todo' \in Seq(Client) /\ \A i \in DOMAIN todo' : i + 1 \in DOMAIN todo
        /\ \A i \in DOMAIN todo' : todo'[i] = todo[i + 1]
    BY <1>1, <1>2 DEF Shape
  <2>7. Shape'
    BY <1>1, <1>2, <2>3, <2>6 DEF Shape
  <2>8. Agreed'
    BY <1>1, <1>2, <2>4, <2>5 DEF Agreed
  <2>9. Fresh'
    <3>1. \A u \in Thread : pc'[u] \in {"inc", "unlist", "remove", "evict"}
            => (pc[u] = pc'[u] /\ cur[u] = cur'[u]) \/ cur'[u] = c
      BY <2>3
    <3> QED BY <1>1, <1>2, <1>3, <1>5, <2>4, <2>5, <3>1 DEF Fresh
  <2>10. Unlisted'
    <3>1. \A u \in Thread : pc'[u] \in {"remove", "evict"} => pc[u] = pc'[u] /\ cur[u] = cur'[u]
      BY <2>3
    <3> QED BY <1>1, <1>2, <2>4, <3>1 DEF Unlisted
  <2>11. Due'
    <3>1. \A i \in DOMAIN todo : todo[i] \in Client
      BY <1>1 DEF Shape
    <3>2. \A i \in DOMAIN todo :
        Listed(todo[i]) /\ (pc[W(todo[i])] = "gone" => pc[R(todo[i])] = "none")
      BY <1>1, <3>1 DEF Due, ReceiverListed
    <3>3. Dispatcher \in held'["senders"]
      BY <1>1, <1>2 DEF Due
    <3>4. ReceiverListed'
      BY <2>4, <2>6, <3>1, <3>2 DEF ReceiverListed
    <3>5. \A i \in DOMAIN todo' : \E j \in DOMAIN list' : list'[j] = todo'[i]
      BY <1>2, <2>6, <3>2 DEF Listed
    <3> QED BY <3>3, <3>4, <3>5 DEF Due, Listed
  <2> QED BY <2>3, <2>7, <2>8, <2>9, <2>10, <2>11 DEF IInv
<1> QED BY <1>4, <1>5

-----------------------------------------------------------------------------
(* The theorems.                                                           *)

LEMMA Initially ==
    Init => IInv
<1> SUFFICES ASSUME Init
             PROVE  IInv
  OBVIOUS
<1>1. /\ pc[Main] = "frame" /\ pc[Dispatcher] = "take" /\ pc[Cleaner] = "scan"
      /\ \A c \in Client : pc[W(c)] = "connect" /\ pc[R(c)] = "none"
      /\ \A h \in Http : pc[H(h)] = "idle"
  BY Threads, Kinds DEF Init, Kind
<1>2. /\ held = [l \in Lock |-> {}] /\ list = <<>> /\ set = {} /\ errors = [c \in Client |-> 0]
      /\ todo = <<>> /\ cur = [t \in Thread |-> NoClient] /\ ret = [t \in Thread |-> "none"]
      /\ DOMAIN pc = Thread
  BY DEF Init
<1>3. Places
  BY <1>1, Threads, PlacesOfKinds DEF Places, WorkerPC
<1>4. Shape
  <2>1. pc = [t \in Thread |-> pc[t]]
    BY DEF Init
  <2>2. pc \in [Thread -> PC]
    BY <1>3, <2>1 DEF Places, PC
  <2>3. list \in Seq(Client) /\ todo \in Seq(Client)
    BY <1>2
  <2> QED BY <1>2, <2>2, <2>3 DEF Shape, Ret
<1>5. \A t \in Thread : pc[t] \in {"frame", "take", "scan", "connect", "none", "idle"}
  BY <1>1, Threads
<1>6. Returning
  BY <1>2, <1>5, Threads DEF Returning, ErrorPC
<1>7. Locks
  <2>1. \A t \in Thread, l \in Lock : ~Inside(t, l)
    BY <1>2, <1>5 DEF Inside, In
  <2> QED BY <1>2, <2>1 DEF Locks
<1>8. Alone
  BY <1>2 DEF Alone, Lock
<1>9. \A c \in Client : ~Listed(c)
  BY <1>2 DEF Listed
<1>10. Agreed /\ Fresh /\ Unlisted
  BY <1>1, <1>2, <1>5, <1>9 DEF Agreed, Fresh, Unlisted
<1>11. Due
  BY <1>2 DEF Due, ReceiverListed
<1> QED BY <1>3, <1>4, <1>6, <1>7, <1>8, <1>10, <1>11 DEF IInv

LEMMA ErrorPathKeeps ==
    ASSUME IInv, NEW t \in Thread, ErrorPath(t)
    PROVE  IInv'
  BY IncrementingErrors, Disconnecting, ForcedUnlisting, ForcedDelisting, Evicting DEF ErrorPath

LEMMA Inductive ==
    IInv /\ [Next]_vars => IInv'
<1> SUFFICES ASSUME IInv, [Next]_vars
             PROVE  IInv'
  OBVIOUS
<1>1. ASSUME NEW c \in Client, Worker(c)
      PROVE  IInv'
  BY <1>1, WorkerMovesOn, Pushing, Inserting, LoopingOn, CountingOverflow, ClosedUnlisting,
     ClosedDelisting, SendingToSocket, ErrorPathKeeps, Threads DEF Worker
<1>2. ASSUME NEW c \in Client, Reader(c)
      PROVE  IInv'
  BY <1>2, Receiving, ErrorPathKeeps, Threads DEF Reader
<1>3. CASE DispatcherThread
  BY <1>3, OthersMoveOn, LockingSenders, Delivering, ErrorPathKeeps, Threads DEF DispatcherThread
<1>4. CASE CleanupBadClients \/ ErrorPath(Cleaner)
  BY <1>4, CleaningUp, ErrorPathKeeps, Threads
<1>5. CASE MainThread
  BY <1>5, OthersMoveOn DEF MainThread
<1>6. ASSUME NEW h \in Http, HttpThread(h)
      PROVE  IInv'
  BY <1>6, HttpMovesOn DEF HttpThread
<1>7. CASE UNCHANGED vars
  BY <1>7 DEF vars, IInv, Shape, Places, Returning, Locks, Inside, Alone, Agreed, Listed, Leaving,
              Fresh, Unlisted, Due, ReceiverListed
<1> QED BY <1>1, <1>2, <1>3, <1>4, <1>5, <1>6, <1>7 DEF Next

LEMMA Invariant ==
    Spec => []IInv
  BY Initially, Inductive, PTL DEF Spec

\* Threads that wait for one another in a circle, however many they are and
\* however many connections and requests there are, always have one of them in
\* one of the four known places.
THEOREM KnownDeadlocksHolds ==
    Spec => []KnownDeadlocks
<1>1. IInv => KnownDeadlocks
  BY InvariantKnowsDeadlocks DEF IInv
<1> QED BY <1>1, Invariant, PTL

\* What is_disconnected tells of a client and the list of senders agree whenever
\* the list is free, and the worker of a client that is due a message is alive.
THEOREM ClientsListedHolds ==
    Spec => []ClientsListed
<1>1. IInv => ClientsListed
  <2> SUFFICES ASSUME IInv
               PROVE  ClientsListed
    OBVIOUS
  <2>1. Locks /\ Agreed /\ Due
    BY DEF IInv
  <2>2. SendersAgree
    <3> SUFFICES ASSUME held["senders"] = {}, NEW c \in Client
                 PROVE  pc[W(c)] = "insert" \/ (c \in set <=> Listed(c))
      BY DEF SendersAgree, Listed
    <3>1. ~Leaving(c)
      BY <2>1, Threads DEF Leaving, Locks, Inside, In, Lock
    <3> QED BY <2>1, <3>1 DEF Agreed
  <2> QED BY <2>1, <2>2 DEF ClientsListed, Due
<1> QED BY <1>1, Invariant, PTL
=============================================================================
