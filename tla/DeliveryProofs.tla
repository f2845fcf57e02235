--------------------------- MODULE DeliveryProofs ---------------------------
(***************************************************************************)
(* Proofs about Delivery, for every number of clients, rooms and games and *)
(* every capacity of the channels.  The invariant follows a state along    *)
(* its way - dispatcher, channel of a client, socket, browser: on every    *)
(* stretch the states of one room lie in the order they were cloned in     *)
(* (Flow), and what a browser shows is not later than what is still to     *)
(* come (Shown).  A client meets only the states of its room because seat, *)
(* index and socket agree with what it asked for (Placed).                 *)
(***************************************************************************)
EXTENDS Delivery, FiniteSetTheorems, TLAPS

\* Of two pictures of one room, p is not the later one.
NotLater(p, q) == p[1] = q[1] => \/ p[2] < q[2]
                                 \/ p[2] = q[2] /\ p[3] <= q[3]

States(s) == {m \in {s[i] : i \in 1..Len(s)} : m.kind = "state"}

\* What lies in s is of its room's game and no picture of the future.
Real(s) == \A m \in States(s) : /\ m.body \in Pic
                                /\ m.to = <<m.body[1], m.body[2]>>
                                /\ NotLater(m.body, PictureOf(m.body[1]))

Ordered(s) ==
    \A i, j \in 1..Len(s) : i < j /\ s[i].kind = "state" /\ s[j].kind = "state"
                              => NotLater(s[i].body, s[j].body)

Before(s, t) == \A m \in States(s), n \in States(t) : NotLater(m.body, n.body)

Placed ==
    \A c \in Client :
        /\ pc[c] = "off" => /\ seat[c] = NoRoom /\ index[c] = NoSid /\ c \notin listed
                            /\ net[c] = <<>> /\ queue[c] = <<>> /\ ui[c].pic = NoPicture
        /\ pc[c] # "off" => ui[c].room \in Room
        /\ seat[c] # NoRoom => seat[c] = ui[c].room
        /\ index[c] # NoSid => index[c][1] = ui[c].room
        /\ \A m \in States(net[c]) : m.body[1] = ui[c].room

Flow ==
    /\ Real(mainq) /\ Ordered(mainq)
    /\ \A c \in Client :
         /\ Real(queue[c]) /\ Ordered(queue[c]) /\ Before(queue[c], mainq)
         /\ Real(net[c]) /\ Ordered(net[c])
         /\ Before(net[c], queue[c]) /\ Before(net[c], mainq)

Shown ==
    \A c \in Client :
        ui[c].pic # NoPicture =>
            /\ ui[c].pic[1] = ui[c].room
            /\ NotLater(ui[c].pic, PictureOf(ui[c].pic[1]))
            /\ \A m \in States(net[c]) \cup States(queue[c]) \cup States(mainq) :
                 NotLater(ui[c].pic, m.body)

IInv == TypeOK /\ Placed /\ Flow /\ Shown

-----------------------------------------------------------------------------
(* Sequences of messages.                                                  *)

\* A channel that gets a message holds one state more, or as many.
LEMMA AppendStates ==
    ASSUME NEW S, NEW s \in Seq(S), NEW m \in S
    PROVE  /\ Append(s, m) \in Seq(S)
           /\ \A n \in States(Append(s, m)) : n \in States(s) \/ (n = m /\ m.kind = "state")
<1>1. /\ Append(s, m) \in Seq(S) /\ Len(Append(s, m)) = Len(s) + 1 /\ Len(s) \in Nat
      /\ \A i \in 1..Len(s) : Append(s, m)[i] = s[i]
      /\ Append(s, m)[Len(s) + 1] = m
  OBVIOUS
<1>2. \A i \in 1..Len(Append(s, m)) : i \in 1..Len(s) \/ i = Len(s) + 1
  BY <1>1
<1> QED BY <1>1, <1>2 DEF States

\* A channel that loses its first message holds no state it did not hold.
LEMMA TailStates ==
    ASSUME NEW S, NEW s \in Seq(S), s # <<>>
    PROVE  /\ Tail(s) \in Seq(S) /\ Head(s) \in S
           /\ States(Tail(s)) \subseteq States(s)
           /\ Head(s).kind = "state" => Head(s) \in States(s)
<1>1. /\ Tail(s) \in Seq(S) /\ Len(Tail(s)) = Len(s) - 1 /\ Len(s) \in Nat \ {0}
      /\ \A i \in 1..Len(Tail(s)) : Tail(s)[i] = s[i + 1]
      /\ Head(s) = s[1] /\ Head(s) \in S
  OBVIOUS
<1>2. \A i \in 1..Len(Tail(s)) : i + 1 \in 1..Len(s)
  BY <1>1
<1>3. 1 \in 1..Len(s)
  BY <1>1
<1> QED BY <1>1, <1>2, <1>3 DEF States

\* An ordered channel stays ordered without its first message, which is not
\* later than any of the others.
LEMMA TailOrdered ==
    ASSUME NEW S, NEW s \in Seq(S), s # <<>>, Ordered(s)
    PROVE  /\ Ordered(Tail(s))
           /\ Head(s).kind = "state" =>
                \A n \in States(Tail(s)) : NotLater(Head(s).body, n.body)
<1>1. /\ Tail(s) \in Seq(S) /\ Len(Tail(s)) = Len(s) - 1 /\ Len(s) \in Nat \ {0}
      /\ \A i \in 1..Len(Tail(s)) : Tail(s)[i] = s[i + 1]
      /\ Head(s) = s[1]
  OBVIOUS
<1>2. \A i \in 1..Len(Tail(s)) : i + 1 \in 1..Len(s) /\ 1 < i + 1 /\ i \in Int
  BY <1>1
<1>3. 1 \in 1..Len(s)
  BY <1>1
<1>4. \A i, j \in 1..Len(Tail(s)) : i < j => i + 1 < j + 1
  OBVIOUS
<1>5. Ordered(Tail(s))
  BY <1>1, <1>2, <1>4 DEF Ordered
<1>6. ASSUME Head(s).kind = "state", NEW n \in States(Tail(s))
      PROVE  NotLater(Head(s).body, n.body)
  <2>1. PICK i \in 1..Len(Tail(s)) : n = Tail(s)[i] /\ n.kind = "state"
    BY <1>6 DEF States
  <2> QED BY <2>1, <1>1, <1>2, <1>3, <1>6 DEF Ordered
<1> QED BY <1>5, <1>6

\* A channel stays ordered when what comes last is not earlier than the rest.
LEMMA AppendOrdered ==
    ASSUME NEW S, NEW s \in Seq(S), NEW m \in S, Ordered(s),
           m.kind = "state" => \A n \in States(s) : NotLater(n.body, m.body)
    PROVE  Ordered(Append(s, m))
<1>1. /\ Len(Append(s, m)) = Len(s) + 1 /\ Len(s) \in Nat
      /\ \A i \in 1..Len(s) : Append(s, m)[i] = s[i]
      /\ Append(s, m)[Len(s) + 1] = m
  OBVIOUS
<1> SUFFICES ASSUME NEW i \in 1..Len(s) + 1, NEW j \in 1..Len(s) + 1, i < j,
                    Append(s, m)[i].kind = "state", Append(s, m)[j].kind = "state"
             PROVE  NotLater(Append(s, m)[i].body, Append(s, m)[j].body)
  BY <1>1 DEF Ordered
<1>2. i \in 1..Len(s) /\ (j \in 1..Len(s) \/ j = Len(s) + 1)
  BY <1>1
<1>3. CASE j \in 1..Len(s)
  BY <1>1, <1>2, <1>3 DEF Ordered
<1>4. CASE j = Len(s) + 1
  <2>1. s[i] \in States(s)
    BY <1>1, <1>2 DEF States
  <2> QED BY <1>1, <1>2, <1>4, <2>1
<1> QED BY <1>2, <1>3, <1>4

-----------------------------------------------------------------------------
(* The types.                                                              *)

\* What the browser changes of itself.
LEMMA UiMode ==
    ASSUME NEW u \in UiType, NEW x \in {"off", "switching", "playing", "left"}
    PROVE  /\ [u EXCEPT !.mode = x] \in UiType
           /\ [u EXCEPT !.mode = x].pic = u.pic /\ [u EXCEPT !.mode = x].room = u.room
BY DEF UiType

LEMMA UiPic ==
    ASSUME NEW u \in UiType, NEW p \in Pic
    PROVE  /\ [u EXCEPT !.pic = p] \in UiType
           /\ [u EXCEPT !.pic = p].pic = p /\ [u EXCEPT !.pic = p].room = u.room
BY DEF UiType

\* fire_event keeps a prefix of what it is given.
LEMMA FireType ==
    ASSUME DeliveryAssumption, TypeOK, NEW es \in Seq(EventType)
    PROVE  Fire(es) \in Seq(EventType)
<1> DEFINE all == events \o es
           n == IF Len(all) < EventCap THEN Len(all) ELSE EventCap
<1>1. all \in Seq(EventType) /\ Len(all) \in Nat
  BY DEF TypeOK
<1>2. n \in 0..Len(all)
  BY <1>1 DEF DeliveryAssumption
<1> HIDE DEF all, n
<1>3. SubSeq(all, 1, n) \in Seq(EventType)
  BY <1>1, <1>2
<1> QED BY <1>3 DEF Fire, all, n

\* The messages of the server are messages.
LEMMA MessageTypes ==
    ASSUME TypeOK
    PROVE  /\ \A r \in Room : SidOf(r, game) \in Sid /\ PictureOf(r) \in Pic
           /\ \A r \in Room : StateMsg(r) \in MsgType
           /\ \A kind \in {"state", "switched", "leave", "started", "spawned"},
                 to \in Sid \cup Client \cup {NoSid}, for \in Sid \cup Client \cup {Nobody},
                 body \in Client \cup {NoPicture} : Msg(kind, to, for, body) \in MsgType
<1>1. \A r \in Room : game[r][1] \in 0..MaxGen /\ game[r][2] \in 0..MaxTicks
  BY DEF TypeOK
<1>2. \A r \in Room : SidOf(r, game) \in Sid /\ PictureOf(r) \in Pic
  BY <1>1 DEF SidOf, PictureOf, Sid, Pic
<1> QED BY <1>2 DEF StateMsg, Msg, MsgType, Nobody

LEMMA TrySendType ==
    ASSUME TypeOK, NEW m \in MsgType
    PROVE  TrySend(m) \in Seq(MsgType)
BY DEF TrySend, TypeOK

\* reindex_rooms gives the players of the vector the game of their room.
LEMMA ReindexedType ==
    ASSUME TypeOK, NEW g \in [Room -> (0..MaxGen) \X (0..MaxTicks)]
    PROVE  Reindexed(seat, g) \in [Client -> Sid \cup {NoSid}]
<1>1. \A c \in Client : seat[c] # NoRoom => SidOf(seat[c], g) \in Sid
  BY DEF TypeOK, SidOf, Sid
<1> QED BY <1>1 DEF Reindexed, TypeOK

\* The game of a room goes one tick on or starts anew.
LEMMA GameType ==
    ASSUME DeliveryAssumption, TypeOK, NEW r \in Room
    PROVE  /\ game[r][2] < MaxTicks =>
                /\ [game EXCEPT ![r][2] = @ + 1] \in [Room -> (0..MaxGen) \X (0..MaxTicks)]
                /\ [game EXCEPT ![r][2] = @ + 1][r] = <<game[r][1], game[r][2] + 1>>
                /\ \A q \in Room \ {r} : [game EXCEPT ![r][2] = @ + 1][q] = game[q]
           /\ game[r][1] < MaxGen =>
                /\ [game EXCEPT ![r] = <<@[1] + 1, 0>>] \in [Room -> (0..MaxGen) \X (0..MaxTicks)]
                /\ [game EXCEPT ![r] = <<@[1] + 1, 0>>][r] = <<game[r][1] + 1, 0>>
                /\ \A q \in Room \ {r} : [game EXCEPT ![r] = <<@[1] + 1, 0>>][q] = game[q]
<1> DEFINE g == game[r]
<1>1. /\ game \in [Room -> (0..MaxGen) \X (0..MaxTicks)]
      /\ g \in (0..MaxGen) \X (0..MaxTicks) /\ MaxGen \in Nat /\ MaxTicks \in Nat
  BY DEF TypeOK, DeliveryAssumption
<1>2. [g EXCEPT ![2] = g[2] + 1] = <<g[1], g[2] + 1>>
  BY <1>1
<1>3. [game EXCEPT ![r][2] = @ + 1] = [game EXCEPT ![r] = <<g[1], g[2] + 1>>]
  BY <1>2
<1>4. g[2] < MaxTicks => <<g[1], g[2] + 1>> \in (0..MaxGen) \X (0..MaxTicks)
  BY <1>1
<1>5. g[1] < MaxGen => <<g[1] + 1, 0>> \in (0..MaxGen) \X (0..MaxTicks)
  BY <1>1
<1> HIDE DEF g
<1>6. [game EXCEPT ![r] = <<@[1] + 1, 0>>] = [game EXCEPT ![r] = <<g[1] + 1, 0>>]
  BY DEF g
<1> QED BY <1>1, <1>3, <1>4, <1>5, <1>6 DEF g

\* The restarted room announces its players and its new game.
LEMMA SpawnsType ==
    ASSUME DeliveryAssumption, NEW r \in Room, NEW s \in Spawns(r)
    PROVE  s \in Seq(EventType)
<1>1. IsFiniteSet(PlayersOf(r))
  BY FS_Subset DEF PlayersOf, DeliveryAssumption
<1>2. Cardinality(PlayersOf(r)) \in Nat
  BY <1>1, FS_CardinalityType
<1> DEFINE n == Cardinality(PlayersOf(r))
<1>3. s \in [1..n -> [kind : {"spawned"}, of : PlayersOf(r)]]
  BY DEF Spawns
<1>4. [kind : {"spawned"}, of : PlayersOf(r)] \subseteq EventType
  BY DEF EventType, PlayersOf
<1> HIDE DEF n
<1>5. s \in [1..n -> EventType]
  BY <1>3, <1>4
<1> QED BY <1>2, <1>5 DEF n

LEMMA BrowserTypes ==
    ASSUME TypeOK, Flow, NEW c \in Client, Browser(c)
    PROVE  TypeOK'
<1>1. /\ net[c] # <<>> /\ net[c] \in Seq(MsgType) /\ net' = Pop(net, c)
  BY DEF TypeOK, Browser, ReceiveSwitching, ReceiveState, ReceiveLeave, ReceiveOther, ReceiveLeft
<1>2. net' \in [Client -> Seq(MsgType)] /\ Arrived(c) \in MsgType
  BY <1>1, TailStates DEF TypeOK, Pop, Arrived
<1>3. /\ \A x \in {"name", "close"} : Append(inbox[c], x) \in Seq({"switch", "name", "close"})
      /\ ui[c] \in UiType
  BY DEF TypeOK
<1>4. CASE ReceiveSwitching(c)
  <2>1. ui' \in [Client -> UiType]
    BY <1>3, <1>4, UiMode DEF TypeOK, ReceiveSwitching
  <2>2. inbox' \in [Client -> Seq({"switch", "name", "close"})]
    BY <1>3, <1>4 DEF TypeOK, ReceiveSwitching
  <2> QED BY <1>2, <1>4, <2>1, <2>2 DEF TypeOK, ReceiveSwitching
<1>5. CASE ReceiveState(c)
  <2>1. Arrived(c).body \in Pic
    <3>1. Arrived(c) \in States(net[c])
      BY <1>1, <1>5, TailStates DEF ReceiveState, Arrived
    <3> QED BY <3>1 DEF Flow, Real
  <2>2. ui' \in [Client -> UiType]
    BY <1>3, <1>5, <2>1, UiPic DEF TypeOK, ReceiveState
  <2> QED BY <1>2, <1>5, <2>2 DEF TypeOK, ReceiveState
<1>6. CASE ReceiveLeave(c)
  <2>1. ui' \in [Client -> UiType]
    BY <1>3, <1>6, UiMode DEF TypeOK, ReceiveLeave
  <2>2. inbox' \in [Client -> Seq({"switch", "name", "close"})]
    BY <1>3, <1>6 DEF TypeOK, ReceiveLeave
  <2> QED BY <1>2, <1>6, <2>1, <2>2 DEF TypeOK, ReceiveLeave
<1>7. CASE ReceiveOther(c)
  BY <1>2, <1>7 DEF TypeOK, ReceiveOther
<1>8. CASE ReceiveLeft(c)
  BY <1>2, <1>8 DEF TypeOK, ReceiveLeft
<1> QED BY <1>4, <1>5, <1>6, <1>7, <1>8 DEF Browser

LEMMA WorkerTypes ==
    ASSUME DeliveryAssumption, TypeOK, Placed, NEW c \in Client, Worker(c)
    PROVE  TypeOK'
<1>1. ASSUME NEW what, Request(c, what)
      PROVE  Pop(inbox, c) \in [Client -> Seq({"switch", "name", "close"})]
  <2>1. inbox[c] # <<>> /\ inbox[c] \in Seq({"switch", "name", "close"})
    BY <1>1 DEF TypeOK, Request
  <2>2. Tail(inbox[c]) \in Seq({"switch", "name", "close"})
    BY <2>1
  <2> QED BY <2>2 DEF TypeOK, Pop
<1>2. CASE MovePlayer(c)
  <2>1. ui[c].room \in Room
    BY <1>2 DEF Placed, MovePlayer, Request
  <2>2. SidOf(ui[c].room, game) \in Sid
    BY <2>1, MessageTypes
  <2>3. [kind |-> "spawned", of |-> c] \in EventType
    BY DEF EventType
  <2>4. <<[kind |-> "spawned", of |-> c]>> \in Seq(EventType)
    BY <2>3
  <2>5. events' \in Seq(EventType)
    BY <1>2, <2>4, FireType DEF MovePlayer
  <2> QED BY <1>1, <1>2, <2>1, <2>2, <2>5 DEF TypeOK, MovePlayer
<1>3. CASE ReindexMove(c)
  <2>1. index' \in [Client -> Sid \cup {NoSid}]
    BY <1>3, ReindexedType DEF ReindexMove, TypeOK
  <2> QED BY <1>3, <2>1 DEF TypeOK, ReindexMove
<1>4. CASE NotifyStateChanged(c)
  <2>1. Msg("switched", newSid[c], c, NoPicture) \in MsgType
    BY MessageTypes DEF TypeOK
  <2>2. mainq' \in Seq(MsgType)
    BY <1>4, <2>1, TrySendType DEF NotifyStateChanged
  <2> QED BY <1>4, <2>2 DEF TypeOK, NotifyStateChanged
<1>5. Found(c) => RoomOf(c) \in Room
  BY DEF Found, RoomOf, TypeOK, Sid
<1>6. Found(c) => TrySend(StateMsg(RoomOf(c))) \in Seq(MsgType)
  BY <1>5, MessageTypes, TrySendType
<1>7. CASE Personalize(c)
  <2>1. mainq' \in Seq(MsgType)
    BY <1>6, <1>7 DEF Personalize, TypeOK
  <2> QED BY <1>1, <1>7, <2>1 DEF TypeOK, Personalize
<1>8. CASE CloseRemove(c)
  BY <1>1, <1>8 DEF TypeOK, CloseRemove
<1>10. CASE SendToClient(c)
  <2>1. queue[c] # <<>> /\ queue[c] \in Seq(MsgType) /\ net[c] \in Seq(MsgType)
    BY <1>10 DEF SendToClient, TypeOK
  <2>2. Head(queue[c]) \in MsgType /\ Tail(queue[c]) \in Seq(MsgType)
    BY <2>1, TailStates
  <2>3. Append(net[c], Head(queue[c])) \in Seq(MsgType)
    BY <2>1, <2>2
  <2>4. /\ queue' \in [Client -> Seq(MsgType)]
        /\ net' \in [Client -> Seq(MsgType)]
    BY <1>10, <2>2, <2>3 DEF SendToClient, Pop, TypeOK
  <2> QED BY <1>10, <2>4 DEF TypeOK, SendToClient
<1> QED BY <1>2, <1>3, <1>4, <1>7, <1>8, <1>10 DEF Worker

LEMMA OtherTypes ==
    ASSUME DeliveryAssumption, TypeOK,
           \/ \E c \in Client, r \in Room : Open(c, r)
           \/ \E c \in Client : ForceDisconnect(c) \/ QuitPlayer(c)
           \/ Dispatch
           \/ \E r \in Room : Broadcast(r) \/ UpdateRoom(r) \/ Restart(r)
    PROVE  TypeOK'
<1>1. ASSUME NEW c \in Client, NEW r \in Room, Open(c, r)
      PROVE  TypeOK'
  <2>1. [mode |-> "switching", room |-> r, pic |-> NoPicture] \in UiType
    BY DEF UiType
  <2>2. <<"switch">> \in Seq({"switch", "name", "close"})
    OBVIOUS
  <2> QED BY <1>1, <2>1, <2>2 DEF TypeOK, Open
<1>2. ASSUME NEW c \in Client, ForceDisconnect(c)
      PROVE  TypeOK'
  <2>1. ui' \in [Client -> UiType]
    BY <1>2, UiMode DEF TypeOK, ForceDisconnect
  <2> QED BY <1>2, <2>1 DEF TypeOK, ForceDisconnect
<1>3. ASSUME NEW c \in Client, QuitPlayer(c)
      PROVE  TypeOK'
  <2>1. [kind |-> "quit", of |-> c] \in EventType
    BY DEF EventType
  <2>2. <<[kind |-> "quit", of |-> c]>> \in Seq(EventType)
    BY <2>1
  <2>3. events' \in Seq(EventType)
    BY <1>3, <2>2, FireType DEF QuitPlayer
  <2>4. kicks' \in [Client -> 0..MaxKicks]
    <3>1. MaxKicks \in Nat /\ kicks \in [Client -> 0..MaxKicks]
      BY DEF DeliveryAssumption, TypeOK
    <3>2. kicks[c] + 1 \in 0..MaxKicks
      BY <1>3, <3>1 DEF QuitPlayer
    <3>3. kicks' = [kicks EXCEPT ![c] = @ + 1]
      BY <1>3 DEF QuitPlayer
    <3> QED BY <3>1, <3>2, <3>3
  <2> QED BY <1>3, <2>3, <2>4 DEF TypeOK, QuitPlayer
<1>4. CASE Dispatch
  <2>1. mainq \in Seq(MsgType) /\ mainq # <<>>
    BY <1>4 DEF Dispatch, TypeOK
  <2>2. Head(mainq) \in MsgType /\ Tail(mainq) \in Seq(MsgType)
    BY <2>1, TailStates
  <2>3. \A c \in Client : Append(queue[c], Head(mainq)) \in Seq(MsgType)
    BY <2>2 DEF TypeOK
  <2>4. queue' \in [Client -> Seq(MsgType)]
    BY <1>4, <2>3 DEF Dispatch, TypeOK
  <2> QED BY <1>4, <2>2, <2>4 DEF TypeOK, Dispatch
<1>5. ASSUME NEW r \in Room, Broadcast(r)
      PROVE  TypeOK'
  <2>1. mainq' \in Seq(MsgType)
    <3>1. StateMsg(r) \in MsgType
      BY MessageTypes
    <3> QED BY <1>5, <3>1, TrySendType DEF Broadcast
  <2> QED BY <1>5, <2>1 DEF TypeOK, Broadcast
<1>6. ASSUME NEW r \in Room, UpdateRoom(r)
      PROVE  TypeOK'
  <2>1. game' \in [Room -> (0..MaxGen) \X (0..MaxTicks)]
    BY <1>6, GameType DEF UpdateRoom
  <2>2. index' \in [Client -> Sid \cup {NoSid}]
    BY <1>6, <2>1, ReindexedType DEF UpdateRoom
  <2> QED BY <1>6, <2>1, <2>2 DEF TypeOK, UpdateRoom
<1>7. ASSUME NEW r \in Room, Restart(r)
      PROVE  TypeOK'
  <2>1. game' \in [Room -> (0..MaxGen) \X (0..MaxTicks)]
    BY <1>7, GameType DEF Restart
  <2>2. index' \in [Client -> Sid \cup {NoSid}]
    BY <1>7, <2>1, ReindexedType DEF Restart
  <2>3. SidOf(r, game') \in Sid
    BY <2>1 DEF SidOf, Sid
  <2>4. [kind |-> "started", of |-> SidOf(r, game')] \in EventType
    BY <2>3 DEF EventType
  <2>5. events' \in Seq(EventType)
    <3>1. PICK s \in Spawns(r) :
               events' = Fire(Append(s, [kind |-> "started", of |-> SidOf(r, game')]))
      BY <1>7 DEF Restart
    <3>2. s \in Seq(EventType)
      BY SpawnsType
    <3>3. Append(s, [kind |-> "started", of |-> SidOf(r, game')]) \in Seq(EventType)
      BY <2>4, <3>2
    <3> QED BY <3>1, <3>3, FireType
  <2> QED BY <1>7, <2>1, <2>2, <2>5 DEF TypeOK, Restart
<1> QED BY <1>1, <1>2, <1>3, <1>4, <1>5, <1>6, <1>7

LEMMA EventTypes ==
    ASSUME DeliveryAssumption, TypeOK, HandleEvent
    PROVE  TypeOK'
<1>1. events # <<>> /\ events \in Seq(EventType)
  BY DEF HandleEvent, TypeOK
<1>2. Event \in EventType /\ Tail(events) \in Seq(EventType)
  BY <1>1 DEF Event
<1>3. mainq \in Seq(MsgType)
  BY DEF TypeOK
<1>4. CASE HandleShipSpawned
  <2>1. Event.of \in Client
    BY <1>2, <1>4 DEF HandleShipSpawned, EventType
  <2>2. CASE Found(Event.of)
    <3>1. RoomOf(Event.of) \in Room
      BY <2>1, <2>2 DEF Found, RoomOf, TypeOK, Sid
    <3>2. SidOf(RoomOf(Event.of), game) \in Sid
      BY <3>1, MessageTypes
    <3>3. Msg("spawned", Event.of, SidOf(RoomOf(Event.of), game), Event.of) \in MsgType
      BY <2>1, <3>2, MessageTypes
    <3>4. mainq' \in Seq(MsgType)
      BY <1>3, <1>4, <2>2, <3>3 DEF HandleShipSpawned
    <3> QED BY <1>2, <3>4 DEF HandleEvent, TypeOK
  <2>3. CASE ~Found(Event.of)
    BY <1>2, <1>3, <1>4, <2>3 DEF HandleShipSpawned, HandleEvent, TypeOK
  <2> QED BY <2>2, <2>3
<1>5. CASE HandleGameStarted
  <2>1. Event.of \in Sid
    BY <1>2, <1>5 DEF HandleGameStarted, EventType
  <2>2. Msg("started", Event.of, Nobody, NoPicture) \in MsgType
    BY <2>1, MessageTypes
  <2>3. mainq' \in Seq(MsgType)
    BY <1>3, <1>5, <2>2 DEF HandleGameStarted
  <2> QED BY <1>2, <2>3 DEF HandleEvent, TypeOK
<1>6. CASE HandleQuitPlayer
  <2>1. Event.of \in Client
    BY <1>2, <1>6 DEF HandleQuitPlayer, EventType
  <2>2. Msg("leave", NoSid, Event.of, NoPicture) \in MsgType
    BY <2>1, MessageTypes
  <2>3. mainq' \in Seq(MsgType)
    BY <1>6, <2>2, TrySendType DEF HandleQuitPlayer
  <2> QED BY <1>2, <2>3 DEF HandleEvent, TypeOK
<1> QED BY <1>4, <1>5, <1>6 DEF HandleEvent

LEMMA TypeStep ==
    ASSUME DeliveryAssumption, IInv, [Next]_vars
    PROVE  TypeOK'
<1>1. TypeOK /\ Placed /\ Flow
  BY DEF IInv
<1>2. CASE UNCHANGED vars
  BY <1>1, <1>2 DEF TypeOK, vars
<1>3. CASE Next
  BY <1>1, <1>3, BrowserTypes, WorkerTypes, OtherTypes, EventTypes DEF Next
<1> QED BY <1>2, <1>3

-----------------------------------------------------------------------------
(* Where the clients are.                                                  *)

\* Where the browser stays whatever it gets, and what it then shows.
LEMMA BrowserUi ==
    ASSUME TypeOK, Flow, NEW c \in Client, Browser(c)
    PROVE  /\ \A d \in Client \ {c} : ui'[d] = ui[d]
           /\ ui'[c].room = ui[c].room
           /\ ui'[c].pic # ui[c].pic =>
                Arrived(c).kind = "state" /\ ui'[c].pic = Arrived(c).body
<1>1. ui[c] \in UiType /\ ui \in [Client -> UiType]
  BY DEF TypeOK
<1>2. CASE ReceiveSwitching(c)
  BY <1>1, <1>2, UiMode DEF ReceiveSwitching
<1>3. CASE ReceiveState(c)
  <2>1. /\ net[c] # <<>> /\ net[c] \in Seq(MsgType) /\ Arrived(c).kind = "state"
        /\ ui' = [ui EXCEPT ![c] = [@ EXCEPT !.pic = Arrived(c).body]]
    BY <1>3 DEF ReceiveState, TypeOK
  <2>2. Arrived(c) \in States(net[c])
    BY <2>1, TailStates DEF Arrived
  <2>3. Arrived(c).body \in Pic
    BY <2>2 DEF Flow, Real
  <2> QED BY <1>1, <2>1, <2>3, UiPic
<1>4. CASE ReceiveLeave(c)
  BY <1>1, <1>4, UiMode DEF ReceiveLeave
<1>5. CASE ReceiveOther(c) \/ ReceiveLeft(c)
  BY <1>1, <1>5 DEF ReceiveOther, ReceiveLeft
<1> QED BY <1>2, <1>3, <1>4, <1>5 DEF Browser

\* A failing connection leaves on the screen what was there.
LEMMA FailureUi ==
    ASSUME TypeOK, NEW c \in Client, ForceDisconnect(c)
    PROVE  \A d \in Client : ui'[d].room = ui[d].room /\ ui'[d].pic = ui[d].pic
<1>1. ui \in [Client -> UiType] /\ ui[c] \in UiType
  BY DEF TypeOK
<1> DEFINE w == [ui[c] EXCEPT !.mode = "left"]
<1>2. ui' = [ui EXCEPT ![c] = w]
  BY DEF ForceDisconnect
<1>3. w.room = ui[c].room /\ w.pic = ui[c].pic
  BY <1>1, UiMode
<1> HIDE DEF w
<1> QED BY <1>1, <1>2, <1>3

\* What goes from the channel of a client into its socket was let through.
LEMMA SendMoves ==
    ASSUME TypeOK, NEW c \in Client, SendToClient(c)
    PROVE  /\ \A d \in Client \ {c} : net'[d] = net[d] /\ queue'[d] = queue[d]
           /\ queue'[c] = Tail(queue[c])
           /\ net'[c] = Append(net[c], Head(queue[c])) \/ net'[c] = net[c]
           /\ net'[c] # net[c] => index[c] # NoSid /\ Casts(c, Head(queue[c]), index[c])
           /\ pc[c] = "loop" /\ UNCHANGED <<seat, index, listed, pc, ui>>
<1>1. /\ queue' = [queue EXCEPT ![c] = Tail(@)]
      /\ queue \in [Client -> Seq(MsgType)] /\ net \in [Client -> Seq(MsgType)]
  BY DEF SendToClient, Pop, TypeOK
<1>2. \/ net' = net
      \/ /\ net' = [net EXCEPT ![c] = Append(@, Head(queue[c]))]
         /\ index[c] # NoSid /\ Casts(c, Head(queue[c]), index[c])
  BY DEF SendToClient
<1>3. pc[c] = "loop" /\ UNCHANGED <<seat, index, listed, pc, ui>>
  BY DEF SendToClient
<1> QED BY <1>1, <1>2, <1>3

LEMMA ReindexedRoom ==
    ASSUME TypeOK, NEW g \in [Room -> (0..MaxGen) \X (0..MaxTicks)]
    PROVE  \A c \in Client : seat[c] # NoRoom =>
               Reindexed(seat, g)[c] \in Sid /\ Reindexed(seat, g)[c][1] = seat[c]
<1>1. \A c \in Client : seat[c] # NoRoom => SidOf(seat[c], g) \in Sid
  BY DEF TypeOK, SidOf, Sid
<1> QED BY <1>1 DEF Reindexed, SidOf

\* A client is, and is told of, where it asked to be.
LEMMA PlacedStep ==
    ASSUME DeliveryAssumption, IInv, [Next]_vars
    PROVE  Placed'
<1> USE DEF IInv
<1>1. CASE UNCHANGED vars
  BY <1>1 DEF Placed, vars, States
<1>2. ASSUME NEW c \in Client, NEW r \in Room, Open(c, r)
      PROVE  Placed'
  <2>1. States(net[c]) = {}
    BY <1>2 DEF Open, Placed, States
  <2>2. /\ ui'[c].room = r /\ ui'[c].pic = NoPicture
        /\ \A d \in Client \ {c} : ui'[d] = ui[d]
    BY <1>2 DEF Open, TypeOK
  <2>3. /\ pc'[c] = "loop" /\ pc[c] = "off"
        /\ \A d \in Client \ {c} : pc'[d] = pc[d] /\ (d \in listed' <=> d \in listed)
        /\ UNCHANGED <<seat, index, net, queue>>
    BY <1>2 DEF Open, TypeOK
  <2>4. seat[c] = NoRoom /\ index[c] = NoSid
    BY <2>3 DEF Placed
  <2>5. \A d \in Client \ {c} : States(net'[d]) = States(net[d])
    BY <2>3
  <2> QED BY <2>1, <2>2, <2>3, <2>4, <2>5 DEF Placed
<1>3. ASSUME NEW c \in Client, Browser(c)
      PROVE  Placed'
  <2>1. /\ net[c] # <<>> /\ net' = Pop(net, c)
        /\ UNCHANGED <<seat, index, listed, queue, pc>>
    BY <1>3 DEF Browser, ReceiveSwitching, ReceiveState, ReceiveLeave, ReceiveOther, ReceiveLeft
  <2>4. net'[c] = Tail(net[c]) /\ \A d \in Client \ {c} : net'[d] = net[d]
    BY <2>1 DEF Pop, TypeOK
  <2>5. /\ \A d \in Client : ui'[d].room = ui[d].room
        /\ \A d \in Client \ {c} : ui'[d] = ui[d]
    BY <1>3, BrowserUi
  <2>2. States(net'[c]) \subseteq States(net[c])
    BY <2>1, <2>4, TailStates DEF TypeOK
  <2>3. pc[c] # "off"
    BY <2>1 DEF Placed
  <2> QED BY <2>1, <2>4, <2>5, <2>2, <2>3 DEF Placed
<1>4. ASSUME NEW c \in Client, Worker(c), ~SendToClient(c)
      PROVE  Placed'
  <2>1. CASE MovePlayer(c)
    <3>1. /\ pc[c] = "loop" /\ pc' = [pc EXCEPT ![c] = "reindex"]
          /\ seat' = [seat EXCEPT ![c] = ui[c].room]
          /\ UNCHANGED <<index, listed, net, queue, ui>>
      BY <2>1 DEF MovePlayer, Request
    <3>2. \A d \in Client : /\ pc'[d] = "off" <=> pc[d] = "off"
                            /\ d # c => seat'[d] = seat[d]
      BY <3>1 DEF TypeOK
    <3>3. seat'[c] = ui[c].room
      BY <3>1 DEF TypeOK
    <3> QED BY <3>1, <3>2, <3>3 DEF Placed
  <2>2. CASE ReindexMove(c)
    <3>1. /\ pc' = [pc EXCEPT ![c] = "notify"] /\ index' = Reindexed(seat, game)
          /\ pc[c] = "reindex" /\ UNCHANGED <<seat, listed, net, queue, ui>>
      BY <2>2 DEF ReindexMove
    <3>2. \A d \in Client : pc'[d] = "off" <=> pc[d] = "off"
      BY <3>1 DEF TypeOK
    <3>3. \A d \in Client : seat[d] = NoRoom => index'[d] = index[d]
      BY <3>1 DEF Reindexed
    <3>4. \A d \in Client : seat[d] # NoRoom => index'[d] \in Sid /\ index'[d][1] = seat[d]
      BY <3>1, ReindexedRoom DEF TypeOK
    <3>5. \A d \in Client : index[d] # NoSid => index'[d] # NoSid
      BY <3>3, <3>4 DEF DeliveryAssumption, Sid
    <3> QED BY <3>1, <3>2, <3>3, <3>4, <3>5 DEF Placed
  <2>3. CASE NotifyStateChanged(c)
    BY <2>3 DEF NotifyStateChanged, Placed, TypeOK
  <2>5. CASE Personalize(c)
    BY <2>5 DEF Personalize, Placed
  <2>4. CASE CloseRemove(c)
    BY <2>4 DEF CloseRemove, Request, Found, Placed, TypeOK
  <2> QED BY <1>4, <2>1, <2>2, <2>3, <2>4, <2>5 DEF Worker
<1>5. ASSUME NEW c \in Client, SendToClient(c)
      PROVE  Placed'
  <2> DEFINE m == Head(queue[c])
  <2>1. queue[c] # <<>> /\ queue[c] \in Seq(MsgType) /\ net[c] \in Seq(MsgType)
    BY <1>5 DEF SendToClient, TypeOK
  <2>2. m \in MsgType /\ (m.kind = "state" => m \in States(queue[c]))
    BY <2>1, TailStates
  <2>3. m.kind = "state" => m.to = <<m.body[1], m.body[2]>>
    BY <2>2 DEF Flow, Real
  <2>4. /\ \A d \in Client \ {c} : net'[d] = net[d] /\ queue'[d] = queue[d]
        /\ net'[c] = Append(net[c], m) \/ net'[c] = net[c]
        /\ net'[c] # net[c] => index[c] # NoSid /\ Casts(c, m, index[c])
        /\ pc[c] = "loop" /\ UNCHANGED <<seat, index, listed, pc, ui>>
    BY <1>5, SendMoves
  <2>5. ASSUME m.kind = "state", index[c] # NoSid, Casts(c, m, index[c])
        PROVE  m.body[1] = ui[c].room
    <3>1. m.to = index[c]
      BY <2>5 DEF Casts
    <3> QED BY <2>3, <2>5, <3>1 DEF Placed
  <2> HIDE DEF m
  <2>6. \A n \in States(Append(net[c], m)) : n \in States(net[c]) \/ (n = m /\ m.kind = "state")
    BY <2>1, <2>2, AppendStates
  <2>7. \A n \in States(net'[c]) : n.body[1] = ui[c].room
    BY <2>4, <2>5, <2>6 DEF Placed
  <2> QED BY <2>4, <2>7 DEF Placed
<1>6. CASE \E c \in Client : ForceDisconnect(c)
  <2> SUFFICES ASSUME NEW c \in Client, ForceDisconnect(c)
               PROVE  Placed'
    BY <1>6
  <2>1. \A d \in Client : ui'[d].room = ui[d].room /\ ui'[d].pic = ui[d].pic
    BY FailureUi
  <2>2. /\ \A d \in Client : /\ pc'[d] = "off" <=> pc[d] = "off"
                             /\ seat'[d] # NoRoom => seat'[d] = seat[d]
                             /\ d \notin listed => d \notin listed'
        /\ UNCHANGED <<index, net, queue>>
    BY DEF ForceDisconnect, TypeOK
  <2>3. \A d \in Client : pc[d] = "off" => seat'[d] = NoRoom
    BY <2>2 DEF Placed
  <2> QED BY <2>1, <2>2, <2>3 DEF Placed
<1>7. CASE Dispatch
  <2>1. \A c \in Client : pc[c] = "off" => queue'[c] = queue[c]
    BY <1>7 DEF Dispatch, Placed
  <2> QED BY <1>7, <2>1 DEF Dispatch, Placed
<1>8. CASE \E r \in Room : UpdateRoom(r) \/ Restart(r)
  <2>1. /\ index' = Reindexed(seat, game')
        /\ UNCHANGED <<seat, listed, net, queue, pc, ui>>
    BY <1>8 DEF UpdateRoom, Restart
  <2>2. \A c \in Client : index'[c] # NoSid => index'[c][1] = ui[c].room
    BY <2>1 DEF Reindexed, SidOf, Placed
  <2>3. \A c \in Client : seat[c] = NoRoom => index'[c] = index[c]
    BY <2>1 DEF Reindexed
  <2>4. \A c \in Client : index[c] # NoSid => index'[c] # NoSid
    <3>1. \A c \in Client : seat[c] # NoRoom => index'[c] \in Sid
      BY <2>1, ReindexedRoom, TypeStep DEF TypeOK
    <3> QED BY <2>3, <3>1 DEF DeliveryAssumption, Sid
  <2> QED BY <2>1, <2>2, <2>3, <2>4 DEF Placed
<1>9. CASE \/ \E r \in Room : Broadcast(r)
           \/ HandleEvent
           \/ \E c \in Client : QuitPlayer(c)
  <2>1. UNCHANGED <<seat, index, listed, net, queue, pc, ui>>
    BY <1>9 DEF Broadcast, HandleEvent, QuitPlayer
  <2> QED BY <2>1 DEF Placed
<1> QED BY <1>1, <1>2, <1>3, <1>4, <1>5, <1>6, <1>7, <1>8, <1>9 DEF Next

-----------------------------------------------------------------------------
(* The order on the way.                                                   *)

LEMMA NotLaterTransitive ==
    ASSUME NEW p \in Pic, NEW q \in Pic, NEW s \in Pic, p[1] = q[1],
           NotLater(p, q), NotLater(q, s)
    PROVE  NotLater(p, s)
BY DEF NotLater, Pic

\* A step of a room changes the game of this room only, to a later moment.
LEMMA GameStep ==
    ASSUME DeliveryAssumption, TypeOK, NEW r \in Room, UpdateRoom(r) \/ Restart(r)
    PROVE  /\ game' \in [Room -> (0..MaxGen) \X (0..MaxTicks)]
           /\ \/ game'[r] = <<game[r][1], game[r][2] + 1>>
              \/ game'[r] = <<game[r][1] + 1, 0>>
           /\ \A q \in Room \ {r} : game'[q] = game[q]
           /\ UNCHANGED <<mainq, queue, net, ui>>
<1>1. CASE UpdateRoom(r)
  <2>1. game[r][2] < MaxTicks /\ game' = [game EXCEPT ![r][2] = @ + 1]
    BY <1>1 DEF UpdateRoom
  <2>2. UNCHANGED <<mainq, queue, net, ui>>
    BY <1>1 DEF UpdateRoom
  <2> QED BY <2>1, <2>2, GameType
<1>2. CASE Restart(r)
  <2>1. game[r][1] < MaxGen /\ game' = [game EXCEPT ![r] = <<@[1] + 1, 0>>]
    BY <1>2 DEF Restart
  <2>2. UNCHANGED <<mainq, queue, net, ui>>
    BY <1>2 DEF Restart
  <2> QED BY <2>1, <2>2, GameType
<1> QED BY <1>1, <1>2

\* A room only goes forward: what was no picture of its future never is one.
LEMMA GameForward ==
    ASSUME DeliveryAssumption, TypeOK, NEW r \in Room, UpdateRoom(r) \/ Restart(r)
    PROVE  \A p \in Pic : NotLater(p, PictureOf(p[1])) => NotLater(p, PictureOf(p[1])')
<1>1. \/ game'[r] = <<game[r][1], game[r][2] + 1>>
      \/ game'[r] = <<game[r][1] + 1, 0>>
  BY GameStep
<1>2. \A q \in Room \ {r} : game'[q] = game[q]
  BY GameStep
<1>3. game[r][1] \in Int /\ game[r][2] \in Int
  BY DEF TypeOK
<1> TAKE p \in Pic
<1>4. p[1] \in Room /\ p[2] \in Int /\ p[3] \in Int
  BY DEF Pic
<1>5. CASE p[1] # r
  BY <1>2, <1>4, <1>5 DEF PictureOf
<1>6. CASE p[1] = r
  BY <1>1, <1>3, <1>4, <1>6 DEF PictureOf, NotLater
<1> QED BY <1>5, <1>6

\* A state that is published is the latest of its room, and what waits in the
\* channels stays in order.
LEMMA Posted ==
    ASSUME DeliveryAssumption, IInv, UNCHANGED <<game, queue, net>>,
           NEW m \in MsgType, m.kind = "state" => \E r \in Room : m = StateMsg(r),
           mainq' = mainq \/ mainq' = Append(mainq, m)
    PROVE  Flow'
<1> USE DEF IInv
<1>1. CASE mainq' = mainq
  BY <1>1 DEF Flow, Real, PictureOf
<1>2. CASE mainq' = Append(mainq, m)
  <2>1. \A n \in States(mainq') : n \in States(mainq) \/ (n = m /\ m.kind = "state")
    BY <1>2, AppendStates DEF TypeOK
  <2>2. m.kind = "state" => /\ m.body \in Pic /\ m.to = <<m.body[1], m.body[2]>>
                            /\ m.body = PictureOf(m.body[1])
    BY MessageTypes DEF StateMsg, PictureOf, SidOf
  <2>3. m.kind = "state" => NotLater(m.body, PictureOf(m.body[1]))
    BY <2>2 DEF NotLater, Pic
  <2>4. \A n : n.body[1] = m.body[1] /\ m.kind = "state" /\ NotLater(n.body, PictureOf(n.body[1]))
                => NotLater(n.body, m.body)
    BY <2>2
  <2>5. \A n : n.body[1] # m.body[1] => NotLater(n.body, m.body)
    BY DEF NotLater
  <2>6. Ordered(mainq')
    <3>1. m.kind = "state" => \A n \in States(mainq) : NotLater(n.body, m.body)
      BY <2>4, <2>5 DEF Flow, Real
    <3> QED BY <1>2, <3>1, AppendOrdered DEF Flow, TypeOK
  <2>7. \A c \in Client : Before(queue[c], mainq') /\ Before(net[c], mainq')
    BY <2>1, <2>4, <2>5 DEF Flow, Real, Before
  <2>8. \A n \in States(mainq') : /\ n.body \in Pic /\ n.to = <<n.body[1], n.body[2]>>
                                  /\ NotLater(n.body, PictureOf(n.body[1]))
    BY <2>1, <2>2, <2>3 DEF Flow, Real
  <2> QED BY <2>6, <2>7, <2>8 DEF Flow, Real, PictureOf
<1> QED BY <1>1, <1>2

\* Every message the server sends of itself is posted this way.
LEMMA PostedBy ==
    ASSUME DeliveryAssumption, IInv,
           \/ \E c \in Client : NotifyStateChanged(c) \/ Personalize(c)
           \/ \E r \in Room : Broadcast(r)
           \/ HandleEvent
    PROVE  \E m \in MsgType : /\ m.kind = "state" => \E r \in Room : m = StateMsg(r)
                              /\ mainq' = mainq \/ mainq' = Append(mainq, m)
                              /\ UNCHANGED <<game, queue, net, ui>>
<1> USE DEF IInv
<1>1. \A m : TrySend(m) = mainq \/ TrySend(m) = Append(mainq, m)
  BY DEF TrySend
<1>2. \A kind, to, for, body : Msg(kind, to, for, body).kind = kind
  BY DEF Msg
<1>3. ASSUME NEW c \in Client, NotifyStateChanged(c)
      PROVE  \E m \in MsgType : /\ m.kind # "state"
                                /\ mainq' = mainq \/ mainq' = Append(mainq, m)
  <2>1. Msg("switched", newSid[c], c, NoPicture) \in MsgType
    BY MessageTypes DEF TypeOK
  <2> QED BY <1>1, <1>2, <1>3, <2>1 DEF NotifyStateChanged
<1>4. ASSUME NEW c \in Client, Personalize(c)
      PROVE  \/ mainq' = mainq
             \/ \E r \in Room : mainq' = Append(mainq, StateMsg(r))
  <2>1. index[c] # NoSid => RoomOf(c) \in Room
    BY DEF RoomOf, TypeOK, Sid
  <2> QED BY <1>1, <1>4, <2>1 DEF Personalize, Found
<1>5. ASSUME NEW r \in Room, Broadcast(r)
      PROVE  mainq' = mainq \/ mainq' = Append(mainq, StateMsg(r))
  BY <1>1, <1>5 DEF Broadcast
<1>6. \A r \in Room : StateMsg(r) \in MsgType
  BY MessageTypes
<1>7. ASSUME HandleEvent
      PROVE  \E m \in MsgType : /\ m.kind # "state"
                                /\ mainq' = mainq \/ mainq' = Append(mainq, m)
  <2>1. Event \in EventType
    BY <1>7 DEF HandleEvent, TypeOK, Event
  <2>2. Msg("switched", NoSid, Nobody, NoPicture) \in MsgType
    BY MessageTypes
  <2>3. CASE HandleShipSpawned
    <3>1. Event.of \in Client
      BY <2>1, <2>3 DEF HandleShipSpawned, EventType
    <3>2. Found(Event.of) => SidOf(RoomOf(Event.of), game) \in Sid
      BY <3>1, MessageTypes DEF Found, RoomOf, TypeOK, Sid
    <3>3. Found(Event.of) =>
            Msg("spawned", Event.of, SidOf(RoomOf(Event.of), game), Event.of) \in MsgType
      BY <3>1, <3>2, MessageTypes
    <3> QED BY <1>2, <2>2, <2>3, <3>3 DEF HandleShipSpawned
  <2>4. CASE HandleGameStarted
    <3>1. Event.of \in Sid
      BY <2>1, <2>4 DEF HandleGameStarted, EventType
    <3>2. Msg("started", Event.of, Nobody, NoPicture) \in MsgType
      BY <3>1, MessageTypes
    <3> QED BY <1>2, <2>4, <3>2 DEF HandleGameStarted
  <2>5. CASE HandleQuitPlayer
    <3>1. Event.of \in Client
      BY <2>1, <2>5 DEF HandleQuitPlayer, EventType
    <3>2. Msg("leave", NoSid, Event.of, NoPicture) \in MsgType
      BY <3>1, MessageTypes
    <3> QED BY <1>1, <1>2, <2>5, <3>2 DEF HandleQuitPlayer
  <2> QED BY <1>7, <2>3, <2>4, <2>5 DEF HandleEvent
<1>8. UNCHANGED <<game, queue, net, ui>>
  BY DEF NotifyStateChanged, Personalize, Broadcast, HandleEvent
<1>9. \E m \in MsgType : /\ m.kind = "state" => \E r \in Room : m = StateMsg(r)
                         /\ mainq' = mainq \/ mainq' = Append(mainq, m)
  <2>1. CASE mainq' = mainq
    <3>1. Msg("switched", NoSid, Nobody, NoPicture) \in MsgType
      BY MessageTypes
    <3> QED BY <1>2, <2>1, <3>1
  <2>2. CASE \E r \in Room : mainq' = Append(mainq, StateMsg(r))
    BY <1>6, <2>2
  <2>3. CASE \E m \in MsgType : m.kind # "state" /\ (mainq' = mainq \/ mainq' = Append(mainq, m))
    BY <2>3
  <2> QED BY <1>3, <1>4, <1>5, <1>7, <2>1, <2>2, <2>3
<1> QED BY <1>8, <1>9

LEMMA FlowStep ==
    ASSUME DeliveryAssumption, IInv, [Next]_vars
    PROVE  Flow'
<1> USE DEF IInv
<1>1. CASE UNCHANGED <<game, mainq, queue, net>>
  BY <1>1 DEF Flow, Real, PictureOf
<1>2. CASE \/ \E c \in Client : NotifyStateChanged(c) \/ Personalize(c)
           \/ \E r \in Room : Broadcast(r)
           \/ HandleEvent
  BY <1>2, PostedBy, Posted
<1>3. ASSUME NEW c \in Client, Browser(c)
      PROVE  Flow'
  <2>1. net[c] # <<>> /\ net' = Pop(net, c) /\ UNCHANGED <<game, mainq, queue>>
    BY <1>3 DEF Browser, ReceiveSwitching, ReceiveState, ReceiveLeave, ReceiveOther, ReceiveLeft
  <2>2. net'[c] = Tail(net[c]) /\ \A d \in Client \ {c} : net'[d] = net[d]
    BY <2>1 DEF Pop, TypeOK
  <2>3. net[c] \in Seq(MsgType) /\ Ordered(net[c])
    BY DEF TypeOK, Flow
  <2>4. States(net'[c]) \subseteq States(net[c]) /\ Ordered(net'[c])
    BY <2>1, <2>2, <2>3, TailStates, TailOrdered
  <2> QED BY <2>1, <2>2, <2>4 DEF Flow, Real, PictureOf, Before
<1>4. ASSUME NEW c \in Client, SendToClient(c)
      PROVE  Flow'
  <2> DEFINE m == Head(queue[c])
  <2>1. /\ queue[c] # <<>> /\ queue[c] \in Seq(MsgType) /\ net[c] \in Seq(MsgType)
        /\ Ordered(queue[c]) /\ Ordered(net[c])
        /\ UNCHANGED <<game, mainq>>
    BY <1>4 DEF SendToClient, TypeOK, Flow
  <2>2. /\ \A d \in Client \ {c} : net'[d] = net[d] /\ queue'[d] = queue[d]
        /\ queue'[c] = Tail(queue[c])
        /\ net'[c] = Append(net[c], m) \/ net'[c] = net[c]
    BY <1>4, SendMoves
  <2>3. /\ m \in MsgType /\ (m.kind = "state" => m \in States(queue[c]))
        /\ States(queue'[c]) \subseteq States(queue[c])
    BY <2>1, <2>2, TailStates
  <2>4. /\ Ordered(queue'[c])
        /\ m.kind = "state" => \A n \in States(queue'[c]) : NotLater(m.body, n.body)
    BY <2>1, <2>2, TailOrdered
  <2> HIDE DEF m
  <2>5. \A n \in States(net'[c]) : n \in States(net[c]) \/ (n = m /\ m.kind = "state")
    <3>1. \A n \in States(Append(net[c], m)) : n \in States(net[c]) \/ (n = m /\ m.kind = "state")
      BY <2>1, <2>3, AppendStates
    <3> QED BY <2>2, <3>1
  <2>6. Ordered(net'[c])
    <3>1. m.kind = "state" => \A n \in States(net[c]) : NotLater(n.body, m.body)
      BY <2>3 DEF Flow, Before
    <3>2. Ordered(Append(net[c], m))
      BY <2>1, <2>3, <3>1, AppendOrdered
    <3> QED BY <2>1, <2>2, <3>2
  <2>7. Before(net'[c], queue'[c]) /\ Before(net'[c], mainq) /\ Before(queue'[c], mainq)
    BY <2>3, <2>4, <2>5 DEF Flow, Before
  <2>8. \A n \in States(net'[c]) \cup States(queue'[c]) :
            /\ n.body \in Pic /\ n.to = <<n.body[1], n.body[2]>>
            /\ NotLater(n.body, PictureOf(n.body[1]))
    BY <2>3, <2>5 DEF Flow, Real
  <2>9. ASSUME NEW d \in Client \ {c}
        PROVE  /\ Real(queue'[d]) /\ Ordered(queue'[d]) /\ Before(queue'[d], mainq)
               /\ Real(net'[d]) /\ Ordered(net'[d])
               /\ Before(net'[d], queue'[d]) /\ Before(net'[d], mainq)
    BY <2>2 DEF Flow
  <2> QED BY <2>1, <2>4, <2>6, <2>7, <2>8, <2>9 DEF Flow, Real, PictureOf
<1>5. CASE Dispatch
  <2> DEFINE m == Head(mainq)
  <2>1. /\ mainq # <<>> /\ mainq \in Seq(MsgType) /\ mainq' = Tail(mainq) /\ Ordered(mainq)
        /\ UNCHANGED <<game, net>>
        /\ \A c \in Client : queue'[c] = Append(queue[c], m) \/ queue'[c] = queue[c]
    BY <1>5 DEF Dispatch, TypeOK, Flow
  <2>2. /\ m \in MsgType /\ (m.kind = "state" => m \in States(mainq))
        /\ States(mainq') \subseteq States(mainq)
    BY <2>1, TailStates
  <2>3. /\ Ordered(mainq')
        /\ m.kind = "state" => \A n \in States(mainq') : NotLater(m.body, n.body)
    BY <2>1, TailOrdered
  <2> HIDE DEF m
  <2>4. ASSUME NEW c \in Client
        PROVE  /\ \A n \in States(queue'[c]) : n \in States(queue[c]) \/ (n = m /\ m.kind = "state")
               /\ Ordered(queue'[c])
    <3>1. queue[c] \in Seq(MsgType) /\ Ordered(queue[c])
      BY DEF TypeOK, Flow
    <3>2. m.kind = "state" => \A n \in States(queue[c]) : NotLater(n.body, m.body)
      BY <2>2 DEF Flow, Before
    <3>3. \A n \in States(Append(queue[c], m)) : n \in States(queue[c]) \/ (n = m /\ m.kind = "state")
      BY <2>2, <3>1, AppendStates
    <3>4. Ordered(Append(queue[c], m))
      BY <2>2, <3>1, <3>2, AppendOrdered
    <3> QED BY <2>1, <3>1, <3>3, <3>4
  <2>5. ASSUME NEW c \in Client
        PROVE  Before(queue'[c], mainq') /\ Before(net[c], queue'[c]) /\ Before(net[c], mainq')
    BY <2>2, <2>3, <2>4 DEF Flow, Before
  <2> QED BY <2>1, <2>2, <2>3, <2>4, <2>5 DEF Flow, Real, PictureOf
<1>6. ASSUME NEW r \in Room, UpdateRoom(r) \/ Restart(r)
      PROVE  Flow'
  <2>1. \A p \in Pic : NotLater(p, PictureOf(p[1])) => NotLater(p, PictureOf(p[1])')
    BY <1>6, GameForward
  <2>2. UNCHANGED <<mainq, queue, net>>
    BY <1>6 DEF UpdateRoom, Restart
  <2> QED BY <2>1, <2>2 DEF Flow, Real
<1>7. ASSUME NEW c \in Client,
             \/ \E r \in Room : Open(c, r)
             \/ MovePlayer(c) \/ ReindexMove(c) \/ CloseRemove(c) \/ ForceDisconnect(c)
             \/ QuitPlayer(c)
      PROVE  UNCHANGED <<game, mainq, queue, net>>
  BY <1>7 DEF Open, MovePlayer, ReindexMove, CloseRemove, ForceDisconnect, QuitPlayer
<1>8. UNCHANGED vars => UNCHANGED <<game, mainq, queue, net>>
  BY DEF vars
<1> QED BY <1>1, <1>2, <1>3, <1>4, <1>5, <1>6, <1>7, <1>8 DEF Next, Worker

-----------------------------------------------------------------------------
(* What is shown.                                                          *)

\* A browser shows the states of its socket one after another, and on no
\* stretch of the way is one that is earlier.
LEMMA ShownStep ==
    ASSUME DeliveryAssumption, IInv, [Next]_vars
    PROVE  Shown'
<1> USE DEF IInv
<1>1. CASE /\ UNCHANGED <<game, mainq, queue, net>>
           /\ \A c \in Client : \/ ui'[c].pic = NoPicture
                                \/ ui'[c].pic = ui[c].pic /\ ui'[c].room = ui[c].room
  BY <1>1 DEF Shown, PictureOf
<1>2. CASE \/ \E c \in Client : NotifyStateChanged(c) \/ Personalize(c)
           \/ \E r \in Room : Broadcast(r)
           \/ HandleEvent
  <2>1. PICK m \in MsgType : /\ m.kind = "state" => \E r \in Room : m = StateMsg(r)
                             /\ mainq' = mainq \/ mainq' = Append(mainq, m)
                             /\ UNCHANGED <<game, queue, net, ui>>
    BY <1>2, PostedBy
  <2>2. \A n \in States(Append(mainq, m)) : n \in States(mainq) \/ (n = m /\ m.kind = "state")
    BY AppendStates DEF TypeOK
  <2>3. \A n \in States(mainq') : n \in States(mainq) \/ (n = m /\ m.kind = "state")
    BY <2>1, <2>2
  <2>4. m.kind = "state" => m.body = PictureOf(m.body[1])
    BY <2>1 DEF StateMsg, PictureOf
  <2>5. ASSUME NEW c \in Client, ui[c].pic # NoPicture, m.kind = "state"
        PROVE  NotLater(ui[c].pic, m.body)
    <3>1. ui[c].pic[1] = m.body[1] => NotLater(ui[c].pic, m.body)
      BY <2>4, <2>5 DEF Shown
    <3> QED BY <3>1 DEF NotLater
  <2> QED BY <2>1, <2>3, <2>5 DEF Shown, PictureOf
<1>3. ASSUME NEW c \in Client, Browser(c)
      PROVE  Shown'
  <2>1. net[c] # <<>> /\ net' = Pop(net, c) /\ UNCHANGED <<game, mainq, queue>>
    BY <1>3 DEF Browser, ReceiveSwitching, ReceiveState, ReceiveLeave, ReceiveOther, ReceiveLeft
  <2>2. net'[c] = Tail(net[c]) /\ \A d \in Client \ {c} : net'[d] = net[d]
    BY <2>1 DEF Pop, TypeOK
  <2>3. net[c] \in Seq(MsgType) /\ Ordered(net[c])
    BY DEF TypeOK, Flow
  <2>4. /\ States(net'[c]) \subseteq States(net[c])
        /\ Arrived(c).kind = "state" =>
             /\ Arrived(c) \in States(net[c])
             /\ \A n \in States(net'[c]) : NotLater(Arrived(c).body, n.body)
    BY <2>1, <2>2, <2>3, TailStates, TailOrdered DEF Arrived
  <2>5. /\ \A d \in Client \ {c} : ui'[d] = ui[d]
        /\ ui'[c].room = ui[c].room
        /\ ui'[c].pic # ui[c].pic =>
             Arrived(c).kind = "state" /\ ui'[c].pic = Arrived(c).body
    BY <1>3, BrowserUi
  <2>6. CASE ui'[c].pic = ui[c].pic
    <3>1. \A d \in Client : /\ ui'[d].pic = ui[d].pic /\ ui'[d].room = ui[d].room
                            /\ States(net'[d]) \subseteq States(net[d])
      BY <2>2, <2>4, <2>5, <2>6
    <3> QED BY <2>1, <3>1 DEF Shown, PictureOf
  <2>7. CASE ui'[c].pic # ui[c].pic
    <3>1. /\ ui'[c].pic = Arrived(c).body /\ Arrived(c) \in States(net[c])
          /\ \A n \in States(net'[c]) : NotLater(Arrived(c).body, n.body)
      BY <2>4, <2>5, <2>7
    <3>2. \A n \in States(queue[c]) \cup States(mainq) : NotLater(Arrived(c).body, n.body)
      BY <3>1 DEF Flow, Before
    <3>3. /\ Arrived(c).body[1] = ui[c].room
          /\ NotLater(Arrived(c).body, PictureOf(Arrived(c).body[1]))
      BY <3>1 DEF Flow, Real, Placed
    <3>4. ASSUME NEW d \in Client \ {c}, ui'[d].pic # NoPicture
          PROVE  /\ ui'[d].pic[1] = ui'[d].room
                 /\ NotLater(ui'[d].pic, PictureOf(ui'[d].pic[1]))
                 /\ \A m \in States(net'[d]) \cup States(queue[d]) \cup States(mainq) :
                      NotLater(ui'[d].pic, m.body)
      BY <2>2, <2>5, <3>4 DEF Shown
    <3> QED BY <2>1, <2>5, <3>1, <3>2, <3>3, <3>4 DEF Shown, PictureOf
  <2> QED BY <2>6, <2>7
<1>4. ASSUME NEW c \in Client, SendToClient(c)
      PROVE  Shown'
  <2>1. /\ \A d \in Client \ {c} : net'[d] = net[d] /\ queue'[d] = queue[d]
        /\ queue'[c] = Tail(queue[c])
        /\ net'[c] = Append(net[c], Head(queue[c])) \/ net'[c] = net[c]
        /\ UNCHANGED <<game, mainq, ui>>
    BY <1>4, SendMoves DEF SendToClient
  <2>2. queue[c] # <<>> /\ queue[c] \in Seq(MsgType) /\ net[c] \in Seq(MsgType)
    BY <1>4 DEF SendToClient, TypeOK
  <2> DEFINE m == Head(queue[c])
  <2>3. /\ m \in MsgType /\ (m.kind = "state" => m \in States(queue[c]))
        /\ States(queue'[c]) \subseteq States(queue[c])
    BY <2>1, <2>2, TailStates
  <2>4. \A n \in States(Append(net[c], m)) : n \in States(net[c]) \/ (n = m /\ m.kind = "state")
    BY <2>2, <2>3, AppendStates
  <2>5. \A d \in Client : States(net'[d]) \cup States(queue'[d]) \subseteq
                            States(net[d]) \cup States(queue[d])
    BY <2>1, <2>3, <2>4
  <2> QED BY <2>1, <2>5 DEF Shown, PictureOf
<1>5. CASE Dispatch
  <2>1. /\ mainq # <<>> /\ mainq \in Seq(MsgType) /\ mainq' = Tail(mainq)
        /\ UNCHANGED <<game, net, ui>>
        /\ \A c \in Client : queue'[c] = Append(queue[c], Head(mainq)) \/ queue'[c] = queue[c]
    <3>1. mainq # <<>> /\ mainq' = Tail(mainq) /\ UNCHANGED <<game, net, ui>>
      BY <1>5 DEF Dispatch
    <3>2. queue' = [c \in Client |-> IF c \in listed THEN Append(queue[c], Head(mainq))
                                                     ELSE queue[c]]
      BY <1>5 DEF Dispatch
    <3> QED BY <3>1, <3>2 DEF TypeOK
  <2> DEFINE m == Head(mainq)
  <2>2. /\ m \in MsgType /\ (m.kind = "state" => m \in States(mainq))
        /\ States(mainq') \subseteq States(mainq)
    BY <2>1, TailStates
  <2>3. \A c \in Client : \A n \in States(Append(queue[c], m)) :
            n \in States(queue[c]) \/ (n = m /\ m.kind = "state")
    BY <2>2, AppendStates DEF TypeOK
  <2>4. \A c \in Client : States(queue'[c]) \subseteq States(queue[c]) \cup States(mainq)
    BY <2>1, <2>2, <2>3
  <2> QED BY <2>1, <2>2, <2>4 DEF Shown, PictureOf
<1>6. ASSUME NEW r \in Room, UpdateRoom(r) \/ Restart(r)
      PROVE  Shown'
  <2>1. \A p \in Pic : NotLater(p, PictureOf(p[1])) => NotLater(p, PictureOf(p[1])')
    BY <1>6, GameForward
  <2>2. UNCHANGED <<mainq, queue, net, ui>>
    BY <1>6, GameStep
  <2>3. \A c \in Client : ui[c].pic # NoPicture => ui[c].pic \in Pic
    BY DEF TypeOK, UiType
  <2> QED BY <2>1, <2>2, <2>3 DEF Shown
<1>7. ASSUME NEW c \in Client, NEW r \in Room, Open(c, r)
      PROVE  Shown'
  <2>1. /\ ui'[c].pic = NoPicture /\ \A d \in Client \ {c} : ui'[d] = ui[d]
        /\ UNCHANGED <<game, mainq, queue, net>>
    BY <1>7 DEF Open, TypeOK
  <2> QED BY <1>1, <2>1
<1>8. ASSUME NEW c \in Client, ForceDisconnect(c)
      PROVE  Shown'
  <2>1. /\ \A d \in Client : ui'[d].pic = ui[d].pic /\ ui'[d].room = ui[d].room
        /\ UNCHANGED <<game, mainq, queue, net>>
    BY <1>8, FailureUi DEF ForceDisconnect
  <2> QED BY <1>1, <2>1
<1>9. ASSUME NEW c \in Client,
             MovePlayer(c) \/ ReindexMove(c) \/ CloseRemove(c) \/ QuitPlayer(c)
      PROVE  UNCHANGED <<game, mainq, queue, net, ui>>
  BY <1>9 DEF MovePlayer, ReindexMove, CloseRemove, QuitPlayer
<1>10. UNCHANGED vars => UNCHANGED <<game, mainq, queue, net, ui>>
  BY DEF vars
<1> QED BY <1>1, <1>2, <1>3, <1>4, <1>5, <1>6, <1>7, <1>8, <1>9, <1>10 DEF Next, Worker

-----------------------------------------------------------------------------
(* The theorems.                                                           *)

LEMMA Inductive ==
    ASSUME DeliveryAssumption
    PROVE  Spec => []IInv
<1>1. Init => IInv
  <2> SUFFICES ASSUME Init
               PROVE  IInv
    OBVIOUS
  <2>1. /\ \A S : <<>> \in Seq(S)
        /\ <<0, 0>> \in (0..MaxGen) \X (0..MaxTicks) /\ 0 \in 0..MaxKicks
    BY DEF DeliveryAssumption
  <2>2. [mode |-> "off", room |-> NoRoom, pic |-> NoPicture] \in UiType
    BY DEF UiType
  <2>3. TypeOK
    BY <2>1, <2>2 DEF Init, TypeOK
  <2>4. States(<<>>) = {}
    BY DEF States
  <2>5. Ordered(<<>>)
    BY DEF Ordered
  <2>6. Placed
    BY <2>4 DEF Init, Placed
  <2>7. Flow
    BY <2>4, <2>5 DEF Init, Flow, Real, Before
  <2>8. Shown
    BY DEF Init, Shown
  <2> QED BY <2>3, <2>6, <2>7, <2>8 DEF IInv
<1>2. IInv /\ [Next]_vars => IInv'
  BY TypeStep, PlacedStep, FlowStep, ShownStep DEF IInv
<1> QED BY <1>1, <1>2, PTL DEF Spec

(* Channels, sockets, indexes and browsers only ever hold what they are    *)
(* meant to hold, whatever order frames, joins and closes come in.         *)
THEOREM TypeCorrect ==
    ASSUME DeliveryAssumption
    PROVE  Spec => []TypeOK
<1>1. IInv => TypeOK
  BY DEF IInv
<1> QED BY <1>1, Inductive, PTL

(* A browser never shows the state of a room it did not ask for, though    *)
(* every state goes into the channel of every client: the check of         *)
(* on_message_to_send_to_client is enough.                                 *)
THEOREM OwnRoomOnlyHolds ==
    ASSUME DeliveryAssumption
    PROVE  Spec => []OwnRoomOnly
<1>1. IInv => OwnRoomOnly
  BY DEF IInv, Shown, OwnRoomOnly
<1> QED BY <1>1, Inductive, PTL

(* The whole delivery, with its queues, threads, indexes and dropped       *)
(* messages, implements Picture: what a browser shows is a state its room  *)
(* really had, and it only moves forward.                                  *)
THEOREM PictureForwardHolds ==
    ASSUME DeliveryAssumption
    PROVE  Spec => PictureForward
<1>1. Init => P!Init
  BY DEF Init, P!Init
<1>2. IInv /\ IInv' /\ [Next]_vars => [P!Next]_P!vars
  <2> SUFFICES ASSUME IInv, IInv', [Next]_vars
               PROVE  [P!Next]_P!vars
    OBVIOUS
  <2> USE DEF IInv
  <2> DEFINE shown == [c \in Client |-> ui[c].pic]
  <2>1. ASSUME NEW c \in Client, Browser(c)
        PROVE  [P!Next]_P!vars
    <3>1. /\ \A d \in Client \ {c} : ui'[d] = ui[d]
          /\ ui'[c].pic # ui[c].pic =>
               Arrived(c).kind = "state" /\ ui'[c].pic = Arrived(c).body
          /\ ui'[c].room = ui[c].room
      BY <2>1, BrowserUi
    <3>2. net[c] # <<>> /\ UNCHANGED game
      BY <2>1 DEF Browser, ReceiveSwitching, ReceiveState, ReceiveLeave, ReceiveOther, ReceiveLeft
    <3>3. CASE ui'[c].pic = ui[c].pic
      <4>1. shown' = shown
        BY <3>1, <3>3
      <4> QED BY <3>2, <4>1 DEF P!vars
    <3>4. CASE ui'[c].pic # ui[c].pic
      <4> DEFINE p == Arrived(c).body
      <4>1. Arrived(c) \in States(net[c])
        BY <3>1, <3>2, <3>4, TailStates DEF TypeOK, Arrived
      <4>2. p \in Pic /\ NotLater(p, PictureOf(p[1])) /\ p[1] = ui[c].room
        BY <4>1 DEF Flow, Real, Placed
      <4>3. ui[c].pic # NoPicture => ui[c].pic[1] = ui[c].room /\ NotLater(ui[c].pic, p)
        BY <4>1 DEF Shown
      <4>4. ui'[c].pic = p
        BY <3>1, <3>4
      <4> HIDE DEF p
      <4>5. P!UpTo(P!MomentOf(p), game[p[1]])
        BY <4>2 DEF P!UpTo, P!MomentOf, NotLater, PictureOf
      <4>6. ui[c].pic # NoPicture =>
              ui[c].pic[1] = p[1] /\ P!UpTo(P!MomentOf(ui[c].pic), P!MomentOf(p))
        BY <4>2, <4>3 DEF P!UpTo, P!MomentOf, NotLater
      <4>7. shown' = [shown EXCEPT ![c] = p]
        BY <3>1, <4>4
      <4>8. p \in P!Pic
        BY <4>2 DEF P!Pic, Pic
      <4>9. P!Show(c)
        BY <3>2, <4>5, <4>6, <4>7, <4>8 DEF P!Show
      <4> QED BY <4>9 DEF P!Next
    <3> QED BY <3>3, <3>4
  <2>2. ASSUME NEW r \in Room, UpdateRoom(r) \/ Restart(r)
        PROVE  [P!Next]_P!vars
    <3>1. \/ game'[r] = <<game[r][1], game[r][2] + 1>>
          \/ game'[r] = <<game[r][1] + 1, 0>>
      BY <2>2, GameStep
    <3>2. /\ game' \in [Room -> (0..MaxGen) \X (0..MaxTicks)]
          /\ \A q \in Room \ {r} : game'[q] = game[q]
      BY <2>2, GameStep
    <3>3. game'[r] \in P!Moment /\ game' = [game EXCEPT ![r] = game'[r]]
      BY <3>2 DEF P!Moment, TypeOK
    <3>4. P!UpTo(game[r], game'[r])
      <4>1. game[r][1] \in Int /\ game[r][2] \in Int
        BY DEF TypeOK
      <4> QED BY <3>1, <4>1 DEF P!UpTo
    <3>5. shown' = shown
      BY <2>2, GameStep
    <3>6. P!Advance(r)
      BY <3>3, <3>4, <3>5 DEF P!Advance
    <3> QED BY <3>6 DEF P!Next
  <2>3. ASSUME NEW c \in Client, NEW r \in Room, Open(c, r)
        PROVE  [P!Next]_P!vars
    <3>1. \A d \in Client : ui'[d].pic = ui[d].pic
      <4>1. pc[c] = "off" /\ \A d \in Client \ {c} : ui'[d] = ui[d]
        BY <2>3 DEF Open, TypeOK
      <4>2. ui'[c].pic = NoPicture
        BY <2>3 DEF Open, TypeOK
      <4>3. ui[c].pic = NoPicture
        BY <4>1 DEF Placed
      <4> QED BY <4>1, <4>2, <4>3
    <3>2. shown' = shown /\ game' = game
      BY <2>3, <3>1 DEF Open
    <3> QED BY <3>2 DEF P!vars
  <2>4. ASSUME NEW c \in Client, ForceDisconnect(c)
        PROVE  [P!Next]_P!vars
    <3>1. \A d \in Client : ui'[d].pic = ui[d].pic
      BY <2>4, FailureUi
    <3>2. shown' = shown /\ game' = game
      BY <2>4, <3>1 DEF ForceDisconnect
    <3> QED BY <3>2 DEF P!vars
  <2>5. ASSUME UNCHANGED <<game, ui>>
        PROVE  [P!Next]_P!vars
    BY <2>5 DEF P!vars
  <2>6. ASSUME NEW c \in Client, Worker(c) \/ QuitPlayer(c)
        PROVE  UNCHANGED <<game, ui>>
    BY <2>6 DEF Worker, MovePlayer, ReindexMove, NotifyStateChanged, Personalize, CloseRemove,
                SendToClient, QuitPlayer
  <2>7. ASSUME Dispatch \/ HandleEvent \/ (\E r \in Room : Broadcast(r)) \/ UNCHANGED vars
        PROVE  UNCHANGED <<game, ui>>
    BY <2>7 DEF Dispatch, HandleEvent, Broadcast, vars
  <2> QED BY <2>1, <2>2, <2>3, <2>4, <2>5, <2>6, <2>7 DEF Next
<1> QED BY <1>1, <1>2, Inductive, PTL DEF Spec, PictureForward, P!Spec

=============================================================================
