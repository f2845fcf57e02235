---------------------------- MODULE RoomsProofs ----------------------------
(***************************************************************************)
(* Proofs about Rooms, for every number of connections and rooms, every    *)
(* capacity of the event channel and every cleanup timeout.  IInv is       *)
(* inductive: the steps that shrink rooms without reindexing keep what the *)
(* maps say of the players that remain (Shrinking), the steps that move    *)
(* rooms or players in the vector end in reindex_rooms (ReindexedFresh).   *)
(***************************************************************************)
EXTENDS Rooms, TLAPS

\* The greatest element of a set that has one element.
LEMMA LastOfOne ==
    ASSUME NEW S, NEW i \in S, i \in Int, \A j \in S : j = i
    PROVE  LastOf(S) = i
<1>1. \A j \in S : j <= i
  OBVIOUS
<1>2. LastOf(S) \in S
  BY <1>1, Zenon DEF LastOf
<1> QED BY <1>2

\* reindex_rooms gives each room and each player of a vector without repetitions
\* the entry of its place, and keeps the type of the maps.
LEMMA ReindexedFresh ==
    ASSUME RoomsAssumption,
           NEW vals \in Seq(RoomType), NEW idx \in IndexType,
           \A i, j \in 1..Len(vals) : vals[i].id = vals[j].id => i = j,
           \A c \in Client : \A i, j \in 1..Len(vals) :
               vals[i].seats[c] > 0 /\ vals[j].seats[c] > 0 => i = j
    PROVE  /\ Reindexed(vals, idx) \in IndexType
           /\ \A i \in 1..Len(vals) :
                /\ Reindexed(vals, idx).room[vals[i].id] = i
                /\ Reindexed(vals, idx).sid[SidOf(vals[i])] = i
                /\ Reindexed(vals, idx).roomSid[vals[i].id] = SidOf(vals[i])
                /\ \A c \in Client : vals[i].seats[c] > 0 =>
                     /\ Reindexed(vals, idx).player[c] = i
                     /\ Reindexed(vals, idx).playerSid[c] = SidOf(vals[i])
<1> DEFINE At(id) == {i \in 1..Len(vals) : vals[i].id = id}
           With(s) == {i \in 1..Len(vals) : SidOf(vals[i]) = s}
<1>1. /\ Len(vals) \in Nat
      /\ \A i \in 1..Len(vals) : vals[i] \in RoomType
  OBVIOUS
<1>2. \A i \in 1..Len(vals) : SidOf(vals[i]) \in Sid
  BY <1>1 DEF SidOf, Sid, RoomType
<1>3. \A i \in 1..Len(vals) : vals[i].id \in Room
  BY <1>1 DEF RoomType
<1>4. \A i \in 1..Len(vals) : LastOf(At(vals[i].id)) = i
  <2> TAKE i \in 1..Len(vals)
  <2>1. i \in At(vals[i].id) /\ i \in Int
    OBVIOUS
  <2>2. \A j \in At(vals[i].id) : j = i
    OBVIOUS
  <2> QED BY <2>1, <2>2, LastOfOne
<1>5. \A i \in 1..Len(vals) : LastOf(With(SidOf(vals[i]))) = i
  <2> TAKE i \in 1..Len(vals)
  <2>1. i \in With(SidOf(vals[i])) /\ i \in Int
    OBVIOUS
  <2>2. \A j \in With(SidOf(vals[i])) : j = i
    BY DEF SidOf
  <2> QED BY <2>1, <2>2, LastOfOne
<1>6. \A c \in Client : \A i \in 1..Len(vals) :
        vals[i].seats[c] > 0 => LastOf(Seated(c, vals)) = i
  <2> SUFFICES ASSUME NEW c \in Client, NEW i \in 1..Len(vals), vals[i].seats[c] > 0
               PROVE  LastOf(Seated(c, vals)) = i
    OBVIOUS
  <2>1. i \in Seated(c, vals) /\ i \in Int
    BY DEF Seated
  <2>2. \A j \in Seated(c, vals) : j = i
    BY DEF Seated
  <2> QED BY <2>1, <2>2, LastOfOne
<1>7. \A id \in Room : At(id) # {} => LastOf(At(id)) \in 1..Len(vals)
  BY <1>4
<1>8. \A s \in Sid : With(s) # {} => LastOf(With(s)) \in 1..Len(vals)
  BY <1>5
<1>9. \A c \in Client : Seated(c, vals) # {} => LastOf(Seated(c, vals)) \in 1..Len(vals)
  BY <1>6 DEF Seated
<1> DEFINE R == Reindexed(vals, idx)
<1> USE DEF IndexType
<1>10. /\ R.room \in [Room -> Nat]
       /\ R.roomSid \in [Room -> Sid \cup {NoSid}]
  <2>1. R.room = [r \in Room |-> IF At(r) = {} THEN idx.room[r] ELSE LastOf(At(r))]
    BY DEF Reindexed
  <2>2. R.roomSid = [r \in Room |-> IF At(r) = {} THEN idx.roomSid[r]
                                   ELSE SidOf(vals[LastOf(At(r))])]
    BY DEF Reindexed
  <2>3. \A r \in Room : /\ idx.room[r] \in Nat
                        /\ idx.roomSid[r] \in Sid \cup {NoSid}
    OBVIOUS
  <2> HIDE DEF At, R, IndexType
  <2>4. \A r \in Room : (IF At(r) = {} THEN idx.room[r] ELSE LastOf(At(r))) \in Nat
    BY <1>1, <1>7, <2>3
  <2>5. \A r \in Room : (IF At(r) = {} THEN idx.roomSid[r]
                         ELSE SidOf(vals[LastOf(At(r))])) \in Sid \cup {NoSid}
    BY <1>2, <1>7, <2>3
  <2> QED BY <2>1, <2>2, <2>4, <2>5
<1>11. /\ R.player \in [Client -> Nat]
       /\ R.playerSid \in [Client -> Sid \cup {NoSid}]
  <2>1. R.player = [c \in Client |-> IF Seated(c, vals) = {} THEN idx.player[c]
                                    ELSE LastOf(Seated(c, vals))]
    BY DEF Reindexed
  <2>2. R.playerSid = [c \in Client |-> IF Seated(c, vals) = {} THEN idx.playerSid[c]
                                       ELSE SidOf(vals[LastOf(Seated(c, vals))])]
    BY DEF Reindexed
  <2>3. \A c \in Client : /\ idx.player[c] \in Nat
                          /\ idx.playerSid[c] \in Sid \cup {NoSid}
    OBVIOUS
  <2> HIDE DEF R, IndexType
  <2>4. \A c \in Client : (IF Seated(c, vals) = {} THEN idx.player[c]
                           ELSE LastOf(Seated(c, vals))) \in Nat
    BY <1>1, <1>9, <2>3
  <2>5. \A c \in Client : (IF Seated(c, vals) = {} THEN idx.playerSid[c]
                           ELSE SidOf(vals[LastOf(Seated(c, vals))])) \in Sid \cup {NoSid}
    BY <1>2, <1>9, <2>3
  <2> QED BY <2>1, <2>2, <2>4, <2>5
<1>12. R.sid \in [Sid -> Nat]
  <2>1. R.sid = [s \in Sid |-> IF With(s) = {} THEN idx.sid[s] ELSE LastOf(With(s))]
    BY DEF Reindexed
  <2>2. \A s \in Sid : idx.sid[s] \in Nat
    OBVIOUS
  <2> HIDE DEF With, R, IndexType
  <2>3. \A s \in Sid : (IF With(s) = {} THEN idx.sid[s] ELSE LastOf(With(s))) \in Nat
    BY <1>1, <1>8, <2>2
  <2> QED BY <2>1, <2>3
<1>13. R \in IndexType
  BY <1>10, <1>11, <1>12 DEF Reindexed, IndexType
<1>14. ASSUME NEW i \in 1..Len(vals)
       PROVE  R.room[vals[i].id] = i /\ R.roomSid[vals[i].id] = SidOf(vals[i])
  BY <1>3, <1>4 DEF Reindexed
<1>15. ASSUME NEW i \in 1..Len(vals)
       PROVE  R.sid[SidOf(vals[i])] = i
  BY <1>2, <1>5 DEF Reindexed
<1>16. ASSUME NEW i \in 1..Len(vals), NEW c \in Client, vals[i].seats[c] > 0
       PROVE  R.player[c] = i /\ R.playerSid[c] = SidOf(vals[i])
  <2>1. LastOf(Seated(c, vals)) = i /\ Seated(c, vals) # {}
    BY <1>6, <1>16 DEF Seated
  <2> QED BY <2>1 DEF Reindexed
<1> QED BY <1>13, <1>14, <1>15, <1>16

-----------------------------------------------------------------------------
(* Steps that leave the maps alone.                                         *)

\* A step that only takes players out of rooms (or ages their marks) keeps every
\* entry right, as long as no player loses the "index" exemption by it.
LEMMA Shrinking ==
    ASSUME IInv, index' = index, events' = events, asked' = asked,
           values' \in Seq(RoomType), Len(values') = Len(values),
           \A i \in 1..Len(values) :
               /\ values'[i].id = values[i].id /\ values'[i].gen = values[i].gen
               /\ \A c \in Client : values'[i].seats[c] <= values[i].seats[c],
           \A c \in Client : pc[c] = "index" => pc'[c] = "index"
    PROVE  (DistinctRooms /\ FreshRequests /\ RoomsIndexed /\ OneSeat /\ SeatIndexed)'
<1>1. /\ \A i \in 1..Len(values) : values[i] \in RoomType
      /\ \A i \in 1..Len(values) : values'[i] \in RoomType
      /\ Len(values) \in Nat
  BY DEF IInv, TypeOK
<1>2. \A i \in 1..Len(values) : \A c \in Client :
        values[i].seats[c] \in Nat /\ values'[i].seats[c] \in Nat
  BY <1>1 DEF RoomType
<1>3. \A i \in 1..Len(values) : SidOf(values'[i]) = SidOf(values[i])
  BY DEF SidOf
<1>4. DistinctRooms'
  BY DEF IInv, DistinctRooms
<1>5. FreshRequests'
  BY DEF IInv, FreshRequests
<1>6. RoomsIndexed'
  BY <1>3 DEF IInv, RoomsIndexed
<1>7. OneSeat'
  BY <1>2 DEF IInv, OneSeat
<1>8. SeatIndexed'
  BY <1>2, <1>3 DEF IInv, SeatIndexed
<1> QED BY <1>4, <1>5, <1>6, <1>7, <1>8

\* SeatTaken takes one entry of the player at most, and the only one when the
\* player's index can be trusted.
LEMMA SeatTakenShrinks ==
    ASSUME IInv, NEW c \in Client
    PROVE  /\ SeatTaken(c) \in Seq(RoomType) /\ Len(SeatTaken(c)) = Len(values)
           /\ \A i \in 1..Len(values) :
                /\ SeatTaken(c)[i].id = values[i].id
                /\ SeatTaken(c)[i].gen = values[i].gen
                /\ \A d \in Client : /\ SeatTaken(c)[i].seats[d] <= values[i].seats[d]
                                     /\ d # c => SeatTaken(c)[i].seats[d] = values[i].seats[d]
                /\ pc[c] # "index" => SeatTaken(c)[i].seats[c] = 0
<1> DEFINE k == index.player[c]
           took == [values EXCEPT ![k].seats[c] = @ - 1]
<1>1. /\ \A i \in 1..Len(values) : values[i] \in RoomType
      /\ values \in Seq(RoomType) /\ Len(values) \in Nat
  BY DEF IInv, TypeOK
<1>2. \A i \in 1..Len(values) : \A d \in Client : values[i].seats[d] \in Nat
  BY <1>1 DEF RoomType
<1>3. pc[c] # "index" => \A i \in 1..Len(values) : values[i].seats[c] > 0 => i = k
  BY DEF IInv, SeatIndexed
<1>4. CASE ~(InVector(k) /\ values[k].seats[c] > 0)
  <2>1. SeatTaken(c) = values
    BY <1>4 DEF SeatTaken
  <2>2. pc[c] # "index" => \A i \in 1..Len(values) : values[i].seats[c] = 0
    BY <1>2, <1>3, <1>4 DEF InVector
  <2> QED BY <1>1, <1>2, <2>1, <2>2
<1>5. CASE InVector(k) /\ values[k].seats[c] > 0
  <2>1. SeatTaken(c) = took
    BY <1>5 DEF SeatTaken
  <2>2. k \in 1..Len(values) /\ values[k].seats[c] \in Nat \ {0}
    BY <1>2, <1>5 DEF InVector
  <2>3. /\ values[k] \in RoomType
        /\ values[k].seats \in [Client -> Nat]
    BY <1>1, <2>2 DEF RoomType
  <2> DEFINE seats == [values[k].seats EXCEPT ![c] = @ - 1]
             room == [values[k] EXCEPT !.seats = seats]
  <2>4. seats \in [Client -> Nat]
    BY <2>2, <2>3
  <2>5. room \in RoomType
    BY <2>3, <2>4 DEF RoomType
  <2>6. took = [values EXCEPT ![k] = room]
    BY <2>2
  <2>7. took \in Seq(RoomType) /\ Len(took) = Len(values)
    BY <1>1, <2>2, <2>5, <2>6
  <2>8. /\ took[k] = room
        /\ \A i \in 1..Len(values) : i # k => took[i] = values[i]
    BY <1>1, <2>2, <2>6
  <2>9. /\ room.id = values[k].id /\ room.gen = values[k].gen /\ room.seats = seats
    BY <2>3 DEF RoomType
  <2>10. /\ seats[c] = values[k].seats[c] - 1
         /\ \A d \in Client : d # c => seats[d] = values[k].seats[d]
    BY <2>3
  <2>11. values[k].seats[c] <= 1
    BY <2>2 DEF IInv, OneSeat
  <2>12. pc[c] # "index" => \A i \in 1..Len(values) : i # k => values[i].seats[c] = 0
    BY <1>2, <1>3
  <2> HIDE DEF took, room, seats, k
  <2>13. ASSUME NEW i \in 1..Len(values)
         PROVE  /\ took[i].id = values[i].id
                /\ took[i].gen = values[i].gen
                /\ \A d \in Client : /\ took[i].seats[d] <= values[i].seats[d]
                                     /\ d # c => took[i].seats[d] = values[i].seats[d]
                /\ pc[c] # "index" => took[i].seats[c] = 0
    <3>1. CASE i = k
      BY <1>2, <2>2, <2>8, <2>9, <2>10, <2>11, <3>1
    <3>2. CASE i # k
      BY <1>2, <2>8, <2>12, <3>2
    <3> QED BY <3>1, <3>2
  <2> QED BY <2>1, <2>7, <2>13
<1> QED BY <1>4, <1>5

\* The events channel only ever gains an event that is not a request here.
LEMMA FiredOther ==
    ASSUME RoomsAssumption, IInv, NEW q, q = Fired(events, Other)
    PROVE  /\ q \in Seq(Room \cup {Other}) /\ Len(q) <= EventCap
           /\ \A k \in 1..Len(q) : q[k] \in Room => k \in 1..Len(events) /\ q[k] = events[k]
<1>1. events \in Seq(Room \cup {Other}) /\ Len(events) <= EventCap /\ Len(events) \in Nat
  BY DEF IInv, TypeOK
<1>2. CASE Len(events) < EventCap
  <2>1. q = Append(events, Other)
    BY <1>2 DEF Fired
  <2> QED BY <1>1, <1>2, <2>1 DEF RoomsAssumption
<1>3. CASE ~(Len(events) < EventCap)
  BY <1>1, <1>3 DEF Fired
<1> QED BY <1>2, <1>3

-----------------------------------------------------------------------------
(* Init and the steps.                                                      *)

LEMMA InitIInv == ASSUME RoomsAssumption, Init PROVE IInv
<1>1. values = <<>> /\ Len(values) = 0 /\ events = <<>> /\ Len(events) = 0
  BY DEF Init
<1>2. TypeOK
  BY <1>1 DEF Init, TypeOK, RoomsAssumption, IndexType, NoClient, PC, MainPC
<1>3. DistinctRooms /\ FreshRequests /\ RoomsIndexed /\ OneSeat /\ SeatIndexed
      /\ UnseatedWhileMoving /\ Targets
  BY <1>1 DEF Init, DistinctRooms, FreshRequests, RoomsIndexed, OneSeat, SeatIndexed,
              UnseatedWhileMoving, Targets
<1> QED BY <1>2, <1>3 DEF IInv

\* Steps that touch neither the vector nor its maps.  Only a finished reindex takes
\* a connection out of "index" and only section 1 takes it to "push".
LEMMA QuietStep ==
    ASSUME IInv, TypeOK', Targets', UNCHANGED <<values, index>>,
           FreshRequests',
           asked \subseteq asked',
           \A c \in Client : pc[c] = "index" => pc'[c] = "index",
           \A c \in Client : pc'[c] = "push" => pc[c] = "push"
    PROVE  IInv'
BY DEF IInv, DistinctRooms, RoomsIndexed, OneSeat, SeatIndexed, UnseatedWhileMoving

\* The steps of a connection that only move it and its listing, and the main thread's.
LEMMA PcStep ==
    ASSUME RoomsAssumption, IInv, NEW c \in Client,
           \/ Connect(c) \/ ChooseListed(c) \/ RoomAppeared(c) \/ WaitTimedOut(c)
           \/ AnotherSwitch(c) \/ EndDrain(c) \/ LoopTop(c)
           \/ CloseUnlist(c) \/ ForceUnlist(c)
    PROVE  IInv'
<1>1. UNCHANGED <<values, index, events, asked>>
  BY DEF Connect, ChooseListed, RoomAppeared, WaitTimedOut, AnotherSwitch, EndDrain,
         LoopTop, CloseUnlist, ForceUnlist
<1>2. RoomIds \subseteq Room
  <2>1. \A i \in 1..Len(values) : values[i] \in RoomType
    BY DEF IInv, TypeOK
  <2> QED BY <2>1 DEF RoomIds, RoomType
<1>3. TypeOK'
  BY <1>1, <1>2
     DEF IInv, TypeOK, PC, NoClient, RoomsAssumption,
         Connect, ChooseListed, RoomAppeared, WaitTimedOut, AnotherSwitch, EndDrain,
         LoopTop, CloseUnlist, ForceUnlist
<1>4. Targets'
  BY <1>2
     DEF IInv, TypeOK, Targets,
         Connect, ChooseListed, RoomAppeared, WaitTimedOut, AnotherSwitch, EndDrain,
         LoopTop, CloseUnlist, ForceUnlist
<1>5. FreshRequests'
  BY <1>1 DEF IInv, FreshRequests
<1>6. /\ \A d \in Client : pc[d] = "index" => pc'[d] = "index"
      /\ \A d \in Client : pc'[d] = "push" => pc[d] = "push"
  BY DEF IInv, TypeOK,
         Connect, ChooseListed, RoomAppeared, WaitTimedOut, AnotherSwitch, EndDrain,
         LoopTop, CloseUnlist, ForceUnlist
<1> QED BY <1>1, <1>3, <1>4, <1>5, <1>6, QuietStep

LEMMA PcStepMain ==
    ASSUME IInv, MainShortcut \/ MainEvents \/ MainToCleanup
    PROVE  IInv'
<1> USE DEF MainShortcut, MainEvents, MainToCleanup
<1>1. TypeOK' /\ Targets' /\ FreshRequests'
  BY DEF IInv, TypeOK, MainPC, Targets, FreshRequests
<1> QED BY <1>1, QuietStep

LEMMA ChooseCreateStep ==
    ASSUME RoomsAssumption, IInv, NEW c \in Client, ChooseCreate(c)
    PROVE  IInv'
<1>1. PICK r \in Room \ asked :
        /\ asked' = asked \cup {r} /\ events' = Fired(events, r)
        /\ target' = [target EXCEPT ![c] = r]
  BY DEF ChooseCreate
<1>2. events \in Seq(Room \cup {Other}) /\ Len(events) \in Nat /\ Len(events) <= EventCap
  BY DEF IInv, TypeOK
<1>3. /\ events' \in Seq(Room \cup {Other}) /\ Len(events') <= EventCap
      /\ \A k \in 1..Len(events') :
            \/ k \in 1..Len(events) /\ events'[k] = events[k]
            \/ k = Len(events) + 1 /\ events'[k] = r
  <2>1. CASE Len(events) < EventCap
    <3>1. events' = Append(events, r)
      BY <1>1, <2>1 DEF Fired
    <3> QED BY <1>2, <2>1, <3>1 DEF RoomsAssumption
  <2>2. CASE ~(Len(events) < EventCap)
    BY <1>1, <1>2, <2>2 DEF Fired
  <2> QED BY <2>1, <2>2
<1>4. TypeOK'
  BY <1>1, <1>3 DEF IInv, TypeOK, ChooseCreate, PC
<1>5. Targets'
  BY <1>1 DEF IInv, TypeOK, Targets, ChooseCreate
<1>6. FreshRequests'
  <2>1. \A i \in 1..Len(values) : values[i].id # r
    BY DEF IInv, DistinctRooms
  <2>2. \A k \in 1..Len(events) : events[k] # r
    BY DEF IInv, FreshRequests
  <2>3. UNCHANGED values
    BY DEF ChooseCreate
  <2> QED BY <1>1, <1>2, <1>3, <2>1, <2>2, <2>3 DEF IInv, FreshRequests
<1> QED BY <1>1, <1>4, <1>5, <1>6, QuietStep DEF ChooseCreate, IInv, TypeOK

\* Sections that take a player out: the start of a move, a close, a forced removal.
LEMMA TakeStep ==
    ASSUME RoomsAssumption, IInv, NEW c \in Client,
           SwitchRoom(c) \/ CloseRemove(c) \/ ForceRemove(c)
    PROVE  IInv'
<1>1. values' = SeatTaken(c) /\ UNCHANGED <<index, events, asked>>
  BY DEF SwitchRoom, CloseRemove, ForceRemove
<1>2. /\ values' \in Seq(RoomType) /\ Len(values') = Len(values)
      /\ \A i \in 1..Len(values) :
           /\ values'[i].id = values[i].id /\ values'[i].gen = values[i].gen
           /\ \A d \in Client : values'[i].seats[d] <= values[i].seats[d]
           /\ \A d \in Client : d # c => values'[i].seats[d] = values[i].seats[d]
           /\ pc[c] # "index" => values'[i].seats[c] = 0
  BY <1>1, SeatTakenShrinks
<1>3. \A d \in Client : pc[d] = "index" => pc'[d] = "index"
  BY DEF IInv, TypeOK, SwitchRoom, CloseRemove, ForceRemove
<1>4. (DistinctRooms /\ FreshRequests /\ RoomsIndexed /\ OneSeat /\ SeatIndexed)'
  BY <1>1, <1>2, <1>3, Shrinking
<1>5. TypeOK'
  <2>1. CASE SwitchRoom(c)
    BY <1>1, <1>2, <2>1 DEF IInv, TypeOK, SwitchRoom, PC, RoomsAssumption
  <2>2. CASE CloseRemove(c)
    BY <1>1, <1>2, <2>2 DEF IInv, TypeOK, CloseRemove, PC
  <2>3. CASE ForceRemove(c)
    BY <1>1, <1>2, <2>3 DEF IInv, TypeOK, ForceRemove, NoClient
  <2> QED BY <2>1, <2>2, <2>3
<1>6. Targets'
  BY DEF IInv, TypeOK, Targets, SwitchRoom, CloseRemove, ForceRemove
<1>7. UnseatedWhileMoving'
  <2> SUFFICES ASSUME NEW d \in Client, pc'[d] = "push", NEW i \in 1..Len(values)
               PROVE  values'[i].seats[d] = 0
    BY <1>2 DEF UnseatedWhileMoving
  <2>1. values[i] \in RoomType /\ values'[i] \in RoomType
    BY <1>2 DEF IInv, TypeOK
  <2>2. values[i].seats[d] \in Nat /\ values'[i].seats[d] \in Nat
    BY <2>1 DEF RoomType
  <2>3. CASE d = c
    <3>1. pc[c] # "index"
      BY <1>3, <2>3
    <3> QED BY <1>2, <2>3, <3>1
  <2>4. CASE d # c
    <3>1. pc[d] = "push"
      BY <2>4 DEF IInv, TypeOK, SwitchRoom, CloseRemove, ForceRemove
    <3> QED BY <1>2, <2>2, <2>4, <3>1 DEF IInv, UnseatedWhileMoving
  <2> QED BY <2>3, <2>4
<1> QED BY <1>4, <1>5, <1>6, <1>7 DEF IInv

\* Section 2 of a move: the player, who sits nowhere, gets one seat; its index is
\* wrong until section 3, which the "index" step accounts for.
LEMMA PushStep ==
    ASSUME RoomsAssumption, IInv, NEW c \in Client, PushPlayer(c)
    PROVE  IInv'
<1> DEFINE k == index.room[target[c]]
<1>1. /\ pc[c] = "push" /\ UNCHANGED <<index, asked, main, target, joins, listed, forcing>>
      /\ values \in Seq(RoomType) /\ Len(values) \in Nat
      /\ \A i \in 1..Len(values) : values[i] \in RoomType
  BY DEF PushPlayer, IInv, TypeOK
<1>2. \A i \in 1..Len(values) : \A d \in Client : values[i].seats[d] \in Nat
  BY <1>1 DEF RoomType
<1>3. CASE ~InVector(k)
  <2>1. pc' = [pc EXCEPT ![c] = "joined"] /\ UNCHANGED <<values, events>>
    BY <1>3 DEF PushPlayer
  <2>2. TypeOK'
    BY <1>1, <2>1 DEF IInv, TypeOK, PC
  <2>3. Targets' /\ FreshRequests'
    BY <1>1, <2>1 DEF IInv, TypeOK, Targets, FreshRequests
  <2>4. /\ \A d \in Client : pc[d] = "index" => pc'[d] = "index"
        /\ \A d \in Client : pc'[d] = "push" => pc[d] = "push"
    BY <1>1, <2>1 DEF IInv, TypeOK
  <2> QED BY <1>1, <2>1, <2>2, <2>3, <2>4, QuietStep
<1>4. CASE InVector(k)
  <2>1. /\ values' = [values EXCEPT ![k].seats[c] = @ + 1]
        /\ events' = Fired(events, Other)
        /\ pc' = [pc EXCEPT ![c] = "index"]
    BY <1>4 DEF PushPlayer
  <2>2. k \in 1..Len(values) /\ values[k] \in RoomType
    BY <1>1, <1>4 DEF InVector
  <2> DEFINE seats == [values[k].seats EXCEPT ![c] = @ + 1]
             room == [values[k] EXCEPT !.seats = seats]
  <2>3. values[k].seats \in [Client -> Nat] /\ seats \in [Client -> Nat]
    <3>1. values[k].seats \in [Client -> Nat]
      BY <2>2 DEF RoomType
    <3>2. values[k].seats[c] + 1 \in Nat
      BY <3>1
    <3> QED BY <3>1, <3>2
  <2>4. /\ room \in RoomType
        /\ room.id = values[k].id /\ room.gen = values[k].gen /\ room.seats = seats
    BY <2>2, <2>3 DEF RoomType
  <2>5. values' = [values EXCEPT ![k] = room]
    BY <2>1, <2>2
  <2>6. /\ values' \in Seq(RoomType) /\ Len(values') = Len(values)
        /\ values'[k] = room
        /\ \A i \in 1..Len(values) : i # k => values'[i] = values[i]
    BY <1>1, <2>2, <2>4, <2>5
  <2>7. /\ seats[c] = values[k].seats[c] + 1
        /\ \A d \in Client : d # c => seats[d] = values[k].seats[d]
    BY <2>3
  <2>8. \A i \in 1..Len(values) : values[i].seats[c] = 0
    BY <1>1 DEF IInv, UnseatedWhileMoving
  <2> HIDE DEF room, seats, k
  <2>9. \A i \in 1..Len(values) :
          /\ values'[i].id = values[i].id /\ values'[i].gen = values[i].gen
          /\ \A d \in Client : d # c => values'[i].seats[d] = values[i].seats[d]
          /\ values'[i].seats[c] = IF i = k THEN 1 ELSE 0
    <3> TAKE i \in 1..Len(values)
    <3>1. CASE i = k
      BY <2>2, <2>4, <2>6, <2>7, <2>8, <3>1
    <3>2. CASE i # k
      BY <2>6, <2>8, <3>2
    <3> QED BY <3>1, <3>2
  <2>10. \A i \in 1..Len(values) : SidOf(values'[i]) = SidOf(values[i])
    BY <2>9 DEF SidOf
  <2>11. TypeOK'
    BY <1>1, <2>1, <2>6, FiredOther DEF IInv, TypeOK, PC
  <2>12. Targets'
    BY <1>1, <2>1 DEF IInv, TypeOK, Targets
  <2>13. DistinctRooms' /\ RoomsIndexed'
    BY <1>1, <2>6, <2>9, <2>10 DEF IInv, DistinctRooms, RoomsIndexed
  <2>14. FreshRequests'
    <3>1. \A n \in 1..Len(events') : events'[n] \in Room =>
            n \in 1..Len(events) /\ events'[n] = events[n]
      BY <2>1, FiredOther
    <3>2. \A i \in 1..Len(values) : values'[i].id = values[i].id
      BY <2>9
    <3>3. \A n, m \in 1..Len(events') :
            events'[n] \in Room /\ events'[n] = events'[m] => n = m
      BY <3>1 DEF IInv, FreshRequests
    <3> QED BY <1>1, <2>6, <3>1, <3>2, <3>3 DEF IInv, FreshRequests
  <2>15. OneSeat'
    <3> SUFFICES ASSUME NEW d \in Client, NEW i \in 1..Len(values), NEW j \in 1..Len(values)
                 PROVE  /\ values'[i].seats[d] <= 1
                        /\ values'[i].seats[d] = 1 /\ values'[j].seats[d] = 1 => i = j
      BY <2>6 DEF OneSeat
    <3>1. CASE d = c
      BY <2>9, <3>1
    <3>2. CASE d # c
      BY <2>9, <3>2 DEF IInv, OneSeat
    <3> QED BY <3>1, <3>2
  <2>16. SeatIndexed'
    <3> SUFFICES ASSUME NEW d \in Client, NEW i \in 1..Len(values),
                        values'[i].seats[d] > 0, pc'[d] # "index"
                 PROVE  index.player[d] = i /\ index.playerSid[d] = SidOf(values'[i])
      BY <1>1, <2>6 DEF SeatIndexed
    <3>1. d # c /\ pc[d] # "index"
      BY <2>1 DEF IInv, TypeOK
    <3> QED BY <2>9, <2>10, <3>1 DEF IInv, SeatIndexed
  <2>17. UnseatedWhileMoving'
    <3> SUFFICES ASSUME NEW d \in Client, pc'[d] = "push", NEW i \in 1..Len(values)
                 PROVE  values'[i].seats[d] = 0
      BY <2>6 DEF UnseatedWhileMoving
    <3>1. d # c /\ pc[d] = "push"
      BY <2>1 DEF IInv, TypeOK
    <3> QED BY <2>9, <3>1 DEF IInv, UnseatedWhileMoving
  <2> QED BY <2>11, <2>12, <2>13, <2>14, <2>15, <2>16, <2>17 DEF IInv
<1> QED BY <1>3, <1>4

\* A player seated in two places of the vector, put as a condition ReindexedFresh takes.
LEMMA SeatedOnce ==
    ASSUME NEW vals \in Seq(RoomType),
           \A c \in Client : \A i, j \in 1..Len(vals) :
               /\ vals[i].seats[c] <= 1
               /\ vals[i].seats[c] = 1 /\ vals[j].seats[c] = 1 => i = j
    PROVE  \A c \in Client : \A i, j \in 1..Len(vals) :
               vals[i].seats[c] > 0 /\ vals[j].seats[c] > 0 => i = j
<1>1. \A i \in 1..Len(vals) : vals[i] \in RoomType
  OBVIOUS
<1>2. \A i \in 1..Len(vals) : \A c \in Client : vals[i].seats[c] \in Nat
  BY <1>1 DEF RoomType
<1> QED BY <1>2

\* Whatever a step does to the vector, reindexing at its end makes the maps right.
LEMMA Reindexing ==
    ASSUME RoomsAssumption, index \in IndexType, values' \in Seq(RoomType),
           DistinctRooms', OneSeat', index' = Reindexed(values', index)
    PROVE  index' \in IndexType /\ RoomsIndexed' /\ SeatIndexed'
<1>1. \A c \in Client : \A i, j \in 1..Len(values') :
        values'[i].seats[c] > 0 /\ values'[j].seats[c] > 0 => i = j
  BY SeatedOnce DEF OneSeat
<1>2. \A i, j \in 1..Len(values') : values'[i].id = values'[j].id => i = j
  BY DEF DistinctRooms
<1>3. /\ Reindexed(values', index) \in IndexType
      /\ \A i \in 1..Len(values') :
           /\ Reindexed(values', index).room[values'[i].id] = i
           /\ Reindexed(values', index).sid[SidOf(values'[i])] = i
           /\ Reindexed(values', index).roomSid[values'[i].id] = SidOf(values'[i])
           /\ \A c \in Client : values'[i].seats[c] > 0 =>
                /\ Reindexed(values', index).player[c] = i
                /\ Reindexed(values', index).playerSid[c] = SidOf(values'[i])
  BY <1>1, <1>2, ReindexedFresh
<1> QED BY <1>3 DEF RoomsIndexed, SeatIndexed

\* Section 3 of a move.
LEMMA ReindexStep ==
    ASSUME RoomsAssumption, IInv, NEW c \in Client, ReindexAfterPush(c)
    PROVE  IInv'
<1>1. /\ UNCHANGED <<values, events, asked>> /\ index' = Reindexed(values', index)
      /\ pc' = [pc EXCEPT ![c] = "joined"]
  BY DEF ReindexAfterPush
<1>2. DistinctRooms' /\ OneSeat' /\ FreshRequests' /\ values' \in Seq(RoomType)
      /\ index \in IndexType
  BY <1>1 DEF IInv, DistinctRooms, OneSeat, FreshRequests, TypeOK
<1>3. index' \in IndexType /\ RoomsIndexed' /\ SeatIndexed'
  BY <1>1, <1>2, Reindexing
<1>4. TypeOK'
  BY <1>1, <1>2, <1>3 DEF IInv, TypeOK, ReindexAfterPush, PC
<1>5. Targets' /\ UnseatedWhileMoving'
  BY <1>1 DEF IInv, TypeOK, Targets, UnseatedWhileMoving, ReindexAfterPush
<1> QED BY <1>2, <1>3, <1>4, <1>5 DEF IInv

LEMMA JoinedStep ==
    ASSUME RoomsAssumption, IInv, NEW c \in Client, RoomJoined(c)
    PROVE  IInv'
<1>1. /\ UNCHANGED <<values, index, asked>> /\ events' \in {events, Fired(events, Other)}
      /\ pc' = [pc EXCEPT ![c] = "drain"] /\ target' = [target EXCEPT ![c] = NoRoom]
      /\ pc[c] = "joined"
  BY DEF RoomJoined
<1>2. /\ events' \in Seq(Room \cup {Other}) /\ Len(events') <= EventCap
      /\ \A k \in 1..Len(events') :
            events'[k] \in Room => k \in 1..Len(events) /\ events'[k] = events[k]
  <2>1. CASE events' = events
    BY <2>1 DEF IInv, TypeOK
  <2>2. CASE events' = Fired(events, Other)
    BY <2>2, FiredOther
  <2> QED BY <1>1, <2>1, <2>2
<1>3. TypeOK'
  BY <1>1, <1>2 DEF IInv, TypeOK, RoomJoined, PC
<1>4. Targets'
  BY <1>1 DEF IInv, TypeOK, Targets
<1>5. FreshRequests'
  <2>1. \A n, m \in 1..Len(events') :
          events'[n] \in Room /\ events'[n] = events'[m] => n = m
    BY <1>2 DEF IInv, FreshRequests
  <2> QED BY <1>1, <1>2, <2>1 DEF IInv, FreshRequests
<1>6. /\ \A d \in Client : pc[d] = "index" => pc'[d] = "index"
      /\ \A d \in Client : pc'[d] = "push" => pc[d] = "push"
  BY <1>1 DEF IInv, TypeOK
<1> QED BY <1>1, <1>3, <1>4, <1>5, <1>6, QuietStep

\* cleanup_orphaned_players and the passing of time.
LEMMA OrphanStep == ASSUME RoomsAssumption, IInv, MainOrphans \/ Elapse PROVE IInv'
<1>1. /\ UNCHANGED <<index, events, asked, pc, target, joins, listed, forcing>>
      /\ values \in Seq(RoomType) /\ Len(values) \in Nat
      /\ \A i \in 1..Len(values) : values[i] \in RoomType
  BY DEF MainOrphans, Elapse, IInv, TypeOK
<1>2. \A i \in 1..Len(values) : /\ values[i].seats \in [Client -> Nat]
                                /\ values[i].mark \in NoMark..(CleanupTimeout + 1)
  BY <1>1 DEF RoomType
<1>3. /\ values' \in Seq(RoomType) /\ Len(values') = Len(values)
      /\ \A i \in 1..Len(values) :
           /\ values'[i].id = values[i].id /\ values'[i].gen = values[i].gen
           /\ \A d \in Client : values'[i].seats[d] <= values[i].seats[d]
  <2>1. CASE MainOrphans
    <3> DEFINE cleaned(i) == [values[i] EXCEPT
                 !.seats = [c \in Client |-> IF c \in listed THEN values[i].seats[c] ELSE 0]]
    <3>1. values' = [i \in 1..Len(values) |-> cleaned(i)]
      BY <2>1 DEF MainOrphans
    <3>2. \A i \in 1..Len(values) : [c \in Client |->
            IF c \in listed THEN values[i].seats[c] ELSE 0] \in [Client -> Nat]
      BY <1>2
    <3>3. \A i \in 1..Len(values) :
            /\ cleaned(i) \in RoomType
            /\ cleaned(i).id = values[i].id /\ cleaned(i).gen = values[i].gen
      BY <1>1, <3>2 DEF RoomType
    <3>4. \A i \in 1..Len(values) : \A d \in Client :
            cleaned(i).seats[d] <= values[i].seats[d]
      <4> TAKE i \in 1..Len(values)
      <4> TAKE d \in Client
      <4>1. cleaned(i).seats[d] = IF d \in listed THEN values[i].seats[d] ELSE 0
        BY <1>1 DEF RoomType
      <4> QED BY <1>2, <4>1
    <3> HIDE DEF cleaned
    <3>5. values' \in Seq(RoomType) /\ Len(values') = Len(values)
          /\ \A i \in 1..Len(values) : values'[i] = cleaned(i)
      BY <1>1, <3>1, <3>3
    <3> QED BY <3>3, <3>4, <3>5
  <2>2. CASE Elapse
    <3> DEFINE older(i) == [values[i] EXCEPT
                 !.mark = IF values[i].mark \in 0..CleanupTimeout
                          THEN values[i].mark + 1 ELSE values[i].mark]
    <3>1. values' = [i \in 1..Len(values) |-> older(i)]
      BY <2>2 DEF Elapse
    <3>2. \A i \in 1..Len(values) :
            (IF values[i].mark \in 0..CleanupTimeout THEN values[i].mark + 1
             ELSE values[i].mark) \in NoMark..(CleanupTimeout + 1)
      BY <1>2 DEF NoMark, RoomsAssumption
    <3>3. \A i \in 1..Len(values) :
            /\ older(i) \in RoomType
            /\ older(i).id = values[i].id /\ older(i).gen = values[i].gen
            /\ older(i).seats = values[i].seats
      BY <1>1, <3>2 DEF RoomType
    <3> HIDE DEF older
    <3>4. values' \in Seq(RoomType) /\ Len(values') = Len(values)
          /\ \A i \in 1..Len(values) : values'[i] = older(i)
      BY <1>1, <3>1, <3>3
    <3> QED BY <1>2, <3>3, <3>4
  <2> QED BY <2>1, <2>2
<1>4. (DistinctRooms /\ FreshRequests /\ RoomsIndexed /\ OneSeat /\ SeatIndexed)'
  BY <1>1, <1>3, Shrinking
<1>5. TypeOK'
  BY <1>1, <1>3 DEF IInv, TypeOK, MainOrphans, Elapse, MainPC
<1>6. Targets'
  BY <1>1 DEF IInv, Targets
<1>7. UnseatedWhileMoving'
  <2> SUFFICES ASSUME NEW d \in Client, pc[d] = "push", NEW i \in 1..Len(values)
               PROVE  values'[i].seats[d] = 0
    BY <1>1, <1>3 DEF UnseatedWhileMoving
  <2>1. values'[i] \in RoomType
    BY <1>3
  <2>2. values'[i].seats[d] \in Nat
    BY <2>1 DEF RoomType
  <2> QED BY <1>3, <2>2 DEF IInv, UnseatedWhileMoving
<1> QED BY <1>4, <1>5, <1>6, <1>7 DEF IInv

\* What cleanup_empty_rooms and update_room leave in the vector: rooms of before, each
\* once, in their order, with their players; a room with somebody in it is among them.
LEMMA UpdateKeeps ==
    ASSUME RoomsAssumption, IInv, MainUpdate
    PROVE  \E n \in Nat : \E f \in [1..n -> 1..Len(values)] :
             /\ values' \in Seq(RoomType) /\ Len(values') = n
             /\ \A i, j \in 1..n : f[i] = f[j] => i = j
             /\ \A i \in 1..n : /\ values'[i].id = values[f[i]].id
                                 /\ values'[i].seats = values[f[i]].seats
             /\ \A k \in 1..Len(values) : ~Empty(values[k]) => \E i \in 1..n : f[i] = k
<1>1. PICK again \in SUBSET Room :
        LET marked == [i \in 1..Len(values) |->
                        IF values[i].id \in again THEN Restarted(Marked(values[i]))
                        ELSE Marked(values[i])]
            keep == {i \in 1..Len(values) : ~Expired(marked[i])}
        IN Retains(marked, keep, values')
  BY DEF MainUpdate
<1> DEFINE new(i) == IF values[i].id \in again THEN Restarted(Marked(values[i]))
                     ELSE Marked(values[i])
           marked == [i \in 1..Len(values) |-> new(i)]
           keep == {i \in 1..Len(values) : ~Expired(marked[i])}
<1>2. /\ Len(values) \in Nat
      /\ \A i \in 1..Len(values) : values[i] \in RoomType
  BY DEF IInv, TypeOK
<1>3. ASSUME NEW room \in RoomType
      PROVE  /\ Marked(room) \in RoomType /\ Marked(room).id = room.id
             /\ Marked(room).seats = room.seats
             /\ ~Empty(room) => Marked(room).mark = NoMark
  <2>1. 0 \in NoMark..(CleanupTimeout + 1) /\ NoMark \in NoMark..(CleanupTimeout + 1)
    BY DEF NoMark, RoomsAssumption
  <2>2. /\ [room EXCEPT !.mark = 0] \in RoomType
        /\ [room EXCEPT !.mark = NoMark] \in RoomType
        /\ [room EXCEPT !.mark = 0].id = room.id
        /\ [room EXCEPT !.mark = 0].seats = room.seats
        /\ [room EXCEPT !.mark = NoMark].id = room.id
        /\ [room EXCEPT !.mark = NoMark].seats = room.seats
        /\ [room EXCEPT !.mark = NoMark].mark = NoMark
    BY <2>1 DEF RoomType
  <2> QED BY <2>2 DEF Marked
<1>4. ASSUME NEW room \in RoomType
      PROVE  /\ Restarted(room) \in RoomType /\ Restarted(room).id = room.id
             /\ Restarted(room).seats = room.seats /\ Restarted(room).mark = room.mark
  <2>1. (IF room.gen < MaxGen THEN room.gen + 1 ELSE room.gen) \in 0..MaxGen
    BY DEF RoomType, RoomsAssumption
  <2> QED BY <2>1 DEF Restarted, RoomType
<1>5. \A i \in 1..Len(values) :
        /\ new(i) \in RoomType /\ new(i).id = values[i].id
        /\ new(i).seats = values[i].seats
        /\ ~Empty(values[i]) => new(i).mark = NoMark
  BY <1>2, <1>3, <1>4
<1> HIDE DEF new
<1>6. /\ Len(marked) = Len(values)
      /\ \A i \in 1..Len(values) : marked[i] = new(i)
  BY <1>2
<1>7. \A k \in 1..Len(values) : ~Empty(values[k]) => k \in keep
  BY <1>5, <1>6 DEF Expired, NoMark, RoomsAssumption
<1>8. Retains(marked, keep, values')
  BY <1>1 DEF new
<1> HIDE DEF marked, keep
<1>9. PICK n \in 0..Len(values) : \E f \in [1..n -> 1..Len(values)] :
        /\ \A i, j \in 1..n : i < j => f[i] < f[j]
        /\ {f[i] : i \in 1..n} = keep
        /\ values' = [i \in 1..n |-> marked[f[i]]]
  BY <1>6, <1>8 DEF Retains
<1>10. PICK f \in [1..n -> 1..Len(values)] :
        /\ \A i, j \in 1..n : i < j => f[i] < f[j]
        /\ {f[i] : i \in 1..n} = keep
        /\ values' = [i \in 1..n |-> marked[f[i]]]
  BY <1>9
<1>11. n \in Nat
  BY <1>2, <1>9
<1>12. \A i \in 1..n : f[i] \in 1..Len(values)
  BY <1>10
<1>13. \A i, j \in 1..n : f[i] = f[j] => i = j
  <2> SUFFICES ASSUME NEW i \in 1..n, NEW j \in 1..n, f[i] = f[j], i # j PROVE FALSE
    OBVIOUS
  <2>1. i < j \/ j < i
    BY <1>11
  <2>2. f[i] \in Int /\ f[j] \in Int
    BY <1>2, <1>12
  <2> QED BY <1>10, <2>1, <2>2
<1>14. /\ values' \in Seq(RoomType) /\ Len(values') = n
       /\ \A i \in 1..n : values'[i] = new(f[i])
  BY <1>5, <1>6, <1>10, <1>11, <1>12
<1>15. \A i \in 1..n : /\ values'[i].id = values[f[i]].id
                       /\ values'[i].seats = values[f[i]].seats
  BY <1>5, <1>12, <1>14
<1>16. \A k \in 1..Len(values) : ~Empty(values[k]) => \E i \in 1..n : f[i] = k
  BY <1>7, <1>10
<1> QED BY <1>10, <1>11, <1>13, <1>14, <1>15, <1>16

LEMMA UpdateStep == ASSUME RoomsAssumption, IInv, MainUpdate PROVE IInv'
<1>1. PICK n \in Nat : \E f \in [1..n -> 1..Len(values)] :
             /\ values' \in Seq(RoomType) /\ Len(values') = n
             /\ \A i, j \in 1..n : f[i] = f[j] => i = j
             /\ \A i \in 1..n : /\ values'[i].id = values[f[i]].id
                                 /\ values'[i].seats = values[f[i]].seats
  BY UpdateKeeps
<1>2. PICK f \in [1..n -> 1..Len(values)] :
             /\ values' \in Seq(RoomType) /\ Len(values') = n
             /\ \A i, j \in 1..n : f[i] = f[j] => i = j
             /\ \A i \in 1..n : /\ values'[i].id = values[f[i]].id
                                 /\ values'[i].seats = values[f[i]].seats
  BY <1>1
<1>3. \A i \in 1..n : f[i] \in 1..Len(values)
  BY <1>2
<1>4. /\ index' = Reindexed(values', index) /\ events' \in {events, Fired(events, Other)}
      /\ main' = "updated" /\ UNCHANGED <<asked, pc, target, joins, listed, forcing>>
      /\ index \in IndexType
  BY DEF MainUpdate, IInv, TypeOK
<1>5. DistinctRooms'
  <2>1. \A i \in 1..n : values'[i].id \in asked
    BY <1>2, <1>3 DEF IInv, DistinctRooms
  <2>2. \A i, j \in 1..n : values'[i].id = values'[j].id => i = j
    <3> SUFFICES ASSUME NEW i \in 1..n, NEW j \in 1..n, values'[i].id = values'[j].id
                 PROVE  i = j
      OBVIOUS
    <3>1. values[f[i]].id = values[f[j]].id
      BY <1>2
    <3>2. f[i] = f[j]
      BY <1>3, <3>1 DEF IInv, DistinctRooms
    <3> QED BY <1>2, <3>2
  <2> QED BY <1>2, <1>4, <2>1, <2>2 DEF DistinctRooms
<1>6. OneSeat'
  <2> SUFFICES ASSUME NEW c \in Client, NEW i \in 1..n, NEW j \in 1..n
               PROVE  /\ values'[i].seats[c] <= 1
                      /\ values'[i].seats[c] = 1 /\ values'[j].seats[c] = 1 => i = j
    BY <1>2 DEF OneSeat
  <2>1. /\ values'[i].seats = values[f[i]].seats /\ values'[j].seats = values[f[j]].seats
        /\ f[i] \in 1..Len(values) /\ f[j] \in 1..Len(values)
        /\ f[i] = f[j] => i = j
    BY <1>2, <1>3
  <2> QED BY <2>1 DEF IInv, OneSeat
<1>7. index' \in IndexType /\ RoomsIndexed' /\ SeatIndexed'
  BY <1>2, <1>4, <1>5, <1>6, Reindexing
<1>8. /\ events' \in Seq(Room \cup {Other}) /\ Len(events') <= EventCap
      /\ \A k \in 1..Len(events') :
            events'[k] \in Room => k \in 1..Len(events) /\ events'[k] = events[k]
  <2>1. CASE events' = events
    BY <2>1 DEF IInv, TypeOK
  <2>2. CASE events' = Fired(events, Other)
    BY <2>2, FiredOther
  <2> QED BY <1>4, <2>1, <2>2
<1>9. TypeOK'
  BY <1>2, <1>4, <1>7, <1>8 DEF IInv, TypeOK, MainPC
<1>10. FreshRequests'
  <2>1. \A k, l \in 1..Len(events') :
          events'[k] \in Room /\ events'[k] = events'[l] => k = l
    BY <1>8 DEF IInv, FreshRequests
  <2>2. \A k \in 1..Len(events') : events'[k] \in Room =>
          \A i \in 1..n : values'[i].id # events'[k]
    <3> SUFFICES ASSUME NEW k \in 1..Len(events'), events'[k] \in Room, NEW i \in 1..n
                 PROVE  values'[i].id # events'[k]
      OBVIOUS
    <3>1. k \in 1..Len(events) /\ events'[k] = events[k]
      BY <1>8
    <3>2. values'[i].id = values[f[i]].id /\ f[i] \in 1..Len(values)
      BY <1>2, <1>3
    <3> QED BY <3>1, <3>2 DEF IInv, FreshRequests
  <2> QED BY <1>2, <1>4, <1>8, <2>1, <2>2 DEF IInv, FreshRequests
<1>11. Targets' /\ UnseatedWhileMoving'
  BY <1>2, <1>3, <1>4 DEF IInv, Targets, UnseatedWhileMoving
<1> QED BY <1>5, <1>6, <1>7, <1>9, <1>10, <1>11 DEF IInv

LEMMA EventStep == ASSUME RoomsAssumption, IInv, HandleEvent PROVE IInv'
<1>1. /\ events # <<>> /\ events' = Tail(events)
      /\ UNCHANGED <<asked, main, pc, target, joins, listed, forcing>>
      /\ events \in Seq(Room \cup {Other}) /\ Len(events) <= EventCap
      /\ values \in Seq(RoomType) /\ Len(values) \in Nat /\ index \in IndexType
  BY DEF HandleEvent, IInv, TypeOK
<1>2. /\ events' \in Seq(Room \cup {Other}) /\ Len(events') = Len(events) - 1
      /\ \A k \in 1..Len(events') : events'[k] = events[k + 1]
      /\ Len(events) \in Nat \ {0} /\ Head(events) = events[1]
  BY <1>1
<1>3. \A k, l \in 1..Len(events') : events'[k] \in Room /\ events'[k] = events'[l] => k = l
  <2> SUFFICES ASSUME NEW k \in 1..Len(events'), NEW l \in 1..Len(events'),
                      events'[k] \in Room, events'[k] = events'[l]
               PROVE  k = l
    OBVIOUS
  <2>1. k + 1 \in 1..Len(events) /\ l + 1 \in 1..Len(events)
    BY <1>2
  <2>2. events[k + 1] \in Room /\ events[k + 1] = events[l + 1]
    BY <1>2
  <2> QED BY <2>1, <2>2 DEF IInv, FreshRequests
<1>4. Targets'
  BY <1>1 DEF IInv, Targets
<1>5. EventCap \in Nat
  BY DEF RoomsAssumption
<1>6. CASE Head(events) \notin Room
  <2>1. UNCHANGED <<values, index>>
    BY <1>6 DEF HandleEvent
  <2>2. TypeOK'
    BY <1>1, <1>2, <1>5, <2>1 DEF IInv, TypeOK
  <2>3. FreshRequests'
    BY <1>1, <1>2, <1>3, <2>1 DEF IInv, FreshRequests
  <2> QED BY <1>1, <1>4, <2>1, <2>2, <2>3, QuietStep
<1>7. CASE Head(events) \in Room
  <2> DEFINE r == Head(events)
             m == Len(values) + 1
  <2>1. values' = Append(values, NewRoom(r)) /\ index' = Reindexed(values', index)
    BY <1>7 DEF HandleEvent
  <2>2. /\ NewRoom(r) \in RoomType /\ NewRoom(r).id = r
        /\ \A c \in Client : NewRoom(r).seats[c] = 0
    <3>1. NoMark \in NoMark..(CleanupTimeout + 1) /\ 0 \in 0..MaxGen
      BY DEF NoMark, RoomsAssumption
    <3> QED BY <1>7, <3>1 DEF NewRoom, RoomType
  <2> HIDE DEF r
  <2>3. /\ values' \in Seq(RoomType) /\ Len(values') = m
        /\ values'[m] = NewRoom(r)
        /\ \A i \in 1..Len(values) : values'[i] = values[i]
    BY <1>1, <2>1, <2>2
  <2>4. r \in asked /\ \A i \in 1..Len(values) : values[i].id # r
    BY <1>2, <1>7 DEF IInv, FreshRequests, r
  <2>5. DistinctRooms'
    <3>1. \A i \in 1..m : \/ i \in 1..Len(values) /\ values'[i].id = values[i].id
                          \/ i = m /\ values'[i].id = r
      BY <1>1, <2>2, <2>3
    <3>2. \A i \in 1..m : values'[i].id \in asked
      BY <2>4, <3>1 DEF IInv, DistinctRooms
    <3>3. \A i, j \in 1..m : values'[i].id = values'[j].id => i = j
      BY <2>4, <3>1 DEF IInv, DistinctRooms
    <3> QED BY <1>1, <2>3, <3>2, <3>3 DEF DistinctRooms
  <2>6. OneSeat'
    <3> SUFFICES ASSUME NEW c \in Client, NEW i \in 1..m, NEW j \in 1..m
                 PROVE  /\ values'[i].seats[c] <= 1
                        /\ values'[i].seats[c] = 1 /\ values'[j].seats[c] = 1 => i = j
      BY <2>3 DEF OneSeat
    <3>1. \A k \in 1..m : \/ k \in 1..Len(values) /\ values'[k].seats[c] = values[k].seats[c]
                          \/ k = m /\ values'[k].seats[c] = 0
      BY <1>1, <2>2, <2>3
    <3> QED BY <3>1 DEF IInv, OneSeat
  <2>7. index' \in IndexType /\ RoomsIndexed' /\ SeatIndexed'
    BY <1>1, <2>1, <2>3, <2>5, <2>6, Reindexing
  <2>8. TypeOK'
    BY <1>1, <1>2, <1>5, <2>3, <2>7 DEF IInv, TypeOK
  <2>9. FreshRequests'
    <3>1. \A k \in 1..Len(events') : events'[k] \in Room =>
            /\ events'[k] \in asked /\ events'[k] # r
            /\ \A i \in 1..Len(values) : values[i].id # events'[k]
      <4> SUFFICES ASSUME NEW k \in 1..Len(events'), events'[k] \in Room
                   PROVE  /\ events'[k] \in asked /\ events'[k] # r
                          /\ \A i \in 1..Len(values) : values[i].id # events'[k]
        OBVIOUS
      <4>1. k + 1 \in 1..Len(events) /\ events'[k] = events[k + 1] /\ 1 \in 1..Len(events)
            /\ k + 1 # 1
        BY <1>2
      <4> QED BY <1>2, <1>7, <4>1 DEF IInv, FreshRequests, r
    <3> QED BY <1>1, <1>3, <2>2, <2>3, <3>1 DEF FreshRequests
  <2>10. UnseatedWhileMoving'
    BY <1>1, <2>2, <2>3 DEF IInv, UnseatedWhileMoving
  <2> QED BY <1>4, <2>5, <2>6, <2>7, <2>8, <2>9, <2>10 DEF IInv
<1> QED BY <1>6, <1>7

-----------------------------------------------------------------------------
(* The theorems.                                                            *)

\* Every step keeps the inductive invariant.
LEMMA StepIInv == ASSUME RoomsAssumption, IInv, [Next]_vars PROVE IInv'
<1>1. CASE UNCHANGED vars
  BY <1>1 DEF vars, IInv, TypeOK, Targets, DistinctRooms, FreshRequests, RoomsIndexed,
              OneSeat, SeatIndexed, UnseatedWhileMoving
<1>2. CASE MainStep
  BY <1>2, UpdateStep, PcStepMain, EventStep, OrphanStep DEF MainStep
<1>3. CASE Elapse
  BY <1>3, OrphanStep
<1>4. CASE \E c \in Client : ClientStep(c)
  <2>1. PICK c \in Client : ClientStep(c)
    BY <1>4
  <2> QED BY <2>1, PcStep, ChooseCreateStep, TakeStep, PushStep, ReindexStep, JoinedStep
          DEF ClientStep, BrowserStep, ThreadStep
<1> QED BY <1>1, <1>2, <1>3, <1>4 DEF Next

LEMMA Inductive == Spec => []IInv
<1>1. Init => IInv
  BY InitIInv, RoomsAssumption
<1>2. IInv /\ [Next]_vars => IInv'
  BY StepIInv, RoomsAssumption
<1> QED BY <1>1, <1>2, PTL DEF Spec

\* Every variable keeps to the values the code can give it.
THEOREM TypeCorrect == Spec => []TypeOK
BY Inductive, PTL DEF IInv

\* No connection is ever seated twice, in two rooms or in one, whatever moves,
\* closes, forced removals and frames of the main thread interleave.
THEOREM SeatedAtMostOnce == Spec => []OneSeat
BY Inductive, PTL DEF IInv

\* The maps, although never cleared, lead to every room and to every seated player
\* that is not in the middle of its own move.
THEOREM MapsAreRight == Spec => []MapsLead
BY Inductive, PTL DEF IInv, MapsLead

\* Only the main thread's update and its room creation change which rooms there are.
LEMMA IdsStay ==
    ASSUME RoomsAssumption, IInv,
           MainOrphans \/ Elapse \/ \E c \in Client : ClientStep(c)
    PROVE  /\ Len(values') = Len(values)
           /\ \A i \in 1..Len(values) : values'[i].id = values[i].id
<1>1. /\ values \in Seq(RoomType) /\ Len(values) \in Nat
      /\ \A i \in 1..Len(values) : values[i] \in RoomType
  BY DEF IInv, TypeOK
<1>2. CASE MainOrphans
  <2> DEFINE cleaned(i) == [values[i] EXCEPT
               !.seats = [c \in Client |-> IF c \in listed THEN @[c] ELSE 0]]
  <2>1. values' = [i \in 1..Len(values) |-> cleaned(i)]
    BY <1>2 DEF MainOrphans
  <2>2. \A i \in 1..Len(values) : cleaned(i).id = values[i].id
    BY <1>1 DEF RoomType
  <2> HIDE DEF cleaned
  <2> QED BY <1>1, <2>1, <2>2
<1>3. CASE Elapse
  <2> DEFINE older(i) == [values[i] EXCEPT !.mark = IF @ \in 0..CleanupTimeout THEN @ + 1 ELSE @]
  <2>1. values' = [i \in 1..Len(values) |-> older(i)]
    BY <1>3 DEF Elapse
  <2>2. \A i \in 1..Len(values) : older(i).id = values[i].id
    BY <1>1 DEF RoomType
  <2> HIDE DEF older
  <2> QED BY <1>1, <2>1, <2>2
<1>4. ASSUME NEW c \in Client, SwitchRoom(c) \/ CloseRemove(c) \/ ForceRemove(c)
      PROVE  /\ Len(values') = Len(values)
             /\ \A i \in 1..Len(values) : values'[i].id = values[i].id
  <2>1. values' = SeatTaken(c)
    BY <1>4 DEF SwitchRoom, CloseRemove, ForceRemove
  <2> QED BY <2>1, SeatTakenShrinks
<1>5. ASSUME NEW c \in Client, PushPlayer(c)
      PROVE  /\ Len(values') = Len(values)
             /\ \A i \in 1..Len(values) : values'[i].id = values[i].id
  <2> DEFINE k == index.room[target[c]]
  <2>1. CASE InVector(k)
    <3>1. values' = [values EXCEPT ![k].seats[c] = @ + 1] /\ k \in 1..Len(values)
      BY <1>5, <2>1 DEF PushPlayer, InVector
    <3> QED BY <1>1, <3>1 DEF RoomType
  <2>2. CASE ~InVector(k)
    BY <1>5, <2>2 DEF PushPlayer
  <2> QED BY <2>1, <2>2
<1>6. ASSUME NEW c \in Client, ClientStep(c),
             ~(SwitchRoom(c) \/ CloseRemove(c) \/ ForceRemove(c) \/ PushPlayer(c))
      PROVE  UNCHANGED values
  BY <1>6 DEF ClientStep, BrowserStep, ThreadStep, Connect, ChooseListed, ChooseCreate,
        RoomAppeared, WaitTimedOut, AnotherSwitch, EndDrain, LoopTop, CloseUnlist,
        ForceUnlist, ReindexAfterPush, RoomJoined
<1> QED BY <1>2, <1>3, <1>4, <1>5, <1>6

\* A step that drops a room drops one nobody is in.
LEMMA StepKeepsPlayed ==
    ASSUME RoomsAssumption, IInv, [Next]_vars
    PROVE  \A k \in 1..Len(values) : ~Empty(values[k]) =>
              \E j \in 1..Len(values') : values'[j].id = values[k].id
<1>1. CASE UNCHANGED values
  BY <1>1
<1>2. CASE MainUpdate
  <2>1. PICK n \in Nat : \E f \in [1..n -> 1..Len(values)] :
             /\ Len(values') = n
             /\ \A i \in 1..n : values'[i].id = values[f[i]].id
             /\ \A k \in 1..Len(values) : ~Empty(values[k]) => \E i \in 1..n : f[i] = k
    BY <1>2, UpdateKeeps
  <2>2. PICK f \in [1..n -> 1..Len(values)] :
             /\ Len(values') = n
             /\ \A i \in 1..n : values'[i].id = values[f[i]].id
             /\ \A k \in 1..Len(values) : ~Empty(values[k]) => \E i \in 1..n : f[i] = k
    BY <2>1
  <2> SUFFICES ASSUME NEW k \in 1..Len(values), ~Empty(values[k])
               PROVE  \E j \in 1..Len(values') : values'[j].id = values[k].id
    OBVIOUS
  <2>3. PICK i \in 1..n : f[i] = k
    BY <2>2
  <2> QED BY <2>2, <2>3
<1>3. CASE HandleEvent
  <2>1. \/ UNCHANGED values
        \/ values' = Append(values, NewRoom(Head(events)))
    BY <1>3 DEF HandleEvent
  <2>2. values \in Seq(RoomType)
    BY DEF IInv, TypeOK
  <2>3. ASSUME values' = Append(values, NewRoom(Head(events))), NEW k \in 1..Len(values)
        PROVE  k \in 1..Len(values') /\ values'[k] = values[k]
    BY <2>2, <2>3
  <2> QED BY <1>1, <2>1, <2>3
<1>4. CASE MainOrphans \/ Elapse \/ \E c \in Client : ClientStep(c)
  BY <1>4, IdsStay
<1>5. CASE MainShortcut \/ MainEvents \/ MainToCleanup \/ UNCHANGED vars
  BY <1>1, <1>5 DEF MainShortcut, MainEvents, MainToCleanup, vars
<1> QED BY <1>2, <1>3, <1>4, <1>5 DEF Next, MainStep

\* A room with somebody in it is never dropped, however long it was empty before.
THEOREM NobodyEvicted == Spec => NoEviction
<1>1. IInv /\ [Next]_vars =>
        [\A i \in 1..Len(values) :
           ~Empty(values[i]) => \E j \in 1..Len(values') : values'[j].id = values[i].id]_vars
  BY StepKeepsPlayed, RoomsAssumption
<1> QED BY <1>1, Inductive, PTL DEF Spec, NoEviction
=============================================================================
