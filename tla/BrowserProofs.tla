---------------------------- MODULE BrowserProofs ----------------------------
(***************************************************************************)
(* Proofs about the two things the NetState of a browser does with states: *)
(* it predicts them (Syncer), or replays a recorded game (Replays).        *)
(*                                                                         *)
(* About Syncer, for every set of packets, every length of a frame and     *)
(* every limit.  What the proofs rest on is Aliased: the two worlds of the *)
(* browser are equal as long as they are one object, and then they share   *)
(* the array of queued actions, so that a packet of the player reaches     *)
(* both.  That nothing is invented rests on Truthful besides: what the     *)
(* server reports it has executed, and both worlds of the browser, not     *)
(* only the shown one, hold nothing but what is waited for or on the       *)
(* server.                                                                 *)
(*                                                                         *)
(* About Replays, for every set of contents, arrays of any length, every   *)
(* number of states and every base of the indexes.  What the proofs rest   *)
(* on is BatchIs: the batch of differences between two states turns the    *)
(* one into the other, or is cut (Cut) and fails.  RInv then says that the *)
(* recording is a chain of such batches, whichever state is kept.          *)
(***************************************************************************)
EXTENDS Syncer, Replays, VectorsProofs

\* A count that is cut off at 2.
LEMMA CutOff ==
  ASSUME NEW a \in 0..2, NEW b \in Nat
  PROVE  Least(2, a + b) \in 0..2 /\ a <= Least(2, a + b)
BY DEF Least

\* What an update does to the counts it keeps.
LEMMA RanGrows ==
  ASSUME SyncerAssumption, NEW w \in World
  PROVE  /\ RanAfter(w) \in [Tag -> 0..2]
         /\ \A t \in Tag : w.ran[t] <= RanAfter(w)[t]
<1> DEFINE At(t) == {i \in DOMAIN w.queue : w.queue[i] = t}
<1>1. w.queue \in Seq(Tag) /\ w.ran \in [Tag -> 0..2]
  BY DEF World
<1>2. \A t \in Tag : Cardinality(At(t)) \in Nat
  <2> TAKE t \in Tag
  <2>1. Len(w.queue) \in Nat /\ DOMAIN w.queue = 1..Len(w.queue)
    BY <1>1
  <2>2. IsFiniteSet(1..Len(w.queue))
    <3>1. 1 \in Int /\ Len(w.queue) \in Int
      BY <2>1
    <3> QED BY <3>1, FS_Interval, Zenon
  <2>3. At(t) \in SUBSET (1..Len(w.queue))
    BY <2>1
  <2>4. IsFiniteSet(At(t))
    BY <2>2, <2>3, FS_Subset
  <2> QED BY <2>4, FS_CardinalityType
<1> HIDE DEF At
<1>3. RanAfter(w) = [t \in Tag |-> Least(2, w.ran[t] + Cardinality(At(t)))]
  BY DEF RanAfter, At
<1>4. \A t \in Tag : /\ Least(2, w.ran[t] + Cardinality(At(t))) \in 0..2
                     /\ w.ran[t] <= Least(2, w.ran[t] + Cardinality(At(t)))
  <2> TAKE t \in Tag
  <2>1. w.ran[t] \in 0..2
    BY <1>1
  <2> QED BY <2>1, <1>2, CutOff
<1> QED BY <1>3, <1>4

\* The total of the counts grows with them.
LEMMA TotalGrows ==
  ASSUME SyncerAssumption, NEW r \in [Tag -> 0..2], NEW s \in [Tag -> 0..2],
         \A t \in Tag : r[t] <= s[t]
  PROVE  Total(r) \in Nat /\ Total(s) \in Nat /\ Total(r) <= Total(s)
<1> DEFINE Once(q) == {t \in Tag : q[t] >= 1}
           Twice(q) == {t \in Tag : q[t] = 2}
<1>1. IsFiniteSet(Tag)
  BY DEF SyncerAssumption
<1>2. /\ IsFiniteSet(Once(r)) /\ IsFiniteSet(Once(s))
      /\ IsFiniteSet(Twice(r)) /\ IsFiniteSet(Twice(s))
  BY <1>1, FS_Subset
<1>3. /\ Cardinality(Once(r)) \in Nat /\ Cardinality(Once(s)) \in Nat
      /\ Cardinality(Twice(r)) \in Nat /\ Cardinality(Twice(s)) \in Nat
  BY <1>2, FS_CardinalityType
<1>4. Once(r) \in SUBSET Once(s)
  OBVIOUS
<1>5. Twice(r) \in SUBSET Twice(s)
  OBVIOUS
<1>6. /\ Cardinality(Once(r)) <= Cardinality(Once(s))
      /\ Cardinality(Twice(r)) <= Cardinality(Twice(s))
  BY <1>2, <1>4, <1>5, FS_Subset
<1>7. Total(r) = Cardinality(Once(r)) + Cardinality(Twice(r))
  BY DEF Total
<1>8. Total(s) = Cardinality(Once(s)) + Cardinality(Twice(s))
  BY DEF Total
<1> HIDE DEF Once, Twice
<1> QED BY <1>3, <1>6, <1>7, <1>8

\* A world from its parts.
LEMMA IsWorld ==
  ASSUME NEW i \in 0..MaxGames, NEW n \in Int, NEW r \in 0..(Step - 1), NEW q \in Seq(Tag),
         NEW d \in [Tag -> Nat], NEW x \in [Tag -> 0..2], NEW p \in Nat
  PROVE  [id |-> i, ticks |-> n, acc |-> r, queue |-> q, done |-> d, ran |-> x, pos |-> p]
           \in World
BY DEF World

\* What is processed is forgotten in time, never the other way round.
LEMMA Fades ==
  ASSUME NEW a \in Nat, NEW n \in Nat
  PROVE  Greatest(a - n, 0) \in Nat /\ (Greatest(a - n, 0) > 0 => a > 0)
BY DEF Greatest

\* update_player_actions keeps the type and undoes nothing.
LEMMA RunQueueType ==
  ASSUME SyncerAssumption, NEW w \in World, NEW n \in Nat
  PROVE  /\ RunQueue(w, n) \in World
         /\ RunQueue(w, n).acc = w.acc /\ RunQueue(w, n).ticks = w.ticks
         /\ RunQueue(w, n).id = w.id /\ RunQueue(w, n).queue = <<>>
         /\ RunQueue(w, n).ran = RanAfter(w)
         /\ \A t \in Tag : RunQueue(w, n).done[t] > 0 => t \in Queued(w) \/ w.done[t] > 0
         /\ \A t \in Tag : w.ran[t] <= RunQueue(w, n).ran[t]
<1>1. /\ w.ran \in [Tag -> 0..2] /\ w.pos \in Nat /\ w.done \in [Tag -> Nat]
      /\ w.id \in 0..MaxGames /\ w.ticks \in Int /\ w.acc \in 0..(Step - 1)
      /\ w.queue \in Seq(Tag)
  BY DEF World
<1>2. /\ RanAfter(w) \in [Tag -> 0..2]
      /\ \A t \in Tag : w.ran[t] <= RanAfter(w)[t]
  BY RanGrows
<1>3. /\ Total(w.ran) \in Nat /\ Total(RanAfter(w)) \in Nat
      /\ Total(w.ran) <= Total(RanAfter(w))
  BY <1>1, <1>2, TotalGrows
<1>4. Hop \in Nat /\ ShareLife \in Nat
  BY DEF SyncerAssumption
<1> DEFINE moved == Hop * (Total(RanAfter(w)) - Total(w.ran))
           done == [t \in Tag |-> IF t \in Queued(w) THEN ShareLife
                                  ELSE Greatest(w.done[t] - n, 0)]
<1>5. moved \in Nat
  <2>1. Total(RanAfter(w)) - Total(w.ran) \in Nat
    BY <1>3
  <2> QED BY <2>1, <1>4
<1>6. done \in [Tag -> Nat]
  <2>1. \A t \in Tag : w.done[t] \in Nat /\ Greatest(w.done[t] - n, 0) \in Nat
    <3> TAKE t \in Tag
    <3>1. w.done[t] \in Nat
      BY <1>1
    <3> QED BY <3>1, Fades
  <2> QED BY <1>4, <2>1
<1>7. RunQueue(w, n) = [id |-> w.id, ticks |-> w.ticks, acc |-> w.acc, queue |-> <<>>,
                        done |-> done, ran |-> RanAfter(w), pos |-> w.pos + moved]
  <2> DEFINE a == [w EXCEPT !.queue = <<>>]
             b == [a EXCEPT !.done = done]
             c == [b EXCEPT !.ran = RanAfter(w)]
  <2>1. w = [id |-> w.id, ticks |-> w.ticks, acc |-> w.acc, queue |-> w.queue,
             done |-> w.done, ran |-> w.ran, pos |-> w.pos]
    BY DEF World
  <2>2. a = [id |-> w.id, ticks |-> w.ticks, acc |-> w.acc, queue |-> <<>>,
             done |-> w.done, ran |-> w.ran, pos |-> w.pos]
    BY <2>1
  <2>3. b = [id |-> w.id, ticks |-> w.ticks, acc |-> w.acc, queue |-> <<>>,
             done |-> done, ran |-> w.ran, pos |-> w.pos]
    <3> HIDE DEF a, done
    <3> QED BY <2>2
  <2>4. c = [id |-> w.id, ticks |-> w.ticks, acc |-> w.acc, queue |-> <<>>,
             done |-> done, ran |-> RanAfter(w), pos |-> w.pos]
    <3> HIDE DEF a, b, done
    <3> QED BY <2>3
  <2>5. RunQueue(w, n) = [c EXCEPT !.pos = w.pos + moved]
    BY Zenon DEF RunQueue
  <2> HIDE DEF a, b, c, done, moved
  <2> QED BY <2>4, <2>5
<1>10. \A t \in Tag : done[t] > 0 => t \in Queued(w) \/ w.done[t] > 0
  <2> TAKE t \in Tag
  <2>0. w.done[t] \in Nat
    BY <1>1
  <2>1. w.done[t] \in Nat /\ (Greatest(w.done[t] - n, 0) > 0 => w.done[t] > 0)
    BY <2>0, Fades
  <2>2. done[t] = IF t \in Queued(w) THEN ShareLife ELSE Greatest(w.done[t] - n, 0)
    OBVIOUS
  <2> QED BY <2>1, <2>2
<1> HIDE DEF moved, done
<1>8. w.pos + moved \in Nat
  <2>1. w.pos \in Nat
    BY <1>1
  <2> QED BY <2>1, <1>5
<1>9. <<>> \in Seq(Tag)
  OBVIOUS
<1> QED BY <1>1, <1>2, <1>6, <1>7, <1>8, <1>9, <1>10 DEF World

\* What a world holds of the packets.
Packets(w) == <<w.id, w.queue, w.done, w.ran>>

\* update_world leaves less than an interval over and undoes nothing; it executes the
\* queue, unless there is no interval to simulate.
LEMMA UpdateType ==
  ASSUME SyncerAssumption, NEW w \in World, NEW e \in Nat, NEW force \in BOOLEAN
  PROVE  /\ Update(w, e, force) \in World
         /\ \A t \in Tag : w.ran[t] <= Update(w, e, force).ran[t]
         /\ \/ \E n \in Nat : Packets(Update(w, e, force)) = Packets(RunQueue(w, n))
            \/ e < Step /\ Packets(Update(w, e, force)) = Packets(w)
<1> DEFINE total == w.acc + e
           ticks == IF force THEN total ELSE Step * (total \div Step)
           ran   == IF ticks = 0 /\ ~force THEN w ELSE RunQueue(w, ticks)
<1>1. w.acc \in 0..(Step - 1) /\ w.ran \in [Tag -> 0..2]
  BY DEF World
<1>2. total \in Nat
  BY <1>1 DEF Step
<1>3. ticks \in Nat /\ total - ticks \in 0..(Step - 1)
  BY <1>2 DEF Step
<1>4. ran \in World /\ \A t \in Tag : w.ran[t] <= ran.ran[t]
  <2>1. CASE ticks = 0 /\ ~force
    BY <2>1, <1>1
  <2>2. CASE ~(ticks = 0 /\ ~force)
    BY <2>2, <1>3, RunQueueType
  <2> QED BY <2>1, <2>2
<1>11. \/ \E n \in Nat : ran = RunQueue(w, n)
       \/ e < Step /\ ran = w
  <2>1. CASE ticks = 0 /\ ~force
    <3>1. e < Step
      BY <2>1, <1>1 DEF Step
    <3> QED BY <2>1, <3>1
  <2>2. CASE ~(ticks = 0 /\ ~force)
    BY <2>2, <1>3
  <2> QED BY <2>1, <2>2
<1>5. Update(w, e, force) = [ran EXCEPT !.ticks = @ + ticks, !.acc = total - ticks]
  BY DEF Update
<1> HIDE DEF total, ticks, ran
<1>6. Update(w, e, force) = [id |-> ran.id, ticks |-> ran.ticks + ticks, acc |-> total - ticks,
                             queue |-> ran.queue, done |-> ran.done, ran |-> ran.ran,
                             pos |-> ran.pos]
  <2> DEFINE a == [ran EXCEPT !.ticks = @ + ticks]
  <2>0. ran = [id |-> ran.id, ticks |-> ran.ticks, acc |-> ran.acc,
               queue |-> ran.queue, done |-> ran.done, ran |-> ran.ran, pos |-> ran.pos]
    BY <1>4 DEF World
  <2>1. a = [id |-> ran.id, ticks |-> ran.ticks + ticks, acc |-> ran.acc,
             queue |-> ran.queue, done |-> ran.done, ran |-> ran.ran, pos |-> ran.pos]
    BY <2>0
  <2>2. Update(w, e, force) = [a EXCEPT !.acc = total - ticks]
    BY <1>5, Zenon
  <2> HIDE DEF a
  <2> QED BY <2>1, <2>2
<1>7. /\ ran.id \in 0..MaxGames /\ ran.ticks \in Int /\ ran.queue \in Seq(Tag)
      /\ ran.done \in [Tag -> Nat] /\ ran.ran \in [Tag -> 0..2] /\ ran.pos \in Nat
  BY <1>4 DEF World
<1>8. ran.ticks + ticks \in Int
  BY <1>3, <1>7
<1>9. Update(w, e, force) \in World
  <2> DEFINE n == ran.ticks + ticks
             r == total - ticks
  <2>1. n \in Int /\ r \in 0..(Step - 1)
    BY <1>3, <1>8
  <2>2. Update(w, e, force) = [id |-> ran.id, ticks |-> n, acc |-> r, queue |-> ran.queue,
                               done |-> ran.done, ran |-> ran.ran, pos |-> ran.pos]
    BY <1>6
  <2> HIDE DEF n, r
  <2>3. [id |-> ran.id, ticks |-> n, acc |-> r, queue |-> ran.queue,
         done |-> ran.done, ran |-> ran.ran, pos |-> ran.pos] \in World
    <3>1. /\ ran.id \in 0..MaxGames /\ ran.queue \in Seq(Tag) /\ ran.done \in [Tag -> Nat]
          /\ ran.ran \in [Tag -> 0..2] /\ ran.pos \in Nat
      BY <1>7
    <3> QED BY <3>1, <2>1, IsWorld, Zenon
  <2> QED BY <2>2, <2>3, Zenon
<1>10. Update(w, e, force).ran = ran.ran /\ Packets(Update(w, e, force)) = Packets(ran)
  BY <1>6 DEF Packets
<1> QED BY <1>4, <1>9, <1>10, <1>11

-----------------------------------------------------------------------------
(***************************************************************************)
(* The other operations on a world                                         *)
(***************************************************************************)

\* optimizeStateForWasmCall hides what is processed, and nothing else.
LEMMA HiddenType ==
  ASSUME NEW w \in World
  PROVE  /\ Hidden(w) \in World /\ Hidden(w).ran = w.ran
         /\ Hidden(w).id = w.id /\ Hidden(w).queue = w.queue
<1> DEFINE none == [t \in Tag |-> 0]
<1>1. none \in [Tag -> Nat]
  OBVIOUS
<1>2. Hidden(w) = [w EXCEPT !.done = none]
  BY Zenon DEF Hidden
<1> HIDE DEF none
<1> QED BY <1>1, <1>2 DEF World

\* The server makes a step, and a world gets older.
LEMMA OlderType ==
  ASSUME NEW w \in World
  PROVE  Older(w) \in World
BY DEF Older, World, Step

\* A world at another time.
LEMMA TimedType ==
  ASSUME NEW w \in World, NEW n \in Int
  PROVE  [w EXCEPT !.ticks = n] \in World
BY DEF World, Step

\* A packet, or two, at the end of the queue.
LEMMA PushedType ==
  ASSUME NEW w \in World, NEW t \in Tag, NEW twice \in BOOLEAN
  PROVE  Pushed(w, t, twice) \in World
<1> DEFINE queue == w.queue \o IF twice THEN <<t, t>> ELSE <<t>>
<1>1. w.queue \in Seq(Tag)
  BY DEF World
<1>2. queue \in Seq(Tag)
  BY <1>1
<1>3. Pushed(w, t, twice) = [w EXCEPT !.queue = queue]
  BY Zenon DEF Pushed
<1> HIDE DEF queue
<1> QED BY <1>2, <1>3 DEF World

\* What is broadcast is a world.
LEMMA PatchedType ==
  ASSUME NEW w \in World
  PROVE  Patched(w) \in World
<1> DEFINE done == [t \in Tag |-> IF t \in orphaned THEN 0 ELSE w.done[t]]
           a == [w EXCEPT !.queue = <<>>]
<1>1. w.done \in [Tag -> Nat]
  BY DEF World
<1>2. done \in [Tag -> Nat]
  BY <1>1
<1>3. a \in World
  <2>1. <<>> \in Seq(Tag)
    OBVIOUS
  <2>2. \A q \in Seq(Tag) : [w EXCEPT !.queue = q] \in World
    BY DEF World
  <2> QED BY <2>1, <2>2
<1>4. Patched(w) = [a EXCEPT !.done = done]
  BY Zenon DEF Patched
<1> HIDE DEF done, a
<1> QED BY <1>2, <1>3, <1>4 DEF World

\* The elements of a finite set in some order.
LEMMA AnyOrder ==
  ASSUME NEW S, NEW T \in SUBSET S, IsFiniteSet(S)
  PROVE  SetToSeq(T) \in Seq(S)
<1>1. IsFiniteSet(T)
  BY FS_Subset
<1>2. Cardinality(T) \in Nat /\ ExistsBijection(1..Cardinality(T), T)
  BY <1>1, FS_CardinalityType
<1>3. \E f \in [1..Cardinality(T) -> T] : IsInjective(f)
  BY <1>2 DEF ExistsBijection, Bijection, Injection, IsInjective
<1>4. SetToSeq(T) \in [1..Cardinality(T) -> T]
  BY <1>3 DEF SetToSeq
<1> QED BY <1>2, <1>4

\* What the client keeps of its own world and what it takes of the true one.
LEMMA OverriddenType ==
  ASSUME NEW cur \in World, NEW true \in World
  PROVE  /\ Overridden(cur, true) \in World /\ Overridden(cur, true).ran = true.ran
         /\ Packets(Overridden(cur, true)) = Packets(true)
<1> DEFINE over == [id |-> true.id, ticks |-> cur.ticks, acc |-> cur.acc, queue |-> true.queue,
                    done |-> true.done, ran |-> true.ran, pos |-> cur.pos]
           Keys == {"id", "ticks", "acc", "queue", "done", "ran", "pos"}
<1>1. /\ true = [k \in Keys |-> true[k]]
      /\ DOMAIN true = Keys
  BY DEF World
<1>2. over = [k \in Keys |-> over[k]]
  OBVIOUS
<1>3. \A k \in Keys : over[k] = IF k \in ClientKeys THEN cur[k] ELSE true[k]
  BY DEF ClientKeys
<1>4. Overridden(cur, true) = [k \in Keys |-> IF k \in ClientKeys THEN cur[k] ELSE true[k]]
  BY <1>1, Zenon DEF Overridden
<1>5. over \in World /\ over.ran = true.ran /\ Packets(over) = Packets(true)
  BY DEF World, Packets
<1> HIDE DEF over, Keys
<1>6. Overridden(cur, true) = over
  BY <1>2, <1>3, <1>4
<1> QED BY <1>5, <1>6

\* A ship elsewhere.
LEMMA MovedType ==
  ASSUME NEW w \in World, NEW p \in Nat
  PROVE  /\ [w EXCEPT !.pos = p] \in World /\ [w EXCEPT !.pos = p].ran = w.ran
         /\ Packets([w EXCEPT !.pos = p]) = Packets(w)
BY DEF World, Packets

\* A correction stays between where the ship is and where it should be.
LEMMA CorrectionShifts ==
  ASSUME SyncerAssumption, NEW cur \in World, NEW true \in World, NEW e \in Frames,
         NEW shift, shift \in Shifts(Gap(cur, true), e) \/ shift = Gap(cur, true)
  PROVE  /\ shift \in Nat /\ shift <= Gap(cur, true)
         /\ IF cur.pos < true.pos THEN cur.pos + shift \in Nat ELSE cur.pos - shift \in Nat
<1>1. cur.pos \in Nat /\ true.pos \in Nat
  BY DEF World
<1>2. e \in Nat /\ MaxJump \in Nat
  BY DEF SyncerAssumption
<1>3. Passed(e) \in Nat
  BY <1>2 DEF Passed
<1>4. /\ Gap(cur, true) \in Nat
      /\ Gap(cur, true) = IF cur.pos < true.pos THEN true.pos - cur.pos ELSE cur.pos - true.pos
  BY <1>1 DEF Gap, Greatest
<1>5. shift \in Nat /\ shift <= Gap(cur, true)
  BY <1>3, <1>4 DEF Shifts
<1> QED BY <1>1, <1>4, <1>5

\* A correction moves the ship and nothing else.
LEMMA CorrectionsType ==
  ASSUME SyncerAssumption, NEW cur \in World, NEW true \in World, NEW e \in Frames,
         NEW visible \in BOOLEAN, NEW drawn \in Corrections(cur, true, e, visible)
  PROVE  /\ drawn \in World
         /\ drawn.ran = cur.ran
         /\ Packets(drawn) = Packets(cur)
<1>1. CASE drawn = cur
  BY <1>1
<1>2. CASE drawn # cur
  <2>1. drawn \in {Towards(cur, true, shift) :
                     shift \in IF visible THEN Shifts(Gap(cur, true), e) ELSE {Gap(cur, true)}}
    BY <1>2, Zenon DEF Corrections
  <2>2. PICK shift : /\ drawn = Towards(cur, true, shift)
                     /\ shift \in Shifts(Gap(cur, true), e) \/ shift = Gap(cur, true)
    BY <2>1
  <2> DEFINE to == IF cur.pos < true.pos THEN cur.pos + shift ELSE cur.pos - shift
  <2>3. to \in Nat
    BY <2>2, CorrectionShifts
  <2>4. drawn = [cur EXCEPT !.pos = to]
    BY <2>2, Zenon DEF Towards
  <2> HIDE DEF to
  <2> QED BY <2>3, <2>4, MovedType
<1> QED BY <1>1, <1>2

\* The packets a rebase adds to the queue of the true world.
LEMMA RebasedType ==
  ASSUME SyncerAssumption, trueState \in World, pending \subseteq [tag : Tag, at : Int],
         NEW e
  PROVE  Rebased(e) \in World /\ Rebased(e).ran = trueState.ran
<1> DEFINE missing == {p \in pending : trueState.done[p.tag] = 0 /\ p.at <= trueState.ticks + e}
           queue == trueState.queue \o SetToSeq({p.tag : p \in missing})
<1>1. {p.tag : p \in missing} \in SUBSET Tag
  OBVIOUS
<1>2. SetToSeq({p.tag : p \in missing}) \in Seq(Tag)
  BY <1>1, AnyOrder DEF SyncerAssumption
<1> HIDE DEF missing
<1>3. trueState.queue \in Seq(Tag)
  BY DEF World
<1>4. queue \in Seq(Tag)
  BY <1>2, <1>3
<1>5. Rebased(e) = [trueState EXCEPT !.queue = queue]
  BY Zenon DEF Rebased, missing
<1>6. \A q \in Seq(Tag) : /\ [trueState EXCEPT !.queue = q] \in World
                          /\ [trueState EXCEPT !.queue = q].ran = trueState.ran
  BY DEF World
<1> HIDE DEF queue
<1> QED BY <1>4, <1>5, <1>6

\* Frames as the browser takes them are never negative.
LEMMA FrameLengths ==
  ASSUME SyncerAssumption, NEW e \in Frames, NEW w
  PROVE  Slowed(e) \in Nat /\ Compensated(w, e) \in Nat /\ Compensated(w, Slowed(e)) \in Nat
<1>1. e \in Nat /\ Overcompensation \in Nat
  BY DEF SyncerAssumption
<1>2. Slowed(e) \in Nat
  BY <1>1 DEF Slowed
<1> QED BY <1>1, <1>2 DEF Compensated

-----------------------------------------------------------------------------
(***************************************************************************)
(* The inductive invariant                                                 *)
(***************************************************************************)

\* One object has one content, and with it one array of queued actions.  Without it
\* a packet could reach the shown world and not the true one that a frame puts in
\* its place.
Aliased == same => shared /\ state = trueState

IInv == TypeOK /\ CacheFresh /\ Aliased

LEMMA InitIInv == SyncerAssumption /\ Init => IInv
<1> SUFFICES ASSUME SyncerAssumption, Init PROVE IInv
  OBVIOUS
<1>1. NewWorld(0) \in World
  <2>1. 0 \in 0..MaxGames /\ <<>> \in Seq(Tag) /\ 0 \in 0..(Step - 1)
    BY DEF SyncerAssumption, Step
  <2>2. [t \in Tag |-> 0] \in [Tag -> Nat] /\ [t \in Tag |-> 0] \in [Tag -> 0..2]
    OBVIOUS
  <2>3. 0 \in Int /\ 0 \in Nat
    OBVIOUS
  <2> QED BY <2>1, <2>2, <2>3, IsWorld, Zenon DEF NewWorld
<1>2. TypeOK
  <2>1. <<>> \in Seq(Tag) /\ <<>> \in Seq(World)
    OBVIOUS
  <2> QED BY <1>1, <2>1 DEF Init, TypeOK
<1> QED BY <1>2 DEF Init, IInv, CacheFresh, Aliased

\* The parts of the type invariant, one by one.
LEMMA Types ==
  ASSUME TypeOK
  PROVE  /\ srv \in World /\ state \in World /\ trueState \in World /\ cache \in World
         /\ up \in Seq(Tag) /\ down \in Seq(World)
         /\ unused \subseteq Tag /\ orphaned \subseteq Tag
         /\ same \in BOOLEAN /\ shared \in BOOLEAN /\ useCache \in BOOLEAN
         /\ pending \subseteq [tag : Tag, at : Int]
BY DEF TypeOK

\* An empty world, at the beginning and after a restart.
LEMMA NewWorldType ==
  ASSUME SyncerAssumption, NEW i \in 0..MaxGames
  PROVE  NewWorld(i) \in World
<1>1. <<>> \in Seq(Tag) /\ 0 \in 0..(Step - 1)
  BY DEF Step
<1>2. [t \in Tag |-> 0] \in [Tag -> Nat] /\ [t \in Tag |-> 0] \in [Tag -> 0..2]
  OBVIOUS
<1>3. 0 \in Int /\ 0 \in Nat
  OBVIOUS
<1> QED BY <1>1, <1>2, <1>3, IsWorld, Zenon DEF NewWorld

\* Whether it is kept or not, the cache of the WebAssembly module is a world.
LEMMA CachedType ==
  ASSUME SyncerAssumption, NEW w \in World
  PROVE  Cached(w) \in World
<1>1. 0 \in 0..MaxGames
  BY DEF SyncerAssumption
<1> QED BY <1>1, NewWorldType DEF Cached

\* The server makes a step: everything gets older together, the cache with the
\* world on the screen.
LEMMA ServerUpdateIInv ==
  ASSUME SyncerAssumption, IInv, ServerUpdate
  PROVE  IInv'
<1> USE DEF IInv
<1>1. srv' \in World
  <2> DEFINE u == Update(srv, Step, FALSE)
  <2>1. u \in World
    <3>1. Step \in Nat /\ FALSE \in BOOLEAN
      BY DEF Step
    <3> QED BY <3>1, Types, UpdateType, Zenon
  <2>2. srv' = [u EXCEPT !.ticks = 0]
    BY Zenon DEF ServerUpdate
  <2> HIDE DEF u
  <2>3. [u EXCEPT !.ticks = 0] \in World
    BY <2>1, TimedType
  <2> QED BY <2>2, <2>3
<1>2. state' \in World /\ trueState' \in World /\ cache' \in World
  BY Types, OlderType DEF ServerUpdate
<1>3. down' \in Seq(World)
  <2>1. down \in Seq(World)
    BY Types
  <2>2. /\ Len(down) \in Nat /\ DOMAIN down = 1..Len(down)
        /\ \A i \in 1..Len(down) : down[i] \in World
    BY <2>1
  <2>3. \A i \in 1..Len(down) : Older(down[i]) \in World
    BY <2>2, OlderType
  <2>4. down' = [i \in 1..Len(down) |-> Older(down[i])]
    BY <2>2 DEF ServerUpdate
  <2> QED BY <2>2, <2>3, <2>4
<1>4. pending' \subseteq [tag : Tag, at : Int]
  <2> DEFINE to(p) == Greatest(p.at - Step, -(Lag + Step + PendingLife))
  <2>1. \A p \in pending : p \in [tag : Tag, at : Int] /\ p.at \in Int
    BY Types
  <2>2. -(Lag + Step + PendingLife) \in Int
    BY DEF SyncerAssumption, Step
  <2>3. \A p \in pending : to(p) \in Int
    BY <2>1, <2>2 DEF Greatest, Step
  <2>4. pending' = {[p EXCEPT !.at = to(p)] : p \in pending}
    BY Zenon DEF ServerUpdate
  <2> HIDE DEF to
  <2>5. \A p \in pending : [p EXCEPT !.at = to(p)] \in [tag : Tag, at : Int]
    BY <2>1, <2>3
  <2> QED BY <2>4, <2>5
<1>5. TypeOK'
  BY <1>1, <1>2, <1>3, <1>4, Types DEF TypeOK, ServerUpdate
<1>6. CacheFresh'
  BY DEF CacheFresh, ServerUpdate
<1>7. Aliased'
  BY DEF Aliased, ServerUpdate
<1> QED BY <1>5, <1>6, <1>7

\* What the server and the net do besides leaves the browser alone.
LEMMA ServerSideIInv ==
  ASSUME SyncerAssumption, IInv, Schedule \/ Broadcast \/ Others \/ ShipGone \/ Restart
  PROVE  IInv'
<1> USE DEF IInv
<1>1. UNCHANGED browser
  BY DEF Schedule, Broadcast, Others, ShipGone, Restart
<1>2. CacheFresh' /\ Aliased'
  BY <1>1 DEF browser, CacheFresh, Aliased
<1>3. CASE Schedule
  <2>1. up' \in Seq(Tag) /\ Head(up) \in Tag
    BY <1>3, Types DEF Schedule
  <2>2. srv.queue \in Seq(Tag)
    BY Types DEF World
  <2>3. Append(srv.queue, Head(up)) \in Seq(Tag)
    BY <2>1, <2>2
  <2>4. \A q \in Seq(Tag) : [srv EXCEPT !.queue = q] \in World
    BY Types DEF World
  <2>5. srv' = [srv EXCEPT !.queue = Append(srv.queue, Head(up))]
    BY <1>3, Zenon DEF Schedule
  <2>6. srv' \in World
    BY <2>3, <2>4, <2>5
  <2>7. TypeOK'
    BY <1>3, <2>1, <2>6, Types DEF Schedule, browser, TypeOK
  <2> QED BY <1>2, <2>7
<1>4. CASE Broadcast
  <2>1. Patched(srv) \in World
    BY Types, PatchedType
  <2>2. down' \in Seq(World)
    BY <1>4, <2>1, Types DEF Broadcast
  <2>3. TypeOK'
    BY <1>4, <2>2, Types DEF Broadcast, browser, server, TypeOK
  <2> QED BY <1>2, <2>3
<1>5. CASE Others
  <2>1. srv \in World /\ srv.pos \in Nat /\ Hop \in Nat
    BY Types DEF World, SyncerAssumption
  <2>2. srv.pos + Hop \in Nat
    BY <2>1
  <2>3. srv' = [srv EXCEPT !.pos = srv.pos + Hop]
    BY <1>5, Zenon DEF Others
  <2>4. srv' \in World
    BY <2>1, <2>2, <2>3, MovedType
  <2>5. TypeOK'
    BY <1>5, <2>4, Types DEF Others, browser, net, TypeOK
  <2> QED BY <1>2, <2>5
<1>6. CASE ShipGone
  <2>1. TypeOK'
    BY <1>6, Types DEF ShipGone, browser, net, TypeOK
  <2> QED BY <1>2, <2>1
<1>7. CASE Restart
  <2>1. srv.id \in 0..MaxGames
    BY Types DEF World
  <2>2. srv.id + 1 \in 0..MaxGames
    BY <1>7, <2>1 DEF Restart, SyncerAssumption
  <2>3. srv' \in World
    BY <1>7, <2>2, NewWorldType DEF Restart
  <2>4. TypeOK'
    BY <1>7, <2>3, Types DEF Restart, browser, net, TypeOK
  <2> QED BY <1>2, <2>4
<1> QED BY <1>3, <1>4, <1>5, <1>6, <1>7

\* A packet of the player drops the cache; it reaches both worlds if they are one.
LEMMA ActIInv ==
  ASSUME SyncerAssumption, IInv,
         NEW t \in Tag, NEW sent \in BOOLEAN, NEW twice \in BOOLEAN, Act(t, sent, twice)
  PROVE  IInv'
<1> USE DEF IInv
<1>1. state' \in World /\ trueState' \in World
  BY Types, PushedType DEF Act
<1>2. cache' \in World
  BY Types, CachedType DEF Act
<1>3. up' \in Seq(Tag) /\ unused' \subseteq Tag
  BY Types DEF Act, Packed, Sent
<1>4. pending' \subseteq [tag : Tag, at : Int]
  <2>1. state.ticks \in Int
    BY Types DEF World
  <2> QED BY <2>1, Types DEF Act
<1>5. TypeOK'
  BY <1>1, <1>2, <1>3, <1>4, Types DEF TypeOK, Act
<1>6. CacheFresh' /\ Aliased'
  BY DEF CacheFresh, Aliased, Act
<1> QED BY <1>5, <1>6

\* A state of the server becomes the true world; the shown one and its cache stay,
\* or both go.
LEMMA ReceiveIInv ==
  ASSUME SyncerAssumption, IInv, Receive
  PROVE  IInv'
<1> USE DEF IInv
<1>1. down # <<>> /\ down' = Tail(down)
  BY DEF Receive, ReceiveInit, ReceiveState
<1>2. Head(down) \in World /\ down' \in Seq(World)
  BY <1>1, Types
<1>3. UNCHANGED <<server, up>>
  BY DEF Receive, ReceiveInit, ReceiveState
<1>4. /\ state' \in World /\ trueState' \in World
      /\ same' \in BOOLEAN /\ shared' \in BOOLEAN /\ useCache' \in BOOLEAN
      /\ cache' = Cached(cache)
  BY <1>2, Types DEF Receive, ReceiveInit, ReceiveState
<1>5. cache' \in World
  BY <1>4, Types, CachedType
<1>6. pending' \subseteq [tag : Tag, at : Int]
  BY Types DEF Receive, ReceiveInit, ReceiveState
<1>7. TypeOK'
  BY <1>2, <1>3, <1>4, <1>5, <1>6, Types DEF TypeOK, server
<1>8. CacheFresh' /\ Aliased'
  BY DEF CacheFresh, Aliased, Receive, ReceiveInit, ReceiveState, Cached
<1> QED BY <1>7, <1>8

-----------------------------------------------------------------------------
(***************************************************************************)
(* A frame                                                                 *)
(***************************************************************************)

\* The update of the shown world starts from what is on the screen, with the cache
\* or without it, and undoes nothing of it.
LEMMA CurrentType ==
  ASSUME SyncerAssumption, IInv, NEW e \in Frames
  PROVE  /\ Current(Slowed(e)) \in World
         /\ \A t \in Tag : state.ran[t] <= Current(Slowed(e)).ran[t]
<1> DEFINE d == Slowed(e)
           c == Compensated(state, d)
<1>1. d \in Nat /\ c \in Nat /\ (d > LongUpdate) \in BOOLEAN /\ FALSE \in BOOLEAN
  BY FrameLengths
<1> HIDE DEF d, c
<1>2. state \in World /\ cache \in World /\ (useCache => cache = state)
  BY Types DEF IInv, CacheFresh
<1>3. CASE useCache
  <2>1. Current(d) = Update(state, d, d > LongUpdate)
    BY <1>2, <1>3 DEF Current
  <2>2. /\ Update(state, d, d > LongUpdate) \in World
        /\ \A t \in Tag : state.ran[t] <= Update(state, d, d > LongUpdate).ran[t]
    BY <1>1, <1>2, UpdateType, Zenon
  <2> QED BY <2>1, <2>2 DEF d
<1>4. CASE ~useCache
  <2>1. Current(d) = Update(Hidden(state), c, FALSE)
    BY <1>4 DEF Current, c
  <2>2. Hidden(state) \in World /\ Hidden(state).ran = state.ran
    BY <1>2, HiddenType
  <2>3. /\ Update(Hidden(state), c, FALSE) \in World
        /\ \A t \in Tag : Hidden(state).ran[t] <= Update(Hidden(state), c, FALSE).ran[t]
    BY <1>1, <2>2, UpdateType, Zenon
  <2> QED BY <2>1, <2>2, <2>3 DEF d
<1> QED BY <1>3, <1>4

\* The rebase brings the true world up to date and undoes nothing of it.
LEMMA RebaseType ==
  ASSUME SyncerAssumption, IInv, NEW e \in Frames, NEW cur \in World
  PROVE  /\ Rebase(cur, e) \in World
         /\ \A t \in Tag : trueState.ran[t] <= Rebase(cur, e).ran[t]
<1> DEFINE c == Compensated(cur, e)
           w == Hidden(Rebased(e))
<1>1. c \in Nat /\ FALSE \in BOOLEAN
  BY FrameLengths
<1>2. Rebased(e) \in World /\ Rebased(e).ran = trueState.ran
  BY Types, RebasedType DEF IInv
<1>3. w \in World /\ w.ran = trueState.ran
  BY <1>2, HiddenType
<1>4. Rebase(cur, e) = Update(w, c, FALSE)
  BY Zenon DEF Rebase
<1> HIDE DEF c, w
<1>5. /\ Update(w, c, FALSE) \in World
      /\ \A t \in Tag : w.ran[t] <= Update(w, c, FALSE).ran[t]
  BY <1>1, <1>3, UpdateType, Zenon
<1> QED BY <1>3, <1>4, <1>5

\* A frame leaves one world of one object, or two that agree where the browser would
\* not look: type and aliasing are kept, and the flag of the cache is up only for a
\* cache that was made from the shown world in the same step.
LEMMA FrameIInv ==
  ASSUME SyncerAssumption, IInv, Frame
  PROVE  IInv'
<1>1. PICK e \in Frames, visible \in BOOLEAN :
        /\ FrameInSync(e) \/ FrameDesynced(e, visible) \/ FrameTooLong(e)
        /\ UNCHANGED <<server, net>>
  BY DEF Frame
<1>2. TypeOK
  BY DEF IInv
<1>3. SUFFICES /\ state' \in World /\ trueState' \in World /\ cache' \in World
               /\ same' \in BOOLEAN /\ shared' \in BOOLEAN /\ useCache' \in BOOLEAN
               /\ UNCHANGED pending
               /\ CacheFresh' /\ Aliased'
  BY <1>1, <1>2, Types DEF IInv, TypeOK, server, net
<1>4. CASE FrameInSync(e)
  <2>1. state' = Current(Slowed(e)) /\ trueState' = Current(Slowed(e))
    BY <1>4 DEF FrameInSync
  <2>2. state' \in World /\ trueState' \in World
    BY <2>1, CurrentType
  <2>3. useCache' = TRUE /\ cache' = state' /\ same' = TRUE /\ shared' = TRUE
    BY <1>4 DEF FrameInSync, Cached
  <2> QED BY <1>4, <2>1, <2>2, <2>3 DEF FrameInSync, CacheFresh, Aliased
<1>5. CASE FrameDesynced(e, visible)
  <2>1. PICK cur \in {Current(Slowed(e))} : \E true \in {Rebase(cur, e)} :
          \E drawn \in Corrections(Overridden(cur, true), true, e, visible) :
            /\ state' = drawn /\ same' = ~Violates(drawn, true, e)
            /\ trueState' = IF same' THEN drawn ELSE true
    BY <1>5 DEF FrameDesynced
  <2>2. PICK true \in {Rebase(cur, e)} :
          \E drawn \in Corrections(Overridden(cur, true), true, e, visible) :
            /\ state' = drawn /\ same' = ~Violates(drawn, true, e)
            /\ trueState' = IF same' THEN drawn ELSE true
    BY <2>1
  <2>3. cur \in World /\ true \in World
    BY <2>1, <2>2, CurrentType, RebaseType
  <2>4. \A drawn \in Corrections(Overridden(cur, true), true, e, visible) : drawn \in World
    BY <2>3, OverriddenType, CorrectionsType
  <2>5. state' \in World /\ trueState' \in World /\ same' \in BOOLEAN
    BY <2>2, <2>3, <2>4
  <2>6. same' => state' = trueState'
    BY <2>2
  <2>7. cache' \in World
    BY <1>2, <1>5, Types, CachedType DEF FrameDesynced
  <2> QED BY <1>5, <2>5, <2>6, <2>7 DEF FrameDesynced, CacheFresh, Aliased
<1>6. CASE FrameTooLong(e)
  <2>1. state' \in World
    BY <1>2, <1>6, Types, RebasedType DEF FrameTooLong
  <2>2. cache' \in World
    BY <1>2, <1>6, Types, CachedType DEF FrameTooLong
  <2> QED BY <1>6, <2>1, <2>2 DEF FrameTooLong, CacheFresh, Aliased
<1> QED BY <1>1, <1>4, <1>5, <1>6

\* A frame shows all that the true world has executed.
LEMMA FrameShows ==
  ASSUME SyncerAssumption, IInv, Frame
  PROVE  \A t \in Tag : trueState.ran[t] <= state'.ran[t]
<1>1. PICK e \in Frames, visible \in BOOLEAN :
        FrameInSync(e) \/ FrameDesynced(e, visible) \/ FrameTooLong(e)
  BY DEF Frame
<1>2. trueState \in World /\ trueState.ran \in [Tag -> 0..2]
  BY Types DEF IInv, World
<1>3. CASE FrameInSync(e)
  <2>1. state' = Current(Slowed(e)) /\ state = trueState
    BY <1>3 DEF FrameInSync, IInv, Aliased
  <2> QED BY <2>1, CurrentType
<1>4. CASE FrameDesynced(e, visible)
  <2>1. PICK cur \in {Current(Slowed(e))} : \E true \in {Rebase(cur, e)} :
          state' \in Corrections(Overridden(cur, true), true, e, visible)
    BY <1>4 DEF FrameDesynced
  <2>2. PICK true \in {Rebase(cur, e)} :
          state' \in Corrections(Overridden(cur, true), true, e, visible)
    BY <2>1
  <2>3. cur \in World /\ true \in World /\ \A t \in Tag : trueState.ran[t] <= true.ran[t]
    BY <2>1, <2>2, CurrentType, RebaseType
  <2> DEFINE over == Overridden(cur, true)
  <2>4. over \in World /\ over.ran = true.ran
    BY <2>3, OverriddenType
  <2>5. state' \in Corrections(over, true, e, visible)
    BY <2>2
  <2> HIDE DEF over
  <2>6. state'.ran = over.ran
    BY <2>3, <2>4, <2>5, CorrectionsType
  <2> QED BY <2>3, <2>4, <2>5, <2>6
<1>5. CASE FrameTooLong(e)
  <2>1. state'.ran = trueState.ran
    BY <1>2, <1>5, RebasedType, Types DEF FrameTooLong, IInv
  <2> QED BY <1>2, <2>1
<1> QED BY <1>1, <1>3, <1>4, <1>5

-----------------------------------------------------------------------------
(***************************************************************************)
(* What is shown is real or on its way                                     *)
(***************************************************************************)

\* The packets a world has executed, with those it is about to execute; those the
\* server has or had, and those the browser waits for.
Done(w) == {t \in Tag : w.ran[t] > 0}
Touched(w) == Queued(w) \cup Done(w)
OnServer == ToSet(up) \cup Touched(srv)
Predicted == {p.tag : p \in pending}

\* The worlds of the browser are of one game, and none is of a game to come.
Ids == state.id = trueState.id /\ state.id <= srv.id

\* What the server reports, it has executed: now, ...
Reports(w) == {t \in Tag : w.done[t] > 0}
Honest == Reports(srv) \subseteq Done(srv)

\* ... and in every state on its way to the browser, which has no queue.
Told(w) == /\ w.id <= srv.id /\ w.queue = <<>>
           /\ w.id = srv.id => Done(w) \cup Reports(w) \subseteq Done(srv)
ToldAll == \A i \in DOMAIN down : Told(down[i])

\* Both worlds of the browser, and not only what the shown one has executed: a frame
\* executes their queues, and puts the true one in the place of the other.
Accounted ==
  state.id = srv.id => Touched(state) \cup Touched(trueState) \subseteq Predicted \cup OnServer

Truthful == Ids /\ Honest /\ ToldAll /\ Accounted

\* What is in a sequence that was made longer.
LEMMA InConcat ==
  ASSUME NEW S, NEW T, NEW s \in Seq(S), NEW u \in Seq(T)
  PROVE  ToSet(s \o u) \subseteq ToSet(s) \cup T
<1>1. /\ Len(s) \in Nat /\ DOMAIN s = 1..Len(s)
      /\ Len(u) \in Nat /\ \A i \in 1..Len(u) : u[i] \in T
  OBVIOUS
<1>2. /\ DOMAIN (s \o u) = 1..(Len(s) + Len(u))
      /\ \A i \in 1..(Len(s) + Len(u)) :
            (s \o u)[i] = IF i <= Len(s) THEN s[i] ELSE u[i - Len(s)]
  OBVIOUS
<1>3. ASSUME NEW i \in DOMAIN (s \o u)
      PROVE  (s \o u)[i] \in ToSet(s) \cup T
  <2>1. i \in 1..(Len(s) + Len(u))
    BY <1>1, <1>2
  <2>2. CASE i <= Len(s)
    <3>1. i \in DOMAIN s /\ (s \o u)[i] = s[i]
      BY <1>1, <1>2, <2>1, <2>2
    <3> QED BY <3>1 DEF ToSet
  <2>3. CASE ~(i <= Len(s))
    <3>1. i - Len(s) \in 1..Len(u) /\ (s \o u)[i] = u[i - Len(s)]
      BY <1>1, <1>2, <2>1, <2>3
    <3> QED BY <1>1, <3>1
  <2> QED BY <2>2, <2>3
<1> QED BY <1>3 DEF ToSet

\* A packet has run after an update if it had run or was queued.
LEMMA QueueRuns ==
  ASSUME SyncerAssumption, NEW w \in World
  PROVE  {t \in Tag : RanAfter(w)[t] > 0} = Touched(w)
<1> DEFINE At(t) == {i \in DOMAIN w.queue : w.queue[i] = t}
<1>1. w.queue \in Seq(Tag) /\ w.ran \in [Tag -> 0..2]
  BY DEF World
<1>2. Len(w.queue) \in Nat /\ DOMAIN w.queue = 1..Len(w.queue)
  BY <1>1
<1>3. IsFiniteSet(1..Len(w.queue))
  <2>1. 1 \in Int /\ Len(w.queue) \in Int
    BY <1>2
  <2> QED BY <2>1, FS_Interval, Zenon
<1>4. \A t \in Tag : /\ Cardinality(At(t)) \in Nat
                     /\ Cardinality(At(t)) > 0 <=> t \in Queued(w)
  <2> TAKE t \in Tag
  <2>1. At(t) \in SUBSET (1..Len(w.queue))
    BY <1>2
  <2>2. IsFiniteSet(At(t))
    BY <1>3, <2>1, FS_Subset
  <2>3. Cardinality(At(t)) \in Nat /\ (Cardinality(At(t)) = 0 <=> At(t) = {})
    BY <2>2, FS_CardinalityType, FS_EmptySet
  <2>4. t \in Queued(w) <=> At(t) # {}
    BY DEF Queued, ToSet
  <2> HIDE DEF At
  <2> QED BY <2>3, <2>4
<1>5. RanAfter(w) = [t \in Tag |-> Least(2, w.ran[t] + Cardinality(At(t)))]
  BY DEF RanAfter
<1> HIDE DEF At
<1>6. \A t \in Tag : RanAfter(w)[t] > 0 <=> t \in Queued(w) \/ w.ran[t] > 0
  <2> TAKE t \in Tag
  <2>1. w.ran[t] \in 0..2 /\ RanAfter(w)[t] = Least(2, w.ran[t] + Cardinality(At(t)))
    BY <1>1, <1>5
  <2>2. Cardinality(At(t)) \in Nat /\ (Cardinality(At(t)) > 0 <=> t \in Queued(w))
    BY <1>4
  <2> QED BY <2>1, <2>2 DEF Least
<1>7. Queued(w) \subseteq Tag
  BY <1>1, <1>2 DEF Queued, ToSet
<1> QED BY <1>6, <1>7 DEF Touched, Done

\* Worlds with the same packets touch the same ones.
LEMMA SamePackets ==
  ASSUME NEW v, NEW w, Packets(v) = Packets(w)
  PROVE  /\ v.id = w.id /\ v.queue = w.queue
         /\ Touched(v) = Touched(w) /\ Done(v) = Done(w) /\ Reports(v) = Reports(w)
<1>1. v.id = w.id /\ v.queue = w.queue /\ v.done = w.done /\ v.ran = w.ran
  BY DEF Packets
<1> QED BY <1>1 DEF Touched, Done, Reports, Queued

\* After update_player_actions nothing is queued, and all that was has run.
LEMMA RunQueueTouches ==
  ASSUME SyncerAssumption, NEW w \in World, NEW n \in Nat
  PROVE  /\ Touched(RunQueue(w, n)) = Touched(w) /\ Done(RunQueue(w, n)) = Touched(w)
         /\ Reports(RunQueue(w, n)) \subseteq Queued(w) \cup Reports(w)
         /\ RunQueue(w, n).id = w.id
<1>1. /\ RunQueue(w, n).id = w.id /\ RunQueue(w, n).queue = <<>>
      /\ RunQueue(w, n).ran = RanAfter(w)
      /\ \A t \in Tag : RunQueue(w, n).done[t] > 0 => t \in Queued(w) \/ w.done[t] > 0
  BY RunQueueType
<1>2. Done(RunQueue(w, n)) = Touched(w)
  BY <1>1, QueueRuns DEF Done
<1>3. Queued(RunQueue(w, n)) = {}
  BY <1>1 DEF Queued, ToSet
<1>4. Touched(RunQueue(w, n)) = Touched(w)
  BY <1>2, <1>3, Zenon DEF Touched
<1> QED BY <1>1, <1>2, <1>4 DEF Reports

\* An update touches no packet that was not there, and loses none.
LEMMA UpdateTouches ==
  ASSUME SyncerAssumption, NEW w \in World, NEW e \in Nat, NEW force \in BOOLEAN
  PROVE  Touched(Update(w, e, force)) = Touched(w) /\ Update(w, e, force).id = w.id
<1>1. CASE \E n \in Nat : Packets(Update(w, e, force)) = Packets(RunQueue(w, n))
  <2>1. PICK n \in Nat : Packets(Update(w, e, force)) = Packets(RunQueue(w, n))
    BY <1>1
  <2> QED BY <2>1, SamePackets, RunQueueTouches
<1>2. CASE Packets(Update(w, e, force)) = Packets(w)
  BY <1>2, SamePackets
<1> QED BY <1>1, <1>2, UpdateType

\* Neither does what the browser hides from the update.
LEMMA HiddenTouches ==
  ASSUME NEW w \in World
  PROVE  Touched(Hidden(w)) = Touched(w) /\ Hidden(w).id = w.id
BY HiddenType DEF Touched, Done, Queued

\* The server's own step: what was queued has run, and is what it reports.
LEMMA ServerStep ==
  ASSUME SyncerAssumption, NEW w \in World
  PROVE  LET u == [Update(w, Step, FALSE) EXCEPT !.ticks = 0]
         IN  /\ u.id = w.id
             /\ Touched(u) = Touched(w) /\ Done(u) = Touched(w)
             /\ Reports(u) \subseteq Queued(w) \cup Reports(w)
<1> DEFINE v == Update(w, Step, FALSE)
           u == [v EXCEPT !.ticks = 0]
<1>1. Step \in Nat /\ ~(Step < Step) /\ FALSE \in BOOLEAN
  BY DEF Step
<1>2. /\ v \in World
      /\ \/ \E n \in Nat : Packets(v) = Packets(RunQueue(w, n))
         \/ Step < Step /\ Packets(v) = Packets(w)
  BY <1>1, UpdateType, Zenon
<1>3. PICK n \in Nat : Packets(v) = Packets(RunQueue(w, n))
  BY <1>1, <1>2
<1> HIDE DEF v
<1>4. Packets(u) = Packets(v)
  BY <1>2 DEF World, Packets
<1>5. Packets(u) = Packets(RunQueue(w, n))
  BY <1>3, <1>4
<1> HIDE DEF u
<1>6. /\ u.id = w.id /\ Touched(u) = Touched(w) /\ Done(u) = Touched(w)
      /\ Reports(u) \subseteq Queued(w) \cup Reports(w)
  BY <1>5, SamePackets, RunQueueTouches
<1> QED BY <1>6 DEF u, v

\* A world that gets older keeps its packets.
LEMMA OlderKeeps ==
  ASSUME NEW w \in World
  PROVE  Packets(Older(w)) = Packets(w)
BY DEF World, Older, Packets

\* The packets a rebase adds are those the browser waits for.
LEMMA RebasedTouches ==
  ASSUME SyncerAssumption, trueState \in World, pending \subseteq [tag : Tag, at : Int],
         NEW e
  PROVE  /\ Rebased(e).id = trueState.id
         /\ Touched(Rebased(e)) \subseteq Touched(trueState) \cup Predicted
<1> DEFINE missing == {p \in pending : trueState.done[p.tag] = 0 /\ p.at <= trueState.ticks + e}
           tags == {p.tag : p \in missing}
           added == SetToSeq(tags)
           queue == trueState.queue \o added
<1>1. tags \in SUBSET Tag /\ tags \subseteq Predicted
  BY DEF Predicted
<1>2. IsFiniteSet(tags)
  BY <1>1, FS_Subset DEF SyncerAssumption
<1>3. added \in Seq(tags)
  <2>1. tags \in SUBSET tags
    OBVIOUS
  <2> HIDE DEF tags
  <2> QED BY <1>2, <2>1, AnyOrder
<1>4. Rebased(e) = [trueState EXCEPT !.queue = queue]
  BY Zenon DEF Rebased
<1> HIDE DEF missing, tags, added
<1>5. trueState.queue \in Seq(Tag)
  BY DEF World
<1>6. ToSet(queue) \subseteq ToSet(trueState.queue) \cup tags
  BY <1>3, <1>5, InConcat, Zenon
<1> HIDE DEF queue
<1>7. Rebased(e).id = trueState.id /\ Rebased(e).queue = queue /\ Rebased(e).ran = trueState.ran
  BY <1>4 DEF World
<1> QED BY <1>1, <1>6, <1>7 DEF Touched, Done, Queued

\* What a packet of the player touches.
LEMMA PushedTouches ==
  ASSUME NEW w \in World, NEW t \in Tag, NEW twice \in BOOLEAN
  PROVE  /\ Pushed(w, t, twice).id = w.id
         /\ Touched(Pushed(w, t, twice)) \subseteq Touched(w) \cup {t}
<1> DEFINE added == IF twice THEN <<t, t>> ELSE <<t>>
           queue == w.queue \o added
<1>1. w.queue \in Seq(Tag)
  BY DEF World
<1>5. added \in Seq({t})
  <2>1. <<t, t>> \in Seq({t}) /\ <<t>> \in Seq({t})
    OBVIOUS
  <2> QED BY <2>1, Zenon
<1>2. Pushed(w, t, twice) = [w EXCEPT !.queue = queue]
  BY Zenon DEF Pushed
<1> HIDE DEF added
<1>3. ToSet(queue) \subseteq ToSet(w.queue) \cup {t}
  BY <1>1, <1>5, InConcat, Zenon
<1> HIDE DEF queue
<1>4. /\ Pushed(w, t, twice).id = w.id /\ Pushed(w, t, twice).queue = queue
      /\ Pushed(w, t, twice).ran = w.ran
  BY <1>2 DEF World
<1> QED BY <1>3, <1>4 DEF Touched, Done, Queued

\* A frame's own update, with the cache or without it, and the rebase.
LEMMA CurrentTouches ==
  ASSUME SyncerAssumption, IInv, NEW e \in Frames
  PROVE  /\ Touched(Current(Slowed(e))) = Touched(state)
         /\ Current(Slowed(e)).id = state.id
<1> DEFINE d == Slowed(e)
           c == Compensated(state, d)
<1>1. d \in Nat /\ c \in Nat /\ (d > LongUpdate) \in BOOLEAN /\ FALSE \in BOOLEAN
  BY FrameLengths
<1> HIDE DEF d, c
<1>2. state \in World /\ cache \in World /\ (useCache => cache = state)
  BY Types DEF IInv, CacheFresh
<1>3. CASE useCache
  <2>1. Current(d) = Update(state, d, d > LongUpdate)
    BY <1>2, <1>3 DEF Current
  <2>2. /\ Touched(Update(state, d, d > LongUpdate)) = Touched(state)
        /\ Update(state, d, d > LongUpdate).id = state.id
    BY <1>1, <1>2, UpdateTouches, Zenon
  <2> QED BY <2>1, <2>2 DEF d
<1>4. CASE ~useCache
  <2>1. Current(d) = Update(Hidden(state), c, FALSE)
    BY <1>4 DEF Current, c
  <2>2. Hidden(state) \in World
    BY <1>2, HiddenType
  <2>3. /\ Touched(Update(Hidden(state), c, FALSE)) = Touched(Hidden(state))
        /\ Update(Hidden(state), c, FALSE).id = Hidden(state).id
    BY <1>1, <2>2, UpdateTouches, Zenon
  <2> QED BY <1>2, <2>1, <2>3, HiddenTouches DEF d
<1> QED BY <1>3, <1>4

LEMMA RebaseTouches ==
  ASSUME SyncerAssumption, IInv, NEW e \in Frames, NEW cur \in World
  PROVE  /\ Touched(Rebase(cur, e)) = Touched(Rebased(e))
         /\ Rebase(cur, e).id = Rebased(e).id
<1> DEFINE c == Compensated(cur, e)
           w == Hidden(Rebased(e))
<1>1. c \in Nat /\ FALSE \in BOOLEAN
  BY FrameLengths
<1>2. Rebased(e) \in World
  BY Types, RebasedType DEF IInv
<1>3. w \in World /\ Touched(w) = Touched(Rebased(e)) /\ w.id = Rebased(e).id
  BY <1>2, HiddenType, HiddenTouches
<1>4. Rebase(cur, e) = Update(w, c, FALSE)
  BY Zenon DEF Rebase
<1> HIDE DEF c, w
<1>5. Touched(Update(w, c, FALSE)) = Touched(w) /\ Update(w, c, FALSE).id = w.id
  BY <1>1, <1>3, UpdateTouches, Zenon
<1> QED BY <1>3, <1>4, <1>5

\* The server makes a step: it executes what it had queued.
LEMMA ServerUpdateTruthful ==
  ASSUME SyncerAssumption, IInv, Truthful, ServerUpdate
  PROVE  Truthful'
<1> USE DEF Truthful
<1>1. /\ srv \in World /\ state \in World /\ trueState \in World
      /\ down \in Seq(World) /\ pending \subseteq [tag : Tag, at : Int]
  BY Types DEF IInv
<1>2. /\ srv'.id = srv.id
      /\ Touched(srv)' = Touched(srv) /\ Done(srv)' = Touched(srv)
      /\ Reports(srv)' \subseteq Queued(srv) \cup Reports(srv)
  <2> DEFINE u == [Update(srv, Step, FALSE) EXCEPT !.ticks = 0]
  <2>1. srv' = u
    BY DEF ServerUpdate
  <2>2. /\ u.id = srv.id /\ Touched(u) = Touched(srv) /\ Done(u) = Touched(srv)
        /\ Reports(u) \subseteq Queued(srv) \cup Reports(srv)
    BY <1>1, ServerStep
  <2> HIDE DEF u
  <2> QED BY <2>1, <2>2 DEF Touched, Done, Reports, Queued
<1>3. Honest'
  BY <1>2 DEF Honest, Touched
<1>4. /\ Packets(state)' = Packets(state) /\ Packets(trueState)' = Packets(trueState)
  BY <1>1, OlderKeeps DEF ServerUpdate, Packets
<1>5. /\ state'.id = state.id /\ Touched(state)' = Touched(state)
      /\ trueState'.id = trueState.id /\ Touched(trueState)' = Touched(trueState)
  BY <1>4 DEF Packets, Touched, Done, Queued
<1>6. Ids'
  BY <1>2, <1>5 DEF Ids
<1>7. ToldAll'
  <2>1. DOMAIN down' = DOMAIN down
    BY DEF ServerUpdate
  <2>2. ASSUME NEW i \in DOMAIN down
        PROVE  Told(down[i])'
    <3>1. down[i] \in World /\ down'[i] = Older(down[i])
      BY <1>1 DEF ServerUpdate
    <3>2. /\ down'[i].id = down[i].id /\ down'[i].queue = down[i].queue
          /\ down'[i].done = down[i].done /\ down'[i].ran = down[i].ran
      BY <3>1, OlderKeeps DEF Packets
    <3>3. /\ down[i].id <= srv.id /\ down[i].queue = <<>>
          /\ down[i].id = srv.id => Done(down[i]) \cup Reports(down[i]) \subseteq Done(srv)
      BY DEF ToldAll, Told
    <3>4. Done(down[i])' = Done(down[i]) /\ Reports(down[i])' = Reports(down[i])
      BY <3>2 DEF Done, Reports
    <3>5. Done(srv) \subseteq Done(srv)'
      BY <1>2 DEF Touched
    <3> QED BY <1>2, <3>2, <3>3, <3>4, <3>5 DEF Told
  <2> QED BY <2>1, <2>2 DEF ToldAll
<1>8. Predicted' = Predicted
  <2> DEFINE to(p) == Greatest(p.at - Step, -(Lag + Step + PendingLife))
  <2>1. pending' = {[p EXCEPT !.at = to(p)] : p \in pending}
    BY Zenon DEF ServerUpdate
  <2> HIDE DEF to
  <2>2. \A p \in pending : [p EXCEPT !.at = to(p)].tag = p.tag
    BY <1>1
  <2> QED BY <2>1, <2>2 DEF Predicted
<1>9. OnServer' = OnServer
  BY <1>2 DEF OnServer, ServerUpdate
<1>10. Accounted'
  BY <1>2, <1>5, <1>8, <1>9 DEF Accounted
<1> QED BY <1>3, <1>6, <1>7, <1>10

\* What the server and the net do besides: a packet moves on, a state is sent that says
\* no more than is true, and a new game is not that of the browser.
LEMMA ServerSideTruthful ==
  ASSUME SyncerAssumption, IInv, Truthful, Schedule \/ Broadcast \/ Others \/ ShipGone \/ Restart
  PROVE  Truthful'
<1> USE DEF Truthful
<1>1. srv \in World /\ up \in Seq(Tag) /\ down \in Seq(World)
  BY Types DEF IInv
<1>2. UNCHANGED <<state, trueState, pending>>
  BY DEF Schedule, Broadcast, Others, ShipGone, Restart, browser
<1>3. Predicted' = Predicted
  BY <1>2 DEF Predicted
<1>4. Touched(state)' = Touched(state) /\ Touched(trueState)' = Touched(trueState)
  BY <1>2 DEF Touched, Done, Queued
<1>5. CASE Schedule
  <2>1. /\ srv'.id = srv.id /\ srv'.queue = Append(srv.queue, Head(up))
        /\ srv'.done = srv.done /\ srv'.ran = srv.ran
        /\ up # <<>> /\ up' = Tail(up) /\ UNCHANGED down
    BY <1>1, <1>5 DEF Schedule, World
  <2>2. Done(srv)' = Done(srv) /\ Reports(srv)' = Reports(srv)
    BY <2>1 DEF Done, Reports
  <2>3. ToSet(up) \subseteq ToSet(up') \cup {Head(up)}
    <3>1. /\ Len(up) \in Nat \ {0} /\ DOMAIN up = 1..Len(up) /\ Head(up) = up[1]
          /\ DOMAIN up' = 1..(Len(up) - 1) /\ \A i \in 1..(Len(up) - 1) : up'[i] = up[i + 1]
      BY <1>1, <2>1
    <3>2. ASSUME NEW i \in DOMAIN up
          PROVE  up[i] \in ToSet(up') \cup {Head(up)}
      <4>1. CASE i = 1
        BY <3>1, <4>1
      <4>2. CASE i # 1
        <5>1. i - 1 \in DOMAIN up' /\ up'[i - 1] = up[i]
          BY <3>1, <4>2
        <5> QED BY <5>1 DEF ToSet
      <4> QED BY <4>1, <4>2
    <3> QED BY <3>2 DEF ToSet
  <2>4. Queued(srv)' = Queued(srv) \cup {Head(up)}
    <3>1. srv.queue \in Seq(Tag) /\ Head(up) \in Tag
      <4>1. \A v \in World : v.queue \in Seq(Tag)
        BY DEF World
      <4>2. Head(up) \in Tag
        BY <1>1, <2>1
      <4> QED BY <1>1, <4>1, <4>2
    <3>2. /\ Len(srv.queue) \in Nat /\ DOMAIN srv.queue = 1..Len(srv.queue)
          /\ DOMAIN srv'.queue = 1..(Len(srv.queue) + 1)
          /\ \A i \in 1..Len(srv.queue) : srv'.queue[i] = srv.queue[i]
          /\ srv'.queue[Len(srv.queue) + 1] = Head(up)
      <4> DEFINE q == srv.queue
                 x == Head(up)
      <4>1. q \in Seq(Tag) /\ x \in Tag /\ srv'.queue = Append(q, x)
        BY <2>1, <3>1
      <4> HIDE DEF q, x
      <4>2. /\ Len(q) \in Nat /\ DOMAIN q = 1..Len(q)
            /\ DOMAIN srv'.queue = 1..(Len(q) + 1)
            /\ \A i \in 1..Len(q) : srv'.queue[i] = q[i]
            /\ srv'.queue[Len(q) + 1] = x
        BY <4>1
      <4> QED BY <4>2 DEF q, x
    <3> DEFINE n == Len(srv.queue)
    <3>3. \A x : x \in ToSet(srv'.queue) <=> \E i \in 1..(n + 1) : x = srv'.queue[i]
      BY <3>2 DEF ToSet
    <3>4. \A x : x \in ToSet(srv.queue) <=> \E i \in 1..n : x = srv.queue[i]
      BY <3>2 DEF ToSet
    <3>5. 1..(n + 1) = 1..n \cup {n + 1} /\ \A i \in 1..n : srv'.queue[i] = srv.queue[i]
      BY <3>2
    <3>6. srv'.queue[n + 1] = Head(up)
      BY <3>2
    <3> HIDE DEF n
    <3>7. ToSet(srv'.queue) = ToSet(srv.queue) \cup {Head(up)}
      BY <3>3, <3>4, <3>5, <3>6
    <3> QED BY <3>7 DEF Queued
  <2>5. OnServer \subseteq OnServer'
    BY <2>2, <2>3, <2>4 DEF OnServer, Touched
  <2>6. ToldAll'
    BY <2>1, <2>2 DEF ToldAll, Told, Done, Reports
  <2> QED BY <1>2, <1>3, <1>4, <2>1, <2>2, <2>5, <2>6 DEF Ids, Honest, Accounted
<1>6. CASE Broadcast
  <2>1. UNCHANGED <<srv, up>> /\ down' = Append(down, Patched(srv))
    BY <1>6 DEF Broadcast, server
  <2>2. /\ Patched(srv).id = srv.id /\ Patched(srv).queue = <<>>
        /\ Patched(srv).ran = srv.ran
        /\ \A t \in Tag : Patched(srv).done[t] > 0 => srv.done[t] > 0
    <3> DEFINE done == [t \in Tag |-> IF t \in orphaned THEN 0 ELSE srv.done[t]]
               a == [srv EXCEPT !.queue = <<>>]
    <3>1. \A t \in Tag : done[t] > 0 => srv.done[t] > 0
      OBVIOUS
    <3>0. srv = [id |-> srv.id, ticks |-> srv.ticks, acc |-> srv.acc, queue |-> srv.queue,
                 done |-> srv.done, ran |-> srv.ran, pos |-> srv.pos]
      BY <1>1 DEF World
    <3>2. a = [id |-> srv.id, ticks |-> srv.ticks, acc |-> srv.acc, queue |-> <<>>,
               done |-> srv.done, ran |-> srv.ran, pos |-> srv.pos]
      BY <3>0
    <3>3. Patched(srv) = [a EXCEPT !.done = done]
      BY Zenon DEF Patched
    <3> HIDE DEF done, a
    <3>4. /\ Patched(srv).id = srv.id /\ Patched(srv).queue = <<>>
          /\ Patched(srv).ran = srv.ran /\ Patched(srv).done = done
      BY <3>2, <3>3
    <3> QED BY <3>1, <3>4
  <2>3. Told(Patched(srv))
    <3>1. srv.id <= srv.id
      BY <1>1 DEF World
    <3> QED BY <2>2, <3>1 DEF Told, Honest, Done, Reports
  <2>4. \A i \in DOMAIN down' : Told(down'[i])
    <3>1. /\ Len(down) \in Nat /\ DOMAIN down = 1..Len(down)
          /\ DOMAIN down' = 1..(Len(down) + 1)
          /\ \A i \in 1..Len(down) : down'[i] = down[i]
          /\ down'[Len(down) + 1] = Patched(srv)
      BY <1>1, <2>1
    <3> QED BY <2>3, <3>1 DEF ToldAll
  <2>5. ToldAll'
    BY <2>1, <2>4 DEF ToldAll, Told, Done, Reports
  <2>6. OnServer' = OnServer /\ Done(srv)' = Done(srv) /\ Reports(srv)' = Reports(srv)
    BY <2>1 DEF OnServer, Touched, Done, Queued, Reports
  <2> QED BY <1>2, <1>3, <1>4, <2>1, <2>5, <2>6 DEF Ids, Honest, Accounted
<1>7. CASE Others \/ ShipGone
  <2>1. UNCHANGED <<up, down>>
    BY <1>7 DEF Others, ShipGone, net
  <2>2. Packets(srv)' = Packets(srv)
    <3>1. CASE Others
      <4>1. srv' = [srv EXCEPT !.pos = srv.pos + Hop]
        BY <3>1, Zenon DEF Others
      <4> QED BY <1>1, <4>1 DEF World, Packets
    <3>2. CASE ShipGone
      BY <3>2 DEF ShipGone, Packets
    <3> QED BY <1>7, <3>1, <3>2
  <2>3. /\ srv'.id = srv.id /\ srv'.queue = srv.queue /\ srv'.done = srv.done
        /\ srv'.ran = srv.ran
    BY <2>2 DEF Packets
  <2>4. OnServer' = OnServer /\ Done(srv)' = Done(srv) /\ Reports(srv)' = Reports(srv)
    BY <2>1, <2>3 DEF OnServer, Touched, Done, Queued, Reports
  <2>5. ToldAll'
    BY <2>1, <2>3 DEF ToldAll, Told, Done, Reports
  <2> QED BY <1>2, <1>3, <1>4, <2>3, <2>4, <2>5 DEF Ids, Honest, Accounted
<1>8. CASE Restart
  <2>1. UNCHANGED <<up, down>> /\ srv' = NewWorld(srv.id + 1)
    BY <1>8 DEF Restart, net
  <2>2. srv'.id = srv.id + 1 /\ srv'.done = [t \in Tag |-> 0] /\ srv.id \in Nat
    BY <1>1, <2>1 DEF NewWorld, World
  <2>3. Honest'
    BY <2>2 DEF Honest, Reports
  <2>4. /\ \A i \in DOMAIN down : down[i].id \in Nat /\ down[i].id <= srv.id
        /\ state.id \in Nat
    <3>1. \A v \in World : v.id \in Nat
      BY DEF World
    <3>2. state \in World /\ \A i \in DOMAIN down : down[i] \in World
      BY <1>1, Types DEF IInv
    <3> QED BY <3>1, <3>2 DEF ToldAll, Told
  <2>5. \A i \in DOMAIN down : down[i].id <= srv'.id /\ down[i].id # srv'.id
    BY <2>2, <2>4
  <2>6. ToldAll'
    BY <2>1, <2>5 DEF ToldAll, Told
  <2>7. Ids' /\ state'.id # srv'.id
    BY <1>2, <2>2, <2>4 DEF Ids
  <2> QED BY <2>3, <2>6, <2>7 DEF Accounted
<1> QED BY <1>5, <1>6, <1>7, <1>8

\* A packet of the player is waited for before any world has it.
LEMMA ActTruthful ==
  ASSUME SyncerAssumption, IInv, Truthful,
         NEW t \in Tag, NEW sent \in BOOLEAN, NEW twice \in BOOLEAN, Act(t, sent, twice)
  PROVE  Truthful'
<1> USE DEF Truthful
<1>1. /\ srv \in World /\ state \in World /\ trueState \in World /\ up \in Seq(Tag)
  BY Types DEF IInv
<1>2. UNCHANGED <<srv, down>>
  BY DEF Act
<1>3. Honest' /\ ToldAll'
  BY <1>2 DEF Honest, ToldAll, Told, Done, Reports
<1>4. Predicted' = Predicted \cup {t}
  <2> DEFINE p == [tag |-> t, at |-> state.ticks]
  <2>1. pending' = pending \cup {p} /\ p.tag = t
    BY DEF Act
  <2> HIDE DEF p
  <2> QED BY <2>1 DEF Predicted
<1>5. OnServer \subseteq OnServer'
  <2>1. up' = up \/ up' = Append(up, t)
    BY DEF Act, Packed, Sent
  <2>2. ToSet(up) \subseteq ToSet(up')
    <3>1. CASE up' = up
      BY <3>1
    <3>2. CASE up' = Append(up, t)
      <4>1. /\ Len(up) \in Nat /\ DOMAIN up = 1..Len(up) /\ DOMAIN up' = 1..(Len(up) + 1)
            /\ \A i \in 1..Len(up) : up'[i] = up[i]
        BY <1>1, <3>2
      <4> QED BY <4>1 DEF ToSet
    <3> QED BY <2>1, <3>1, <3>2
  <2> QED BY <1>2, <2>2 DEF OnServer, Touched, Done, Queued
<1>6. state' = Pushed(state, t, twice)
  BY DEF Act
<1>7. trueState' = Pushed(trueState, t, twice) \/ trueState' = trueState
  BY DEF Act
<1>8. state'.id = state.id /\ Touched(state)' \subseteq Touched(state) \cup {t}
  BY <1>1, <1>6, PushedTouches DEF Touched, Done, Queued
<1>9. trueState'.id = trueState.id /\ Touched(trueState)' \subseteq Touched(trueState) \cup {t}
  <2>1. CASE trueState' = Pushed(trueState, t, twice)
    BY <1>1, <2>1, PushedTouches DEF Touched, Done, Queued
  <2>2. CASE trueState' = trueState
    BY <2>2 DEF Touched, Done, Queued
  <2> QED BY <1>7, <2>1, <2>2
<1>10. Ids'
  BY <1>2, <1>8, <1>9 DEF Ids
<1>11. Accounted'
  BY <1>2, <1>4, <1>5, <1>8, <1>9 DEF Accounted
<1> QED BY <1>3, <1>10, <1>11

\* A state of the server is taken over as it is.  The shown world stays only if no
\* packet was given up, and then those no longer waited for are reported.
LEMMA ReceiveTruthful ==
  ASSUME SyncerAssumption, IInv, Truthful, Receive
  PROVE  Truthful'
<1> USE DEF Truthful
<1> DEFINE w == Head(down)
<1>1. /\ down \in Seq(World) /\ down # <<>> /\ down' = Tail(down)
      /\ pending \subseteq [tag : Tag, at : Int]
  BY Types DEF IInv, Receive, ReceiveInit, ReceiveState
<1>2. UNCHANGED <<srv, up>>
  BY DEF Receive, ReceiveInit, ReceiveState, server
<1>3. /\ Len(down) \in Nat \ {0} /\ DOMAIN down = 1..Len(down) /\ w = down[1]
      /\ DOMAIN down' = 1..(Len(down) - 1)
      /\ \A i \in 1..(Len(down) - 1) : down'[i] = down[i + 1]
  BY <1>1
<1>4. \A i \in DOMAIN down' : Told(down'[i])
  <2> TAKE i \in DOMAIN down'
  <2>1. i + 1 \in DOMAIN down /\ down'[i] = down[i + 1]
    BY <1>3
  <2> QED BY <2>1 DEF ToldAll
<1>5. Honest' /\ ToldAll'
  BY <1>2, <1>4 DEF Honest, ToldAll, Told, Done, Reports
<1>6. Told(w)
  BY <1>3 DEF ToldAll
<1>7. OnServer' = OnServer
  BY <1>2 DEF OnServer, Touched, Done, Queued
<1> HIDE DEF w
<1>8. w.id = srv.id => Touched(w) \cup Reports(w) \subseteq OnServer
  BY <1>6 DEF Told, Touched, Queued, ToSet, OnServer
<1>9. trueState' = w /\ (state' = w \/ (state' = state /\ state.id = w.id))
  BY DEF w, Receive, ReceiveInit, ReceiveState
<1>10. Ids'
  BY <1>2, <1>6, <1>9 DEF Ids, Told
<1>11. CASE state' = w
  <2>1. Touched(state)' = Touched(w) /\ Touched(trueState)' = Touched(w)
    BY <1>9, <1>11 DEF Touched, Done, Queued
  <2>2. Accounted'
    BY <1>2, <1>7, <1>8, <1>11, <2>1 DEF Accounted
  <2> QED BY <1>5, <1>10, <2>2
<1>12. CASE state' # w
  <2>1. state' = state /\ state.id = w.id /\ ReceiveState
    BY <1>9, <1>12 DEF w, Receive, ReceiveInit
  <2> DEFINE left == {p \in pending : ~Reported(p)}
  <2>2. pending' = left
    <3>1. pending' = {p \in left : ~Outdated(p)}
      BY <2>1 DEF ReceiveState
    <3>2. ~(\E p \in left : Outdated(p))
      BY <1>12, <2>1 DEF ReceiveState, w
    <3> QED BY <3>1, <3>2
  <2>3. Predicted \subseteq Predicted' \cup Reports(w)
    BY <1>1, <2>2 DEF Predicted, Reported, Reports, w
  <2>4. Touched(state)' = Touched(state) /\ Touched(trueState)' = Touched(w)
    BY <1>9, <2>1 DEF Touched, Done, Queued
  <2>5. Accounted'
    BY <1>2, <1>7, <1>8, <2>1, <2>3, <2>4 DEF Accounted
  <2> QED BY <1>5, <1>10, <2>5
<1> QED BY <1>11, <1>12

\* A frame shows nothing but what it had or waits for.
LEMMA FrameTruthful ==
  ASSUME SyncerAssumption, IInv, Truthful, Frame
  PROVE  Truthful'
<1> USE DEF Truthful
<1>1. PICK e \in Frames, visible \in BOOLEAN :
        /\ FrameInSync(e) \/ FrameDesynced(e, visible) \/ FrameTooLong(e)
        /\ UNCHANGED <<server, net>>
  BY DEF Frame
<1>2. UNCHANGED <<srv, up, down, pending>>
  BY <1>1 DEF server, net, FrameInSync, FrameDesynced, FrameTooLong
<1>3. Honest' /\ ToldAll'
  BY <1>2 DEF Honest, ToldAll, Told, Done, Reports
<1>4. Predicted' = Predicted /\ OnServer' = OnServer
  BY <1>2 DEF Predicted, OnServer, Touched, Done, Queued
<1>5. /\ state \in World /\ trueState \in World /\ pending \subseteq [tag : Tag, at : Int]
  BY Types DEF IInv
<1> DEFINE Known(v) == /\ v.id = state.id
                       /\ Touched(v) \subseteq Touched(state) \cup Touched(trueState) \cup Predicted
<1>6. SUFFICES Known(state') /\ Known(trueState')
  BY <1>2, <1>3, <1>4 DEF Ids, Accounted, Touched, Done, Queued
<1>7. Known(state) /\ Known(trueState) /\ Known(Rebased(e))
  <2>1. /\ Rebased(e).id = trueState.id
        /\ Touched(Rebased(e)) \subseteq Touched(trueState) \cup Predicted
    BY <1>5, RebasedTouches
  <2> QED BY <2>1 DEF Ids
<1>8. \A v, u : Touched(v) = Touched(u) /\ v.id = u.id /\ Known(u) => Known(v)
  OBVIOUS
<1> HIDE DEF Known
<1>9. CASE FrameInSync(e)
  <2>1. state' = Current(Slowed(e)) /\ trueState' = Current(Slowed(e))
    BY <1>9 DEF FrameInSync
  <2>2. Known(Current(Slowed(e)))
    BY <1>7, <1>8, CurrentTouches
  <2> QED BY <2>1, <2>2
<1>10. CASE FrameDesynced(e, visible)
  <2>1. PICK cur \in {Current(Slowed(e))} : \E true \in {Rebase(cur, e)} :
          \E drawn \in Corrections(Overridden(cur, true), true, e, visible) :
            /\ state' = drawn /\ trueState' = IF same' THEN drawn ELSE true
    BY <1>10 DEF FrameDesynced
  <2>2. PICK true \in {Rebase(cur, e)} :
          \E drawn \in Corrections(Overridden(cur, true), true, e, visible) :
            /\ state' = drawn /\ trueState' = IF same' THEN drawn ELSE true
    BY <2>1
  <2>3. cur \in World /\ true \in World
    BY <2>1, <2>2, CurrentType, RebaseType
  <2>4. Known(true)
    <3>1. Touched(true) = Touched(Rebased(e)) /\ true.id = Rebased(e).id
      BY <2>2, <2>3, RebaseTouches
    <3> QED BY <1>7, <1>8, <3>1
  <2> DEFINE over == Overridden(cur, true)
  <2>5. over \in World /\ Packets(over) = Packets(true)
    BY <2>3, OverriddenType
  <2>6. PICK drawn \in Corrections(over, true, e, visible) :
          state' = drawn /\ (trueState' = drawn \/ trueState' = true)
    BY <2>2
  <2> HIDE DEF over
  <2>7. Packets(drawn) = Packets(over)
    BY <2>3, <2>5, <2>6, CorrectionsType
  <2>8. Known(drawn)
    BY <1>8, <2>4, <2>5, <2>7, SamePackets
  <2> QED BY <2>4, <2>6, <2>8
<1>11. CASE FrameTooLong(e)
  BY <1>7, <1>11 DEF FrameTooLong
<1> QED BY <1>1, <1>9, <1>10, <1>11

LEMMA InitTruthful == SyncerAssumption /\ Init => Truthful
<1> SUFFICES ASSUME SyncerAssumption, Init PROVE Truthful
  OBVIOUS
<1>1. srv = NewWorld(0) /\ state = NewWorld(0) /\ trueState = NewWorld(0) /\ down = <<>>
  BY DEF Init
<1>2. Reports(NewWorld(0)) = {} /\ Touched(NewWorld(0)) = {} /\ NewWorld(0).id = 0
  BY DEF NewWorld, Reports, Touched, Done, Queued, ToSet
<1> QED BY <1>1, <1>2 DEF Truthful, Ids, Honest, ToldAll, Accounted

LEMMA NextTruthful ==
  ASSUME SyncerAssumption, IInv, Truthful, [Next]_vars
  PROVE  Truthful'
<1>1. CASE ServerUpdate
  BY <1>1, ServerUpdateTruthful
<1>2. CASE Schedule \/ Broadcast \/ Others \/ ShipGone \/ Restart
  BY <1>2, ServerSideTruthful
<1>3. CASE \E t \in Tag, sent, twice \in BOOLEAN : Act(t, sent, twice)
  BY <1>3, ActTruthful
<1>4. CASE Receive
  BY <1>4, ReceiveTruthful
<1>5. CASE Frame
  BY <1>5, FrameTruthful
<1>6. CASE UNCHANGED vars
  BY <1>6 DEF Truthful, Ids, Honest, ToldAll, Told, Accounted, Touched, Done, Queued, Reports,
              Predicted, OnServer, vars, server, net, browser
<1> QED BY <1>1, <1>2, <1>3, <1>4, <1>5, <1>6 DEF Next

-----------------------------------------------------------------------------
(***************************************************************************)
(* The theorems                                                            *)
(***************************************************************************)

LEMMA NextIInv ==
  ASSUME SyncerAssumption, IInv, [Next]_vars
  PROVE  IInv'
<1>1. CASE ServerUpdate
  BY <1>1, ServerUpdateIInv
<1>2. CASE Schedule \/ Broadcast \/ Others \/ ShipGone \/ Restart
  BY <1>2, ServerSideIInv
<1>3. CASE \E t \in Tag, sent, twice \in BOOLEAN : Act(t, sent, twice)
  BY <1>3, ActIInv
<1>4. CASE Receive
  BY <1>4, ReceiveIInv
<1>5. CASE Frame
  BY <1>5, FrameIInv
<1>6. CASE UNCHANGED vars
  BY <1>6 DEF IInv, TypeOK, CacheFresh, Aliased, vars, server, net, browser
<1> QED BY <1>1, <1>2, <1>3, <1>4, <1>5, <1>6 DEF Next

\* The invariant of the browser and of what it needs of the server.
LEMMA Inductive == Spec => []IInv
<1>1. Init => IInv
  BY SyncerAssumption, InitIInv
<1>2. IInv /\ [Next]_vars => IInv'
  BY SyncerAssumption, NextIInv
<1> QED BY <1>1, <1>2, PTL DEF Spec

\* Every world, on the server, in the browser and on the way, is a world, and none has a
\* whole interval left to simulate, whatever the frames and the compensation for lag.
THEOREM TypeCorrect == Spec => []TypeOK
<1>1. IInv => TypeOK
  BY DEF IInv
<1> QED BY <1>1, Inductive, PTL

\* An incremental update never starts from a world that is not on the screen: no
\* packet and no state of the server is lost between two frames.
THEOREM CacheIsFresh == Spec => []CacheFresh
<1>1. IInv => CacheFresh
  BY DEF IInv
<1> QED BY <1>1, Inductive, PTL

\* What a state of the server, brought up to date, has executed is shown by the next frame,
\* and no frame takes it back.
THEOREM ToldStaysShown == Spec => ToldIsShown
<1>1. IInv /\ [Next]_vars => [Frame => \A t \in Tag : trueState.ran[t] <= state'.ran[t]]_vars
  BY SyncerAssumption, FrameShows
<1> QED BY <1>1, Inductive, PTL DEF Spec, ToldIsShown

\* Whatever the browser shows as done is waited for or on the server, however many
\* packets are lost, late, reported, outdated or executed, and over restarts.
THEOREM NothingIsInvented == Spec => []NothingInvented
<1>1. Init => IInv /\ Truthful
  BY SyncerAssumption, InitIInv, InitTruthful
<1>2. IInv /\ Truthful /\ [Next]_vars => IInv' /\ Truthful'
  BY SyncerAssumption, NextIInv, NextTruthful
<1>3. Truthful => NothingInvented
  BY DEF Truthful, Accounted, NothingInvented, Touched, Done, Predicted, OnServer
<1> QED BY <1>1, <1>2, <1>3, PTL DEF Spec

-----------------------------------------------------------------------------
(***************************************************************************)
(* A patch, operation by operation                                         *)
(***************************************************************************)

\* The first m documents of a patch.
Patches(p, doc, ds, m) ==
    p = [n \in 0..m |-> IF n = 0 THEN doc ELSE AfterOp(p[n - 1], ds[n])]

\* They exist, however long the patch is ...
LEMMA PatchesExist ==
    ASSUME NEW doc, NEW ds, NEW m \in Nat
    PROVE  \E p : Patches(p, doc, ds, m)
<1> DEFINE G == {n \in Nat : \E p : Patches(p, doc, ds, n)}
<1>1. 0 \in G
  <2> DEFINE p == [n \in 0..0 |-> doc]
  <2>1. Patches(p, doc, ds, 0)
    BY DEF Patches
  <2> QED BY <2>1
<1>2. ASSUME NEW n \in Nat, n \in G
      PROVE  n + 1 \in G
  <2>1. PICK p : Patches(p, doc, ds, n)
    BY <1>2
  <2> DEFINE q == [k \in 0..(n + 1) |-> IF k = n + 1 THEN AfterOp(p[n], ds[n + 1]) ELSE p[k]]
  <2>2. \A k \in 0..n : q[k] = p[k] /\ p[k] = IF k = 0 THEN doc ELSE AfterOp(p[k - 1], ds[k])
    BY <2>1 DEF Patches
  <2>3. q[n + 1] = AfterOp(p[n], ds[n + 1]) /\ q[n] = p[n]
    BY <2>2
  <2>4. q = [k \in 0..(n + 1) |-> q[k]]
    OBVIOUS
  <2> HIDE DEF q
  <2>5. ASSUME NEW k \in 0..(n + 1)
        PROVE  q[k] = IF k = 0 THEN doc ELSE AfterOp(q[k - 1], ds[k])
    <3>1. CASE k = n + 1
      BY <3>1, <2>3
    <3>2. CASE k = 0
      BY <3>2, <2>2
    <3>3. CASE k \in 1..n
      <4>1. k - 1 \in 0..n /\ k \in 0..n /\ k # 0
        BY <3>3
      <4> QED BY <4>1, <2>2
    <3> QED BY <3>1, <3>2, <3>3
  <2>6. Patches(q, doc, ds, n + 1)
    BY <2>4, <2>5 DEF Patches
  <2> QED BY <2>6
<1>3. Nat \subseteq G
  <2> HIDE DEF G
  <2>1. \A n \in Nat : n \in G => n + 1 \in G
    BY <1>2
  <2> QED BY <1>1, <2>1, Numbers
<1> QED BY <1>3

\* ... and Patching is them.
LEMMA PatchingIs ==
    ASSUME NEW doc, NEW ds, Len(ds) \in Nat
    PROVE  /\ Patching(doc, ds)[0] = doc
           /\ \A n \in 1..Len(ds) : Patching(doc, ds)[n] = AfterOp(Patching(doc, ds)[n - 1], ds[n])
<1> DEFINE q == Patching(doc, ds)
<1>1. q = CHOOSE p : Patches(p, doc, ds, Len(ds))
  BY DEF Patching, Patches
<1>2. Patches(q, doc, ds, Len(ds))
  BY <1>1, PatchesExist
<1> HIDE DEF q
<1>3. \A n \in 0..Len(ds) : q[n] = IF n = 0 THEN doc ELSE AfterOp(q[n - 1], ds[n])
  BY <1>2 DEF Patches
<1> QED BY <1>3 DEF q

-----------------------------------------------------------------------------
(***************************************************************************)
(* Runs of removals                                                        *)
(***************************************************************************)

\* A run ends where it must.
LEMMA RunEndIs ==
    ASSUME NEW ds, Len(ds) \in Nat, NEW i \in 1..Len(ds)
    PROVE  /\ RunEnd(ds, i) \in i..Len(ds)
           /\ \A k \in (i + 1)..RunEnd(ds, i) : InRun(ds, i, k)
           /\ ds[i].op # "remove" => RunEnd(ds, i) = i
           /\ ds[i].op = "remove" => \/ RunEnd(ds, i) = Len(ds)
                                     \/ ~InRun(ds, i, RunEnd(ds, i) + 1)
<1> DEFINE Ends(j) == j = Len(ds) \/ ~InRun(ds, i, j + 1)
           T == {j \in i..Len(ds) : Ends(j)}
           Run(j) == /\ \A k \in (i + 1)..j : InRun(ds, i, k)
                     /\ Ends(j)
<1>1. CASE ds[i].op # "remove"
  BY <1>1 DEF RunEnd
<1>2. CASE ds[i].op = "remove"
  <2>1. Len(ds) \in T /\ T \subseteq Nat /\ T \subseteq i..Len(ds)
    OBVIOUS
  <2>2. PICK j \in T : \A k \in T : j <= k
    <3> HIDE DEF T
    <3> QED BY <2>1, LeastNumber
  <2>3. \A k \in (i + 1)..j : InRun(ds, i, k)
    <3> SUFFICES ASSUME NEW k \in (i + 1)..j, ~InRun(ds, i, k)
                 PROVE  FALSE
      OBVIOUS
    <3>1. k - 1 \in i..Len(ds) /\ (k - 1) + 1 = k /\ ~(j <= k - 1)
      BY <2>1
    <3>2. k - 1 \in T
      BY <3>1
    <3> HIDE DEF T
    <3> QED BY <2>2, <3>1, <3>2
  <2>4. \E x \in i..Len(ds) : Run(x)
    BY <2>2, <2>3
  <2>5. RunEnd(ds, i) = CHOOSE x \in i..Len(ds) : Run(x)
    BY <1>2 DEF RunEnd
  <2> HIDE DEF Run
  <2>6. RunEnd(ds, i) \in i..Len(ds) /\ Run(RunEnd(ds, i))
    BY <2>4, <2>5
  <2> QED BY <1>2, <2>6 DEF Run
<1> QED BY <1>1, <1>2

\* The differences from i on, run by run.
Turns(f, ds, i) ==
    f = [k \in i..(Len(ds) + 1) |->
           IF k > Len(ds) THEN << >>
           ELSE Reverse(SubSeq(ds, k, RunEnd(ds, k))) \o f[RunEnd(ds, k) + 1]]

\* They exist for every list of differences.
LEMMA TurnsExist ==
    ASSUME NEW ds, Len(ds) \in Nat
    PROVE  \E f : Turns(f, ds, 1)
<1> DEFINE N == Len(ds)
           Val(f, k) == IF k > N THEN << >>
                        ELSE Reverse(SubSeq(ds, k, RunEnd(ds, k))) \o f[RunEnd(ds, k) + 1]
           G == {d \in Nat : d <= N => \E f : Turns(f, ds, N + 1 - d)}
<1>1. 0 \in G
  <2> DEFINE f == [k \in (N + 1)..(N + 1) |-> << >>]
  <2>1. ASSUME NEW k \in (N + 1)..(N + 1)
        PROVE  << >> = Val(f, k)
    <3>1. k > N
      <4> HIDE DEF Val
      <4> QED OBVIOUS
    <3> QED BY <3>1, Zenon
  <2>2. f = [k \in (N + 1)..(N + 1) |-> Val(f, k)]
    <3> HIDE DEF Val
    <3> QED BY <2>1
  <2>3. Turns(f, ds, N + 1)
    BY <2>2 DEF Turns
  <2> QED BY <2>3
<1>2. ASSUME NEW d \in Nat, d \in G
      PROVE  d + 1 \in G
  <2> SUFFICES ASSUME d + 1 <= N
               PROVE  \E f : Turns(f, ds, N - d)
    <3>1. N + 1 - (d + 1) = N - d
      OBVIOUS
    <3> QED BY <3>1
  <2> DEFINE i == N - d
  <2>1. i \in 1..N /\ N + 1 - d = i + 1
    OBVIOUS
  <2>2. PICK f : Turns(f, ds, i + 1)
    BY <1>2, <2>1
  <2>3. \A k \in (i + 1)..(N + 1) : f[k] = Val(f, k)
    BY <2>2 DEF Turns
  <2> DEFINE h == [k \in i..(N + 1) |-> IF k = i THEN Val(f, i) ELSE f[k]]
  <2>4. h[i] = Val(f, i) /\ \A k \in (i + 1)..(N + 1) : h[k] = f[k]
    <3> HIDE DEF Val
    <3> QED BY <2>1
  <2>5. h = [k \in i..(N + 1) |-> h[k]]
    OBVIOUS
  <2> HIDE DEF h
  <2>6. ASSUME NEW k \in i..(N + 1)
        PROVE  h[k] = Val(h, k)
    <3>1. Val(f, k) = Val(h, k)
      <4>1. CASE k > N
        BY <4>1
      <4>2. CASE ~(k > N)
        <5>1. k \in 1..N
          BY <2>1, <4>2
        <5>2. RunEnd(ds, k) \in k..N
          BY <5>1, RunEndIs
        <5>3. RunEnd(ds, k) + 1 \in (i + 1)..(N + 1)
          BY <2>1, <5>2
        <5> QED BY <2>4, <5>3
      <4> QED BY <4>1, <4>2
    <3> HIDE DEF Val
    <3>2. h[k] = Val(f, k)
      <4>1. k = i \/ k \in (i + 1)..(N + 1)
        BY <2>1
      <4> QED BY <2>3, <2>4, <4>1
    <3> QED BY <3>1, <3>2
  <2>7. h = [k \in i..(N + 1) |-> Val(h, k)]
    <3> HIDE DEF Val
    <3> QED BY <2>5, <2>6
  <2>8. Turns(h, ds, i)
    BY <2>7 DEF Turns
  <2> QED BY <2>8
<1>3. Nat \subseteq G
  <2> HIDE DEF G
  <2>1. \A n \in Nat : n \in G => n + 1 \in G
    BY <1>2
  <2> QED BY <1>1, <2>1, Numbers
<1>4. N \in G /\ N + 1 - N = 1
  BY <1>3
<1> QED BY <1>4

\* Where each difference was: b is the beginning of its run.
Spot(b, ds, n) == b[n] + RunEnd(ds, b[n]) - n

InBlocks(b, ds, i) ==
    /\ b \in [i..Len(ds) -> i..Len(ds)]
    /\ \A n \in i..Len(ds) : /\ b[n] <= n /\ n <= RunEnd(ds, b[n])
                             /\ \A m \in b[n]..RunEnd(ds, b[n]) : b[m] = b[n]

\* A run that is turned around, and what came out of the rest after it.
Turned(ds, i, e, t, q) ==
    /\ Len(q) = e - i + 1 + Len(t)
    /\ \A m \in 1..(e - i + 1) : q[m] = ds[e + 1 - m]
    /\ \A m \in 1..Len(t) : q[e - i + 1 + m] = t[m]

\* One run, put in the opposite order, and what is already in order after it.
LEMMA OneTurn ==
    ASSUME NEW ds, Len(ds) \in Nat, NEW i \in 1..Len(ds), NEW e \in i..Len(ds),
           NEW Kind, \A k \in 1..Len(ds) : ds[k] \in Kind, NEW t \in Seq(Kind)
    PROVE  /\ Reverse(SubSeq(ds, i, e)) \o t \in Seq(Kind)
           /\ Turned(ds, i, e, t, Reverse(SubSeq(ds, i, e)) \o t)
<1> DEFINE w == e - i + 1
           q == SubSeq(ds, i, e)
           r == Reverse(q)
<1>1. w \in Nat /\ \A m \in 1..w : i + m - 1 \in 1..Len(ds)
  OBVIOUS
<1>2. q = [m \in 1..w |-> ds[i + m - 1]]
  OBVIOUS
<1>3. Len(q) = w /\ \A m \in 1..w : q[m] = ds[i + m - 1]
  BY <1>1, <1>2
<1> HIDE DEF q
<1>4. r = [m \in 1..w |-> q[w - m + 1]]
  BY <1>3 DEF Reverse
<1>5. \A m \in 1..w : r[m] = ds[e + 1 - m] /\ r[m] \in Kind
  <2> SUFFICES ASSUME NEW m \in 1..w
               PROVE  r[m] = ds[e + 1 - m] /\ r[m] \in Kind
    OBVIOUS
  <2>1. w - m + 1 \in 1..w /\ i + (w - m + 1) - 1 = e + 1 - m /\ e + 1 - m \in 1..Len(ds)
    OBVIOUS
  <2> QED BY <1>3, <1>4, <2>1
<1>6. r \in Seq(Kind) /\ Len(r) = w
  <2> HIDE DEF r
  <2>1. r \in [1..w -> Kind]
    BY <1>4, <1>5 DEF r
  <2> HIDE DEF w
  <2> QED BY <1>1, <2>1
<1> HIDE DEF r, w
<1>7. /\ r \o t \in Seq(Kind)
      /\ Len(r \o t) = Len(r) + Len(t)
      /\ \A m \in 1..Len(r) : (r \o t)[m] = r[m]
      /\ \A m \in 1..Len(t) : (r \o t)[Len(r) + m] = t[m]
  BY <1>6
<1>8. Turned(ds, i, e, t, r \o t)
  BY <1>5, <1>6, <1>7 DEF Turned, w
<1> QED BY <1>7, <1>8 DEF r, q

\* The differences in their new order: each index is mirrored within its run.
LEMMA ReorderedIs ==
    ASSUME NEW ds, Len(ds) \in Nat
    PROVE  \E b : /\ InBlocks(b, ds, 1)
                  /\ Reordered(ds) = [n \in 1..Len(ds) |-> ds[Spot(b, ds, n)]]
<1> DEFINE N == Len(ds)
           S == {ds[k] : k \in 1..N}
           T == CHOOSE f : Turns(f, ds, 1)
           Is(b, i) == /\ InBlocks(b, ds, i)
                       /\ T[i] \in Seq(S) /\ Len(T[i]) = N + 1 - i
                       /\ \A n \in i..N : T[i][n - i + 1] = ds[Spot(b, ds, n)]
           G == {d \in Nat : \A i \in 1..(N + 1) : N + 1 - d <= i => \E b : Is(b, i)}
<1>1. Reordered(ds) = T[1]
  BY DEF Reordered, Turns
<1>2. \A k \in 1..(N + 1) : T[k] = IF k > N THEN << >>
                                  ELSE Reverse(SubSeq(ds, k, RunEnd(ds, k))) \o T[RunEnd(ds, k) + 1]
  <2>1. Turns(T, ds, 1)
    BY TurnsExist
  <2> HIDE DEF T
  <2> QED BY <2>1 DEF Turns
<1> HIDE DEF T
<1>3. 0 \in G
  <2> SUFFICES ASSUME NEW i \in 1..(N + 1), N + 1 - 0 <= i
               PROVE  \E b : Is(b, i)
    OBVIOUS
  <2>1. i = N + 1 /\ i > N
    OBVIOUS
  <2>2. T[i] = << >>
    BY <1>2, <2>1, Zenon
  <2>3. T[i] \in Seq(S) /\ Len(T[i]) = N + 1 - i
    <3> HIDE DEF S
    <3> QED BY <2>1, <2>2
  <2> DEFINE b == [n \in i..N |-> n]
  <2>4. InBlocks(b, ds, i) /\ \A n \in i..N : FALSE
    BY <2>1 DEF InBlocks
  <2> QED BY <2>3, <2>4
<1>4. ASSUME NEW d \in Nat, d \in G
      PROVE  d + 1 \in G
  <2> SUFFICES ASSUME NEW i \in 1..(N + 1), N + 1 - (d + 1) <= i
               PROVE  \E b : Is(b, i)
    <3> HIDE DEF Is
    <3>1. d + 1 \in Nat
      OBVIOUS
    <3> QED BY <3>1
  <2>1. \A k \in 1..(N + 1) : N + 1 - d <= k => \E b : Is(b, k)
    BY <1>4
  <2> DEFINE end == RunEnd(ds, i)
             w == end - i + 1
  <2>2. CASE N + 1 - d <= i
    BY <2>1, <2>2
  <2>3. CASE ~(N + 1 - d <= i)
    <3>1. i \in 1..N /\ i = N - d /\ ~(i > N)
      BY <2>3
    <3>2. end \in i..N
      BY <3>1, RunEndIs
    <3>3. PICK c : Is(c, end + 1)
      <4>1. end + 1 \in 1..(N + 1) /\ N + 1 - d <= end + 1
        BY <3>1, <3>2
      <4> HIDE DEF end, Is
      <4> QED BY <2>1, <4>1
    <3>4. T[i] = Reverse(SubSeq(ds, i, end)) \o T[end + 1]
      BY <1>2, <3>1, Zenon
    <3>5. \A k \in 1..N : ds[k] \in S
      OBVIOUS
    <3> HIDE DEF S
    <3>6. T[end + 1] \in Seq(S) /\ Len(T[end + 1]) = N - end
      <4> HIDE DEF end
      <4> QED BY <3>2, <3>3
    <3>7. /\ T[i] \in Seq(S)
          /\ Len(T[i]) = end - i + 1 + Len(T[end + 1])
          /\ \A m \in 1..(end - i + 1) : T[i][m] = ds[end + 1 - m]
          /\ \A m \in 1..Len(T[end + 1]) : T[i][end - i + 1 + m] = T[end + 1][m]
      <4> HIDE DEF end
      <4>1. T[i] \in Seq(S) /\ Turned(ds, i, end, T[end + 1], T[i])
        BY <3>1, <3>2, <3>4, <3>5, <3>6, OneTurn
      <4> QED BY <4>1 DEF Turned
    <3> DEFINE b == [n \in i..N |-> IF n <= end THEN i ELSE c[n]]
    <3>8. /\ \A n \in i..end : b[n] = i
          /\ \A n \in (end + 1)..N : b[n] = c[n]
      <4> HIDE DEF end
      <4> QED BY <3>1, <3>2
    <3>9. InBlocks(c, ds, end + 1)
      BY <3>3
    <3>10. \A n \in (end + 1)..N : /\ c[n] \in (end + 1)..N
                                /\ c[n] <= n /\ n <= RunEnd(ds, c[n])
                                /\ \A m \in c[n]..RunEnd(ds, c[n]) : c[m] = c[n]
      BY <3>9 DEF InBlocks
    <3>11. \A n \in i..N : n \in i..end \/ n \in (end + 1)..N
      <4> HIDE DEF end
      <4> QED BY <3>1, <3>2
    <3>12. b \in [i..N -> i..N]
      <4> HIDE DEF end
      <4>1. \A n \in i..N : (IF n <= end THEN i ELSE c[n]) \in i..N
        BY <3>1, <3>2, <3>10, <3>11
      <4> QED BY <4>1
    <3> HIDE DEF b
    <3>13. ASSUME NEW n \in i..N
           PROVE  /\ b[n] <= n /\ n <= RunEnd(ds, b[n])
                  /\ \A m \in b[n]..RunEnd(ds, b[n]) : b[m] = b[n]
      <4>1. CASE n \in i..end
        <5>1. b[n] = i /\ RunEnd(ds, b[n]) = end
          BY <3>8, <4>1
        <5> HIDE DEF end
        <5> QED BY <3>8, <4>1, <5>1
      <4>2. CASE n \in (end + 1)..N
        <5>1. b[n] = c[n]
          BY <3>8, <4>2
        <5>2. RunEnd(ds, c[n]) \in c[n]..N /\ c[n] \in (end + 1)..N
          <6>1. c[n] \in (end + 1)..N
            BY <3>10, <4>2
          <6>2. c[n] \in 1..N
            <7> HIDE DEF end
            <7> QED BY <3>1, <3>2, <6>1
          <6> QED BY <6>1, <6>2, RunEndIs
        <5>3. \A m \in c[n]..RunEnd(ds, c[n]) : m \in (end + 1)..N
          <6> HIDE DEF end
          <6> QED BY <3>1, <3>2, <5>2
        <5>4. \A m \in c[n]..RunEnd(ds, c[n]) : b[m] = c[n]
          BY <3>8, <3>10, <4>2, <5>3
        <5> QED BY <3>10, <4>2, <5>1, <5>4
      <4> QED BY <3>11, <4>1, <4>2
    <3>14. InBlocks(b, ds, i)
      BY <3>12, <3>13 DEF InBlocks
    <3>15. ASSUME NEW n \in i..N
           PROVE  T[i][n - i + 1] = ds[Spot(b, ds, n)]
      <4>1. CASE n \in i..end
        <5>1. Spot(b, ds, n) = i + end - n
          BY <3>8, <4>1 DEF Spot
        <5> HIDE DEF end
        <5>2. n - i + 1 \in 1..(end - i + 1) /\ end + 1 - (n - i + 1) = i + end - n
          BY <3>1, <3>2, <4>1
        <5> QED BY <3>7, <5>1, <5>2
      <4>2. CASE n \in (end + 1)..N
        <5>1. Spot(b, ds, n) = Spot(c, ds, n)
          BY <3>8, <4>2 DEF Spot
        <5>2. T[end + 1][n - (end + 1) + 1] = ds[Spot(c, ds, n)]
          BY <3>3, <4>2
        <5> HIDE DEF end
        <5>3. /\ n - end \in 1..Len(T[end + 1])
              /\ n - (end + 1) + 1 = n - end
              /\ end - i + 1 + (n - end) = n - i + 1
          BY <3>1, <3>2, <3>6, <4>2
        <5> QED BY <3>7, <5>1, <5>2, <5>3
      <4> QED BY <3>11, <4>1, <4>2
    <3>16. Len(T[i]) = N + 1 - i
      <4> HIDE DEF end
      <4> QED BY <3>1, <3>2, <3>6, <3>7
    <3> QED BY <3>7, <3>14, <3>15, <3>16 DEF S
  <2> QED BY <2>2, <2>3
<1>5. Nat \subseteq G
  <2> HIDE DEF G
  <2>1. \A n \in Nat : n \in G => n + 1 \in G
    BY <1>4
  <2> QED BY <1>3, <2>1, Numbers
<1>6. PICK b : Is(b, 1)
  <2> HIDE DEF Is
  <2>1. N \in G
    <3> HIDE DEF G
    <3> QED BY <1>5
  <2>2. N + 1 - N <= 1 /\ 1 \in 1..(N + 1)
    OBVIOUS
  <2> QED BY <2>1, <2>2
<1>7. Reordered(ds) = [n \in 1..N |-> ds[Spot(b, ds, n)]]
  <2>1. Len(T[1]) = N /\ T[1] \in Seq(S) /\ \A n \in 1..N : T[1][n] = ds[Spot(b, ds, n)]
    <3>1. N + 1 - 1 = N /\ \A n \in 1..N : n - 1 + 1 = n
      OBVIOUS
    <3> QED BY <1>6, <3>1
  <2> HIDE DEF S
  <2>2. T[1] = [n \in 1..N |-> T[1][n]]
    BY <2>1
  <2> QED BY <1>1, <2>1, <2>2
<1> QED BY <1>6, <1>7

-----------------------------------------------------------------------------
(***************************************************************************)
(* The differences between two states                                      *)
(***************************************************************************)

\* A state that a patch has half changed.
Halfway == [ticks : Nat, talk : Entry, arr : Seq(Entry)]

\* The entry is the first slot, and the field of element i the one numbered i + 2.
Slot(doc, c) == IF c = 1 THEN doc.talk ELSE doc.arr[c - 1]

Both(a, b) == IF Len(a.arr) < Len(b.arr) THEN Len(a.arr) ELSE Len(b.arr)

Slots(a, b) == 1..(Both(a, b) + 1)

Field(a, b, c) == IF c = 1 THEN from_change_type("talk", 0, a.talk, b.talk)
                  ELSE from_change_type("prop", c - 2, a.arr[c - 1], b.arr[c - 1])

\* What a change leaves in its slot.
Left(c) == IF c.op = "remove" THEN Missing ELSE c.val

\* What the difference of two values of one place is, and when there is none.
LEMMA FieldIs ==
    ASSUME NEW a \in States, NEW b \in States, NEW c \in Slots(a, b)
    PROVE  LET d == Field(a, b, c)
           IN  /\ Slot(a, c) \in Entry /\ Slot(b, c) \in Entry
               /\ c # 1 => Slot(a, c) \in Value \cup {Null} /\ Slot(b, c) \in Value \cup {Null}
               /\ d = Change(d.op, IF c = 1 THEN "talk" ELSE "prop",
                             IF c = 1 THEN 0 ELSE c - 2, Slot(b, c))
               /\ d.op = "unchanged" <=> Slot(a, c) = Slot(b, c)
               /\ d.op \in {"unchanged", "add", "remove", "replace"}
               /\ d.op \in {"remove", "replace"} => Slot(a, c) # Missing
               /\ d.op = "remove" => Slot(b, c) \in {Missing, Null}
               /\ Left(d) \in Entry
<1>1. /\ c # 1 => c - 1 \in 1..Len(a.arr) /\ c - 1 \in 1..Len(b.arr)
      /\ a.talk \in Entry /\ b.talk \in Entry
      /\ a.arr \in Seq(Value \cup {Null}) /\ b.arr \in Seq(Value \cup {Null})
  BY DEF Slots, Both, States
<1>2. /\ Slot(a, c) \in Entry /\ Slot(b, c) \in Entry
      /\ c # 1 => Slot(a, c) \in Value \cup {Null} /\ Slot(b, c) \in Value \cup {Null}
  BY <1>1 DEF Slot, Entry
<1>3. Field(a, b, c) = from_change_type(IF c = 1 THEN "talk" ELSE "prop",
                                        IF c = 1 THEN 0 ELSE c - 2, Slot(a, c), Slot(b, c))
  BY DEF Field, Slot
<1> DEFINE at == IF c = 1 THEN "talk" ELSE "prop"
           i == IF c = 1 THEN 0 ELSE c - 2
           old == Slot(a, c)
           new == Slot(b, c)
           d == from_change_type(at, i, old, new)
           op == d.op
<1> HIDE DEF at, i, old, new
<1>4. d = Change(op, at, i, new) /\ d.val = new
  BY DEF from_change_type, Change
<1>5. /\ op = "unchanged" <=> old = new
      /\ op \in {"unchanged", "add", "remove", "replace"}
      /\ op \in {"remove", "replace"} => old # Missing
      /\ op = "remove" => new \in {Missing, Null}
  BY DEF from_change_type, Change, Missing, Null
<1>6. Left(d) \in Entry
  BY <1>2, <1>4 DEF Left, Entry, new
<1> HIDE DEF d
<1> QED BY <1>2, <1>3, <1>4, <1>5, <1>6 DEF d, at, i, old, new

\* Where the differences are: first the slots that changed, in their order,
\* then the elements that are new or gone, then the ticks.
Grown(a, b) == Len(b.arr) - Both(a, b)
Gone(a, b) == Len(a.arr) - Both(a, b)

Layout(ds, a, b, g, k) ==
    /\ k \in Nat
    /\ g \in [1..k -> Slots(a, b)]
    /\ \A m, n \in 1..k : m < n => g[m] < g[n]
    /\ \A c \in Slots(a, b) : Slot(a, c) # Slot(b, c) => \E n \in 1..k : g[n] = c
    /\ \A n \in 1..k : Slot(a, g[n]) # Slot(b, g[n]) /\ ds[n] = Field(a, b, g[n])
    /\ Len(ds) = k + Grown(a, b) + Gone(a, b) + 1
    /\ \A x \in 1..Grown(a, b) :
         ds[k + x] = Change("add", "elem", Both(a, b) + x - 1, b.arr[Both(a, b) + x])
    /\ \A x \in 1..Gone(a, b) : ds[k + x] = Change("remove", "elem", Both(a, b) + x - 1, Null)
    /\ ds[Len(ds)] = Change("replace", "ticks", 0, b.ticks)

\* One sequence after another.
Joined(s, t, q) ==
    /\ Len(q) = Len(s) + Len(t)
    /\ \A n \in 1..Len(s) : q[n] = s[n]
    /\ \A n \in 1..Len(t) : q[Len(s) + n] = t[n]

\* Two lists, one after the other, index by index.
LEMMA JoinedIs ==
    ASSUME NEW S, NEW s \in Seq(S), NEW T, NEW t \in Seq(T)
    PROVE  s \o t \in Seq(S \cup T) /\ Joined(s, t, s \o t)
BY DEF Joined

\* The list of differences: the places that changed, what is new or what is gone, and the ticks.
LEMMA DiffIs ==
    ASSUME NEW a \in States, NEW b \in States
    PROVE  \E g, k : Layout(diff(a, b), a, b, g, k)
<1> DEFINE both == Both(a, b)
           kept == [i \in 1..both |-> from_change_type("prop", i - 1, a.arr[i], b.arr[i])]
           added == [i \in 1..(Len(b.arr) - both) |->
                       Change("add", "elem", both + i - 1, b.arr[both + i])]
           gone == [i \in 1..(Len(a.arr) - both) |-> Change("remove", "elem", both + i - 1, Null)]
           calls == <<from_change_type("talk", 0, a.talk, b.talk)>> \o kept
           S == {Field(a, b, c) : c \in Slots(a, b)}
           I == {n \in DOMAIN calls : calls[n].op # "unchanged"}
           r == Retained(calls, I)
           last == Change("replace", "ticks", 0, b.ticks)
<1>1. /\ Len(a.arr) \in Nat /\ Len(b.arr) \in Nat /\ both \in Nat
      /\ Grown(a, b) \in Nat /\ Gone(a, b) \in Nat
      /\ Grown(a, b) = 0 \/ Gone(a, b) = 0
  BY DEF States, Both, Grown, Gone
<1>2. diff(a, b) = r \o added \o gone \o <<last>>
  BY DEF diff, Noted, Both
<1>3. \A i \in 1..both : kept[i] = Field(a, b, i + 1) /\ i + 1 \in Slots(a, b)
  <2> SUFFICES ASSUME NEW i \in 1..both
               PROVE  kept[i] = Field(a, b, i + 1) /\ i + 1 \in Slots(a, b)
    OBVIOUS
  <2>1. i + 1 # 1 /\ i + 1 - 1 = i /\ i + 1 - 2 = i - 1 /\ i + 1 \in Slots(a, b)
    <3> HIDE DEF kept
    <3> QED BY <1>1 DEF Slots
  <2> QED BY <2>1 DEF Field
<1>4. /\ kept \in Seq(S) /\ Len(kept) = both
      /\ from_change_type("talk", 0, a.talk, b.talk) = Field(a, b, 1)
      /\ <<Field(a, b, 1)>> \in Seq(S) /\ Field(a, b, 1) \in S
  <2>1. kept \in [1..both -> S]
    BY <1>3
  <2>2. 1 \in Slots(a, b)
    BY <1>1 DEF Slots
  <2>3. Field(a, b, 1) \in S /\ from_change_type("talk", 0, a.talk, b.talk) = Field(a, b, 1)
    BY <2>2 DEF Field
  <2> HIDE DEF kept, both, S
  <2> QED BY <1>1, <2>1, <2>3
<1> HIDE DEF kept
<1>5. /\ calls \in Seq(S) /\ Len(calls) = both + 1 /\ DOMAIN calls = 1..(both + 1)
      /\ calls[1] = Field(a, b, 1)
      /\ \A i \in 1..both : calls[i + 1] = kept[i]
  <2> HIDE DEF both, S
  <2> QED BY <1>1, <1>4
<1> HIDE DEF calls
<1>6. \A c \in 1..(both + 1) : calls[c] = Field(a, b, c)
  <2> SUFFICES ASSUME NEW c \in 1..(both + 1), c # 1
               PROVE  calls[c] = Field(a, b, c)
    BY <1>5
  <2>1. c - 1 \in 1..both /\ c - 1 + 1 = c
    <3> HIDE DEF both
    <3> QED BY <1>1
  <2> QED BY <1>3, <1>5, <2>1
<1>7. /\ Slots(a, b) = 1..(both + 1)
      /\ \A c \in Slots(a, b) : c \in I <=> Slot(a, c) # Slot(b, c)
  <2>1. Slots(a, b) = 1..(both + 1)
    BY DEF Slots
  <2>2. \A c \in Slots(a, b) : Field(a, b, c).op = "unchanged" <=> Slot(a, c) = Slot(b, c)
    BY FieldIs
  <2> QED BY <1>5, <1>6, <2>1, <2>2
<1>8. I \subseteq 1..(both + 1) /\ I \in SUBSET (1..Len(calls))
  BY <1>5
<1> HIDE DEF I, S, both
<1>9. r \in Seq(S) /\ \E g : Picks(g, r, calls, I)
  BY <1>5, <1>8, RetainedProperties
<1>10. PICK g : Picks(g, r, calls, I)
  BY <1>9
<1> DEFINE k == Len(r)
<1>11. /\ k \in Nat
       /\ g \in [1..k -> I]
       /\ \A m, n \in 1..k : m < n => g[m] < g[n]
       /\ \A n \in 1..k : r[n] = calls[g[n]]
       /\ \A c \in I : \E n \in 1..k : g[n] = c
  BY <1>9, <1>10 DEF Picks, Increasing
<1> HIDE DEF r
<1>12. /\ added \in Seq({added[x] : x \in 1..Grown(a, b)}) /\ Len(added) = Grown(a, b)
       /\ gone \in Seq({gone[x] : x \in 1..Gone(a, b)}) /\ Len(gone) = Gone(a, b)
  <2>1. added \in [1..Grown(a, b) -> {added[x] : x \in 1..Grown(a, b)}]
    BY DEF Grown, both
  <2>2. gone \in [1..Gone(a, b) -> {gone[x] : x \in 1..Gone(a, b)}]
    BY DEF Gone, both
  <2> HIDE DEF added, gone
  <2> QED BY <1>1, <2>1, <2>2
<1>13. /\ \A x \in 1..Grown(a, b) :
            added[x] = Change("add", "elem", both + x - 1, b.arr[both + x])
       /\ \A x \in 1..Gone(a, b) : gone[x] = Change("remove", "elem", both + x - 1, Null)
  BY DEF Grown, Gone, both
<1> HIDE DEF added, gone, last
<1> DEFINE ds == r \o added \o gone \o <<last>>
<1>14. /\ Len(ds) = k + Grown(a, b) + Gone(a, b) + 1
       /\ \A n \in 1..k : ds[n] = r[n]
       /\ \A x \in 1..Grown(a, b) : ds[k + x] = added[x]
       /\ \A x \in 1..Gone(a, b) : ds[k + Grown(a, b) + x] = gone[x]
       /\ ds[k + Grown(a, b) + Gone(a, b) + 1] = last
  <2> DEFINE A == {added[x] : x \in 1..Grown(a, b)}
             G == {gone[x] : x \in 1..Gone(a, b)}
  <2> HIDE DEF A, G
  <2>1. added \in Seq(A) /\ gone \in Seq(G) /\ <<last>> \in Seq({last})
    BY <1>12 DEF A, G
  <2>2. r \o added \in Seq(S \cup A) /\ Joined(r, added, r \o added)
    BY <1>9, <2>1, JoinedIs
  <2> DEFINE ra == r \o added
  <2> HIDE DEF ra
  <2>3. ra \o gone \in Seq((S \cup A) \cup G) /\ Joined(ra, gone, ra \o gone)
    BY <2>1, <2>2, JoinedIs DEF ra
  <2> DEFINE rag == ra \o gone
  <2> HIDE DEF rag
  <2>4. Joined(rag, <<last>>, rag \o <<last>>)
    BY <2>1, <2>3, JoinedIs DEF rag
  <2>5. /\ Len(ra) = k + Grown(a, b)
        /\ \A n \in 1..k : ra[n] = r[n]
        /\ \A x \in 1..Grown(a, b) : ra[k + x] = added[x]
    BY <1>12, <2>2 DEF Joined, ra
  <2>6. /\ Len(rag) = k + Grown(a, b) + Gone(a, b)
        /\ \A n \in 1..(k + Grown(a, b)) : rag[n] = ra[n]
        /\ \A x \in 1..Gone(a, b) : rag[k + Grown(a, b) + x] = gone[x]
    BY <1>12, <2>3, <2>5 DEF Joined, rag
  <2>7. /\ Len(ds) = k + Grown(a, b) + Gone(a, b) + 1
        /\ \A n \in 1..(k + Grown(a, b) + Gone(a, b)) : ds[n] = rag[n]
        /\ ds[k + Grown(a, b) + Gone(a, b) + 1] = last
    BY <2>4, <2>6 DEF Joined, ds, ra, rag
  <2> HIDE DEF ds, k
  <2>8. \A n \in 1..k : n \in 1..(k + Grown(a, b)) /\ n \in 1..(k + Grown(a, b) + Gone(a, b))
    BY <1>1, <1>11
  <2>9. \A x \in 1..Grown(a, b) : /\ k + x \in 1..(k + Grown(a, b))
                                  /\ k + x \in 1..(k + Grown(a, b) + Gone(a, b))
    BY <1>1, <1>11
  <2>10. \A x \in 1..Gone(a, b) :
          k + Grown(a, b) + x \in 1..(k + Grown(a, b) + Gone(a, b))
    BY <1>1, <1>11
  <2> QED BY <2>5, <2>6, <2>7, <2>8, <2>9, <2>10
<1> HIDE DEF ds
<1>15. g \in [1..k -> Slots(a, b)] /\ \A n \in 1..k : g[n] \in I
  <2> HIDE DEF k
  <2> QED BY <1>7, <1>8, <1>11
<1>16. \A n \in 1..k : Slot(a, g[n]) # Slot(b, g[n]) /\ ds[n] = Field(a, b, g[n])
  <2> HIDE DEF k
  <2> QED BY <1>6, <1>7, <1>11, <1>14, <1>15
<1>17. \A x \in 1..Gone(a, b) : ds[k + x] = gone[x]
  <2> SUFFICES ASSUME NEW x \in 1..Gone(a, b)
               PROVE  ds[k + x] = gone[x]
    OBVIOUS
  <2>1. Grown(a, b) = 0 /\ k + Grown(a, b) + x = k + x
    BY <1>1, <1>11
  <2> HIDE DEF k
  <2> QED BY <1>14, <2>1
<1>18. Layout(ds, a, b, g, k)
  <2>1. ds[Len(ds)] = Change("replace", "ticks", 0, b.ticks)
    BY <1>14 DEF last
  <2>2. /\ \A x \in 1..Grown(a, b) :
             ds[k + x] = Change("add", "elem", both + x - 1, b.arr[both + x])
        /\ \A x \in 1..Gone(a, b) : ds[k + x] = Change("remove", "elem", both + x - 1, Null)
    BY <1>13, <1>14, <1>17
  <2>3. \A c \in Slots(a, b) : Slot(a, c) # Slot(b, c) => \E n \in 1..k : g[n] = c
    BY <1>7, <1>11
  <2> HIDE DEF k
  <2> QED BY <1>11, <1>14, <1>15, <1>16, <2>1, <2>2, <2>3 DEF Layout, both
<1> QED BY <1>2, <1>18 DEF ds

\* Turning the runs around moves each difference within its run, and what is
\* no removal stays in its place.
LEMMA SpotIs ==
    ASSUME NEW ds, Len(ds) \in Nat, NEW b, InBlocks(b, ds, 1), NEW n \in 1..Len(ds)
    PROVE  /\ b[n] \in 1..n /\ RunEnd(ds, b[n]) \in n..Len(ds)
           /\ b[b[n]] = b[n]
           /\ Spot(b, ds, n) \in b[n]..RunEnd(ds, b[n])
           /\ Spot(b, ds, n) \in 1..Len(ds)
           /\ b[Spot(b, ds, n)] = b[n]
           /\ Spot(b, ds, Spot(b, ds, n)) = n
           /\ ds[n].op # "remove" => b[n] = n /\ Spot(b, ds, n) = n
<1> DEFINE N == Len(ds)
           e == RunEnd(ds, b[n])
<1>1. /\ b \in [1..N -> 1..N]
      /\ b[n] <= n /\ n <= e
      /\ \A m \in b[n]..e : b[m] = b[n]
  BY DEF InBlocks
<1>2. b[n] \in 1..N
  BY <1>1
<1>3. e \in b[n]..N /\ \A k \in (b[n] + 1)..e : InRun(ds, b[n], k)
  BY <1>2, RunEndIs
<1> HIDE DEF e
<1>4. b[n] \in 1..n /\ e \in n..N
  BY <1>1, <1>2, <1>3
<1>5. b[b[n]] = b[n]
  BY <1>1, <1>4
<1>6. Spot(b, ds, n) = b[n] + e - n
  BY DEF Spot, e
<1>7. Spot(b, ds, n) \in b[n]..e /\ Spot(b, ds, n) \in 1..N
  BY <1>4, <1>6
<1>8. b[Spot(b, ds, n)] = b[n]
  BY <1>1, <1>7
<1>9. Spot(b, ds, Spot(b, ds, n)) = n
  <2>1. Spot(b, ds, Spot(b, ds, n)) = b[n] + e - Spot(b, ds, n)
    BY <1>8 DEF Spot, e
  <2> QED BY <1>4, <1>6, <2>1
<1>10. ASSUME ds[n].op # "remove"
       PROVE  b[n] = n /\ Spot(b, ds, n) = n
  <2>1. b[n] = n
    <3> SUFFICES ASSUME b[n] # n
                 PROVE  FALSE
      OBVIOUS
    <3>1. n \in (b[n] + 1)..e
      BY <1>4
    <3>2. InRun(ds, b[n], n)
      BY <1>3, <3>1
    <3> QED BY <1>10, <3>2 DEF InRun
  <2>2. e = n
    BY <1>10, <2>1, RunEndIs DEF e
  <2> QED BY <1>6, <2>1, <2>2
<1> QED BY <1>4, <1>5, <1>7, <1>8, <1>9, <1>10 DEF e

-----------------------------------------------------------------------------
(***************************************************************************)
(* Each operation on a state that is half changed                          *)
(***************************************************************************)

\* A document that is half patched is never the one that stands for a failure.
LEMMA HalfwayIsNotBad ==
    ASSUME NEW doc \in Halfway
    PROVE  /\ doc # Bad
           /\ doc.ticks \in Nat /\ doc.talk \in Entry /\ doc.arr \in Seq(Entry)
           /\ Len(doc.arr) \in Nat
           /\ \A x \in 1..Len(doc.arr) : doc.arr[x] \in Entry
<1>1. "bad" \notin Entry
  BY ReplayAssumption DEF Entry, Missing, Null
<1>2. doc.ticks \in Nat /\ doc.talk \in Entry /\ doc.arr \in Seq(Entry)
  BY DEF Halfway
<1>3. doc # Bad
  BY <1>1, <1>2 DEF Bad
<1> HIDE DEF Entry
<1> QED BY <1>2, <1>3

\* a changed into b in the slots of D and nowhere else, up to the elements
\* that only one of them has.
Changed(a, b, D, doc) ==
    /\ doc \in Halfway
    /\ doc.ticks = a.ticks
    /\ Len(doc.arr) >= Both(a, b)
    /\ \A c \in Slots(a, b) : Slot(doc, c) = IF c \in D THEN Left(Field(a, b, c)) ELSE Slot(a, c)

\* A changed place is brought from a to b, whatever else was changed before.
LEMMA FieldStep ==
    ASSUME NEW a \in States, NEW b \in States, NEW D, NEW doc, Changed(a, b, D, doc),
           NEW c \in Slots(a, b), c \notin D, Slot(a, c) # Slot(b, c)
    PROVE  LET new == AfterOp(doc, Field(a, b, c))
           IN  /\ Changed(a, b, D \cup {c}, new)
               /\ Len(new.arr) = Len(doc.arr)
               /\ \A x \in (Both(a, b) + 1)..Len(doc.arr) : new.arr[x] = doc.arr[x]
<1> DEFINE d == Field(a, b, c)
           new == AfterOp(doc, d)
<1>1. /\ d = Change(d.op, IF c = 1 THEN "talk" ELSE "prop",
                    IF c = 1 THEN 0 ELSE c - 2, Slot(b, c))
      /\ d.op \in {"add", "remove", "replace"}
      /\ d.op \in {"remove", "replace"} => Slot(a, c) # Missing
      /\ Left(d) \in Entry
  BY FieldIs
<1> HIDE DEF d
<1>2. /\ d.at = (IF c = 1 THEN "talk" ELSE "prop") /\ d.i = (IF c = 1 THEN 0 ELSE c - 2)
      /\ d.val = Slot(b, c)
  BY <1>1 DEF Change
<1>3. doc \in Halfway /\ doc # Bad /\ doc.ticks = a.ticks /\ Len(doc.arr) >= Both(a, b)
  BY HalfwayIsNotBad DEF Changed
<1>4. doc.ticks \in Nat /\ doc.talk \in Entry /\ doc.arr \in Seq(Entry) /\ Len(doc.arr) \in Nat
  BY <1>3, HalfwayIsNotBad
<1>5. Slot(doc, c) = Slot(a, c) /\ Both(a, b) \in Nat
  BY DEF Changed, Both, States
<1>6. CASE c = 1
  <2>1. new = [doc EXCEPT !.talk = Left(d)]
    <3>1. d.op # "add" => doc.talk # Missing
      BY <1>1, <1>5, <1>6 DEF Slot
    <3>2. d.at = "talk"
      BY <1>2, <1>6
    <3> QED BY <1>1, <1>3, <3>1, <3>2 DEF AfterOp, Left
  <2> HIDE DEF new
  <2>2. new \in Halfway /\ new.talk = Left(d) /\ new.ticks = doc.ticks /\ new.arr = doc.arr
    BY <1>1, <1>3, <2>1 DEF Halfway
  <2>3. \A s \in Slots(a, b) : Slot(new, s) = IF s = c THEN Left(d) ELSE Slot(doc, s)
    BY <1>6, <2>2 DEF Slot
  <2>4. Changed(a, b, D \cup {c}, new)
    BY <1>3, <2>2, <2>3 DEF Changed, d
  <2> QED BY <2>2, <2>4 DEF new, d
<1>7. CASE c # 1
  <2>1. c - 1 \in 1..Both(a, b) /\ c - 1 \in 1..Len(doc.arr) /\ c \in Nat
    BY <1>3, <1>4, <1>5, <1>7 DEF Slots
  <2>2. new = [doc EXCEPT !.arr[c - 1] = Left(d)]
    <3>1. d.op # "add" => doc.arr[c - 1] # Missing
      BY <1>1, <1>5, <1>7 DEF Slot
    <3>2. d.at = "prop" /\ d.i = c - 2
      BY <1>2, <1>7
    <3>3. ~(d.i >= Len(doc.arr)) /\ d.i + 1 = c - 1
      BY <1>4, <2>1, <3>2
    <3> QED BY <1>1, <1>3, <3>1, <3>2, <3>3 DEF AfterOp, Left
  <2>3. /\ [doc.arr EXCEPT ![c - 1] = Left(d)] \in Seq(Entry)
        /\ Len([doc.arr EXCEPT ![c - 1] = Left(d)]) = Len(doc.arr)
    <3> HIDE DEF Entry
    <3> QED BY <1>1, <1>4, <2>1
  <2> HIDE DEF new
  <2>4. /\ new.arr = [doc.arr EXCEPT ![c - 1] = Left(d)]
        /\ new.ticks = doc.ticks /\ new.talk = doc.talk /\ new \in Halfway
    BY <1>3, <2>2, <2>3 DEF Halfway
  <2>5. \A x \in 1..Len(doc.arr) : new.arr[x] = IF x = c - 1 THEN Left(d) ELSE doc.arr[x]
    BY <1>4, <2>4
  <2>6. ASSUME NEW s \in Slots(a, b)
        PROVE  Slot(new, s) = IF s = c THEN Left(d) ELSE Slot(doc, s)
    <3>1. CASE s = 1
      BY <1>7, <2>4, <3>1 DEF Slot
    <3>2. CASE s # 1
      <4>1. s - 1 \in 1..Len(doc.arr) /\ (s - 1 = c - 1 <=> s = c)
        BY <1>3, <1>4, <1>5, <3>2 DEF Slots
      <4> QED BY <2>5, <3>2, <4>1 DEF Slot
    <3> QED BY <3>1, <3>2
  <2>7. Changed(a, b, D \cup {c}, new)
    <3>1. Len(new.arr) = Len(doc.arr)
      BY <2>3, <2>4
    <3> QED BY <1>3, <2>4, <2>6, <3>1 DEF Changed, d
  <2>8. \A x \in (Both(a, b) + 1)..Len(doc.arr) : new.arr[x] = doc.arr[x]
    BY <1>5, <2>1, <2>5
  <2> QED BY <2>3, <2>4, <2>7, <2>8 DEF new, d
<1> QED BY <1>6, <1>7

\* The next new element is appended.
LEMMA AddStep ==
    ASSUME NEW a \in States, NEW b \in States, NEW D, NEW doc, Changed(a, b, D, doc),
           NEW v \in Value \cup {Null}
    PROVE  LET new == AfterOp(doc, Change("add", "elem", Len(doc.arr), v))
           IN  Changed(a, b, D, new) /\ new.arr = Append(doc.arr, v)
<1> DEFINE d == Change("add", "elem", Len(doc.arr), v)
           new == AfterOp(doc, d)
<1>1. doc \in Halfway /\ doc # Bad /\ doc.arr \in Seq(Entry) /\ Len(doc.arr) \in Nat /\ v \in Entry
  BY HalfwayIsNotBad DEF Changed, Entry
<1>2. InsertAt(doc.arr, Len(doc.arr) + 1, v) = Append(doc.arr, v)
  <2> HIDE DEF Entry
  <2>1. SubSeq(doc.arr, 1, (Len(doc.arr) + 1) - 1) = doc.arr
    BY <1>1
  <2>2. SubSeq(doc.arr, Len(doc.arr) + 1, Len(doc.arr)) = << >>
    BY <1>1
  <2>3. (doc.arr \o <<v>>) \o << >> = Append(doc.arr, v)
    BY <1>1
  <2>4. InsertAt(doc.arr, Len(doc.arr) + 1, v)
          = SubSeq(doc.arr, 1, (Len(doc.arr) + 1) - 1) \o <<v>>
              \o SubSeq(doc.arr, Len(doc.arr) + 1, Len(doc.arr))
    BY Zenon DEF InsertAt
  <2> QED BY <2>1, <2>2, <2>3, <2>4, Zenon
<1>3. new = [doc EXCEPT !.arr = InsertAt(doc.arr, Len(doc.arr) + 1, v)]
  BY <1>1 DEF AfterOp, Change
<1>4. Append(doc.arr, v) \in Seq(Entry) /\ Len(Append(doc.arr, v)) = Len(doc.arr) + 1
      /\ \A x \in 1..Len(doc.arr) : Append(doc.arr, v)[x] = doc.arr[x]
  <2> HIDE DEF Entry
  <2> QED BY <1>1
<1> HIDE DEF new
<1>5. /\ new \in Halfway /\ new.ticks = doc.ticks /\ new.talk = doc.talk
      /\ new.arr = Append(doc.arr, v)
  BY <1>1, <1>2, <1>3, <1>4 DEF Halfway
<1>6. Both(a, b) \in Nat /\ Len(doc.arr) >= Both(a, b)
  BY DEF Both, States, Changed
<1>7. ASSUME NEW c \in Slots(a, b)
      PROVE  Slot(new, c) = Slot(doc, c)
  <2>1. c # 1 => c - 1 \in 1..Len(doc.arr)
    BY <1>1, <1>6 DEF Slots
  <2> QED BY <1>4, <1>5, <2>1 DEF Slot
<1>8. Changed(a, b, D, new)
  BY <1>1, <1>4, <1>5, <1>6, <1>7 DEF Changed
<1> QED BY <1>5, <1>8 DEF new

\* An element that is gone from b is removed, or the array is too short already.
LEMMA GoneStep ==
    ASSUME NEW a \in States, NEW b \in States, NEW D, NEW doc, Changed(a, b, D, doc),
           NEW i \in Nat, i >= Both(a, b)
    PROVE  LET new == AfterOp(doc, Change("remove", "elem", i, Null))
           IN  /\ i < Len(doc.arr) => Changed(a, b, D, new) /\ Len(new.arr) = Len(doc.arr) - 1
               /\ i >= Len(doc.arr) => new = Bad
<1> DEFINE d == Change("remove", "elem", i, Null)
           new == AfterOp(doc, d)
           s == SubSeq(doc.arr, 1, i)
           t == SubSeq(doc.arr, i + 2, Len(doc.arr))
<1>1. doc \in Halfway /\ doc # Bad /\ doc.arr \in Seq(Entry) /\ Len(doc.arr) \in Nat
  BY HalfwayIsNotBad DEF Changed
<1>2. new = IF i >= Len(doc.arr) THEN Bad ELSE [doc EXCEPT !.arr = RemoveAt(doc.arr, i + 1)]
  BY <1>1 DEF AfterOp, Change
<1>3. ASSUME i < Len(doc.arr)
      PROVE  Changed(a, b, D, new) /\ Len(new.arr) = Len(doc.arr) - 1
  <2>1. RemoveAt(doc.arr, i + 1) = s \o t
    <3>1. (i + 1) - 1 = i /\ i + 1 + 1 = i + 2
      OBVIOUS
    <3>2. RemoveAt(doc.arr, i + 1)
            = SubSeq(doc.arr, 1, (i + 1) - 1) \o SubSeq(doc.arr, i + 1 + 1, Len(doc.arr))
      BY Zenon DEF RemoveAt
    <3> QED BY <3>1, <3>2, Zenon
  <2>2. /\ s \in Seq(Entry) /\ Len(s) = i /\ \A x \in 1..i : s[x] = doc.arr[x]
        /\ t \in Seq(Entry) /\ Len(t) = Len(doc.arr) - 1 - i
    <3> HIDE DEF Entry
    <3> QED BY <1>1, <1>3
  <2> HIDE DEF s, t
  <2>3. s \o t \in Seq(Entry) /\ Joined(s, t, s \o t)
    <3>1. s \o t \in Seq(Entry \cup Entry) /\ Joined(s, t, s \o t)
      BY <2>2, JoinedIs
    <3>2. Entry \cup Entry = Entry
      OBVIOUS
    <3> QED BY <3>1, <3>2
  <2>4. Len(s \o t) = Len(doc.arr) - 1 /\ \A x \in 1..i : (s \o t)[x] = doc.arr[x]
    BY <1>1, <2>2, <2>3 DEF Joined
  <2>5. new = [doc EXCEPT !.arr = s \o t]
    BY <1>1, <1>2, <1>3, <2>1
  <2> HIDE DEF new
  <2>6. /\ new \in Halfway /\ new.ticks = doc.ticks /\ new.talk = doc.talk
        /\ new.arr = s \o t
    BY <1>1, <2>3, <2>5 DEF Halfway
  <2>7. Both(a, b) \in Nat
    BY DEF Both, States
  <2>8. ASSUME NEW c \in Slots(a, b)
        PROVE  Slot(new, c) = Slot(doc, c)
    <3>1. c # 1 => c - 1 \in 1..i
      BY <2>7 DEF Slots
    <3> QED BY <2>4, <2>6, <3>1 DEF Slot
  <2>9. Changed(a, b, D, new)
    BY <1>1, <1>3, <2>4, <2>6, <2>7, <2>8 DEF Changed
  <2> QED BY <2>4, <2>6, <2>9
<1> QED BY <1>2, <1>3

\* The last operation sets the ticks; then b is there.
Good(doc, b) ==
    /\ doc \in States
    /\ doc.ticks = b.ticks
    /\ doc.arr = b.arr
    /\ Tidy(doc) = Tidy(b)

\* When every place and the length are as in b, the ticks complete it.
LEMMA LastStep ==
    ASSUME NEW a \in States, NEW b \in States, NEW D, NEW doc, Changed(a, b, D, doc),
           \A c \in Slots(a, b) : Slot(a, c) # Slot(b, c) => c \in D,
           Len(doc.arr) = Len(b.arr),
           \A x \in (Both(a, b) + 1)..Len(b.arr) : doc.arr[x] = b.arr[x]
    PROVE  Good(Typed(AfterOp(doc, Change("replace", "ticks", 0, b.ticks))), b)
<1> DEFINE last == AfterOp(doc, Change("replace", "ticks", 0, b.ticks))
           new == Typed(last)
<1>1. doc \in Halfway /\ doc # Bad /\ doc.arr \in Seq(Entry) /\ Len(doc.arr) \in Nat
  BY HalfwayIsNotBad DEF Changed
<1>2. /\ b.ticks \in Nat /\ b.talk \in Entry /\ b.arr \in Seq(Value \cup {Null})
      /\ a.talk \in Entry /\ Both(a, b) \in Nat /\ Missing # Null /\ Missing \notin Value
  BY ReplayAssumption DEF States, Both, Missing, Null
<1>3. last = [doc EXCEPT !.ticks = b.ticks]
  BY <1>1 DEF AfterOp, Change
<1> HIDE DEF last
<1>4. last.ticks = b.ticks /\ last.talk = doc.talk /\ last.arr = doc.arr /\ last \in Halfway
  BY <1>1, <1>2, <1>3 DEF Halfway
<1>5. ASSUME NEW c \in Slots(a, b)
      PROVE  /\ Slot(doc, c) # Slot(b, c) => Slot(doc, c) = Missing /\ Slot(b, c) \in {Missing, Null}
             /\ c # 1 => Slot(b, c) \in Value \cup {Null}
  <2> DEFINE d == Field(a, b, c)
  <2>1. /\ c # 1 => Slot(b, c) \in Value \cup {Null}
        /\ d = Change(d.op, IF c = 1 THEN "talk" ELSE "prop", IF c = 1 THEN 0 ELSE c - 2, Slot(b, c))
        /\ d.op = "remove" => Slot(b, c) \in {Missing, Null}
    BY FieldIs
  <2> HIDE DEF d
  <2>2. d.val = Slot(b, c)
    BY <2>1 DEF Change
  <2>3. Slot(doc, c) = IF c \in D THEN Left(d) ELSE Slot(a, c)
    BY DEF Changed, d
  <2>4. CASE c \in D
    BY <2>1, <2>2, <2>3, <2>4 DEF Left
  <2>5. CASE c \notin D
    BY <2>1, <2>3, <2>5
  <2> QED BY <2>4, <2>5
<1>6. ASSUME NEW x \in 1..Len(b.arr)
      PROVE  (IF doc.arr[x] = Missing THEN Null ELSE doc.arr[x]) = b.arr[x]
  <2>1. b.arr[x] \in Value \cup {Null}
    BY <1>2
  <2>2. CASE x \in 1..Both(a, b)
    <3>1. x + 1 \in Slots(a, b) /\ x + 1 # 1 /\ x + 1 - 1 = x
      BY <1>2, <2>2 DEF Slots
    <3>2. Slot(doc, x + 1) = doc.arr[x] /\ Slot(b, x + 1) = b.arr[x]
      BY <3>1 DEF Slot
    <3> QED BY <1>2, <1>5, <2>1, <3>1, <3>2
  <2>3. CASE x \in (Both(a, b) + 1)..Len(b.arr)
    BY <1>2, <2>1, <2>3
  <2> QED BY <1>2, <2>2, <2>3
<1>7. new = [last EXCEPT !.arr = [i \in DOMAIN last.arr |->
                                    IF last.arr[i] = Missing THEN Null ELSE last.arr[i]]]
  BY DEF Typed
<1>8. [i \in DOMAIN last.arr |-> IF last.arr[i] = Missing THEN Null ELSE last.arr[i]] = b.arr
  <2>1. DOMAIN last.arr = 1..Len(b.arr) /\ b.arr = [i \in 1..Len(b.arr) |-> b.arr[i]]
    <3> HIDE DEF Entry
    <3> QED BY <1>1, <1>2, <1>4
  <2> QED BY <1>4, <1>6, <2>1
<1> HIDE DEF new
<1>9. new = [last EXCEPT !.arr = b.arr]
  BY <1>7, <1>8
<1>10. new.ticks = b.ticks /\ new.arr = b.arr /\ new.talk = doc.talk /\ new \in States
  BY <1>1, <1>2, <1>4, <1>9 DEF States, Halfway
<1>11. doc.talk # b.talk => doc.talk = Missing /\ b.talk \in {Missing, Null}
  <2>1. 1 \in Slots(a, b) /\ Slot(doc, 1) = doc.talk /\ Slot(b, 1) = b.talk
    BY <1>2 DEF Slots, Slot
  <2> QED BY <1>5, <2>1
<1>12. Tidy(new) = Tidy(b)
  <2>1. /\ new = [ticks |-> new.ticks, talk |-> new.talk, arr |-> new.arr]
        /\ b = [ticks |-> b.ticks, talk |-> b.talk, arr |-> b.arr]
    BY <1>10 DEF States
  <2>2. (IF new.talk = Null THEN Missing ELSE new.talk) = IF b.talk = Null THEN Missing ELSE b.talk
    BY <1>2, <1>10, <1>11
  <2> QED BY <1>10, <2>1, <2>2 DEF Tidy
<1> QED BY <1>10, <1>12 DEF Good, new, last

-----------------------------------------------------------------------------
(***************************************************************************)
(* All the operations of a batch                                           *)
(***************************************************************************)

Laid(a, b, ds, g, k, w) == Layout(ds, a, b, g, k) /\ InBlocks(w, ds, 1)

\* Where the parts of a list of differences begin and end.
LEMMA LaidIs ==
    ASSUME NEW a \in States, NEW b \in States, NEW ds, NEW g, NEW k, NEW w,
           Laid(a, b, ds, g, k, w)
    PROVE  /\ k \in Nat /\ Both(a, b) \in Nat /\ Grown(a, b) \in Nat /\ Gone(a, b) \in Nat
           /\ Len(a.arr) = Both(a, b) + Gone(a, b) /\ Len(b.arr) = Both(a, b) + Grown(a, b)
           /\ Len(ds) = k + Grown(a, b) + Gone(a, b) + 1
           /\ Grown(a, b) = 0 \/ Gone(a, b) = 0
           /\ \A x \in 1..k : /\ g[x] \in Slots(a, b) /\ Slot(a, g[x]) # Slot(b, g[x])
                              /\ ds[x] = Field(a, b, g[x])
           /\ \A x \in 1..Grown(a, b) :
                ds[k + x] = Change("add", "elem", Both(a, b) + x - 1, b.arr[Both(a, b) + x])
           /\ \A x \in 1..Gone(a, b) : ds[k + x] = Change("remove", "elem", Both(a, b) + x - 1, Null)
           /\ ds[Len(ds)] = Change("replace", "ticks", 0, b.ticks)
<1>1. /\ Len(a.arr) \in Nat /\ Len(b.arr) \in Nat
  BY DEF States
<1>2. /\ Both(a, b) \in Nat /\ Grown(a, b) \in Nat /\ Gone(a, b) \in Nat
      /\ Len(a.arr) = Both(a, b) + Gone(a, b) /\ Len(b.arr) = Both(a, b) + Grown(a, b)
      /\ Grown(a, b) = 0 \/ Gone(a, b) = 0
  BY <1>1 DEF Both, Grown, Gone
<1>3. Layout(ds, a, b, g, k)
  BY DEF Laid
<1>4. \A x \in 1..k : g[x] \in Slots(a, b)
  BY <1>3 DEF Layout
<1> QED BY <1>2, <1>3, <1>4 DEF Layout

\* The slots that the first n operations changed.
Applied(ds, g, k, w, n) == {g[Spot(w, ds, x)] : x \in {y \in 1..n : Spot(w, ds, y) \in 1..k}}

\* An operation on a slot ...
LEMMA SlotStep ==
    ASSUME NEW a \in States, NEW b \in States, NEW ds, NEW g, NEW k, NEW w,
           Laid(a, b, ds, g, k, w),
           NEW n \in 1..Len(ds), Spot(w, ds, n) \in 1..k,
           NEW doc, Changed(a, b, Applied(ds, g, k, w, n - 1), doc)
    PROVE  LET new == AfterOp(doc, ds[Spot(w, ds, n)])
           IN  /\ Changed(a, b, Applied(ds, g, k, w, n), new)
               /\ Len(new.arr) = Len(doc.arr)
               /\ \A x \in (Both(a, b) + 1)..Len(doc.arr) : new.arr[x] = doc.arr[x]
<1> DEFINE c == g[Spot(w, ds, n)]
           D == Applied(ds, g, k, w, n - 1)
<1>1. Len(ds) \in Nat /\ k \in Nat /\ InBlocks(w, ds, 1)
  <2>1. InBlocks(w, ds, 1)
    BY DEF Laid
  <2> QED BY <2>1, LaidIs
<1>2. c \in Slots(a, b) /\ Slot(a, c) # Slot(b, c) /\ ds[Spot(w, ds, n)] = Field(a, b, c)
  BY LaidIs
<1>3. \A x, y \in 1..k : x < y => g[x] < g[y]
  BY DEF Laid, Layout
<1>4. \A x \in 1..k : g[x] \in Nat
  <2>1. \A x \in 1..k : g[x] \in Slots(a, b)
    BY LaidIs
  <2>2. Both(a, b) \in Nat
    BY LaidIs
  <2> QED BY <2>1, <2>2 DEF Slots
<1>5. \A x, y \in 1..k : g[x] = g[y] => x = y
  <2> SUFFICES ASSUME NEW x \in 1..k, NEW y \in 1..k, x # y
               PROVE  g[x] # g[y]
    OBVIOUS
  <2>1. x < y \/ y < x
    BY <1>1
  <2> QED BY <1>3, <1>4, <2>1
<1>6. c \notin D
  <2> SUFFICES ASSUME NEW x \in 1..(n - 1), Spot(w, ds, x) \in 1..k, c = g[Spot(w, ds, x)]
               PROVE  FALSE
    BY DEF Applied
  <2>1. Spot(w, ds, x) = Spot(w, ds, n)
    BY <1>5
  <2>2. x \in 1..Len(ds) /\ x # n
    BY <1>1
  <2>3. Spot(w, ds, Spot(w, ds, x)) = x /\ Spot(w, ds, Spot(w, ds, n)) = n
    BY <1>1, <2>2, SpotIs
  <2> QED BY <2>1, <2>2, <2>3
<1>7. Applied(ds, g, k, w, n) = D \cup {c}
  <2>1. 1..n = 1..(n - 1) \cup {n}
    BY <1>1
  <2> QED BY <2>1 DEF Applied
<1> HIDE DEF c, D
<1>8. Changed(a, b, D, doc)
  BY DEF D
<1> QED BY <1>2, <1>6, <1>7, <1>8, FieldStep

\* ... and any other.
LEMMA OtherStep ==
    ASSUME NEW ds, NEW g, NEW k, NEW w, NEW n \in Nat \ {0}, Spot(w, ds, n) \notin 1..k
    PROVE  Applied(ds, g, k, w, n) = Applied(ds, g, k, w, n - 1)
<1>1. 1..n = 1..(n - 1) \cup {n}
  OBVIOUS
<1> QED BY <1>1 DEF Applied

\* Nothing is applied at first ...
LEMMA NoneDone ==
    ASSUME NEW a \in States, NEW b \in States, NEW ds, NEW g, NEW k, NEW w
    PROVE  Changed(a, b, Applied(ds, g, k, w, 0), a)
<1>1. Applied(ds, g, k, w, 0) = {}
  BY DEF Applied
<1>2. a \in Halfway
  <2>1. Seq(Value \cup {Null}) \subseteq Seq(Entry)
    <3>1. Value \cup {Null} \subseteq Entry
      BY DEF Entry
    <3> HIDE DEF Entry
    <3> QED BY <3>1
  <2> QED BY <2>1 DEF States, Halfway
<1>3. Len(a.arr) >= Both(a, b)
  BY DEF States, Both
<1> QED BY <1>1, <1>2, <1>3 DEF Changed

\* ... and every change of a place after the whole list.
LEMMA AllDone ==
    ASSUME NEW a \in States, NEW b \in States, NEW ds, NEW g, NEW k, NEW w,
           Laid(a, b, ds, g, k, w)
    PROVE  /\ Spot(w, ds, Len(ds)) = Len(ds)
           /\ \A c \in Slots(a, b) : Slot(a, c) # Slot(b, c) => c \in Applied(ds, g, k, w, Len(ds) - 1)
<1>1. Len(ds) \in Nat /\ k \in Nat /\ k < Len(ds) /\ InBlocks(w, ds, 1)
  <2>1. InBlocks(w, ds, 1)
    BY DEF Laid
  <2> QED BY <2>1, LaidIs
<1>2. Spot(w, ds, Len(ds)) = Len(ds)
  <2>1. ds[Len(ds)].op # "remove"
    <3>1. ds[Len(ds)] = Change("replace", "ticks", 0, b.ticks)
      BY LaidIs
    <3> QED BY <3>1 DEF Change
  <2>2. Len(ds) \in 1..Len(ds)
    BY <1>1
  <2> QED BY <1>1, <2>1, <2>2, SpotIs
<1>3. ASSUME NEW c \in Slots(a, b), Slot(a, c) # Slot(b, c)
      PROVE  c \in Applied(ds, g, k, w, Len(ds) - 1)
  <2>1. PICK p \in 1..k : g[p] = c
    BY <1>3 DEF Laid, Layout
  <2>2. p \in 1..Len(ds) /\ p # Len(ds)
    BY <1>1
  <2>3. Spot(w, ds, p) \in 1..Len(ds) /\ Spot(w, ds, Spot(w, ds, p)) = p
    BY <1>1, <2>2, SpotIs
  <2>4. Spot(w, ds, p) # Len(ds)
    BY <1>2, <2>2, <2>3
  <2>5. Spot(w, ds, p) \in 1..(Len(ds) - 1)
    BY <1>1, <2>3, <2>4
  <2> QED BY <2>1, <2>3, <2>5 DEF Applied
<1> QED BY <1>2, <1>3

\* The documents of a batch.
Batch(p, a, ds, w) ==
    /\ p[0] = a
    /\ \A n \in 1..Len(ds) : p[n] = AfterOp(p[n - 1], ds[Spot(w, ds, n)])

\* A batch whose array does not shrink gives b.
LEMMA Growing ==
    ASSUME NEW a \in States, NEW b \in States, NEW ds, NEW g, NEW k, NEW w,
           Laid(a, b, ds, g, k, w), Gone(a, b) = 0, NEW p, Batch(p, a, ds, w)
    PROVE  Good(Typed(p[Len(ds)]), b)
<1> DEFINE N == Len(ds)
           both == Both(a, b)
           D(n) == Applied(ds, g, k, w, n)
           Size(n) == IF n <= k THEN both ELSE both + (n - k)
           Stage(n) == /\ Changed(a, b, D(n), p[n])
                       /\ Len(p[n].arr) = Size(n)
                       /\ \A x \in (both + 1)..Size(n) : p[n].arr[x] = b.arr[x]
           G == {n \in Nat : n < N => Stage(n)}
<1>1. /\ k \in Nat /\ both \in Nat /\ Grown(a, b) \in Nat /\ N = k + Grown(a, b) + 1
      /\ Len(a.arr) = both /\ Len(b.arr) = both + Grown(a, b) /\ InBlocks(w, ds, 1)
      /\ \A x \in 1..Grown(a, b) : ds[k + x] = Change("add", "elem", both + x - 1, b.arr[both + x])
      /\ ds[N] = Change("replace", "ticks", 0, b.ticks)
  <2>1. InBlocks(w, ds, 1)
    BY DEF Laid
  <2> QED BY <2>1, LaidIs
<1>2. \A n \in (k + 1)..N : Spot(w, ds, n) = n
  <2> SUFFICES ASSUME NEW n \in (k + 1)..N
               PROVE  Spot(w, ds, n) = n
    OBVIOUS
  <2>1. ds[n].op # "remove"
    <3>1. CASE n = N
      BY <1>1, <3>1 DEF Change
    <3>2. CASE n # N
      <4>1. n - k \in 1..Grown(a, b) /\ k + (n - k) = n
        BY <1>1, <3>2
      <4>2. ds[n] = Change("add", "elem", both + (n - k) - 1, b.arr[both + (n - k)])
        BY <1>1, <4>1
      <4> QED BY <4>2 DEF Change
    <3> QED BY <3>1, <3>2
  <2>2. n \in 1..Len(ds) /\ Len(ds) \in Nat
    BY <1>1
  <2> QED BY <1>1, <2>1, <2>2, SpotIs
<1>3. \A n \in 1..k : Spot(w, ds, n) \in 1..k
  <2> SUFFICES ASSUME NEW n \in 1..k, Spot(w, ds, n) \notin 1..k
               PROVE  FALSE
    OBVIOUS
  <2>1. n \in 1..Len(ds) /\ Len(ds) \in Nat
    BY <1>1
  <2>2. Spot(w, ds, n) \in 1..N /\ Spot(w, ds, Spot(w, ds, n)) = n
    BY <1>1, <2>1, SpotIs
  <2>3. Spot(w, ds, n) \in (k + 1)..N
    BY <1>1, <2>2
  <2>4. Spot(w, ds, Spot(w, ds, n)) = Spot(w, ds, n)
    BY <1>2, <2>3
  <2> QED BY <2>2, <2>4
<1>4. 0 \in G
  <2>1. Changed(a, b, D(0), p[0]) /\ Len(p[0].arr) = both
    BY <1>1, NoneDone DEF Batch
  <2> QED BY <1>1, <2>1
<1>5. ASSUME NEW m \in Nat, m \in G
      PROVE  m + 1 \in G
  <2> DEFINE n == m + 1
  <2> SUFFICES ASSUME n < N
               PROVE  Stage(n)
    OBVIOUS
  <2>1. n \in 1..N /\ m = n - 1 /\ m < N
    BY <1>1
  <2>2. Stage(m)
    BY <1>5, <2>1
  <2>3. p[n] = AfterOp(p[m], ds[Spot(w, ds, n)])
    BY <2>1 DEF Batch
  <2>4. CASE n <= k
    <3>1. n \in 1..k /\ Spot(w, ds, n) \in 1..k /\ Size(n) = both /\ Size(m) = both
      BY <1>1, <1>3, <2>4
    <3>2. Changed(a, b, Applied(ds, g, k, w, n - 1), p[m])
      BY <2>1, <2>2
    <3>3. Changed(a, b, D(n), p[n]) /\ Len(p[n].arr) = Len(p[m].arr)
      <4> DEFINE new == AfterOp(p[m], ds[Spot(w, ds, n)])
      <4> HIDE DEF n
      <4>1. Changed(a, b, Applied(ds, g, k, w, n), new) /\ Len(new.arr) = Len(p[m].arr)
        BY <2>1, <3>1, <3>2, SlotStep
      <4> QED BY <2>3, <4>1
    <3>4. \A x \in (both + 1)..Size(n) : p[n].arr[x] = b.arr[x]
      BY <1>1, <3>1
    <3> QED BY <2>2, <3>1, <3>3, <3>4
  <2>5. CASE ~(n <= k)
    <3> DEFINE v == b.arr[both + (n - k)]
    <3>1. n - k \in 1..Grown(a, b) /\ k + (n - k) = n /\ n \in (k + 1)..N /\ n \notin 1..k
          /\ both + (n - k) \in 1..Len(b.arr)
      BY <1>1, <2>1, <2>5
    <3>2. ds[Spot(w, ds, n)] = Change("add", "elem", both + (n - k) - 1, v)
      <4>1. ds[k + (n - k)] = Change("add", "elem", both + (n - k) - 1, v)
        BY <1>1, <3>1
      <4> QED BY <1>2, <3>1, <4>1
    <3>3. Size(m) = both + (n - k) - 1 /\ Size(n) = both + (n - k)
      BY <1>1, <2>1, <2>5
    <3>4. D(n) = D(m)
      <4>1. Spot(w, ds, n) \notin 1..k /\ n \in Nat \ {0}
        BY <1>1, <1>2, <2>1, <3>1
      <4> QED BY <2>1, <4>1, OtherStep
    <3>5. v \in Value \cup {Null}
      BY <3>1 DEF States
    <3> HIDE DEF v, Size, D, n
    <3>6. p[n] = AfterOp(p[m], Change("add", "elem", Len(p[m].arr), v))
      BY <2>2, <2>3, <3>2, <3>3
    <3>7. Changed(a, b, D(n), p[n]) /\ p[n].arr = Append(p[m].arr, v)
      BY <2>2, <3>4, <3>5, <3>6, AddStep
    <3>8. p[m].arr \in Seq(Entry)
      BY <2>2, HalfwayIsNotBad DEF Changed
    <3>9. /\ Len(p[n].arr) = Len(p[m].arr) + 1 /\ p[n].arr[Len(p[m].arr) + 1] = v
          /\ \A x \in 1..Len(p[m].arr) : p[n].arr[x] = p[m].arr[x]
      <4> HIDE DEF Entry
      <4> QED BY <3>7, <3>8
    <3>10. Len(p[n].arr) = Size(n)
      BY <1>1, <2>2, <3>1, <3>3, <3>9
    <3>11. ASSUME NEW x \in (both + 1)..Size(n)
           PROVE  p[n].arr[x] = b.arr[x]
      <4>1. CASE x = Size(n)
        <5>1. x = Len(p[m].arr) + 1 /\ x = both + (n - k)
          BY <1>1, <2>2, <3>1, <3>3, <4>1
        <5> QED BY <3>9, <5>1 DEF v
      <4>2. CASE x # Size(n)
        <5>1. x \in 1..Len(p[m].arr) /\ x \in (both + 1)..Size(m)
          BY <1>1, <2>2, <3>1, <3>3, <4>2
        <5> QED BY <2>2, <3>9, <5>1
      <4> QED BY <4>1, <4>2
    <3>12. n \in Nat
      BY DEF n
    <3> QED BY <3>7, <3>10, <3>11
  <2> QED BY <2>4, <2>5
<1>6. Nat \subseteq G
  <2> HIDE DEF G
  <2> QED BY <1>4, <1>5, Numbers
<1>7. Stage(N - 1)
  <2>1. N - 1 \in Nat /\ N - 1 < N
    BY <1>1
  <2> QED BY <1>6, <2>1
<1>8. Size(N - 1) = Len(b.arr)
  BY <1>1
<1>9. p[N] = AfterOp(p[N - 1], Change("replace", "ticks", 0, b.ticks))
  <2>1. Spot(w, ds, N) = N /\ N \in 1..N
    BY <1>1, <1>2
  <2> QED BY <1>1, <2>1 DEF Batch
<1> HIDE DEF Size, N
<1>10. \A c \in Slots(a, b) : Slot(a, c) # Slot(b, c) => c \in D(N - 1)
  BY AllDone DEF N
<1> QED BY <1>7, <1>8, <1>9, <1>10, LastStep DEF N

\* The run that has the first removed element, and where it ends.
First(k, w) == w[k + 1]
Cutting(ds, k, w) == RunEnd(ds, First(k, w))

\* The run that holds the removal of the first element that is gone.
LEMMA FirstIs ==
    ASSUME NEW a \in States, NEW b \in States, NEW ds, NEW g, NEW k, NEW w,
           Laid(a, b, ds, g, k, w), Gone(a, b) # 0
    PROVE  /\ First(k, w) \in 1..(k + 1) /\ Cutting(ds, k, w) \in (k + 1)..(k + Gone(a, b))
           /\ \A n \in 1..(First(k, w) - 1) : Spot(w, ds, n) \in 1..k
           /\ \A n \in First(k, w)..Cutting(ds, k, w) :
                Spot(w, ds, n) = First(k, w) + Cutting(ds, k, w) - n
           /\ \A n \in (First(k, w) + 1)..Cutting(ds, k, w) : InRun(ds, First(k, w), n)
           /\ Cutting(ds, k, w) < k + Gone(a, b) =>
                /\ ~InRun(ds, First(k, w), Cutting(ds, k, w) + 1)
                /\ w[Cutting(ds, k, w) + 1] = Cutting(ds, k, w) + 1
<1> DEFINE N == Len(ds)
           begin == First(k, w)
           end == Cutting(ds, k, w)
<1>1. /\ k \in Nat /\ Gone(a, b) \in Nat \ {0} /\ N = k + Gone(a, b) + 1
      /\ \A x \in 1..Gone(a, b) : ds[k + x] = Change("remove", "elem", Both(a, b) + x - 1, Null)
      /\ ds[N] = Change("replace", "ticks", 0, b.ticks)
  <2>1. Grown(a, b) = 0 \/ Gone(a, b) = 0
    BY LaidIs
  <2>2. k \in Nat /\ Gone(a, b) \in Nat /\ Len(ds) = k + Grown(a, b) + Gone(a, b) + 1
    BY LaidIs
  <2> QED BY <2>1, <2>2, LaidIs
<1>2. /\ InBlocks(w, ds, 1) /\ w \in [1..N -> 1..N] /\ N \in Nat /\ k + 1 \in 1..N
      /\ ds[k + 1].op = "remove"
  <2>1. InBlocks(w, ds, 1)
    BY DEF Laid
  <2>2. w \in [1..N -> 1..N]
    BY <2>1 DEF InBlocks
  <2>3. ds[k + 1].op = "remove"
    <3>1. 1 \in 1..Gone(a, b)
      BY <1>1
    <3>2. ds[k + 1] = Change("remove", "elem", Both(a, b) + 1 - 1, Null)
      BY <1>1, <3>1
    <3> QED BY <3>2 DEF Change
  <2>4. N \in Nat /\ k + 1 \in 1..N
    BY <1>1
  <2> QED BY <2>1, <2>2, <2>3, <2>4
<1>3. begin \in 1..(k + 1) /\ end \in (k + 1)..N /\ w[begin] = begin
  <2>1. /\ w[k + 1] \in 1..(k + 1) /\ RunEnd(ds, w[k + 1]) \in (k + 1)..N
        /\ w[w[k + 1]] = w[k + 1]
    <3>1. ASSUME NEW n \in 1..N
          PROVE  w[n] \in 1..n /\ RunEnd(ds, w[n]) \in n..N
      BY <1>2, SpotIs
    <3>2. ASSUME NEW n \in 1..N
          PROVE  w[w[n]] = w[n]
      <4>1. InBlocks(w, ds, 1) /\ N \in Nat
        BY <1>2
      <4> QED BY <4>1, SpotIs
    <3> QED BY <1>2, <3>1, <3>2
  <2> QED BY <2>1 DEF First, Cutting
<1>4. begin \in 1..N
  <2> HIDE DEF begin
  <2> QED BY <1>1, <1>3
<1>5. /\ \A n \in (begin + 1)..end : InRun(ds, begin, n)
      /\ end = N \/ ~InRun(ds, begin, end + 1)
  <2>1. /\ \A n \in (begin + 1)..end : InRun(ds, begin, n)
        /\ ds[begin].op # "remove" => end = begin
        /\ ds[begin].op = "remove" => end = N \/ ~InRun(ds, begin, end + 1)
    BY <1>2, <1>4, RunEndIs DEF Cutting
  <2>2. ds[begin].op = "remove"
    <3> HIDE DEF begin, end
    <3>1. CASE begin = k + 1
      BY <1>2, <3>1
    <3>2. CASE begin # k + 1
      BY <1>1, <1>3, <2>1, <3>2
    <3> QED BY <3>1, <3>2
  <2> QED BY <2>1, <2>2
<1> HIDE DEF begin, end
<1>6. end # N
  <2> SUFFICES ASSUME end = N
               PROVE  FALSE
    OBVIOUS
  <2>1. N \in (begin + 1)..end
    BY <1>1, <1>3
  <2> QED BY <1>1, <1>5, <2>1 DEF InRun, Change
<1>7. end \in (k + 1)..(k + Gone(a, b))
  BY <1>1, <1>3, <1>6
<1>8. \A n \in begin..end : w[n] = begin
  BY <1>2, <1>3 DEF InBlocks, begin, end, First, Cutting
<1>9. ASSUME NEW n \in begin..end
      PROVE  Spot(w, ds, n) = begin + end - n
  <2>1. w[n] = begin
    BY <1>8
  <2>2. RunEnd(ds, begin) = end
    BY DEF begin, end, Cutting
  <2> QED BY <2>1, <2>2 DEF Spot
<1>10. ASSUME NEW n \in 1..(begin - 1)
       PROVE  Spot(w, ds, n) \in 1..k
  <2>1. n \in 1..N
    BY <1>3, <1>4
  <2>2. /\ w[n] \in 1..n /\ RunEnd(ds, w[n]) \in n..N
        /\ Spot(w, ds, n) \in w[n]..RunEnd(ds, w[n])
        /\ Spot(w, ds, n) \in 1..N
    BY <1>2, <2>1, SpotIs
  <2>3. \A m \in w[n]..RunEnd(ds, w[n]) : w[m] = w[n]
    BY <1>2, <2>1 DEF InBlocks
  <2>4. w[n] < begin
    BY <1>3, <2>2
  <2>5. Spot(w, ds, n) < begin
    <3> SUFFICES ASSUME ~(Spot(w, ds, n) < begin)
                 PROVE  FALSE
      OBVIOUS
    <3>1. begin \in w[n]..RunEnd(ds, w[n])
      BY <1>3, <2>1, <2>2, <2>4
    <3> QED BY <1>3, <2>3, <2>4, <3>1
  <2> QED BY <1>1, <1>3, <2>2, <2>5
<1>11. ASSUME end < k + Gone(a, b)
       PROVE  /\ ~InRun(ds, begin, end + 1)
              /\ w[end + 1] = end + 1
  <2>1. end + 1 \in 1..N
    BY <1>1, <1>7, <1>11
  <2>2. w[end + 1] \in 1..(end + 1) /\ RunEnd(ds, w[end + 1]) \in (end + 1)..N
    <3> DEFINE n == end + 1
    <3> HIDE DEF n
    <3>1. w[n] \in 1..n /\ RunEnd(ds, w[n]) \in n..N
      BY <1>2, <2>1, SpotIs DEF n
    <3> QED BY <3>1 DEF n
  <2>3. \A m \in w[end + 1]..RunEnd(ds, w[end + 1]) : w[m] = w[end + 1]
    BY <1>2, <2>1 DEF InBlocks
  <2>4. w[end + 1] = end + 1
    <3> SUFFICES ASSUME w[end + 1] # end + 1
                 PROVE  FALSE
      OBVIOUS
    <3>1. end \in Nat /\ N \in Nat
      BY <1>1, <1>7
    <3>2. end \in w[end + 1]..RunEnd(ds, w[end + 1])
      <4>1. w[end + 1] \in Nat /\ RunEnd(ds, w[end + 1]) \in Nat
        BY <2>2, <3>1
      <4>2. w[end + 1] <= end
        BY <2>2, <3>1, <4>1
      <4>3. end <= RunEnd(ds, w[end + 1])
        BY <2>2, <3>1, <4>1
      <4> QED BY <3>1, <4>1, <4>2, <4>3
    <3>3. w[end + 1] = begin
      <4>1. end \in begin..end
        BY <1>1, <1>3
      <4> QED BY <1>8, <2>3, <3>2, <4>1
    <3>4. RunEnd(ds, begin) = end
      BY DEF begin, end, Cutting
    <3> QED BY <1>1, <1>7, <2>2, <3>3, <3>4
  <2> QED BY <1>5, <1>6, <2>4
<1> QED BY <1>3, <1>5, <1>7, <1>9, <1>10, <1>11 DEF begin, end

\* Elements gone after n operations.
Fewer(ds, k, w, n) ==
    IF n < First(k, w) THEN 0
    ELSE IF n - First(k, w) + 1 <= Cutting(ds, k, w) - k THEN n - First(k, w) + 1
    ELSE Cutting(ds, k, w) - k

\* As long as the first run with a removed element goes on, nothing misses its target.
LEMMA Shrinking ==
    ASSUME NEW a \in States, NEW b \in States, NEW ds, NEW g, NEW k, NEW w,
           Laid(a, b, ds, g, k, w), Gone(a, b) # 0, NEW p, Batch(p, a, ds, w),
           NEW n \in 0..Cutting(ds, k, w)
    PROVE  /\ Changed(a, b, Applied(ds, g, k, w, n), p[n])
           /\ Len(p[n].arr) = Len(a.arr) - Fewer(ds, k, w, n)
<1> DEFINE N == Len(ds)
           both == Both(a, b)
           begin == First(k, w)
           end == Cutting(ds, k, w)
           D(m) == Applied(ds, g, k, w, m)
           Size(m) == both + Gone(a, b) - Fewer(ds, k, w, m)
           Stage(m) == Changed(a, b, D(m), p[m]) /\ Len(p[m].arr) = Size(m)
           G == {m \in Nat : m <= end => Stage(m)}
<1>1. /\ begin \in 1..(k + 1) /\ end \in (k + 1)..(k + Gone(a, b))
      /\ \A m \in 1..(begin - 1) : Spot(w, ds, m) \in 1..k
      /\ \A m \in begin..end : Spot(w, ds, m) = begin + end - m
  BY FirstIs
<1>2. /\ k \in Nat /\ both \in Nat /\ Gone(a, b) \in Nat /\ N = k + Gone(a, b) + 1
      /\ Len(a.arr) = both + Gone(a, b)
      /\ \A x \in 1..Gone(a, b) : ds[k + x] = Change("remove", "elem", both + x - 1, Null)
  <2>1. Grown(a, b) = 0 \/ Gone(a, b) = 0
    BY LaidIs
  <2>2. k \in Nat /\ Gone(a, b) \in Nat /\ Len(ds) = k + Grown(a, b) + Gone(a, b) + 1
    BY LaidIs
  <2> QED BY <2>1, <2>2, LaidIs
<1> HIDE DEF begin, end, both
<1>3. \A m \in Nat : Fewer(ds, k, w, m) = IF m < begin THEN 0
                                          ELSE IF m - begin + 1 <= end - k THEN m - begin + 1
                                          ELSE end - k
  BY DEF Fewer, begin, end
<1> HIDE DEF Size
<1>4. \A m \in Nat : Size(m) = both + Gone(a, b) - Fewer(ds, k, w, m)
  BY DEF Size
<1>5. 0 \in G
  <2>1. Changed(a, b, D(0), p[0]) /\ Len(p[0].arr) = both + Gone(a, b)
    BY <1>2, NoneDone DEF Batch
  <2>2. Size(0) = both + Gone(a, b)
    BY <1>1, <1>2, <1>3, <1>4
  <2> QED BY <2>1, <2>2
<1>6. ASSUME NEW l \in Nat, l \in G
      PROVE  l + 1 \in G
  <2> DEFINE m == l + 1
  <2> SUFFICES ASSUME m <= end
               PROVE  Stage(m)
    OBVIOUS
  <2>1. m \in 1..N /\ l = m - 1 /\ l <= end /\ m \in Nat \ {0}
    BY <1>1, <1>2
  <2>2. Stage(l)
    BY <1>6, <2>1
  <2>3. p[m] = AfterOp(p[l], ds[Spot(w, ds, m)])
    BY <2>1 DEF Batch
  <2> HIDE DEF m
  <2>4. CASE Spot(w, ds, m) \in 1..k
    <3>1. Changed(a, b, Applied(ds, g, k, w, m - 1), p[l])
      BY <2>1, <2>2
    <3>2. Changed(a, b, D(m), p[m]) /\ Len(p[m].arr) = Len(p[l].arr)
      BY <2>1, <2>3, <2>4, <3>1, SlotStep
    <3>3. Fewer(ds, k, w, m) = Fewer(ds, k, w, l)
      <4>1. CASE m < begin
        BY <1>3, <2>1, <4>1, <1>1, <1>2
      <4>2. CASE ~(m < begin)
        <5>1. Spot(w, ds, m) = begin + end - m
          BY <1>1, <1>2, <2>1, <4>2
        <5>2. m - begin >= end - k
          BY <1>1, <1>2, <2>1, <2>4, <5>1
        <5>3. Fewer(ds, k, w, m) = end - k /\ Fewer(ds, k, w, l) = end - k
          BY <1>1, <1>2, <1>3, <2>1, <5>2
        <5> QED BY <5>3
      <4> QED BY <4>1, <4>2
    <3>4. Size(m) = Size(l)
      BY <1>4, <2>1, <3>3
    <3> QED BY <2>2, <3>2, <3>4
  <2>5. CASE Spot(w, ds, m) \notin 1..k
    <3>1. m \in begin..end
      <4>1. ~(m \in 1..(begin - 1))
        BY <1>1, <2>5
      <4> QED BY <1>1, <1>2, <2>1, <4>1
    <3>2. Spot(w, ds, m) = begin + end - m
      BY <1>1, <3>1
    <3> DEFINE x == begin + end - m - k
               i == both + x - 1
    <3>3. x \in 1..Gone(a, b) /\ k + x = begin + end - m /\ x <= end - k
      BY <1>1, <1>2, <2>5, <3>1, <3>2
    <3>4. ds[Spot(w, ds, m)] = Change("remove", "elem", i, Null)
      <4>1. ds[k + x] = Change("remove", "elem", both + x - 1, Null)
        BY <1>2, <3>3
      <4> QED BY <3>2, <3>3, <4>1
    <3>5. Fewer(ds, k, w, l) = m - begin /\ Fewer(ds, k, w, m) = m - begin + 1
      BY <1>1, <1>2, <1>3, <2>1, <3>1, <3>3
    <3>6. i \in Nat /\ i >= both /\ i < Size(l) /\ Size(m) = Size(l) - 1
      BY <1>1, <1>2, <1>4, <2>1, <3>1, <3>3, <3>5
    <3>7. D(m) = D(l)
      BY <2>1, <2>5, OtherStep
    <3> HIDE DEF i, D
    <3>8. p[m] = AfterOp(p[l], Change("remove", "elem", i, Null))
      BY <2>3, <3>4
    <3>9. Changed(a, b, D(l), p[l]) /\ Len(p[l].arr) = Size(l)
      BY <2>2
    <3>10. Changed(a, b, D(l), p[m]) /\ Len(p[m].arr) = Len(p[l].arr) - 1
      BY <3>6, <3>8, <3>9, GoneStep DEF both
    <3> QED BY <3>6, <3>7, <3>9, <3>10
  <2> QED BY <2>4, <2>5
<1>7. Nat \subseteq G
  <2> HIDE DEF G
  <2> QED BY <1>5, <1>6, Numbers
<1>8. n \in Nat /\ n <= end
  BY <1>1, <1>2 DEF end
<1>9. Stage(n)
  BY <1>7, <1>8
<1>10. Fewer(ds, k, w, n) \in Nat
  BY <1>1, <1>2, <1>3, <1>8
<1> QED BY <1>2, <1>9, <1>10 DEF Size

\* The one way in which a batch fails, as in FramesKept.
Cut(was, is) ==
    LET Loses(k) == was[k + 1] # Null /\ is[k + 1] = Null
    IN  \E k \in 0..(Len(is) - 1) :
          /\ Loses(k)
          /\ \A j \in (k + 1)..(Len(is) - 1) :
               was[j + 1] # is[j + 1] => Loses(j) /\ IsPrefix(digits[k], digits[j])
          /\ IsPrefix(digits[k], digits[Len(is)])
          /\ \E m \in Len(is)..(Len(was) - 1) : ~IsPrefix(digits[k], digits[m])

\* Which differences remove a field.
LEMMA RemovesField ==
    ASSUME NEW a \in States, NEW b \in States, NEW c \in Slots(a, b), c # 1,
           Slot(a, c) # Slot(b, c), Field(a, b, c).op = "remove"
    PROVE  /\ Field(a, b, c).at = "prop" /\ Field(a, b, c).i = c - 2
           /\ a.arr[c - 1] # Null /\ b.arr[c - 1] = Null
<1> DEFINE d == Field(a, b, c)
<1>1. /\ Slot(b, c) \in Value \cup {Null}
      /\ d = Change(d.op, IF c = 1 THEN "talk" ELSE "prop", IF c = 1 THEN 0 ELSE c - 2, Slot(b, c))
      /\ d.op = "remove" => Slot(b, c) \in {Missing, Null}
  BY FieldIs
<1> HIDE DEF d
<1>2. d.at = "prop" /\ d.i = c - 2
  BY <1>1 DEF Change
<1>3. Slot(b, c) = Null
  BY <1>1, ReplayAssumption DEF d, Missing, Null
<1> QED BY <1>2, <1>3 DEF Slot, d

\* If the removals are not in one run, the two arrays are cut.
LEMMA CutIs ==
    ASSUME NEW a \in States, NEW b \in States, NEW ds, NEW g, NEW k, NEW w,
           Laid(a, b, ds, g, k, w), Gone(a, b) # 0, Cutting(ds, k, w) < k + Gone(a, b)
    PROVE  Cut(a.arr, b.arr)
<1> DEFINE both == Both(a, b)
           begin == First(k, w)
           end == Cutting(ds, k, w)
           c == g[begin]
           f == c - 2
           m == both + (end - k)
<1>1. /\ begin \in 1..(k + 1) /\ end \in (k + 1)..(k + Gone(a, b))
      /\ \A n \in (begin + 1)..end : InRun(ds, begin, n)
      /\ ~InRun(ds, begin, end + 1)
      /\ end < k + Gone(a, b)
  BY FirstIs
<1>2. /\ k \in Nat /\ both \in Nat /\ Gone(a, b) \in Nat /\ Len(ds) = k + Gone(a, b) + 1
      /\ Len(a.arr) = both + Gone(a, b) /\ Len(b.arr) = both
      /\ \A x \in 1..Gone(a, b) : ds[k + x] = Change("remove", "elem", both + x - 1, Null)
      /\ \A x \in 1..k : /\ g[x] \in Slots(a, b) /\ Slot(a, g[x]) # Slot(b, g[x])
                         /\ ds[x] = Field(a, b, g[x])
  <2>1. Grown(a, b) = 0 \/ Gone(a, b) = 0
    BY LaidIs
  <2>2. /\ k \in Nat /\ Gone(a, b) \in Nat /\ Len(ds) = k + Grown(a, b) + Gone(a, b) + 1
        /\ both \in Nat /\ Len(b.arr) = both + Grown(a, b)
    BY LaidIs
  <2> QED BY <2>1, <2>2, LaidIs
<1>3. RunEnd(ds, begin) = end
  BY DEF Cutting
<1> HIDE DEF begin, end, both
<1>4. /\ ds[k + 1].op = "remove" /\ ds[k + 1].at = "elem" /\ ds[k + 1].i = both
  <2>1. 1 \in 1..Gone(a, b)
    BY <1>1, <1>2
  <2>2. ds[k + 1] = Change("remove", "elem", both + 1 - 1, Null)
    BY <1>2, <2>1
  <2> QED BY <1>2, <2>2 DEF Change
<1>5. ds[end + 1].op = "remove" /\ ds[end + 1].at = "elem" /\ ds[end + 1].i = m
  <2>1. (end + 1) - k \in 1..Gone(a, b) /\ k + ((end + 1) - k) = end + 1
        /\ both + ((end + 1) - k) - 1 = m
    BY <1>1, <1>2
  <2>2. ds[k + ((end + 1) - k)] = Change("remove", "elem", both + ((end + 1) - k) - 1, Null)
    BY <1>2, <2>1
  <2>3. ds[end + 1] = Change("remove", "elem", m, Null)
    BY <2>1, <2>2
  <2> QED BY <2>3 DEF Change
<1>6. ~StartsAlike(ds[begin], ds[end + 1])
  BY <1>1, <1>5 DEF InRun
<1>7. begin \in 1..k
  <2> SUFFICES ASSUME begin = k + 1
               PROVE  FALSE
    BY <1>1, <1>2
  <2> QED BY <1>4, <1>5, <1>6 DEF StartsAlike
<1>8. ds[begin].op = "remove"
  <2>1. begin \in 1..Len(ds) /\ Len(ds) \in Nat /\ end # begin
    BY <1>1, <1>2, <1>7
  <2> QED BY <1>3, <2>1, RunEndIs
<1>9. c \in Slots(a, b) /\ Slot(a, c) # Slot(b, c) /\ ds[begin] = Field(a, b, c)
  BY <1>2, <1>7
<1>10. StartsAlike(ds[begin], ds[k + 1])
  <2>1. k + 1 \in (begin + 1)..end
    BY <1>1, <1>2, <1>7
  <2> QED BY <1>1, <2>1 DEF InRun
<1>11. c # 1
  <2> SUFFICES ASSUME c = 1
               PROVE  FALSE
    OBVIOUS
  <2>1. ds[begin].at = "talk"
    BY <1>9 DEF Field, from_change_type, Change
  <2> QED BY <1>4, <1>10, <2>1 DEF StartsAlike
<1> HIDE DEF c
<1>12. ds[begin].at = "prop" /\ ds[begin].i = f /\ a.arr[c - 1] # Null /\ b.arr[c - 1] = Null
  BY <1>8, <1>9, <1>11, RemovesField
<1>13. c \in Nat /\ f \in 0..(both - 1) /\ f + 1 = c - 1
  BY <1>2, <1>9, <1>11 DEF Slots, both
<1>14. \A d : StartsAlike(ds[begin], d)
                <=> d.at \in {"elem", "prop"} /\ IsPrefix(digits[f], digits[d.i])
  BY <1>12 DEF StartsAlike
<1>15. IsPrefix(digits[f], digits[both])
  BY <1>4, <1>10, <1>14
<1>16. ~IsPrefix(digits[f], digits[m])
  BY <1>5, <1>6, <1>14
<1>17. m \in both..(Len(a.arr) - 1)
  BY <1>1, <1>2
<1>18. ASSUME NEW j \in (f + 1)..(both - 1), a.arr[j + 1] # b.arr[j + 1]
       PROVE  a.arr[j + 1] # Null /\ b.arr[j + 1] = Null /\ IsPrefix(digits[f], digits[j])
  <2> DEFINE e == j + 2
  <2>1. e \in Slots(a, b) /\ e # 1 /\ e - 1 = j + 1 /\ e - 2 = j /\ e > c /\ e \in Nat
    BY <1>2, <1>13 DEF Slots, both
  <2> HIDE DEF e
  <2>2. Slot(a, e) # Slot(b, e)
    BY <1>18, <2>1 DEF Slot
  <2>3. PICK p \in 1..k : g[p] = e
    BY <2>1, <2>2 DEF Laid, Layout
  <2>4. p > begin
    <3>1. \A x, y \in 1..k : x < y => g[x] < g[y]
      BY DEF Laid, Layout
    <3>2. g[p] > g[begin] /\ g[p] \in Nat /\ g[begin] \in Nat
      BY <1>13, <2>1, <2>3 DEF c
    <3>3. ~(p < begin) /\ p # begin
      BY <1>7, <3>1, <3>2
    <3> QED BY <1>2, <1>7, <3>3
  <2>5. InRun(ds, begin, p)
    <3>1. p \in (begin + 1)..end
      BY <1>1, <1>2, <1>7, <2>3, <2>4
    <3> QED BY <1>1, <3>1
  <2>6. ds[p] = Field(a, b, e)
    BY <1>2, <2>3
  <2>7. Field(a, b, e).at = "prop" /\ Field(a, b, e).i = e - 2
        /\ a.arr[e - 1] # Null /\ b.arr[e - 1] = Null
    BY <2>1, <2>2, <2>5, <2>6, RemovesField DEF InRun
  <2>8. IsPrefix(digits[f], digits[j])
    BY <1>14, <2>1, <2>5, <2>6, <2>7 DEF InRun
  <2> QED BY <2>1, <2>7, <2>8
<1> HIDE DEF m, f
<1> QED BY <1>2, <1>12, <1>13, <1>15, <1>16, <1>17, <1>18 DEF Cut

\* A removal that starts in the middle of the removed elements misses its target.
LEMMA CutFails ==
    ASSUME NEW a \in States, NEW b \in States, NEW ds, NEW g, NEW k, NEW w,
           Laid(a, b, ds, g, k, w), Gone(a, b) # 0, Cutting(ds, k, w) < k + Gone(a, b),
           NEW p, Batch(p, a, ds, w)
    PROVE  p[Len(ds)] = Bad
<1> DEFINE N == Len(ds)
           both == Both(a, b)
           end == Cutting(ds, k, w)
           n == end + 1
           M == Gone(a, b)
<1>1. /\ First(k, w) \in 1..(k + 1) /\ end \in (k + 1)..(k + M)
      /\ w[end + 1] = end + 1
      /\ end < k + M
  BY FirstIs
<1>2. /\ k \in Nat /\ both \in Nat /\ M \in Nat /\ N = k + M + 1
      /\ Len(a.arr) = both + M
      /\ \A x \in 1..M : ds[k + x] = Change("remove", "elem", both + x - 1, Null)
      /\ ds[N] = Change("replace", "ticks", 0, b.ticks)
      /\ InBlocks(w, ds, 1)
  <2>1. Grown(a, b) = 0 \/ Gone(a, b) = 0
    BY LaidIs
  <2>2. /\ k \in Nat /\ Gone(a, b) \in Nat /\ Len(ds) = k + Grown(a, b) + Gone(a, b) + 1
        /\ both \in Nat
    BY LaidIs
  <2>3. InBlocks(w, ds, 1)
    BY DEF Laid
  <2> QED BY <2>1, <2>2, <2>3, LaidIs
<1>3. Fewer(ds, k, w, end) = end - k
  BY <1>1, <1>2 DEF Fewer
<1>4. Changed(a, b, Applied(ds, g, k, w, end), p[end]) /\ Len(p[end].arr) = both + M - (end - k)
  <2>1. end \in 0..end
    BY <1>1, <1>2
  <2> QED BY <1>2, <1>3, <2>1, Shrinking
<1> HIDE DEF end, both, M
<1>5. \A x \in (k + 1)..(N - 1) : ds[x].op = "remove" /\ ds[x].at = "elem"
  <2> SUFFICES ASSUME NEW x \in (k + 1)..(N - 1)
               PROVE  ds[x].op = "remove" /\ ds[x].at = "elem"
    OBVIOUS
  <2>1. x - k \in 1..M /\ k + (x - k) = x
    BY <1>2
  <2>2. ds[x] = Change("remove", "elem", both + (x - k) - 1, Null)
    BY <1>2, <2>1
  <2> QED BY <2>2 DEF Change
<1>6. RunEnd(ds, n) = N - 1
  <2>1. n \in (k + 1)..(N - 1) /\ n \in 1..N /\ N \in Nat /\ n \in Nat
    BY <1>1, <1>2
  <2> HIDE DEF n
  <2>2. /\ RunEnd(ds, n) \in n..N
        /\ \A x \in (n + 1)..RunEnd(ds, n) : InRun(ds, n, x)
        /\ RunEnd(ds, n) = N \/ ~InRun(ds, n, RunEnd(ds, n) + 1)
    BY <1>5, <2>1, RunEndIs
  <2>3. RunEnd(ds, n) # N
    <3> SUFFICES ASSUME RunEnd(ds, n) = N
                 PROVE  FALSE
      OBVIOUS
    <3>1. N \in (n + 1)..N
      BY <2>1
    <3>2. InRun(ds, n, N)
      BY <2>2, <3>1
    <3> QED BY <1>2, <3>2 DEF InRun, Change
  <2>4. ~(RunEnd(ds, n) < N - 1)
    <3> SUFFICES ASSUME RunEnd(ds, n) < N - 1
                 PROVE  FALSE
      OBVIOUS
    <3>1. RunEnd(ds, n) + 1 \in (k + 1)..(N - 1)
      BY <1>2, <2>1, <2>2
    <3>2. InRun(ds, n, RunEnd(ds, n) + 1)
      BY <1>5, <2>1, <3>1 DEF InRun, StartsAlike
    <3> QED BY <2>2, <2>3, <3>2
  <2> QED BY <2>1, <2>2, <2>3, <2>4
<1>7. n \in 1..N /\ n - 1 = end /\ end \in Nat /\ N \in Nat
  BY <1>1, <1>2
<1>8. Spot(w, ds, n) = N - 1
  <2>1. Spot(w, ds, n) = n + (N - 1) - n
    BY <1>1, <1>6 DEF Spot
  <2> QED BY <1>7, <2>1
<1>9. p[n] = Bad
  <2> DEFINE i == both + M - 1
  <2>1. ds[N - 1] = Change("remove", "elem", i, Null)
    <3>1. M \in 1..M /\ k + M = N - 1
      BY <1>1, <1>2
    <3> QED BY <1>2, <3>1
  <2>2. i \in Nat /\ i >= both /\ i >= Len(p[end].arr)
    BY <1>1, <1>2, <1>4
  <2>3. p[n] = AfterOp(p[end], ds[Spot(w, ds, n)])
    BY <1>7 DEF Batch
  <2> HIDE DEF i, n
  <2>4. p[n] = AfterOp(p[end], Change("remove", "elem", i, Null))
    BY <1>8, <2>1, <2>3
  <2> QED BY <1>4, <2>2, <2>4, GoneStep DEF both
<1> DEFINE G == {d \in Nat : n + d <= N => p[n + d] = Bad}
<1> HIDE DEF n
<1>10. 0 \in G
  BY <1>7, <1>9
<1>11. ASSUME NEW d \in Nat, d \in G
       PROVE  d + 1 \in G
  <2> SUFFICES ASSUME n + (d + 1) <= N
               PROVE  p[n + (d + 1)] = Bad
    OBVIOUS
  <2>1. n + (d + 1) \in 1..N /\ (n + (d + 1)) - 1 = n + d /\ n + d <= N
    BY <1>7
  <2>2. p[n + d] = Bad
    BY <1>11, <2>1
  <2>3. p[n + (d + 1)] = AfterOp(p[n + d], ds[Spot(w, ds, n + (d + 1))])
    BY <2>1 DEF Batch
  <2> QED BY <2>2, <2>3 DEF AfterOp
<1>12. Nat \subseteq G
  <2> HIDE DEF G
  <2> QED BY <1>10, <1>11, Numbers
<1>13. N - n \in Nat /\ n + (N - n) = N /\ n + (N - n) <= N
  BY <1>7
<1> QED BY <1>12, <1>13

(* The batch of differences between any two states turns the first into    *)
(* the second, up to an entry that is null there and may be gone here; or  *)
(* its removals are cut, and the patch fails as a whole.                   *)
THEOREM BatchIs ==
    ASSUME NEW a \in States, NEW b \in States
    PROVE  LET new == apply_diff_batch(a, calc_diff_batch(a, b))
           IN  IF new = Bad THEN Cut(a.arr, b.arr) ELSE Good(new, b)
<1> DEFINE ds == diff(a, b)
           N == Len(ds)
           out == calc_diff_batch(a, b)
           p == Patching(a, out)
           new == apply_diff_batch(a, out)
<1>1. PICK g, k : Layout(ds, a, b, g, k)
  BY DiffIs
<1> HIDE DEF ds
<1>2. N \in Nat /\ N # 0
  <2>1. k \in Nat /\ N = k + Grown(a, b) + Gone(a, b) + 1
    BY <1>1 DEF Layout
  <2>2. Grown(a, b) \in Nat /\ Gone(a, b) \in Nat
    BY DEF Grown, Gone, Both, States
  <2> QED BY <2>1, <2>2
<1>3. PICK w : InBlocks(w, ds, 1) /\ Reordered(ds) = [n \in 1..N |-> ds[Spot(w, ds, n)]]
  BY <1>2, ReorderedIs
<1>4. out = [n \in 1..N |-> ds[Spot(w, ds, n)]]
  BY <1>3 DEF calc_diff_batch, ds
<1>5. Laid(a, b, ds, g, k, w)
  BY <1>1, <1>3 DEF Laid
<1> HIDE DEF out
<1>6. Len(out) = N /\ \A n \in 1..N : out[n] = ds[Spot(w, ds, n)]
  <2>1. Len(out) = N
    BY <1>2, <1>4
  <2> QED BY <1>4, <2>1
<1>7. Batch(p, a, ds, w)
  <2>1. /\ p[0] = a
        /\ \A n \in 1..N : p[n] = AfterOp(p[n - 1], out[n])
    BY <1>2, <1>6, PatchingIs
  <2> HIDE DEF p, N
  <2>2. \A n \in 1..N : p[n] = AfterOp(p[n - 1], ds[Spot(w, ds, n)])
    BY <1>6, <2>1
  <2> QED BY <2>1, <2>2 DEF Batch, N
<1>8. new = Typed(p[N])
  BY <1>6 DEF apply_diff_batch
<1>9. CASE Gone(a, b) = 0
  <2>1. Good(new, b)
    BY <1>5, <1>7, <1>8, <1>9, Growing
  <2>2. new # Bad
    BY <2>1, ReplayAssumption DEF Good, States, Bad, Entry, Missing, Null
  <2> QED BY <2>1, <2>2 DEF out
<1>10. CASE Gone(a, b) # 0 /\ Cutting(ds, k, w) < k + Gone(a, b)
  <2>1. p[N] = Bad
    BY <1>5, <1>7, <1>10, CutFails
  <2>2. Typed(Bad) = Bad
    <3>1. [i \in DOMAIN Bad.arr |-> IF Bad.arr[i] = Missing THEN Null ELSE Bad.arr[i]] = << >>
      BY DEF Bad
    <3>2. Typed(Bad) = [Bad EXCEPT !.arr =
                          [i \in DOMAIN Bad.arr |-> IF Bad.arr[i] = Missing THEN Null ELSE Bad.arr[i]]]
      BY DEF Typed
    <3> QED BY <3>1, <3>2 DEF Bad
  <2>3. Cut(a.arr, b.arr)
    BY <1>5, <1>10, CutIs
  <2> QED BY <1>8, <2>1, <2>2, <2>3 DEF out
<1>11. CASE Gone(a, b) # 0 /\ ~(Cutting(ds, k, w) < k + Gone(a, b))
  <2> DEFINE end == Cutting(ds, k, w)
             D == Applied(ds, g, k, w, end)
  <2>1. /\ k \in Nat /\ Both(a, b) \in Nat /\ Gone(a, b) \in Nat
        /\ Grown(a, b) = 0 \/ Gone(a, b) = 0
        /\ Len(a.arr) = Both(a, b) + Gone(a, b) /\ Len(b.arr) = Both(a, b) + Grown(a, b)
        /\ N = k + Grown(a, b) + Gone(a, b) + 1
        /\ ds[N] = Change("replace", "ticks", 0, b.ticks)
    BY <1>5, LaidIs
  <2>2. First(k, w) \in 1..(k + 1) /\ end \in (k + 1)..(k + Gone(a, b))
    BY <1>5, <1>11, FirstIs
  <2>3. /\ end = k + Gone(a, b) /\ end = N - 1 /\ end \in 0..end
        /\ Grown(a, b) = 0 /\ Len(b.arr) = Both(a, b)
    BY <1>11, <2>1, <2>2
  <2>4. Fewer(ds, k, w, end) = Gone(a, b)
    <3>1. /\ end - k = Gone(a, b) /\ ~(end < First(k, w))
          /\ end - First(k, w) + 1 <= end - k => end - First(k, w) + 1 = end - k
      BY <2>1, <2>2, <2>3
    <3> QED BY <3>1 DEF Fewer
  <2>5. Changed(a, b, D, p[end]) /\ Len(p[end].arr) = Len(a.arr) - Fewer(ds, k, w, end)
    BY <1>5, <1>7, <1>11, <2>3, Shrinking
  <2>6. Spot(w, ds, N) = N /\ \A c \in Slots(a, b) : Slot(a, c) # Slot(b, c) => c \in D
    BY <1>5, <2>3, AllDone
  <2>7. p[N] = AfterOp(p[end], Change("replace", "ticks", 0, b.ticks))
    <3>1. N \in 1..N
      BY <1>2
    <3> QED BY <1>7, <2>1, <2>3, <2>6, <3>1 DEF Batch
  <2>8. Len(p[end].arr) = Len(b.arr) /\ \A x \in (Both(a, b) + 1)..Len(b.arr) : p[end].arr[x] = b.arr[x]
    BY <2>1, <2>3, <2>4, <2>5
  <2> HIDE DEF p, D, end, N, new
  <2>9. Good(new, b)
    BY <1>8, <2>5, <2>6, <2>7, <2>8, LastStep
  <2>10. new # Bad
    BY <2>9, ReplayAssumption DEF Good, States, Bad, Entry, Missing, Null
  <2> QED BY <2>9, <2>10 DEF new, out
<1> QED BY <1>9, <1>10, <1>11

-----------------------------------------------------------------------------
(***************************************************************************)
(* Restoring a state                                                       *)
(***************************************************************************)

\* Batches that were recorded lead from each state kept to the next.
LEMMA RestoringIs ==
    ASSUME NEW kept, NEW m \in Nat,
           \A n \in 1..m : kept[n] = apply_diff_batch(kept[n - 1], replay.diffs[n]),
           NEW i \in 0..m, NEW count \in 0..(m - i)
    PROVE  Restoring(kept[i], count, i) = kept[i + count]
<1> DEFINE Val(f, n) == IF n = 0 THEN kept[i] ELSE apply_diff_batch(f[n - 1], replay.diffs[i + n])
           Is(f) == f = [n \in 0..count |-> Val(f, n)]
           h == [n \in 0..count |-> kept[i + n]]
           f == CHOOSE f : Is(f)
           G == {n \in Nat : n <= count => f[n] = kept[i + n]}
<1>1. Restoring(kept[i], count, i) = f[count]
  BY DEF Restoring
<1>2. Is(h)
  <2>1. ASSUME NEW n \in 0..count
        PROVE  h[n] = Val(h, n)
    <3>1. CASE n = 0
      BY <3>1
    <3>2. CASE n # 0
      <4>1. n - 1 \in 0..count /\ i + n \in 1..m /\ (i + n) - 1 = i + (n - 1)
        BY <3>2
      <4>2. h[n - 1] = kept[i + (n - 1)] /\ h[n] = kept[i + n]
        BY <4>1
      <4> HIDE DEF h
      <4>3. kept[i + n] = apply_diff_batch(kept[(i + n) - 1], replay.diffs[i + n])
        BY <4>1
      <4> QED BY <3>2, <4>1, <4>2, <4>3
    <3> QED BY <3>1, <3>2
  <2>2. h = [n \in 0..count |-> h[n]]
    OBVIOUS
  <2> HIDE DEF h, Val
  <2> QED BY <2>1, <2>2
<1>3. Is(f)
  <2> HIDE DEF Is, h
  <2> QED BY <1>2
<1> HIDE DEF f
<1>4. \A n \in 0..count : f[n] = Val(f, n)
  <2> HIDE DEF Val
  <2> QED BY <1>3
<1>5. 0 \in G
  BY <1>4
<1>6. ASSUME NEW n \in Nat, n \in G
      PROVE  n + 1 \in G
  <2> SUFFICES ASSUME n + 1 <= count
               PROVE  f[n + 1] = kept[i + (n + 1)]
    OBVIOUS
  <2>1. n + 1 \in 0..count /\ (n + 1) - 1 = n /\ n + 1 # 0 /\ n <= count
        /\ i + (n + 1) \in 1..m /\ (i + (n + 1)) - 1 = i + n
    OBVIOUS
  <2>2. f[n + 1] = apply_diff_batch(f[n], replay.diffs[i + (n + 1)])
    BY <1>4, <2>1
  <2>3. f[n] = kept[i + n]
    BY <1>6, <2>1
  <2>4. kept[i + (n + 1)] = apply_diff_batch(kept[(i + (n + 1)) - 1], replay.diffs[i + (n + 1)])
    BY <2>1
  <2> QED BY <2>1, <2>2, <2>3, <2>4
<1>7. Nat \subseteq G
  <2> HIDE DEF G
  <2> QED BY <1>5, <1>6, Numbers
<1> QED BY <1>1, <1>7

-----------------------------------------------------------------------------
(***************************************************************************)
(* The inductive invariant                                                 *)
(***************************************************************************)

Batches == {calc_diff_batch(a, b) : a \in States, b \in States}

RTypes ==
    /\ frames \in Seq(States)
    /\ replay \in [initial : States \cup {Bad}, current : States \cup {None},
                   next : States \cup {None}, diffs : Seq(Batches), marks : Seq(Nat)]
    /\ phase \in {"recording", "packed", "loaded"}
    /\ shown \in [prev : States \cup {Bad}, next : States \cup {None}, ticks : Nat]
    /\ shownTicks \in Nat \cup {-1}
    /\ millis \in Nat
    /\ playing \in BOOLEAN

InTime ==
    /\ \A i, j \in 1..Len(frames) : i < j => frames[i].ticks < frames[j].ticks
    /\ frames # << >> => frames[1].ticks = 0

\* The states that the recording holds: kept[n] comes out of the first n
\* batches, and says the same as the frame at its mark.
Chain(kept) ==
    /\ Len(replay.marks) = Len(replay.diffs) + 1
    /\ kept[0] = replay.initial /\ kept[0] = frames[1]
    /\ \A n \in 0..Len(replay.diffs) :
         /\ kept[n] \in States
         /\ replay.marks[n + 1] = kept[n].ticks
         /\ \E i \in 1..Len(frames) : Good(kept[n], frames[i])
    /\ \A n \in 1..Len(replay.diffs) : kept[n] = apply_diff_batch(kept[n - 1], replay.diffs[n])
    /\ \A x, y \in 1..Len(replay.marks) : x < y => replay.marks[x] < replay.marks[y]

\* The state restored last is one of them, and the last one in the recorder.
Holds(kept) ==
    IF phase = "recording"
    THEN IF replay.current = None THEN Len(replay.diffs) = 0
         ELSE replay.current = kept[Len(replay.diffs)]
    ELSE replay.current # None => \E x \in 0..Len(replay.diffs) : replay.current = kept[x]

Moment ==
    LET asked == millis * TicksPerMs
    IN  shownTicks \notin {-1, millis} =>
          /\ shown.prev.ticks <= asked
          /\ \A m \in ToSet(replay.marks) : m <= asked => m <= shown.prev.ticks
          /\ IF shown.next = None THEN asked >= Last(replay.marks)
             ELSE /\ asked < shown.next.ticks /\ shown.ticks = asked
                  /\ \A m \in ToSet(replay.marks) : m > asked => m >= shown.next.ticks

Shows(kept) ==
    phase = "loaded" =>
      /\ \E x \in 0..Len(replay.diffs) : shown.prev = kept[x]
      /\ shown.next # None => \E x \in 0..Len(replay.diffs) : shown.next = kept[x]
      /\ Moment

Kept(kept) == Chain(kept) /\ Holds(kept) /\ Shows(kept)

RInv ==
    /\ RTypes
    /\ InTime
    /\ phase # "loaded" => shownTicks = -1
    /\ IF frames = << >> THEN replay = NoReplay /\ phase = "recording" ELSE \E kept : Kept(kept)
    /\ FramesKept

\* The invariant holds before anything is recorded.
LEMMA RInvInit ==
    ReplayInit => RInv
<1> SUFFICES ASSUME ReplayInit
             PROVE  RInv
  OBVIOUS
<1>1. /\ frames = << >> /\ replay = NoReplay /\ phase = "recording" /\ shown = Solid(Bad)
      /\ shownTicks = -1 /\ millis = 0 /\ playing = FALSE
  BY DEF ReplayInit
<1>2. frames \in Seq(States) /\ Len(frames) = 0
  <2> HIDE DEF States
  <2> QED BY <1>1
<1>3. replay \in [initial : States \cup {Bad}, current : States \cup {None},
                  next : States \cup {None}, diffs : Seq(Batches), marks : Seq(Nat)]
  BY <1>1 DEF NoReplay
<1>4. shown \in [prev : States \cup {Bad}, next : States \cup {None}, ticks : Nat]
  BY <1>1 DEF Solid, Bad
<1>5. RTypes
  BY <1>1, <1>2, <1>3, <1>4 DEF RTypes
<1>6. InTime
  BY <1>1, <1>2 DEF InTime
<1>7. FramesKept
  BY <1>1 DEF FramesKept
<1> QED BY <1>1, <1>5, <1>6, <1>7 DEF RInv

\* What is read of the kept states.
LEMMA Reading ==
    ASSUME RInv, frames # << >>
    PROVE  /\ Len(frames) \in Nat \ {0} /\ Len(replay.diffs) \in Nat
           /\ \A i \in 1..Len(frames) : frames[i] \in States /\ frames[i].ticks \in Nat
           /\ \A n \in 1..Len(replay.marks) : replay.marks[n] \in Nat
           /\ Len(replay.marks) = Len(replay.diffs) + 1
           /\ replay.marks[1] = 0 /\ frames[1].ticks = 0
<1>1. frames \in Seq(States) /\ Len(replay.diffs) \in Nat /\ replay.marks \in Seq(Nat)
  BY DEF RInv, RTypes
<1>2. Len(frames) \in Nat \ {0} /\ \A i \in 1..Len(frames) : frames[i] \in States
  <2> HIDE DEF States
  <2> QED BY <1>1
<1>3. \A i \in 1..Len(frames) : frames[i].ticks \in Nat
  BY <1>2 DEF States
<1>4. PICK kept : Kept(kept)
  BY DEF RInv
<1>5. /\ Len(replay.marks) = Len(replay.diffs) + 1 /\ kept[0] = frames[1]
      /\ \A n \in 0..Len(replay.diffs) : replay.marks[n + 1] = kept[n].ticks
  BY <1>4 DEF Kept, Chain
<1>6. replay.marks[1] = kept[0].ticks
  <2>1. 0 \in 0..Len(replay.diffs) /\ 0 + 1 = 1
    BY <1>1
  <2>2. replay.marks[0 + 1] = kept[0].ticks
    BY <1>5, <2>1
  <2> QED BY <2>1, <2>2
<1>7. frames[1].ticks = 0
  BY DEF RInv, InTime
<1> QED BY <1>1, <1>2, <1>3, <1>5, <1>6, <1>7

\* The state before f[i] whose ticks are in M.
Prior(f, M, i) ==
    LET kept == {j \in 1..(i - 1) : f[j].ticks \in M}
    IN  f[CHOOSE j \in kept : \A k \in kept : k <= j]

\* It exists as long as the first frame was kept.
LEMMA PriorIs ==
    ASSUME NEW f, NEW M, NEW i \in Nat, i > 1, f[1].ticks \in M
    PROVE  \E j \in 1..(i - 1) : /\ f[j].ticks \in M /\ Prior(f, M, i) = f[j]
                                 /\ \A l \in 1..(i - 1) : f[l].ticks \in M => l <= j
<1> DEFINE K == {j \in 1..(i - 1) : f[j].ticks \in M}
           Latest(j) == \A l \in K : l <= j
           c == CHOOSE j \in K : Latest(j)
<1>1. 1 \in K /\ K \in SUBSET (1..(i - 1)) /\ i - 1 \in Nat
  OBVIOUS
<1>2. \E x \in K : \A y \in K : x >= y
  <2> HIDE DEF K
  <2> QED BY <1>1, GreatestNumber
<1>3. \E j \in K : Latest(j)
  <2>1. \A x, y \in K : x >= y => y <= x
    BY <1>1
  <2> HIDE DEF K
  <2> QED BY <1>2, <2>1
<1>4. c \in K /\ Latest(c)
  <2> HIDE DEF K, Latest
  <2> QED BY <1>3
<1>5. Prior(f, M, i) = f[c]
  BY DEF Prior
<1> HIDE DEF c
<1> QED BY <1>4, <1>5

\* Later states and marks change nothing for it.
LEMMA PriorStays ==
    ASSUME NEW f, NEW M, NEW h, NEW R, NEW i \in Nat, i > 1, f[1].ticks \in M,
           \A j \in 1..(i - 1) : h[j] = f[j] /\ (f[j].ticks \in R <=> f[j].ticks \in M)
    PROVE  Prior(h, R, i) = Prior(f, M, i)
<1>1. 1 \in 1..(i - 1)
  OBVIOUS
<1>2. h[1].ticks \in R
  BY <1>1
<1>3. PICK j \in 1..(i - 1) : /\ f[j].ticks \in M /\ Prior(f, M, i) = f[j]
                             /\ \A l \in 1..(i - 1) : f[l].ticks \in M => l <= j
  BY PriorIs
<1>4. PICK k \in 1..(i - 1) : /\ h[k].ticks \in R /\ Prior(h, R, i) = h[k]
                             /\ \A l \in 1..(i - 1) : h[l].ticks \in R => l <= k
  BY <1>2, PriorIs
<1>5. f[k].ticks \in M /\ h[j].ticks \in R
  BY <1>3, <1>4
<1>6. k <= j /\ j <= k
  BY <1>3, <1>4, <1>5
<1>7. j = k
  BY <1>6
<1> QED BY <1>3, <1>4, <1>7

\* FramesKept of frames f and marks M.
AllKept(f, n, M) ==
    \A i \in 1..n : f[i].ticks \notin M => Cut(Prior(f, M, i).arr, f[i].arr)

\* FramesKept speaks of frames and marks only ...
LEMMA FramesKeptIs ==
    ASSUME RTypes
    PROVE  FramesKept <=> AllKept(frames, Len(frames), ToSet(replay.marks))
<1>1. frames \in Seq(States)
  BY DEF RTypes
<1>2. DOMAIN frames = 1..Len(frames)
  <2> HIDE DEF States
  <2> QED BY <1>1
<1>3. \A i \in DOMAIN frames : Before(i) = Prior(frames, ToSet(replay.marks), i)
  BY DEF Before, Prior
<1>4. FramesKept <=> \A i \in DOMAIN frames :
                       frames[i].ticks \notin ToSet(replay.marks) => Cut(Before(i).arr, frames[i].arr)
  BY DEF FramesKept, Cut
<1> QED BY <1>2, <1>3, <1>4 DEF AllKept

\* ... in the next state, too.
LEMMA FramesKeptNext ==
    ASSUME RTypes'
    PROVE  FramesKept' <=> AllKept(frames', Len(frames'), ToSet(replay'.marks))
<1>1. frames' \in Seq(States)
  BY DEF RTypes
<1>2. DOMAIN frames' = 1..Len(frames')
  <2> HIDE DEF States
  <2> QED BY <1>1
<1>3. \A i \in DOMAIN frames' : Before(i)' = Prior(frames', ToSet(replay'.marks), i)
  BY DEF Before, Prior
<1>4. FramesKept' <=> \A i \in DOMAIN frames' :
                        frames'[i].ticks \notin ToSet(replay'.marks)
                          => Cut(Before(i)'.arr, frames'[i].arr)
  BY DEF FramesKept, Cut
<1> QED BY <1>2, <1>3, <1>4 DEF AllKept

\* The first state of a recording.
LEMMA AddFirst ==
    ASSUME RInv, NEW doc \in States, frames = << >>, doc.ticks = 0, add(doc),
           UNCHANGED <<phase, shown, shownTicks, millis, playing>>
    PROVE  RInv'
<1>1. replay = NoReplay /\ phase = "recording" /\ RTypes /\ shownTicks = -1
  BY DEF RInv
<1>2. ~Recorded
  BY <1>1 DEF Recorded, NoReplay
<1>3. frames' = <<doc>>
  <2>1. frames' = Append(<< >>, doc)
    BY DEF add
  <2> QED BY <2>1
<1>4. replay' = [replay EXCEPT !.initial = doc, !.marks = <<0>>]
  BY <1>2 DEF add
<1>5. replay' = [initial |-> doc, current |-> None, next |-> None, diffs |-> << >>, marks |-> <<0>>]
  BY <1>1, <1>4 DEF NoReplay
<1>6. /\ frames' \in Seq(States) /\ Len(frames') = 1 /\ frames'[1] = doc /\ frames' # << >>
      /\ Len(replay'.marks) = 1 /\ replay'.marks[1] = 0 /\ replay'.initial = doc
      /\ replay'.current = None /\ Len(replay'.diffs) = 0
      /\ ToSet(replay'.marks) = {0}
  <2>1. frames' \in Seq(States) /\ Len(frames') = 1 /\ frames'[1] = doc /\ frames' # << >>
    <3> HIDE DEF States
    <3> QED BY <1>3
  <2>2. ToSet(<<0>>) = {0}
    BY DEF ToSet
  <2> QED BY <1>5, <2>1, <2>2
<1>7. replay' \in [initial : States \cup {Bad}, current : States \cup {None},
                   next : States \cup {None}, diffs : Seq(Batches), marks : Seq(Nat)]
  <2>1. << >> \in Seq(Batches) /\ <<0>> \in Seq(Nat)
    OBVIOUS
  <2> QED BY <1>5, <2>1
<1>8. RTypes'
  BY <1>1, <1>6, <1>7 DEF RTypes
<1>9. InTime'
  BY <1>6 DEF InTime
<1>10. FramesKept'
  <2>1. frames'[1].ticks \in ToSet(replay'.marks)
    BY <1>6
  <2>2. AllKept(frames', Len(frames'), ToSet(replay'.marks))
    <3>1. \A i \in 1..Len(frames') : i = 1
      BY <1>6
    <3> QED BY <2>1, <3>1 DEF AllKept
  <2> QED BY <1>8, <2>2, FramesKeptNext
<1> DEFINE kept == [n \in 0..0 |-> doc]
<1>11. kept[0] = doc
  OBVIOUS
<1> HIDE DEF kept
<1>12. Good(doc, doc)
  BY DEF Good
<1>13. Chain(kept)'
  BY <1>6, <1>11, <1>12 DEF Chain
<1>14. Holds(kept)' /\ Shows(kept)'
  BY <1>1, <1>6 DEF Holds, Shows
<1>15. \E k : Kept(k)'
  BY <1>13, <1>14 DEF Kept
<1> QED BY <1>1, <1>6, <1>8, <1>9, <1>10, <1>15 DEF RInv

\* The states kept before one more frame: what the recorder starts from.
LEMMA Recorder ==
    ASSUME RInv, phase = "recording", frames # << >>, NEW kept, Kept(kept)
    PROVE  /\ (IF replay.current = None THEN replay.initial ELSE replay.current)
                = kept[Len(replay.diffs)]
           /\ kept[Len(replay.diffs)] \in States /\ kept[Len(replay.diffs)] # None
           /\ \E x \in 1..Len(frames) :
                /\ Good(kept[Len(replay.diffs)], frames[x])
                /\ frames[x].ticks \in ToSet(replay.marks)
                /\ \A j \in 1..Len(frames) : frames[j].ticks \in ToSet(replay.marks) => j <= x
<1> DEFINE m == Len(replay.diffs)
           M == ToSet(replay.marks)
<1>1. /\ Len(frames) \in Nat \ {0} /\ m \in Nat
      /\ \A i \in 1..Len(frames) : frames[i].ticks \in Nat
      /\ \A n \in 1..Len(replay.marks) : replay.marks[n] \in Nat
      /\ Len(replay.marks) = m + 1
  BY Reading
<1>2. /\ kept[0] = replay.initial
      /\ \A n \in 0..m : /\ kept[n] \in States
                         /\ replay.marks[n + 1] = kept[n].ticks
                         /\ \E i \in 1..Len(frames) : Good(kept[n], frames[i])
      /\ \A x, y \in 1..Len(replay.marks) : x < y => replay.marks[x] < replay.marks[y]
  BY DEF Kept, Chain
<1>3. IF replay.current = None THEN m = 0 ELSE replay.current = kept[m]
  BY DEF Kept, Holds
<1>4. m \in 0..m /\ m + 1 \in 1..Len(replay.marks)
  BY <1>1
<1> HIDE DEF m
<1>5. kept[m] \in States /\ kept[m] # None /\ replay.marks[m + 1] = kept[m].ticks
  BY <1>2, <1>4, ReplayAssumption
<1>6. (IF replay.current = None THEN replay.initial ELSE replay.current) = kept[m]
  BY <1>2, <1>3
<1>7. PICK x \in 1..Len(frames) : Good(kept[m], frames[x])
  BY <1>2, <1>4
<1>8. frames[x].ticks = replay.marks[m + 1]
  BY <1>5, <1>7 DEF Good
<1>9. M = {replay.marks[n] : n \in 1..Len(replay.marks)}
  <2>1. replay.marks \in Seq(Nat)
    BY DEF RInv, RTypes
  <2>2. DOMAIN replay.marks = 1..Len(replay.marks)
    BY <2>1
  <2> QED BY <2>2 DEF ToSet
<1> HIDE DEF M
<1>10. frames[x].ticks \in M
  BY <1>4, <1>8, <1>9
<1>11. ASSUME NEW j \in 1..Len(frames), frames[j].ticks \in M
       PROVE  j <= x
  <2> SUFFICES ASSUME x < j
               PROVE  FALSE
    BY <1>1
  <2>1. frames[x].ticks < frames[j].ticks
    BY DEF RInv, InTime
  <2>2. PICK n \in 1..Len(replay.marks) : frames[j].ticks = replay.marks[n]
    BY <1>9, <1>11
  <2>3. n = m + 1 \/ n < m + 1
    BY <1>1, <2>2 DEF m
  <2>4. replay.marks[n] <= replay.marks[m + 1]
    <3>1. CASE n = m + 1
      BY <1>1, <1>4, <3>1
    <3>2. CASE n < m + 1
      BY <1>1, <1>2, <1>4, <3>2
    <3> QED BY <2>3, <3>1, <3>2
  <2> QED BY <1>1, <1>8, <2>1, <2>2, <2>4
<1>12. /\ Good(kept[m], frames[x])
       /\ frames[x].ticks \in M
       /\ \A j \in 1..Len(frames) : frames[j].ticks \in M => j <= x
  BY <1>7, <1>10, <1>11
<1> QED BY <1>5, <1>6, <1>12 DEF m, M

\* One more frame ...
Longer(doc) ==
    /\ frames' = Append(frames, doc)
    /\ frames # << >>
    /\ doc \in States
    /\ Last(frames).ticks < doc.ticks
    /\ phase = "recording"
    /\ UNCHANGED <<phase, shown, shownTicks, millis, playing>>

\* What one frame more changes.
LEMMA LongerIs ==
    ASSUME RInv, NEW doc, Longer(doc)
    PROVE  /\ frames' \in Seq(States) /\ Len(frames') = Len(frames) + 1 /\ frames' # << >>
           /\ frames'[Len(frames) + 1] = doc
           /\ \A i \in 1..Len(frames) : frames'[i] = frames[i] /\ frames[i].ticks < doc.ticks
           /\ InTime'
<1>1. /\ Len(frames) \in Nat \ {0} /\ frames[1].ticks = 0
      /\ \A i \in 1..Len(frames) : frames[i].ticks \in Nat
  BY Reading DEF Longer
<1>2. frames' = Append(frames, doc) /\ frames \in Seq(States) /\ doc \in States
  BY DEF Longer, RInv, RTypes
<1>3. /\ frames' \in Seq(States) /\ Len(frames') = Len(frames) + 1
      /\ frames'[Len(frames) + 1] = doc
      /\ \A i \in 1..Len(frames) : frames'[i] = frames[i]
  <2> HIDE DEF States
  <2> QED BY <1>2
<1>4. \A i, j \in 1..Len(frames) : i < j => frames[i].ticks < frames[j].ticks
  BY DEF RInv, InTime
<1>5. frames[Len(frames)].ticks < doc.ticks /\ doc.ticks \in Nat
  BY DEF Longer, Last, States
<1>6. ASSUME NEW i \in 1..Len(frames)
      PROVE  frames[i].ticks < doc.ticks
  <2>1. Len(frames) \in 1..Len(frames)
    BY <1>1
  <2>2. i = Len(frames) \/ frames[i].ticks < frames[Len(frames)].ticks
    BY <1>1, <1>4, <2>1
  <2> QED BY <1>1, <1>5, <2>1, <2>2
<1>7. frames' # << >>
  <2>1. Len(frames') # 0
    BY <1>1, <1>3
  <2> QED BY <2>1
<1>8. InTime'
  <2>1. ASSUME NEW i \in 1..Len(frames'), NEW j \in 1..Len(frames'), i < j
        PROVE  frames'[i].ticks < frames'[j].ticks
    <3>1. i \in 1..Len(frames) /\ (j \in 1..Len(frames) \/ j = Len(frames) + 1)
      BY <1>1, <1>3, <2>1
    <3> QED BY <1>3, <1>4, <1>6, <2>1, <3>1
  <2>2. frames'[1].ticks = 0
    <3>1. 1 \in 1..Len(frames)
      BY <1>1
    <3> QED BY <1>1, <1>3, <3>1
  <2> QED BY <2>1, <2>2 DEF InTime
<1> QED BY <1>3, <1>6, <1>7, <1>8

\* ... that the recorder cannot turn into a batch ...
LEMMA AddLost ==
    ASSUME RInv, NEW doc, Longer(doc), NEW kept, Kept(kept),
           replay' = [replay EXCEPT !.current = kept[Len(replay.diffs)]],
           Cut(kept[Len(replay.diffs)].arr, doc.arr)
    PROVE  RInv'
<1> DEFINE m == Len(replay.diffs)
           n == Len(frames)
           M == ToSet(replay.marks)
<1>1. /\ frames' \in Seq(States) /\ Len(frames') = n + 1 /\ frames' # << >>
      /\ frames'[n + 1] = doc
      /\ \A i \in 1..n : frames'[i] = frames[i] /\ frames[i].ticks < doc.ticks
      /\ InTime'
  BY LongerIs
<1>2. /\ phase = "recording" /\ frames # << >>
      /\ UNCHANGED <<phase, shown, shownTicks, millis, playing>>
  BY DEF Longer
<1>3. n \in Nat \ {0} /\ m \in Nat
  BY <1>2, Reading
<1>4. /\ kept[m] \in States /\ kept[m] # None
      /\ \E x \in 1..n :
           /\ Good(kept[m], frames[x])
           /\ frames[x].ticks \in M
           /\ \A j \in 1..n : frames[j].ticks \in M => j <= x
  BY <1>2, Recorder
<1>5. RTypes /\ FramesKept /\ shownTicks = -1
  BY <1>2 DEF RInv
<1>6. /\ replay' \in [initial : States \cup {Bad}, current : States \cup {None},
                      next : States \cup {None}, diffs : Seq(Batches), marks : Seq(Nat)]
      /\ replay'.initial = replay.initial /\ replay'.current = kept[m]
      /\ replay'.diffs = replay.diffs /\ replay'.marks = replay.marks
  BY <1>4, <1>5 DEF RTypes
<1>7. RTypes'
  BY <1>1, <1>2, <1>5, <1>6 DEF RTypes
<1>8. FramesKept'
  <2>1. AllKept(frames, n, M)
    BY <1>5, FramesKeptIs
  <2>2. 1 \in 1..n /\ frames[1].ticks \in M
    <3>1. replay.marks[1] = 0 /\ frames[1].ticks = 0 /\ Len(replay.marks) = m + 1
      BY <1>2, Reading
    <3>2. replay.marks \in Seq(Nat)
      BY <1>5 DEF RTypes
    <3>3. 1 \in DOMAIN replay.marks
      BY <1>3, <3>1, <3>2
    <3> QED BY <1>3, <3>1, <3>3 DEF ToSet
  <2> HIDE DEF M, n
  <2>3. ASSUME NEW i \in 1..(n + 1), frames'[i].ticks \notin M
        PROVE  Cut(Prior(frames', M, i).arr, frames'[i].arr)
    <3>1. CASE i \in 1..n
      <4>1. i > 1 /\ i \in Nat /\ frames'[i] = frames[i]
        BY <1>1, <2>2, <2>3, <3>1
      <4>2. \A j \in 1..(i - 1) : frames'[j] = frames[j]
        BY <1>1, <1>3, <3>1
      <4>3. Prior(frames', M, i) = Prior(frames, M, i)
        BY <2>2, <4>1, <4>2, PriorStays
      <4> QED BY <2>1, <2>3, <3>1, <4>1, <4>3 DEF AllKept
    <3>2. CASE i = n + 1
      <4>1. i \in Nat /\ i > 1 /\ frames'[1].ticks \in M /\ 1..(i - 1) = 1..n
        BY <1>1, <1>3, <2>2, <3>2
      <4>2. PICK j \in 1..n : /\ frames'[j].ticks \in M /\ Prior(frames', M, i) = frames'[j]
                              /\ \A l \in 1..n : frames'[l].ticks \in M => l <= j
        <5>1. \E j \in 1..(i - 1) : /\ frames'[j].ticks \in M /\ Prior(frames', M, i) = frames'[j]
                                    /\ \A l \in 1..(i - 1) : frames'[l].ticks \in M => l <= j
          BY <4>1, PriorIs
        <5> QED BY <4>1, <5>1
      <4>3. PICK x \in 1..n : /\ Good(kept[m], frames[x])
                              /\ frames[x].ticks \in M
                              /\ \A l \in 1..n : frames[l].ticks \in M => l <= x
        BY <1>4
      <4>4. frames'[x].ticks \in M /\ frames[j].ticks \in M
        BY <1>1, <4>2, <4>3
      <4>5. x <= j /\ j <= x
        BY <4>2, <4>3, <4>4
      <4>6. x = j
        BY <1>3, <4>5
      <4>7. Prior(frames', M, i).arr = kept[m].arr
        BY <1>1, <4>2, <4>3, <4>6 DEF Good
      <4> QED BY <1>1, <3>2, <4>7
    <3> QED BY <1>3, <3>1, <3>2 DEF n
  <2>4. AllKept(frames', n + 1, M)
    BY <2>3 DEF AllKept
  <2>5. Len(frames') = n + 1 /\ ToSet(replay'.marks) = M
    BY <1>1, <1>6 DEF n, M
  <2> QED BY <1>7, <2>4, <2>5, FramesKeptNext
<1>9. Kept(kept)'
  <2>1. Chain(kept)
    BY DEF Kept
  <2>2. 1 \in 1..n /\ \A i \in 1..n : i \in 1..Len(frames')
    BY <1>1, <1>3
  <2>3. /\ kept[0] = frames'[1]
        /\ \A x \in 0..m : \E i \in 1..Len(frames') : Good(kept[x], frames'[i])
    BY <1>1, <2>1, <2>2 DEF Chain
  <2>4. Chain(kept)'
    BY <1>6, <2>1, <2>3 DEF Chain
  <2>5. Holds(kept)' /\ Shows(kept)'
    BY <1>2, <1>4, <1>6 DEF Holds, Shows
  <2> QED BY <2>4, <2>5 DEF Kept
<1> QED BY <1>1, <1>2, <1>5, <1>7, <1>8, <1>9 DEF RInv

\* ... and one that it can.
LEMMA AddKeeps ==
    ASSUME RInv, NEW doc, Longer(doc), NEW kept, Kept(kept),
           NEW ds \in Batches, NEW new, new = apply_diff_batch(kept[Len(replay.diffs)], ds),
           Good(new, doc),
           replay' = [replay EXCEPT !.current = new, !.diffs = Append(@, ds),
                                    !.marks = Append(@, doc.ticks)]
    PROVE  RInv'
<1> DEFINE m == Len(replay.diffs)
           n == Len(frames)
           M == ToSet(replay.marks)
<1>1. /\ frames' \in Seq(States) /\ Len(frames') = n + 1 /\ frames' # << >>
      /\ frames'[n + 1] = doc
      /\ \A i \in 1..n : frames'[i] = frames[i] /\ frames[i].ticks < doc.ticks
      /\ InTime'
  BY LongerIs
<1>2. /\ phase = "recording" /\ frames # << >>
      /\ UNCHANGED <<phase, shown, shownTicks, millis, playing>>
      /\ doc \in States
  BY DEF Longer
<1>3. /\ n \in Nat \ {0} /\ m \in Nat /\ Len(replay.marks) = m + 1
      /\ \A i \in 1..n : frames[i].ticks \in Nat
      /\ \A x \in 1..(m + 1) : replay.marks[x] \in Nat
      /\ replay.marks[1] = 0 /\ frames[1].ticks = 0
  BY <1>2, Reading
<1>4. RTypes /\ FramesKept /\ shownTicks = -1
  BY <1>2 DEF RInv
<1>5. replay.diffs \in Seq(Batches) /\ replay.marks \in Seq(Nat) /\ doc.ticks \in Nat
      /\ new \in States /\ new.ticks = doc.ticks /\ new # None
  BY <1>2, <1>4, ReplayAssumption DEF RTypes, States, Good
<1>6. /\ replay'.initial = replay.initial /\ replay'.current = new
      /\ replay'.diffs = Append(replay.diffs, ds)
      /\ replay'.marks = Append(replay.marks, doc.ticks)
      /\ replay' \in [initial : States \cup {Bad}, current : States \cup {None},
                      next : States \cup {None}, diffs : Seq(Batches), marks : Seq(Nat)]
  <2>1. Append(replay.diffs, ds) \in Seq(Batches) /\ Append(replay.marks, doc.ticks) \in Seq(Nat)
    BY <1>5
  <2> QED BY <1>4, <1>5, <2>1 DEF RTypes
<1>7. /\ Len(replay'.diffs) = m + 1 /\ replay'.diffs[m + 1] = ds
      /\ \A x \in 1..m : replay'.diffs[x] = replay.diffs[x]
      /\ Len(replay'.marks) = m + 2 /\ replay'.marks[m + 2] = doc.ticks
      /\ \A x \in 1..(m + 1) : replay'.marks[x] = replay.marks[x]
  <2>1. /\ Len(Append(replay.diffs, ds)) = m + 1 /\ Append(replay.diffs, ds)[m + 1] = ds
        /\ \A x \in 1..m : Append(replay.diffs, ds)[x] = replay.diffs[x]
    BY <1>5
  <2>2. /\ Len(Append(replay.marks, doc.ticks)) = m + 2
        /\ Append(replay.marks, doc.ticks)[m + 2] = doc.ticks
        /\ \A x \in 1..(m + 1) : Append(replay.marks, doc.ticks)[x] = replay.marks[x]
    BY <1>3, <1>5
  <2> QED BY <1>6, <2>1, <2>2
<1>8. RTypes'
  BY <1>1, <1>2, <1>4, <1>6 DEF RTypes
<1>9. ToSet(replay'.marks) = M \cup {doc.ticks}
  <2>1. DOMAIN replay.marks = 1..(m + 1) /\ DOMAIN replay'.marks = 1..(m + 2)
    <3>1. replay'.marks \in Seq(Nat)
      BY <1>5, <1>6
    <3> QED BY <1>3, <1>5, <1>7, <3>1
  <2>2. 1..(m + 2) = 1..(m + 1) \cup {m + 2}
    BY <1>3
  <2> HIDE DEF m
  <2>3. ToSet(replay'.marks) = {replay'.marks[x] : x \in 1..(m + 1)} \cup {replay'.marks[m + 2]}
    BY <2>1, <2>2 DEF ToSet
  <2>4. M = {replay.marks[x] : x \in 1..(m + 1)}
    BY <2>1 DEF ToSet
  <2>5. {replay'.marks[x] : x \in 1..(m + 1)} = {replay.marks[x] : x \in 1..(m + 1)}
    BY <1>7
  <2> QED BY <1>7, <2>3, <2>4, <2>5
<1>10. FramesKept'
  <2>1. AllKept(frames, n, M)
    BY <1>4, FramesKeptIs
  <2>2. 1 \in 1..n /\ frames[1].ticks \in M
    <3>1. 1 \in DOMAIN replay.marks
      BY <1>3, <1>5
    <3> QED BY <1>3, <3>1 DEF ToSet
  <2> DEFINE R == M \cup {doc.ticks}
  <2> HIDE DEF M, n
  <2>3. \A i \in 1..n : frames[i].ticks \in R <=> frames[i].ticks \in M
    <3>1. \A i \in 1..n : frames[i].ticks # doc.ticks
      BY <1>1, <1>3, <1>5
    <3> QED BY <3>1
  <2>4. ASSUME NEW i \in 1..(n + 1), frames'[i].ticks \notin R
        PROVE  Cut(Prior(frames', R, i).arr, frames'[i].arr)
    <3>1. i \in 1..n
      <4>1. i # n + 1
        BY <1>1, <2>4
      <4> QED BY <1>3, <4>1
    <3> HIDE DEF R
    <3>2. frames'[i] = frames[i] /\ frames[i].ticks \notin M
      BY <1>1, <2>3, <2>4, <3>1
    <3>3. i > 1 /\ i \in Nat
      BY <2>2, <3>1, <3>2
    <3>4. \A j \in 1..(i - 1) : frames'[j] = frames[j] /\ (frames[j].ticks \in R <=> frames[j].ticks \in M)
      <4>1. \A j \in 1..(i - 1) : j \in 1..n
        BY <1>3, <3>1
      <4> QED BY <1>1, <2>3, <4>1
    <3>5. Prior(frames', R, i) = Prior(frames, M, i)
      BY <2>2, <3>3, <3>4, PriorStays
    <3> QED BY <2>1, <3>1, <3>2, <3>5 DEF AllKept
  <2>5. AllKept(frames', n + 1, R)
    BY <2>4 DEF AllKept
  <2>6. Len(frames') = n + 1 /\ ToSet(replay'.marks) = R
    BY <1>1, <1>9 DEF n, M
  <2> QED BY <1>8, <2>5, <2>6, FramesKeptNext
<1>11. PICK more : more[m + 1] = new /\ \A x \in 0..m : more[x] = kept[x]
  <2> DEFINE f == [x \in 0..(m + 1) |-> IF x = m + 1 THEN new ELSE kept[x]]
  <2>1. f[m + 1] = new /\ \A x \in 0..m : f[x] = kept[x]
    BY <1>3
  <2> QED BY <2>1
<1>12. Chain(kept)
  BY DEF Kept
<1>13. Chain(more)'
  <2>1. Len(replay'.marks) = Len(replay'.diffs) + 1
    BY <1>3, <1>7
  <2>2. more[0] = replay'.initial /\ more[0] = frames'[1]
    <3>1. 0 \in 0..m /\ 1 \in 1..n
      BY <1>3
    <3> QED BY <1>1, <1>6, <1>11, <1>12, <3>1 DEF Chain
  <2>3. \A x \in 0..(m + 1) : x \in 0..m \/ x = m + 1
    BY <1>3
  <2>4. ASSUME NEW x \in 0..(m + 1)
        PROVE  /\ more[x] \in States
               /\ replay'.marks[x + 1] = more[x].ticks
               /\ \E i \in 1..Len(frames') : Good(more[x], frames'[i])
    <3>1. CASE x \in 0..m
      <4>1. /\ kept[x] \in States
            /\ replay.marks[x + 1] = kept[x].ticks
            /\ \E i \in 1..n : Good(kept[x], frames[i])
        BY <1>12, <3>1 DEF Chain
      <4>2. x + 1 \in 1..(m + 1)
        BY <1>3, <3>1
      <4>3. replay'.marks[x + 1] = replay.marks[x + 1]
        BY <1>7, <4>2
      <4>4. \A i \in 1..n : i \in 1..Len(frames') /\ frames'[i] = frames[i]
        BY <1>1, <1>3
      <4> HIDE DEF n, m
      <4>5. \E i \in 1..Len(frames') : Good(kept[x], frames'[i])
        BY <4>1, <4>4
      <4> QED BY <1>11, <3>1, <4>1, <4>3, <4>5
    <3>2. CASE x = m + 1
      <4>1. x + 1 = m + 2 /\ n + 1 \in 1..Len(frames')
        BY <1>1, <1>3, <3>2
      <4> QED BY <1>1, <1>5, <1>7, <1>11, <3>2, <4>1
    <3> QED BY <2>3, <3>1, <3>2
  <2>5. ASSUME NEW x \in 1..(m + 1)
        PROVE  more[x] = apply_diff_batch(more[x - 1], replay'.diffs[x])
    <3>1. CASE x \in 1..m
      <4>1. x \in 0..m /\ x - 1 \in 0..m
        BY <1>3, <3>1
      <4>2. more[x] = kept[x] /\ more[x - 1] = kept[x - 1] /\ replay'.diffs[x] = replay.diffs[x]
        BY <1>7, <1>11, <3>1, <4>1
      <4>3. kept[x] = apply_diff_batch(kept[x - 1], replay.diffs[x])
        BY <1>12, <3>1 DEF Chain
      <4> QED BY <4>2, <4>3
    <3>2. CASE x = m + 1
      <4>1. x - 1 = m /\ m \in 0..m
        BY <1>3, <3>2
      <4>2. more[x] = new /\ more[x - 1] = kept[m] /\ replay'.diffs[x] = ds
        BY <1>7, <1>11, <3>2, <4>1
      <4> QED BY <4>2
    <3>3. x \in 1..m \/ x = m + 1
      BY <1>3
    <3> QED BY <3>1, <3>2, <3>3
  <2>6. ASSUME NEW x \in 1..(m + 2), NEW y \in 1..(m + 2), x < y
        PROVE  replay'.marks[x] < replay'.marks[y]
    <3>1. \A z, v \in 1..(m + 1) : z < v => replay.marks[z] < replay.marks[v]
      BY <1>3, <1>12 DEF Chain
    <3>2. x \in 1..(m + 1) /\ (y \in 1..(m + 1) \/ y = m + 2)
      BY <1>3, <2>6
    <3>3. replay.marks[x] < doc.ticks
      <4>1. x - 1 \in 0..m /\ (x - 1) + 1 = x
        BY <1>3, <3>2
      <4>2. replay.marks[(x - 1) + 1] = kept[x - 1].ticks /\ \E i \in 1..n : Good(kept[x - 1], frames[i])
        BY <1>12, <4>1 DEF Chain
      <4>3. PICK i \in 1..n : Good(kept[x - 1], frames[i])
        BY <4>2
      <4>4. replay.marks[x] = frames[i].ticks
        BY <4>1, <4>2, <4>3 DEF Good
      <4> QED BY <1>1, <4>4
    <3> QED BY <1>7, <2>6, <3>1, <3>2, <3>3
  <2> HIDE DEF m
  <2> QED BY <1>7, <2>1, <2>2, <2>4, <2>5, <2>6 DEF Chain
<1>14. Holds(more)' /\ Shows(more)'
  BY <1>2, <1>5, <1>6, <1>7, <1>11 DEF Holds, Shows
<1>15. \E k : Kept(k)'
  BY <1>13, <1>14 DEF Kept
<1> QED BY <1>1, <1>2, <1>4, <1>8, <1>10, <1>15 DEF RInv

\* Every state that is given to the recorder is added or lost.
LEMMA RInvAdd ==
    ASSUME RInv, Add
    PROVE  RInv'
<1>1. PICK d \in Docs, dt \in Steps :
        add([ticks |-> IF frames = << >> THEN 0 ELSE Last(frames).ticks + dt,
             talk |-> d.talk, arr |-> d.arr])
  BY DEF Add
<1> DEFINE doc == [ticks |-> IF frames = << >> THEN 0 ELSE Last(frames).ticks + dt,
                   talk |-> d.talk, arr |-> d.arr]
<1>2. UNCHANGED <<phase, shown, shownTicks, millis, playing>> /\ phase = "recording"
  BY DEF Add
<1>3. d \in Content /\ dt \in Nat \ {0}
  BY ReplayAssumption
<1>4. d.talk \in Entry /\ d.arr \in Seq(Value \cup {Null})
  BY <1>3 DEF Content
<1>5. CASE frames = << >>
  <2>1. doc \in States /\ doc.ticks = 0
    BY <1>4, <1>5 DEF States
  <2>2. add(doc)
    BY <1>1
  <2> HIDE DEF doc
  <2> QED BY <1>2, <1>5, <2>1, <2>2, AddFirst
<1>6. CASE frames # << >>
  <2>1. Last(frames).ticks \in Nat
    <3>1. Len(frames) \in Nat \ {0} /\ \A i \in 1..Len(frames) : frames[i].ticks \in Nat
      BY <1>6, Reading
    <3>2. Len(frames) \in 1..Len(frames)
      BY <3>1
    <3> QED BY <3>1, <3>2 DEF Last
  <2>2. doc \in States /\ Last(frames).ticks < doc.ticks
    <3>1. doc.ticks = Last(frames).ticks + dt
      BY <1>6
    <3>2. doc.ticks \in Nat /\ Last(frames).ticks < doc.ticks
      BY <1>3, <2>1, <3>1
    <3> QED BY <1>4, <3>2 DEF States
  <2>3. add(doc)
    BY <1>1
  <2> HIDE DEF doc
  <2>4. Longer(doc)
    BY <1>2, <1>6, <2>2, <2>3 DEF Longer, add
  <2>5. PICK kept : Kept(kept)
    BY <1>6 DEF RInv
  <2> DEFINE base == kept[Len(replay.diffs)]
             ds == calc_diff_batch(base, doc)
             new == apply_diff_batch(base, ds)
  <2>6. /\ base \in States
        /\ base = IF replay.current = None THEN replay.initial ELSE replay.current
    BY <1>2, <1>6, <2>5, Recorder
  <2>7. Recorded
    <3>1. Len(replay.marks) = Len(replay.diffs) + 1 /\ Len(replay.diffs) \in Nat
      BY <1>6, Reading
    <3> QED BY <3>1 DEF Recorded
  <2>8. replay' = IF new = Bad THEN [replay EXCEPT !.current = base]
                  ELSE [replay EXCEPT !.current = new, !.diffs = Append(@, ds),
                                      !.marks = Append(@, doc.ticks)]
    BY <2>3, <2>6, <2>7 DEF add, Diffed
  <2>9. IF new = Bad THEN Cut(base.arr, doc.arr) ELSE Good(new, doc)
    BY <2>2, <2>6, BatchIs
  <2>10. ds \in Batches
    BY <2>2, <2>6 DEF Batches
  <2> HIDE DEF new, ds
  <2>11. CASE new = Bad
    BY <2>4, <2>5, <2>8, <2>9, <2>11, AddLost
  <2>12. CASE new # Bad
    BY <2>4, <2>5, <2>8, <2>9, <2>10, <2>12, AddKeeps DEF new
  <2> QED BY <2>11, <2>12
<1> QED BY <1>5, <1>6

\* The place of a mark is found.
LEMMA PositionIs ==
    ASSUME NEW i \in 1..Len(replay.marks), Len(replay.marks) \in Nat,
           \A n \in 1..Len(replay.marks) : replay.marks[n] \in Nat,
           \A x, y \in 1..Len(replay.marks) : x < y => replay.marks[x] < replay.marks[y]
    PROVE  Position(replay.marks[i]) = i - 1
<1> DEFINE I == {n \in 1..Len(replay.marks) : replay.marks[n] = replay.marks[i]}
<1>1. I = {i}
  <2>1. ASSUME NEW n \in 1..Len(replay.marks), n # i
        PROVE  replay.marks[n] # replay.marks[i]
    <3>1. n < i \/ i < n
      BY <2>1
    <3> QED BY <3>1
  <2> QED BY <2>1
<1> HIDE DEF I
<1>2. Min(I) = i
  BY <1>1 DEF Min
<1>3. Position(replay.marks[i]) = (IF I # {} THEN Min(I) ELSE 0) - 1
  BY DEF Position, SelectInSeq, I
<1> QED BY <1>1, <1>2, <1>3

\* Whatever was restored last, the state of a mark is the one kept for it.
LEMMA StateAt ==
    ASSUME RInv, frames # << >>, phase # "recording", NEW kept, Kept(kept),
           NEW i \in 1..Len(replay.marks)
    PROVE  /\ get_state_at(replay.marks[i]) = kept[i - 1]
           /\ kept[i - 1] \in States /\ kept[i - 1] # None /\ kept[i - 1].ticks = replay.marks[i]
           /\ i - 1 \in 0..Len(replay.diffs)
<1> DEFINE m == Len(replay.diffs)
           index == Position(replay.marks[i])
           now == Position(IF replay.current = None THEN 0 ELSE replay.current.ticks)
           current_index == IF now < 0 THEN 0 ELSE now
<1>1. /\ m \in Nat /\ Len(replay.marks) = m + 1 /\ replay.marks[1] = 0
      /\ \A n \in 1..Len(replay.marks) : replay.marks[n] \in Nat
  BY Reading
<1>2. /\ kept[0] = replay.initial
      /\ \A n \in 0..m : kept[n] \in States /\ replay.marks[n + 1] = kept[n].ticks
      /\ \A n \in 1..m : kept[n] = apply_diff_batch(kept[n - 1], replay.diffs[n])
      /\ \A x, y \in 1..Len(replay.marks) : x < y => replay.marks[x] < replay.marks[y]
  BY DEF Kept, Chain
<1>3. replay.current # None => \E x \in 0..m : replay.current = kept[x]
  BY DEF Kept, Holds
<1> HIDE DEF m
<1>4. \A n \in 1..(m + 1) : Position(replay.marks[n]) = n - 1
  <2> TAKE n \in 1..(m + 1)
  <2>1. n \in 1..Len(replay.marks) /\ Len(replay.marks) \in Nat
    BY <1>1
  <2>2. \A x, y \in 1..Len(replay.marks) : x < y => replay.marks[x] < replay.marks[y]
    BY <1>2
  <2> QED BY <1>1, <2>1, <2>2, PositionIs
<1>5. index = i - 1 /\ i - 1 \in 0..m /\ (i - 1) + 1 = i
  BY <1>1, <1>4
<1>6. kept[i - 1] \in States /\ kept[i - 1] # None /\ kept[i - 1].ticks = replay.marks[i]
  <2>1. kept[i - 1] \in States /\ replay.marks[(i - 1) + 1] = kept[i - 1].ticks
    BY <1>2, <1>5
  <2> QED BY <1>5, <2>1, ReplayAssumption
<1>7. \E x \in 0..m : current_index = x /\ (IF x > 0 /\ replay.current # None THEN replay.current
                                            ELSE replay.initial) = kept[x]
  <2>1. CASE replay.current = None
    <3>1. now = 0
      <4>1. 1 \in 1..(m + 1) /\ 1 - 1 = 0
        BY <1>1
      <4>2. Position(replay.marks[1]) = 1 - 1
        BY <1>4, <4>1
      <4> QED BY <1>1, <2>1, <4>1, <4>2
    <3>2. 0 \in 0..m
      BY <1>1
    <3> QED BY <1>2, <2>1, <3>1, <3>2
  <2>2. CASE replay.current # None
    <3>1. PICK x \in 0..m : replay.current = kept[x]
      BY <1>3, <2>2
    <3>2. x + 1 \in 1..(m + 1) /\ replay.current.ticks = replay.marks[x + 1] /\ (x + 1) - 1 = x
      BY <1>1, <1>2, <3>1
    <3>3. Position(replay.marks[x + 1]) = (x + 1) - 1
      BY <1>4, <3>2
    <3>4. now = x
      BY <2>2, <3>2, <3>3
    <3> HIDE DEF now
    <3>5. current_index = x
      BY <1>1, <3>1, <3>4
    <3>6. (IF x > 0 /\ replay.current # None THEN replay.current ELSE replay.initial) = kept[x]
      <4>1. x = 0 \/ x > 0
        BY <1>1, <3>1
      <4> QED BY <1>2, <2>2, <3>1, <4>1
    <3> QED BY <3>5, <3>6
  <2> QED BY <2>1, <2>2
<1>8. get_state_at(replay.marks[i]) =
        IF current_index <= index THEN apply_n_diffs(index - current_index, current_index)
        ELSE apply_n_diffs(index, 0)
  BY DEF get_state_at
<1> HIDE DEF index, current_index
<1>9. PICK x \in 0..m : current_index = x /\ (IF x > 0 /\ replay.current # None THEN replay.current
                                              ELSE replay.initial) = kept[x]
  BY <1>7
<1>10. CASE x <= i - 1
  <2>1. get_state_at(replay.marks[i]) = apply_n_diffs((i - 1) - x, x)
    BY <1>5, <1>8, <1>9, <1>10
  <2>2. apply_n_diffs((i - 1) - x, x) = Restoring(kept[x], (i - 1) - x, x)
    BY <1>9 DEF apply_n_diffs
  <2> DEFINE count == (i - 1) - x
  <2>3. count \in 0..(m - x) /\ x + count = i - 1
    BY <1>1, <1>5, <1>9, <1>10
  <2> HIDE DEF count
  <2>4. Restoring(kept[x], count, x) = kept[x + count]
    BY <1>1, <1>2, <2>3, RestoringIs
  <2> QED BY <1>5, <1>6, <2>1, <2>2, <2>3, <2>4 DEF count, m
<1>11. CASE ~(x <= i - 1)
  <2>1. get_state_at(replay.marks[i]) = apply_n_diffs(i - 1, 0)
    BY <1>5, <1>8, <1>9, <1>11
  <2>2. apply_n_diffs(i - 1, 0) = Restoring(kept[0], i - 1, 0)
    BY <1>2 DEF apply_n_diffs
  <2> DEFINE count == i - 1
  <2>3. count \in 0..(m - 0) /\ 0 + count = i - 1 /\ 0 \in 0..m
    BY <1>1, <1>5
  <2> HIDE DEF count
  <2>4. Restoring(kept[0], count, 0) = kept[0 + count]
    BY <1>1, <1>2, <2>3, RestoringIs
  <2> QED BY <1>5, <1>6, <2>1, <2>2, <2>3, <2>4 DEF count, m
<1> QED BY <1>1, <1>9, <1>10, <1>11

\* The marks around a moment.
LEMMA ClosestIs ==
    ASSUME RInv, frames # << >>, NEW ticks \in Nat
    PROVE  \E i \in 1..Len(replay.marks) :
             /\ replay.marks[i] <= ticks
             /\ i < Len(replay.marks) =>
                  findClosestMarks(ticks) = <<i, i + 1>> /\ ticks < replay.marks[i + 1]
             /\ i = Len(replay.marks) => findClosestMarks(ticks) = <<i, 0>>
<1> DEFINE n == Len(replay.marks)
           around == {i \in 1..(n - 1) : replay.marks[i] <= ticks /\ replay.marks[i + 1] > ticks}
           Lowest(i) == \A j \in around : i <= j
           least == CHOOSE i \in around : Lowest(i)
           T == {i \in 1..n : replay.marks[i] <= ticks}
<1>1. /\ n \in Nat \ {0} /\ replay.marks[1] = 0
      /\ \A i \in 1..n : replay.marks[i] \in Nat
  BY Reading
<1>2. findClosestMarks(ticks) = IF around # {} THEN <<least, least + 1>>
                                ELSE IF replay.marks[n] <= ticks THEN <<n, 0>> ELSE <<0, 0>>
  BY DEF findClosestMarks
<1>3. around \subseteq Nat
  BY <1>1
<1>4. CASE around # {}
  <2>1. \E i \in around : Lowest(i)
    <3> HIDE DEF around
    <3> QED BY <1>3, <1>4, LeastNumber
  <2>2. least \in around
    <3> HIDE DEF around, Lowest
    <3> QED BY <2>1
  <2> HIDE DEF least
  <2>3. /\ least \in 1..n /\ least < n /\ replay.marks[least] <= ticks
        /\ ticks < replay.marks[least + 1]
    <3>1. least \in 1..(n - 1) /\ least + 1 \in 1..n
      BY <1>1, <2>2
    <3>2. replay.marks[least] <= ticks /\ replay.marks[least + 1] > ticks
      BY <2>2
    <3>3. replay.marks[least + 1] \in Nat
      BY <1>1, <3>1
    <3> QED BY <1>1, <3>1, <3>2, <3>3
  <2>4. findClosestMarks(ticks) = <<least, least + 1>>
    BY <1>2, <1>4
  <2> QED BY <1>1, <2>3, <2>4
<1>5. CASE around = {}
  <2>1. T \in SUBSET (1..n) /\ 1 \in T
    BY <1>1
  <2>2. PICK g \in T : \A y \in T : g >= y
    <3> HIDE DEF T
    <3> QED BY <1>1, <2>1, GreatestNumber
  <2>3. g = n
    <3> SUFFICES ASSUME g # n
                 PROVE  FALSE
      OBVIOUS
    <3>1. g \in 1..(n - 1) /\ g + 1 \in 1..n /\ ~(g >= g + 1)
      BY <1>1, <2>1
    <3>2. g + 1 \notin T
      BY <2>2, <3>1
    <3>3. replay.marks[g + 1] > ticks
      BY <1>1, <3>1, <3>2
    <3> QED BY <1>5, <3>1, <3>3
  <2>4. n \in 1..n /\ replay.marks[n] <= ticks
    BY <2>3
  <2>5. findClosestMarks(ticks) = <<n, 0>>
    BY <1>2, <1>5, <2>4
  <2> QED BY <1>1, <2>4, <2>5
<1> QED BY <1>4, <1>5

\* The recording is not touched.
SameRecording ==
    /\ frames' = frames /\ frames # << >>
    /\ replay'.initial = replay.initial /\ replay'.diffs = replay.diffs
    /\ replay'.marks = replay.marks

\* What is said of the recording stays true.
LEMMA SameRecordingKeeps ==
    ASSUME RInv, SameRecording, RTypes', NEW kept, Chain(kept)
    PROVE  InTime' /\ FramesKept' /\ Chain(kept)' /\ frames' # << >>
<1>1. FramesKept'
  <2>1. AllKept(frames, Len(frames), ToSet(replay.marks))
    BY FramesKeptIs DEF RInv
  <2>2. AllKept(frames', Len(frames'), ToSet(replay'.marks))
    BY <2>1 DEF SameRecording
  <2> QED BY <2>2, FramesKeptNext
<1>2. InTime'
  BY DEF RInv, InTime, SameRecording
<1>3. Chain(kept)'
  BY DEF Chain, SameRecording
<1> QED BY <1>1, <1>2, <1>3 DEF SameRecording

\* Packing forgets the current state.
LEMMA RInvPack ==
    ASSUME RInv, pack_replay
    PROVE  RInv'
<1>1. /\ Recorded /\ phase = "recording" /\ phase' = "packed"
      /\ replay' = [replay EXCEPT !.current = None]
      /\ UNCHANGED <<frames, shown, shownTicks, millis, playing>>
  BY DEF pack_replay
<1>2. frames # << >>
  BY <1>1 DEF RInv, Recorded, NoReplay
<1>3. PICK kept : Kept(kept)
  BY <1>2 DEF RInv
<1>4. RTypes /\ shownTicks = -1
  BY <1>1 DEF RInv
<1>5. RTypes' /\ replay'.current = None /\ SameRecording
  BY <1>1, <1>2, <1>4 DEF RTypes, SameRecording
<1>6. InTime' /\ FramesKept' /\ Chain(kept)' /\ frames' # << >>
  BY <1>3, <1>5, SameRecordingKeeps DEF Kept
<1>7. Holds(kept)' /\ Shows(kept)'
  BY <1>1, <1>5 DEF Holds, Shows
<1> QED BY <1>1, <1>4, <1>5, <1>6, <1>7 DEF RInv, Kept

\* Loading shows the first state.
LEMMA RInvLoad ==
    ASSUME RInv, initReplay
    PROVE  RInv'
<1>1. /\ phase = "packed" /\ phase' = "loaded" /\ shown' = Solid(replay.initial)
      /\ UNCHANGED <<frames, replay, shownTicks, millis, playing>>
  BY DEF initReplay
<1>2. frames # << >>
  BY <1>1 DEF RInv
<1>3. PICK kept : Kept(kept)
  BY <1>2 DEF RInv
<1>4. RTypes /\ shownTicks = -1
  BY <1>1 DEF RInv
<1>5. kept[0] = replay.initial /\ 0 \in 0..Len(replay.diffs) /\ kept[0] \in States
  <2>1. Len(replay.diffs) \in Nat
    BY <1>2, Reading
  <2> QED BY <1>3, <2>1 DEF Kept, Chain
<1>6. shown' = [prev |-> kept[0], next |-> None, ticks |-> kept[0].ticks]
  BY <1>1, <1>5 DEF Solid
<1>7. RTypes' /\ SameRecording
  BY <1>1, <1>2, <1>4, <1>5, <1>6 DEF RTypes, SameRecording, States
<1>8. InTime' /\ FramesKept' /\ Chain(kept)' /\ frames' # << >>
  BY <1>3, <1>7, SameRecordingKeeps DEF Kept
<1>9. Holds(kept)'
  BY <1>1, <1>3 DEF Kept, Holds
<1>10. Shows(kept)'
  <2>1. Moment'
    BY <1>1, <1>4 DEF Moment
  <2> QED BY <1>1, <1>5, <1>6, <2>1 DEF Shows
<1> QED BY <1>1, <1>7, <1>8, <1>9, <1>10 DEF RInv, Kept

\* Shown at a moment between mark i and the one after it.
AtMoment(i, asked) ==
    /\ shown.prev.ticks = replay.marks[i] /\ replay.marks[i] <= asked
    /\ IF i = Len(replay.marks) THEN shown.next = None
       ELSE /\ shown.next # None
            /\ shown.next.ticks = replay.marks[i + 1] /\ asked < replay.marks[i + 1]
            /\ shown.ticks = asked

\* Then what is shown belongs to the moment.
LEMMA AtMomentIs ==
    ASSUME RTypes', NEW i \in 1..Len(replay'.marks),
           \A x, y \in 1..Len(replay'.marks) : x < y => replay'.marks[x] < replay'.marks[y],
           NEW ms \in Nat, millis' = ms, AtMoment(i, ms * TicksPerMs)'
    PROVE  Moment'
<1> DEFINE marks == replay'.marks
           asked == ms * TicksPerMs
<1>1. marks \in Seq(Nat) /\ Len(marks) \in Nat /\ \A x \in 1..Len(marks) : marks[x] \in Nat
      /\ DOMAIN marks = 1..Len(marks)
  <2>1. marks \in Seq(Nat)
    BY DEF RTypes
  <2> QED BY <2>1
<1>2. asked \in Nat
  BY ReplayAssumption
<1>3. /\ shown'.prev.ticks = marks[i] /\ marks[i] <= asked
      /\ IF i = Len(marks) THEN shown'.next = None
         ELSE /\ shown'.next # None
              /\ shown'.next.ticks = marks[i + 1] /\ asked < marks[i + 1]
              /\ shown'.ticks = asked
  BY DEF AtMoment
<1>4. \A x, y \in 1..Len(marks) : x < y => marks[x] < marks[y]
  OBVIOUS
<1>5. ToSet(marks) = {marks[x] : x \in 1..Len(marks)}
  BY <1>1 DEF ToSet
<1> HIDE DEF marks, asked
<1>6. ASSUME NEW m \in ToSet(marks), m <= asked
      PROVE  m <= marks[i]
  <2>1. PICK x \in 1..Len(marks) : m = marks[x]
    BY <1>5
  <2>2. CASE x = i
    BY <1>1, <2>1, <2>2 DEF marks
  <2>3. CASE x < i
    BY <1>1, <1>4, <2>1, <2>3 DEF marks
  <2>4. CASE i < x
    <3>1. i + 1 \in 1..Len(marks) /\ i # Len(marks) /\ (i + 1 = x \/ i + 1 < x)
      BY <1>1, <2>1, <2>4 DEF marks
    <3>2. marks[i + 1] <= marks[x]
      BY <1>1, <1>4, <2>1, <3>1
    <3> QED BY <1>1, <1>2, <1>3, <1>6, <2>1, <3>1, <3>2
  <2> QED BY <1>1, <2>1, <2>2, <2>3, <2>4 DEF marks
<1>7. ASSUME i # Len(marks), NEW m \in ToSet(marks), m > asked
      PROVE  m >= marks[i + 1]
  <2>1. PICK x \in 1..Len(marks) : m = marks[x]
    BY <1>5
  <2>2. i + 1 \in 1..Len(marks) /\ i \in 1..Len(marks)
    BY <1>1, <1>7 DEF marks
  <2>3. CASE x <= i
    <3>1. marks[x] <= marks[i]
      <4>1. x = i \/ x < i
        BY <2>1, <2>2, <2>3
      <4> QED BY <1>1, <1>4, <2>1, <2>2, <4>1
    <3> QED BY <1>1, <1>2, <1>3, <1>7, <2>1, <2>2, <3>1
  <2>4. CASE ~(x <= i)
    <3>1. x = i + 1 \/ i + 1 < x
      BY <1>1, <2>1, <2>2, <2>4
    <3> QED BY <1>1, <1>4, <2>1, <2>2, <3>1
  <2> QED BY <2>3, <2>4
<1>8. i = Len(marks) => asked >= Last(marks)
  BY <1>1, <1>2, <1>3 DEF Last
<1>9. millis' * TicksPerMs = asked
  BY DEF asked
<1>10. IF shown'.next = None THEN asked >= Last(marks)
       ELSE /\ asked < shown'.next.ticks /\ shown'.ticks = asked
            /\ \A m \in ToSet(marks) : m > asked => m >= shown'.next.ticks
  BY <1>3, <1>7, <1>8
<1>11. /\ shown'.prev.ticks <= asked
       /\ \A m \in ToSet(marks) : m <= asked => m <= shown'.prev.ticks
  BY <1>3, <1>6
<1> QED BY <1>9, <1>10, <1>11 DEF Moment, marks

\* Rewinding restores the states of the marks around the moment, or nothing.
LEMMA RInvRewind ==
    ASSUME RInv, phase = "loaded", NEW ms \in Nat, rewindReplayToMs(ms)
    PROVE  RInv'
<1> DEFINE asked == ms * TicksPerMs
           marks == findClosestMarks(asked)
           m == Len(replay.diffs)
<1>1. frames # << >> /\ phase # "recording" /\ asked \in Nat
  BY ReplayAssumption DEF RInv
<1>2. /\ millis' = ms
      /\ IF marks[1] = 0
         THEN playing' = FALSE /\ UNCHANGED <<replay, shown, shownTicks>>
         ELSE /\ IF shownTicks = ms
                 THEN UNCHANGED <<replay, shown>>
                 ELSE IF marks[2] = 0 THEN RestoreLast(marks[1])
                      ELSE RestoreBetween(marks[1], asked)
              /\ shownTicks' = IF shownTicks = ms THEN shownTicks ELSE shown'.ticks
              /\ UNCHANGED playing
      /\ UNCHANGED <<frames, phase>>
  BY DEF rewindReplayToMs
<1>3. PICK kept : Kept(kept)
  BY <1>1 DEF RInv
<1>4. /\ m \in Nat /\ Len(replay.marks) = m + 1
      /\ \A n \in 1..Len(replay.marks) : replay.marks[n] \in Nat
      /\ \A x, y \in 1..Len(replay.marks) : x < y => replay.marks[x] < replay.marks[y]
  BY <1>1, <1>3, Reading DEF Kept, Chain
<1>5. PICK i \in 1..Len(replay.marks) :
        /\ replay.marks[i] <= asked
        /\ i < Len(replay.marks) => marks = <<i, i + 1>> /\ asked < replay.marks[i + 1]
        /\ i = Len(replay.marks) => marks = <<i, 0>>
  BY <1>1, ClosestIs
<1> HIDE DEF marks, asked, m
<1>6. /\ i \in Nat /\ i # 0 /\ i + 1 # 0 /\ (i + 1) - 1 = i
      /\ (i < Len(replay.marks) \/ i = Len(replay.marks))
  BY <1>4
<1>7. marks[1] = i
  BY <1>5, <1>6
<1>8. \A n \in 1..Len(replay.marks) :
        /\ get_state_at(replay.marks[n]) = kept[n - 1]
        /\ kept[n - 1] \in States /\ kept[n - 1] # None
        /\ kept[n - 1].ticks = replay.marks[n] /\ n - 1 \in 0..m
  BY <1>1, <1>3, StateAt DEF m
<1>9. RTypes /\ playing' \in BOOLEAN
  BY <1>2, <1>6, <1>7 DEF RInv, RTypes
<1>10. UNCHANGED <<frames, phase>> /\ millis' = ms
  BY <1>2
<1>11. replay \in [initial : States \cup {Bad}, current : States \cup {None},
                   next : States \cup {None}, diffs : Seq(Batches), marks : Seq(Nat)]
  BY <1>9 DEF RTypes
<1>12. CASE shownTicks = ms
  <2>1. UNCHANGED <<frames, replay, phase, shown, shownTicks>> /\ millis' = ms
    BY <1>2, <1>6, <1>7, <1>12
  <2>2. RTypes' /\ SameRecording
    BY <1>1, <1>9, <2>1 DEF RTypes, SameRecording
  <2>3. InTime' /\ FramesKept' /\ Chain(kept)' /\ frames' # << >>
    BY <1>3, <2>2, SameRecordingKeeps DEF Kept
  <2>4. Holds(kept)'
    BY <1>3, <2>1 DEF Kept, Holds
  <2>5. Shows(kept)'
    <3>1. Moment'
      BY <1>12, <2>1 DEF Moment
    <3> QED BY <1>3, <2>1, <3>1 DEF Kept, Shows
  <2> QED BY <1>1, <2>1, <2>2, <2>3, <2>4, <2>5 DEF RInv, Kept
<1>13. CASE shownTicks # ms /\ i = Len(replay.marks)
  <2> DEFINE doc == get_state_at(replay.marks[i])
  <2>1. RestoreLast(i) /\ shownTicks' = shown'.ticks
    BY <1>2, <1>5, <1>6, <1>7, <1>13
  <2>2. /\ doc = kept[i - 1] /\ doc \in States /\ doc # None /\ doc.ticks = replay.marks[i]
        /\ i - 1 \in 0..m
    BY <1>8
  <2>3. replay' = [replay EXCEPT !.current = doc] /\ shown' = Solid(doc)
    BY <2>1 DEF RestoreLast
  <2> HIDE DEF doc
  <2>4. shown' = [prev |-> doc, next |-> None, ticks |-> doc.ticks] /\ doc.ticks \in Nat
    BY <2>2, <2>3 DEF Solid, States
  <2>5. SameRecording
    BY <1>1, <1>10, <1>11, <2>3 DEF SameRecording
  <2>6. replay' \in [initial : States \cup {Bad}, current : States \cup {None},
                      next : States \cup {None}, diffs : Seq(Batches), marks : Seq(Nat)]
    <3> HIDE DEF States
    <3> QED BY <1>11, <2>2, <2>3
  <2>7. /\ shown' \in [prev : States \cup {Bad}, next : States \cup {None}, ticks : Nat]
         /\ shownTicks' \in Nat
    <3> HIDE DEF States
    <3> QED BY <2>1, <2>2, <2>4
  <2>8. RTypes' /\ SameRecording
    BY <1>9, <1>10, <2>5, <2>6, <2>7 DEF RTypes
  <2>9. InTime' /\ FramesKept' /\ Chain(kept)' /\ frames' # << >>
    BY <1>3, <2>8, SameRecordingKeeps DEF Kept
  <2>10. replay'.current = doc
    BY <1>9, <2>3 DEF RTypes
  <2>11. Holds(kept)'
    BY <1>1, <1>2, <2>2, <2>8, <2>10 DEF Holds, SameRecording, m
  <2>12. AtMoment(i, ms * TicksPerMs)'
    BY <1>5, <1>13, <2>2, <2>4, <2>8 DEF AtMoment, SameRecording, asked
  <2>13. Moment'
    BY <1>2, <1>4, <2>8, <2>12, AtMomentIs DEF SameRecording
  <2>14. Shows(kept)'
    BY <2>2, <2>4, <2>8, <2>13 DEF Shows, SameRecording, m
  <2> QED BY <1>1, <1>2, <2>8, <2>9, <2>11, <2>14 DEF RInv, Kept
<1>14. CASE shownTicks # ms /\ i < Len(replay.marks)
  <2> DEFINE prev == get_state_at(replay.marks[i])
             next == get_state_at(replay.marks[i + 1])
  <2>1. RestoreBetween(i, asked) /\ shownTicks' = shown'.ticks
    BY <1>2, <1>5, <1>6, <1>7, <1>14
  <2>2. i + 1 \in 1..Len(replay.marks)
    BY <1>4, <1>14
  <2>3. /\ prev = kept[i - 1] /\ prev \in States /\ prev # None /\ prev.ticks = replay.marks[i]
        /\ i - 1 \in 0..m
    BY <1>8
  <2>4. /\ next = kept[i] /\ next \in States /\ next # None /\ next.ticks = replay.marks[i + 1]
        /\ i \in 0..m
    BY <1>6, <1>8, <2>2
  <2>5. /\ replay' = [replay EXCEPT !.current = prev, !.next = next]
        /\ shown' = Between(prev, next, asked)
    BY <2>1 DEF RestoreBetween
  <2> HIDE DEF prev, next
  <2>6. shown' = [prev |-> prev, next |-> next, ticks |-> asked]
    BY <2>5 DEF Between
  <2>7. SameRecording
    BY <1>1, <1>10, <1>11, <2>5 DEF SameRecording
  <2>8. replay' \in [initial : States \cup {Bad}, current : States \cup {None},
                      next : States \cup {None}, diffs : Seq(Batches), marks : Seq(Nat)]
    <3> HIDE DEF States
    <3> QED BY <1>11, <2>3, <2>4, <2>5
  <2>9. /\ shown' \in [prev : States \cup {Bad}, next : States \cup {None}, ticks : Nat]
         /\ shownTicks' \in Nat
    <3> HIDE DEF States
    <3> QED BY <1>1, <2>1, <2>3, <2>4, <2>6
  <2>10. RTypes' /\ SameRecording
    BY <1>9, <1>10, <2>7, <2>8, <2>9 DEF RTypes
  <2>11. InTime' /\ FramesKept' /\ Chain(kept)' /\ frames' # << >>
    BY <1>3, <2>10, SameRecordingKeeps DEF Kept
  <2>12. replay'.current = prev
    BY <1>9, <2>5 DEF RTypes
  <2>13. Holds(kept)'
    BY <1>1, <1>2, <2>3, <2>10, <2>12 DEF Holds, SameRecording, m
  <2>14. AtMoment(i, ms * TicksPerMs)'
    BY <1>4, <1>5, <1>14, <2>3, <2>4, <2>6, <2>10 DEF AtMoment, SameRecording, asked
  <2>15. Moment'
    BY <1>2, <1>4, <2>10, <2>14, AtMomentIs DEF SameRecording
  <2>16. Shows(kept)'
    BY <2>3, <2>4, <2>6, <2>10, <2>15 DEF Shows, SameRecording, m
  <2> QED BY <1>1, <1>2, <2>10, <2>11, <2>13, <2>16 DEF RInv, Kept
<1> QED BY <1>6, <1>12, <1>13, <1>14

\* A step that only pauses or plays, or none.
LEMMA RInvSame ==
    ASSUME RInv, UNCHANGED <<frames, replay, phase, shown, shownTicks, millis>>,
           playing' \in BOOLEAN
    PROVE  RInv'
<1>1. RTypes'
  BY DEF RInv, RTypes
<1>2. FramesKept'
  BY FramesKeptIs, FramesKeptNext, <1>1 DEF RInv
<1>3. ASSUME NEW kept, Kept(kept)
      PROVE  Kept(kept)'
  BY <1>3 DEF Kept, Chain, Holds, Shows, Moment
<1>4. InTime'
  BY DEF RInv, InTime
<1> QED BY <1>1, <1>2, <1>3, <1>4 DEF RInv

(* The invariant holds in every state of a recording and its replay.       *)
THEOREM RInvHolds == ReplaySpec => []RInv
<1>1. ReplayInit => RInv
  BY RInvInit
<1>2. RInv /\ [ReplayNext]_replayVars => RInv'
  <2> SUFFICES ASSUME RInv, [ReplayNext]_replayVars
               PROVE  RInv'
    OBVIOUS
  <2>1. CASE Add
    BY <2>1, RInvAdd
  <2>2. CASE pack_replay
    BY <2>2, RInvPack
  <2>3. CASE initReplay
    BY <2>3, RInvLoad
  <2>4. CASE Rewind
    <3>1. PICK ms \in 0..MaxMs : rewindReplayToMs(ms)
      BY <2>4 DEF Rewind
    <3>2. ms \in Nat /\ phase = "loaded"
      BY <2>4, ReplayAssumption DEF Rewind
    <3> QED BY <3>1, <3>2, RInvRewind
  <2>5. CASE Play
    <3>1. PICK ms \in (millis + 1)..MaxMs : rewindReplayToMs(ms)
      BY <2>5 DEF Play
    <3>2. millis \in Nat
      BY DEF RInv, RTypes
    <3>3. ms \in Nat /\ phase = "loaded"
      BY <2>5, <3>2, ReplayAssumption DEF Play
    <3> QED BY <3>1, <3>3, RInvRewind
  <2>6. CASE PauseResume
    BY <2>6, RInvSame DEF PauseResume, RInv, RTypes
  <2>7. CASE UNCHANGED replayVars
    BY <2>7, RInvSame DEF replayVars, RInv, RTypes
  <2> QED BY <2>1, <2>2, <2>3, <2>4, <2>5, <2>6, <2>7 DEF ReplayNext
<1> QED BY <1>1, <1>2, PTL DEF ReplaySpec

(* The recording keeps its types for arrays, recordings and indexes of any *)
(* size: what is restored is a state of the game, never a failed patch.    *)
THEOREM ReplayTypes == ReplaySpec => []RTypes
<1>1. RInv => RTypes
  BY DEF RInv
<1> QED BY <1>1, RInvHolds, PTL

(* No state is lost from a recording but those whose removals are cut in   *)
(* two: the arrays may shrink and grow between any two states.             *)
THEOREM FramesKeptHolds == ReplaySpec => []FramesKept
<1>1. RInv => FramesKept
  BY DEF RInv
<1> QED BY <1>1, RInvHolds, PTL

(* What is shown is what was recorded around the moment asked for, in      *)
(* whichever order the moments were visited.                               *)
THEOREM ShowsTheMomentHolds == ReplaySpec => []ShowsTheMoment
<1>1. RInv => ShowsTheMoment
  <2> SUFFICES ASSUME RInv, phase = "loaded"
               PROVE  /\ AsRecorded(shown.prev)
                      /\ shown.next # None => AsRecorded(shown.next)
                      /\ Moment
    BY DEF ShowsTheMoment, Moment
  <2>1. frames # << >> /\ frames \in Seq(States)
    BY DEF RInv, RTypes
  <2>2. DOMAIN frames = 1..Len(frames)
    <3> HIDE DEF States
    <3> QED BY <2>1
  <2>3. PICK kept : Kept(kept)
    BY <2>1 DEF RInv
  <2>4. ASSUME NEW x \in 0..Len(replay.diffs)
        PROVE  AsRecorded(kept[x])
    <3>1. PICK i \in 1..Len(frames) : Good(kept[x], frames[i])
      BY <2>3 DEF Kept, Chain
    <3> QED BY <2>2, <3>1 DEF AsRecorded, Good
  <2>5. /\ \E x \in 0..Len(replay.diffs) : shown.prev = kept[x]
        /\ shown.next # None => \E x \in 0..Len(replay.diffs) : shown.next = kept[x]
        /\ Moment
    BY <2>3 DEF Kept, Shows
  <2> QED BY <2>4, <2>5
<1> QED BY <1>1, RInvHolds, PTL
=============================================================================
