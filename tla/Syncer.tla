------------------------------- MODULE Syncer -------------------------------
(***************************************************************************)
(* The prediction in the browser (StateSyncer.ts, NetState.ts), the        *)
(* updates of a world it makes through WebAssembly (world/src/lib.rs,      *)
(* world.rs), and as much of the server as it takes to correct it: a queue *)
(* of actions, fixed steps, and a broadcast of the state.                  *)
(*                                                                         *)
(* The browser keeps two worlds, the one it shows (state) and the last one *)
(* of the server brought up to date (trueState), and the packets of the    *)
(* player that the server has not reported yet (pending).  Of a world the  *)
(* model keeps what the two may disagree about: how often each packet ran, *)
(* the position of the player's ship, and the time.                        *)
(*                                                                         *)
(* Time is counted from the present of the server, whose ticks are         *)
(* always 0: when it makes a step, everything else gets older.  The unit   *)
(* is half the update interval, so that a frame that is slowed down is     *)
(* shorter than an interval and leaves a remainder.                        *)
(***************************************************************************)
EXTENDS Integers, Sequences, FiniteSets, SequencesExt

CONSTANTS
  Tag,              \* the packets a player may send, each once
  Frames,           \* the lengths of the browser's frames
  AheadMax,         \* MAX_ALLOWED_CLIENT_AHEAD_TICKS
  Overcompensation, \* MAGIC_OVERCOMPENSATE_CLIENT_LAG
  LongUpdate,       \* LONG_UPDATE_WARN
  CriticalUpdate,   \* CRITICAL_UPDATE_BAIL
  PendingLife,      \* MAX_PENDING_ACTIONS_LIFETIME_TICKS
  ShareLife,        \* MAX_PROCESSED_ACTIONS_SHARE_TIME_TICKS
  Hop,              \* how far an action moves the ship
  Tolerated,        \* MAX_ALLOWED_VISUAL_DESYNC_UNITS
  MaxJump,          \* MAX_ALLOWED_JUMP_DESYNC_UNITS_PER_TICK
  NetCap,           \* bound: messages on their way, in each direction
  Lag,              \* bound: how far anything falls behind the server
  Lead,             \* bound: how far the browser is ahead of it when a frame begins
  MaxGames          \* bound: restarts of the game

Step == 2           \* update_every_ticks

ASSUME SyncerAssumption ==
  /\ IsFiniteSet(Tag)
  /\ Frames \subseteq Nat \ {0}
  /\ {AheadMax, Overcompensation, LongUpdate, CriticalUpdate, PendingLife, ShareLife,
      Hop, Tolerated, MaxJump, NetCap, Lag, Lead, MaxGames} \subseteq Nat
  /\ LongUpdate < CriticalUpdate

VARIABLES
  srv,        \* the world of the server
  up, down,   \* packets and states on their way
  unused,     \* packets the player has not made yet
  orphaned,   \* packets for a ship that is gone: the server does not report them
  state, trueState,
  same,       \* trueState === state: one object
  shared,     \* they share the array player_actions
  useCache,   \* useCachedStateForUpdateContext
  cache,      \* cached_states of the WebAssembly module, while the flag is up
  pending     \* pendingActionPacks; their order does not matter

net == <<up, down>>
server == <<srv, unused, orphaned>>
browser == <<state, trueState, same, shared, useCache, cache, pending>>
vars == <<server, net, browser>>

(***************************************************************************)
(* A world.  done: for how long the packet stays in processed_player_-     *)
(* actions, 0 when it is not there; ran: how often it was executed.        *)
(***************************************************************************)
NewWorld(id) == [id |-> id, ticks |-> 0, acc |-> 0, queue |-> <<>>,
                 done |-> [t \in Tag |-> 0], ran |-> [t \in Tag |-> 0], pos |-> 0]

Queued(w) == ToSet(w.queue)
Least(a, b) == IF a < b THEN a ELSE b
Greatest(a, b) == IF a > b THEN a ELSE b
Gap(v, w) == Greatest(v.pos - w.pos, w.pos - v.pos)

\* Twice stands for more often, so that a world has finitely many states.
RanAfter(w) ==
  [t \in Tag |-> Least(2, w.ran[t] + Cardinality({i \in DOMAIN w.queue : w.queue[i] = t}))]

Total(ran) == Cardinality({t \in Tag : ran[t] >= 1}) + Cardinality({t \in Tag : ran[t] = 2})

\* update_player_actions, in an update of `ticks': every queued packet is executed.
RunQueue(w, ticks) ==
  [w EXCEPT !.queue = <<>>,
            !.done = [t \in Tag |-> IF t \in Queued(w) THEN ShareLife
                                    ELSE Greatest(w.done[t] - ticks, 0)],
            !.ran = RanAfter(w),
            !.pos = w.pos + Hop * (Total(RanAfter(w)) - Total(w.ran))]

\* Mutant: the rest is kept although it was simulated.
UpdateKeepsAll(w, elapsed, force) ==
  LET total == w.acc + elapsed
      ticks == IF force THEN total ELSE Step * (total \div Step)
  IN  [RunQueue(w, ticks) EXCEPT !.ticks = @ + ticks, !.acc = total]

\* update_world: whole intervals, with the rest kept for the next update; or,
\* if forced, one step of any length.
Update(w, elapsed, force) ==
  LET total == w.acc + elapsed
      ticks == IF force THEN total ELSE Step * (total \div Step)
      ran   == IF ticks = 0 /\ ~force THEN w ELSE RunQueue(w, ticks)
  IN  [ran EXCEPT !.ticks = @ + ticks, !.acc = total - ticks]

\* optimizeStateForWasmCall
Hidden(w) == [w EXCEPT !.done = [t \in Tag |-> 0]]

-----------------------------------------------------------------------------
(***************************************************************************)
(* The server                                                              *)
(***************************************************************************)
Older(w) == [w EXCEPT !.ticks = @ - Step]

\* Nothing is further behind than Lag: the bound of the exploration.
InReach == /\ state.ticks > -Lag /\ trueState.ticks > -Lag
           /\ \A i \in DOMAIN down : down[i].ticks > -Lag

ServerUpdate ==
  /\ InReach
  /\ srv' = [Update(srv, Step, FALSE) EXCEPT !.ticks = 0]
  /\ down' = [i \in DOMAIN down |-> Older(down[i])]
  /\ state' = Older(state) /\ trueState' = Older(trueState)
  /\ cache' = IF useCache THEN Older(cache) ELSE cache
  /\ pending' = {[p EXCEPT !.at = Greatest(@ - Step, -(Lag + Step + PendingLife))] : p \in pending}
  /\ UNCHANGED <<up, unused, orphaned, same, shared, useCache>>

\* on_client_schedule_player_action(_batch)
Schedule ==
  /\ up # <<>>
  /\ up' = Tail(up)
  /\ srv' = [srv EXCEPT !.queue = Append(@, Head(up))]
  /\ UNCHANGED <<down, unused, orphaned, browser>>

\* patch_state_for_all_clients drops the queue, patch_state_for_client_impl the
\* packets that are not of the client's present ship.
Patched(w) == [w EXCEPT !.queue = <<>>,
                        !.done = [t \in Tag |-> IF t \in orphaned THEN 0 ELSE w.done[t]]]

Broadcast ==
  /\ Len(down) < NetCap
  /\ down' = Append(down, Patched(srv))
  /\ UNCHANGED <<server, up, browser>>

\* Others act in the room as well, and things move there: at most once between
\* two restarts.
Others ==
  /\ srv.pos = Hop * Total(srv.ran)
  /\ srv' = [srv EXCEPT !.pos = @ + Hop]
  /\ UNCHANGED <<unused, orphaned, net, browser>>

\* The ship the packets so far were made for is gone.
ShipGone ==
  /\ orphaned = {} /\ unused # Tag
  /\ orphaned' = Tag \ unused
  /\ UNCHANGED <<srv, unused, net, browser>>

\* The game restarts under a new state id, with fresh ships.
Restart ==
  /\ srv.id < MaxGames
  /\ srv' = NewWorld(srv.id + 1)
  /\ orphaned' = Tag \ unused
  /\ UNCHANGED <<unused, net, browser>>

-----------------------------------------------------------------------------
(***************************************************************************)
(* The browser                                                             *)
(***************************************************************************)

\* Without the flag nobody reads the cache before it is made anew.
Cached(w) == IF useCache' THEN w ELSE NewWorld(0)

\* send: while the socket is connecting a packet is dropped without a word.
Sent(t, connected) == IF connected THEN Append(up, t) ELSE up

\* applyCurrentPlayerActions: what is held down now makes a packet, sent first and
\* then given to the syncer.
Packed(t, sent) ==
  /\ t \in unused
  /\ sent => Len(up) < NetCap
  /\ unused' = unused \ {t}
  /\ up' = Sent(t, sent)

\* Mutant: the flag stays up after a packet.
ActKeepsCache(t, sent, twice) ==
  /\ Packed(t, sent)
  /\ pending' = pending \cup {[tag |-> t, at |-> state.ticks]}
  /\ state' = [state EXCEPT !.queue = Append(@, t)]
  /\ UNCHANGED <<srv, orphaned, down, trueState, same, shared, useCache, cache>>

\* startLongAction puts its action into the queue itself, before the syncer does.
Pushed(w, t, twice) == [w EXCEPT !.queue = @ \o IF twice THEN <<t, t>> ELSE <<t>>]

\* A packet of the player: sent unless the socket is connecting, and put into the
\* queue of the shown world at once (onPlayerAction).  An array that both worlds
\* share gets it for both.
Act(t, sent, twice) ==
  /\ Packed(t, sent)
  /\ pending' = pending \cup {[tag |-> t, at |-> state.ticks]}
  /\ state' = Pushed(state, t, twice)
  /\ trueState' = IF shared THEN Pushed(trueState, t, twice) ELSE trueState
  /\ useCache' = FALSE /\ cache' = Cached(cache)
  /\ UNCHANGED <<srv, orphaned, down, same, shared>>

\* handle: a state of another game begins anew.
ReceiveInit ==
  /\ down # <<>> /\ Head(down).id # state.id
  /\ down' = Tail(down)
  /\ state' = Head(down) /\ trueState' = Head(down)
  /\ same' = TRUE /\ shared' = TRUE
  /\ useCache' = FALSE /\ cache' = Cached(cache)
  /\ pending' = {}
  /\ UNCHANGED <<server, up>>

Reported(p) == Head(down).done[p.tag] > 0
Outdated(p) == Greatest(state.ticks - p.at, p.at - state.ticks) > PendingLife

\* Mutant: a packet is given up, and what it did stays on the screen.
ReceiveWithoutOverwrite ==
  /\ down # <<>> /\ Head(down).id = state.id
  /\ down' = Tail(down)
  /\ pending' = {p \in pending : ~Reported(p) /\ ~Outdated(p)}
  /\ trueState' = Head(down) /\ same' = FALSE /\ shared' = FALSE
  /\ UNCHANGED <<server, up, state, useCache, cache>>

\* Mutant: nothing is ever given up.
ReceiveWithoutTimeout ==
  /\ down # <<>> /\ Head(down).id = state.id
  /\ down' = Tail(down)
  /\ pending' = {p \in pending : ~Reported(p)}
  /\ trueState' = Head(down) /\ same' = FALSE /\ shared' = FALSE
  /\ UNCHANGED <<server, up, state, useCache, cache>>

\* onServerState: packets the server reports are settled; one that is too old is
\* given up, and with it everything the browser predicted.
ReceiveState ==
  /\ down # <<>> /\ Head(down).id = state.id
  /\ down' = Tail(down)
  /\ LET left == {p \in pending : ~Reported(p)}
         violated == \E p \in left : Outdated(p)
     IN  /\ pending' = {p \in left : ~Outdated(p)}
         /\ trueState' = Head(down)
         /\ state' = IF violated THEN Head(down) ELSE state
         /\ same' = violated /\ shared' = violated
         /\ useCache' = (useCache /\ ~violated) /\ cache' = Cached(cache)
  /\ UNCHANGED <<server, up>>

\* onTimeUpdate: a browser that is too far ahead slows down.
Slowed(e) ==
  IF state.ticks + e - trueState.ticks > AheadMax THEN e \div 2 ELSE e

Compensated(w, e) ==
  IF w.ticks + e - trueState.ticks < 0 THEN e + Overcompensation ELSE e

\* updateState in the context 'onTimeUpdate current'.  The world made from the cache
\* is the only one that may be updated in one step: updateWorld drops that option.
Current(e) ==
  IF useCache THEN Update(cache, e, e > LongUpdate)
  ELSE Update(Hidden(state), Compensated(state, e), FALSE)

\* rebaseStateUsingCurrentActions: the packets the true world has not executed,
\* as far as it remembers, if they are not in its future.
Rebased(e) ==
  LET missing == {p \in pending : trueState.done[p.tag] = 0 /\ p.at <= trueState.ticks + e}
  IN  [trueState EXCEPT !.queue = @ \o SetToSeq({p.tag : p \in missing})]

Rebase(cur, e) == Update(Hidden(Rebased(e)), Compensated(cur, e), FALSE)

\* Mutant: what the player's packets did is left to the client.
OverriddenByClient(cur, true) == [cur EXCEPT !.queue = true.queue, !.done = true.done]

\* The table `reconciliation', of what the model has: where the browser's own update
\* counts.  What things do and what is in them is always the server's.
ClientKeys == {"ticks", "acc", "pos"}

\* overrideKeysRecursive
Overridden(cur, true) == [k \in DOMAIN true |-> IF k \in ClientKeys THEN cur[k] ELSE true[k]]

\* What a frame of length e lets pass: as far as a ship may fly in it.
Passed(e) == MaxJump * e

\* checkViolations, of positions: a gap has to exceed both limits.
Violates(cur, true, e) == Gap(cur, true) > Tolerated /\ Gap(cur, true) > Passed(e)

Towards(cur, true, shift) ==
  [cur EXCEPT !.pos = IF cur.pos < true.pos THEN cur.pos + shift ELSE cur.pos - shift]

\* By how much a frame makes a gap d smaller.  The code takes a distance that grows
\* with e and with d ** 1.5, which is left open, but stops at what is let pass.
Shifts(d, e) == 1..(d - Passed(e))

\* Mutant: what is off the screen stays where it is.
CorrectionsOnScreen(cur, true, e, visible) ==
  IF ~Violates(cur, true, e) \/ ~visible THEN {cur}
  ELSE {Towards(cur, true, shift) : shift \in Shifts(Gap(cur, true), e)}

\* checkViolations, applyMaxPossibleDesyncCorrection: a ship on the screen is moved
\* towards where it should be, one off the screen jumps there.
Corrections(cur, true, e, visible) ==
  IF ~Violates(cur, true, e) THEN {cur}
  ELSE {Towards(cur, true, shift) :
           shift \in IF visible THEN Shifts(Gap(cur, true), e) ELSE {Gap(cur, true)}}

\* The two worlds are one: no second update, no correction.
FrameInSync(e) ==
  /\ same /\ Slowed(e) <= CriticalUpdate
  /\ \E cur \in {Current(Slowed(e))} : state' = cur /\ trueState' = cur
  /\ same' = TRUE /\ shared' = TRUE
  /\ useCache' = TRUE /\ cache' = Cached(state')
  /\ UNCHANGED pending

\* Both worlds are updated, and the shown one is corrected by the true one.
FrameDesynced(e, visible) ==
  /\ ~same /\ e <= CriticalUpdate
  /\ \E cur \in {Current(Slowed(e))} : \E true \in {Rebase(cur, e)} :
     \E drawn \in Corrections(Overridden(cur, true), true, e, visible) :
       /\ state' = drawn
       /\ same' = ~Violates(drawn, true, e)
       /\ trueState' = IF same' THEN drawn ELSE true
  /\ useCache' = FALSE /\ cache' = Cached(cache)
  /\ shared' = TRUE
  /\ UNCHANGED pending

\* forceOverwriteByServerDueToLag: after a frame of that length the true world is
\* shown as it is.  When the frame was slowed down, only its second half is too long.
FrameTooLong(e) ==
  /\ IF same THEN Slowed(e) > CriticalUpdate ELSE e > CriticalUpdate
  /\ state' = IF same THEN trueState ELSE Rebased(e)
  /\ trueState' = state'
  /\ same' = TRUE /\ shared' = TRUE
  /\ useCache' = FALSE /\ cache' = Cached(cache)
  /\ UNCHANGED pending

Frame ==
  \E e \in Frames, visible \in BOOLEAN :
    /\ state.ticks <= Lead
    /\ FrameInSync(e) \/ FrameDesynced(e, visible) \/ FrameTooLong(e)
    /\ UNCHANGED <<server, net>>

-----------------------------------------------------------------------------
Init ==
  /\ srv = NewWorld(0) /\ up = <<>> /\ down = <<>>
  /\ unused = Tag /\ orphaned = {}
  /\ state = NewWorld(0) /\ trueState = NewWorld(0)
  /\ same = TRUE /\ shared = TRUE
  /\ useCache = FALSE /\ cache = NewWorld(0)
  /\ pending = {}

Receive == ReceiveInit \/ ReceiveState

Next ==
  \/ ServerUpdate \/ Schedule \/ Broadcast \/ Others \/ ShipGone \/ Restart
  \/ \E t \in Tag, sent, twice \in BOOLEAN : Act(t, sent, twice)
  \/ Receive \/ Frame

Spec == Init /\ [][Next]_vars

\* Server and browser run for ever and the connection delivers; nobody has to act.
FairSpec == /\ Spec
            /\ WF_vars(ServerUpdate) /\ WF_vars(Schedule) /\ WF_vars(Broadcast)
            /\ WF_vars(Receive) /\ WF_vars(Frame)
-----------------------------------------------------------------------------
(***************************************************************************)
(* Properties                                                              *)
(***************************************************************************)
World == [id : 0..MaxGames, ticks : Int, acc : 0..(Step - 1), queue : Seq(Tag),
          done : [Tag -> Nat], ran : [Tag -> 0..2], pos : Nat]

\* Type invariant.  In particular no update leaves a whole interval unsimulated.
TypeOK ==
  /\ {srv, state, trueState, cache} \subseteq World
  /\ up \in Seq(Tag) /\ down \in Seq(World)
  /\ unused \subseteq Tag /\ orphaned \subseteq Tag
  /\ {same, shared, useCache} \subseteq BOOLEAN
  /\ pending \subseteq [tag : Tag, at : Int]

\* Whenever an update may start from the world the WebAssembly module kept, that
\* world is the one on the screen: nothing the player did or the server said since
\* is lost by an incremental update (useCachedStateForUpdateContext).
CacheFresh == useCache => cache = state

\* Whatever the browser shows as done is on its way to being real: the packet is
\* still pending, or the server has it or had it.  A packet that was never sent, or
\* whose report is lost, is undone in the very step that gives it up
\* (cleanupCommitedAndOutdatedPendingActions).
NothingInvented ==
  state.id = srv.id =>
    \A t \in Tag : state.ran[t] > 0 =>
      \/ \E p \in pending : p.tag = t
      \/ t \in ToSet(up) \cup Queued(srv)
      \/ srv.ran[t] > 0

\* A frame never hides what a state of the server has already told: what ran in the
\* true world is shown as run, whatever the browser's own update made of it.
ToldIsShown ==
  [][Frame => \A t \in Tag : trueState.ran[t] <= state'.ran[t]]_vars

\* Every packet is settled in the end: reported by the server or given up.
Settles == \A t \in Tag :
  (\E p \in pending : p.tag = t) ~> (\A p \in pending : p.tag # t)

\* When the player is quiet, the browser comes to show what the server has, up to a
\* distance nobody sees or, in a slow browser, as far as a ship may fly in the longest
\* frame that is still simulated; and it keeps showing it.
Near(v, w) == \/ Gap(v, w) <= Tolerated
              \/ \E e \in Frames : e <= CriticalUpdate /\ Gap(v, w) <= Passed(e)
Converges ==
  <>[](state.id = srv.id => state.ran = srv.ran /\ Near(state, srv))
=============================================================================
