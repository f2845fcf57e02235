------------------------------ MODULE Replays ------------------------------
(***************************************************************************)
(* The replays of a game: ReplayDiffed (server/src/replay.rs) records the  *)
(* states of a room as the first state and one batch of differences for    *)
(* each later one; pack_replay and load_replay (world/src/lib.rs) carry it *)
(* to the browser, whose NetState rewinds it to any moment.  Restoring a   *)
(* state starts from the one restored last where it can.                   *)
(*                                                                         *)
(* A state of the game is abstracted to the three kinds of data for which  *)
(* a difference behaves differently: its ticks, which every update         *)
(* changes; one entry of a map whose values may be null (dialogue_states); *)
(* and one array whose elements hold a field that may be null.  ReplayRaw, *)
(* which keeps the states themselves, says what the recording should give. *)
(***************************************************************************)
EXTENDS Vectors, SequencesExt

CONSTANTS Value,       \* what the entry and the field may hold
          Docs,        \* contents of the recorded states: [talk, arr]
          Steps,       \* ticks that one update may take
          MaxFrames,   \* bound: states in a recording
          Base,        \* the base in which an index is written in a path (10)
          TicksPerMs,  \* ticks in a millisecond (1000)
          MaxMs,       \* bound: the moments a player rewinds to
          None         \* no state

Missing == "missing"
Null == "null"

\* What a state of the game holds: an entry may be missing, a field is null.
Entry == Value \cup {Missing, Null}
Content == [talk : Entry, arr : Seq(Value \cup {Null})]
States == [ticks : Nat, talk : Entry, arr : Seq(Value \cup {Null})]

ASSUME ReplayAssumption ==
  /\ {Missing, Null, "bad"} \cap Value = {}
  /\ Docs \subseteq Content
  /\ None \notin States
  /\ Steps \subseteq Nat \ {0}
  /\ MaxFrames \in Nat \ {0}
  /\ Base \in Nat \ {0, 1}
  /\ TicksPerMs \in Nat \ {0}
  /\ MaxMs \in Nat

VARIABLES frames,     \* ReplayRaw: the states given to the recorder
          replay,     \* ReplayDiffed, in the recorder and then in the wasm module
          phase,      \* "recording", "packed" or "loaded"
          shown,      \* NetState.state: what the browser shows
          shownTicks, \* replay.current_state?.ticks of the browser's own copy
          millis,     \* replay.current_millis: the moment asked for
          playing     \* playingReplay

replayVars == <<frames, replay, phase, shown, shownTicks, millis, playing>>

-----------------------------------------------------------------------------
(* Differences between two states, as JSON *)

digits[n \in Nat] == IF n < Base THEN <<n>> ELSE Append(digits[n \div Base], n % Base)

Change(op, at, i, val) == [op |-> op, at |-> at, i |-> i, val |-> val]

\* ValueDiff::from_change_type on two values of one path.
from_change_type(at, i, old, new) ==
  Change(CASE old = new -> "unchanged"
           [] old # new /\ old \in {Missing, Null} /\ new # Missing -> "add"
           [] old # new /\ new \in {Missing, Null} /\ ~(old = Missing /\ new = Null) -> "remove"
           [] OTHER -> "replace",
         at, i, new)

Noted(calls) == Retained(calls, {n \in DOMAIN calls : calls[n].op # "unchanged"})

\* treediff::diff: what both have, in order, then what is new, then what is gone.
diff(a, b) ==
  LET both == IF Len(a.arr) < Len(b.arr) THEN Len(a.arr) ELSE Len(b.arr)
      kept == [i \in 1..both |-> from_change_type("prop", i - 1, a.arr[i], b.arr[i])]
      added == [i \in 1..(Len(b.arr) - both) |->
                  Change("add", "elem", both + i - 1, b.arr[both + i])]
      gone == [i \in 1..(Len(a.arr) - both) |-> Change("remove", "elem", both + i - 1, Null)]
  IN  Noted(<<from_change_type("talk", 0, a.talk, b.talk)>> \o kept) \o added \o gone
        \o <<Change("replace", "ticks", 0, b.ticks)>>

\* The path of d starts, as a text, with the path of c less its last key: the
\* map of an entry, the array of an element, or the index of a field's
\* element, of which a longer index may start with the same digits.
StartsAlike(c, d) ==
  CASE c.at = "talk" -> d.at = "talk"
    [] c.at = "elem" -> d.at \in {"elem", "prop"}
    [] c.at = "prop" -> d.at \in {"elem", "prop"} /\ IsPrefix(digits[c.i], digits[d.i])

\* The last of the removals from i on whose paths start like the first one's:
\* they are put in the opposite order.
InRun(ds, i, j) == ds[j].op = "remove" /\ StartsAlike(ds[i], ds[j])

RunEnd(ds, i) ==
  IF ds[i].op # "remove" THEN i
  ELSE CHOOSE j \in i..Len(ds) :
         /\ \A k \in (i + 1)..j : InRun(ds, i, k)
         /\ j = Len(ds) \/ ~InRun(ds, i, j + 1)

\* Mutant: removals in the order they were found.
Unordered(ds) == ds

Reordered(ds) ==
  LET from[i \in 1..(Len(ds) + 1)] ==
        IF i > Len(ds) THEN << >>
        ELSE LET j == RunEnd(ds, i) IN Reverse(SubSeq(ds, i, j)) \o from[j + 1]
  IN  from[1]

calc_diff_batch(a, b) == Reordered(diff(a, b))

Bad == [ticks |-> 0, talk |-> "bad", arr |-> << >>]

\* One operation of a JSON patch, none of which may miss its target.
AfterOp(doc, c) ==
  IF doc = Bad THEN Bad
  ELSE CASE c.at = "ticks" -> [doc EXCEPT !.ticks = c.val]
         [] c.at = "talk" /\ c.op = "add" -> [doc EXCEPT !.talk = c.val]
         [] c.at = "talk" /\ c.op # "add" ->
              IF doc.talk = Missing THEN Bad
              ELSE [doc EXCEPT !.talk = IF c.op = "remove" THEN Missing ELSE c.val]
         [] c.at = "elem" /\ c.op = "add" ->
              IF c.i > Len(doc.arr) THEN Bad
              ELSE [doc EXCEPT !.arr = InsertAt(@, c.i + 1, c.val)]
         [] c.at = "elem" /\ c.op # "add" ->
              IF c.i >= Len(doc.arr) THEN Bad ELSE [doc EXCEPT !.arr = RemoveAt(@, c.i + 1)]
         [] c.at = "prop" ->
              IF \/ c.i >= Len(doc.arr)
                 \/ c.op # "add" /\ doc.arr[c.i + 1] = Missing
              THEN Bad
              ELSE [doc EXCEPT !.arr[c.i + 1] = IF c.op = "remove" THEN Missing ELSE c.val]

\* A field without a value is null again once the document is a GameState;
\* the entry of a map stays away.
Typed(doc) ==
  [doc EXCEPT !.arr = [i \in DOMAIN @ |-> IF @[i] = Missing THEN Null ELSE @[i]]]

\* json_patch::patch: the operations one after the other.
Patching(doc, ds) ==
  LET after[n \in 0..Len(ds)] == IF n = 0 THEN doc ELSE AfterOp(after[n - 1], ds[n])
  IN  after

apply_diff_batch(doc, ds) == Typed(Patching(doc, ds)[Len(ds)])

-----------------------------------------------------------------------------
(* Recording *)

NoReplay == [initial |-> Bad, current |-> None, next |-> None,
             diffs |-> << >>, marks |-> << >>]

Recorded == Len(replay.marks) > 0

\* ReplayDiffed::add.  A patch that fails returns before anything is kept, and
\* pack_replay does not look at the result.
Diffed(r, doc) ==
  LET base == IF r.current = None THEN r.initial ELSE r.current
      ds == calc_diff_batch(base, doc)
      new == apply_diff_batch(base, ds)
  IN  IF new = Bad THEN [r EXCEPT !.current = base]
      ELSE [r EXCEPT !.current = new,
                     !.diffs = Append(@, ds),
                     !.marks = Append(@, doc.ticks)]

add(doc) ==
  /\ frames' = Append(frames, doc)
  /\ replay' = IF ~Recorded
               THEN [replay EXCEPT !.initial = doc, !.marks = <<doc.ticks>>]
               ELSE Diffed(replay, doc)

\* The states of a room from its beginning: the clock starts at 0 and moves on.
Add ==
  /\ phase = "recording"
  /\ Len(frames) < MaxFrames
  /\ \E d \in Docs, dt \in Steps :
       add([ticks |-> IF frames = << >> THEN 0 ELSE Last(frames).ticks + dt,
            talk |-> d.talk, arr |-> d.arr])
  /\ UNCHANGED <<phase, shown, shownTicks, millis, playing>>

pack_replay ==
  /\ phase = "recording"
  /\ Recorded
  /\ phase' = "packed"
  /\ replay' = [replay EXCEPT !.current = None]
  /\ UNCHANGED <<frames, shown, shownTicks, millis, playing>>

-----------------------------------------------------------------------------
(* Rewinding *)

\* The state at one mark, and the state between two neighbouring marks.
Solid(doc) == [prev |-> doc, next |-> None, ticks |-> doc.ticks]
Between(a, b, ticks) == [prev |-> a, next |-> b, ticks |-> ticks]

\* load_replay and initReplay
initReplay ==
  /\ phase = "packed"
  /\ phase' = "loaded"
  /\ shown' = Solid(replay.initial)
  /\ UNCHANGED <<frames, replay, shownTicks, millis, playing>>

\* The place of the first mark equal to ticks, from 0.
Position(ticks) == SelectInSeq(replay.marks, LAMBDA m : m = ticks) - 1

\* count batches from the one after from_idx on, applied to doc.
Restoring(doc, count, from_idx) ==
  LET after[n \in 0..count] ==
        IF n = 0 THEN doc ELSE apply_diff_batch(after[n - 1], replay.diffs[from_idx + n])
  IN  after[count]

\* Mutant: the state kept last is the start when going backwards, too.
TrustsCurrent(count, from_idx) ==
  Restoring(IF replay.current = None THEN replay.initial ELSE replay.current, count, from_idx)

apply_n_diffs(count, from_idx) ==
  Restoring(IF from_idx > 0 /\ replay.current # None THEN replay.current ELSE replay.initial,
            count, from_idx)

get_state_at(ticks) ==
  LET index == Position(ticks)
      now == Position(IF replay.current = None THEN 0 ELSE replay.current.ticks)
      current_index == IF now < 0 THEN 0 ELSE now
  IN  IF current_index <= index
      THEN apply_n_diffs(index - current_index, current_index)
      ELSE apply_n_diffs(index, 0)

\* The neighbouring marks around a moment; 0 stands for null.
findClosestMarks(ticks) ==
  LET n == Len(replay.marks)
      around == {i \in 1..(n - 1) : replay.marks[i] <= ticks /\ replay.marks[i + 1] > ticks}
  IN  IF around # {} THEN LET i == CHOOSE i \in around : \A j \in around : i <= j
                          IN  <<i, i + 1>>
      ELSE IF replay.marks[n] <= ticks THEN <<n, 0>> ELSE <<0, 0>>

\* get_preloaded_diff_replay_state_at_interpolated: both states are restored
\* from the cached one before it is replaced.
RestoreBetween(i, ticks) ==
  LET prev == get_state_at(replay.marks[i])
      next == get_state_at(replay.marks[i + 1])
  IN  /\ replay' = [replay EXCEPT !.current = prev, !.next = next]
      /\ shown' = Between(prev, next, ticks)

\* get_preloaded_diff_replay_state_at
RestoreLast(i) ==
  LET doc == get_state_at(replay.marks[i])
  IN  /\ replay' = [replay EXCEPT !.current = doc]
      /\ shown' = Solid(doc)

rewindReplayToMs(ms) ==
  LET ticks == ms * TicksPerMs
      marks == findClosestMarks(ticks)
  IN  /\ millis' = ms
      /\ IF marks[1] = 0
         THEN playing' = FALSE /\ UNCHANGED <<replay, shown, shownTicks>>
         ELSE /\ IF shownTicks = ms
                 THEN UNCHANGED <<replay, shown>>
                 ELSE IF marks[2] = 0 THEN RestoreLast(marks[1])
                      ELSE RestoreBetween(marks[1], ticks)
              /\ shownTicks' = IF shownTicks = ms THEN shownTicks ELSE shown'.ticks
              /\ UNCHANGED playing
      /\ UNCHANGED <<frames, phase>>

\* The player drags the slider.
Rewind == phase = "loaded" /\ \E ms \in 0..MaxMs : rewindReplayToMs(ms)

\* The timer plays on.
Play ==
  /\ phase = "loaded"
  /\ playing
  /\ \E ms \in (millis + 1)..MaxMs : rewindReplayToMs(ms)

PauseResume ==
  /\ phase = "loaded"
  /\ playing' = ~playing
  /\ UNCHANGED <<frames, replay, phase, shown, shownTicks, millis>>

ReplayInit ==
  /\ frames = << >>
  /\ replay = NoReplay
  /\ phase = "recording"
  /\ shown = Solid(Bad)
  /\ shownTicks = -1
  /\ millis = 0
  /\ playing = FALSE

ReplayNext == Add \/ pack_replay \/ initReplay \/ Rewind \/ Play \/ PauseResume

ReplaySpec == ReplayInit /\ [][ReplayNext]_replayVars

-----------------------------------------------------------------------------
(* Properties *)

\* The entry of the map that was null may be gone instead: whoever reads it
\* finds no value either way.
Tidy(doc) == [doc EXCEPT !.talk = IF @ = Null THEN Missing ELSE @]

AsRecorded(doc) == \E i \in DOMAIN frames : Tidy(frames[i]) = Tidy(doc)

(* ShowsTheMoment: whatever the player rewound to before and whichever     *)
(* state the wasm module kept, what is shown is what was recorded at the   *)
(* marks around the moment asked for.  The one exception is in the browser *)
(* (NetState.ts:470): when the ticks of the state that is shown are, as a  *)
(* number, the milliseconds asked for, nothing is restored.                *)
ShowsTheMoment ==
  phase = "loaded" =>
    LET asked == millis * TicksPerMs
    IN  /\ AsRecorded(shown.prev)
        /\ shown.next # None => AsRecorded(shown.next)
        /\ shownTicks \notin {-1, millis} =>
             /\ shown.prev.ticks <= asked
             /\ \A m \in ToSet(replay.marks) : m <= asked => m <= shown.prev.ticks
             /\ IF shown.next = None THEN asked >= Last(replay.marks)
                ELSE /\ asked < shown.next.ticks /\ shown.ticks = asked
                     /\ \A m \in ToSet(replay.marks) : m > asked => m >= shown.next.ticks

\* The state before frames[i] that was recorded.
Before(i) == LET kept == {j \in 1..(i - 1) : frames[j].ticks \in ToSet(replay.marks)}
             IN  frames[CHOOSE j \in kept : \A k \in kept : k <= j]

(* FramesKept: no state is lost from a recording, however the array shrinks *)
(* and grows, except in one case: an element k loses its field while the    *)
(* array shrinks, no element after it changes but to lose its field, too,   *)
(* if its index starts with the digits of k, and of the removed indices the *)
(* first starts with them but another does not.  Then the removals are cut  *)
(* in two and put in the wrong order.                                       *)
FramesKept ==
  \A i \in DOMAIN frames :
    frames[i].ticks \notin ToSet(replay.marks) =>
      LET was == Before(i).arr
          is == frames[i].arr
          Loses(k) == was[k + 1] # Null /\ is[k + 1] = Null
      IN  \E k \in 0..(Len(is) - 1) :
            /\ Loses(k)
            /\ \A j \in (k + 1)..(Len(is) - 1) :
                 was[j + 1] # is[j + 1] => Loses(j) /\ IsPrefix(digits[k], digits[j])
            /\ IsPrefix(digits[k], digits[Len(is)])
            /\ \E m \in Len(is)..(Len(was) - 1) : ~IsPrefix(digits[k], digits[m])

=============================================================================
