------------------------------- MODULE Picture -------------------------------
(***************************************************************************)
(* What the delivery of game states promises to a browser, without queues, *)
(* threads or indexes: the picture it shows is one that its room really    *)
(* had, it never goes back to an older one, neither within a game nor to   *)
(* the game before it, and it never becomes a picture of another room.     *)
(***************************************************************************)
EXTENDS Integers

CONSTANTS Client, Room, MaxGen, MaxTicks, NoPicture

VARIABLES
    world,    \* the moment every room has come to: its game and the ticks of it
    shown     \* the picture of each browser: a room and a moment of it

vars == <<world, shown>>

Moment == (0..MaxGen) \X (0..MaxTicks)
Pic == Room \X (0..MaxGen) \X (0..MaxTicks)
MomentOf(p) == <<p[2], p[3]>>

\* Moment m is not later than n.
UpTo(m, n) == m[1] < n[1] \/ (m[1] = n[1] /\ m[2] <= n[2])

Init ==
    /\ world = [r \in Room |-> <<0, 0>>]
    /\ shown = [c \in Client |-> NoPicture]

Advance(r) ==
    /\ \E m \in Moment : UpTo(world[r], m) /\ world' = [world EXCEPT ![r] = m]
    /\ UNCHANGED shown

Show(c) ==
    /\ \E p \in Pic :
         /\ UpTo(MomentOf(p), world[p[1]])
         /\ shown[c] # NoPicture =>
              shown[c][1] = p[1] /\ UpTo(MomentOf(shown[c]), MomentOf(p))
         /\ shown' = [shown EXCEPT ![c] = p]
    /\ UNCHANGED world

Next == (\E r \in Room : Advance(r)) \/ (\E c \in Client : Show(c))

Spec == Init /\ [][Next]_vars
=============================================================================
