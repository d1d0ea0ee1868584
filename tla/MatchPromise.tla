---------------------------- MODULE MatchPromise -----------------------------
(***************************************************************************)
(* What the server promises the players of one match, without saying how:  *)
(*                                                                         *)
(*   - a world only ever moves by one tick or by one player's command;     *)
(*   - what is on disk is always a moment that world really went through,  *)
(*     and it only moves forward;                                          *)
(*   - a stop of the process costs at most the way back to that moment:    *)
(*     the match resumes there and nowhere else, never from tick 0;        *)
(*   - the lobby is finished with its last world on disk, for good, or the *)
(*     match is given up while nobody is playing it.                       *)
(*                                                                         *)
(* Match.tla implements it, with the drivers, saves and restarts that      *)
(* internal/lobby does it with.                                            *)
(***************************************************************************)
EXTENDS Naturals, Sequences

CONSTANTS Players, EndTick, NoWorld

VARIABLES
  phase,   \* "open", "starting", "running" or "finished"
  world,   \* the world the players are in, or NoWorld while nothing runs it
  kept     \* the world on disk, or NoWorld

vars == <<phase, world, kept>>

Dawn == [tick |-> 0, inputs |-> <<>>]

\* The moment the world w stood at tick t having taken its first n inputs, if
\* there was one.
WasMoment(w, t, n) ==
  /\ \A i \in 1..n : w.inputs[i].tick <= t
  /\ \A i \in (n + 1)..Len(w.inputs) : w.inputs[i].tick >= t

Moment(w, t, n) == [tick |-> t, inputs |-> SubSeq(w.inputs, 1, n)]

Init == phase = "open" /\ world = NoWorld /\ kept = NoWorld

Begin ==
  /\ phase = "open" /\ phase' = "starting"
  /\ UNCHANGED <<world, kept>>

Withdraw ==
  /\ phase = "starting" /\ phase' = "open"
  /\ UNCHANGED <<world, kept>>

Launch ==
  /\ phase = "starting" /\ phase' = "running"
  /\ world' = Dawn
  /\ UNCHANGED kept

\* The process stops, possibly between the flip and the launch.
Stop ==
  /\ world' = NoWorld
  /\ phase' = IF phase = "starting" THEN "running" ELSE phase
  /\ UNCHANGED kept

Resume ==
  /\ phase = "running" /\ world = NoWorld
  /\ kept # NoWorld /\ kept.tick < EndTick
  /\ world' = kept
  /\ UNCHANGED <<phase, kept>>

Play ==
  /\ world # NoWorld /\ world.tick < EndTick
  /\ world' = [world EXCEPT !.tick = @ + 1]
  /\ UNCHANGED <<phase, kept>>

Take(p) ==
  /\ world # NoWorld /\ world.tick < EndTick
  /\ world' = [world EXCEPT !.inputs = Append(@, [tick |-> world.tick, by |-> p])]
  /\ UNCHANGED <<phase, kept>>

Keep ==
  /\ phase = "running" /\ world # NoWorld
  /\ \E t \in 0..world.tick, n \in 0..Len(world.inputs) :
       /\ WasMoment(world, t, n)
       /\ kept # NoWorld => kept.tick <= t /\ Len(kept.inputs) <= n
       /\ kept' = Moment(world, t, n)
  /\ UNCHANGED <<phase, world>>

Finish ==
  /\ phase = "running" /\ phase' = "finished"
  /\ kept # NoWorld /\ kept.tick = EndTick
  /\ world # NoWorld => world = kept
  /\ UNCHANGED <<world, kept>>

GiveUp ==
  /\ phase = "running" /\ phase' = "finished"
  /\ world = NoWorld /\ (kept # NoWorld => kept.tick < EndTick)
  /\ UNCHANGED <<world, kept>>

Discard ==
  /\ phase = "finished" /\ world = NoWorld
  /\ kept # NoWorld /\ kept.tick < EndTick
  /\ kept' = NoWorld
  /\ UNCHANGED <<phase, world>>

Next ==
  \/ Begin \/ Withdraw \/ Launch \/ Stop \/ Resume
  \/ Play \/ (\E p \in Players : Take(p))
  \/ Keep \/ Finish \/ GiveUp \/ Discard

Spec == Init /\ [][Next]_vars
==============================================================================
