------------------------------ MODULE MCWorld ------------------------------
(* World.tla on a small instance: two bases on either side of a wall with one    *)
(* gap, two gunners, whose hulls cannot take the gap, against a hauler, and a gun *)
(* on the ground that completes a third gunner.  And the arenas of Arena.tla, of  *)
(* six cells by four, with two bases in either corner or both in one, under any   *)
(* two of seven shapes.  The two share no state, so a behaviour plays one of them *)
(* while the other rests in its initial state.                                   *)
EXTENDS World, Arena, TLC

CONSTANTS hull, gun, arm, gunner, hauler

MCHome       == <<<<0, 0>>, <<2, 0>>>>
MCParts      == gunner :> <<hull, gun, gun>> @@ hauler :> <<hull, arm>>
MCBarriers   == {<<1, 0>>, <<1, 1>>}
MCEnterable  == gunner :> {<<0, 0>>, <<0, 1>>, <<2, 0>>} @@ hauler :> Cells \ MCBarriers
MCMoveTicks  == gunner :> [c \in Cells |-> 2] @@ hauler :> [c \in Cells |-> 1]
MCTurnTicks  == [b \in {gunner, hauler} |-> 1]
MCBuildTicks == [b \in {gunner, hauler} |-> 2]
MCDurability == [b \in {gunner, hauler} |-> IF b = gunner THEN 2 ELSE 1]
MCWeapons    == gun :> [range |-> 2, damage |-> 1, cooldown |-> 2]
MCApproved   == <<{gunner}, {gunner}>>
MCRoster     == <<<<1, gunner>>, <<1, gunner>>, <<2, hauler>>>>
None         == [v \in {hull, gun, arm} |-> 0]
MCStock      == <<None, [None EXCEPT ![hull] = 1, ![gun] = 1]>>
MCGround     == [c \in Cells |-> IF c = <<2, 1>> THEN [None EXCEPT ![gun] = 1] ELSE None]

MCShapes == {{c \in Grid : c[1] = x} : x \in 1..5}
            \cup {{c \in Grid : c[2] = 2 /\ c[1] >= 3}, {c \in Grid : c[1] + c[2] = 4}}
MCSites == {<<0, 0>>, <<5, 3>>}
MCDraws == {<<3, 0>>, <<3, 2>>}

VARIABLE part

MCInit == part \in {"world", "arena"} /\ Init /\ ArenaInit

PlayWorld == part = "world" /\ Next /\ UNCHANGED arenaVars

PlayArena == part = "arena" /\ ArenaNext /\ UNCHANGED vars

MCNext == (PlayWorld \/ PlayArena) /\ UNCHANGED part

MCSpec == MCInit /\ [][MCNext]_<<vars, arenaVars, part>>
============================================================================
