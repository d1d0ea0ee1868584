------------------------------- MODULE MCLobby -------------------------------
(* Four parts that share no state, on small instances, so that a behaviour     *)
(* plays one of them while the others rest in an initial state: the states are  *)
(* the sum of theirs, not the product.                                          *)
(*   lobby     Lobby.tla: an owner and two more users over two seats or three,   *)
(*             with requests of several statements in flight at once            *)
(*   loadouts  Loadouts.tla: two members who approve any of three bodies, beside *)
(*             two AI colonies, under three budgets                             *)
(*   runtime   Runtime.tla: the runtime of one match with three robots, two of   *)
(*             them watched at once                                             *)
(*   mind      the robot of MCMind.tla, whose mind is one of its programs        *)
EXTENDS Lobby, Loadouts, Runtime, MCMind, TLC

CONSTANTS
  MaxTick, MaxInstalls,        \* bounds of the runtime
  Writers,                     \* the robots whose programs write memory
  Busy                         \* robots whose action outlasts the run: they get no turn

\* The starter kit's body, a lighter one with two manipulators, and one with a weapon
\* twice that is above some budgets.
MCBodies == {Scavenger,
             <<"tracks", "lightArmor", "manipulator", "manipulator">>,
             <<"antigrav", "heavyArmor", "cannon", "cannon", "enemyRadar">>}
MCSeated == <<"aggressive", "tutorial">>

VARIABLE part

MCInit ==
  /\ part \in {"lobby", "loadouts", "runtime", "mind"}
  /\ Init /\ LoadoutsInit /\ RuntimeInit /\ MindInit
  /\ part # "lobby" => settings.ai = <<>> /\ settings.max = 1
  /\ part # "loadouts" => budgetSet = 0 /\ \A i \in DOMAIN loads : loads[i] = {}
  /\ part # "runtime" => alive = {}
  /\ part # "mind" => design = Nothing

PlayLobby == part = "lobby" /\ Next /\ UNCHANGED <<loadoutVars, runtimeVars, mindVars>>

PlayLoadouts == part = "loadouts" /\ LoadoutsNext /\ UNCHANGED <<vars, runtimeVars, mindVars>>

\* Every robot is built by the first tick and one may be lost; an id is installed
\* anew once; not every robot writes memory, and some never get a turn.
RuntimeBound ==
  /\ tick' <= MaxTick
  /\ built' = Bots /\ Cardinality(built' \ alive') <= 1
  /\ LET Anew == {id \in ProgramId : revision'[id] > IF id.robot = Everyone THEN 1 ELSE 0} IN
     Cardinality(Anew) <= MaxInstalls /\ \A id \in Anew : revision'[id] <= 2
  /\ \A r \in Bots : /\ memory'[r] # Wiped => r \in Writers
                     /\ evaluators'[r] # NoEvaluator => r \notin Busy

\* The ticks of RuntimeNext that the bound lets through, chosen before they are taken:
\* the others are sixty times as many.
BoundedStep ==
  /\ tick < MaxTick
  /\ \E turns \in SUBSET (alive \ Busy), lost \in {{}} \cup {{r} : r \in alive} :
       \E writing \in SUBSET (turns \cap Writers), new \in NextIds(Bots \ built) :
         Step(turns, writing, lost, new)

PlayRuntime ==
  /\ part = "runtime"
  /\ \/ BoundedStep
     \/ \E r \in Bots : TraceOf(r) \/ \E p \in Programs : InstallProgram(r, p)
     \/ MatchOver
  /\ RuntimeBound
  /\ UNCHANGED <<vars, loadoutVars, mindVars>>

PlayMind == part = "mind" /\ MindNext /\ UNCHANGED <<vars, loadoutVars, runtimeVars>>

\* A match is built, or refused, or the bounds of the runtime are reached: there is
\* nothing more to do.
Done ==
  /\ \/ stage \in {"ready", "refused"}
     \/ part = "runtime"
  /\ UNCHANGED <<vars, loadoutVars, runtimeVars, mindVars>>

MCNext == (PlayLobby \/ PlayLoadouts \/ PlayRuntime \/ PlayMind \/ Done) /\ UNCHANGED part

MCSpec == MCInit /\ [][MCNext]_<<vars, loadoutVars, runtimeVars, mindVars, part>>

\* Requests are interchangeable, and so are the users but the owner.
Symmetry == Permutations(Requests) \cup Permutations(Users \ {Owner})
==============================================================================
