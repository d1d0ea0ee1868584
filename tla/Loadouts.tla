------------------------------- MODULE Loadouts -------------------------------
(***************************************************************************)
(* How the colonies of a match are equipped: kits from loadouts, openings  *)
(* drawn within the host's budget, and the rest of it spent on spares.     *)
(*                                                                         *)
(*   internal/lobby/loadout.go   memberKit, startingRoster                 *)
(*   internal/lobby/starter.go   the starter kit, equipColony,             *)
(*                               spendRemainder                            *)
(*   internal/lobby/ai.go        the kits of the AI profiles               *)
(*   internal/lobby/settings.go  the starting budget                       *)
(*   internal/lobby/match.go     newMatch                                  *)
(*   internal/sim/component.go   the catalogue, Blueprint                  *)
(*                                                                         *)
(* newMatch is one call; each draw of the world's rng is a step here, free *)
(* to give whatever the code draws from.  A blueprint is the list of its   *)
(* components, in which one may come twice; a base's inventory is its      *)
(* value: what of each variant is in it makes no difference here.          *)
(***************************************************************************)
EXTENDS Integers, Sequences, FiniteSets, FiniteSetsExt, Functions

CONSTANTS
  Bodies,           \* the blueprints a member may approve, as lists of components
  Members,          \* how many seats are taken
  ProfilesSeated,   \* Settings.AI
  StartingBudgets,  \* the budgets a host may set, 0 for unset
  MaxEntries        \* maxLoadoutEntries

\* The catalogue, its values in units of five.
Worth == [tracks |-> 6, legs |-> 8, antigrav |-> 14, lightArmor |-> 5, mediumArmor |-> 8,
          heavyArmor |-> 13, manipulator |-> 4, partsRadar |-> 5, enemyRadar |-> 7,
          baseRadar |-> 4, laser |-> 7, cannon |-> 11, autoGun |-> 6]
Catalogue == DOMAIN Worth

\* Blueprint.Components.
Blueprint == Seq(Catalogue)

\* Blueprint.Value: a component that comes twice counts twice.
Price(body) == SumFunction([i \in DOMAIN body |-> Worth[body[i]]])

\* Blueprint.Validate: the components are counted by kind, and manipulators are not
\* limited.
Carried(body, kind) == Cardinality({i \in DOMAIN body : body[i] \in kind})

ValidBody(body) ==
  /\ Carried(body, {"tracks", "legs", "antigrav"}) = 1
  /\ Carried(body, {"lightArmor", "mediumArmor", "heavyArmor"}) = 1
  /\ Carried(body, {"partsRadar", "enemyRadar", "baseRadar"}) <= 1
  /\ Carried(body, {"laser", "cannon", "autoGun"}) <= 2

\* starter.go and ai.go: the canonical bodies, which their kits open with, and kit.start.
Canonical(extra) == <<"tracks", "mediumArmor">> \o extra
Scavenger == Canonical(<<"manipulator", "partsRadar">>)
StartingRobots == 3

KitOf(profile) ==
  CASE profile = "tutorial"   -> <<Canonical(<<"manipulator">>), Canonical(<<"manipulator">>)>>
    [] profile = "peaceful"   -> <<Scavenger, Scavenger, Scavenger>>
    [] profile = "defensive"  -> <<Scavenger, Scavenger, Canonical(<<"laser", "partsRadar">>)>>
    [] profile = "aggressive" -> <<Scavenger, Scavenger, Canonical(<<"laser", "enemyRadar">>)>>

\* settings.go: minStartingBudget, defaultStartingBudget, and Settings.budget.
MinStartingBudget == 23
DefaultBudget     == StartingRobots * Price(Scavenger)
Budget(set)       == IF set <= 0 THEN DefaultBudget ELSE set

ASSUME LoadoutsAssumption ==
  /\ \A body \in Bodies : body \in Blueprint /\ ValidBody(body)
  /\ Members \in Nat \ {0} /\ MaxEntries \in Nat \ {0}
  /\ ProfilesSeated \in Seq({"tutorial", "peaceful", "defensive", "aggressive"})
  /\ \A set \in StartingBudgets : set = 0 \/ (set \in Nat /\ set >= MinStartingBudget)

\* A kit: a fixed opening, or what to draw one from, and the budget, 0 for none.
Kit == [start : Seq(Blueprint), choices : SUBSET Bodies, budget : Nat]

Loads == {l \in SUBSET Bodies : Cardinality(l) <= MaxEntries}

VARIABLES
  budgetSet,   \* Settings.StartingBudget
  loads,       \* lobby_members.loadout: the bodies approved, {} for none
  stage,       \* what newMatch is at
  kits,        \* one per colony, the members' first
  at,          \* the colony being equipped
  drawn,       \* its opening so far
  fleet,       \* World.Robots, by colony
  spares       \* Base.InventoryValue, by colony

loadoutVars == <<budgetSet, loads, stage, kits, at, drawn, fleet, spares>>

LoadoutsTypeOK ==
  /\ budgetSet \in StartingBudgets /\ loads \in [1..Members -> Loads]
  /\ stage \in {"kits", "refused", "draw", "spares", "ready"}
  /\ kits \in Seq(Kit) /\ at \in Nat \ {0}
  /\ drawn \in Seq(Blueprint)
  /\ fleet \in Seq(Seq(Blueprint)) /\ spares \in Seq(Nat)

LoadoutsInit ==
  /\ budgetSet \in StartingBudgets
  /\ loads \in [1..Members -> Loads]
  /\ stage = "kits" /\ kits = <<>> /\ at = 1 /\ drawn = <<>> /\ fleet = <<>> /\ spares = <<>>

------------------------------------------------------------------------------
\* memberKit: the built-in kit, or the member's approvals.
MemberKit(load) ==
  IF load = {}
    THEN [start |-> [i \in 1..StartingRobots |-> Scavenger], choices |-> {},
          budget |-> Budget(budgetSet)]
    ELSE [start |-> <<>>, choices |-> load, budget |-> Budget(budgetSet)]

\* Profile.kit: no budget bounds it, and none is left over.
AIKit(profile) == [start |-> KitOf(profile), choices |-> {}, budget |-> 0]

\* An approval that fits the budget, so that the draw has something to draw from.
Affordable(load) == load = {} \/ \E body \in load : Price(body) <= Budget(budgetSet)

\* Every kit is resolved before anything is generated.
ResolveKits ==
  /\ stage = "kits" /\ \A i \in DOMAIN loads : Affordable(loads[i])
  /\ kits' = [i \in DOMAIN loads |-> MemberKit(loads[i])]
             \o [i \in DOMAIN ProfilesSeated |-> AIKit(ProfilesSeated[i])]
  /\ stage' = "draw"
  /\ UNCHANGED <<budgetSet, loads, at, drawn, fleet, spares>>

\* No approval of a member fits, or a stored loadout does not decode or validate: the
\* start fails.
RefuseKits ==
  /\ stage = "kits"
  /\ (\E i \in DOMAIN loads : ~Affordable(loads[i])) \/ (\E i \in DOMAIN loads : loads[i] # {})
  /\ stage' = "refused"
  /\ UNCHANGED <<budgetSet, loads, kits, at, drawn, fleet, spares>>

------------------------------------------------------------------------------
Cost(bodies) == SumFunction([i \in DOMAIN bodies |-> Price(bodies[i])])

\* The approvals that fit what the draws have left.
Fitting == {body \in kits[at].choices : Price(body) <= kits[at].budget - Cost(drawn)}

\* startingRoster: one draw.
DrawRobot ==
  /\ stage = "draw" /\ Len(drawn) < StartingRobots
  /\ \E body \in Fitting : drawn' = Append(drawn, body)
  /\ UNCHANGED <<budgetSet, loads, stage, kits, at, fleet, spares>>

\* Mutant: only a drawn opening is held to the budget.
FieldedUncut(opening, budget) == opening

\* The longest prefix of an opening that is within the budget, if there is one.
Fielded(opening, budget) ==
  LET within == {n \in 0..Len(opening) :
                   \A k \in 1..n : Cost(SubSeq(opening, 1, k)) <= budget} IN
  IF budget = 0 THEN opening ELSE SubSeq(opening, 1, Max(within))

\* equipColony: the robots, once the opening is listed or drawn.
FieldFleet ==
  /\ stage = "draw"
  /\ kits[at].choices # {} => Len(drawn) = StartingRobots \/ Fitting = {}
  /\ LET opening == IF kits[at].choices = {} THEN kits[at].start ELSE drawn IN
     fleet' = Append(fleet, Fielded(opening, kits[at].budget))
  /\ spares' = Append(spares, 0) /\ drawn' = <<>> /\ stage' = "spares"
  /\ UNCHANGED <<budgetSet, loads, kits, at>>

Left == kits[at].budget - Cost(fleet[at]) - spares[at]

\* What still fits; nothing does where the budget is exceeded.
Buyable == {v \in Catalogue : Worth[v] <= Left}

\* spendRemainder: one draw.
BuySpare ==
  /\ stage = "spares"
  /\ \E v \in Buyable : spares' = [spares EXCEPT ![at] = @ + Worth[v]]
  /\ UNCHANGED <<budgetSet, loads, stage, kits, at, drawn, fleet>>

ColonyEquipped ==
  /\ stage = "spares" /\ Buyable = {}
  /\ stage' = IF at = Len(kits) THEN "ready" ELSE "draw"
  /\ at' = IF at = Len(kits) THEN at ELSE at + 1
  /\ UNCHANGED <<budgetSet, loads, kits, drawn, fleet, spares>>

LoadoutsNext ==
  ResolveKits \/ RefuseKits \/ DrawRobot \/ FieldFleet \/ BuySpare \/ ColonyEquipped

LoadoutsSpec == LoadoutsInit /\ [][LoadoutsNext]_loadoutVars

------------------------------------------------------------------------------
\* Properties.

CheapestPart == Min({Worth[v] : v \in Catalogue})
Opening(i)   == Cost(fleet[i]) + spares[i]

\* "Nobody out-equips anybody": whatever the members approved, whatever the draws gave
\* and whatever the host set, every member opens with at least one robot and at most
\* three, and with the same value as any other, less than the cheapest component apart
\* and never above the budget; and an AI profile opens as it was measured, with no
\* spares, whatever that is worth beside the budget (which settings.go calls the worth of
\* every colony, human or AI).
OpeningsAreEqual ==
  stage = "ready" =>
    /\ \A i \in DOMAIN loads :
         /\ Len(fleet[i]) \in 1..StartingRobots
         /\ Opening(i) <= Budget(budgetSet)
         /\ \A j \in DOMAIN loads : Opening(i) - Opening(j) < CheapestPart
    /\ \A i \in DOMAIN ProfilesSeated :
         /\ fleet[Members + i] = KitOf(ProfilesSeated[i])
         /\ spares[Members + i] = 0
==============================================================================
