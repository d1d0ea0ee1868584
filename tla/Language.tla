------------------------------ MODULE Language ------------------------------
(***************************************************************************)
(* The robot language: its catalogue, what makes a program well formed,    *)
(* and what the editor is told about one before it is installed.           *)
(*                                                                         *)
(*   internal/prog/catalogue.go  the rows of predicates and actions        *)
(*   internal/prog/program.go    conditions, rules, structure              *)
(*   internal/prog/eval.go       the matcher: cond, pred                   *)
(*   internal/prog/validate.go   Validate and its warnings                 *)
(*                                                                         *)
(* A program is its sequence of rules, numbered from 1.  A condition is a  *)
(* tree, and a walk down it is a function of the levels left, which the    *)
(* code counts from above.  A view is what Mind.tla assembles for a robot. *)
(* Labels, wording, schema versions and JSON are left out; an issue is the *)
(* rule and the predicate it names.                                        *)
(***************************************************************************)
EXTENDS Integers, Sequences, FiniteSets, FiniteSetsExt, SequencesExt

CONSTANTS
  MaxRules, MaxActionsPerRule, MaxCondDepth, MaxCondNodes,   \* program.go
  Conditions,    \* the conditions there are, the parts of each among them
  MemPoints,     \* sim: memory points of a robot
  FullHealth,    \* StartingHealth of the one body
  NoCell         \* an empty memory point

ASSUME LanguageAssumption ==
  /\ MaxCondDepth \in Nat \ {0} /\ MemPoints \in Nat /\ FullHealth \in Nat \ {0}
  /\ \A c \in Conditions :
       IF c.op = "pred" THEN c \in [op : {"pred"}, pred : STRING, arg : Int]
       ELSE c \in [op : STRING, of : Seq(Conditions)]

\* Where a walk can be: a number of levels left, and a condition.
Places == (0..MaxCondDepth) \X Conditions
Hopes == {"off", "world", "clean"}
HopePlaces == (0..MaxCondDepth) \X Conditions \X Hopes
SignPlaces == (0..MaxCondDepth) \X Conditions \X BOOLEAN

------------------------------------------------------------------------------
\* The catalogue.

WorldPredicates ==
  {"sees_component", "component_in_reach", "sees_enemy_robot", "sees_obstacle",
   "visible_target_in_weapon_range", "radar_detects_target",
   "detected_target_in_weapon_range", "received_come_here", "received_avoid_here",
   "enemy_visible"}
PointPredicates == {"at_point", "point_is_set", "point_is_empty"}
PercentPredicates == {"health_below", "health_above"}
Predicates == WorldPredicates \cup PointPredicates \cup PercentPredicates \cup
  {"carrying_component", "carrying_nothing", "at_own_base", "path_blocked",
   "target_reached", "target_unreachable", "weapon_ready", "has_weapon"}

PredicateNeeds(p) ==
  CASE p \in {"visible_target_in_weapon_range", "weapon_ready"} -> {"weapon"}
    [] p = "radar_detects_target" -> {"radar"}
    [] p = "detected_target_in_weapon_range" -> {"radar", "weapon"}
    [] OTHER -> {}

SideEffects ==
  {"save_current_position", "save_visible_target", "save_radar_target",
   "save_signal_position", "clear_point", "broadcast_come_here", "broadcast_avoid_here"}
Steering ==
  {"move_forward", "turn_left", "turn_right", "turn_random", "stop", "move_to_own_base",
   "move_to_visible_target", "move_to_radar_target", "move_to_point",
   "move_away_from_target", "move_away_from_point"}
Primaries == Steering \cup
  {"pick_up_component", "deposit_component_at_base", "drop_component",
   "attack_visible_target", "attack_radar_target"}
PointActions ==
  {"move_to_point", "move_away_from_point", "save_current_position",
   "save_visible_target", "save_radar_target", "save_signal_position", "clear_point"}

ActionNeeds(a) ==
  CASE a \in {"move_to_radar_target", "save_radar_target"} -> {"radar"}
    [] a \in {"pick_up_component", "deposit_component_at_base", "drop_component"} -> {"manipulator"}
    [] a = "attack_visible_target" -> {"weapon"}
    [] a = "attack_radar_target" -> {"radar", "weapon"}
    [] OTHER -> {}

Pred(p) == [op |-> "pred", pred |-> p, arg |-> 0]
PredArg(p, a) == [op |-> "pred", pred |-> p, arg |-> a]
And(of) == [op |-> "and", of |-> of]
Or(of) == [op |-> "or", of |-> of]
Not(c) == [op |-> "not", of |-> <<c>>]
Do(a) == [do |-> a, arg |-> 0]
DoArg(a, n) == [do |-> a, arg |-> n]
When(c, then) == [when |-> c, then |-> then]

\* Where a rule has actions that would end the tick.
PrimariesOf(rule) == {j \in DOMAIN rule.then : rule.then[j].do \in Primaries}

\* primaryOf: the first of them does.
PrimaryOf(rule) == rule.then[Min(PrimariesOf(rule))]

------------------------------------------------------------------------------
\* The matcher.

\* point: the cell a point holds; an index out of range holds none.
Point(v, a) == IF a \in 1..MemPoints THEN v.memory[a] ELSE NoCell

\* The first of a list that is of a kind, as a sequence of at most one.
FirstOf(list, kind) ==
  LET found == {i \in DOMAIN list : list[i].kind = kind} IN
  IF found = {} THEN <<>> ELSE <<list[Min(found)]>>

\* radarEnemy: the nearest contact that is a robot.
RadarEnemy(v) == FirstOf(v.radar, "robot")

Heard(v, kind) == FirstOf(v.signals, kind)

\* pred, against the view as it is.
Reads(p, a, v) ==
  CASE p = "carrying_component" -> v.cargo
    [] p = "carrying_nothing" -> ~v.cargo
    [] p = "health_below" -> v.health * 100 < a * FullHealth
    [] p = "health_above" -> v.health * 100 > a * FullHealth
    [] p = "at_own_base" -> v.atBase
    [] p = "at_point" -> Point(v, a) = v.cell
    [] p = "point_is_set" -> Point(v, a) # NoCell
    [] p = "point_is_empty" -> Point(v, a) = NoCell
    [] p = "sees_component" -> v.components # <<>>
    [] p = "component_in_reach" -> v.inReach
    [] p \in {"sees_enemy_robot", "enemy_visible"} -> v.enemies # <<>>
    [] p = "sees_obstacle" -> v.obstacle
    [] p = "radar_detects_target" -> v.radar # <<>>
    [] p = "received_come_here" -> Heard(v, "come") # <<>>
    [] p = "received_avoid_here" -> Heard(v, "avoid") # <<>>
    [] p = "path_blocked" -> v.blocked
    [] p = "target_reached" -> v.reached
    [] p = "target_unreachable" -> v.unreachable
    [] p = "has_weapon" -> "weapon" \in v.kit
    [] p = "weapon_ready" -> v.ready
    [] p = "visible_target_in_weapon_range" -> v.enemies # <<>> /\ v.enemies[1].dist <= v.range
    [] p = "detected_target_in_weapon_range" ->
         RadarEnemy(v) # <<>> /\ RadarEnemy(v)[1].dist <= v.range
    [] OTHER -> FALSE

\* Mutant: optimism forced on a predicate under a NOT too.
HopeAnyway(hope) == hope

\* matcher.neg, for the optimistic walk: under a NOT the hopeful answer to a world
\* predicate is what a clean start already is.
UnderNot(hope) == [off |-> "off", world |-> "clean", clean |-> "world"][hope]

\* hope is "off" for Decide; "world" and "clean" are the two polarities of
\* matcher.anyWorld.

\* cond, with n levels to go, given what holds lower down: too deep is false.
Cond(c, v, n, hope, holds) ==
  /\ n > 0
  /\ CASE c.op = "pred" ->
            \/ /\ hope = "world" /\ c.pred \in WorldPredicates
               /\ PredicateNeeds(c.pred) \subseteq v.kit
            \/ Reads(c.pred, c.arg, v)
       [] c.op = "and" -> c.of # <<>> /\ \A i \in DOMAIN c.of : holds[<<n - 1, c.of[i], hope>>]
       [] c.op = "or" -> \E i \in DOMAIN c.of : holds[<<n - 1, c.of[i], hope>>]
       [] c.op = "not" -> Len(c.of) = 1 /\ ~holds[<<n - 1, c.of[1], UnderNot(hope)>>]
       [] OTHER -> FALSE

Match(c, v, left, hope) ==
  LET holds[x \in HopePlaces] == Cond(x[2], v, x[1], x[3], holds) IN holds[<<left, c, hope>>]

Matches(rule, v) == Match(rule.when, v, MaxCondDepth, "off")

------------------------------------------------------------------------------
\* Structure: what Decode and Validate refuse.

\* The nodes of a condition, those too deep not gone into.
Nodes(c) ==
  LET nodes[x \in Places] ==
        IF x[1] = 0 \/ x[2].op = "pred" THEN 1
        ELSE 1 + SumFunction([i \in DOMAIN x[2].of |-> nodes[<<x[1] - 1, x[2].of[i]>>]])
  IN nodes[<<MaxCondDepth, c>>]

\* ArgKind.check
ArgFits(id, a, points, percents) ==
  IF id \in points THEN a \in 1..MemPoints
  ELSE IF id \in percents THEN a \in 0..100 ELSE a = 0

\* checkCond, all but the node budget: too deep is an error.
CheckCond(c, n, sound) ==
  /\ n > 0
  /\ CASE c.op = "pred" ->
            c.pred \in Predicates /\ ArgFits(c.pred, c.arg, PointPredicates, PercentPredicates)
       [] c.op \in {"and", "or"} -> c.of # <<>> /\ \A i \in DOMAIN c.of : sound[<<n - 1, c.of[i]>>]
       [] c.op = "not" -> Len(c.of) = 1 /\ sound[<<n - 1, c.of[1]>>]
       [] OTHER -> FALSE

WellFormed(c, left) ==
  LET sound[x \in Places] == CheckCond(x[2], x[1], sound) IN sound[<<left, c>>]

\* structure
Structure(p) ==
  /\ Len(p) <= MaxRules
  /\ \A i \in DOMAIN p :
       /\ Nodes(p[i].when) <= MaxCondNodes /\ WellFormed(p[i].when, MaxCondDepth)
       /\ Len(p[i].then) \in 1..MaxActionsPerRule
       /\ \A j \in DOMAIN p[i].then : LET a == p[i].then[j] IN
            a.do \in SideEffects \cup Primaries /\ ArgFits(a.do, a.arg, PointActions, {})

\* Result.OK: at most one primary action a rule, and the hardware for every action.
Valid(p, kit) ==
  /\ Structure(p)
  /\ \A i \in DOMAIN p :
       /\ Cardinality(PrimariesOf(p[i])) <= 1
       /\ \A j \in DOMAIN p[i].then : ActionNeeds(p[i].then[j].do) \subseteq kit

------------------------------------------------------------------------------
\* Warnings.

\* The leaves of a condition, each with its polarity.
LeavesUnder(c, n, neg, leaves) ==
  IF n = 0 THEN {}
  ELSE IF c.op = "pred" THEN {[pred |-> c.pred, arg |-> c.arg, neg |-> neg]}
  ELSE UNION {leaves[<<n - 1, c.of[i], neg # (c.op = "not")>>] : i \in DOMAIN c.of}

Leaves(c, left, neg) ==
  LET leaves[x \in SignPlaces] == LeavesUnder(x[2], x[1], x[3], leaves) IN leaves[<<left, c, neg>>]

\* The leaves of a program.
LeavesOf(p) == UNION {Leaves(p[i].when, MaxCondDepth, FALSE) : i \in DOMAIN p}

\* warnDeadPredicates: dead_predicate, and always_true_predicate where neg.
DeadPredicates(p, kit) ==
  {l \in LeavesOf(p) : ~(PredicateNeeds(l.pred) \subseteq kit)}

\* warnForwardOnly
ForwardOnly(p) ==
  LET used == UNION {{p[i].then[j].do : j \in DOMAIN p[i].then} : i \in DOMAIN p} IN
  used \cap Steering = {"move_forward"}

\* conjuncts: the predicates of a pure conjunction, none for any other condition.
ConjunctsOf(c, n, joined) ==
  IF n = 0 THEN {}
  ELSE IF c.op = "pred" THEN {<<c.pred, c.arg>>}
  ELSE LET parts == {joined[<<n - 1, c.of[i]>>] : i \in DOMAIN c.of} IN
       IF c.op # "and" \/ {} \in parts THEN {} ELSE UNION parts

Conjuncts(c, left) ==
  LET joined[x \in Places] == ConjunctsOf(x[2], x[1], joined) IN joined[<<left, c>>]

\* Only a rule with a primary action pre-empts.
Dominates(above, below) ==
  LET c == Conjuncts(above.when, MaxCondDepth) IN
  PrimariesOf(above) # {} /\ c # {} /\ c \subseteq Conjuncts(below.when, MaxCondDepth)

\* warnDominated: unreachable_rule.
Unreachable(p) == {j \in DOMAIN p : \E i \in 1..(j - 1) : Dominates(p[i], p[j])}

\* cleanStart: a robot just built, at its base, in a world that shows it nothing.
CleanStart(kit, base) ==
  [cell |-> base, cargo |-> FALSE, health |-> FullHealth, kit |-> kit,
   memory |-> [a \in 1..MemPoints |-> NoCell], hasBase |-> TRUE, base |-> base, atBase |-> TRUE,
   blocked |-> FALSE, reached |-> FALSE, unreachable |-> FALSE,
   ready |-> "weapon" \in kit, range |-> 0,
   components |-> <<>>, inReach |-> FALSE, enemies |-> <<>>, obstacle |-> FALSE,
   radar |-> <<>>, signals |-> <<>>]

\* warnInertStart: what the editor says of a robot just built.
StartFinding(p, kit, base) ==
  LET v == CleanStart(kit, base) IN
  IF p = <<>> THEN "empty_program"
  ELSE IF \E i \in DOMAIN p : Matches(p[i], v) THEN "runs"
  ELSE IF \E i \in DOMAIN p : Match(p[i].when, v, MaxCondDepth, "world") THEN "reactive_start"
  ELSE "inert_start"
==============================================================================
