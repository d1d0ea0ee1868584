-------------------------------- MODULE Mind --------------------------------
(***************************************************************************)
(* One robot running one program, from the base that built it until it     *)
(* dies, in a world that may show it anything its hardware can sense.      *)
(*                                                                         *)
(*   internal/sim/tick.go         View, apply, primary: a robot's own turn *)
(*   internal/lobby/starter.go    the default programs                     *)
(*   internal/lobby/ai.go         the programs of the AI opponents         *)
(*   internal/server/programs.go  the worked examples                      *)
(*                                                                         *)
(* Cells are a stretch of cells on a line from the base.  The rest of the  *)
(* world is the scene a tick shows and how it answers a move or a shot;    *)
(* what a tick costs is World.tla's.  Health is full or low.               *)
(***************************************************************************)
EXTENDS Evaluator

CONSTANTS
  Far,           \* the cells are 0..Far, the base at 0
  LowHealth,     \* what is left after a fight
  Reach,         \* the range of a loaded weapon
  Minds        \* what is installed: [rules, kit], validated without errors

ASSUME MindAssumption ==
  /\ Far \in Nat /\ Reach \in Nat /\ LowHealth \in Nat \ {FullHealth}
  /\ \A d \in Minds :
       /\ d.rules \in Seq([when : Conditions, then : Seq([do : STRING, arg : Int])])
       /\ Valid(d.rules, d.kit)

VARIABLES
  design,        \* the program and the blueprint's components
  me             \* the robot: what it carries from tick to tick

mindVars == <<design, me>>

Base == 0

Robot == [cell : 0..Far, cargo : BOOLEAN, health : {LowHealth, FullHealth},
          memory : [1..MemPoints -> 0..Far \cup {NoCell}],
          blocked : BOOLEAN, reached : BOOLEAN, unreachable : BOOLEAN, ready : BOOLEAN]

MindTypeOK == design \in Minds /\ me \in Robot

\* spawn: a robot as its base releases it.
Released(kit) ==
  [cell |-> Base, cargo |-> FALSE, health |-> FullHealth,
   memory |-> [a \in 1..MemPoints |-> NoCell],
   blocked |-> FALSE, reached |-> FALSE, unreachable |-> FALSE, ready |-> "weapon" \in kit]

MindInit == design \in Minds /\ me = Released(design.kit)

------------------------------------------------------------------------------
\* What the world may show.

Distance(a, b) == IF a > b THEN a - b ELSE b - a

\* At most one sighting of a kind, never of the robot's own cell.
Sightings(kind, id) ==
  {<<>>} \cup {<<[kind |-> kind, id |-> id, cell |-> c, dist |-> Distance(me.cell, c)]>> :
                 c \in (0..Far) \ {me.cell}}

RadarKind == IF "enemy_radar" \in design.kit THEN "robot" ELSE "component"

Quiet == [components |-> <<>>, inReach |-> FALSE, enemies |-> <<>>, obstacle |-> FALSE,
          radar |-> <<>>, signals |-> <<>>]

\* A component in the cone and within interact range is in reach; one beside the
\* cone may be too.
Scenes ==
  {s \in [components : Sightings("component", 1), inReach : BOOLEAN,
          enemies : Sightings("robot", 2), obstacle : BOOLEAN,
          radar : IF "radar" \in design.kit THEN Sightings(RadarKind, 3) ELSE {<<>>},
          signals : {<<>>, <<[kind |-> "come", cell |-> Far]>>,
                     <<[kind |-> "avoid", cell |-> Base], [kind |-> "come", cell |-> Far]>>}] :
     (s.components # <<>> /\ s.components[1].dist <= 1) => s.inReach}

\* World.View
View(s) ==
  [cell |-> me.cell, cargo |-> me.cargo, health |-> me.health, memory |-> me.memory,
   kit |-> design.kit, hasBase |-> TRUE, base |-> Base, atBase |-> Distance(me.cell, Base) <= 1,
   blocked |-> me.blocked, reached |-> me.reached, unreachable |-> me.unreachable,
   ready |-> me.ready, range |-> IF me.ready THEN Reach ELSE 0,
   components |-> s.components, inReach |-> s.inReach, enemies |-> s.enemies,
   obstacle |-> s.obstacle, radar |-> s.radar, signals |-> s.signals]

------------------------------------------------------------------------------
\* A turn.

\* apply: the memory writes in order, so that a point holds the last one to it.
Wrote(memory, writes) ==
  LET To(a) == {i \in DOMAIN writes : writes[i].point = a} IN
  [a \in 1..MemPoints |-> IF To(a) = {} THEN memory[a] ELSE writes[Max(To(a))].cell]

\* moveTo: there already; no route, or none that leads nearer; or a step along one,
\* to a neighbour or a detour's first cell.
MoveTo(r, cell) ==
  IF r.cell = cell THEN {[r EXCEPT !.reached = TRUE, !.unreachable = FALSE]}
  ELSE {[r EXCEPT !.reached = FALSE, !.unreachable = TRUE, !.blocked = TRUE]}
       \cup {[r EXCEPT !.cell = c, !.reached = c = cell, !.unreachable = FALSE, !.blocked = FALSE] :
               c \in {c \in 0..Far : Distance(c, r.cell) <= 1}}

\* step: ahead, or refused.
Forward(r) ==
  {[r EXCEPT !.blocked = TRUE]}
  \cup {[r EXCEPT !.cell = c, !.blocked = FALSE] : c \in {c \in 0..Far : Distance(c, r.cell) <= 1}}

\* primary: what may become of the robot; only the interactions read the scene.
Outcomes(r, act, s) ==
  CASE act.kind = "move_to" -> MoveTo(r, act.cell)
    [] act.kind = "move_forward" -> Forward(r)
    [] act.kind = "pick_up_component" ->
         IF "manipulator" \in design.kit /\ ~r.cargo /\ s.inReach
           THEN {[r EXCEPT !.cargo = TRUE]} ELSE {r}
    [] act.kind = "deposit_component_at_base" ->
         IF "manipulator" \in design.kit /\ Distance(r.cell, Base) <= 1
           THEN {[r EXCEPT !.cargo = FALSE]} ELSE {r}
    [] act.kind = "drop_component" -> {[r EXCEPT !.cargo = FALSE]}
    [] act.kind = "attack" -> {r} \cup {[r EXCEPT !.ready = FALSE]}
    [] OTHER -> {r}

\* Step, for this robot: it sees a scene, decides, and the world answers.
Turn(s) ==
  LET d == Decide(design.rules, View(s)) IN
  /\ me' \in Outcomes([me EXCEPT !.memory = Wrote(me.memory, d.writes)], d.act, s)
  /\ UNCHANGED design

\* An enemy's shot, and a weapon's reload.
Hit == me' = [me EXCEPT !.health = LowHealth] /\ UNCHANGED design
Reload == me' = [me EXCEPT !.ready = "weapon" \in design.kit] /\ UNCHANGED design

MindNext == (\E s \in Scenes : Turn(s)) \/ Hit \/ Reload

MindSpec == MindInit /\ [][MindNext]_mindVars

------------------------------------------------------------------------------
\* Properties.

\* A rule's condition, as the rows of a condition table say it.
SaidByRows(c, rows, n, said) ==
  /\ n > 0
  /\ CASE c.op = "pred" ->
            \E row \in rows : row.pred = c.pred /\ row.arg = c.arg /\ ~row.unknown /\ row.true
       [] c.op = "and" -> \A i \in DOMAIN c.of : said[<<n - 1, c.of[i]>>]
       [] c.op = "or" -> \E i \in DOMAIN c.of : said[<<n - 1, c.of[i]>>]
       [] c.op = "not" -> Len(c.of) = 1 /\ ~said[<<n - 1, c.of[1]>>]
       [] OTHER -> FALSE

TableSays(c, rows, left) ==
  LET said[x \in Places] == SaidByRows(x[2], rows, x[1], said) IN said[<<left, c>>]

\* Explain's account x of a tick, beside the tick d that Decide made.
SaysTheSame(p, d, x) ==
  /\ x.rule = d.rule /\ x.action = d.action /\ x.idle = (d.act.kind = "none")
  /\ \A i \in DOMAIN p :
       /\ x.verdicts[i] \in {"won", "ran"} <=> i \in d.matched
       /\ x.verdicts[i] = "not_met" <=> ~TableSays(p[i].when, x.conditions, MaxCondDepth)

\* Whatever the robot has been through and is shown next, the inspector's second copy
\* of the rule walk says what the first did: the same rule and action took the tick,
\* a rule is said to have won or run exactly when it did, and the condition table
\* beside the verdicts bears each of them out.
ExplainAgrees ==
  design.rules # <<>> =>
    \A s \in Scenes :
      SaysTheSame(design.rules, Decide(design.rules, View(s)), Explain(design.rules, View(s)))

\* What the editor warns of, on the robot the program runs on: an unreachable rule
\* never runs, a dead predicate is never true, an inert program never matches a rule
\* however much the world shows it, as long as the robot is unharmed; and on a robot
\* just built in a quiet world a rule matches exactly when it says one does.
WarningsAreTrue ==
  LET p == design.rules
      start == StartFinding(p, design.kit, Base)
      unreachable == Unreachable(p)
      dead == DeadPredicates(p, design.kit) IN
  design.rules # <<>> =>
    /\ \A s \in Scenes :
         LET matched == Decide(p, View(s)).matched IN
         /\ matched \cap unreachable = {}
         /\ \A l \in dead : ~Reads(l.pred, l.arg, View(s))
         /\ start = "inert_start" /\ me.health = FullHealth => matched = {}
    /\ me = Released(design.kit) => (Decide(p, View(Quiet)).matched # {} <=> start = "runs")

\* validate.go:141, of the inert_start warning: it "never claims a working program
\* is stuck"; "it under-warns, it does not over-warn".
InertStaysInert ==
  design.rules # <<>> =>
    \A s \in Scenes : StartFinding(design.rules, design.kit, Base) = "inert_start" =>
                        Decide(design.rules, View(s)).matched = {}
==============================================================================
