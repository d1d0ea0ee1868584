------------------------------ MODULE Evaluator ------------------------------
(***************************************************************************)
(* One tick of a robot's mind: Decide, which walks the rules until one of  *)
(* them ends the tick, and Explain, a second copy of the walk that goes on *)
(* to the last rule and executes nothing.                                  *)
(*                                                                         *)
(*   internal/prog/eval.go     Decide and everything it calls              *)
(*   internal/prog/explain.go  Explain, the condition table                *)
(*                                                                         *)
(* Cells lie on a line: a robot backs away by one cell of it.  A sighting  *)
(* is [kind, id, cell, dist]; lists of them arrive nearest first.  Rule 0  *)
(* is the code's -1, no rule.  The reason of a trace and the number behind *)
(* a condition are wording and left out.                                   *)
(***************************************************************************)
EXTENDS Language

Nowhere == [kind |-> "none", cell |-> NoCell]
Moving(cell) == [kind |-> "move_to", cell |-> cell]

\* nearestVisible, as a sequence of at most one: of a component and an enemy
\* equally near, the lower id.
Nearest(v) ==
  LET heads == {list[1] : list \in {v.components, v.enemies} \ {<<>>}}
      Before(s, t) == s.dist < t.dist \/ (s.dist = t.dist /\ s.id < t.id) IN
  SetToSeq({s \in heads : \A t \in heads \ {s} : Before(s, t)})

\* retreat: one step directly away, none from the cell itself.
Retreat(from, away) ==
  IF from = away THEN Nowhere
  ELSE Moving(IF from > away THEN from + 1 ELSE from - 1)

\* Where a move aimed at the first of some sightings goes.
MoveToFirst(list) == IF list = <<>> THEN Nowhere ELSE Moving(list[1].cell)

\* resolvePrimary: what a primary action comes to; Nowhere when it has no target.
Resolve(a, v) ==
  CASE a.do \in {"move_forward", "turn_left", "turn_right", "turn_random", "stop",
                 "pick_up_component", "deposit_component_at_base", "drop_component"} ->
         [kind |-> a.do, cell |-> NoCell]
    [] a.do = "move_to_own_base" -> IF v.hasBase THEN Moving(v.base) ELSE Nowhere
    [] a.do = "move_to_visible_target" -> MoveToFirst(Nearest(v))
    [] a.do = "move_to_radar_target" -> MoveToFirst(v.radar)
    [] a.do = "move_to_point" ->
         IF Point(v, a.arg) = NoCell THEN Nowhere ELSE Moving(Point(v, a.arg))
    [] a.do = "move_away_from_target" ->
         IF Nearest(v) = <<>> THEN Nowhere ELSE Retreat(v.cell, Nearest(v)[1].cell)
    [] a.do = "move_away_from_point" ->
         IF Point(v, a.arg) = NoCell THEN Nowhere ELSE Retreat(v.cell, Point(v, a.arg))
    [] a.do = "attack_visible_target" ->
         IF v.enemies = <<>> THEN Nowhere ELSE [kind |-> "attack", cell |-> v.enemies[1].cell]
    [] a.do = "attack_radar_target" ->
         IF RadarEnemy(v) = <<>> THEN Nowhere
         ELSE [kind |-> "attack", cell |-> RadarEnemy(v)[1].cell]

\* idleAtOwnBaseWithCargo
Idles(v, act) ==
  /\ v.cargo /\ v.atBase /\ "manipulator" \in v.kit
  /\ \/ act.kind = "none"
     \/ act.kind = "move_to" /\ (act.cell = v.cell \/ (v.hasBase /\ act.cell = v.base))

------------------------------------------------------------------------------
\* Side effects.

\* hear: the signals a condition's walk latches, in the order it meets them; an
\* and stops at the first operand that fails, an or at the first that holds.
LatchedBy(c, v, n, latched) ==
  IF n = 0 THEN <<>>
  ELSE IF c.op = "pred" THEN
    CASE c.pred = "received_come_here" -> Heard(v, "come")
      [] c.pred = "received_avoid_here" -> Heard(v, "avoid")
      [] OTHER -> <<>>
  ELSE
    LET Stops(i) == c.op # "not" /\ Match(c.of[i], v, n - 1, "off") = (c.op = "or")
        walked == {i \in DOMAIN c.of : \A j \in 1..(i - 1) : ~Stops(j)} IN
    FlattenSeq([i \in 1..Cardinality(walked) |-> latched[<<n - 1, c.of[i]>>]])

Latched(c, v) ==
  LET latched[x \in Places] == LatchedBy(x[2], v, x[1], latched) IN latched[<<MaxCondDepth, c>>]

\* heardSignal, which takes the first of these: the signals the rule's own condition
\* matched on, and after them whatever was heard.
Signal(rule, v) == Latched(rule.when, v) \o v.signals

\* write: a write to no point, or of nothing, is not a write.
Write(a, found) ==
  IF found = <<>> \/ a.arg \notin 1..MemPoints THEN <<>>
  ELSE <<[point |-> a.arg, cell |-> found[1]]>>

Cells(list) == [i \in DOMAIN list |-> list[i].cell]

\* sideEffect, as it writes memory.
Writes(rule, v) ==
  LET Of(a) ==
        CASE a.do = "save_current_position" -> Write(a, <<v.cell>>)
          [] a.do = "save_visible_target" -> Write(a, Cells(Nearest(v)))
          [] a.do = "save_radar_target" -> Write(a, Cells(v.radar))
          [] a.do = "save_signal_position" -> Write(a, Cells(Signal(rule, v)))
          [] a.do = "clear_point" -> Write(a, <<NoCell>>)
          [] OTHER -> <<>> IN
  FlattenSeq([j \in DOMAIN rule.then |-> Of(rule.then[j])])

\* sideEffect, as it broadcasts.
Broadcasts(rule) ==
  LET sent == SelectSeq(rule.then, LAMBDA a :
                a.do \in {"broadcast_come_here", "broadcast_avoid_here"}) IN
  [i \in DOMAIN sent |-> sent[i].do]

------------------------------------------------------------------------------
\* Decide.

NoTick == [rule |-> 0, action |-> "", act |-> Nowhere, matched |-> {},
           writes |-> <<>>, sent |-> <<>>]

\* A rule with a primary action ends the tick.
Ended(rule, i, v, so) ==
  IF PrimariesOf(rule) = {} THEN so
  ELSE [so EXCEPT !.rule = i, !.action = PrimaryOf(rule).do,
                  !.act = Resolve(PrimaryOf(rule), v)]

\* A rule's part in the walk, so being what the rules above made of the tick: every
\* rule that matches runs its side effects, until one ends it.
Ran(rule, i, v, so) ==
  IF so.rule # 0 \/ ~Matches(rule, v) THEN so
  ELSE Ended(rule, i, v, [so EXCEPT !.matched = @ \cup {i}, !.writes = @ \o Writes(rule, v),
                                    !.sent = @ \o Broadcasts(rule)])

\* The rule walk.
Walk(p, v) ==
  LET tick[i \in 0..Len(p)] == IF i = 0 THEN NoTick ELSE Ran(p[i], i, v, tick[i - 1])
  IN tick[Len(p)]

Deposit == [kind |-> "deposit_component_at_base", cell |-> NoCell]

\* A tick that comes to nothing over the base becomes a deposit.
Reflex(tick, v) ==
  IF Idles(v, tick.act)
    THEN [tick EXCEPT !.rule = 0, !.action = Deposit.kind, !.act = Deposit]
    ELSE tick

\* Decide: the walk and the deposit reflex.
Decide(p, v) == Reflex(Walk(p, v), v)

------------------------------------------------------------------------------
\* Explain.

\* The rules that match and hold a primary action; the first of them won.
Winners(p, v) == {i \in DOMAIN p : Matches(p[i], v) /\ PrimariesOf(p[i]) # {}}

\* Mutant: any matching rule above shadows.
VerdictShadowedByAny(p, v, i) ==
  IF ~Matches(p[i], v) THEN "not_met"
  ELSE IF \E j \in 1..(i - 1) : Matches(p[j], v) THEN "shadowed"
  ELSE IF PrimariesOf(p[i]) = {} THEN "ran" ELSE "won"

\* A rule's verdict.
Verdict(p, v, i) ==
  IF ~Matches(p[i], v) THEN "not_met"
  ELSE IF \E j \in Winners(p, v) : j < i THEN "shadowed"
  ELSE IF PrimariesOf(p[i]) = {} THEN "ran" ELSE "won"

\* usedArgs: the arguments a program asks a predicate about.
UsedArgs(p, q) ==
  {l.arg : l \in {l \in LeavesOf(p) : l.pred = q}}

Row(q, a, v) ==
  [pred |-> q, arg |-> a, true |-> Reads(q, a, v), unknown |-> FALSE,
   impossible |-> ~(PredicateNeeds(q) \subseteq v.kit)]

\* conditionTable: a row for each predicate, for each argument asked of it.
ConditionTable(p, v) ==
  LET asked == PointPredicates \cup PercentPredicates IN
  {Row(q, 0, v) : q \in Predicates \ asked}
  \cup (UNION {{Row(q, a, v) : a \in UsedArgs(p, q)} : q \in asked})
  \cup {[pred |-> q, arg |-> 0, true |-> FALSE, unknown |-> TRUE,
         impossible |-> ~(PredicateNeeds(q) \subseteq v.kit)] :
          q \in {q \in asked : UsedArgs(p, q) = {}}}

\* Explain
Explain(p, v) ==
  LET won == Winners(p, v)
      first == IF won = {} THEN 0 ELSE Min(won)
      a == IF won = {} THEN Do("") ELSE PrimaryOf(p[first])
      act == IF won = {} THEN Nowhere ELSE Resolve(a, v)
      reflex == Idles(v, act) IN
  [rule |-> IF reflex THEN 0 ELSE first,
   action |-> IF reflex THEN Deposit.kind ELSE a.do,
   idle |-> act.kind = "none" /\ ~reflex,
   verdicts |-> [i \in DOMAIN p |-> Verdict(p, v, i)],
   conditions |-> ConditionTable(p, v)]
==============================================================================
