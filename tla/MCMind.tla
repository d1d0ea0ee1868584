------------------------------- MODULE MCMind -------------------------------
(* Mind.tla on a small instance: three cells in a line, and sixteen programs,  *)
(* the eight the game ships, seven such as players write and the empty one.    *)
EXTENDS Mind, Starters

\* What players write: a rule below one that always pre-empts it, one below a rule of
\* side effects that does not, conditions under NOT and OR, programs that wait for
\* the world or for a memory nothing sets, sensors the body does not carry.
Authored ==
  {[rules |-> <<Patrol, DepositAtBase, TakeInReach>>, kit |-> ForagerKit],
   [rules |-> <<When(Pred("at_own_base"), <<DoArg("save_current_position", 1)>>), DepositAtBase,
                Rule1(All(<<"at_own_base", "carrying_nothing">>), "move_forward"), TakeInReach,
                When(Not(PredArg("at_point", 1)), <<DoArg("move_away_from_point", 1)>>)>>,
    kit |-> ForagerKit],
   [rules |-> <<Rule1(And(<<Pred("sees_component"), Not(Pred("sees_enemy_robot"))>>),
                      "move_to_visible_target")>>, kit |-> GuardKit],
   [rules |-> <<Rule1(All(<<"sees_component", "carrying_component">>), "move_to_own_base"),
                When(And(<<PredArg("point_is_set", 1), Pred("sees_component")>>),
                     <<DoArg("move_to_point", 1)>>)>>, kit |-> ForagerKit],
   [rules |-> <<When(PredArg("health_below", 50), <<Do("move_to_own_base")>>)>>, kit |-> GuardKit],
   [rules |-> <<Rule1(Or(<<Pred("radar_detects_target"),
                           Not(Pred("detected_target_in_weapon_range"))>>), "stop"),
                Rule1(Pred("weapon_ready"), "turn_left")>>, kit |-> ForagerKit],
   [rules |-> <<When(Or(<<Pred("received_avoid_here"), Pred("received_come_here")>>),
                     <<DoArg("save_signal_position", 1), Do("move_away_from_target"),
                       Do("broadcast_avoid_here")>>),
                When(PredArg("point_is_set", 1), <<DoArg("move_to_point", 1)>>),
                Rule1(Pred("weapon_ready"), "drop_component")>>, kit |-> {"weapon", "manipulator"}]}

\* A program without rules is legal, and what a robot idles on.
Nothing == [rules |-> <<>>, kit |-> {}]

\* The conditions of all of them, and their parts: none is more than three deep.
WithParts(conds) ==
  conds \cup UNION {ToSet(c.of) : c \in {c \in conds : c.op # "pred"}}

MCConditions ==
  WithParts(WithParts(UNION {{d.rules[i].when : i \in DOMAIN d.rules} :
                               d \in Shipped \cup Authored}))

\* InstallProgram refuses a program that does not validate against the robot.
MCMinds == {d \in Shipped \cup Authored \cup {Nothing} : Valid(d.rules, d.kit)}
=============================================================================
