------------------------------ MODULE Starters ------------------------------
(***************************************************************************)
(* The programs the game itself ships, each with the body it is written    *)
(* for: the starter kit's, the AI opponents' and the worked examples every *)
(* player's library is seeded with.  A body is the kinds it carries; the   *)
(* locomotion and the armor the kits fan out over play no part here.       *)
(*                                                                         *)
(*   internal/lobby/starter.go, internal/lobby/ai.go                       *)
(*   internal/server/programs.go  the worked examples                      *)
(***************************************************************************)
EXTENDS Language

ScavengerKit == {"manipulator", "radar"}
GuardKit == {"weapon"}
ForagerKit == {"manipulator"}
DefenderKit == {"weapon", "radar"}
GunnerKit == {"weapon", "radar", "enemy_radar"}

All(preds) == And([i \in DOMAIN preds |-> Pred(preds[i])])
Rule1(c, a) == When(c, <<Do(a)>>)

Patrol == Rule1(Pred("carrying_nothing"), "move_forward")
AroundObstacles == Rule1(Pred("sees_obstacle"), "turn_random")
Home == Rule1(Pred("carrying_component"), "move_to_own_base")
DepositAtBase == Rule1(All(<<"at_own_base", "carrying_component">>), "deposit_component_at_base")
TakeInReach == Rule1(All(<<"component_in_reach", "carrying_nothing">>), "pick_up_component")
ShootVisible ==
  Rule1(All(<<"sees_enemy_robot", "visible_target_in_weapon_range">>), "attack_visible_target")

DefaultProgram ==
  <<Home, TakeInReach,
    Rule1(All(<<"radar_detects_target", "carrying_nothing">>), "move_to_radar_target"),
    AroundObstacles, Patrol>>

GuardProgram ==
  <<ShootVisible, Rule1(Pred("at_own_base"), "turn_random"),
    Rule1(Pred("carrying_nothing"), "move_to_own_base")>>

ForagerProgram ==
  <<DepositAtBase, Home, TakeInReach,
    Rule1(All(<<"sees_component", "carrying_nothing">>), "move_to_visible_target"),
    AroundObstacles, Patrol>>

SpotterProgram == <<Rule1(Pred("sees_enemy_robot"), "broadcast_come_here")>> \o DefaultProgram

\* The worked example; the AI's responder also patrols.
WorkedResponder ==
  <<Rule1(And(<<PredArg("health_below", 25), Pred("sees_enemy_robot")>>), "move_away_from_target"),
    When(Pred("received_come_here"), <<DoArg("save_signal_position", 2)>>),
    ShootVisible,
    When(PredArg("at_point", 2), <<DoArg("clear_point", 2)>>),
    When(PredArg("point_is_set", 2), <<DoArg("move_to_point", 2)>>),
    Rule1(Pred("radar_detects_target"), "move_to_radar_target"),
    AroundObstacles>>
ResponderProgram == Append(WorkedResponder, Patrol)

HunterProgram ==
  <<ShootVisible, Rule1(Pred("detected_target_in_weapon_range"), "attack_radar_target"),
    Rule1(Pred("radar_detects_target"), "move_to_radar_target"), AroundObstacles, Patrol>>

ScoutProgram ==
  <<When(All(<<"sees_component", "carrying_component">>), <<DoArg("save_visible_target", 1)>>),
    DepositAtBase, Home,
    When(And(<<PredArg("at_point", 1), Pred("component_in_reach"), Pred("carrying_nothing")>>),
         <<Do("pick_up_component")>>),
    When(And(<<PredArg("at_point", 1), Pred("carrying_nothing")>>), <<DoArg("clear_point", 1)>>),
    When(And(<<PredArg("point_is_set", 1), Pred("carrying_nothing")>>), <<DoArg("move_to_point", 1)>>)>>

Shipped ==
  {[rules |-> DefaultProgram, kit |-> ScavengerKit], [rules |-> ScoutProgram, kit |-> ScavengerKit],
   [rules |-> SpotterProgram, kit |-> ScavengerKit], [rules |-> GuardProgram, kit |-> GuardKit],
   [rules |-> ForagerProgram, kit |-> ForagerKit], [rules |-> WorkedResponder, kit |-> DefenderKit],
   [rules |-> ResponderProgram, kit |-> DefenderKit], [rules |-> HunterProgram, kit |-> GunnerKit]}
=============================================================================
