------------------------------- MODULE World -------------------------------
(***************************************************************************)
(* One arena, turn by turn: what World.Step does with robots, bases and    *)
(* components, what Match.step adds to it, and the two commands a player   *)
(* has.                                                                    *)
(*                                                                         *)
(*   internal/sim/tick.go        Step, apply, primary and the actions      *)
(*   internal/sim/match.go       sweepDestroyed, salvage                   *)
(*   internal/sim/nav.go         path                                      *)
(*   internal/lobby/match.go     step, spawnResources                      *)
(*   internal/server/robots.go   Recall, InstallProgram                    *)
(*                                                                         *)
(* A tick is one critical section of the match; its turns are steps here   *)
(* so that what a robot finds when its turn comes is in the open.          *)
(* Commands come between ticks.                                            *)
(*                                                                         *)
(* What is abstracted.  A program may choose any action at every turn, so  *)
(* headings, vision, memory and signals, which only programs read, are     *)
(* left out.  Draws of the world's rng are free choices over what they can *)
(* give.  Loose components lie in heaps; of two equally near the code      *)
(* takes the older, here either.  The tables of component.go and the       *)
(* terrain are constants.                                                  *)
(***************************************************************************)
EXTENDS Naturals, Sequences, FiniteSets, FiniteSetsExt, Functions

CONSTANTS
  Width, Height,  \* the arena
  Home,           \* Home[c]: the cell of the base of colony c, 1..n in slice order
  Variants,       \* component variants
  NoCargo,        \* VariantNone
  Blueprints,     \* the blueprints approved in this match
  Parts,          \* Parts[b]: the variants b is made of, in order
  Barriers,       \* the cells with a hard barrier
  Enterable,      \* Enterable[b]: the cells the locomotion of b may enter
  MoveTicks,      \* MoveTicks[b][c]: ticks it takes b to enter c
  TurnTicks,      \* TurnTicks[b]: ticks it takes b to turn
  BuildTicks,     \* BuildTicks[b]: ticks it takes to assemble b
  Durability,     \* Durability[b]: StartingHealth
  Manipulators,   \* the variants of that kind
  Weapons,        \* Weapons[v]: range, damage and cooldown of a weapon variant
  InteractRange, InteractTicks,
  Approved,       \* Approved[c]: the blueprints colony c builds
  Roster,         \* the robots of the opening, as <<colony, blueprint>>
  Stock,          \* Stock[c]: the opening inventory
  Ground,         \* Ground[c]: the components lying on cell c at the opening
  SpawnEvery,     \* ticks between two new resources, 0 for none
  Duration,       \* the length of the match
  MaxCommands     \* bound: commands players give

Cells    == (0..Width - 1) \X (0..Height - 1)
Colonies == DOMAIN Home

ASSUME WorldAssumption ==
  /\ Width \in Nat \ {0} /\ Height \in Nat \ {0}
  /\ Home \in Seq(Cells) /\ Home # <<>>
  /\ NoCargo \notin Variants /\ Barriers \subseteq Cells
  /\ \A b \in Blueprints :
       /\ Parts[b] \in Seq(Variants) /\ Parts[b] # <<>>
       /\ Enterable[b] \subseteq Cells \ Barriers
       /\ \A c \in Cells : MoveTicks[b][c] \in Nat \ {0}
       /\ TurnTicks[b] \in Nat \ {0} /\ BuildTicks[b] \in Nat \ {0} /\ Durability[b] \in Nat \ {0}
  /\ Manipulators \subseteq Variants /\ DOMAIN Weapons \subseteq Variants
  /\ \A v \in DOMAIN Weapons : Weapons[v] \in [range : Nat, damage : Nat, cooldown : Nat]
  /\ InteractRange \in Nat /\ InteractTicks \in Nat \ {0}
  /\ \A c \in Colonies : Approved[c] \subseteq Blueprints /\ Stock[c] \in [Variants -> Nat]
  /\ Roster \in Seq(Colonies \X Blueprints) /\ Ground \in [Cells -> [Variants -> Nat]]
  /\ SpawnEvery \in Nat /\ Duration \in Nat \ {0} /\ MaxCommands \in Nat

VARIABLES
  robots,    \* World.Robots, in slice order, which is the order of their ids
  lying,     \* lying[c][v]: loose components
  bases,     \* bases[c]: inventory, assembly job, stalled, kills and losses
  tick,      \* World.Tick
  phase,     \* what Step is at, "rest" between ticks
  turn,      \* the next robot, or the next base, whose turn it is
  nextID,    \* the next robot id
  events,    \* World.events, those of robots and colonies
  commands,  \* commands given so far
  ledger     \* what should exist: the opening, the spawned, less what salvage lost

vars == <<robots, lying, bases, tick, phase, turn, nextID, events, commands, ledger>>

-----------------------------------------------------------------------------
Within(a, b, n) == a <= b + n /\ b <= a + n

\* Coord.Chebyshev is at most n.
Near(c, d, n)    == Within(c[1], d[1], n) /\ Within(c[2], d[2], n)
Chebyshev(c, d)  == CHOOSE n \in 0..Width + Height :
                      Near(c, d, n) /\ (n = 0 \/ ~Near(c, d, n - 1))
Neighbours(c)    == {d \in Cells : d # c /\ Near(c, d, 1)}

\* Flooded(b, from)[n]: the cells b can be on n moves after from, or fewer.
Flooded(b, from) ==
  LET f[n \in 0..Cardinality(Cells)] ==
        IF n = 0 THEN {from}
        ELSE UNION {{c} \cup (Neighbours(c) \cap Enterable[b]) : c \in f[n - 1]}
  IN f
Reach(b, from) == Flooded(b, from)[Cardinality(Cells)]

\* How many moves it takes to the nearest of goals, which can be reached.
Moves(b, from, goals) ==
  Min({n \in 0..Cardinality(Cells) : Flooded(b, from)[n] \cap goals # {}})

\* Where path leads: to the cell asked for or, when that cannot be reached, to the
\* nearest reachable ones that are nearer than here.
Goals(b, from, to) ==
  IF to \in Reach(b, from) THEN {to}
  ELSE LET nearer == {c \in Reach(b, from) : Chebyshev(c, to) < Chebyshev(from, to)} IN
       {c \in nearer : \A d \in nearer : Chebyshev(c, to) <= Chebyshev(d, to)}

\* Mutant: a step is worth taking only if it leads nearer as the crow flies.
RoutesGreedy ==
  UNION {{<<b, from, to, c>> :
            c \in {n \in Neighbours(from) \cap Enterable[b] :
                     Chebyshev(n, to) < Chebyshev(from, to)}} :
         b \in Blueprints, from \in Cells, to \in Cells}

\* The neighbours of a cell that are on a shortest route to the goals.
Nearer(b, from, goals) ==
  {n \in Neighbours(from) \cap Enterable[b] :
     Reach(b, n) \cap goals # {} /\ Moves(b, n, goals) < Moves(b, from, goals)}

\* path, as a relation: the first cell of a shortest route from one cell to
\* another.  Of several the code takes the first in the order of headings.
Routes ==
  UNION {{<<b, from, to, c>> : c \in Nearer(b, from, Goals(b, from, to))} :
         b \in Blueprints, from \in Cells, to \in Cells}

FirstSteps(b, from, to) == {c \in Neighbours(from) : <<b, from, to, c>> \in Routes}

-----------------------------------------------------------------------------
Count(s, v)    == Cardinality({i \in DOMAIN s : s[i] = v})
Has(b, kind)   == \E i \in DOMAIN Parts[b] : Parts[b][i] \in kind

\* The slots of b that hold a weapon, in slot order.
Slots(b)       == {i \in DOMAIN Parts[b] : Parts[b][i] \in DOMAIN Weapons}

IsDestroyed(r) == r.health = 0
AtOwnBase(r)   == Near(r.at, Home[r.colony], InteractRange)

NewRobot(id, c, b) ==
  [id |-> id, colony |-> c, bp |-> b, at |-> Home[c], health |-> Durability[b],
   cargo |-> NoCargo, cooldown |-> 0, reload |-> [i \in DOMAIN Parts[b] |-> 0],
   recalled |-> FALSE]

NoJob == [bp |-> {}, ticks |-> 0]

\* The components of one variant in a robot and in a base, and wherever they are.
InRobot(r, v) == Count(Parts[r.bp], v) + (IF r.cargo = v THEN 1 ELSE 0)
InBase(b, v)  == b.inventory[v] + (IF b.job = NoJob THEN 0 ELSE Count(Parts[b.job.bp], v))
Total(v) ==
  SumFunction([c \in Cells |-> lying[c][v]])
  + SumFunction([i \in DOMAIN robots |-> InRobot(robots[i], v)])
  + SumFunction([c \in Colonies |-> InBase(bases[c], v)])

Init ==
  /\ robots = [i \in DOMAIN Roster |-> NewRobot(i, Roster[i][1], Roster[i][2])]
  /\ lying = Ground
  /\ bases = [c \in Colonies |-> [inventory |-> Stock[c], job |-> NoJob, stalled |-> FALSE,
                                  kills |-> 0, losses |-> 0]]
  /\ tick = 0 /\ phase = "rest" /\ turn = 1 /\ nextID = Len(Roster) + 1
  /\ events = <<>> /\ commands = 0
  /\ ledger = [v \in Variants |-> Total(v)]

-----------------------------------------------------------------------------
(* The turns. *)

\* Step begins, unless the match is over.
Begin ==
  /\ phase = "rest" /\ tick < Duration
  /\ phase' = "turns" /\ turn' = 1 /\ events' = <<>>
  /\ UNCHANGED <<robots, lying, bases, tick, nextID, commands, ledger>>

InTurn == phase = "turns" /\ turn <= Len(robots)
Me     == robots[turn]

Reloaded(r) == [r EXCEPT !.reload = [i \in DOMAIN @ |-> IF @[i] = 0 THEN 0 ELSE @[i] - 1]]
Charged(r, ticks) == [r EXCEPT !.cooldown = ticks - 1]

\* The robot whose turn it is becomes r.
Becomes(r) ==
  /\ robots' = [robots EXCEPT ![turn] = r] /\ turn' = turn + 1
  /\ UNCHANGED <<tick, phase, nextID, commands, ledger>>

\* A robot shot to pieces earlier in this tick gets no turn.
WreckTurn ==
  /\ InTurn /\ IsDestroyed(Me)
  /\ Becomes(Me) /\ UNCHANGED <<lying, bases, events>>

BusyTurn ==
  /\ InTurn /\ ~IsDestroyed(Me) /\ Me.cooldown > 0
  /\ Becomes([Reloaded(Me) EXCEPT !.cooldown = @ - 1])
  /\ UNCHANGED <<lying, bases, events>>

\* A step onto a cell.
Enters(r, c) == Charged([r EXCEPT !.at = c], MoveTicks[r.bp][c])

\* One step of moveTo, or a tick lost where path leads nowhere.
Walk(r, to) ==
  LET first == FirstSteps(r.bp, r.at, to) IN
  /\ IF first = {} THEN Becomes(Charged(r, 1)) ELSE \E c \in first : Becomes(Enters(r, c))
  /\ UNCHANGED <<lying, bases, events>>

\* recallAction: the program is not consulted.
RecallTurn ==
  /\ InTurn /\ ~IsDestroyed(Me) /\ Me.cooldown = 0 /\ Me.recalled
  /\ IF AtOwnBase(Me)
     THEN Becomes(Charged(Reloaded(Me), 1)) /\ UNCHANGED <<lying, bases, events>>
     ELSE Walk(Reloaded(Me), Home[Me.colony])

\* Mutant: a wreck still gets its turn.
DecidesDead == InTurn /\ Me.cooldown = 0 /\ ~Me.recalled

\* The robot's program is asked. What follows is every primary action it may pick.
Decides == InTurn /\ ~IsDestroyed(Me) /\ Me.cooldown = 0 /\ ~Me.recalled

\* A primary action that changes nothing but the time: no action, a stop, a step
\* into a barrier, a shot at nothing or with nothing; a turn; and a pick-up, a
\* deposit or a drop that comes to nothing.
Wait ==
  /\ Decides
  /\ \E n \in {1, TurnTicks[Me.bp], InteractTicks} : Becomes(Charged(Reloaded(Me), n))
  /\ UNCHANGED <<lying, bases, events>>

MoveForward ==
  /\ Decides
  /\ \E c \in Neighbours(Me.at) \cap Enterable[Me.bp] : Becomes(Enters(Reloaded(Me), c))
  /\ UNCHANGED <<lying, bases, events>>

MoveTo == Decides /\ \E c \in Cells : Walk(Reloaded(Me), c)

\* Mutant: the wreck of this very tick is a target again.
TargetsDead(c) == {i \in DOMAIN robots : robots[i].colony # Me.colony /\ robots[i].at = c}

\* The robots a shot at c may hit. enemyAt takes the lowest id.
Targets(c) ==
  {i \in DOMAIN robots :
     robots[i].colony # Me.colony /\ robots[i].at = c /\ ~IsDestroyed(robots[i])}

\* The weapons that may fire that far; readyWeapon takes the first.
ReadySlots(r, dist) ==
  {i \in Slots(r.bp) : r.reload[i] = 0 /\ dist <= Weapons[Parts[r.bp][i]].range}

Attack ==
  /\ Decides
  /\ \E c \in Cells, hit \in BOOLEAN :
       LET me    == Reloaded(Me)
           slots == ReadySlots(me, Chebyshev(me.at, c)) IN
       /\ Targets(c) # {} /\ slots # {}
       /\ LET j      == Min(Targets(c))
              weapon == Weapons[Parts[me.bp][Min(slots)]]
              target == robots[j]
              left   == IF target.health > weapon.damage THEN target.health - weapon.damage ELSE 0
              fatal  == hit /\ left = 0
          IN
          /\ robots' = [robots EXCEPT
               ![turn] = Charged([me EXCEPT !.reload[Min(slots)] = weapon.cooldown], 1),
               ![j].health = IF hit THEN left ELSE @]
          /\ bases' = IF fatal THEN [bases EXCEPT ![me.colony].kills = @ + 1] ELSE bases
          /\ events' = IF fatal THEN Append(events, [kind |-> "loss", of |-> target.id]) ELSE events
  /\ turn' = turn + 1
  /\ UNCHANGED <<lying, tick, phase, nextID, commands, ledger>>

\* componentInReach: the nearest cells something lies on.
InReach(r) ==
  LET near == {c \in Cells : Near(r.at, c, InteractRange) /\ \E v \in Variants : lying[c][v] > 0}
  IN {c \in near : \A d \in near : Chebyshev(r.at, c) <= Chebyshev(r.at, d)}

PickUp ==
  /\ Decides /\ Has(Me.bp, Manipulators) /\ Me.cargo = NoCargo
  /\ \E c \in InReach(Me), v \in Variants :
       /\ lying[c][v] > 0
       /\ lying' = [lying EXCEPT ![c][v] = @ - 1]
       /\ Becomes(Charged([Reloaded(Me) EXCEPT !.cargo = v], InteractTicks))
  /\ UNCHANGED <<bases, events>>

Deposit ==
  /\ Decides /\ Has(Me.bp, Manipulators) /\ Me.cargo # NoCargo /\ AtOwnBase(Me)
  /\ bases' = [bases EXCEPT ![Me.colony].inventory[Me.cargo] = @ + 1]
  /\ Becomes(Charged([Reloaded(Me) EXCEPT !.cargo = NoCargo], InteractTicks))
  /\ events' = Append(events, [kind |-> "deposit", of |-> Me.id])
  /\ UNCHANGED lying

Drop ==
  /\ Decides /\ Me.cargo # NoCargo
  /\ lying' = [lying EXCEPT ![Me.at][Me.cargo] = @ + 1]
  /\ Becomes(Charged([Reloaded(Me) EXCEPT !.cargo = NoCargo], InteractTicks))
  /\ UNCHANGED <<bases, events>>

EndTurns ==
  /\ phase = "turns" /\ turn > Len(robots)
  /\ phase' = "sweep" /\ turn' = 1
  /\ UNCHANGED <<robots, lying, bases, tick, nextID, events, commands, ledger>>

-----------------------------------------------------------------------------
(* The sweep, the bases, and the end of the tick. *)

Wrecks == {i \in DOMAIN robots : IsDestroyed(robots[i])}

Without(s, i) == [k \in 1..Len(s) - 1 |-> IF k < i THEN s[k] ELSE s[k + 1]]

\* salvage and removal of one wreck: its cargo falls, and at least one of its
\* modules; the colony counts the loss.
Salvage ==
  /\ phase = "sweep" /\ Wrecks # {}
  /\ LET i     == Min(Wrecks)
         wreck == robots[i]
         parts == Parts[wreck.bp] IN
     /\ \E kept \in SUBSET DOMAIN parts \ {{}} :
          LET Kept(v) == Cardinality({k \in kept : parts[k] = v}) IN
          /\ lying' = [lying EXCEPT ![wreck.at] =
               [v \in Variants |-> @[v] + Kept(v) + (IF wreck.cargo = v THEN 1 ELSE 0)]]
          /\ ledger' = [v \in Variants |-> ledger[v] - (Count(parts, v) - Kept(v))]
     /\ bases' = [bases EXCEPT ![wreck.colony].losses = @ + 1]
     /\ robots' = Without(robots, i)
  /\ UNCHANGED <<tick, phase, turn, nextID, commands>>

\* Mutant: the sweep reports the loss as well.
SweepTells ==
  Salvage /\ events' = Append(events, [kind |-> "loss", of |-> robots[Min(Wrecks)].id])

\* sweepDestroyed, one wreck at a time. The shot has reported the loss.
Sweep == Salvage /\ UNCHANGED events

EndSweep ==
  /\ phase = "sweep" /\ Wrecks = {}
  /\ phase' = "bases"
  /\ UNCHANGED <<robots, lying, bases, tick, turn, nextID, events, commands, ledger>>

\* Mutant: duplicates are not counted.
CoversOnce(inventory, b) == \A i \in DOMAIN Parts[b] : inventory[Parts[b][i]] > 0

Covers(inventory, b) == \A v \in Variants : inventory[v] >= Count(Parts[b], v)

\* Reserve and consume; a count never goes below none.
Less(inventory, b) ==
  [v \in Variants |->
     IF inventory[v] > Count(Parts[b], v) THEN inventory[v] - Count(Parts[b], v) ELSE 0]

\* produce, for the next base in slice order.
InBases == phase = "bases" /\ turn <= Len(Home)
Base    == bases[turn]
BaseBecomes(b) ==
  /\ bases' = [bases EXCEPT ![turn] = b] /\ turn' = turn + 1
  /\ UNCHANGED <<lying, tick, phase, commands, ledger>>

Assemble ==
  /\ InBases /\ Base.job.ticks > 1
  /\ BaseBecomes([Base EXCEPT !.stalled = FALSE, !.job.ticks = @ - 1])
  /\ UNCHANGED <<robots, nextID, events>>

\* Mutant: the order is not cleared.
ReleasedKeepsOrder(b) == [b EXCEPT !.stalled = FALSE, !.job.ticks = 0]

\* The base after its job is done.
Released(b) == [b EXCEPT !.stalled = FALSE, !.job = NoJob]

Release ==
  /\ InBases /\ Base.job.ticks = 1
  /\ BaseBecomes(Released(Base))
  /\ robots' = Append(robots, NewRobot(nextID, turn, Base.job.bp))
  /\ events' = Append(events, [kind |-> "build", of |-> nextID])
  /\ nextID' = nextID + 1

Buildable == {b \in Approved[turn] : Covers(Base.inventory, b)}

StartJob ==
  /\ InBases /\ Base.job = NoJob
  /\ \E b \in Buildable :
       BaseBecomes([Base EXCEPT !.stalled = FALSE, !.inventory = Less(@, b),
                                !.job = [bp |-> b, ticks |-> BuildTicks[b]]])
  /\ UNCHANGED <<robots, nextID, events>>

\* The stall is reported once.
Stall ==
  /\ InBases /\ Base.job = NoJob /\ Buildable = {}
  /\ BaseBecomes([Base EXCEPT !.stalled = TRUE])
  /\ events' = IF Base.stalled THEN events ELSE Append(events, [kind |-> "idle", of |-> turn])
  /\ UNCHANGED <<robots, nextID>>

\* The tick is over; on its schedule the match drops a new component somewhere, or
\* nowhere when the cell drawn is a base or a hard barrier.
EndTick ==
  /\ phase = "bases" /\ turn > Len(Home)
  /\ tick' = tick + 1 /\ phase' = "rest" /\ turn' = 1
  /\ \/ UNCHANGED <<lying, ledger>>
     \/ /\ SpawnEvery # 0 /\ (tick + 1) % SpawnEvery = 0
        /\ \E c \in Cells \ Barriers, v \in Variants :
             /\ \A d \in Colonies : c # Home[d]
             /\ lying' = [lying EXCEPT ![c][v] = @ + 1]
             /\ ledger' = [ledger EXCEPT ![v] = @ + 1]
  /\ UNCHANGED <<robots, bases, nextID, events, commands>>

-----------------------------------------------------------------------------
(* The two commands, under the match lock and while it is not over. *)

Command(i, r) ==
  /\ phase = "rest" /\ tick < Duration /\ commands < MaxCommands
  /\ robots' = [robots EXCEPT ![i] = r] /\ commands' = commands + 1
  /\ UNCHANGED <<lying, bases, tick, phase, turn, nextID, events, ledger>>

Recall(i) == Command(i, [robots[i] EXCEPT !.recalled = TRUE])

\* InstallProgram's Reprogram: only at the robot's own base.
Reprogram(i) == AtOwnBase(robots[i]) /\ Command(i, [robots[i] EXCEPT !.recalled = FALSE])

-----------------------------------------------------------------------------
Primary == Wait \/ MoveForward \/ MoveTo \/ Attack \/ PickUp \/ Deposit \/ Drop
Turns   == WreckTurn \/ BusyTurn \/ RecallTurn \/ Primary
Produce == Assemble \/ Release \/ StartJob \/ Stall

Next ==
  \/ Begin \/ Turns \/ EndTurns \/ Sweep \/ EndSweep \/ Produce \/ EndTick
  \/ \E i \in DOMAIN robots : Recall(i) \/ Reprogram(i)

Spec == Init /\ [][Next]_vars

-----------------------------------------------------------------------------
Robot ==
  [id : Nat, colony : Colonies, bp : Blueprints, at : Cells, health : Nat,
   cargo : Variants \cup {NoCargo}, cooldown : Nat, reload : Seq(Nat), recalled : BOOLEAN]

Job == {NoJob} \cup [bp : Blueprints, ticks : Nat \ {0}]

\* Every variable has its type. A base that assembles nothing holds no job, and a
\* robot is always on the map.
TypeOK ==
  /\ robots \in Seq(Robot)
  /\ lying \in [Cells -> [Variants -> Nat]]
  /\ bases \in [Colonies -> [inventory : [Variants -> Nat], job : Job, stalled : BOOLEAN,
                             kills : Nat, losses : Nat]]
  /\ tick \in 0..Duration /\ phase \in {"rest", "turns", "sweep", "bases"}
  /\ turn \in Nat \ {0} /\ nextID \in Nat \ {0}
  /\ events \in Seq([kind : {"loss", "build", "deposit", "idle"}, of : Nat])
  /\ commands \in 0..MaxCommands /\ DOMAIN ledger = Variants

\* A component is in one place: on the ground, in a cargo slot, installed, in an
\* inventory or in an assembly job. Picking up, depositing, dropping, building and
\* salvaging only ever move it, and only salvage loses any.
Conservation == \A v \in Variants : Total(v) = ledger[v]

\* Every kill is one colony's and one robot's loss, whoever else shot at the same
\* robot in the same tick; a wreck waiting for the sweep is the difference.
KillsAreLosses ==
  SumFunction([c \in Colonies |-> bases[c].kills])
  = SumFunction([c \in Colonies |-> bases[c].losses]) + Cardinality(Wrecks)

LossesIn(told, id) == {k \in DOMAIN told : told[k] = [kind |-> "loss", of |-> id]}

\* The timeline reports each loss exactly once, in the tick it happened in, and no
\* robot that lives.
LossesAreTold ==
  /\ \A id \in 1..nextID - 1 : \A k, l \in LossesIn(events, id) : k = l
  /\ \A i \in DOMAIN robots : LossesIn(events, robots[i].id) # {} <=> IsDestroyed(robots[i])

\* A robot shot to pieces earlier in the tick does nothing more: "above all no shot
\* back from a wreck".
WreckIsInert ==
  [][InTurn /\ IsDestroyed(Me) => UNCHANGED <<robots, lying, bases, events>>]_vars

\* How far a robot has to go to its base.
ToHome(r) == Moves(r.bp, r.at, {Home[r.colony]})

\* A recalled robot that can get home gets nearer at every turn, in moves or else
\* in the ticks of the move under way, does nothing on the way, and stays: the
\* terrain may make it take a way round but never keeps it.
RecallGetsHome ==
  [][InTurn /\ Me.recalled /\ ~IsDestroyed(Me) /\ Home[Me.colony] \in Reach(Me.bp, Me.at) =>
       /\ UNCHANGED <<lying, bases, events>>
       /\ LET me == robots'[turn] IN
          \/ ToHome(me) < ToHome(Me)
          \/ ToHome(me) = ToHome(Me) /\ (me.cooldown < Me.cooldown \/ AtOwnBase(Me))]_vars
=============================================================================
