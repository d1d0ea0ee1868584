------------------------------ MODULE WorldProofs -------------------------------
(***************************************************************************)
(* Proofs about World.tla, for every arena, every set of blueprints and    *)
(* robots, every length of the match and any number of commands, and about *)
(* Arena.tla, for every size of it and whatever is painted and drawn.      *)
(***************************************************************************)
EXTENDS World, Arena, DataLemmas, SequenceTheorems, FiniteSetTheorems, WellFoundedInduction, TLAPS

\* A function over 1..n is a sequence, and a sequence is one.
LEMMA SeqOf ==
  ASSUME NEW S, NEW n \in Nat, NEW f \in [1..n -> S]
  PROVE  f \in Seq(S) /\ Len(f) = n
BY SeqDef

\* Weapons running down, and the time an action takes, leave a robot a robot.
LEMMA ReloadedType ==
  ASSUME NEW r \in Robot
  PROVE  /\ Reloaded(r) \in Robot
         /\ Reloaded(r).id = r.id /\ Reloaded(r).health = r.health /\ Reloaded(r).bp = r.bp
         /\ Reloaded(r).at = r.at /\ Reloaded(r).colony = r.colony
         /\ Reloaded(r).cooldown = r.cooldown /\ Reloaded(r).cargo = r.cargo
<1> DEFINE counted == [i \in DOMAIN r.reload |-> IF r.reload[i] = 0 THEN 0 ELSE r.reload[i] - 1]
<1>1. r.reload \in Seq(Nat)
  BY DEF Robot
<1>2. counted \in [1..Len(r.reload) -> Nat]
  BY <1>1
<1>3. counted \in Seq(Nat)
  BY <1>1, <1>2, SeqOf
<1> QED
  BY <1>3 DEF Reloaded, Robot

LEMMA ChargedType ==
  ASSUME NEW r \in Robot, NEW n \in Nat \ {0}
  PROVE  /\ Charged(r, n) \in Robot
         /\ Charged(r, n).id = r.id /\ Charged(r, n).health = r.health
         /\ Charged(r, n).reload = r.reload
         /\ Charged(r, n).bp = r.bp /\ Charged(r, n).cargo = r.cargo
<1>1. n - 1 \in Nat
  OBVIOUS
<1>2. \A t \in Nat : [r EXCEPT !.cooldown = t] \in Robot
  BY DEF Robot
<1>3. Charged(r, n) \in Robot
  BY <1>1, <1>2 DEF Charged
<1>4. /\ Charged(r, n).id = r.id /\ Charged(r, n).health = r.health
      /\ Charged(r, n).reload = r.reload
      /\ Charged(r, n).bp = r.bp /\ Charged(r, n).cargo = r.cargo
  BY DEF Charged, Robot
<1> QED BY <1>3, <1>4

LEMMA EntersType ==
  ASSUME NEW r \in Robot, NEW c \in Cells
  PROVE  /\ Enters(r, c) \in Robot
         /\ Enters(r, c).id = r.id /\ Enters(r, c).health = r.health
         /\ Enters(r, c).bp = r.bp /\ Enters(r, c).cargo = r.cargo
<1>1. [r EXCEPT !.at = c] \in Robot
  BY DEF Robot
<1>2. MoveTicks[r.bp][c] \in Nat \ {0}
  BY WorldAssumption DEF Robot
<1>3. /\ [r EXCEPT !.at = c].id = r.id /\ [r EXCEPT !.at = c].health = r.health
      /\ [r EXCEPT !.at = c].bp = r.bp /\ [r EXCEPT !.at = c].cargo = r.cargo
  BY DEF Robot
<1> QED
  BY <1>1, <1>2, <1>3, ChargedType DEF Enters

\* A new robot of a known blueprint.
LEMMA NewRobotType ==
  ASSUME NEW id \in Nat, NEW c \in Colonies, NEW b \in Blueprints
  PROVE  /\ NewRobot(id, c, b) \in Robot
         /\ NewRobot(id, c, b).id = id /\ NewRobot(id, c, b).health # 0
<1>1. [i \in DOMAIN Parts[b] |-> 0] \in [1..Len(Parts[b]) -> Nat] /\ Len(Parts[b]) \in Nat
  BY WorldAssumption
<1>2. [i \in DOMAIN Parts[b] |-> 0] \in Seq(Nat)
  BY <1>1, SeqOf
<1>3. Home[c] \in Cells
  BY WorldAssumption DEF Colonies
<1>4. Durability[b] \in Nat \ {0}
  BY WorldAssumption
<1> QED
  BY <1>2, <1>3, <1>4 DEF NewRobot, Robot

-----------------------------------------------------------------------------
Mine(r) == r \in Robot /\ r.id = Me.id /\ r.health = Me.health

Lying == [Cells -> [Variants -> Nat]]
Bases == [Colonies -> [inventory : [Variants -> Nat], job : Job, stalled : BOOLEAN,
                       kills : Nat, losses : Nat]]
Event == [kind : {"loss", "build", "deposit", "idle"}, of : Nat]

LEMMA MeType ==
  ASSUME TypeOK, InTurn
  PROVE  turn \in 1..Len(robots) /\ turn \in DOMAIN robots /\ Me \in Robot /\ Reloaded(Me) \in Robot
<1>1. turn \in 1..Len(robots) /\ turn \in DOMAIN robots
  BY DEF TypeOK, InTurn
<1>2. Me \in Robot
  BY <1>1, ElementOfSeq DEF TypeOK, Me
<1> QED
  BY <1>1, <1>2, ReloadedType

\* Whatever a robot's turn is, a shot apart, it changes that robot only, neither
\* its identity nor its health, and reports no loss.
LEMMA QuietTurn ==
  ASSUME TypeOK, Turns, ~Attack
  PROVE  /\ InTurn
         /\ \E r : Mine(r) /\ Becomes(r)
         /\ lying' \in Lying /\ bases' \in Bases
         /\ events' = events \/ events' = Append(events, [kind |-> "deposit", of |-> Me.id])
<1>1. InTurn
  BY DEF Turns, Primary, WreckTurn, BusyTurn, RecallTurn, Wait, MoveForward, MoveTo, PickUp,
         Deposit, Drop, Decides
<1>2. Me \in Robot
  BY <1>1, MeType
<1> DEFINE me == Reloaded(Me)
<1>3. Mine(me) /\ me.colony = Me.colony /\ me.at = Me.at /\ me.bp = Me.bp /\ me.cooldown = Me.cooldown
  BY <1>2, ReloadedType DEF Mine
<1>4. lying \in Lying /\ bases \in Bases
  BY DEF TypeOK, Lying, Bases
<1> HIDE DEF me
<1>5. \A n \in Nat \ {0} : Mine(Charged(me, n))
  BY <1>3, ChargedType DEF Mine
<1>6. \A c \in Cells : Mine(Enters(me, c))
  BY <1>3, EntersType DEF Mine
<1>7. \A b \in Blueprints : TurnTicks[b] \in Nat \ {0}
  BY WorldAssumption
<1>8. Me.bp \in Blueprints /\ Me.colony \in Colonies /\ Me.at \in Cells
  BY <1>2 DEF Robot
<1>9. ASSUME NEW v \in Variants \cup {NoCargo} PROVE Mine(Charged([me EXCEPT !.cargo = v], InteractTicks))
  <2>1. Mine([me EXCEPT !.cargo = v])
    BY <1>3 DEF Mine, Robot
  <2> QED
    BY <2>1, ChargedType, WorldAssumption DEF Mine
<1>10. ASSUME NEW c \in Cells, Walk(me, c)
       PROVE  (\E r : Mine(r) /\ Becomes(r)) /\ UNCHANGED <<lying, bases, events>>
  <2>1. FirstSteps(me.bp, me.at, c) \subseteq Cells
    BY DEF FirstSteps, Neighbours
  <2> QED
    BY <1>5, <1>6, <1>10, <2>1 DEF Walk
<1>11. CASE WreckTurn
  BY <1>1, <1>2, <1>4, <1>11 DEF WreckTurn, Mine
<1>12. CASE BusyTurn
  <2>1. Me.cooldown \in Nat /\ Me.cooldown > 0
    BY <1>2, <1>12 DEF BusyTurn, Robot
  <2>2. me.cooldown - 1 \in Nat
    BY <1>3, <2>1
  <2>3. Mine([me EXCEPT !.cooldown = @ - 1])
    BY <1>3, <2>2 DEF Mine, Robot
  <2> QED
    BY <1>1, <1>4, <1>12, <2>3 DEF BusyTurn, me
<1>13. CASE RecallTurn
  <2>1. CASE AtOwnBase(Me)
    BY <1>1, <1>4, <1>5, <1>13, <2>1 DEF RecallTurn, me
  <2>2. CASE ~AtOwnBase(Me)
    <3>1. Home[Me.colony] \in Cells
      BY <1>8, WorldAssumption DEF Colonies
    <3> QED
      BY <1>1, <1>4, <1>10, <1>13, <2>2, <3>1 DEF RecallTurn, me
  <2> QED
    BY <2>1, <2>2
<1>14. CASE Wait
  <2>1. \A n \in {1, TurnTicks[Me.bp], InteractTicks} : n \in Nat \ {0}
    BY <1>7, <1>8, WorldAssumption
  <2> QED
    BY <1>1, <1>4, <1>5, <1>14, <2>1 DEF Wait, me
<1>15. CASE MoveForward
  BY <1>1, <1>4, <1>6, <1>15 DEF MoveForward, Neighbours, me
<1>16. CASE MoveTo
  BY <1>1, <1>4, <1>10, <1>16 DEF MoveTo, me
<1>17. CASE PickUp
  <2>1. PICK c \in InReach(Me), v \in Variants :
          /\ lying[c][v] > 0
          /\ lying' = [lying EXCEPT ![c][v] = @ - 1]
          /\ Becomes(Charged([me EXCEPT !.cargo = v], InteractTicks))
    BY <1>17 DEF PickUp, me
  <2>2. c \in Cells
    BY DEF InReach
  <2>3. lying' \in Lying
    BY <1>4, <2>1, <2>2 DEF Lying
  <2> QED
    BY <1>1, <1>4, <1>9, <1>17, <2>1, <2>3 DEF PickUp
<1>18. CASE Deposit
  <2>1. Me.cargo \in Variants
    BY <1>2, <1>18 DEF Deposit, Robot
  <2>2. bases' \in Bases
    <3>1. bases' = [bases EXCEPT ![Me.colony].inventory[Me.cargo] = @ + 1]
      BY <1>18 DEF Deposit
    <3> QED
      BY <1>4, <1>8, <2>1, <3>1 DEF Bases
  <2> QED
    BY <1>1, <1>4, <1>9, <1>18, <2>2 DEF Deposit, me
<1>19. CASE Drop
  <2>1. Me.cargo \in Variants
    BY <1>2, <1>19 DEF Drop, Robot
  <2>2. lying' \in Lying
    BY <1>4, <1>8, <1>19, <2>1 DEF Drop, Lying
  <2> QED
    BY <1>1, <1>4, <1>9, <1>19, <2>2 DEF Drop, me
<1> QED
  BY <1>11, <1>12, <1>13, <1>14, <1>15, <1>16, <1>17, <1>18, <1>19 DEF Turns, Primary

\* A shot changes the shooter and, when it hits, the health of one robot that was
\* alive; the loss is reported exactly when that robot has none left.
LEMMA OneShot ==
  ASSUME TypeOK, Attack
  PROVE  /\ InTurn
         /\ \E j \in DOMAIN robots :
              /\ robots' \in Seq(Robot) /\ DOMAIN robots' = DOMAIN robots
              /\ ~IsDestroyed(robots[j])
              /\ \A i \in DOMAIN robots : robots'[i].id = robots[i].id
              /\ \A i \in DOMAIN robots : i # j => robots'[i].health = robots[i].health
              /\ \A i \in DOMAIN robots : robots'[i].bp = robots[i].bp /\ robots'[i].cargo = robots[i].cargo
              /\ events' = IF robots'[j].health = 0
                           THEN Append(events, [kind |-> "loss", of |-> robots[j].id])
                           ELSE events
              /\ IF robots'[j].health = 0
                 THEN \E d \in Colonies : bases' = [bases EXCEPT ![d].kills = @ + 1]
                 ELSE bases' = bases
         /\ bases' \in Bases
         /\ turn' = turn + 1 /\ UNCHANGED <<lying, tick, phase, nextID, commands, ledger>>
<1>1. InTurn
  BY DEF Attack, Decides
<1>2. turn \in 1..Len(robots) /\ turn \in DOMAIN robots /\ Me \in Robot
  BY <1>1, MeType
<1> DEFINE me == Reloaded(Me)
<1>3. /\ me \in Robot /\ me.id = Me.id /\ me.health = Me.health /\ me.colony = Me.colony
      /\ me.bp = Me.bp /\ me.cargo = Me.cargo
  BY <1>2, ReloadedType
<1> HIDE DEF me
<1>4. PICK c \in Cells, hit \in BOOLEAN :
       LET slots == ReadySlots(me, Chebyshev(me.at, c)) IN
       /\ Targets(c) # {} /\ slots # {}
       /\ LET j      == Min(Targets(c))
              weapon == Weapons[Parts[me.bp][Min(slots)]]
              target == robots[j]
              left   == IF target.health > weapon.damage THEN target.health - weapon.damage ELSE 0
              fatal  == hit /\ left = 0
          IN
          /\ robots' = [robots EXCEPT
               ![turn] = Charged([me EXCEPT !.reload[Min(slots)] = weapon.cooldown], 1),
               ![j].health = IF hit THEN left ELSE @]
          /\ bases' = IF fatal THEN [bases EXCEPT ![me.colony].kills = @ + 1] ELSE bases
          /\ events' = IF fatal THEN Append(events, [kind |-> "loss", of |-> target.id]) ELSE events
  BY DEF Attack, me
<1> DEFINE slots  == ReadySlots(me, Chebyshev(me.at, c))
           k      == Min(slots)
           j      == Min(Targets(c))
           weapon == Weapons[Parts[me.bp][k]]
           left   == IF robots[j].health > weapon.damage THEN robots[j].health - weapon.damage ELSE 0
           fatal  == hit /\ left = 0
           shot   == [me EXCEPT !.reload[k] = weapon.cooldown]
           after  == Charged(shot, 1)
<1>5. j \in DOMAIN robots /\ robots[j].colony # Me.colony /\ ~IsDestroyed(robots[j])
  <2>1. Targets(c) \in SUBSET Nat
    BY DEF Targets, TypeOK
  <2> QED
    BY <1>4, <2>1, MinOf DEF Targets
<1>6. j # turn /\ robots[j] \in Robot
  BY <1>5, ElementOfSeq DEF Me, TypeOK
<1>7. weapon.cooldown \in Nat /\ weapon.damage \in Nat
  <2>1. me.bp \in Blueprints
    BY <1>3 DEF Robot
  <2>2. slots \in SUBSET Nat
    BY <2>1, WorldAssumption DEF ReadySlots, Slots
  <2>3. k \in slots
    BY <1>4, <2>2, MinOf
  <2>4. Parts[me.bp][k] \in DOMAIN Weapons
    BY <2>3 DEF ReadySlots, Slots
  <2> QED
    BY <2>4, WorldAssumption
<1> HIDE DEF weapon
<1>8. left \in Nat
  BY <1>6, <1>7 DEF Robot
<1> HIDE DEF left
<1>9. /\ shot \in Robot /\ shot.id = Me.id /\ shot.health = Me.health
      /\ shot.bp = Me.bp /\ shot.cargo = Me.cargo
  <2>1. me.reload \in Seq(Nat)
    BY <1>3 DEF Robot
  <2>2. [me.reload EXCEPT ![k] = weapon.cooldown] \in [1..Len(me.reload) -> Nat]
    BY <1>7, <2>1, LenProperties
  <2>3. [me.reload EXCEPT ![k] = weapon.cooldown] \in Seq(Nat)
    BY <2>1, <2>2, SeqOf
  <2> QED
    BY <1>3, <2>3 DEF Robot
<1> HIDE DEF k, shot
<1>10. /\ after \in Robot /\ after.id = Me.id /\ after.health = Me.health
       /\ after.bp = Me.bp /\ after.cargo = Me.cargo
  BY <1>9, ChargedType
<1> HIDE DEF after
<1>11. robots' = [robots EXCEPT ![turn] = after, ![j].health = IF hit THEN left ELSE @]
  BY <1>4 DEF after, shot, weapon, left, k
<1> HIDE DEF j
<1>12. /\ DOMAIN robots' = DOMAIN robots
       /\ \A i \in DOMAIN robots : i # turn /\ i # j => robots'[i] = robots[i]
       /\ robots'[turn] = after
       /\ robots'[j] = [robots[j] EXCEPT !.health = IF hit THEN left ELSE @]
  BY <1>2, <1>5, <1>6, <1>11
<1>13. /\ robots'[j] \in Robot /\ robots'[j].id = robots[j].id
       /\ robots'[j].bp = robots[j].bp /\ robots'[j].cargo = robots[j].cargo
  BY <1>6, <1>8, <1>12 DEF Robot
<1>14. robots'[j].health = 0 <=> fatal
  BY <1>5, <1>6, <1>12 DEF IsDestroyed, Robot
<1>15. robots' \in Seq(Robot)
  <2>0. Len(robots) \in Nat /\ DOMAIN robots = 1..Len(robots)
    BY LenProperties DEF TypeOK
  <2>1. ASSUME NEW i \in DOMAIN robots PROVE robots'[i] \in Robot
    <3>1. robots[i] \in Robot
      BY <2>0, ElementOfSeq DEF TypeOK
    <3> QED
      BY <1>10, <1>12, <1>13, <3>1
  <2>2. robots' \in [1..Len(robots) -> Robot]
    BY <1>11, <1>12, <2>0, <2>1
  <2> QED
    BY <2>0, <2>2, SeqOf
<1>16. events' = IF fatal THEN Append(events, [kind |-> "loss", of |-> robots[j].id]) ELSE events
  BY <1>4 DEF left, weapon, k, j
<1>17. /\ bases' \in Bases
       /\ bases' = IF fatal THEN [bases EXCEPT ![me.colony].kills = @ + 1] ELSE bases
       /\ me.colony \in Colonies
  <2>1. bases' = IF fatal THEN [bases EXCEPT ![me.colony].kills = @ + 1] ELSE bases
    BY <1>4 DEF left, weapon, k, j
  <2>2. bases \in Bases /\ me.colony \in Colonies
    BY <1>3 DEF TypeOK, Bases, Robot
  <2>3. [bases EXCEPT ![me.colony].kills = @ + 1] \in Bases
    BY <2>2 DEF Bases
  <2> QED
    BY <2>1, <2>2, <2>3
<1>18. turn' = turn + 1 /\ UNCHANGED <<lying, tick, phase, nextID, commands, ledger>>
  BY DEF Attack
<1>19. \A i \in DOMAIN robots : robots'[i].id = robots[i].id /\ (i # j => robots'[i].health = robots[i].health)
  BY <1>10, <1>12, <1>13 DEF Me
<1>20. \A i \in DOMAIN robots : robots'[i].bp = robots[i].bp /\ robots'[i].cargo = robots[i].cargo
  BY <1>10, <1>12, <1>13 DEF Me
<1> HIDE DEF fatal
<1> QED
  BY <1>1, <1>2, <1>5, <1>12, <1>14, <1>15, <1>16, <1>17, <1>18, <1>19, <1>20

-----------------------------------------------------------------------------
(* Type correctness. *)

\* A tick is only under way in a match that is not over.
TickInv == phase # "rest" => tick < Duration

\* A sequence without one of its elements, and with another one.
LEMMA WithoutType ==
  ASSUME NEW S, NEW s \in Seq(S), NEW i \in DOMAIN s
  PROVE  /\ Without(s, i) \in Seq(S) /\ Len(Without(s, i)) = Len(s) - 1
         /\ \A k \in DOMAIN Without(s, i) :
              Without(s, i)[k] = IF k < i THEN s[k] ELSE s[k + 1]
<1>1. Len(s) \in Nat /\ DOMAIN s = 1..Len(s) /\ Len(s) - 1 \in Nat
  BY LenProperties
<1>2. \A k \in 1..Len(s) - 1 : (IF k < i THEN s[k] ELSE s[k + 1]) \in S
  BY <1>1, ElementOfSeq
<1>3. Without(s, i) \in [1..Len(s) - 1 -> S]
  BY <1>2 DEF Without
<1> QED
  BY <1>1, <1>3, SeqOf DEF Without

\* A blueprint has finitely many parts.
LEMMA PartsFinite ==
  ASSUME NEW b \in Blueprints
  PROVE  IsFiniteSet(DOMAIN Parts[b])
<1>1. Parts[b] \in Seq(Variants)
  BY WorldAssumption
<1>2. Len(Parts[b]) \in Nat /\ DOMAIN Parts[b] = 1..Len(Parts[b])
  BY <1>1, LenProperties
<1> QED
  BY <1>2, FS_Interval

\* The wreck that is swept is one.
LEMMA FirstWreck ==
  ASSUME TypeOK, Wrecks # {}
  PROVE  Min(Wrecks) \in DOMAIN robots /\ IsDestroyed(robots[Min(Wrecks)])
<1>1. Wrecks \in SUBSET Nat
  BY DEF Wrecks, TypeOK
<1> QED
  BY <1>1, MinOf DEF Wrecks

\* What salvage leaves on the ground is a number of components.
LEMMA SweepType ==
  ASSUME TypeOK, Sweep
  PROVE  robots' \in Seq(Robot) /\ lying' \in Lying /\ bases' \in Bases /\ DOMAIN ledger' = Variants
<1> DEFINE i == Min(Wrecks)
           wreck == robots[i]
           parts == Parts[wreck.bp]
<1>1. i \in DOMAIN robots
  BY FirstWreck DEF Sweep, Salvage
<1>2. wreck \in Robot
  BY <1>1, ElementOfSeq DEF TypeOK
<1>3. wreck.colony \in Colonies /\ wreck.at \in Cells /\ wreck.bp \in Blueprints
  BY <1>2 DEF Robot
<1>4. IsFiniteSet(DOMAIN parts)
  BY <1>3, PartsFinite
<1>5. PICK kept \in SUBSET DOMAIN parts \ {{}} :
        /\ lying' = [lying EXCEPT ![wreck.at] =
             [v \in Variants |-> @[v] + Cardinality({k \in kept : parts[k] = v})
                                 + (IF wreck.cargo = v THEN 1 ELSE 0)]]
        /\ ledger' = [v \in Variants |->
             ledger[v] - (Count(parts, v) - Cardinality({k \in kept : parts[k] = v}))]
  BY DEF Sweep, Salvage
<1>6. bases' = [bases EXCEPT ![wreck.colony].losses = @ + 1] /\ robots' = Without(robots, i)
  BY DEF Sweep, Salvage
<1> HIDE DEF i
<1>7. robots' \in Seq(Robot)
  BY <1>1, <1>6, WithoutType DEF TypeOK
<1> HIDE DEF wreck
<1>8. bases' \in Bases
  <2>1. bases \in Bases
    BY DEF TypeOK, Bases
  <2> QED
    BY <1>3, <1>6, <2>1 DEF Bases
<1> HIDE DEF parts
<1>9. \A v \in Variants : Cardinality({k \in kept : parts[k] = v}) \in Nat
  BY <1>4, FS_Subset, FS_CardinalityType
<1>10. lying' \in Lying
  <2>1. \A v \in Variants : lying[wreck.at][v] \in Nat
    BY <1>3 DEF TypeOK
  <2>2. [v \in Variants |-> lying[wreck.at][v] + Cardinality({k \in kept : parts[k] = v})
                            + (IF wreck.cargo = v THEN 1 ELSE 0)] \in [Variants -> Nat]
    BY <1>9, <2>1
  <2> QED
    BY <1>3, <1>5, <2>2 DEF TypeOK, Lying
<1> QED
  BY <1>5, <1>7, <1>8, <1>10

\* What a base does leaves it a base.
LEMMA ProduceType ==
  ASSUME TypeOK, Produce
  PROVE  /\ bases' \in Bases /\ robots' \in Seq(Robot) /\ nextID' \in Nat \ {0}
         /\ events' \in Seq(Event) /\ turn' = turn + 1
         /\ UNCHANGED <<lying, tick, phase, commands, ledger>>
<1> USE DEF BaseBecomes
<1>1. InBases
  BY DEF Produce, Assemble, Release, StartJob, Stall
<1>2. turn \in Colonies
  BY <1>1, WorldAssumption DEF InBases, TypeOK, Colonies
<1>3. bases \in Bases /\ events \in Seq(Event)
  BY DEF TypeOK, Bases, Event
<1>4. Base \in [inventory : [Variants -> Nat], job : Job, stalled : BOOLEAN,
                kills : Nat, losses : Nat]
  BY <1>2, <1>3 DEF Bases, Base
<1>5. turn' = turn + 1 /\ UNCHANGED <<lying, tick, phase, commands, ledger>>
  BY DEF Produce, Assemble, Release, StartJob, Stall
<1>6. CASE Assemble
  <2>1. [Base EXCEPT !.stalled = FALSE, !.job.ticks = @ - 1].job \in Job
    BY <1>4, <1>6 DEF Assemble, Job, NoJob
  <2>2. bases' \in Bases
    BY <1>2, <1>3, <1>4, <1>6, <2>1 DEF Assemble, Bases
  <2> QED
    BY <1>3, <1>5, <1>6, <2>2 DEF Assemble, TypeOK
<1>7. CASE Release
  <2>1. Base.job.bp \in Blueprints
    BY <1>4, <1>7 DEF Release, Job, NoJob
  <2>2. NewRobot(nextID, turn, Base.job.bp) \in Robot
    BY <1>2, <2>1, NewRobotType DEF TypeOK
  <2>3. robots' \in Seq(Robot)
    BY <1>7, <2>2, AppendProperties DEF Release, TypeOK
  <2>4. [kind |-> "build", of |-> nextID] \in Event
    BY DEF TypeOK, Event
  <2>5. events' \in Seq(Event)
    BY <1>3, <1>7, <2>4, AppendProperties DEF Release
  <2>6. bases' \in Bases
    <3>1. Released(Base).job = NoJob /\ Released(Base) = [Base EXCEPT !.stalled = FALSE, !.job = NoJob]
      BY <1>4 DEF Released
    <3> QED
      BY <1>2, <1>3, <1>4, <1>7, <3>1 DEF Release, Bases, Job
  <2> QED
    BY <1>5, <1>7, <2>3, <2>5, <2>6 DEF Release, TypeOK
<1>8. CASE StartJob
  <2>1. PICK b \in Buildable :
          bases' = [bases EXCEPT ![turn] = [Base EXCEPT !.stalled = FALSE, !.inventory = Less(@, b),
                                !.job = [bp |-> b, ticks |-> BuildTicks[b]]]]
    BY <1>8 DEF StartJob
  <2>2. b \in Blueprints
    BY <1>2, WorldAssumption DEF Buildable
  <2>3. Less(Base.inventory, b) \in [Variants -> Nat]
    <3>1. IsFiniteSet(DOMAIN Parts[b])
      BY <2>2, PartsFinite
    <3>2. \A v \in Variants : Count(Parts[b], v) \in Nat
      BY <3>1, FS_Subset, FS_CardinalityType DEF Count
    <3> QED
      BY <1>4, <3>2 DEF Less
  <2>4. [bp |-> b, ticks |-> BuildTicks[b]] \in Job
    BY <2>2, WorldAssumption DEF Job
  <2>5. bases' \in Bases
    BY <1>2, <1>3, <1>4, <2>1, <2>3, <2>4 DEF Bases
  <2> QED
    BY <1>3, <1>5, <1>8, <2>5 DEF StartJob, TypeOK
<1>9. CASE Stall
  <2>1. bases' \in Bases
    BY <1>2, <1>3, <1>4, <1>9 DEF Stall, Bases
  <2>2. [kind |-> "idle", of |-> turn] \in Event
    BY DEF TypeOK, Event
  <2>3. events' \in Seq(Event)
    BY <1>3, <1>9, <2>2, AppendProperties DEF Stall
  <2> QED
    BY <1>5, <1>9, <2>1, <2>3 DEF Stall, TypeOK
<1> QED
  BY <1>6, <1>7, <1>8, <1>9 DEF Produce

\* A command changes one robot's order.
LEMMA CommandType ==
  ASSUME TypeOK, NEW i \in DOMAIN robots, Recall(i) \/ Reprogram(i)
  PROVE  /\ robots' \in Seq(Robot) /\ DOMAIN robots' = DOMAIN robots
         /\ \A k \in DOMAIN robots : robots'[k].id = robots[k].id /\ robots'[k].health = robots[k].health
         /\ phase = "rest" /\ commands' \in 0..MaxCommands
         /\ UNCHANGED <<lying, bases, tick, phase, turn, nextID, events, ledger>>
<1>1. Len(robots) \in Nat /\ DOMAIN robots = 1..Len(robots)
  BY LenProperties DEF TypeOK
<1>2. robots[i] \in Robot
  BY <1>1, ElementOfSeq DEF TypeOK
<1>3. PICK b \in BOOLEAN : robots' = [robots EXCEPT ![i] = [robots[i] EXCEPT !.recalled = b]]
  BY DEF Recall, Reprogram, Command
<1>4. [robots[i] EXCEPT !.recalled = b] \in Robot
  BY <1>2 DEF Robot
<1>5. robots' \in Seq(Robot) /\ DOMAIN robots' = DOMAIN robots
  BY <1>1, <1>3, <1>4, ExceptSeq DEF TypeOK
<1>6. \A k \in DOMAIN robots : robots'[k].id = robots[k].id /\ robots'[k].health = robots[k].health
  BY <1>2, <1>3 DEF Robot
<1>7. commands' \in 0..MaxCommands
  BY WorldAssumption DEF Recall, Reprogram, Command, TypeOK
<1> QED
  BY <1>5, <1>6, <1>7 DEF Recall, Reprogram, Command

\* A quiet turn, put in terms of the variables.
LEMMA QuietTurnType ==
  ASSUME TypeOK, Turns, ~Attack
  PROVE  /\ robots' \in Seq(Robot) /\ DOMAIN robots' = DOMAIN robots
         /\ \A k \in DOMAIN robots : robots'[k].id = robots[k].id /\ robots'[k].health = robots[k].health
         /\ lying' \in Lying /\ bases' \in Bases /\ events' \in Seq(Event)
         /\ events' = events \/ events' = Append(events, [kind |-> "deposit", of |-> Me.id])
         /\ phase = "turns" /\ turn' = turn + 1 /\ UNCHANGED <<tick, phase, nextID, commands, ledger>>
<1>1. InTurn /\ turn \in 1..Len(robots) /\ turn \in DOMAIN robots /\ Me \in Robot
  BY QuietTurn, MeType
<1>2. PICK r : Mine(r) /\ Becomes(r)
  BY QuietTurn
<1>3. robots' = [robots EXCEPT ![turn] = r] /\ r \in Robot /\ r.id = Me.id /\ r.health = Me.health
  BY <1>2 DEF Mine, Becomes
<1>4. robots' \in Seq(Robot) /\ DOMAIN robots' = DOMAIN robots
  BY <1>1, <1>3, ExceptSeq DEF TypeOK
<1>5. \A k \in DOMAIN robots : robots'[k].id = robots[k].id /\ robots'[k].health = robots[k].health
  BY <1>3 DEF Me
<1>6. events' \in Seq(Event)
  <2>1. [kind |-> "deposit", of |-> Me.id] \in Event
    BY <1>1 DEF Event, Robot
  <2>2. events \in Seq(Event)
    BY DEF TypeOK, Event
  <2> QED
    BY <2>1, <2>2, QuietTurn, AppendProperties
<1> QED
  BY <1>1, <1>2, <1>4, <1>5, <1>6, QuietTurn DEF Becomes, InTurn

\* The end of the tick drops one component, or none.
LEMMA EndTickType ==
  ASSUME TypeOK, TickInv, EndTick
  PROVE  lying' \in Lying /\ DOMAIN ledger' = Variants /\ tick' \in 0..Duration
<1>1. tick' \in 0..Duration
  BY WorldAssumption DEF EndTick, TickInv, TypeOK
<1>2. CASE UNCHANGED <<lying, ledger>>
  BY <1>1, <1>2 DEF TypeOK, Lying
<1>3. ASSUME NEW c \in Cells, NEW v \in Variants,
             lying' = [lying EXCEPT ![c][v] = @ + 1],
             ledger' = [ledger EXCEPT ![v] = @ + 1]
      PROVE  lying' \in Lying /\ DOMAIN ledger' = Variants
  BY <1>3 DEF TypeOK, Lying
<1> QED
  BY <1>1, <1>2, <1>3 DEF EndTick

\* Every step keeps every variable within its type.
LEMMA TypeStep ==
  ASSUME TypeOK, TickInv, [Next]_vars
  PROVE  TypeOK' /\ TickInv'
<1> USE DEF Lying, Bases, Event
<1>1. CASE Begin
  BY <1>1, EmptySeq DEF Begin, TypeOK, TickInv
<1>2. CASE Turns /\ ~Attack
  BY <1>2, QuietTurnType DEF TypeOK, TickInv
<1>3. CASE Attack
  <2>1. InTurn /\ bases' \in Bases /\ turn' = turn + 1
        /\ UNCHANGED <<lying, tick, phase, nextID, commands, ledger>>
    BY <1>3, OneShot
  <2>2. PICK j \in DOMAIN robots :
          /\ robots' \in Seq(Robot)
          /\ events' = events \/ events' = Append(events, [kind |-> "loss", of |-> robots[j].id])
    BY <1>3, OneShot
  <2>3. robots[j].id \in Nat
    <3>1. j \in 1..Len(robots)
      BY DEF TypeOK
    <3>2. robots[j] \in Robot
      BY <3>1, ElementOfSeq DEF TypeOK
    <3> QED
      BY <3>2 DEF Robot
  <2>4. events' \in Seq(Event)
    <3>1. events \in Seq(Event) /\ [kind |-> "loss", of |-> robots[j].id] \in Event
      BY <2>3 DEF TypeOK
    <3>2. Append(events, [kind |-> "loss", of |-> robots[j].id]) \in Seq(Event)
      BY <3>1, AppendProperties
    <3> QED
      BY <2>2, <3>1, <3>2
  <2> QED
    BY <2>1, <2>2, <2>4 DEF TypeOK, TickInv
<1>4. CASE EndTurns
  BY <1>4 DEF EndTurns, TypeOK, TickInv
<1>5. CASE Sweep
  <2>1. UNCHANGED <<tick, phase, turn, nextID, commands, events>>
    BY <1>5 DEF Sweep, Salvage
  <2> QED
    BY <1>5, <2>1, SweepType DEF TypeOK, TickInv
<1>6. CASE EndSweep
  BY <1>6 DEF EndSweep, TypeOK, TickInv
<1>7. CASE Produce
  BY <1>7, ProduceType DEF TypeOK, TickInv
<1>8. CASE EndTick
  <2>1. phase' = "rest" /\ turn' = 1 /\ UNCHANGED <<robots, bases, nextID, events, commands>>
    BY <1>8 DEF EndTick
  <2> QED
    BY <1>8, <2>1, EndTickType DEF TypeOK, TickInv
<1>9. ASSUME NEW i \in DOMAIN robots, Recall(i) \/ Reprogram(i)
      PROVE  TypeOK' /\ TickInv'
  BY <1>9, CommandType DEF TypeOK, TickInv
<1>10. CASE UNCHANGED vars
  BY <1>10 DEF vars, TypeOK, TickInv, Wrecks
<1> QED
  BY <1>1, <1>2, <1>3, <1>4, <1>5, <1>6, <1>7, <1>8, <1>9, <1>10 DEF Next, Turns, Primary

LEMMA TypeInit ==
  ASSUME Init
  PROVE  TypeOK /\ TickInv
<1>1. Len(Roster) \in Nat /\ DOMAIN Roster = 1..Len(Roster)
  BY WorldAssumption, LenProperties
<1>2. \A i \in DOMAIN Roster : Roster[i] \in Colonies \X Blueprints
  BY <1>1, WorldAssumption, ElementOfSeq
<1>3. robots \in Seq(Robot)
  <2>1. \A i \in DOMAIN Roster : NewRobot(i, Roster[i][1], Roster[i][2]) \in Robot
    BY <1>1, <1>2, NewRobotType
  <2>2. robots \in [1..Len(Roster) -> Robot]
    BY <1>1, <2>1 DEF Init
  <2> QED
    BY <1>1, <2>2, SeqOf
<1>4. bases \in Bases
  BY WorldAssumption DEF Init, Bases, Job
<1>5. nextID \in Nat \ {0}
  BY <1>1 DEF Init
<1>6. lying \in Lying /\ events \in Seq(Event) /\ commands \in 0..MaxCommands /\ tick \in 0..Duration
  BY WorldAssumption, EmptySeq DEF Init, Lying
<1> QED
  BY <1>3, <1>4, <1>5, <1>6 DEF Init, TypeOK, TickInv, Lying, Bases, Event

\* Every variable of the world keeps its type: above all, a robot is always on
\* the map, its weapons' clocks and its health never run below zero, and a base
\* that assembles has a blueprint and time left.
THEOREM WorldTypeCorrect == Spec => []TypeOK
<1>1. TypeOK /\ TickInv /\ [Next]_vars => (TypeOK /\ TickInv)'
  BY TypeStep
<1> QED
  BY <1>1, TypeInit, PTL DEF Spec

\* A wreck does nothing more, whatever its program would have picked: the turn of a
\* robot that was shot to pieces in this tick passes it over.
THEOREM WrecksAreInert == Spec => WreckIsInert
<1>1. TypeOK /\ [Next]_vars => [InTurn /\ IsDestroyed(Me) => UNCHANGED <<robots, lying, bases, events>>]_vars
  <2> SUFFICES ASSUME TypeOK, Next, InTurn, IsDestroyed(Me)
               PROVE  UNCHANGED <<robots, lying, bases, events>>
    BY DEF vars
  <2>1. phase = "turns" /\ turn <= Len(robots)
    BY DEF InTurn
  <2>2. CASE WreckTurn
    BY <2>2 DEF WreckTurn, Becomes, Me, TypeOK
  <2> QED
    BY <2>1, <2>2 DEF Next, Begin, Turns, BusyTurn, RecallTurn, Primary, Wait, MoveForward, MoveTo,
      Attack, PickUp, Deposit, Drop, Decides, EndTurns, Sweep, Salvage, EndSweep, Produce, InBases,
      Assemble, Release, StartJob, Stall, EndTick, Recall, Reprogram, Command
<1> QED
  BY <1>1, WorldTypeCorrect, PTL DEF Spec, WreckIsInert

-----------------------------------------------------------------------------
(* The losses. *)

\* What makes the losses told once: ids are given out in order and never again, the
\* losses of the tick are of robots that existed, and no wreck outlives the sweep.
LossInv ==
  /\ \A i, j \in DOMAIN robots : i < j => robots[i].id < robots[j].id
  /\ \A i \in DOMAIN robots : robots[i].id \in 1..nextID - 1
  /\ \A k \in DOMAIN events : events[k].kind = "loss" => events[k].of < nextID
  /\ phase \in {"rest", "bases"} => Wrecks = {}
  /\ LossesAreTold

\* A tick that tells nothing, or something that is no loss, leaves the losses told
\* as they were.
LEMMA SameLosses ==
  ASSUME TypeOK, NEW e \in Event, e.kind # "loss",
         events' = events \/ events' = Append(events, e)
  PROVE  /\ \A id \in Nat : LossesIn(events', id) = LossesIn(events, id)
         /\ \A k \in (DOMAIN events)' : events'[k].kind = "loss" =>
              k \in DOMAIN events /\ events'[k] = events[k]
<1>1. events \in Seq(Event) /\ Len(events) \in Nat /\ DOMAIN events = 1..Len(events)
  BY LenProperties DEF TypeOK, Event
<1>2. CASE events' = events
  BY <1>2 DEF LossesIn
<1>3. CASE events' = Append(events, e)
  <2>1. /\ DOMAIN events' = 1..Len(events) + 1
        /\ \A k \in 1..Len(events) : events'[k] = events[k]
        /\ events'[Len(events) + 1] = e
    BY <1>1, <1>3, AppendProperties
  <2> QED
    BY <1>1, <2>1 DEF LossesIn
<1> QED
  BY <1>2, <1>3

\* A step after which the robots are who and as healthy as before, and which tells
\* no loss, keeps the invariant.
LEMMA QuietStep ==
  ASSUME TypeOK, LossInv, NEW e \in Event, e.kind # "loss",
         events' = events \/ events' = Append(events, e),
         DOMAIN robots' = DOMAIN robots,
         \A k \in DOMAIN robots : robots'[k].id = robots[k].id /\ robots'[k].health = robots[k].health,
         nextID' = nextID,
         phase' \in {"rest", "bases"} => Wrecks = {}
  PROVE  LossInv'
<1>1. \A id \in Nat : LossesIn(events', id) = LossesIn(events, id)
  BY SameLosses
<1>2. \A k \in (DOMAIN events)' : events'[k].kind = "loss" => events'[k].of < nextID'
  BY SameLosses DEF LossInv
<1>3. Wrecks' = Wrecks
  BY DEF Wrecks, IsDestroyed
<1>4. \A i \in DOMAIN robots : robots[i].id \in Nat
  BY DEF LossInv, TypeOK
<1>5. LossesAreTold'
  <2>1. \A id \in 1..nextID - 1 : id \in Nat
    BY DEF TypeOK
  <2> QED
    BY <1>1, <1>4, <2>1 DEF LossInv, LossesAreTold, IsDestroyed
<1> QED
  BY <1>2, <1>3, <1>5 DEF LossInv

\* Each step keeps the invariant.
LEMMA LossStep ==
  ASSUME TypeOK, TypeOK', LossInv, [Next]_vars
  PROVE  LossInv'
<1> DEFINE nothing == [kind |-> "idle", of |-> 0]
<1>1. nothing \in Event /\ nothing.kind # "loss"
  BY DEF Event
<1> HIDE DEF nothing
<1>2. Len(robots) \in Nat /\ DOMAIN robots = 1..Len(robots)
  BY LenProperties DEF TypeOK
<1>3. ASSUME NEW i \in DOMAIN robots PROVE robots[i].id \in Nat /\ robots[i].health \in Nat
  <2>1. robots[i] \in Robot
    BY <1>2, ElementOfSeq DEF TypeOK
  <2> QED
    BY <2>1 DEF Robot
<1>4. CASE Begin
  <2>1. Wrecks = {} /\ robots' = robots /\ nextID' = nextID /\ phase' = "turns" /\ events' = <<>>
    BY <1>4 DEF Begin, LossInv
  <2>2. DOMAIN events' = {}
    BY <2>1
  <2>3. \A id \in Nat : LossesIn(events', id) = {}
    BY <2>2 DEF LossesIn
  <2>4. \A i \in DOMAIN robots : ~IsDestroyed(robots[i])
    BY <2>1 DEF Wrecks
  <2>5. LossesAreTold'
    <3>1. \A id \in 1..nextID - 1 : id \in Nat
      BY DEF TypeOK
    <3> QED
      BY <1>3, <2>1, <2>3, <2>4, <3>1 DEF LossesAreTold
  <2> QED
    BY <2>1, <2>2, <2>5 DEF LossInv
<1>5. CASE Turns /\ ~Attack
  <2>1. [kind |-> "deposit", of |-> Me.id] \in Event
    <3>1. Me \in Robot
      BY <1>5, QuietTurn, MeType
    <3> QED
      BY <3>1 DEF Event, Robot
  <2>2. phase' = "turns"
    BY <1>5, QuietTurnType
  <2> QED
    BY <1>5, <2>1, <2>2, QuietTurnType, QuietStep
<1>6. CASE Attack
  <2>1. PICK j \in DOMAIN robots :
          /\ DOMAIN robots' = DOMAIN robots
          /\ ~IsDestroyed(robots[j])
          /\ \A i \in DOMAIN robots : robots'[i].id = robots[i].id
          /\ \A i \in DOMAIN robots : i # j => robots'[i].health = robots[i].health
          /\ events' = IF robots'[j].health = 0
                       THEN Append(events, [kind |-> "loss", of |-> robots[j].id])
                       ELSE events
    BY <1>6, OneShot
  <2>2. phase' = "turns" /\ nextID' = nextID
    BY <1>6, OneShot DEF InTurn
  <2>3. CASE robots'[j].health # 0
    <3>1. \A id \in Nat : LossesIn(events', id) = LossesIn(events, id)
      BY <2>1, <2>3 DEF LossesIn
    <3>2. LossesAreTold'
      <4>1. \A id \in 1..nextID - 1 : id \in Nat
        BY DEF TypeOK
      <4> QED
        BY <1>3, <2>1, <2>2, <2>3, <3>1, <4>1 DEF LossInv, LossesAreTold, IsDestroyed
    <3> QED
      BY <2>1, <2>2, <2>3, <3>2 DEF LossInv
  <2>4. CASE robots'[j].health = 0
    <3> DEFINE loss == [kind |-> "loss", of |-> robots[j].id]
    <3>1. loss \in Event /\ events \in Seq(Event) /\ Len(events) \in Nat
      BY <1>3, LenProperties DEF Event, TypeOK
    <3>2. loss.kind = "loss" /\ loss.of = robots[j].id /\ events' = Append(events, loss)
      BY <2>1, <2>4
    <3>3. /\ DOMAIN events' = 1..Len(events) + 1 /\ DOMAIN events = 1..Len(events)
          /\ \A k \in 1..Len(events) : events'[k] = events[k]
          /\ events'[Len(events) + 1] = loss
      BY <3>1, <3>2, AppendProperties, LenProperties
    <3>4. LossesIn(events', robots[j].id) = {Len(events) + 1}
      <4>1. LossesIn(events, robots[j].id) = {}
        BY <2>1 DEF LossInv, LossesAreTold
      <4>2. \A k \in 1..Len(events) : events[k] # loss
        BY <3>3, <4>1 DEF LossesIn
      <4>3. LossesIn(events', robots[j].id) = {k \in 1..Len(events) + 1 : events'[k] = loss}
        BY <2>1, <3>3 DEF LossesIn
      <4> QED
        BY <3>1, <3>3, <4>2, <4>3
    <3>5. \A id \in Nat : id # robots[j].id => LossesIn(events', id) = LossesIn(events, id)
      <4>1. \A id \in Nat : id # robots[j].id => loss # [kind |-> "loss", of |-> id]
        BY <3>2
      <4> HIDE DEF loss
      <4> QED
        BY <3>1, <3>3, <4>1 DEF LossesIn
    <3>6. \A i \in DOMAIN robots : i # j => robots[i].id # robots[j].id
      BY <1>2, <1>3, <2>1 DEF LossInv
    <3>7. LossesAreTold'
      <4>1. ASSUME NEW id \in 1..nextID - 1 PROVE \A k, l \in LossesIn(events', id) : k = l
        <5>1. id \in Nat
          BY DEF TypeOK
        <5> QED
          BY <3>4, <3>5, <5>1 DEF LossInv, LossesAreTold
      <4>2. ASSUME NEW i \in DOMAIN robots
            PROVE  LossesIn(events', robots[i].id) # {} <=> robots'[i].health = 0
        BY <1>3, <2>1, <2>4, <3>4, <3>5, <3>6 DEF LossInv, LossesAreTold, IsDestroyed
      <4> QED
        BY <2>1, <2>2, <4>1, <4>2 DEF LossesAreTold, IsDestroyed
    <3>8. \A k \in DOMAIN events' : events'[k].kind = "loss" => events'[k].of < nextID'
      BY <2>1, <2>2, <3>2, <3>3 DEF LossInv, TypeOK
    <3> QED
      BY <2>1, <2>2, <3>7, <3>8 DEF LossInv
  <2> QED
    BY <2>3, <2>4
<1>7. CASE EndTurns
  BY <1>1, <1>7, QuietStep DEF EndTurns
<1>8. CASE EndSweep
  BY <1>1, <1>8, QuietStep DEF EndSweep
<1>9. CASE EndTick
  BY <1>1, <1>9, QuietStep DEF EndTick, LossInv
<1>10. ASSUME NEW i \in DOMAIN robots, Recall(i) \/ Reprogram(i) PROVE LossInv'
  <2>1. phase \in {"rest", "bases"} /\ phase' = phase
    BY <1>10, CommandType
  <2> QED
    BY <1>1, <1>10, <2>1, CommandType, QuietStep DEF LossInv
<1>11. CASE Sweep
  <2> DEFINE w == Min(Wrecks)
  <2>1. w \in DOMAIN robots
    BY <1>11, FirstWreck DEF Sweep, Salvage
  <2>2. robots' = Without(robots, w) /\ phase' = "sweep" /\ UNCHANGED <<events, nextID>>
    BY <1>11 DEF Sweep, Salvage
  <2> HIDE DEF w
  <2> DEFINE old(k) == IF k < w THEN k ELSE k + 1
  <2>3. /\ DOMAIN robots' = 1..Len(robots) - 1
        /\ \A k \in DOMAIN robots' : old(k) \in DOMAIN robots /\ robots'[k] = robots[old(k)]
    BY <1>2, <2>1, <2>2 DEF Without
  <2>4. \A k, l \in DOMAIN robots' : k < l => old(k) < old(l)
    BY <1>2, <2>1, <2>3
  <2>5. \A id \in Nat : LossesIn(events', id) = LossesIn(events, id)
    BY <2>2 DEF LossesIn
  <2> HIDE DEF old
  <2>6. LossesAreTold'
    <3>1. \A id \in 1..nextID - 1 : id \in Nat
      BY DEF TypeOK
    <3> QED
      BY <1>3, <2>2, <2>3, <2>5, <3>1 DEF LossInv, LossesAreTold
  <2> QED
    BY <2>2, <2>3, <2>4, <2>6 DEF LossInv
<1>12. CASE Produce /\ ~Release
  <2>1. phase = "bases" /\ phase' = phase
    BY <1>12 DEF Produce, InBases, Assemble, StartJob, Stall, BaseBecomes
  <2>2. [kind |-> "idle", of |-> turn] \in Event
    BY DEF Event, TypeOK
  <2>3. UNCHANGED <<robots, nextID>> /\ (events' = events \/ events' = Append(events, [kind |-> "idle", of |-> turn]))
    BY <1>12 DEF Produce, Assemble, StartJob, Stall
  <2> QED
    BY <2>1, <2>2, <2>3, QuietStep DEF LossInv
<1>13. CASE Release
  <2> DEFINE new == NewRobot(nextID, turn, Base.job.bp)
             built == [kind |-> "build", of |-> nextID]
  <2>1. robots' = Append(robots, new) /\ events' = Append(events, built) /\ nextID' = nextID + 1
        /\ phase' = phase /\ phase = "bases"
    BY <1>13 DEF Release, BaseBecomes, InBases
  <2>2. built \in Event /\ built.kind # "loss"
    BY DEF Event, TypeOK
  <2>3. new.id = nextID
    BY DEF NewRobot
  <2> HIDE DEF new, built
  <2>4. /\ DOMAIN robots' = 1..Len(robots) + 1
        /\ \A i \in DOMAIN robots : robots'[i] = robots[i]
        /\ robots'[Len(robots) + 1] = new
    BY <1>2, <2>1 DEF TypeOK
  <2>5. ~IsDestroyed(new)
    <3>1. turn \in Colonies
      BY <1>13, WorldAssumption DEF Release, InBases, TypeOK, Colonies
    <3>2. Base.job.bp \in Blueprints
      <4>1. Base.job \in Job
        BY <3>1 DEF Base, TypeOK
      <4> QED
        BY <1>13, <4>1 DEF Release, Job, NoJob
    <3> QED
      BY <3>1, <3>2, NewRobotType DEF new, IsDestroyed, TypeOK
  <2>6. \A id \in Nat : LossesIn(events', id) = LossesIn(events, id)
    BY <2>1, <2>2, SameLosses
  <2>7. LossesIn(events, nextID) = {}
    <3> SUFFICES ASSUME NEW k \in DOMAIN events, events[k] = [kind |-> "loss", of |-> nextID]
                 PROVE  FALSE
      BY DEF LossesIn
    <3>1. events[k].kind = "loss" /\ events[k].of = nextID
      OBVIOUS
    <3>2. events[k].of < nextID
      BY <3>1 DEF LossInv
    <3>3. nextID \in Nat
      BY DEF TypeOK
    <3> QED
      BY <3>1, <3>2, <3>3
  <2>8. LossesAreTold'
    <3>1. ASSUME NEW id \in 1..nextID' - 1 PROVE \A k, l \in LossesIn(events', id) : k = l
      <4>1. id \in Nat /\ (id = nextID \/ id \in 1..nextID - 1)
        BY <2>1 DEF TypeOK
      <4> QED
        BY <2>6, <2>7, <4>1 DEF LossInv, LossesAreTold
    <3>2. ASSUME NEW i \in DOMAIN robots' PROVE LossesIn(events', robots'[i].id) # {} <=> IsDestroyed(robots'[i])
      <4>1. CASE i \in DOMAIN robots
        BY <1>3, <2>4, <2>6, <4>1 DEF LossInv, LossesAreTold
      <4>2. CASE i = Len(robots) + 1
        BY <2>3, <2>4, <2>5, <2>6, <2>7, <4>2 DEF TypeOK
      <4> QED
        BY <1>2, <2>4, <4>1, <4>2
    <3> QED
      BY <3>1, <3>2 DEF LossesAreTold, LossesIn
  <2>9. Wrecks' = {}
    <3>1. Wrecks = {}
      BY <2>1 DEF LossInv
    <3> QED
      BY <1>2, <2>4, <2>5, <3>1 DEF Wrecks
  <2>10. \A k \in DOMAIN events' : events'[k].kind = "loss" => events'[k].of < nextID'
    <3>1. \A k \in DOMAIN events' : events'[k].kind = "loss" => k \in DOMAIN events /\ events'[k] = events[k]
      BY <2>1, <2>2, SameLosses
    <3>2. ASSUME NEW k \in DOMAIN events PROVE events[k].of \in Nat
      <4>1. events \in Seq(Event) /\ k \in 1..Len(events)
        BY LenProperties DEF TypeOK, Event
      <4>2. events[k] \in Event
        BY <4>1, ElementOfSeq
      <4> QED
        BY <4>2 DEF Event
    <3> QED
      BY <2>1, <3>1, <3>2 DEF LossInv, TypeOK
  <2>11. \A i, j \in DOMAIN robots' : i < j => robots'[i].id < robots'[j].id
    <3>1. ASSUME NEW i \in DOMAIN robots', NEW j \in DOMAIN robots', i < j
          PROVE  robots'[i].id < robots'[j].id
      <4>1. i \in DOMAIN robots /\ robots'[i] = robots[i] /\ robots[i].id < nextID
        BY <1>2, <1>3, <2>4, <3>1 DEF LossInv, TypeOK
      <4>2. CASE j \in DOMAIN robots
        BY <2>4, <3>1, <4>1, <4>2 DEF LossInv
      <4>3. CASE j = Len(robots) + 1
        BY <2>3, <2>4, <4>1, <4>3
      <4> QED
        BY <1>2, <2>4, <4>2, <4>3
    <3> QED
      BY <3>1
  <2>12. \A i \in DOMAIN robots' : robots'[i].id \in 1..nextID' - 1
    BY <1>2, <2>1, <2>3, <2>4 DEF LossInv, TypeOK
  <2> QED
    BY <2>8, <2>9, <2>10, <2>11, <2>12 DEF LossInv
<1>14. CASE UNCHANGED vars
  BY <1>1, <1>14, QuietStep DEF vars, LossInv
<1> QED
  BY <1>4, <1>5, <1>6, <1>7, <1>8, <1>9, <1>10, <1>11, <1>12, <1>13, <1>14 DEF Next, Turns, Primary

\* At the opening nobody is lost and nothing is told.
LEMMA LossInit ==
  ASSUME Init
  PROVE  LossInv
<1>1. Len(Roster) \in Nat /\ DOMAIN Roster = 1..Len(Roster) /\ DOMAIN robots = 1..Len(Roster)
  BY WorldAssumption, LenProperties DEF Init
<1>2. ASSUME NEW i \in DOMAIN robots PROVE robots[i].id = i /\ robots[i].health # 0
  <2>1. Roster[i] \in Colonies \X Blueprints
    BY <1>1, WorldAssumption, ElementOfSeq
  <2> QED
    BY <1>1, <2>1, NewRobotType DEF Init
<1>3. DOMAIN events = {} /\ \A id : LossesIn(events, id) = {}
  BY DEF Init, LossesIn
<1>4. nextID = Len(Roster) + 1
  BY DEF Init
<1> QED
  BY <1>1, <1>2, <1>3, <1>4 DEF LossInv, LossesAreTold, IsDestroyed, Wrecks

\* The timeline tells every loss once, in the tick it happened in, and none that did
\* not happen: in a tick, of as many robots as there are, shot at as often as may be.
THEOREM LossesToldOnce == Spec => []LossesAreTold
<1>1. LossInv /\ TypeOK /\ TypeOK' /\ [Next]_vars => LossInv'
  BY LossStep
<1>2. LossInv => LossesAreTold
  BY DEF LossInv
<1> QED
  BY <1>1, <1>2, LossInit, WorldTypeCorrect, PTL DEF Spec

-----------------------------------------------------------------------------
\* There are finitely many cells and colonies.
LEMMA WorldFinite == IsFiniteSet(Cells) /\ IsFiniteSet(Colonies)
<1>1. IsFiniteSet(Cells)
  <2>1. 0 \in Int /\ Width - 1 \in Int /\ Height - 1 \in Int
    BY WorldAssumption
  <2>2. IsFiniteSet(0..Width - 1) /\ IsFiniteSet(0..Height - 1)
    BY <2>1, FS_Interval
  <2> QED
    BY <2>2, FS_Product DEF Cells
<1>2. IsFiniteSet(Colonies)
  <2>1. Len(Home) \in Nat /\ DOMAIN Home = 1..Len(Home)
    BY WorldAssumption, LenProperties
  <2> QED
    BY <2>1, FS_Interval DEF Colonies
<1> QED
  BY <1>1, <1>2

\* A sequence has finitely many places, of any kind.
LEMMA PlacesFinite ==
  ASSUME NEW S, NEW s \in Seq(S)
  PROVE  IsFiniteSet(DOMAIN s) /\ \A T \in SUBSET DOMAIN s : IsFiniteSet(T) /\ Cardinality(T) \in Nat
<1>1. Len(s) \in Nat /\ DOMAIN s = 1..Len(s)
  BY LenProperties
<1>2. IsFiniteSet(DOMAIN s)
  BY <1>1, FS_Interval
<1> QED
  BY <1>2, FS_Subset, FS_CardinalityType

\* There are finitely many wrecks, before a step and after it.
LEMMA WrecksFinite ==
  /\ TypeOK => IsFiniteSet(Wrecks) /\ Cardinality(Wrecks) \in Nat
  /\ TypeOK' => IsFiniteSet(Wrecks') /\ Cardinality(Wrecks') \in Nat
BY PlacesFinite DEF TypeOK, Wrecks

-----------------------------------------------------------------------------
(* Kills and losses. *)

Kills  == SumFunction([c \in Colonies |-> bases[c].kills])
Losses == SumFunction([c \in Colonies |-> bases[c].losses])

\* What a colony has killed and lost, over all colonies: the sums change by what one
\* colony's count changes by.
LEMMA TalliesChange ==
  ASSUME TypeOK, TypeOK', NEW d \in Colonies,
         \A c \in Colonies \ {d} : bases'[c].kills = bases[c].kills /\ bases'[c].losses = bases[c].losses
  PROVE  /\ Kills \in Int /\ Kills' = Kills - bases[d].kills + bases'[d].kills
         /\ Losses \in Int /\ Losses' = Losses - bases[d].losses + bases'[d].losses
<1> DEFINE k == [c \in Colonies |-> bases[c].kills]
           l == [c \in Colonies |-> bases[c].losses]
           kk == [c \in Colonies |-> bases'[c].kills]
           ll == [c \in Colonies |-> bases'[c].losses]
<1>1. \A c \in Colonies : k[c] \in Int /\ l[c] \in Int /\ kk[c] \in Int /\ ll[c] \in Int
  BY DEF TypeOK
<1>2. \A c \in Colonies \ {d} : kk[c] = k[c] /\ ll[c] = l[c]
  OBVIOUS
<1>3. /\ k[d] = bases[d].kills /\ kk[d] = bases'[d].kills
      /\ l[d] = bases[d].losses /\ ll[d] = bases'[d].losses
  OBVIOUS
<1>4. /\ Kills = SumFunctionOnSet(k, Colonies) /\ Losses = SumFunctionOnSet(l, Colonies)
      /\ Kills' = SumFunctionOnSet(kk, Colonies) /\ Losses' = SumFunctionOnSet(ll, Colonies)
  BY DEF Kills, Losses, SumFunction
<1> HIDE DEF k, l, kk, ll
<1>5. IsFiniteSet(Colonies)
  BY WorldFinite
<1>6. SumFunctionOnSet(k, Colonies) \in Int /\ SumFunctionOnSet(l, Colonies) \in Int
  BY <1>1, <1>5, SumType
<1>7. SumFunctionOnSet(kk, Colonies) = SumFunctionOnSet(k, Colonies) - k[d] + kk[d]
  BY <1>1, <1>2, <1>5, SumChange
<1>8. SumFunctionOnSet(ll, Colonies) = SumFunctionOnSet(l, Colonies) - l[d] + ll[d]
  BY <1>1, <1>2, <1>5, SumChange
<1> QED
  BY <1>3, <1>4, <1>6, <1>7, <1>8

\* Nothing but a shot and the sweep counts a kill or a loss.
LEMMA SameTallies ==
  ASSUME TypeOK, [Next]_vars, ~Attack, ~Sweep
  PROVE  \A c \in Colonies : bases'[c].kills = bases[c].kills /\ bases'[c].losses = bases[c].losses
<1>1. CASE Deposit
  <2>1. bases' = [bases EXCEPT ![Me.colony].inventory[Me.cargo] = @ + 1]
    BY <1>1 DEF Deposit
  <2>2. bases \in Bases
    BY DEF TypeOK, Bases
  <2> QED
    BY <2>1, <2>2 DEF Bases
<1>2. CASE Produce
  <2>1. turn \in Colonies
    <3>1. InBases
      BY <1>2 DEF Produce, Assemble, Release, StartJob, Stall
    <3> QED
      BY <3>1, WorldAssumption DEF InBases, TypeOK, Colonies
  <2>2. bases \in Bases
    BY DEF TypeOK, Bases
  <2>3. \E b : bases' = [bases EXCEPT ![turn] = b] /\ b.kills = Base.kills /\ b.losses = Base.losses
    <3>1. Base \in [inventory : [Variants -> Nat], job : Job, stalled : BOOLEAN,
                    kills : Nat, losses : Nat]
      BY <2>1, <2>2 DEF Bases, Base
    <3>2. CASE Assemble
      <4> DEFINE b == [Base EXCEPT !.stalled = FALSE, !.job.ticks = @ - 1]
      <4>1. b.kills = Base.kills /\ b.losses = Base.losses
        BY <3>1
      <4>2. bases' = [bases EXCEPT ![turn] = b]
        BY <3>2 DEF Assemble, BaseBecomes
      <4> HIDE DEF b
      <4> QED
        BY <4>1, <4>2
    <3>3. CASE Release
      <4> DEFINE b == Released(Base)
      <4>1. b.kills = Base.kills /\ b.losses = Base.losses
        BY <3>1 DEF Released
      <4>2. bases' = [bases EXCEPT ![turn] = b]
        BY <3>3 DEF Release, BaseBecomes
      <4> HIDE DEF b
      <4> QED
        BY <4>1, <4>2
    <3>4. CASE StartJob
      <4>1. PICK d \in Buildable :
              bases' = [bases EXCEPT ![turn] = [Base EXCEPT !.stalled = FALSE, !.inventory = Less(@, d),
                                                  !.job = [bp |-> d, ticks |-> BuildTicks[d]]]]
        BY <3>4 DEF StartJob, BaseBecomes
      <4> DEFINE b == [Base EXCEPT !.stalled = FALSE, !.inventory = Less(@, d),
                                   !.job = [bp |-> d, ticks |-> BuildTicks[d]]]
      <4>2. b.kills = Base.kills /\ b.losses = Base.losses
        BY <3>1
      <4>3. bases' = [bases EXCEPT ![turn] = b]
        BY <4>1
      <4> HIDE DEF b
      <4> QED
        BY <4>2, <4>3
    <3>5. CASE Stall
      BY <3>1, <3>5 DEF Stall, BaseBecomes
    <3> QED
      BY <1>2, <3>2, <3>3, <3>4, <3>5 DEF Produce
  <2> QED
    BY <2>1, <2>2, <2>3 DEF Bases, Base
<1>3. CASE ~Deposit /\ ~Produce
  <2>1. bases' = bases
    BY <1>3 DEF Next, vars, Begin, Turns, WreckTurn, BusyTurn, RecallTurn, Walk, Primary, Wait,
         MoveForward, MoveTo, PickUp, Drop, EndTurns, EndSweep, EndTick, Recall, Reprogram, Command
  <2> QED
    BY <2>1
<1> QED
  BY <1>1, <1>2, <1>3

\* The robots but one, in order, are the others of the sequence, one for one.
LEMMA WithoutBijects ==
  ASSUME NEW S, NEW s \in Seq(S), NEW w \in DOMAIN s
  PROVE  \E b \in Bijection(DOMAIN Without(s, w), DOMAIN s \ {w}) :
            \A k \in DOMAIN Without(s, w) : Without(s, w)[k] = s[b[k]]
<1> DEFINE t == Without(s, w)
           b == [k \in DOMAIN t |-> IF k < w THEN k ELSE k + 1]
<1>1. Len(s) \in Nat /\ DOMAIN s = 1..Len(s)
  BY LenProperties
<1>2. DOMAIN t = 1..Len(s) - 1 /\ \A k \in DOMAIN t : t[k] = IF k < w THEN s[k] ELSE s[k + 1]
  BY DEF Without
<1> HIDE DEF t
<1>3. b \in [DOMAIN t -> DOMAIN s \ {w}]
  BY <1>1, <1>2
<1>4. \A k, l \in DOMAIN t : b[k] = b[l] => k = l
  BY <1>1, <1>2
<1>5. ASSUME NEW m \in DOMAIN s \ {w} PROVE \E k \in DOMAIN t : b[k] = m
  <2>1. CASE m < w
    BY <1>1, <1>2, <2>1
  <2>2. CASE m > w
    <3>1. m - 1 \in DOMAIN t /\ ~(m - 1 < w)
      BY <1>1, <1>2, <2>2
    <3>2. b[m - 1] = m
      BY <1>1, <3>1
    <3> QED
      BY <3>1, <3>2
  <2> QED
    BY <1>1, <2>1, <2>2
<1>6. b \in Bijection(DOMAIN t, DOMAIN s \ {w})
  BY <1>3, <1>4, <1>5 DEF Bijection, Injection, Surjection, IsInjective
<1>7. \A k \in DOMAIN t : t[k] = s[b[k]]
  BY <1>2
<1> HIDE DEF b
<1> QED
  BY <1>6, <1>7 DEF t

\* One wreck fewer after each is swept.
LEMMA SweptOne ==
  ASSUME TypeOK, TypeOK', Sweep
  PROVE  Cardinality(Wrecks') = Cardinality(Wrecks) - 1
<1> DEFINE w == Min(Wrecks)
<1>1. w \in DOMAIN robots /\ w \in Wrecks /\ robots' = Without(robots, w) /\ robots \in Seq(Robot)
  BY FirstWreck DEF Sweep, Salvage, TypeOK, Wrecks
<1> HIDE DEF w
<1>2. PICK b \in Bijection(DOMAIN robots', DOMAIN robots \ {w}) :
             \A k \in DOMAIN robots' : robots'[k] = robots[b[k]]
  BY <1>1, WithoutBijects
<1>3. /\ b \in [DOMAIN robots' -> DOMAIN robots \ {w}]
      /\ \A k, l \in DOMAIN robots' : b[k] = b[l] => k = l
      /\ \A m \in DOMAIN robots \ {w} : \E k \in DOMAIN robots' : b[k] = m
  BY DEF Bijection, Injection, Surjection, IsInjective
<1> DEFINE f == [k \in Wrecks' |-> b[k]]
<1>4. Wrecks' = {k \in DOMAIN robots' : IsDestroyed(robots'[k])}
  BY DEF Wrecks
<1>5. f \in Bijection(Wrecks', Wrecks \ {w})
  <2>1. f \in [Wrecks' -> Wrecks \ {w}]
    BY <1>2, <1>3, <1>4 DEF Wrecks
  <2>2. \A k, l \in Wrecks' : f[k] = f[l] => k = l
    BY <1>3, <1>4
  <2>3. ASSUME NEW m \in Wrecks \ {w} PROVE \E k \in Wrecks' : f[k] = m
    <3>1. m \in DOMAIN robots \ {w} /\ IsDestroyed(robots[m])
      BY DEF Wrecks
    <3>2. PICK k \in DOMAIN robots' : b[k] = m
      BY <1>3, <3>1
    <3> QED
      BY <1>2, <1>4, <3>1, <3>2
  <2> QED
    BY <2>1, <2>2, <2>3 DEF Bijection, Injection, Surjection, IsInjective
<1> HIDE DEF f
<1>6. Cardinality(Wrecks \ {w}) = Cardinality(Wrecks) - 1
  BY <1>1, WrecksFinite, FS_RemoveElement
<1>7. ExistsBijection(Wrecks', Wrecks \ {w})
  BY <1>5 DEF ExistsBijection
<1> QED
  BY <1>6, <1>7, WrecksFinite, FS_Bijection

\* Each step keeps the account of kills and losses.
LEMMA KillStep ==
  ASSUME TypeOK, TypeOK', LossInv, LossInv', KillsAreLosses, [Next]_vars
  PROVE  KillsAreLosses'
<1> USE DEF KillsAreLosses
<1>1. Kills = Losses + Cardinality(Wrecks)
  BY DEF Kills, Losses
<1>2. SUFFICES Kills' = Losses' + Cardinality(Wrecks')
  BY DEF Kills, Losses
<1>3. Cardinality(Wrecks) \in Nat /\ Cardinality(Wrecks') \in Nat
  BY WrecksFinite
<1>5. CASE Attack
  <2>1. PICK j \in DOMAIN robots :
          /\ robots' \in Seq(Robot) /\ DOMAIN robots' = DOMAIN robots
          /\ ~IsDestroyed(robots[j])
          /\ \A i \in DOMAIN robots : i # j => robots'[i].health = robots[i].health
          /\ IF robots'[j].health = 0
             THEN \E d \in Colonies : bases' = [bases EXCEPT ![d].kills = @ + 1]
             ELSE bases' = bases
    BY <1>5, OneShot
  <2>2. CASE robots'[j].health = 0
    <3>1. PICK d \in Colonies : bases' = [bases EXCEPT ![d].kills = @ + 1]
      BY <2>1, <2>2
    <3>2. bases \in Bases
      BY DEF TypeOK, Bases
    <3>3. \A c \in Colonies \ {d} : bases'[c].kills = bases[c].kills /\ bases'[c].losses = bases[c].losses
      BY <3>1, <3>2 DEF Bases
    <3>4. bases'[d].kills = bases[d].kills + 1 /\ bases'[d].losses = bases[d].losses
      BY <3>1, <3>2 DEF Bases
    <3>5. Kills' = Kills + 1 /\ Losses' = Losses /\ Kills \in Int /\ Losses \in Int
      <4>1. bases[d].kills \in Int /\ bases[d].losses \in Int
        BY <3>2 DEF Bases
      <4> QED
        BY <3>3, <3>4, <4>1, TalliesChange
    <3>6. Wrecks' = Wrecks \cup {j} /\ j \notin Wrecks
      BY <2>1, <2>2 DEF Wrecks, IsDestroyed
    <3>7. Cardinality(Wrecks') = Cardinality(Wrecks) + 1
      BY <3>6, WrecksFinite, FS_AddElement
    <3> QED
      BY <1>1, <1>3, <3>5, <3>7
  <2>3. CASE robots'[j].health # 0
    <3>1. bases' = bases
      BY <2>1, <2>3
    <3>2. Wrecks' = Wrecks
      BY <2>1, <2>3 DEF Wrecks, IsDestroyed
    <3> QED
      BY <1>1, <3>1, <3>2 DEF Kills, Losses
  <2> QED
    BY <2>2, <2>3
<1>6. CASE Sweep
  <2>1. PICK d \in Colonies : bases' = [bases EXCEPT ![d].losses = @ + 1]
    <3>1. Min(Wrecks) \in DOMAIN robots /\ bases' = [bases EXCEPT ![robots[Min(Wrecks)].colony].losses = @ + 1]
      BY <1>6, FirstWreck DEF Sweep, Salvage
    <3>2. robots[Min(Wrecks)] \in Robot
      BY <3>1, ElementOfSeq DEF TypeOK
    <3> QED
      BY <3>1, <3>2 DEF Robot
  <2>2. bases \in Bases
    BY DEF TypeOK, Bases
  <2>3. \A c \in Colonies \ {d} : bases'[c].kills = bases[c].kills /\ bases'[c].losses = bases[c].losses
    BY <2>1, <2>2 DEF Bases
  <2>4. bases'[d].losses = bases[d].losses + 1 /\ bases'[d].kills = bases[d].kills
    BY <2>1, <2>2 DEF Bases
  <2>5. Kills' = Kills /\ Losses' = Losses + 1 /\ Kills \in Int /\ Losses \in Int
    <3>1. bases[d].kills \in Int /\ bases[d].losses \in Int
      BY <2>2 DEF Bases
    <3> QED
      BY <2>3, <2>4, <3>1, TalliesChange
  <2>6. Cardinality(Wrecks') = Cardinality(Wrecks) - 1
    BY <1>6, SweptOne
  <2> QED
    BY <1>1, <1>3, <2>5, <2>6
<1>7. CASE ~Attack /\ ~Sweep
  <2>1. \A c \in Colonies : bases'[c].kills = bases[c].kills /\ bases'[c].losses = bases[c].losses
    BY <1>7, SameTallies
  <2>2. Kills' = Kills /\ Losses' = Losses
    <3>1. [c \in Colonies |-> bases'[c].kills] = [c \in Colonies |-> bases[c].kills]
      BY <2>1
    <3>2. [c \in Colonies |-> bases'[c].losses] = [c \in Colonies |-> bases[c].losses]
      BY <2>1
    <3> QED
      BY <3>1, <3>2 DEF Kills, Losses
  <2>3. Wrecks' = Wrecks
    <3>1. CASE Turns
      <4>1. DOMAIN robots' = DOMAIN robots /\ \A k \in DOMAIN robots : robots'[k].health = robots[k].health
        BY <1>7, <3>1, QuietTurnType
      <4> QED
        BY <4>1 DEF Wrecks, IsDestroyed
    <3>2. CASE Release
      <4>1. phase \in {"rest", "bases"} /\ phase' = phase
        BY <3>2 DEF Release, InBases, BaseBecomes
      <4> QED
        BY <4>1 DEF LossInv
    <3>3. ASSUME NEW i \in DOMAIN robots, Recall(i) \/ Reprogram(i) PROVE Wrecks' = Wrecks
      <4>1. DOMAIN robots' = DOMAIN robots /\ \A k \in DOMAIN robots : robots'[k].health = robots[k].health
        BY <3>3, CommandType
      <4> QED
        BY <4>1 DEF Wrecks, IsDestroyed
    <3>4. CASE UNCHANGED robots
      BY <3>4 DEF Wrecks
    <3> QED
      BY <1>7, <3>1, <3>2, <3>3, <3>4
      DEF Next, vars, Begin, EndTurns, EndSweep, Produce, Assemble, StartJob, Stall, EndTick
  <2> QED
    BY <1>1, <2>2, <2>3
<1> QED
  BY <1>5, <1>6, <1>7

\* At the opening nobody has killed or lost.
LEMMA KillInit ==
  ASSUME Init
  PROVE  KillsAreLosses
<1>1. Wrecks = {}
  BY LossInit DEF LossInv, Init
<1> DEFINE z == [c \in Colonies |-> 0]
<1>2. [c \in Colonies |-> bases[c].kills] = z /\ [c \in Colonies |-> bases[c].losses] = z
  BY DEF Init
<1>3. \A c \in Colonies : z[c] = 0
  OBVIOUS
<1>4. DOMAIN z = Colonies
  OBVIOUS
<1> HIDE DEF z
<1>5. SumFunction(z) \in Int
  BY <1>3, <1>4, WorldFinite, SumType DEF SumFunction
<1>6. Cardinality(Wrecks) = 0
  BY <1>1, FS_EmptySet
<1> QED
  BY <1>2, <1>5, <1>6 DEF KillsAreLosses

\* Every kill a colony is credited with is one robot's loss, and the other way
\* round, up to the wrecks the sweep has not come to: however many shots hit the
\* same robot in one tick, one of them is the kill (tick.go attack, match.go sweepDestroyed).
THEOREM KillsAreLossesAlways == Spec => []KillsAreLosses
<1>1. TypeOK /\ TypeOK' /\ LossInv /\ LossInv' /\ KillsAreLosses /\ [Next]_vars => KillsAreLosses'
  BY KillStep
<1>2. LossInv /\ TypeOK /\ TypeOK' /\ [Next]_vars => LossInv'
  BY LossStep
<1> QED
  BY <1>1, <1>2, KillInit, LossInit, WorldTypeCorrect, PTL DEF Spec

-----------------------------------------------------------------------------
(* No component is made or lost. *)

OnGround(v) == SumFunction([c \in Cells |-> lying[c][v]])
Borne(v) == SumFunction([i \in DOMAIN robots |-> InRobot(robots[i], v)])
Stored(v) == SumFunction([c \in Colonies |-> InBase(bases[c], v)])

\* How often a variant occurs among the parts of a blueprint.
LEMMA CountType ==
  ASSUME NEW b \in Blueprints, NEW v
  PROVE  Count(Parts[b], v) \in Nat
BY PartsFinite, FS_Subset, FS_CardinalityType DEF Count

\* What a robot holds of a variant is a number.
LEMMA InRobotType ==
  ASSUME NEW r \in Robot, NEW v
  PROVE  InRobot(r, v) \in Nat
<1>1. r.bp \in Blueprints
  BY DEF Robot
<1> QED
  BY <1>1, CountType DEF InRobot

BaseRow == [inventory : [Variants -> Nat], job : Job, stalled : BOOLEAN, kills : Nat, losses : Nat]

\* What a base holds of a variant is a number.
LEMMA InBaseType ==
  ASSUME NEW b \in BaseRow, NEW v \in Variants
  PROVE  InBase(b, v) \in Nat
<1>1. b.job = NoJob \/ b.job.bp \in Blueprints
  BY DEF BaseRow, Job
<1>2. b.inventory[v] \in Nat
  BY DEF BaseRow
<1> QED
  BY <1>1, <1>2, CountType DEF InBase

\* What lies on the ground changes by what lies on one cell.
LEMMA GroundChange ==
  ASSUME TypeOK, TypeOK', NEW v \in Variants, NEW d \in Cells,
         \A c \in Cells \ {d} : lying'[c][v] = lying[c][v]
  PROVE  OnGround(v) \in Int /\ OnGround(v)' = OnGround(v) - lying[d][v] + lying'[d][v]
<1> DEFINE f == [c \in Cells |-> lying[c][v]]
           g == [c \in Cells |-> lying'[c][v]]
<1>1. \A c \in Cells : f[c] \in Int /\ g[c] \in Int
  BY DEF TypeOK
<1>2. /\ OnGround(v) = SumFunctionOnSet(f, Cells) /\ OnGround(v)' = SumFunctionOnSet(g, Cells)
      /\ \A c \in Cells \ {d} : g[c] = f[c]
      /\ f[d] = lying[d][v] /\ g[d] = lying'[d][v]
  BY DEF OnGround, SumFunction
<1> HIDE DEF f, g
<1> QED
  BY <1>1, <1>2, WorldFinite, SumType, SumChange

\* What the robots hold changes by what one of them holds.
LEMMA RobotsChange ==
  ASSUME TypeOK, TypeOK', NEW v \in Variants, NEW k \in DOMAIN robots, DOMAIN robots' = DOMAIN robots,
         \A i \in DOMAIN robots \ {k} : InRobot(robots'[i], v) = InRobot(robots[i], v)
  PROVE  /\ Borne(v) \in Int
         /\ Borne(v)' = Borne(v) - InRobot(robots[k], v) + InRobot(robots'[k], v)
<1> DEFINE f == [i \in DOMAIN robots |-> InRobot(robots[i], v)]
           g == [i \in DOMAIN robots |-> InRobot(robots'[i], v)]
<1>1. IsFiniteSet(DOMAIN robots) /\ DOMAIN robots = 1..Len(robots) /\ DOMAIN robots' = 1..Len(robots')
  BY PlacesFinite, LenProperties DEF TypeOK
<1>2. \A i \in DOMAIN robots : robots[i] \in Robot /\ robots'[i] \in Robot
  BY <1>1, ElementOfSeq DEF TypeOK
<1>3. \A i \in DOMAIN robots : f[i] \in Int /\ g[i] \in Int
  BY <1>2, InRobotType
<1>4. /\ Borne(v) = SumFunctionOnSet(f, DOMAIN robots)
      /\ Borne(v)' = SumFunctionOnSet(g, DOMAIN robots)
      /\ \A i \in DOMAIN robots \ {k} : g[i] = f[i]
      /\ f[k] = InRobot(robots[k], v) /\ g[k] = InRobot(robots'[k], v)
  BY DEF Borne, SumFunction
<1> HIDE DEF f, g
<1>5. IsFiniteSet(DOMAIN robots)
  BY <1>1
<1>6. SumFunctionOnSet(f, DOMAIN robots) \in Int
  BY <1>3, <1>5, SumType
<1>7. SumFunctionOnSet(g, DOMAIN robots) = SumFunctionOnSet(f, DOMAIN robots) - f[k] + g[k]
  BY <1>3, <1>4, <1>5, SumChange
<1> QED
  BY <1>4, <1>6, <1>7

\* What the bases hold changes by what one of them holds.
LEMMA BasesChange ==
  ASSUME TypeOK, TypeOK', NEW v \in Variants, NEW d \in Colonies,
         \A c \in Colonies \ {d} : bases'[c] = bases[c]
  PROVE  /\ Stored(v) \in Int
         /\ Stored(v)' = Stored(v) - InBase(bases[d], v) + InBase(bases'[d], v)
<1> DEFINE f == [c \in Colonies |-> InBase(bases[c], v)]
           g == [c \in Colonies |-> InBase(bases'[c], v)]
<1>1. \A c \in Colonies : bases[c] \in BaseRow /\ bases'[c] \in BaseRow
  BY DEF TypeOK, BaseRow
<1>2. \A c \in Colonies : f[c] \in Int /\ g[c] \in Int
  BY <1>1, InBaseType
<1>3. /\ Stored(v) = SumFunctionOnSet(f, Colonies) /\ Stored(v)' = SumFunctionOnSet(g, Colonies)
      /\ \A c \in Colonies \ {d} : g[c] = f[c]
      /\ f[d] = InBase(bases[d], v) /\ g[d] = InBase(bases'[d], v)
  BY DEF Stored, SumFunction
<1> HIDE DEF f, g
<1> QED
  BY <1>2, <1>3, WorldFinite, SumType, SumChange

\* A robot that is swept takes what it held out of the sum.
LEMMA RobotGone ==
  ASSUME TypeOK, NEW w \in DOMAIN robots, robots' = Without(robots, w), NEW v
  PROVE  Borne(v) \in Int /\ Borne(v)' = Borne(v) - InRobot(robots[w], v)
<1> DEFINE f == [i \in DOMAIN robots |-> InRobot(robots[i], v)]
           g == [i \in DOMAIN robots' |-> InRobot(robots'[i], v)]
           r == DOMAIN robots \ {w}
<1>1. robots \in Seq(Robot)
  BY DEF TypeOK
<1>2. IsFiniteSet(DOMAIN robots) /\ \A i \in DOMAIN robots : f[i] \in Int
  BY <1>1, PlacesFinite, ElementOfSeq, LenProperties, InRobotType
<1>3. PICK b \in Bijection(DOMAIN robots', r) : \A k \in DOMAIN robots' : robots'[k] = robots[b[k]]
  BY <1>1, WithoutBijects
<1>4. b \in [DOMAIN robots' -> r]
  BY DEF Bijection, Injection
<1>5. \A k \in DOMAIN robots' : f[b[k]] = g[k] /\ g[k] \in Int
  BY <1>2, <1>3, <1>4
<1>6. Borne(v) = SumFunctionOnSet(f, DOMAIN robots) /\ Borne(v)' = SumFunctionOnSet(g, DOMAIN robots')
      /\ f[w] = InRobot(robots[w], v)
  BY DEF Borne, SumFunction
<1> HIDE DEF f, g
<1>7. IsFiniteSet(DOMAIN robots')
  <2>1. robots' \in Seq(Robot)
    BY <1>1, WithoutType
  <2> QED
    BY <2>1, PlacesFinite
<1>8. SumFunctionOnSet(f, r) = SumFunctionOnSet(g, DOMAIN robots')
  BY <1>5, <1>7, SumAcross
<1>9. SumFunctionOnSet(f, DOMAIN robots) = f[w] + SumFunctionOnSet(f, r)
  BY <1>2, SumTake
<1>10. SumFunctionOnSet(f, r) \in Int /\ f[w] \in Int
  BY <1>2, FS_Subset, SumType
<1> QED
  BY <1>6, <1>8, <1>9, <1>10

\* A new robot brings in what it is made of.
LEMMA RobotBorn ==
  ASSUME TypeOK, NEW n \in Robot, robots' = Append(robots, n), NEW v
  PROVE  Borne(v) \in Int /\ Borne(v)' = Borne(v) + InRobot(n, v)
<1> DEFINE f == [i \in DOMAIN robots |-> InRobot(robots[i], v)]
           g == [i \in DOMAIN robots' |-> InRobot(robots'[i], v)]
           e == Len(robots) + 1
<1>1. robots \in Seq(Robot) /\ Len(robots) \in Nat /\ DOMAIN robots = 1..Len(robots)
  BY LenProperties DEF TypeOK
<1>2. DOMAIN robots' = DOMAIN robots \cup {e} /\ e \notin DOMAIN robots
      /\ robots'[e] = n /\ \A i \in DOMAIN robots : robots'[i] = robots[i]
  BY <1>1, AppendProperties
<1>3. IsFiniteSet(DOMAIN robots) /\ (\A i \in DOMAIN robots : f[i] \in Int)
      /\ \A i \in DOMAIN robots \cup {e} : g[i] \in Int
  BY <1>1, <1>2, PlacesFinite, ElementOfSeq, InRobotType
<1>4. (\A i \in DOMAIN robots : g[i] = f[i]) /\ g[e] = InRobot(n, v)
  BY <1>2
<1>5. /\ Borne(v) = SumFunctionOnSet(f, DOMAIN robots)
      /\ Borne(v)' = SumFunctionOnSet(g, DOMAIN robots \cup {e})
  BY <1>2 DEF Borne, SumFunction
<1> HIDE DEF f, g, e
<1>6. SumFunctionOnSet(g, DOMAIN robots) = SumFunctionOnSet(f, DOMAIN robots)
  BY <1>3, <1>4, SumSame
<1>7. SumFunctionOnSet(g, DOMAIN robots \cup {e}) = SumFunctionOnSet(g, DOMAIN robots) + g[e]
  BY <1>2, <1>3, SumAdd
<1> QED
  BY <1>3, <1>4, <1>5, <1>6, <1>7, SumType

\* A turn that picks up, puts down and shoots nothing moves no component.
LEMMA EmptyHandedTurn ==
  ASSUME TypeOK, Turns, ~Attack, ~PickUp, ~Deposit, ~Drop
  PROVE  /\ \E r : r.bp = Me.bp /\ r.cargo = Me.cargo /\ robots' = [robots EXCEPT ![turn] = r]
         /\ UNCHANGED <<lying, bases, ledger>>
<1>1. InTurn
  BY DEF Turns, Primary, WreckTurn, BusyTurn, RecallTurn, Wait, MoveForward, MoveTo, Decides
<1>2. Me \in Robot
  BY <1>1, MeType
<1> DEFINE me == Reloaded(Me)
           Same(r) == r.bp = Me.bp /\ r.cargo = Me.cargo
<1>3. me \in Robot /\ Same(me) /\ me.at = Me.at /\ me.cooldown = Me.cooldown
  BY <1>2, ReloadedType
<1> HIDE DEF me
<1>4. \A n \in Nat \ {0} : Same(Charged(me, n))
  BY <1>3, ChargedType
<1>5. \A c \in Cells : Same(Enters(me, c))
  BY <1>3, EntersType
<1>6. Me.bp \in Blueprints /\ Me.colony \in Colonies
  BY <1>2 DEF Robot
<1>7. ASSUME NEW c \in Cells, Walk(me, c)
      PROVE  (\E r : Same(r) /\ Becomes(r)) /\ UNCHANGED <<lying, bases>>
  <2>1. FirstSteps(me.bp, me.at, c) \subseteq Cells
    BY DEF FirstSteps, Neighbours
  <2> QED
    BY <1>4, <1>5, <1>7, <2>1 DEF Walk
<1>8. CASE WreckTurn
  BY <1>8 DEF WreckTurn, Becomes
<1>9. CASE BusyTurn
  <2>1. Same([me EXCEPT !.cooldown = @ - 1])
    BY <1>3 DEF Robot
  <2> QED
    BY <1>9, <2>1 DEF BusyTurn, Becomes, me
<1>10. CASE RecallTurn
  <2>1. CASE AtOwnBase(Me)
    BY <1>4, <1>10, <2>1 DEF RecallTurn, Becomes, me
  <2>2. CASE ~AtOwnBase(Me)
    <3>1. Home[Me.colony] \in Cells
      BY <1>6, WorldAssumption DEF Colonies
    <3> QED
      BY <1>7, <1>10, <2>2, <3>1 DEF RecallTurn, Becomes, me
  <2> QED
    BY <2>1, <2>2
<1>11. CASE Wait
  <2>1. \A n \in {1, TurnTicks[Me.bp], InteractTicks} : n \in Nat \ {0}
    BY <1>6, WorldAssumption
  <2> QED
    BY <1>4, <1>11, <2>1 DEF Wait, Becomes, me
<1>12. CASE MoveForward
  BY <1>5, <1>12 DEF MoveForward, Neighbours, Becomes, me
<1>13. CASE MoveTo
  BY <1>7, <1>13 DEF MoveTo, Becomes, me
<1> QED
  BY <1>8, <1>9, <1>10, <1>11, <1>12, <1>13 DEF Turns, Primary

\* The three sums make the total.
Account(v) == OnGround(v) + Borne(v) + Stored(v)

LEMMA TotalIsAccount ==
  ASSUME NEW v
  PROVE  Total(v) = Account(v) /\ Total(v)' = Account(v)'
BY DEF Total, Account, OnGround, Borne, Stored

\* The sums stay when what they sum does.
LEMMA GroundStays ==
  ASSUME lying' = lying, NEW v
  PROVE  OnGround(v)' = OnGround(v)
BY DEF OnGround

LEMMA BorneStays ==
  ASSUME DOMAIN robots' = DOMAIN robots,
         \A i \in DOMAIN robots : robots'[i].bp = robots[i].bp /\ robots'[i].cargo = robots[i].cargo,
         NEW v
  PROVE  Borne(v)' = Borne(v)
<1>1. [i \in DOMAIN robots' |-> InRobot(robots'[i], v)] = [i \in DOMAIN robots |-> InRobot(robots[i], v)]
  BY DEF InRobot
<1> QED
  BY <1>1 DEF Borne

LEMMA StoredStays ==
  ASSUME \A c \in Colonies : bases'[c].inventory = bases[c].inventory /\ bases'[c].job = bases[c].job,
         NEW v
  PROVE  Stored(v)' = Stored(v)
<1>1. [c \in Colonies |-> InBase(bases'[c], v)] = [c \in Colonies |-> InBase(bases[c], v)]
  BY DEF InBase
<1> QED
  BY <1>1 DEF Stored

\* The sums are numbers.
LEMMA SumsAreNumbers ==
  ASSUME TypeOK, NEW v \in Variants
  PROVE  OnGround(v) \in Int /\ Borne(v) \in Int /\ Stored(v) \in Int
<1>1. OnGround(v) \in Int
  <2> DEFINE f == [c \in Cells |-> lying[c][v]]
  <2>1. \A c \in Cells : f[c] \in Int
    BY DEF TypeOK
  <2>2. OnGround(v) = SumFunctionOnSet(f, Cells)
    BY DEF OnGround, SumFunction
  <2> HIDE DEF f
  <2> QED
    BY <2>1, <2>2, WorldFinite, SumType
<1>2. Borne(v) \in Int
  <2> DEFINE f == [i \in DOMAIN robots |-> InRobot(robots[i], v)]
  <2>1. \A i \in DOMAIN robots : f[i] \in Int
    BY ElementOfSeq, LenProperties, InRobotType DEF TypeOK
  <2>2. Borne(v) = SumFunctionOnSet(f, DOMAIN robots) /\ IsFiniteSet(DOMAIN robots)
    BY PlacesFinite DEF Borne, SumFunction, TypeOK
  <2> HIDE DEF f
  <2> QED
    BY <2>1, <2>2, SumType
<1>3. Stored(v) \in Int
  <2> DEFINE f == [c \in Colonies |-> InBase(bases[c], v)]
  <2>1. \A c \in Colonies : bases[c] \in BaseRow
    BY DEF TypeOK, BaseRow
  <2>2. \A c \in Colonies : f[c] \in Int
    BY <2>1, InBaseType
  <2>3. Stored(v) = SumFunctionOnSet(f, Colonies)
    BY DEF Stored, SumFunction
  <2> HIDE DEF f
  <2> QED
    BY <2>2, <2>3, WorldFinite, SumType
<1> QED
  BY <1>1, <1>2, <1>3

\* A robot that has taken something up, or put it down.
LEMMA Holding ==
  ASSUME TypeOK, InTurn, NEW u \in Variants \cup {NoCargo}
  PROVE  /\ Charged([Reloaded(Me) EXCEPT !.cargo = u], InteractTicks).bp = Me.bp
         /\ Charged([Reloaded(Me) EXCEPT !.cargo = u], InteractTicks).cargo = u
<1> DEFINE r == [Reloaded(Me) EXCEPT !.cargo = u]
<1>1. Reloaded(Me) \in Robot /\ Reloaded(Me).bp = Me.bp
  BY MeType, ReloadedType
<1>2. r \in Robot /\ r.bp = Me.bp /\ r.cargo = u
  BY <1>1 DEF Robot
<1> HIDE DEF r
<1>3. InteractTicks \in Nat \ {0}
  BY WorldAssumption
<1>4. Charged(r, InteractTicks).bp = Me.bp /\ Charged(r, InteractTicks).cargo = u
  BY <1>2, <1>3, ChargedType
<1> QED
  BY <1>4 DEF r

\* Such a turn changes what the robots hold by the difference.
LEMMA HandsChange ==
  ASSUME TypeOK, TypeOK', InTurn, NEW u \in Variants \cup {NoCargo}, NEW v \in Variants,
         Becomes(Charged([Reloaded(Me) EXCEPT !.cargo = u], InteractTicks))
  PROVE  Borne(v)' = Borne(v) - (IF Me.cargo = v THEN 1 ELSE 0) + (IF u = v THEN 1 ELSE 0)
<1> DEFINE r == Charged([Reloaded(Me) EXCEPT !.cargo = u], InteractTicks)
<1>1. r.bp = Me.bp /\ r.cargo = u
  BY Holding
<1>2. robots' = [robots EXCEPT ![turn] = r]
  BY DEF Becomes
<1> HIDE DEF r
<1>3. turn \in DOMAIN robots /\ Me \in Robot /\ Me = robots[turn]
  BY MeType DEF Me
<1>4. DOMAIN robots' = DOMAIN robots /\ robots'[turn] = r /\ \A i \in DOMAIN robots \ {turn} : robots'[i] = robots[i]
  BY <1>2, <1>3
<1>5. Borne(v) \in Int /\ Borne(v)' = Borne(v) - InRobot(Me, v) + InRobot(r, v)
  BY <1>3, <1>4, RobotsChange
<1>6. Count(Parts[Me.bp], v) \in Nat
  BY <1>3, CountType DEF Robot
<1> QED
  BY <1>1, <1>5, <1>6 DEF InRobot

\* Each kind of step keeps the account of one variant.
LEMMA TurnConserves ==
  ASSUME TypeOK, TypeOK', Turns, NEW v \in Variants
  PROVE  Account(v)' = Account(v) /\ ledger' = ledger
<1>0. OnGround(v) \in Int /\ Borne(v) \in Int /\ Stored(v) \in Int
  BY SumsAreNumbers
<1>1. CASE Attack
  <2>1. DOMAIN robots' = DOMAIN robots /\ \A i \in DOMAIN robots : robots'[i].bp = robots[i].bp /\ robots'[i].cargo = robots[i].cargo
    BY <1>1, OneShot
  <2>2. \A c \in Colonies : bases'[c].inventory = bases[c].inventory /\ bases'[c].job = bases[c].job
    <3>1. bases' = bases \/ \E d \in Colonies : bases' = [bases EXCEPT ![d].kills = @ + 1]
      BY <1>1, OneShot
    <3>2. bases \in Bases
      BY DEF TypeOK, Bases
    <3> QED
      BY <3>1, <3>2 DEF Bases
  <2>3. lying' = lying /\ ledger' = ledger
    BY <1>1 DEF Attack
  <2> QED
    BY <2>1, <2>2, <2>3, GroundStays, BorneStays, StoredStays DEF Account
<1>2. CASE PickUp
  <2>1. PICK c \in InReach(Me), u \in Variants :
          /\ lying[c][u] > 0
          /\ lying' = [lying EXCEPT ![c][u] = @ - 1]
          /\ Becomes(Charged([Reloaded(Me) EXCEPT !.cargo = u], InteractTicks))
    BY <1>2 DEF PickUp
  <2>2. InTurn /\ Me.cargo = NoCargo /\ bases' = bases /\ c \in Cells
    BY <1>2 DEF PickUp, Decides, InReach
  <2>3. Borne(v)' = Borne(v) + (IF u = v THEN 1 ELSE 0)
    <3>1. Borne(v)' = Borne(v) - (IF Me.cargo = v THEN 1 ELSE 0) + (IF u = v THEN 1 ELSE 0)
      BY <2>1, <2>2, HandsChange
    <3>2. Me.cargo # v
      BY <2>2, WorldAssumption
    <3> QED
      BY <1>0, <3>1, <3>2
  <2>4. OnGround(v)' = OnGround(v) - (IF u = v THEN 1 ELSE 0)
    <3>1. lying \in [Cells -> [Variants -> Nat]] /\ lying[c][v] \in Nat
      BY <2>2 DEF TypeOK
    <3>2. \A d \in Cells \ {c} : lying'[d][v] = lying[d][v]
      BY <2>1, <2>2, <3>1
    <3>3. lying'[c][v] = lying[c][v] - (IF u = v THEN 1 ELSE 0)
      BY <2>1, <2>2, <3>1
    <3>4. OnGround(v)' = OnGround(v) - lying[c][v] + lying'[c][v]
      BY <2>2, <3>2, GroundChange
    <3> QED
      BY <1>0, <3>1, <3>3, <3>4
  <2>5. Stored(v)' = Stored(v)
    BY <2>2, StoredStays
  <2> QED
    BY <1>0, <2>1, <2>3, <2>4, <2>5 DEF Account, Becomes
<1>3. CASE Deposit
  <2>1. /\ InTurn /\ Me.cargo # NoCargo /\ lying' = lying
        /\ bases' = [bases EXCEPT ![Me.colony].inventory[Me.cargo] = @ + 1]
        /\ Becomes(Charged([Reloaded(Me) EXCEPT !.cargo = NoCargo], InteractTicks))
    BY <1>3 DEF Deposit, Decides
  <2>2. Me.cargo \in Variants /\ Me.colony \in Colonies
    BY <2>1, MeType DEF Robot
  <2>3. Borne(v)' = Borne(v) - (IF Me.cargo = v THEN 1 ELSE 0)
    <3>1. Borne(v)' = Borne(v) - (IF Me.cargo = v THEN 1 ELSE 0) + (IF NoCargo = v THEN 1 ELSE 0)
      BY <2>1, HandsChange
    <3>2. NoCargo # v
      BY WorldAssumption
    <3> QED
      BY <1>0, <3>1, <3>2
  <2>4. Stored(v)' = Stored(v) + (IF Me.cargo = v THEN 1 ELSE 0)
    <3> DEFINE d == Me.colony
    <3>1. bases \in [Colonies -> BaseRow]
      BY DEF TypeOK, BaseRow
    <3>2. \A c \in Colonies \ {d} : bases'[c] = bases[c]
      BY <2>1, <2>2, <3>1
    <3>3. bases'[d].job = bases[d].job /\ bases[d].inventory[v] \in Nat
          /\ bases'[d].inventory[v] = bases[d].inventory[v] + (IF Me.cargo = v THEN 1 ELSE 0)
      BY <2>1, <2>2, <3>1 DEF BaseRow
    <3>4. InBase(bases[d], v) \in Int /\ InBase(bases'[d], v) = InBase(bases[d], v) + (IF Me.cargo = v THEN 1 ELSE 0)
      <4>1. InBase(bases[d], v) \in Int
        BY <2>2, <3>1, InBaseType
      <4>2. bases[d].job = NoJob \/ Count(Parts[bases[d].job.bp], v) \in Nat
        BY <2>2, <3>1, CountType DEF BaseRow, Job
      <4> QED
        BY <3>3, <4>1, <4>2 DEF InBase
    <3> HIDE DEF d
    <3>5. Stored(v)' = Stored(v) - InBase(bases[d], v) + InBase(bases'[d], v)
      BY <2>2, <3>2, BasesChange DEF d
    <3> QED
      BY <1>0, <3>4, <3>5
  <2>5. OnGround(v)' = OnGround(v)
    BY <2>1, GroundStays
  <2> QED
    BY <1>0, <2>1, <2>3, <2>4, <2>5 DEF Account, Becomes
<1>4. CASE Drop
  <2>1. /\ InTurn /\ Me.cargo # NoCargo /\ bases' = bases
        /\ lying' = [lying EXCEPT ![Me.at][Me.cargo] = @ + 1]
        /\ Becomes(Charged([Reloaded(Me) EXCEPT !.cargo = NoCargo], InteractTicks))
    BY <1>4 DEF Drop, Decides
  <2>2. Me.cargo \in Variants /\ Me.at \in Cells
    BY <2>1, MeType DEF Robot
  <2>3. Borne(v)' = Borne(v) - (IF Me.cargo = v THEN 1 ELSE 0)
    <3>1. Borne(v)' = Borne(v) - (IF Me.cargo = v THEN 1 ELSE 0) + (IF NoCargo = v THEN 1 ELSE 0)
      BY <2>1, HandsChange
    <3>2. NoCargo # v
      BY WorldAssumption
    <3> QED
      BY <1>0, <3>1, <3>2
  <2>4. OnGround(v)' = OnGround(v) + (IF Me.cargo = v THEN 1 ELSE 0)
    <3>1. lying \in [Cells -> [Variants -> Nat]] /\ lying[Me.at][v] \in Nat
      BY <2>2 DEF TypeOK
    <3>2. \A d \in Cells \ {Me.at} : lying'[d][v] = lying[d][v]
      BY <2>1, <2>2, <3>1
    <3>3. lying'[Me.at][v] = lying[Me.at][v] + (IF Me.cargo = v THEN 1 ELSE 0)
      BY <2>1, <2>2, <3>1
    <3>4. OnGround(v)' = OnGround(v) - lying[Me.at][v] + lying'[Me.at][v]
      BY <2>2, <3>2, GroundChange
    <3> QED
      BY <1>0, <3>1, <3>3, <3>4
  <2>5. Stored(v)' = Stored(v)
    BY <2>1, StoredStays
  <2> QED
    BY <1>0, <2>1, <2>3, <2>4, <2>5 DEF Account, Becomes
<1>5. CASE ~Attack /\ ~PickUp /\ ~Deposit /\ ~Drop
  <2>1. PICK r : r.bp = Me.bp /\ r.cargo = Me.cargo /\ robots' = [robots EXCEPT ![turn] = r]
    BY <1>5, EmptyHandedTurn
  <2>2. UNCHANGED <<lying, bases, ledger>>
    BY <1>5, EmptyHandedTurn
  <2>3. \A i \in DOMAIN robots : robots'[i].bp = robots[i].bp /\ robots'[i].cargo = robots[i].cargo
    BY <2>1 DEF Me
  <2>4. DOMAIN robots' = DOMAIN robots
    BY <2>1
  <2> QED
    BY <2>2, <2>3, <2>4, GroundStays, BorneStays, StoredStays DEF Account
<1> QED
  BY <1>1, <1>2, <1>3, <1>4, <1>5

\* Salvage puts what it keeps of the wreck on the ground, and its cargo; the rest is gone.
LEMMA SweepConserves ==
  ASSUME TypeOK, TypeOK', Sweep, NEW v \in Variants, ledger[v] = Account(v)
  PROVE  ledger'[v] = Account(v)'
<1> DEFINE w == Min(Wrecks)
           wreck == robots[w]
           parts == Parts[wreck.bp]
<1>0. OnGround(v) \in Int /\ Borne(v) \in Int /\ Stored(v) \in Int
  BY SumsAreNumbers
<1>1. w \in DOMAIN robots /\ robots' = Without(robots, w)
  BY FirstWreck DEF Sweep, Salvage
<1>2. PICK kept \in SUBSET DOMAIN parts \ {{}} :
        /\ lying' = [lying EXCEPT ![wreck.at] =
             [u \in Variants |-> @[u] + Cardinality({k \in kept : parts[k] = u})
                                 + (IF wreck.cargo = u THEN 1 ELSE 0)]]
        /\ ledger' = [u \in Variants |->
             ledger[u] - (Count(parts, u) - Cardinality({k \in kept : parts[k] = u}))]
  BY DEF Sweep, Salvage
<1>3. bases' = [bases EXCEPT ![wreck.colony].losses = @ + 1]
  BY DEF Sweep, Salvage
<1> HIDE DEF w
<1>4. wreck \in Robot
  BY <1>1, ElementOfSeq DEF TypeOK
<1>5. wreck.at \in Cells /\ wreck.bp \in Blueprints /\ wreck.colony \in Colonies
  BY <1>4 DEF Robot
<1> DEFINE n == Cardinality({k \in kept : parts[k] = v})
<1>6. n \in Nat /\ Count(parts, v) \in Nat
  BY <1>5, PartsFinite, CountType, FS_Subset, FS_CardinalityType
<1>7. Borne(v)' = Borne(v) - Count(parts, v) - (IF wreck.cargo = v THEN 1 ELSE 0)
  <2>1. Borne(v)' = Borne(v) - InRobot(wreck, v)
    BY <1>1, RobotGone
  <2> QED
    BY <1>0, <1>6, <2>1 DEF InRobot
<1>8. OnGround(v)' = OnGround(v) + n + (IF wreck.cargo = v THEN 1 ELSE 0)
  <2> DEFINE at == wreck.at
             c == IF wreck.cargo = v THEN 1 ELSE 0
  <2>1. lying \in [Cells -> [Variants -> Nat]] /\ lying[at][v] \in Nat /\ at \in Cells
    BY <1>5 DEF TypeOK
  <2>2. \A d \in Cells \ {at} : lying'[d][v] = lying[d][v]
    BY <1>2, <2>1
  <2>3. lying'[at][v] = lying[at][v] + n + c
    BY <1>2, <2>1
  <2> HIDE DEF n, at
  <2>4. OnGround(v)' = OnGround(v) - lying[at][v] + lying'[at][v]
    BY <2>1, <2>2, GroundChange
  <2> QED
    BY <1>0, <1>6, <2>1, <2>3, <2>4
<1>9. Stored(v)' = Stored(v)
  <2>1. bases \in Bases
    BY DEF TypeOK, Bases
  <2>2. \A c \in Colonies : bases'[c].inventory = bases[c].inventory /\ bases'[c].job = bases[c].job
    BY <1>3, <1>5, <2>1 DEF Bases
  <2> QED
    BY <2>2, StoredStays
<1>10. ledger'[v] = ledger[v] - (Count(parts, v) - n)
  BY <1>2
<1> HIDE DEF n, parts, wreck
<1> QED
  BY <1>0, <1>6, <1>7, <1>8, <1>9, <1>10 DEF Account

\* A base moves components from its inventory to the job, and from there to the robot.
LEMMA ProduceConserves ==
  ASSUME TypeOK, TypeOK', Produce, NEW v \in Variants
  PROVE  Account(v)' = Account(v) /\ ledger' = ledger
<1>0. OnGround(v) \in Int /\ Borne(v) \in Int /\ Stored(v) \in Int
  BY SumsAreNumbers
<1>1. InBases /\ lying' = lying /\ ledger' = ledger
  BY DEF Produce, Assemble, Release, StartJob, Stall, BaseBecomes
<1>2. turn \in Colonies
  BY <1>1, WorldAssumption DEF InBases, TypeOK, Colonies
<1>3. bases \in [Colonies -> BaseRow] /\ Base \in BaseRow /\ Base = bases[turn]
  BY <1>2 DEF TypeOK, BaseRow, Base
<1>4. OnGround(v)' = OnGround(v)
  BY <1>1, GroundStays
<1>5. ASSUME NEW b, BaseBecomes(b)
      PROVE  Stored(v)' = Stored(v) - InBase(Base, v) + InBase(b, v)
  <2>1. bases' = [bases EXCEPT ![turn] = b]
    BY <1>5 DEF BaseBecomes
  <2>2. bases'[turn] = b /\ \A c \in Colonies \ {turn} : bases'[c] = bases[c]
    BY <1>2, <1>3, <2>1
  <2> QED
    BY <1>2, <1>3, <2>2, BasesChange
<1>6. Base.inventory[v] \in Nat /\ InBase(Base, v) \in Nat
      /\ (Base.job = NoJob \/ (Base.job.bp \in Blueprints /\ Count(Parts[Base.job.bp], v) \in Nat))
  BY <1>3, InBaseType, CountType DEF BaseRow, Job
<1>7. ASSUME robots' = robots PROVE Borne(v)' = Borne(v)
  BY <1>7 DEF Borne
<1>8. CASE Assemble
  <2> DEFINE b == [Base EXCEPT !.stalled = FALSE, !.job.ticks = @ - 1]
  <2>1. BaseBecomes(b) /\ robots' = robots /\ Base.job.ticks > 1
    BY <1>8 DEF Assemble
  <2>2. Base.job # NoJob /\ Base.job.ticks \in Nat /\ Base.job \in [bp : Blueprints, ticks : Nat \ {0}]
    BY <1>3, <2>1 DEF BaseRow, Job, NoJob
  <2>3. b.inventory = Base.inventory /\ b.job.bp = Base.job.bp /\ b.job.ticks = Base.job.ticks - 1
    BY <1>3, <2>2 DEF BaseRow
  <2>4. b.job # NoJob
    BY <2>1, <2>2, <2>3 DEF NoJob
  <2> HIDE DEF b
  <2>5. InBase(b, v) = InBase(Base, v)
    BY <2>2, <2>3, <2>4 DEF InBase
  <2>6. Stored(v)' = Stored(v)
    BY <1>0, <1>5, <1>6, <2>1, <2>5
  <2> QED
    BY <1>1, <1>4, <1>7, <2>1, <2>6 DEF Account
<1>9. CASE Release
  <2> DEFINE new == NewRobot(nextID, turn, Base.job.bp)
  <2>1. BaseBecomes(Released(Base)) /\ robots' = Append(robots, new) /\ Base.job.ticks = 1
    BY <1>9 DEF Release
  <2>2. Base.job # NoJob
    BY <2>1 DEF NoJob
  <2>3. new \in Robot /\ new.bp = Base.job.bp /\ new.cargo = NoCargo
    BY <1>2, <1>6, <2>2, NewRobotType DEF NewRobot, TypeOK
  <2>4. Released(Base).inventory = Base.inventory /\ Released(Base).job = NoJob
    BY <1>3 DEF Released, BaseRow
  <2> HIDE DEF new
  <2>5. Stored(v)' = Stored(v) - Count(Parts[Base.job.bp], v)
    <3>1. Stored(v)' = Stored(v) - InBase(Base, v) + InBase(Released(Base), v)
      BY <1>5, <2>1
    <3>2. InBase(Released(Base), v) = Base.inventory[v]
      BY <1>6, <2>4 DEF InBase
    <3>3. InBase(Base, v) = Base.inventory[v] + Count(Parts[Base.job.bp], v)
      BY <2>2 DEF InBase
    <3> QED
      BY <1>0, <1>6, <2>2, <3>1, <3>2, <3>3
  <2>6. Borne(v)' = Borne(v) + Count(Parts[Base.job.bp], v)
    <3>1. Borne(v)' = Borne(v) + InRobot(new, v)
      BY <2>1, <2>3, RobotBorn
    <3>2. v # NoCargo
      BY WorldAssumption
    <3> QED
      BY <1>6, <2>2, <2>3, <3>1, <3>2 DEF InRobot
  <2> QED
    BY <1>0, <1>1, <1>4, <1>6, <2>2, <2>5, <2>6 DEF Account
<1>10. CASE StartJob
  <2>1. PICK d \in Buildable :
          BaseBecomes([Base EXCEPT !.stalled = FALSE, !.inventory = Less(@, d),
                                   !.job = [bp |-> d, ticks |-> BuildTicks[d]]])
    BY <1>10 DEF StartJob
  <2> DEFINE b == [Base EXCEPT !.stalled = FALSE, !.inventory = Less(@, d),
                               !.job = [bp |-> d, ticks |-> BuildTicks[d]]]
  <2>2. d \in Blueprints /\ Covers(Base.inventory, d)
    BY <1>2, WorldAssumption DEF Buildable
  <2>3. Base.job = NoJob /\ robots' = robots
    BY <1>10 DEF StartJob
  <2>4. b.inventory = Less(Base.inventory, d) /\ b.job = [bp |-> d, ticks |-> BuildTicks[d]]
    BY <1>3 DEF BaseRow
  <2>5. BaseBecomes(b)
    BY <2>1
  <2> HIDE DEF b
  <2>6. b.job # NoJob /\ b.job.bp = d
    BY <2>2, <2>4, WorldAssumption DEF NoJob
  <2>7. Count(Parts[d], v) \in Nat /\ Base.inventory[v] >= Count(Parts[d], v)
    BY <2>2, CountType DEF Covers
  <2>8. b.inventory[v] = Base.inventory[v] - Count(Parts[d], v)
    BY <1>6, <2>4, <2>7 DEF Less
  <2>9. InBase(b, v) = InBase(Base, v)
    BY <1>6, <2>3, <2>6, <2>7, <2>8 DEF InBase
  <2>10. Stored(v)' = Stored(v)
    BY <1>0, <1>5, <1>6, <2>5, <2>9
  <2> QED
    BY <1>1, <1>4, <1>7, <2>3, <2>10 DEF Account
<1>11. CASE Stall
  <2> DEFINE b == [Base EXCEPT !.stalled = TRUE]
  <2>1. BaseBecomes(b) /\ robots' = robots
    BY <1>11 DEF Stall
  <2>2. b.inventory = Base.inventory /\ b.job = Base.job
    BY <1>3 DEF BaseRow
  <2> HIDE DEF b
  <2>3. InBase(b, v) = InBase(Base, v)
    BY <2>2 DEF InBase
  <2>4. Stored(v)' = Stored(v)
    BY <1>0, <1>5, <1>6, <2>1, <2>3
  <2> QED
    BY <1>1, <1>4, <1>7, <2>1, <2>4 DEF Account
<1> QED
  BY <1>8, <1>9, <1>10, <1>11 DEF Produce

\* What the match drops at the end of a tick, the ledger counts.
LEMMA EndTickConserves ==
  ASSUME TypeOK, TypeOK', EndTick, NEW v \in Variants, ledger[v] = Account(v)
  PROVE  ledger'[v] = Account(v)'
<1>0. OnGround(v) \in Int /\ Borne(v) \in Int /\ Stored(v) \in Int
  BY SumsAreNumbers
<1>1. Borne(v)' = Borne(v) /\ Stored(v)' = Stored(v)
  BY DEF EndTick, Borne, Stored
<1>2. CASE UNCHANGED <<lying, ledger>>
  BY <1>1, <1>2, GroundStays DEF Account
<1>3. ASSUME NEW c \in Cells, NEW u \in Variants,
             lying' = [lying EXCEPT ![c][u] = @ + 1],
             ledger' = [ledger EXCEPT ![u] = @ + 1]
      PROVE  ledger'[v] = Account(v)'
  <2>1. lying \in [Cells -> [Variants -> Nat]] /\ lying[c][v] \in Nat /\ DOMAIN ledger = Variants
    BY DEF TypeOK
  <2>2. \A d \in Cells \ {c} : lying'[d][v] = lying[d][v]
    BY <1>3, <2>1
  <2>3. lying'[c][v] = lying[c][v] + (IF u = v THEN 1 ELSE 0)
    BY <1>3, <2>1
  <2>4. OnGround(v)' = OnGround(v) - lying[c][v] + lying'[c][v]
    BY <2>2, GroundChange
  <2>5. ledger'[v] = ledger[v] + (IF u = v THEN 1 ELSE 0)
    <3>1. ledger[v] \in Int
      BY <1>0 DEF Account
    <3>2. CASE u = v
      BY <1>3, <2>1, <3>2
    <3>3. CASE u # v
      BY <1>3, <2>1, <3>1, <3>3
    <3> QED
      BY <3>2, <3>3
  <2> QED
    BY <1>0, <1>1, <2>1, <2>3, <2>4, <2>5 DEF Account
<1> QED
  BY <1>2, <1>3 DEF EndTick

\* Each step keeps every component accounted for.
LEMMA ConservationStep ==
  ASSUME TypeOK, TypeOK', Conservation, [Next]_vars
  PROVE  Conservation'
<1>1. ASSUME NEW v \in Variants PROVE Total(v)' = ledger'[v]
  <2>1. ledger[v] = Account(v)
    BY TotalIsAccount DEF Conservation
  <2>2. SUFFICES ledger'[v] = Account(v)'
    BY TotalIsAccount
  <2>3. CASE Turns
    BY <2>1, <2>3, TurnConserves
  <2>4. CASE Sweep
    BY <2>1, <2>4, SweepConserves
  <2>5. CASE Produce
    BY <2>1, <2>5, ProduceConserves
  <2>6. CASE EndTick
    BY <2>1, <2>6, EndTickConserves
  <2>7. ASSUME NEW i \in DOMAIN robots, Recall(i) \/ Reprogram(i)
        PROVE  ledger'[v] = Account(v)'
    <3>1. PICK b \in BOOLEAN : robots' = [robots EXCEPT ![i] = [robots[i] EXCEPT !.recalled = b]]
      BY <2>7 DEF Recall, Reprogram, Command
    <3>2. robots[i] \in Robot
      BY ElementOfSeq, LenProperties DEF TypeOK
    <3>3. DOMAIN robots' = DOMAIN robots
          /\ \A k \in DOMAIN robots : robots'[k].bp = robots[k].bp /\ robots'[k].cargo = robots[k].cargo
      BY <3>1, <3>2 DEF Robot
    <3>4. UNCHANGED <<lying, bases, ledger>>
      BY <2>7, CommandType
    <3> QED
      BY <2>1, <3>3, <3>4, GroundStays, BorneStays, StoredStays DEF Account
  <2>8. CASE UNCHANGED <<robots, lying, bases, ledger>>
    BY <2>1, <2>8 DEF Account, OnGround, Borne, Stored
  <2> QED
    BY <2>3, <2>4, <2>5, <2>6, <2>7, <2>8 DEF Next, vars, Begin, EndTurns, EndSweep
<1> QED
  BY <1>1 DEF Conservation

\* No component is ever made or lost but by the match's own drops and by salvage:
\* picking up, depositing, dropping, reserving, assembling and dying move them, in an
\* arena of any size, with any blueprints and any number of robots and bases.
THEOREM ComponentsAreConserved == Spec => []Conservation
<1>1. Init => Conservation
  BY DEF Init, Conservation
<1>2. TypeOK /\ TypeOK' /\ Conservation /\ [Next]_vars => Conservation'
  BY ConservationStep
<1> QED
  BY <1>1, <1>2, WorldTypeCorrect, PTL DEF Spec

------------------------------------------------------------------------------
(* The way home. *)

\* Where b gets to from s in one move, or stays.
Spread(b, s) == UNION {{c} \cup (Neighbours(c) \cap Enterable[b]) : c \in s}

\* g is where b gets to from a cell in up to n moves.
Spreads(b, from, n, g) ==
  g = [k \in 0..n |-> IF k = 0 THEN {from} ELSE Spread(b, g[k - 1])]

\* Some function is the one the recursion speaks of, however many moves it counts.
LEMMA SpreadsExist ==
  ASSUME NEW b, NEW from
  PROVE  \A n \in Nat : \E g : Spreads(b, from, n, g)
<1> DEFINE F == {n \in Nat : \E g : Spreads(b, from, n, g)}
<1>1. 0 \in F
  <2> DEFINE g == [k \in 0..0 |-> {from}]
  <2>1. Spreads(b, from, 0, g)
    BY DEF Spreads
  <2> QED BY <2>1
<1>2. ASSUME NEW n \in Nat, n \in F PROVE n + 1 \in F
  <2>1. PICK g : Spreads(b, from, n, g)
    BY <1>2
  <2> DEFINE h == [k \in 0..n + 1 |-> IF k <= n THEN g[k] ELSE Spread(b, g[n])]
  <2>2. \A k \in 0..n : g[k] = IF k = 0 THEN {from} ELSE Spread(b, g[k - 1])
    BY <2>1 DEF Spreads
  <2>3. ASSUME NEW k \in 0..n + 1 PROVE h[k] = IF k = 0 THEN {from} ELSE Spread(b, h[k - 1])
    <3>1. CASE k <= n
      <4>1. k = 0 \/ (k - 1 \in 0..n + 1 /\ k - 1 <= n)
        BY <3>1
      <4>2. k \in 0..n
        BY <3>1
      <4> QED BY <2>2, <3>1, <4>1, <4>2
    <3>2. CASE k = n + 1
      <4>1. k - 1 = n /\ n \in 0..n + 1 /\ k # 0 /\ ~(k <= n)
        BY <3>2
      <4> QED BY <4>1
    <3> QED BY <3>1, <3>2
  <2>4. h = [k \in 0..n + 1 |-> h[k]]
    OBVIOUS
  <2> HIDE DEF h
  <2>5. Spreads(b, from, n + 1, h)
    BY <2>3, <2>4 DEF Spreads
  <2> QED BY <2>5
<1> HIDE DEF F
<1>3. \A n \in Nat : n \in F
  BY <1>1, <1>2, NumberInduction
<1> QED BY <1>3 DEF F

\* What path floods, move by move.
LEMMA FloodedIs ==
  ASSUME WorldAssumption, NEW b, NEW from
  PROVE  /\ Cardinality(Cells) \in Nat
         /\ Flooded(b, from)[0] = {from}
         /\ \A n \in Nat : n + 1 <= Cardinality(Cells) =>
              Flooded(b, from)[n + 1] = Spread(b, Flooded(b, from)[n])
<1> DEFINE N == Cardinality(Cells)
<1>1. N \in Nat
  BY WorldFinite, FS_CardinalityType
<1>2. Flooded(b, from) = CHOOSE g : Spreads(b, from, N, g)
  BY DEF Flooded, Spreads, Spread
<1>3. Spreads(b, from, N, Flooded(b, from))
  BY <1>1, <1>2, SpreadsExist
<1> HIDE DEF N
<1>4. \A k \in 0..N : Flooded(b, from)[k] =
        IF k = 0 THEN {from} ELSE Spread(b, Flooded(b, from)[k - 1])
  BY <1>3 DEF Spreads
<1>5. Flooded(b, from)[0] = {from}
  BY <1>1, <1>4
<1>6. ASSUME NEW n \in Nat, n + 1 <= N PROVE Flooded(b, from)[n + 1] = Spread(b, Flooded(b, from)[n])
  <2>1. n + 1 \in 0..N /\ n + 1 # 0 /\ (n + 1) - 1 = n
    BY <1>1, <1>6
  <2> QED BY <1>4, <2>1
<1> QED BY <1>1, <1>5, <1>6 DEF N

\* More moves lead no less far.
LEMMA FloodedGrows ==
  ASSUME WorldAssumption, NEW b, NEW from
  PROVE  \A n \in 0..Cardinality(Cells) : \A m \in 0..n : Flooded(b, from)[m] \subseteq Flooded(b, from)[n]
<1> DEFINE N == Cardinality(Cells)
           f == Flooded(b, from)
           F == {n \in Nat : n <= N => \A m \in 0..n : f[m] \subseteq f[n]}
<1>1. N \in Nat /\ \A n \in Nat : n + 1 <= N => f[n + 1] = Spread(b, f[n])
  BY FloodedIs
<1> HIDE DEF N, f
<1>2. 0 \in F
  OBVIOUS
<1>3. ASSUME NEW n \in Nat, n \in F PROVE n + 1 \in F
  <2>1. n <= N => \A m \in 0..n : f[m] \subseteq f[n]
    BY <1>3
  <2>2. n + 1 \in Nat
    OBVIOUS
  <2> HIDE DEF F
  <2>3. ASSUME n + 1 <= N, NEW m \in 0..n + 1 PROVE f[m] \subseteq f[n + 1]
    <3>1. f[n + 1] = Spread(b, f[n])
      BY <1>1, <2>3
    <3>2. f[n] \subseteq Spread(b, f[n])
      BY DEF Spread
    <3>3. m = n + 1 \/ (m \in 0..n /\ n <= N)
      BY <1>1, <2>3
    <3>4. CASE m \in 0..n /\ n <= N
      <4>1. f[m] \subseteq f[n]
        BY <2>1, <3>4
      <4> QED BY <3>1, <3>2, <4>1
    <3> QED BY <3>3, <3>4
  <2> QED BY <2>2, <2>3 DEF F
<1> HIDE DEF F
<1>4. \A n \in Nat : n \in F
  BY <1>2, <1>3, NumberInduction
<1>5. \A n \in 0..N : n \in Nat /\ n <= N
  BY <1>1
<1> QED BY <1>4, <1>5 DEF F, N, f

\* A way of one move more is a first move and a way from there.
LEMMA FirstMove ==
  ASSUME WorldAssumption, NEW b, NEW from
  PROVE  \A n \in Nat : n + 1 <= Cardinality(Cells) =>
           \A to \in Flooded(b, from)[n + 1] :
             to = from \/ \E h \in Neighbours(from) \cap Enterable[b] : to \in Flooded(b, h)[n]
<1> DEFINE N == Cardinality(Cells)
           f(c) == Flooded(b, c)
           F == {n \in Nat : n + 1 <= N =>
                   \A to \in f(from)[n + 1] :
                     to = from \/ \E h \in Neighbours(from) \cap Enterable[b] : to \in f(h)[n]}
<1>1. N \in Nat /\ \A c : /\ f(c)[0] = {c}
                          /\ \A n \in Nat : n + 1 <= N => f(c)[n + 1] = Spread(b, f(c)[n])
  BY FloodedIs
<1>2. \A c : \A n \in 0..N : c \in f(c)[n]
  <2> TAKE c
  <2> TAKE n \in 0..N
  <2>1. 0 \in 0..n
    BY <1>1
  <2>2. Flooded(b, c)[0] \subseteq Flooded(b, c)[n]
    BY <2>1, FloodedGrows
  <2>3. Flooded(b, c)[0] = {c}
    BY FloodedIs
  <2> QED BY <2>2, <2>3
<1> HIDE DEF N, f
<1>3. 0 \in F
  <2> SUFFICES ASSUME 0 + 1 <= N, NEW to \in f(from)[0 + 1], to # from
               PROVE  \E h \in Neighbours(from) \cap Enterable[b] : to \in f(h)[0]
    OBVIOUS
  <2>1. f(from)[0 + 1] = Spread(b, {from})
    BY <1>1
  <2>2. to \in Neighbours(from) \cap Enterable[b]
    BY <2>1 DEF Spread
  <2> QED BY <1>1, <2>2
<1>4. ASSUME NEW n \in Nat, n \in F PROVE n + 1 \in F
  <2> SUFFICES ASSUME (n + 1) + 1 <= N, NEW to \in f(from)[(n + 1) + 1], to # from
               PROVE  \E h \in Neighbours(from) \cap Enterable[b] : to \in f(h)[n + 1]
    OBVIOUS
  <2>1. n + 1 \in Nat /\ n + 1 <= N /\ n + 1 \in 0..N
    BY <1>1
  <2>2. f(from)[(n + 1) + 1] = Spread(b, f(from)[n + 1])
    BY <1>1, <2>1
  <2>3. PICK c \in f(from)[n + 1] : to = c \/ to \in Neighbours(c) \cap Enterable[b]
    BY <2>2 DEF Spread
  <2>4. c = from \/ \E h \in Neighbours(from) \cap Enterable[b] : c \in f(h)[n]
    BY <1>4, <2>1
  <2>5. CASE c = from
    BY <1>2, <2>1, <2>3, <2>5
  <2>6. ASSUME NEW h \in Neighbours(from) \cap Enterable[b], c \in f(h)[n]
        PROVE  to \in f(h)[n + 1]
    <3>1. f(h)[n + 1] = Spread(b, f(h)[n])
      BY <1>1, <2>1
    <3> QED BY <2>3, <2>6, <3>1 DEF Spread
  <2> QED BY <2>4, <2>5, <2>6
<1> HIDE DEF F
<1>5. \A n \in Nat : n \in F
  BY <1>3, <1>4, NumberInduction
<1> QED BY <1>5 DEF F, N, f

\* Where there is a way at all there is a first step, and every first step leads nearer.
LEMMA TheWayIsTaken ==
  ASSUME WorldAssumption, NEW b \in Blueprints, NEW from \in Cells, NEW to \in Cells,
         to \in Reach(b, from), from # to
  PROVE  /\ FirstSteps(b, from, to) # {}
         /\ \A c \in FirstSteps(b, from, to) : Moves(b, c, {to}) < Moves(b, from, {to})
<1> DEFINE N == Cardinality(Cells)
           S(c) == {n \in 0..N : Flooded(b, c)[n] \cap {to} # {}}
<1>1. N \in Nat
  BY FloodedIs
<1>2. \A c : Moves(b, c, {to}) = Min(S(c))
  BY DEF Moves
<1>3. \A c : S(c) \in SUBSET Nat
  BY <1>1
<1>4. N \in S(from)
  BY <1>1 DEF Reach
<1> DEFINE m == Min(S(from))
<1>5. m \in S(from)
  <2> DEFINE s == S(from)
  <2>1. s \in SUBSET Nat /\ s # {}
    BY <1>3, <1>4
  <2> HIDE DEF s
  <2>2. Min(s) \in s
    BY <2>1, MinOf
  <2> QED BY <2>2 DEF s
<1>6. m \in 0..N /\ to \in Flooded(b, from)[m]
  <2>1. \A k \in S(from) : k \in 0..N /\ to \in Flooded(b, from)[k]
    OBVIOUS
  <2> HIDE DEF S, N, m
  <2> QED BY ONLY <1>5, <2>1
<1>7. m # 0
  BY <1>6, FloodedIs
<1> HIDE DEF m
<1>8. m - 1 \in Nat /\ (m - 1) + 1 = m /\ m - 1 \in 0..N /\ m <= N
  BY <1>1, <1>6, <1>7
<1>9. PICK h \in Neighbours(from) \cap Enterable[b] : to \in Flooded(b, h)[m - 1]
  <2>1. to \in Flooded(b, from)[(m - 1) + 1] /\ (m - 1) + 1 <= N
    BY <1>6, <1>8
  <2> QED BY <1>8, <2>1, FirstMove
<1>10. m - 1 \in S(h)
  BY <1>8, <1>9
<1>11. Min(S(h)) <= m - 1 /\ Min(S(h)) \in Nat
  <2> DEFINE s == S(h)
  <2>1. s \in SUBSET Nat /\ m - 1 \in s
    BY <1>3, <1>10
  <2> HIDE DEF s
  <2>2. Min(s) <= m - 1 /\ Min(s) \in s
    BY <2>1, MinOf
  <2> QED BY <2>1, <2>2 DEF s
<1>12. Moves(b, h, {to}) < Moves(b, from, {to})
  <2>1. Moves(b, h, {to}) = Min(S(h)) /\ Moves(b, from, {to}) = m
    BY <1>2 DEF m
  <2> HIDE DEF S
  <2>2. m \in Nat
    BY <1>1, <1>6
  <2> QED BY <1>11, <2>1, <2>2
<1>13. Reach(b, h) \cap {to} # {}
  <2>1. N \in 0..N /\ m - 1 \in 0..N
    BY <1>1, <1>8
  <2>2. Flooded(b, h)[m - 1] \subseteq Flooded(b, h)[N]
    BY <2>1, FloodedGrows
  <2> QED BY <1>9, <2>2 DEF Reach
<1>14. Goals(b, from, to) = {to}
  BY DEF Goals
<1>15. h \in Nearer(b, from, Goals(b, from, to))
  BY <1>9, <1>12, <1>13, <1>14 DEF Nearer
<1>16. h \in Neighbours(from)
  BY <1>9
<1>17. h \in FirstSteps(b, from, to)
  <2> DEFINE Of(i, c, d) == {<<i, c, d, e>> : e \in Nearer(i, c, Goals(i, c, d))}
  <2>1. Routes = UNION {Of(i, c, d) : i \in Blueprints, c \in Cells, d \in Cells}
    BY DEF Routes
  <2>2. <<b, from, to, h>> \in Of(b, from, to)
    BY <1>15
  <2> HIDE DEF Of
  <2>3. <<b, from, to, h>> \in Routes
    BY <2>1, <2>2
  <2> QED BY <1>16, <2>3 DEF FirstSteps
<1>18. ASSUME NEW c \in FirstSteps(b, from, to) PROVE Moves(b, c, {to}) < Moves(b, from, {to})
  <2>1. <<b, from, to, c>> \in Routes
    BY DEF FirstSteps
  <2>2. c \in Nearer(b, from, Goals(b, from, to))
    BY <2>1 DEF Routes
  <2> QED BY <1>14, <2>2 DEF Nearer
<1> QED BY <1>17, <1>18

\* A recalled robot's turn.
LEMMA RecalledTurn ==
  ASSUME WorldAssumption, TypeOK, Next, InTurn, Me.recalled, ~IsDestroyed(Me),
         Home[Me.colony] \in Reach(Me.bp, Me.at)
  PROVE  /\ UNCHANGED <<lying, bases, events>>
         /\ LET me == robots'[turn] IN
            \/ ToHome(me) < ToHome(Me)
            \/ ToHome(me) = ToHome(Me) /\ (me.cooldown < Me.cooldown \/ AtOwnBase(Me))
<1>0. Me \in Robot /\ turn \in DOMAIN robots
  BY MeType
<1>1. BusyTurn \/ RecallTurn
  <2>1. phase = "turns" /\ turn <= Len(robots)
    BY DEF InTurn
  <2>2. ~Decides /\ ~WreckTurn
    BY DEF Decides, WreckTurn
  <2>3. ~Primary
    BY <2>2 DEF Primary, Wait, MoveForward, MoveTo, Attack, PickUp, Deposit, Drop
  <2>4. Len(robots) \in Nat /\ turn \in Nat
    BY LenProperties DEF TypeOK
  <2>5. ~Begin /\ ~EndTurns /\ ~Sweep /\ ~EndSweep /\ ~EndTick
    BY <2>1, <2>4 DEF Begin, EndTurns, Sweep, Salvage, EndSweep, EndTick
  <2>6. ~Produce
    BY <2>1 DEF Produce, InBases, Assemble, Release, StartJob, Stall
  <2>7. \A i \in DOMAIN robots : ~Recall(i) /\ ~Reprogram(i)
    BY <2>1 DEF Recall, Reprogram, Command
  <2> QED
    BY <2>2, <2>3, <2>5, <2>6, <2>7 DEF Next, Turns
<1>2. CASE BusyTurn
  <2>1. UNCHANGED <<lying, bases, events>> /\ Me.cooldown > 0
    BY <1>2 DEF BusyTurn
  <2>2. robots'[turn] = [Reloaded(Me) EXCEPT !.cooldown = @ - 1]
    BY <1>0, <1>2 DEF BusyTurn, Becomes
  <2>3. /\ robots'[turn].bp = Me.bp /\ robots'[turn].at = Me.at
        /\ robots'[turn].colony = Me.colony /\ robots'[turn].cooldown = Me.cooldown - 1
    BY <1>0, <2>2 DEF Reloaded, Robot
  <2>4. Me.cooldown \in Nat
    BY <1>0 DEF Robot
  <2>5. ToHome(robots'[turn]) = ToHome(Me)
    BY <2>3 DEF ToHome
  <2> QED BY <2>1, <2>3, <2>4, <2>5
<1>3. CASE RecallTurn /\ AtOwnBase(Me)
  <2>1. UNCHANGED <<lying, bases, events>>
    BY <1>3 DEF RecallTurn
  <2>2. robots'[turn] = Charged(Reloaded(Me), 1)
    BY <1>0, <1>3 DEF RecallTurn, Becomes
  <2>3. robots'[turn].bp = Me.bp /\ robots'[turn].at = Me.at /\ robots'[turn].colony = Me.colony
    BY <1>0, <2>2 DEF Charged, Reloaded, Robot
  <2>4. ToHome(robots'[turn]) = ToHome(Me)
    BY <2>3 DEF ToHome
  <2> QED BY <1>3, <2>1, <2>4
<1>4. CASE RecallTurn /\ ~AtOwnBase(Me)
  <2> DEFINE me == Reloaded(Me)
             home == Home[Me.colony]
             first == FirstSteps(Me.bp, Me.at, home)
  <2>1. Me.bp \in Blueprints /\ Me.at \in Cells /\ Me.colony \in Colonies /\ home \in Cells
    BY <1>0, ElementOfSeq DEF Robot, Colonies, WorldAssumption
  <2>2. Me.at # home
    <3>1. InteractRange \in Nat /\ home[1] \in Nat /\ home[2] \in Nat
      BY <2>1 DEF WorldAssumption, Cells
    <3>2. Near(home, home, InteractRange)
      BY <3>1 DEF Near, Within
    <3> QED BY <1>4, <3>2 DEF AtOwnBase
  <2>3. first # {} /\ \A c \in first : Moves(Me.bp, c, {home}) < Moves(Me.bp, Me.at, {home})
    BY <2>1, <2>2, TheWayIsTaken
  <2>4. me.bp = Me.bp /\ me.at = Me.at /\ me.colony = Me.colony /\ me \in Robot
    BY <1>0, ReloadedType DEF Reloaded, Robot
  <2>5. Walk(me, home)
    BY <1>4 DEF RecallTurn
  <2> HIDE DEF me
  <2>6. UNCHANGED <<lying, bases, events>> /\ \E c \in first : Becomes(Enters(me, c))
    BY <2>3, <2>4, <2>5 DEF Walk
  <2>7. PICK c \in first : Becomes(Enters(me, c))
    BY <2>6
  <2>8. robots'[turn] = Enters(me, c)
    BY <1>0, <2>7 DEF Becomes
  <2>9. robots'[turn].bp = Me.bp /\ robots'[turn].at = c /\ robots'[turn].colony = Me.colony
    BY <2>4, <2>8 DEF Enters, Charged, Robot
  <2>10. ToHome(robots'[turn]) < ToHome(Me)
    BY <2>3, <2>9 DEF ToHome
  <2> QED BY <2>6, <2>10
<1> QED BY <1>1, <1>2, <1>3, <1>4

\* A recalled robot gets home, on every arena: where there is a way its every turn
\* brings it nearer, in moves or in the ticks of the move under way, and it does
\* nothing else (tick.go recallAction, moveTo; nav.go path).
THEOREM TheRecalledGetHome == Spec => RecallGetsHome
<1>1. TypeOK /\ [Next]_vars =>
        [InTurn /\ Me.recalled /\ ~IsDestroyed(Me) /\ Home[Me.colony] \in Reach(Me.bp, Me.at) =>
           /\ UNCHANGED <<lying, bases, events>>
           /\ LET me == robots'[turn] IN
              \/ ToHome(me) < ToHome(Me)
              \/ ToHome(me) = ToHome(Me) /\ (me.cooldown < Me.cooldown \/ AtOwnBase(Me))]_vars
  BY WorldAssumption, RecalledTurn DEF vars
<1> QED
  BY <1>1, WorldTypeCorrect, PTL DEF Spec, RecallGetsHome

------------------------------------------------------------------------------
(* The arena: what a flood is. *)

\* The cells a locomotion may enter on the terrain t.
GroundFor(t, loco) == {c \in Grid : t[c] \notin Closed[loco]}

\* The cells of p next to some of s and not among them.
Edge(p, s) == ((UNION {Around(c) : c \in s}) \cap p) \ s

\* g floods the sets of D within p.
Floods(p, D, g) ==
  g = [s \in D |-> IF Edge(p, s) = {} THEN s ELSE g[s \cup Edge(p, s)]]

\* What is reached within p from a cell.
Reached(p, from) ==
  IF from \in p THEN (CHOOSE g : Floods(p, SUBSET Grid, g))[{from}] ELSE {}

\* A part of p that its neighbours in p do not leave.
Closure(p, s) == s \subseteq p /\ \A c \in s : Around(c) \cap p \subseteq s

LEMMA FloodIs ==
  /\ \A from, loco : Flood(from, loco) = Reached(GroundFor(terrain, loco), from)
  /\ \A from, loco : Flood(from, loco)' = Reached(GroundFor(terrain', loco), from)
BY DEF Flood, Reached, GroundFor, Floods, Edge

LEMMA GridIs == IsFiniteSet(Grid)
<1> DEFINE W == 0..GridWidth - 1
           H == 0..GridHeight - 1
<1>1. IsFiniteSet(W) /\ IsFiniteSet(H)
  BY ArenaAssumption, FS_Interval
<1>2. Grid = W \X H
  BY DEF Grid
<1> HIDE DEF W, H
<1> QED BY <1>1, <1>2, FS_Product

\* What the edge of a set is.
LEMMA EdgeIs ==
  ASSUME NEW p, NEW s
  PROVE  /\ Edge(p, s) \subseteq p /\ Edge(p, s) \cap s = {}
         /\ \A c \in s : Around(c) \cap p \subseteq s \cup Edge(p, s)
         /\ \A t : s \subseteq t /\ Closure(p, t) => Edge(p, s) \subseteq t
<1> DEFINE U == UNION {Around(c) : c \in s}
<1>1. Edge(p, s) = (U \cap p) \ s
  BY DEF Edge
<1>2. \A c \in s : Around(c) \subseteq U
  OBVIOUS
<1>3. \A d \in U : \E c \in s : d \in Around(c)
  OBVIOUS
<1> HIDE DEF U
<1>4. ASSUME NEW t, s \subseteq t, Closure(p, t) PROVE Edge(p, s) \subseteq t
  <2> SUFFICES ASSUME NEW d \in Edge(p, s) PROVE d \in t
    OBVIOUS
  <2>1. PICK c \in s : d \in Around(c) /\ d \in p
    BY <1>1, <1>3
  <2>2. Around(c) \cap p \subseteq t
    BY <1>4 DEF Closure
  <2> QED BY <2>1, <2>2
<1> QED BY <1>1, <1>2, <1>4

\* There is a flood.
LEMMA FloodsExist ==
  ASSUME NEW p, p \subseteq Grid
  PROVE  \E g : Floods(p, SUBSET Grid, g)
<1> DEFINE Rest(s) == Cardinality(Grid \ s)
           D(n) == {s \in SUBSET Grid : Rest(s) <= n}
           F == {n \in Nat : \E g : Floods(p, D(n), g)}
<1>1. \A s \in SUBSET Grid : Rest(s) \in Nat /\ Rest(s) <= Cardinality(Grid)
  BY GridIs, FS_Subset, FS_CardinalityType
<1>2. ASSUME NEW s \in SUBSET Grid, Edge(p, s) # {}
      PROVE  s \cup Edge(p, s) \in SUBSET Grid /\ Rest(s \cup Edge(p, s)) < Rest(s)
  <2> DEFINE u == s \cup Edge(p, s)
  <2>1. u \in SUBSET Grid /\ (Grid \ u) \in SUBSET (Grid \ s) /\ Grid \ u # Grid \ s
    <3>1. Edge(p, s) \subseteq p /\ Edge(p, s) \cap s = {}
      BY EdgeIs
    <3> QED BY <1>2, <3>1
  <2> HIDE DEF u
  <2>2. IsFiniteSet(Grid \ s)
    BY GridIs, FS_Subset
  <2>3. Rest(u) <= Rest(s) /\ Rest(u) # Rest(s)
    BY <2>1, <2>2, FS_Subset
  <2>4. Rest(u) \in Nat /\ Rest(s) \in Nat
    BY <1>1, <2>1
  <2> HIDE DEF Rest
  <2>5. Rest(u) < Rest(s)
    BY <2>3, <2>4
  <2> QED BY <2>1, <2>5 DEF u
<1>3. 0 \in F
  <2>1. \A s \in D(0) : Edge(p, s) = {}
    <3> TAKE s \in D(0)
    <3>1. s \in SUBSET Grid /\ Rest(s) <= 0
      OBVIOUS
    <3> HIDE DEF Rest
    <3> SUFFICES ASSUME Edge(p, s) # {} PROVE FALSE
      OBVIOUS
    <3> DEFINE u == s \cup Edge(p, s)
    <3>2. u \in SUBSET Grid /\ Rest(u) < Rest(s)
      BY <1>2, <3>1
    <3> HIDE DEF u
    <3>3. Rest(u) \in Nat /\ Rest(s) \in Nat
      BY <1>1, <3>1, <3>2
    <3> QED BY <3>1, <3>2, <3>3
  <2> DEFINE g == [s \in D(0) |-> s]
  <2>2. Floods(p, D(0), g)
    BY <2>1 DEF Floods
  <2> QED BY <2>2
<1>4. ASSUME NEW n \in Nat, n \in F PROVE n + 1 \in F
  <2>1. PICK g : Floods(p, D(n), g)
    BY <1>4
  <2> DEFINE h == [s \in D(n + 1) |-> IF Edge(p, s) = {} THEN s ELSE g[s \cup Edge(p, s)]]
  <2> HIDE DEF Rest
  <2>2. \A s \in D(n) : s \in D(n + 1) /\ h[s] = g[s]
    <3> TAKE s \in D(n)
    <3>1. s \in D(n + 1)
      BY <1>1
    <3>2. g[s] = IF Edge(p, s) = {} THEN s ELSE g[s \cup Edge(p, s)]
      BY <2>1 DEF Floods
    <3> QED BY <3>1, <3>2
  <2>3. \A s \in D(n + 1) : Edge(p, s) # {} => s \cup Edge(p, s) \in D(n)
    BY <1>1, <1>2
  <2>4. Floods(p, D(n + 1), h)
    BY <2>2, <2>3 DEF Floods
  <2> HIDE DEF h, D
  <2>5. \E f : Floods(p, D(n + 1), f)
    BY <2>4
  <2> QED BY <2>5
<1> HIDE DEF F
<1>5. \A n \in Nat : n \in F => n + 1 \in F
  BY <1>4
<1>6. Cardinality(Grid) \in Nat
  BY GridIs, FS_CardinalityType
<1>7. Cardinality(Grid) \in F
  BY <1>3, <1>5, <1>6, NumberInduction
<1>8. D(Cardinality(Grid)) = SUBSET Grid
  BY <1>1
<1> QED BY <1>7, <1>8 DEF F

\* What a flood reaches is the least closed set with the cell it starts from.
LEMMA ReachedIs ==
  ASSUME NEW p, p \subseteq Grid, NEW x \in p
  PROVE  /\ x \in Reached(p, x) /\ Closure(p, Reached(p, x))
         /\ \A t : x \in t /\ Closure(p, t) => Reached(p, x) \subseteq t
<1> DEFINE g == CHOOSE h : Floods(p, SUBSET Grid, h)
           Good(s) == /\ s \subseteq g[s]
                      /\ s \subseteq p => Closure(p, g[s])
                      /\ \A t : s \subseteq t /\ Closure(p, t) => g[s] \subseteq t
           F == {r \in SUBSET Grid : Good(Grid \ r)}
<1>1. Floods(p, SUBSET Grid, g)
  BY FloodsExist
<1>2. Reached(p, x) = g[{x}]
  BY DEF Reached
<1> HIDE DEF g
<1>3. \A s \in SUBSET Grid : g[s] = IF Edge(p, s) = {} THEN s ELSE g[s \cup Edge(p, s)]
  BY <1>1 DEF Floods
<1>4. ASSUME NEW r \in SUBSET Grid, \A u \in SUBSET r : u # r => u \in F
      PROVE  r \in F
  <2> DEFINE s == Grid \ r
             e == Edge(p, s)
  <2>0. e \subseteq p /\ e \cap s = {} /\ (\A c \in s : Around(c) \cap p \subseteq s \cup e)
        /\ \A t : s \subseteq t /\ Closure(p, t) => e \subseteq t
    BY EdgeIs
  <2>1. s \in SUBSET Grid /\ e \subseteq p /\ e \subseteq r
    BY <2>0
  <2>2. CASE e = {}
    <3>1. g[s] = s
      BY <1>3, <2>1, <2>2
    <3>2. \A c \in s : Around(c) \cap p \subseteq s
      BY <2>0, <2>2
    <3>3. Good(s)
      BY <3>1, <3>2 DEF Closure
    <3> QED BY <3>3
  <2>3. CASE e # {}
    <3>1. g[s] = g[s \cup e]
      BY <1>3, <2>1, <2>3
    <3>2. r \ e \in SUBSET r /\ r \ e # r /\ Grid \ (r \ e) = s \cup e
      BY <2>1, <2>3
    <3>3. Good(s \cup e)
      BY <1>4, <3>2
    <3>4. \A t : s \subseteq t /\ Closure(p, t) => e \subseteq t
      BY <2>0
    <3> HIDE DEF e, s
    <3>5. Good(s)
      BY <2>1, <3>1, <3>3, <3>4
    <3> QED BY <3>5 DEF s
  <2> QED BY <2>2, <2>3
<1> HIDE DEF F
<1>5. \A r \in SUBSET Grid : r \in F
  BY <1>4, GridIs, SetInduction
<1>6. Good(Grid \ (Grid \ {x}))
  BY <1>5 DEF F
<1>7. Grid \ (Grid \ {x}) = {x}
  OBVIOUS
<1> HIDE DEF Good
<1>8. Good({x})
  BY <1>6, <1>7
<1>9. /\ {x} \subseteq g[{x}] /\ Closure(p, g[{x}])
      /\ \A t : {x} \subseteq t /\ Closure(p, t) => g[{x}] \subseteq t
  BY <1>8 DEF Good
<1> QED BY <1>2, <1>9

LEMMA AroundIs ==
  /\ \A c, d \in Grid : d \in Around(c) <=> c \in Around(d)
  /\ \A c \in Grid : c \in Around(c)
BY DEF Grid, Around

\* What is reached from a cell reaches it, and whatever else it reaches.
LEMMA ReachedBack ==
  ASSUME NEW p, p \subseteq Grid, NEW x \in p, NEW y \in Reached(p, x)
  PROVE  Reached(p, y) = Reached(p, x)
<1> DEFINE X == Reached(p, x)
           Y == Reached(p, y)
<1>1. x \in X /\ Closure(p, X) /\ \A t : x \in t /\ Closure(p, t) => X \subseteq t
  BY ReachedIs
<1>2. y \in p
  BY <1>1 DEF Closure
<1>3. y \in Y /\ Closure(p, Y) /\ \A t : y \in t /\ Closure(p, t) => Y \subseteq t
  BY <1>2, ReachedIs
<1> HIDE DEF X, Y
<1>4. Y \subseteq X
  BY <1>1, <1>3 DEF X
<1>5. x \in Y
  <2> SUFFICES ASSUME x \notin Y PROVE FALSE
    OBVIOUS
  <2> DEFINE T == X \ Y
  <2>1. Closure(p, T)
    <3> SUFFICES ASSUME NEW c \in T, NEW d \in Around(c) \cap p PROVE d \in T
      BY <1>1 DEF Closure
    <3>1. d \in X /\ c \in p
      BY <1>1 DEF Closure
    <3>2. c \in Around(d)
      BY <3>1, AroundIs
    <3>3. d \notin Y
      BY <1>3, <3>1, <3>2 DEF Closure
    <3> QED BY <3>1, <3>3
  <2>2. X \subseteq T
    BY <1>1, <2>1
  <2> QED BY <1>3, <2>2 DEF X
<1>6. X \subseteq Y
  BY <1>1, <1>3, <1>5
<1> QED BY <1>4, <1>6 DEF X, Y

\* More ground, more reached.
LEMMA ReachedMore ==
  ASSUME NEW p, NEW q, p \subseteq q, q \subseteq Grid, NEW x
  PROVE  Reached(p, x) \subseteq Reached(q, x) /\ Reached(p, x) \subseteq p
<1>1. CASE x \notin p
  BY <1>1 DEF Reached
<1>2. CASE x \in p
  <2> DEFINE X == Reached(p, x)
             Y == Reached(q, x)
  <2>1. x \in X /\ Closure(p, X) /\ \A t : x \in t /\ Closure(p, t) => X \subseteq t
    BY <1>2, ReachedIs
  <2>2. x \in Y /\ Closure(q, Y)
    BY <1>2, ReachedIs
  <2> HIDE DEF X, Y
  <2>3. Closure(p, Y \cap p)
    BY <2>2 DEF Closure
  <2>4. X \subseteq Y /\ X \subseteq p
    BY <1>2, <2>1, <2>2, <2>3 DEF Closure
  <2> QED BY <2>4 DEF X, Y
<1> QED BY <1>1, <1>2

(* The arena: what generation keeps. *)

\* One coordinate of a corridor.
Along(u, v, n) == u + Sign(v - u) * Smaller(n, Abs(v - u))

LEMMA AlongIs ==
  ASSUME NEW u \in Int, NEW v \in Int, NEW n \in Nat
  PROVE  /\ Along(u, v, n) \in Int /\ (u <= Along(u, v, n) \/ v <= Along(u, v, n))
         /\ Along(u, v, n) <= u \/ Along(u, v, n) <= v
         /\ Along(u, v, 0) = u /\ (Abs(v - u) <= n => Along(u, v, n) = v)
         /\ Along(u, v, n) - 1 <= Along(u, v, n + 1) /\ Along(u, v, n + 1) <= Along(u, v, n) + 1
         /\ Abs(v - u) \in Nat
<1>1. CASE v > u
  <2>1. Abs(v - u) = v - u /\ Sign(v - u) = 1
    BY <1>1 DEF Abs, Sign
  <2>2. \A k \in Nat : Along(u, v, k) = u + (IF k < v - u THEN k ELSE v - u)
    BY <1>1, <2>1 DEF Along, Smaller
  <2> QED BY <1>1, <2>1, <2>2
<1>2. CASE v < u
  <2>1. Abs(v - u) = u - v /\ Sign(v - u) = -1
    BY <1>2 DEF Abs, Sign
  <2>2. \A k \in Nat : Along(u, v, k) = u - (IF k < u - v THEN k ELSE u - v)
    BY <1>2, <2>1 DEF Along, Smaller
  <2> QED BY <1>2, <2>1, <2>2
<1>3. CASE v = u
  <2>1. Abs(v - u) = 0 /\ Sign(v - u) = 0
    BY <1>3 DEF Abs, Sign
  <2>2. \A k \in Nat : Along(u, v, k) = u
    BY <1>3, <2>1 DEF Along, Smaller
  <2> QED BY <1>3, <2>1, <2>2
<1> QED BY <1>1, <1>2, <1>3

\* A corridor is of the grid, and whoever may enter all of it gets from its end to
\* its beginning.
LEMMA CorridorIs ==
  ASSUME NEW x \in Grid, NEW y \in Grid
  PROVE  /\ Corridor(x, y) \subseteq Grid
         /\ \A p \in SUBSET Grid : x \in p /\ Corridor(x, y) \subseteq p => x \in Reached(p, y)
<1> DEFINE pos(n) == <<Along(x[1], y[1], n), Along(x[2], y[2], n)>>
           S == Span(x, y)
<1>0. /\ x[1] \in 0..GridWidth - 1 /\ x[2] \in 0..GridHeight - 1
      /\ y[1] \in 0..GridWidth - 1 /\ y[2] \in 0..GridHeight - 1
      /\ x = <<x[1], x[2]>> /\ y = <<y[1], y[2]>> /\ GridWidth \in Nat /\ GridHeight \in Nat
  BY ArenaAssumption DEF Grid
<1>1. \A n \in Nat : pos(n) \in Grid
  <2> TAKE n \in Nat
  <2>1. Along(x[1], y[1], n) \in 0..GridWidth - 1
    <3> DEFINE u == x[1]
               v == y[1]
               a == Along(u, v, n)
    <3>1. u \in Int /\ v \in Int /\ 0 <= u /\ 0 <= v /\ u <= GridWidth - 1 /\ v <= GridWidth - 1
      BY <1>0
    <3> HIDE DEF u, v
    <3>2. a \in Int /\ (u <= a \/ v <= a) /\ (a <= u \/ a <= v)
      BY <3>1, AlongIs
    <3> HIDE DEF a
    <3>3. a \in 0..GridWidth - 1
      BY <1>0, <3>1, <3>2
    <3> QED BY <3>3 DEF a, u, v
  <2>2. Along(x[2], y[2], n) \in 0..GridHeight - 1
    <3> DEFINE u == x[2]
               v == y[2]
               a == Along(u, v, n)
    <3>1. u \in Int /\ v \in Int /\ 0 <= u /\ 0 <= v /\ u <= GridHeight - 1 /\ v <= GridHeight - 1
      BY <1>0
    <3> HIDE DEF u, v
    <3>2. a \in Int /\ (u <= a \/ v <= a) /\ (a <= u \/ a <= v)
      BY <3>1, AlongIs
    <3> HIDE DEF a
    <3>3. a \in 0..GridHeight - 1
      BY <1>0, <3>1, <3>2
    <3> QED BY <3>3 DEF a, u, v
  <2> QED BY <2>1, <2>2 DEF Grid
<1>2. S \in Nat /\ pos(0) = x /\ pos(S) = y
  <2> DEFINE u == x[1]
             v == y[1]
             w == x[2]
             z == y[2]
  <2>1. u \in Int /\ v \in Int /\ w \in Int /\ z \in Int /\ x = <<u, w>> /\ y = <<v, z>>
    BY <1>0
  <2>2. S = Larger(Abs(u - v), Abs(w - z))
    BY DEF Span
  <2> HIDE DEF u, v, w, z
  <2>3. Abs(u - v) = Abs(v - u) /\ Abs(w - z) = Abs(z - w) /\ Abs(v - u) \in Nat /\ Abs(z - w) \in Nat
    BY <2>1 DEF Abs
  <2>4. S \in Nat /\ Abs(v - u) <= S /\ Abs(z - w) <= S
    BY <2>2, <2>3 DEF Larger
  <2> HIDE DEF S
  <2>5. Along(u, v, 0) = u /\ Along(w, z, 0) = w
    BY <2>1, AlongIs
  <2>6. Along(u, v, S) = v /\ Along(w, z, S) = z
    BY <2>1, <2>4, AlongIs
  <2>7. \A n : pos(n) = <<Along(u, v, n), Along(w, z, n)>>
    BY DEF u, v, w, z
  <2> HIDE DEF pos
  <2> QED BY <2>1, <2>4, <2>5, <2>6, <2>7
<1>3. Corridor(x, y) = {pos(n) : n \in 1..S}
  BY DEF Corridor, Along
<1>4. \A n \in Nat : pos(n) \in Around(pos(n + 1))
  <2> TAKE n \in Nat
  <2> DEFINE a == Along(x[1], y[1], n)
             b == Along(x[1], y[1], n + 1)
             c == Along(x[2], y[2], n)
             d == Along(x[2], y[2], n + 1)
  <2>1. x[1] \in Int /\ y[1] \in Int /\ x[2] \in Int /\ y[2] \in Int /\ n + 1 \in Nat
    BY <1>0
  <2>2. a \in Int /\ b \in Int /\ a - 1 <= b /\ b <= a + 1
    BY <2>1, AlongIs
  <2>3. c \in Int /\ d \in Int /\ c - 1 <= d /\ d <= c + 1
    BY <2>1, AlongIs
  <2>4. pos(n) = <<a, c>> /\ pos(n + 1) = <<b, d>>
    OBVIOUS
  <2> HIDE DEF a, b, c, d, pos
  <2>5. a \in b - 1 .. b + 1 /\ c \in d - 1 .. d + 1
    BY <2>2, <2>3
  <2> QED BY <2>4, <2>5 DEF Around
<1> HIDE DEF pos, S
<1>5. Corridor(x, y) \subseteq Grid
  BY <1>1, <1>2, <1>3
<1>6. ASSUME NEW p \in SUBSET Grid, x \in p, Corridor(x, y) \subseteq p PROVE x \in Reached(p, y)
  <2> DEFINE R == Reached(p, y)
             F == {m \in Nat : m <= S => pos(S - m) \in R}
  <2>1. \A n \in 0..S : pos(n) \in p
    <3> TAKE n \in 0..S
    <3>1. CASE n = 0
      BY <1>2, <1>6, <3>1
    <3>2. CASE n # 0
      <4>1. n \in 1..S
        BY <1>2, <3>2
      <4> QED BY <1>3, <1>6, <4>1
    <3> QED BY <3>1, <3>2
  <2>2. y \in p
    <3>1. S \in 0..S
      BY <1>2
    <3> QED BY <1>2, <2>1, <3>1
  <2>3. y \in R /\ Closure(p, R)
    BY <2>2, ReachedIs
  <2> HIDE DEF R
  <2>4. 0 \in F
    BY <1>2, <2>3
  <2>5. ASSUME NEW m \in Nat, m \in F PROVE m + 1 \in F
    <3> SUFFICES ASSUME m + 1 <= S PROVE pos(S - (m + 1)) \in R
      OBVIOUS
    <3> DEFINE n == S - (m + 1)
    <3>1. n \in Nat /\ n \in 0..S /\ n + 1 = S - m /\ m <= S
      BY <1>2
    <3>2. pos(n + 1) \in R
      BY <2>5, <3>1
    <3> HIDE DEF n
    <3>3. pos(n) \in Around(pos(n + 1)) /\ pos(n) \in p
      BY <1>4, <2>1, <3>1
    <3>4. pos(n) \in R
      BY <2>3, <3>2, <3>3 DEF Closure
    <3> QED BY <3>4 DEF n
  <2> HIDE DEF F
  <2>6. S \in F
    BY <1>2, <2>4, <2>5, NumberInduction
  <2>7. S - S = 0 /\ S <= S
    BY <1>2
  <2>8. pos(0) \in R
    BY <2>6, <2>7 DEF F
  <2> QED BY <1>2, <2>8 DEF R
<1> QED BY <1>5, <1>6

\* Opening cells takes no ground away, and what is opened is ground for everybody.
LEMMA OpenedIs ==
  ASSUME terrain \in [Grid -> Terrains], NEW cells, NEW t, t = Opened(cells)
  PROVE  /\ t \in [Grid -> Terrains]
         /\ \A c \in Grid : terrain[c] = "open" \/ c \in cells => t[c] = "open"
         /\ \A loco \in Locomotions : /\ GroundFor(terrain, loco) \subseteq GroundFor(t, loco)
                                      /\ GroundFor(t, loco) \subseteq Grid
<1>1. t \in [Grid -> Terrains] /\ \A c \in Grid : t[c] = IF c \in cells THEN "open" ELSE terrain[c]
  BY DEF Opened, Terrains
<1>2. \A loco \in Locomotions : "open" \notin Closed[loco]
  BY DEF Locomotions, Closed
<1> QED BY <1>1, <1>2 DEF GroundFor

LEMMA OpenGround ==
  ASSUME NEW t, NEW c \in Grid, t[c] = "open", NEW loco \in Locomotions
  PROVE  c \in GroundFor(t, loco) /\ GroundFor(t, loco) \subseteq Grid
<1>1. "open" \notin Closed[loco]
  BY DEF Locomotions, Closed
<1> QED BY <1>1 DEF GroundFor

\* Every locomotion gets from the first of the sites s to the i-th, on the terrain t.
Met(t, s, i) == \A loco \in Locomotions : s[i] \in Reached(GroundFor(t, loco), s[1])

\* Where any robot, and where every robot, gets to from the first of the sites.
AnyReach(t, s) == Reached(GroundFor(t, "antigrav"), s[1])
AllReach(t, s) ==
  AnyReach(t, s) \cap Reached(GroundFor(t, "tracks"), s[1]) \cap Reached(GroundFor(t, "legs"), s[1])

LEMMA ReachIs ==
  /\ Union = AnyReach(terrain, sites) /\ Union' = AnyReach(terrain', sites')
  /\ Common = AllReach(terrain, sites) /\ Common' = AllReach(terrain', sites')
BY FloodIs DEF Union, Common, AnyReach, AllReach

\* The sites stay open and, as far as the roads are built, connected; in the end no ground
\* is sealed; what is scattered lies where its pool was.
SitesInv ==
  /\ making \in {"terrain", "bases", "roads", "pockets", "common", "regions", "done"}
  /\ terrain \in [Grid -> Terrains] /\ sites \in Seq(Grid) /\ linked \in Nat
  /\ making = "terrain" => sites = <<>>
  /\ making \notin {"terrain", "bases"} => sites # <<>>
  /\ \A i \in DOMAIN sites : terrain[sites[i]] = "open"
  /\ making = "roads" => linked <= Len(sites) /\ \A i \in 1..linked : Met(terrain, sites, i)
  /\ making \in {"pockets", "common", "regions", "done"} =>
       \A i \in DOMAIN sites : Met(terrain, sites, i)
  /\ making \in {"common", "regions", "done"} =>
       \A c \in Grid : terrain[c] # "barrier" => c \in AnyReach(terrain, sites)

LooseInv ==
  /\ loose \in [common : SUBSET Grid, regions : SUBSET Grid]
  /\ making \notin {"common", "regions", "done"} => loose.common = {} /\ loose.regions = {}
  /\ loose.common \subseteq AllReach(terrain, sites)
  /\ loose.regions \subseteq AnyReach(terrain, sites)
  /\ \A i \in DOMAIN sites : Footprint(sites[i]) \cap (loose.common \cup loose.regions) = {}
  /\ loose.common \cap loose.regions = {}

LEMMA ArenaInvInit == ArenaInit => SitesInv /\ LooseInv
<1> SUFFICES ASSUME ArenaInit PROVE SitesInv /\ LooseInv
  OBVIOUS
<1>1. /\ making = "terrain" /\ terrain = [c \in Grid |-> "open"] /\ sites = <<>> /\ linked = 0
      /\ loose = [common |-> {}, regions |-> {}]
  BY DEF ArenaInit
<1>2. terrain \in [Grid -> Terrains] /\ sites \in Seq(Grid) /\ DOMAIN sites = {}
  BY <1>1 DEF Terrains
<1>3. SitesInv
  BY <1>1, <1>2 DEF SitesInv
<1>4. loose \in [common : SUBSET Grid, regions : SUBSET Grid] /\ loose.common = {} /\ loose.regions = {}
  BY <1>1
<1> QED BY <1>1, <1>3, <1>4 DEF LooseInv

\* A site keeps its connections where ground is only opened.
LEMMA MetStays ==
  ASSUME NEW t, NEW u, NEW s, NEW i,
         \A loco \in Locomotions : GroundFor(t, loco) \subseteq GroundFor(u, loco) /\ GroundFor(u, loco) \subseteq Grid,
         Met(t, s, i)
  PROVE  Met(u, s, i)
<1> SUFFICES ASSUME NEW loco \in Locomotions PROVE s[i] \in Reached(GroundFor(u, loco), s[1])
  BY DEF Met
<1>1. s[i] \in Reached(GroundFor(t, loco), s[1])
  BY DEF Met
<1>2. Reached(GroundFor(t, loco), s[1]) \subseteq Reached(GroundFor(u, loco), s[1])
  BY ReachedMore
<1> QED BY <1>1, <1>2

LEMMA ConnectedSite ==
  ASSUME SitesInv, Connect
  PROVE  SitesInv'
<1> DEFINE k == linked + 1
           x == sites[k]
           y == sites[1]
<1>1. /\ making = "roads" /\ linked < Len(sites) /\ linked' = k /\ making' = making /\ sites' = sites
      /\ terrain' = (IF CutOff(x) THEN Opened(Corridor(x, y)) ELSE terrain)
  BY DEF Connect
<1>2. /\ terrain \in [Grid -> Terrains] /\ sites \in Seq(Grid) /\ linked \in Nat /\ sites # <<>>
      /\ \A i \in DOMAIN sites : terrain[sites[i]] = "open"
      /\ \A i \in 1..linked : Met(terrain, sites, i)
  BY <1>1 DEF SitesInv
<1>3. Len(sites) \in Nat /\ DOMAIN sites = 1..Len(sites) /\ k \in 1..Len(sites) /\ 1 \in 1..Len(sites)
  BY <1>1, <1>2, LenProperties
<1>4. x \in Grid /\ y \in Grid /\ terrain[x] = "open" /\ terrain[y] = "open"
  BY <1>2, <1>3, ElementOfSeq
<1>5. CASE CutOff(x)
  <2> DEFINE t == Opened(Corridor(x, y))
  <2>1. terrain' = t
    BY <1>1, <1>5
  <2> HIDE DEF k, x, y
  <2>2. /\ t \in [Grid -> Terrains]
        /\ \A c \in Grid : terrain[c] = "open" \/ c \in Corridor(x, y) => t[c] = "open"
        /\ \A loco \in Locomotions : /\ GroundFor(terrain, loco) \subseteq GroundFor(t, loco)
                                     /\ GroundFor(t, loco) \subseteq Grid
    BY <1>2, OpenedIs
  <2> HIDE DEF t
  <2>3. \A i \in 1..linked : Met(t, sites, i)
    BY <1>2, <2>2, MetStays
  <2>4. Met(t, sites, k)
    <3> SUFFICES ASSUME NEW loco \in Locomotions PROVE x \in Reached(GroundFor(t, loco), y)
      BY DEF Met, x, y
    <3>1. Corridor(x, y) \subseteq Grid
      BY <1>4, CorridorIs
    <3>2. \A c \in Grid : t[c] = "open" => c \in GroundFor(t, loco)
      BY OpenGround
    <3>3. x \in GroundFor(t, loco) /\ Corridor(x, y) \subseteq GroundFor(t, loco)
      BY <1>4, <2>2, <3>1, <3>2
    <3>4. GroundFor(t, loco) \in SUBSET Grid
      BY <2>2
    <3> QED BY <1>4, <3>3, <3>4, CorridorIs
  <2>5. \A i \in 1..k : i \in 1..linked \/ i = k
    BY <1>2 DEF k
  <2>6. \A i \in 1..k : Met(t, sites, i)
    BY <2>3, <2>4, <2>5
  <2>7. \A i \in DOMAIN sites : t[sites[i]] = "open"
    BY <1>2, <1>3, <2>2, ElementOfSeq
  <2>8. k \in Nat /\ k <= Len(sites)
    BY <1>3
  <2> QED BY <1>1, <1>2, <2>1, <2>2, <2>6, <2>7, <2>8 DEF SitesInv
<1>6. CASE ~CutOff(x)
  <2>1. terrain' = terrain
    BY <1>1, <1>6
  <2>2. \A loco \in Locomotions : x \in Flood(y, loco)
    BY <1>6 DEF CutOff
  <2>3. Met(terrain, sites, k)
    BY <2>2, FloodIs DEF Met
  <2> HIDE DEF x, y
  <2>4. \A i \in 1..k : i \in 1..linked \/ i = k
    BY <1>2
  <2>5. \A i \in 1..k : Met(terrain, sites, i)
    BY <1>2, <2>3, <2>4
  <2>6. k \in Nat /\ k <= Len(sites)
    BY <1>3
  <2> HIDE DEF k
  <2> QED BY <1>1, <1>2, <2>1, <2>5, <2>6 DEF SitesInv
<1> QED BY <1>5, <1>6

LEMMA PlacedBase ==
  ASSUME SitesInv, NEW site \in Sites, PlaceBase(site)
  PROVE  SitesInv'
<1> DEFINE t == Opened(Footprint(site))
<1>1. /\ making = "bases" /\ sites' = Append(sites, site) /\ terrain' = t
      /\ \/ making' = "roads" /\ linked' = 1
         \/ making' = "bases" /\ linked' = linked
  BY DEF PlaceBase
<1>2. /\ terrain \in [Grid -> Terrains] /\ sites \in Seq(Grid) /\ linked \in Nat /\ site \in Grid
      /\ \A i \in DOMAIN sites : terrain[sites[i]] = "open"
  BY <1>1, ArenaAssumption DEF SitesInv
<1>3. /\ t \in [Grid -> Terrains]
      /\ \A c \in Grid : terrain[c] = "open" \/ c \in Footprint(site) => t[c] = "open"
      /\ \A loco \in Locomotions : GroundFor(t, loco) \subseteq Grid
  BY <1>2, OpenedIs
<1> HIDE DEF t
<1>4. site \in Footprint(site)
  BY <1>2, AroundIs DEF Footprint
<1>5. /\ sites' \in Seq(Grid) /\ Len(sites') = Len(sites) + 1 /\ Len(sites) \in Nat
      /\ \A i \in 1..Len(sites) : sites'[i] = sites[i]
      /\ sites'[Len(sites) + 1] = site
      /\ DOMAIN sites = 1..Len(sites) /\ DOMAIN sites' = 1..Len(sites) + 1
  <2>1. /\ sites' \in Seq(Grid) /\ Len(sites') = Len(sites) + 1
        /\ \A i \in 1..Len(sites) : sites'[i] = sites[i]
        /\ sites'[Len(sites) + 1] = site
    BY <1>1, <1>2, AppendProperties
  <2> QED BY <1>2, <2>1, LenProperties
<1>6. \A i \in DOMAIN sites' : t[sites'[i]] = "open" /\ sites'[i] \in Grid
  <2> TAKE i \in DOMAIN sites'
  <2>1. i \in 1..Len(sites) \/ i = Len(sites) + 1
    BY <1>5
  <2>2. sites'[i] \in Grid
    BY <1>5, ElementOfSeq
  <2> QED BY <1>2, <1>3, <1>4, <1>5, <2>1, <2>2
<1>7. sites' # <<>> /\ 1 \in DOMAIN sites'
  <2>1. Len(sites') # 0 /\ 1 \in 1..Len(sites) + 1
    BY <1>5
  <2> QED BY <1>5, <2>1
<1>8. Met(t, sites', 1)
  <2> SUFFICES ASSUME NEW loco \in Locomotions
               PROVE  sites'[1] \in Reached(GroundFor(t, loco), sites'[1])
    BY DEF Met
  <2>1. sites'[1] \in GroundFor(t, loco) /\ GroundFor(t, loco) \subseteq Grid
    BY <1>6, <1>7, OpenGround
  <2> QED BY <2>1, ReachedIs
<1>9. \A i \in 1..1 : i = 1
  OBVIOUS
<1>10. 1 <= Len(sites') /\ 1 \in Nat
  BY <1>5
<1> QED BY <1>1, <1>2, <1>3, <1>5, <1>6, <1>7, <1>8, <1>9, <1>10 DEF SitesInv

LEMMA SitesNext ==
  ASSUME SitesInv, [ArenaNext]_arenaVars
  PROVE  SitesInv'
<1>1. CASE \E t \in Terrains \ {"open"}, shape \in Shapes : Paint(t, shape)
  <2>1. PICK t \in Terrains \ {"open"}, shape \in Shapes : Paint(t, shape)
    BY <1>1
  <2>2. /\ making = "terrain" /\ terrain' = [c \in Grid |-> IF c \in shape THEN t ELSE terrain[c]]
        /\ UNCHANGED <<making, sites, linked>>
    BY <2>1 DEF Paint
  <2>3. terrain' \in [Grid -> Terrains]
    BY <2>2 DEF SitesInv
  <2>4. sites = <<>> /\ DOMAIN sites = {}
    BY <2>2 DEF SitesInv
  <2> QED BY <2>2, <2>3, <2>4 DEF SitesInv
<1>2. CASE TerrainDone
  <2>1. making = "terrain" /\ making' = "bases" /\ UNCHANGED <<terrain, sites, linked>>
    BY <1>2 DEF TerrainDone
  <2> QED BY <2>1 DEF SitesInv
<1>3. CASE \E site \in Sites : PlaceBase(site)
  BY <1>3, PlacedBase
<1>4. CASE RoadsDone
  <2>1. /\ making = "roads" /\ linked = Len(sites) /\ making' = "pockets"
        /\ UNCHANGED <<terrain, sites, linked>>
    BY <1>4 DEF RoadsDone
  <2>2. sites \in Seq(Grid) /\ DOMAIN sites = 1..linked
    BY <2>1, LenProperties DEF SitesInv
  <2> QED BY <2>1, <2>2 DEF SitesInv
<1>5. CASE RepairPocket
  <2>1. PICK cells : terrain' = Opened(cells)
    BY <1>5 DEF RepairPocket
  <2>2. making = "pockets" /\ UNCHANGED <<making, sites, linked>>
    BY <1>5 DEF RepairPocket
  <2> DEFINE t == terrain'
  <2>3. /\ terrain \in [Grid -> Terrains] /\ sites \in Seq(Grid) /\ linked \in Nat /\ sites # <<>>
        /\ \A i \in DOMAIN sites : terrain[sites[i]] = "open" /\ Met(terrain, sites, i)
    BY <2>2 DEF SitesInv
  <2>4. t = Opened(cells)
    BY <2>1
  <2> HIDE DEF t
  <2>5. /\ t \in [Grid -> Terrains]
        /\ \A c \in Grid : terrain[c] = "open" \/ c \in cells => t[c] = "open"
        /\ \A loco \in Locomotions : /\ GroundFor(terrain, loco) \subseteq GroundFor(t, loco)
                                     /\ GroundFor(t, loco) \subseteq Grid
    BY <2>3, <2>4, OpenedIs
  <2>6. \A i \in DOMAIN sites : Met(t, sites, i)
    BY <2>3, <2>5, MetStays
  <2>7. \A i \in DOMAIN sites : t[sites[i]] = "open"
    <3>1. \A i \in DOMAIN sites : sites[i] \in Grid
      BY <2>3, LenProperties, ElementOfSeq
    <3> QED BY <2>3, <2>5, <3>1
  <2> QED BY <2>2, <2>3, <2>5, <2>6, <2>7 DEF SitesInv, t
<1>6. CASE PocketsDone
  <2>1. making = "pockets" /\ Pockets = {} /\ making' = "common" /\ UNCHANGED <<terrain, sites, linked>>
    BY <1>6 DEF PocketsDone
  <2>2. \A c \in Grid : terrain[c] # "barrier" => c \in AnyReach(terrain, sites)
    BY <2>1, ReachIs DEF Pockets
  <2> QED BY <2>1, <2>2 DEF SitesInv
<1>7. CASE PlaceLoose \/ PoolDone \/ UNCHANGED arenaVars
  <2>1. /\ UNCHANGED <<terrain, sites, linked>>
        /\ making' = making \/ (making \in {"common", "regions"} /\ making' \in {"regions", "done"})
    BY <1>7 DEF PlaceLoose, PoolDone, arenaVars
  <2> QED BY <2>1 DEF SitesInv
<1> QED BY <1>1, <1>2, <1>3, <1>4, <1>5, <1>6, <1>7, ConnectedSite DEF ArenaNext

LEMMA LooseNext ==
  ASSUME SitesInv, LooseInv, [ArenaNext]_arenaVars
  PROVE  LooseInv'
<1>1. CASE PlaceLoose
  <2>1. PICK c \in (Draws \cap Pool(making)) \ Occupied : loose' = [loose EXCEPT ![making] = @ \cup {c}]
    BY <1>1 DEF PlaceLoose
  <2>2. making \in {"common", "regions"} /\ UNCHANGED <<making, terrain, sites>>
    BY <1>1 DEF PlaceLoose
  <2>3. c \in Grid /\ c \notin Occupied /\ c \in Pool(making)
    BY <2>1, ArenaAssumption
  <2>4. (\A i \in DOMAIN sites : c \notin Footprint(sites[i])) /\ c \notin loose.common /\ c \notin loose.regions
    <3> DEFINE U == UNION {Footprint(sites[i]) : i \in DOMAIN sites}
    <3>1. \A i \in DOMAIN sites : Footprint(sites[i]) \subseteq U
      OBVIOUS
    <3>2. Occupied = U \cup loose.common \cup loose.regions
      BY DEF Occupied
    <3> HIDE DEF U
    <3> QED BY <2>3, <3>1, <3>2
  <2>5. /\ loose \in [common : SUBSET Grid, regions : SUBSET Grid]
        /\ loose.common \subseteq AllReach(terrain, sites) /\ loose.regions \subseteq AnyReach(terrain, sites)
        /\ \A i \in DOMAIN sites : Footprint(sites[i]) \cap (loose.common \cup loose.regions) = {}
        /\ loose.common \cap loose.regions = {}
    BY DEF LooseInv
  <2>6. CASE making = "common"
    <3>1. c \in AllReach(terrain, sites)
      BY <2>3, <2>6, ReachIs DEF Pool
    <3>2. /\ loose' \in [common : SUBSET Grid, regions : SUBSET Grid]
          /\ loose'.common = loose.common \cup {c} /\ loose'.regions = loose.regions
      BY <2>1, <2>3, <2>5, <2>6
    <3> QED BY <2>2, <2>4, <2>5, <3>1, <3>2 DEF LooseInv, Footprint
  <2>7. CASE making = "regions"
    <3>1. c \in AnyReach(terrain, sites)
      BY <2>3, <2>7, ReachIs DEF Pool
    <3>2. /\ loose' \in [common : SUBSET Grid, regions : SUBSET Grid]
          /\ loose'.common = loose.common /\ loose'.regions = loose.regions \cup {c}
      BY <2>1, <2>3, <2>5, <2>7
    <3> QED BY <2>2, <2>4, <2>5, <3>1, <3>2 DEF LooseInv, Footprint
  <2> QED BY <2>2, <2>6, <2>7
<1>2. CASE PoolDone \/ UNCHANGED arenaVars
  <2>1. UNCHANGED <<terrain, sites, loose>>
        /\ (making' = making \/ making \in {"common", "regions"})
        /\ (making \in {"common", "regions"} => making' \in {"common", "regions", "done"})
    BY <1>2 DEF PoolDone, arenaVars
  <2> QED BY <2>1 DEF LooseInv, Footprint
<1>3. CASE making \in {"terrain", "bases", "roads", "pockets"} /\ loose' = loose
  <2>1. loose' \in [common : SUBSET Grid, regions : SUBSET Grid] /\ loose'.common = {} /\ loose'.regions = {}
    BY <1>3 DEF LooseInv
  <2> QED BY <2>1 DEF LooseInv
<1> QED BY <1>1, <1>2, <1>3
  DEF ArenaNext, Paint, TerrainDone, PlaceBase, Connect, RoadsDone, RepairPocket, PocketsDone

\* However the terrain and the bases fell, on an arena of any size: the match starts with
\* every base reached from every other by every locomotion, no ground sealed, and nothing
\* lying where it cannot be fetched or under a base (generate.go connectBases,
\* repairPockets, scatter).
THEOREM TheArenaIsWhole == ArenaSpec => []ArenaConnected
<1>1. SitesInv /\ LooseInv => ArenaConnected
  <2> SUFFICES ASSUME SitesInv, LooseInv, making = "done" PROVE ArenaConnected
    BY DEF ArenaConnected
  <2>1. /\ sites \in Seq(Grid) /\ sites # <<>>
        /\ \A i \in DOMAIN sites : terrain[sites[i]] = "open" /\ Met(terrain, sites, i)
        /\ \A c \in Grid : terrain[c] # "barrier" => c \in AnyReach(terrain, sites)
    BY DEF SitesInv
  <2>2. 1 \in DOMAIN sites /\ \A i \in DOMAIN sites : sites[i] \in Grid
    <3>1. Len(sites) \in Nat /\ DOMAIN sites = 1..Len(sites) /\ Len(sites) # 0
      BY <2>1, LenProperties, EmptySeq
    <3> QED BY <2>1, <3>1, ElementOfSeq
  <2>3. ASSUME NEW i \in DOMAIN sites, NEW j \in DOMAIN sites, NEW loco \in Locomotions
        PROVE  sites[j] \in Flood(sites[i], loco)
    <3> DEFINE p == GroundFor(terrain, loco)
               x == sites[1]
               y == sites[i]
    <3>1. x \in p /\ p \subseteq Grid
      BY <2>1, <2>2, OpenGround
    <3>2. y \in Reached(p, x) /\ sites[j] \in Reached(p, x)
      BY <2>1 DEF Met
    <3>3. Flood(y, loco) = Reached(p, y)
      BY FloodIs
    <3> HIDE DEF p, x, y
    <3>4. Reached(p, y) = Reached(p, x)
      BY <3>1, <3>2, ReachedBack
    <3> QED BY <3>2, <3>3, <3>4 DEF y
  <2>4. {c \in Grid : terrain[c] # "barrier"} \subseteq Union
    BY <2>1, ReachIs
  <2>5. loose.common \subseteq Common /\ loose.regions \subseteq Union
    BY ReachIs DEF LooseInv
  <2> QED BY <2>3, <2>4, <2>5 DEF ArenaConnected, LooseInv
<1>2. SitesInv /\ LooseInv /\ [ArenaNext]_arenaVars => (SitesInv /\ LooseInv)'
  BY SitesNext, LooseNext
<1> QED BY ArenaInvInit, <1>1, <1>2, PTL DEF ArenaSpec
=============================================================================
