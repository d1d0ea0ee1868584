----------------------------- MODULE MatchProofs ------------------------------
(***************************************************************************)
(* Proofs about Match.tla, for every number of players, builds, ticks,     *)
(* stops and commands, and for every set of faults the theorem allows.     *)
(***************************************************************************)
EXTENDS Match, SequenceTheorems, TLAPS

\* A snapshot of a well-typed match is a record.
LEMMA SnapshotType ==
  ASSUME TypeOK
  PROVE  Snapshot \in Record
BY DEF TypeOK, Snapshot, Record

\* A tick keeps the world and the end flag within their types.
LEMMA StepType ==
  ASSUME TypeOK, Step
  PROVE  /\ tick' \in Nat /\ finished' \in BOOLEAN
         /\ UNCHANGED <<inputs, log, replayed>>
<1>1. (tick + 1 >= EndTick) \in BOOLEAN
  OBVIOUS
<1> QED
  BY <1>1 DEF TypeOK, Step

\* So do a new match, for a log of commands, and the loss of the memory.
LEMMA NewMatchType ==
  ASSUME NEW cmds \in Seq(Input), NewMatch(cmds)
  PROVE  inputs' \in Seq(Input) /\ log' \in Seq(Input)
BY EmptySeq DEF NewMatch

LEMMA LoseMemoryType ==
  ASSUME LoseMemory
  PROVE  inputs' \in Seq(Input) /\ log' \in Seq(Input)
BY EmptySeq DEF LoseMemory

LEMMA NoInputs == <<>> \in Seq(Input)
BY EmptySeq

\* Every step keeps every variable within its type.
LEMMA TypeStep ==
  ASSUME TypeOK, [Next]_vars
  PROVE  TypeOK'
<1> USE DEF TypeOK, dbVars, driverVars, matchVars, procVars, reqVars
<1>1. CASE StartFlip
  BY <1>1 DEF StartFlip
<1>2. CASE StartStep
  <2>1. CASE StartRegister
    <3>1. inputs' \in Seq(Input) /\ log' \in Seq(Input)
      BY <2>1, NoInputs, NewMatchType DEF StartRegister
    <3> QED
      BY <2>1, <3>1 DEF StartRegister, NewMatch, Launch
  <2> QED
    BY <1>2, <2>1 DEF StartStep, StartFails, StartReopens, StartReopenFails
<1>3. ASSUME NEW p \in Players, CommandChecked(p) PROVE TypeOK'
  BY <1>3 DEF CommandChecked
<1>4. ASSUME NEW p \in Players, CommandApplied(p) PROVE TypeOK'
  <2>1. [tick |-> tick, by |-> p] \in Input
    BY DEF Input
  <2>2. inputs' \in Seq(Input) /\ log' \in Seq(Input)
    BY <1>4, <2>1, AppendProperties DEF CommandApplied
  <2> QED
    BY <1>4, <2>2 DEF CommandApplied
<1>5. ASSUME NEW p \in Players, CommandRefused(p) PROVE TypeOK'
  BY <1>5 DEF CommandRefused
<1>6. CASE DriverSave
  BY <1>6, SnapshotType DEF DriverSave, DriverCopies, DriverWrites, DriverWriteFails
<1>7. CASE DriverTick
  <2>1. Step
    BY <1>7 DEF DriverTick, DriverTicks, DriverTicksAndSaves, DriverFinishes
  <2> QED
    BY <1>7, <2>1, StepType DEF DriverTick, DriverTicks, DriverTicksAndSaves, DriverFinishes
<1>8. CASE DriverEnd
  BY <1>8 DEF DriverEnd, DriverSettles, DriverSettleFails, DriverSuspends
<1>9. CASE RestoreStep
  <2>1. CASE RestoreReads
    <3>1. rec # NoRecord => rec.log \in Seq(Input)
      BY DEF Record
    <3>2. inputs' \in Seq(Input) /\ log' \in Seq(Input)
      BY <2>1, <3>1, NewMatchType DEF RestoreReads
    <3>3. UNCHANGED matchVars \/ NewMatch(rec.log)
      BY <2>1 DEF RestoreReads
    <3>4. finished' \in BOOLEAN /\ replayed' \in Nat /\ tick' \in Nat
      <4>1. CASE UNCHANGED matchVars
        BY <4>1
      <4>2. CASE NewMatch(rec.log)
        BY <4>2 DEF NewMatch
      <4> QED
        BY <3>3, <4>1, <4>2
    <3>5. proc' \in ProcStates
      BY <2>1 DEF RestoreReads, ProcStates
    <3>6. UNCHANGED <<dbVars, build, stops, reqVars, driverVars, abandoned>>
      BY <2>1 DEF RestoreReads
    <3> QED
      BY <3>2, <3>4, <3>5, <3>6
  <2>2. CASE ReplayCommand
    <3>1. replayed + 1 \in 1..Len(log)
      BY <2>2 DEF ReplayCommand, Due
    <3>2. log[replayed + 1] \in Input
      BY <3>1, ElementOfSeq
    <3>3. [tick |-> tick, by |-> log[replayed + 1].by] \in Input
      BY <3>2 DEF Input
    <3>4. inputs' \in Seq(Input)
      BY <2>2, <3>3, AppendProperties DEF ReplayCommand
    <3> QED
      BY <2>2, <3>4 DEF ReplayCommand
  <2>3. CASE ReplayStep
    BY <2>3, StepType DEF ReplayStep
  <2>4. CASE ReplayReturns
    BY <2>4 DEF ReplayReturns, Launch, ProcStates
  <2>5. CASE RestoreLists \/ RestoreReadFails \/ RestoreSettles \/ RestoreDeletes
    BY <2>5 DEF RestoreLists, RestoreReadFails, RestoreSettles, RestoreDeletes, ProcStates
  <2>6. CASE RestoreAbandons
    <3>1. inputs' \in Seq(Input) /\ log' \in Seq(Input)
      BY <2>6, NoInputs, NewMatchType DEF RestoreAbandons
    <3> QED
      BY <2>6, <3>1 DEF RestoreAbandons, NewMatch, ProcStates
  <2> QED
    BY <1>9, <2>1, <2>2, <2>3, <2>4, <2>5, <2>6 DEF RestoreStep
<1>10. CASE ProcessStep
  <2>1. CASE Crash \/ Exit
    <3>1. inputs' \in Seq(Input) /\ log' \in Seq(Input)
      BY <2>1, LoseMemoryType DEF Crash, Exit
    <3>2. proc' \in ProcStates /\ stops' \in Nat /\ UNCHANGED <<row, rec, build, abandoned>>
      BY <2>1, ConstantsAssumption DEF Crash, Exit, ProcStates
    <3>3. LoseMemory
      BY <2>1 DEF Crash, Exit
    <3> QED
      BY <3>1, <3>2, <3>3 DEF LoseMemory
  <2> QED
    BY <1>10, <2>1 DEF ProcessStep, Boot, Signal, StopDrivers, ProcStates
<1>11. CASE UNCHANGED vars
  BY <1>11 DEF vars
<1> QED
  BY <1>1, <1>2, <1>3, <1>4, <1>5, <1>6, <1>7, <1>8, <1>9, <1>10, <1>11 DEF Next, CommandStep

\* Every variable of the match keeps its type: in particular the row on disk is
\* always a whole record and the log a sequence of stamped commands.
THEOREM TypeCorrect == Spec => []TypeOK
<1>1. Init => TypeOK
  <2> SUFFICES ASSUME Init PROVE TypeOK
    OBVIOUS
  <2>1. inputs \in Seq(Input) /\ log \in Seq(Input)
    BY NoInputs DEF Init, NoMatch
  <2> QED
    BY <2>1 DEF Init, TypeOK, NoDriver, NoMatch, ProcStates
<1>2. TypeOK /\ [Next]_vars => TypeOK'
  BY TypeStep
<1> QED
  BY <1>1, <1>2, PTL DEF Spec

------------------------------------------------------------------------------
\* The order of a log.

LEMMA InOrderEmpty ==
  ASSUME NEW t \in Nat
  PROVE  InOrder(<<>>, t)
BY DEF InOrder

LEMMA LoggedTicks ==
  ASSUME NEW cmds \in Seq(Input)
  PROVE  \A i \in 1..Len(cmds) : cmds[i].tick \in Nat
<1>1. \A i \in 1..Len(cmds) : cmds[i] \in Input
  BY ElementOfSeq
<1> QED
  BY <1>1 DEF Input

LEMMA InOrderLater ==
  ASSUME NEW cmds \in Seq(Input), NEW t \in Nat, NEW u \in Nat, t <= u, InOrder(cmds, t)
  PROVE  InOrder(cmds, u)
<1>1. \A i \in DOMAIN cmds : cmds[i].tick \in Nat
  BY LoggedTicks, LenProperties
<1>2. \A i \in DOMAIN cmds : cmds[i].tick <= u
  BY <1>1 DEF InOrder
<1> QED
  BY <1>2 DEF InOrder

\* A command given at the tick the log has got to keeps it in order.
LEMMA InOrderAppend ==
  ASSUME NEW cmds \in Seq(Input), NEW t \in Nat, NEW cmd \in Input, cmd.tick = t,
         InOrder(cmds, t)
  PROVE  InOrder(Append(cmds, cmd), t)
<1> DEFINE longer == Append(cmds, cmd)
<1>1. /\ longer \in Seq(Input) /\ Len(longer) = Len(cmds) + 1
      /\ longer[Len(cmds) + 1] = cmd
      /\ \A i \in 1..Len(cmds) : longer[i] = cmds[i]
      /\ Len(cmds) \in Nat
  BY AppendProperties, LenProperties
<1>2. DOMAIN cmds = 1..Len(cmds) /\ DOMAIN longer = 1..(Len(cmds) + 1)
  BY <1>1, LenProperties
<1>3. \A i \in 1..Len(cmds) : longer[i].tick <= t
  BY <1>1, <1>2 DEF InOrder
<1>4. \A i, j \in 1..Len(cmds) : i <= j => longer[i].tick <= longer[j].tick
  BY <1>1, <1>2 DEF InOrder
<1> HIDE DEF longer
<1>5. \A i \in DOMAIN longer : i \in 1..Len(cmds) \/ i = Len(cmds) + 1
  BY <1>1, <1>2
<1>6. \A i \in DOMAIN longer : longer[i].tick <= t
  BY <1>1, <1>3, <1>5
<1>7. ASSUME NEW i \in DOMAIN longer, NEW j \in DOMAIN longer, i <= j
      PROVE  longer[i].tick <= longer[j].tick
  <2>1. CASE j = Len(cmds) + 1
    BY <2>1, <1>1, <1>6
  <2>2. CASE j \in 1..Len(cmds)
    BY <2>2, <1>7, <1>1, <1>2, <1>4
  <2> QED
    BY <2>1, <2>2, <1>5
<1>8. InOrder(longer, t)
  BY <1>6, <1>7 DEF InOrder
<1> QED
  BY <1>8 DEF longer

------------------------------------------------------------------------------
\* The inductive invariant, part by part: each lemma says what a step needs of
\* the other parts to keep its own.

LEMMA ProcessInvStep ==
  ASSUME ProcessInv, StartInv, DriverInv, [Next]_vars
  PROVE  ProcessInv'
<1> USE DEF ProcessInv, Handling, Requesting, Closed, Registered, NoDriver,
            dbVars, driverVars, matchVars, procVars, reqVars
<1>1. CASE StartFlip
  BY <1>1 DEF StartFlip, StartInv
<1>2. CASE StartStep
  BY <1>2 DEF StartStep, StartRegister, Launch, StartFails, StartReopens, StartReopenFails
<1>3. ASSUME NEW p \in Players, CommandChecked(p) PROVE ProcessInv'
  BY <1>3 DEF CommandChecked
<1>4. ASSUME NEW p \in Players, CommandStep(p) PROVE ProcessInv'
  BY <1>4 DEF CommandStep, CommandApplied, CommandRefused
<1>5. CASE DriverSave
  BY <1>5 DEF DriverSave, DriverCopies, DriverWrites, DriverWriteFails, DriverInv
<1>6. CASE DriverTick
  BY <1>6 DEF DriverTick, DriverTicks, DriverTicksAndSaves, DriverFinishes
<1>7. CASE DriverEnd
  BY <1>7 DEF DriverEnd, DriverSettles, DriverSettleFails, DriverSuspends
<1>8. CASE RestoreStep
  BY <1>8 DEF RestoreStep, RestoreLists, RestoreReads, RestoreReadFails, ReplayCommand,
              ReplayStep, ReplayReturns, Launch, RestoreSettles, RestoreAbandons,
              RestoreDeletes
<1>9. CASE ProcessStep
  BY <1>9 DEF ProcessStep, Boot, Crash, Signal, StopDrivers, Exit, LoseMemory
<1>10. CASE UNCHANGED vars
  BY <1>10 DEF vars
<1> QED
  BY <1>1, <1>2, <1>3, <1>4, <1>5, <1>6, <1>7, <1>8, <1>9, <1>10 DEF Next

LEMMA StartInvStep ==
  ASSUME ProcessInv, StartInv, DriverInv, [Next]_vars
  PROVE  StartInv'
<1> USE DEF StartInv, Registered, dbVars, driverVars, matchVars, procVars, reqVars
<1>1. CASE StartFlip
  BY <1>1 DEF StartFlip
<1>2. CASE StartStep
  BY <1>2 DEF StartStep, StartRegister, Launch, StartFails, StartReopens, StartReopenFails
<1>3. ASSUME NEW p \in Players, CommandChecked(p) PROVE StartInv'
  BY <1>3 DEF CommandChecked
<1>4. ASSUME NEW p \in Players, CommandStep(p) PROVE StartInv'
  BY <1>4 DEF CommandStep, CommandApplied, CommandRefused
<1>5. CASE DriverSave
  BY <1>5 DEF DriverSave, DriverCopies, DriverWrites, DriverWriteFails, DriverInv
<1>6. CASE DriverTick
  BY <1>6 DEF DriverTick, DriverTicks, DriverTicksAndSaves, DriverFinishes
<1>7. CASE DriverEnd
  BY <1>7 DEF DriverEnd, DriverSettles, DriverSettleFails, DriverSuspends
<1>8. CASE RestoreStep
  BY <1>8 DEF RestoreStep, RestoreLists, RestoreReads, RestoreReadFails, ReplayCommand,
              ReplayStep, ReplayReturns, Launch, RestoreSettles, RestoreAbandons,
              RestoreDeletes, ProcessInv, Handling
<1>9. CASE ProcessStep
  BY <1>9 DEF ProcessStep, Boot, Crash, Signal, StopDrivers, Exit, LoseMemory
<1>10. CASE UNCHANGED vars
  BY <1>10 DEF vars
<1> QED
  BY <1>1, <1>2, <1>3, <1>4, <1>5, <1>6, <1>7, <1>8, <1>9, <1>10 DEF Next

\* Who writes the record: the driver's save and the end of an abandonment.
LEMMA RecordMoves ==
  ASSUME [Next]_vars
  PROVE  rec' = rec \/ DriverWrites \/ RestoreDeletes
<1> USE DEF dbVars, driverVars, matchVars, procVars, reqVars
<1>1. CASE StartFlip \/ StartStep
  BY <1>1 DEF StartFlip, StartStep, StartRegister, StartFails, StartReopens, StartReopenFails
<1>2. ASSUME NEW p \in Players, CommandChecked(p) \/ CommandStep(p) PROVE rec' = rec
  BY <1>2 DEF CommandChecked, CommandStep, CommandApplied, CommandRefused
<1>3. CASE DriverSave \/ DriverTick \/ DriverEnd
  BY <1>3 DEF DriverSave, DriverCopies, DriverWriteFails, DriverTick, DriverTicks,
              DriverTicksAndSaves, DriverFinishes, DriverEnd, DriverSettles,
              DriverSettleFails, DriverSuspends
<1>4. CASE RestoreStep
  BY <1>4 DEF RestoreStep, RestoreLists, RestoreReads, RestoreReadFails, ReplayCommand,
              ReplayStep, ReplayReturns, RestoreSettles, RestoreAbandons
<1>5. CASE ProcessStep
  BY <1>5 DEF ProcessStep, Boot, Crash, Signal, StopDrivers, Exit
<1>6. CASE UNCHANGED vars
  BY <1>6 DEF vars
<1> QED
  BY <1>1, <1>2, <1>3, <1>4, <1>5, <1>6 DEF Next

\* Who touches a match that is in the registry after the step.
LEMMA MatchMoves ==
  ASSUME ProcessInv, [Next]_vars, Registered'
  PROVE  \/ Registered /\ UNCHANGED matchVars
         \/ StartRegister \/ DriverTick
         \/ \E p \in Players : CommandApplied(p)
         \/ ReplayReturns /\ tick = rec.tick /\ replayed = Len(log) /\ UNCHANGED matchVars
<1> USE DEF Registered, ProcessInv, Handling, dbVars, driverVars, procVars, reqVars
<1>1. CASE StartFlip \/ StartStep
  BY <1>1 DEF StartFlip, StartStep, StartFails, StartReopens, StartReopenFails
<1>2. ASSUME NEW p \in Players, CommandChecked(p) \/ CommandRefused(p)
      PROVE  Registered /\ UNCHANGED matchVars
  BY <1>2 DEF CommandChecked, CommandRefused
<1>3. CASE DriverSave \/ DriverEnd
  BY <1>3 DEF DriverSave, DriverCopies, DriverWrites, DriverWriteFails, DriverEnd,
              DriverSettles, DriverSettleFails, DriverSuspends
<1>4. CASE RestoreStep
  BY <1>4 DEF RestoreStep, RestoreLists, RestoreReads, RestoreReadFails, ReplayCommand,
              ReplayStep, ReplayReturns, RestoreSettles, RestoreAbandons, RestoreDeletes
<1>5. CASE ProcessStep
  BY <1>5 DEF ProcessStep, Boot, Crash, Signal, StopDrivers, Exit, LoseMemory
<1>6. CASE UNCHANGED vars
  BY <1>6 DEF vars
<1> QED
  BY <1>1, <1>2, <1>3, <1>4, <1>5, <1>6 DEF Next, CommandStep

\* Who runs while a match is replayed: the replay alone.
LEMMA ReplayMoves ==
  ASSUME ProcessInv, [Next]_vars, proc' = "replay"
  PROVE  RestoreReads \/ ReplayCommand \/ ReplayStep \/ UNCHANGED vars
<1> USE DEF Registered, ProcessInv, Handling, NoDriver, dbVars, driverVars, procVars, reqVars
<1>1. CASE StartFlip \/ StartStep
  BY <1>1 DEF StartFlip, StartStep, StartRegister, StartFails, StartReopens, StartReopenFails
<1>2. ASSUME NEW p \in Players, CommandChecked(p) \/ CommandStep(p) PROVE FALSE
  BY <1>2 DEF CommandChecked, CommandStep, CommandApplied, CommandRefused
<1>3. CASE DriverSave \/ DriverTick \/ DriverEnd
  BY <1>3 DEF DriverSave, DriverCopies, DriverWrites, DriverWriteFails, DriverTick,
              DriverTicks, DriverTicksAndSaves, DriverFinishes, DriverEnd,
              DriverSettles, DriverSettleFails, DriverSuspends
<1>4. CASE RestoreStep
  BY <1>4 DEF RestoreStep, RestoreLists, RestoreReadFails, ReplayReturns, RestoreSettles,
              RestoreAbandons, RestoreDeletes
<1>5. CASE ProcessStep
  BY <1>5 DEF ProcessStep, Boot, Crash, Signal, StopDrivers, Exit
<1> QED
  BY <1>1, <1>2, <1>3, <1>4, <1>5 DEF Next

\* A record is written as the match stood when it was copied, and the driver does
\* not tick in between.
LEMMA RecordInvStep ==
  ASSUME TypeOK, RecordInv, MatchInv, DriverInv, [Next]_vars
  PROVE  RecordInv'
<1>1. CASE rec' = rec
  BY <1>1 DEF RecordInv, InOrder
<1>2. CASE DriverWrites
  <2>1. /\ rec' = copy /\ InOrder(copy.log, copy.tick)
        /\ copy.tick = tick /\ copy.finished = finished
    BY <1>2 DEF DriverWrites, DriverInv
  <2>2. tick <= EndTick /\ (finished <=> tick = EndTick)
    BY <1>2 DEF DriverWrites, MatchInv, Registered
  <2> QED
    BY <2>1, <2>2 DEF RecordInv, InOrder
<1>3. CASE RestoreDeletes
  BY <1>3 DEF RestoreDeletes, RecordInv
<1> QED
  BY <1>1, <1>2, <1>3, RecordMoves

\* The match the replay hands over has taken every command of its log.
LEMMA ReplayedAll ==
  ASSUME TypeOK, ReplayInv, proc = "replay", replayed = Len(log)
  PROVE  inputs = log
<1>1. inputs \in Seq(Input) /\ log \in Seq(Input) /\ Len(inputs) = Len(log)
  BY DEF TypeOK, ReplayInv
<1>2. \A i \in 1..Len(log) : inputs[i] = log[i]
  BY DEF ReplayInv
<1> QED
  BY <1>1, <1>2, SeqEqual

LEMMA MatchInvStep ==
  ASSUME TypeOK, ProcessInv, RecordInv, MatchInv, DriverInv, ReplayInv, [Next]_vars
  PROVE  MatchInv'
<1> SUFFICES ASSUME Registered'
             PROVE  /\ inputs' = log' /\ InOrder(log', tick') /\ tick' <= EndTick
                    /\ finished' <=> tick' = EndTick
  BY DEF MatchInv, InOrder
<1> USE DEF matchVars
<1>1. CASE Registered /\ UNCHANGED matchVars
  BY <1>1 DEF MatchInv
<1>2. CASE StartRegister
  <2>1. tick' = 0 /\ inputs' = <<>> /\ log' = <<>> /\ finished' = FALSE
    BY <1>2 DEF StartRegister, NewMatch
  <2>2. InOrder(<<>>, 0)
    BY InOrderEmpty
  <2> QED
    BY <2>1, <2>2, ConstantsAssumption
<1>3. CASE DriverTick
  <2>1. Registered /\ Step /\ ~finished
    BY <1>3 DEF DriverTick, DriverTicks, DriverTicksAndSaves, DriverFinishes, Registered, Step
  <2>2. tick \in Nat /\ log \in Seq(Input) /\ EndTick \in Nat
    BY ConstantsAssumption DEF TypeOK
  <2>3. inputs = log /\ InOrder(log, tick) /\ tick <= EndTick /\ tick # EndTick
    BY <2>1 DEF MatchInv
  <2>4. tick' = tick + 1 /\ finished' = (tick + 1 >= EndTick) /\ UNCHANGED <<inputs, log>>
    BY <2>1 DEF Step
  <2>5. InOrder(log, tick + 1)
    BY <2>2, <2>3, InOrderLater
  <2>6. tick + 1 <= EndTick /\ (tick + 1 >= EndTick <=> tick + 1 = EndTick)
    BY <2>2, <2>3
  <2>7. finished' <=> tick' = EndTick
    BY <2>4, <2>6
  <2> QED
    BY <2>3, <2>4, <2>5, <2>6, <2>7
<1>4. ASSUME NEW p \in Players, CommandApplied(p)
      PROVE  /\ inputs' = log' /\ InOrder(log', tick') /\ tick' <= EndTick
             /\ finished' <=> tick' = EndTick
  <2> DEFINE cmd == [tick |-> tick, by |-> p]
  <2>1. Registered
    BY <1>4 DEF CommandApplied, driverVars, Registered
  <2>2. cmd \in Input /\ cmd.tick = tick /\ tick \in Nat /\ log \in Seq(Input)
    BY DEF TypeOK, Input
  <2>3. inputs = log /\ InOrder(log, tick) /\ tick <= EndTick /\ (finished <=> tick = EndTick)
    BY <2>1 DEF MatchInv
  <2>4. inputs' = Append(inputs, cmd) /\ log' = Append(log, cmd) /\ UNCHANGED <<tick, finished>>
    BY <1>4 DEF CommandApplied
  <2> HIDE DEF cmd
  <2>5. InOrder(Append(log, cmd), tick)
    BY <2>2, <2>3, InOrderAppend
  <2> QED
    BY <2>3, <2>4, <2>5
<1>5. CASE ReplayReturns /\ tick = rec.tick /\ replayed = Len(log) /\ UNCHANGED matchVars
  <2>1. proc = "replay"
    BY <1>5 DEF ReplayReturns
  <2>2. inputs = log
    BY <1>5, <2>1, ReplayedAll
  <2>3. rec # NoRecord /\ rec.tick < EndTick /\ log = rec.log /\ ~finished
    BY <2>1 DEF ReplayInv
  <2>4. InOrder(log, tick) /\ tick < EndTick
    BY <1>5, <2>3 DEF RecordInv
  <2>5. tick \in Nat /\ EndTick \in Nat
    BY ConstantsAssumption DEF TypeOK
  <2> QED
    BY <1>5, <2>2, <2>3, <2>4, <2>5
<1> QED
  BY <1>1, <1>2, <1>3, <1>4, <1>5, MatchMoves

LEMMA DriverInvStep ==
  ASSUME TypeOK, ProcessInv, MatchInv, DriverInv, ReplayInv, [Next]_vars
  PROVE  DriverInv'
<1> USE DEF DriverInv, Closed, dbVars, driverVars, matchVars, procVars, reqVars
<1>1. CASE StartFlip
  BY <1>1 DEF StartFlip, InOrder
<1>2. CASE StartStep
  BY <1>2 DEF StartStep, StartRegister, Launch, NewMatch, StartFails, StartReopens,
              StartReopenFails, InOrder
<1>3. ASSUME NEW p \in Players, CommandChecked(p) PROVE DriverInv'
  BY <1>3 DEF CommandChecked, InOrder
<1>4. ASSUME NEW p \in Players, CommandApplied(p) PROVE DriverInv'
  BY <1>4 DEF CommandApplied, InOrder
<1>5. ASSUME NEW p \in Players, CommandRefused(p) PROVE DriverInv'
  BY <1>5 DEF CommandRefused, InOrder
<1>6. CASE DriverCopies
  <2>1. copy' = Snapshot /\ Snapshot # NoRecord
    BY <1>6, SnapshotType, ConstantsAssumption DEF DriverCopies
  <2>2. InOrder(log, tick)
    BY <1>6 DEF DriverCopies, MatchInv, Registered
  <2> QED
    BY <1>6, <2>1, <2>2 DEF DriverCopies, Snapshot, InOrder
<1>7. CASE DriverWrites \/ DriverWriteFails
  BY <1>7 DEF DriverWrites, DriverWriteFails, InOrder, TypeOK
<1>8. CASE DriverTick
  BY <1>8 DEF DriverTick, DriverTicks, DriverTicksAndSaves, DriverFinishes, InOrder
<1>9. CASE DriverEnd
  BY <1>9 DEF DriverEnd, DriverSettles, DriverSettleFails, DriverSuspends, InOrder
<1>10. CASE RestoreStep
  BY <1>10 DEF RestoreStep, RestoreLists, RestoreReads, RestoreReadFails, ReplayCommand,
              ReplayStep, ReplayReturns, Launch, RestoreSettles, RestoreAbandons,
              RestoreDeletes, ReplayInv, ProcessInv, Handling, Registered, NoDriver
<1>11. CASE ProcessStep
  BY <1>11 DEF ProcessStep, Boot, Crash, Signal, StopDrivers, Exit, LoseMemory,
              ProcessInv, Handling, Registered, NoDriver, InOrder
<1>12. CASE UNCHANGED vars
  BY <1>12 DEF vars, InOrder
<1> QED
  BY <1>1, <1>2, <1>3, <1>4, <1>5, <1>6, <1>7, <1>8, <1>9, <1>10, <1>11, <1>12
  DEF Next, CommandStep, DriverSave

\* While there is a match, its record is never ahead of it, and a finished record
\* never behind.
LEMMA SavedInvStep ==
  ASSUME TypeOK, ProcessInv, StartInv, RecordInv, MatchInv, DriverInv, SavedInv,
         ReplayInv, [Next]_vars
  PROVE  SavedInv'
<1> SUFFICES ASSUME Registered', rec' # NoRecord
             PROVE  /\ rec'.tick <= tick'
                    /\ rec'.finished => driver' \in {"settle", "gone"} /\ rec'.log = log'
  BY DEF SavedInv
<1>t. tick \in Nat /\ EndTick \in Nat /\ (rec # NoRecord => rec.tick \in Nat)
  BY ConstantsAssumption DEF TypeOK, Record
<1>1. CASE DriverWrites
  <2>1. copy.tick = tick /\ copy.finished = finished /\ (finished => copy.log = log /\ after = "settle")
    BY <1>1 DEF DriverWrites, DriverInv
  <2>2. rec' = copy /\ driver' = after /\ UNCHANGED matchVars
    BY <1>1 DEF DriverWrites
  <2> QED
    BY <2>1, <2>2, <1>t DEF matchVars
<1>2. CASE RestoreDeletes
  BY <1>2 DEF RestoreDeletes
<1>3. CASE rec' = rec
  <2>1. rec.finished /\ Registered => finished
    BY <1>3, <1>t DEF RecordInv, SavedInv, MatchInv
  <2>2. CASE Registered /\ UNCHANGED matchVars
    <3>1. driver \in {"settle", "gone"} => driver' \in {"settle", "gone", "none"}
      <4> USE DEF dbVars, driverVars, matchVars, procVars, reqVars
      <4>1. CASE StartFlip \/ StartStep
        BY <4>1, <2>2 DEF StartFlip, StartStep, StartRegister, StartFails, StartReopens,
                          StartReopenFails
      <4>2. ASSUME NEW p \in Players, CommandChecked(p) \/ CommandStep(p)
            PROVE  driver' = driver
        BY <4>2 DEF CommandChecked, CommandStep, CommandApplied, CommandRefused
      <4>3. CASE DriverSave \/ DriverTick \/ DriverEnd
        BY <4>3 DEF DriverSave, DriverCopies, DriverWrites, DriverWriteFails, DriverTick,
                    DriverTicks, DriverTicksAndSaves, DriverFinishes, DriverEnd,
                    DriverSettles, DriverSettleFails, DriverSuspends
      <4>4. CASE RestoreStep
        BY <4>4, <2>2 DEF RestoreStep, RestoreLists, RestoreReads, RestoreReadFails,
                    ReplayCommand, ReplayStep, ReplayReturns, RestoreSettles,
                    RestoreAbandons, RestoreDeletes, ProcessInv, Handling
      <4>5. CASE ProcessStep
        BY <4>5 DEF ProcessStep, Boot, Crash, Signal, StopDrivers, Exit, LoseMemory
      <4>6. CASE UNCHANGED vars
        BY <4>6 DEF vars
      <4> QED
        BY <4>1, <4>2, <4>3, <4>4, <4>5, <4>6 DEF Next
    <3> QED
      BY <2>2, <1>3, <3>1 DEF SavedInv, matchVars, Registered
  <2>3. CASE StartRegister
    BY <2>3, <1>3 DEF StartRegister, StartInv
  <2>4. CASE DriverTick
    BY <2>4, <1>3, <2>1, <1>t DEF DriverTick, DriverTicks, DriverTicksAndSaves, DriverFinishes,
                                  Step, Registered, SavedInv
  <2>5. ASSUME NEW p \in Players, CommandApplied(p)
        PROVE  /\ rec'.tick <= tick'
               /\ rec'.finished => driver' \in {"settle", "gone"} /\ rec'.log = log'
    BY <2>5, <1>3, <2>1 DEF CommandApplied, SavedInv, Registered, driverVars
  <2>6. CASE ReplayReturns /\ tick = rec.tick /\ replayed = Len(log) /\ UNCHANGED matchVars
    BY <2>6, <1>3, <1>t DEF ReplayReturns, ReplayInv, RecordInv, matchVars
  <2> QED
    BY <2>2, <2>3, <2>4, <2>5, <2>6, MatchMoves
<1> QED
  BY <1>1, <1>2, <1>3, RecordMoves

LEMMA ReplayInvStep ==
  ASSUME TypeOK, ProcessInv, RecordInv, ReplayInv, [Next]_vars
  PROVE  ReplayInv'
<1> SUFFICES ASSUME proc' = "replay"
             PROVE  /\ rec' # NoRecord /\ rec'.build = build' /\ rec'.tick < EndTick
                    /\ log' = rec'.log
                    /\ tick' <= rec'.tick /\ ~finished'
                    /\ replayed' <= Len(log') /\ Len(inputs') = replayed'
                    /\ \A i \in 1..replayed' : inputs'[i] = log'[i]
                    /\ \A i \in (replayed' + 1)..Len(log') : tick' <= log'[i].tick
  BY DEF ReplayInv
<1> USE DEF dbVars, driverVars, matchVars, procVars, reqVars
<1>1. CASE RestoreReads
  <2>1. /\ rec # NoRecord /\ ~Unusable /\ NewMatch(rec.log) /\ UNCHANGED <<rec, build>>
    BY <1>1 DEF RestoreReads
  <2>2. rec \in Record /\ EndTick \in Nat
    BY <2>1, ConstantsAssumption DEF TypeOK
  <2>3. rec.tick \in Nat /\ rec.log \in Seq(Input) /\ rec.build = build /\ rec.tick < EndTick
    BY <2>1, <2>2 DEF Record, Unusable
  <2>4. /\ log' = rec.log /\ tick' = 0 /\ inputs' = <<>> /\ replayed' = 0 /\ finished' = FALSE
    BY <2>1 DEF NewMatch
  <2>5. \A i \in 1..Len(rec.log) : rec.log[i].tick \in Nat
    BY <2>3, LoggedTicks
  <2>6. Len(rec.log) \in Nat /\ Len(<<>>) = 0
    BY <2>3, LenProperties
  <2> QED
    BY <2>1, <2>3, <2>4, <2>5, <2>6
<1>2. CASE ReplayCommand
  <2>1. /\ proc = "replay" /\ Due /\ UNCHANGED <<rec, build, tick, log, finished>>
        /\ inputs' = Append(inputs, [tick |-> tick, by |-> log[replayed + 1].by])
        /\ replayed' = replayed + 1
    BY <1>2 DEF ReplayCommand
  <2>2. /\ inputs \in Seq(Input) /\ log \in Seq(Input) /\ replayed \in Nat /\ Len(log) \in Nat
        /\ tick \in Nat
    BY LenProperties DEF TypeOK
  <2>3. replayed + 1 \in 1..Len(log) /\ log[replayed + 1].tick = tick
    BY <2>1, <2>2 DEF Due
  <2>4. log[replayed + 1] \in Input
    BY <2>2, <2>3, ElementOfSeq
  <2>5. log[replayed + 1] = [tick |-> tick, by |-> log[replayed + 1].by]
    BY <2>3, <2>4 DEF Input
  <2>6. Len(inputs) = replayed /\ \A i \in 1..replayed : inputs[i] = log[i]
    BY <2>1 DEF ReplayInv
  <2>7. /\ Len(inputs') = replayed' /\ inputs'[replayed + 1] = log[replayed + 1]
        /\ \A i \in 1..replayed : inputs'[i] = inputs[i]
    BY <2>1, <2>2, <2>4, <2>5, <2>6, AppendProperties
  <2>8. \A i \in 1..replayed' : inputs'[i] = log'[i]
    BY <2>1, <2>2, <2>6, <2>7
  <2>9. \A i \in (replayed' + 1)..Len(log') : tick' <= log'[i].tick
    BY <2>1, <2>2 DEF ReplayInv
  <2> QED
    BY <2>1, <2>2, <2>3, <2>7, <2>8, <2>9 DEF ReplayInv
<1>3. CASE ReplayStep
  <2>1. /\ proc = "replay" /\ ~Due /\ ~OutOfOrder /\ tick < rec.tick
        /\ UNCHANGED <<rec, build, log, inputs, replayed>>
        /\ tick' = tick + 1 /\ finished' = (tick + 1 >= EndTick)
    BY <1>3 DEF ReplayStep, Step
  <2>2. rec # NoRecord /\ rec.tick < EndTick /\ log = rec.log
    BY <2>1 DEF ReplayInv
  <2>3. /\ rec.tick \in Nat /\ EndTick \in Nat /\ tick \in Nat /\ replayed \in Nat
        /\ log \in Seq(Input) /\ Len(log) \in Nat
    BY <2>2, ConstantsAssumption, LenProperties DEF TypeOK, Record
  <2>4. tick + 1 <= rec.tick /\ ~(tick + 1 >= EndTick)
    BY <2>1, <2>2, <2>3
  <2>5. ASSUME NEW i \in (replayed + 1)..Len(log) PROVE tick + 1 <= log[i].tick
    <3>1. replayed + 1 \in 1..Len(log) /\ i \in 1..Len(log) /\ replayed + 1 <= i
          /\ DOMAIN log = 1..Len(log)
      BY <2>3, LenProperties
    <3>2. log[replayed + 1].tick \in Nat /\ log[i].tick \in Nat
      BY <2>3, <3>1, LoggedTicks
    <3>3. log[replayed + 1].tick > tick
      BY <2>1, <2>3, <3>1, <3>2 DEF Due, OutOfOrder
    <3>4. log[replayed + 1].tick <= log[i].tick
      BY <2>2, <3>1 DEF RecordInv, InOrder
    <3> QED
      BY <2>3, <3>2, <3>3, <3>4
  <2> QED
    BY <2>1, <2>2, <2>4, <2>5 DEF ReplayInv
<1>4. CASE UNCHANGED vars
  BY <1>4 DEF vars, ReplayInv
<1> QED
  BY <1>1, <1>2, <1>3, <1>4, ReplayMoves

LEMMA InvInit == Init => Inv
<1> SUFFICES ASSUME Init PROVE Inv
  OBVIOUS
<1>1. inputs \in Seq(Input) /\ log \in Seq(Input)
  BY NoInputs DEF Init, NoMatch
<1>2. TypeOK
  BY <1>1 DEF Init, TypeOK, NoDriver, NoMatch, ProcStates
<1> QED
  BY <1>2 DEF Init, Inv, ProcessInv, StartInv, RecordInv, MatchInv, DriverInv, SavedInv,
              ReplayInv, Handling, Registered, NoDriver, NoMatch, Closed

\* The invariant behind the safety properties holds in every reachable state,
\* whatever statements of the database fail.
THEOREM Invariance == Spec => []Inv
<1>1. Inv /\ [Next]_vars => Inv'
  BY TypeStep, ProcessInvStep, StartInvStep, RecordInvStep, MatchInvStep, DriverInvStep,
     SavedInvStep, ReplayInvStep DEF Inv
<1> QED
  BY InvInit, <1>1, PTL DEF Spec

\* What follows from the invariant alone: the log on disk is the world, a finished
\* record is complete, and an open lobby has nothing behind it.
THEOREM LogCorrect == Spec => []LogExplainsWorld
<1>1. Inv => LogExplainsWorld
  <2> SUFFICES ASSUME Inv, proc = "replay" \/ Registered PROVE LogExplainsWorld
    BY DEF LogExplainsWorld
  <2>1. Registered => inputs = log
    BY DEF Inv, MatchInv
  <2>2. ASSUME proc = "replay" PROVE inputs = SubSeq(log, 1, replayed)
    <3>1. /\ inputs \in Seq(Input) /\ log \in Seq(Input) /\ replayed \in Nat
          /\ Len(log) \in Nat
      BY LenProperties DEF Inv, TypeOK
    <3>2. /\ replayed <= Len(log) /\ Len(inputs) = replayed
          /\ \A i \in 1..replayed : inputs[i] = log[i]
      BY <2>2 DEF Inv, ReplayInv
    <3> DEFINE taken == SubSeq(log, 1, replayed)
    <3>3. /\ taken \in Seq(Input) /\ Len(taken) = replayed
          /\ \A i \in 1..replayed : taken[i] = log[i]
      <4>1. \A i \in 1..replayed : log[i] \in Input
        BY <3>1, <3>2, ElementOfSeq
      <4> QED
        BY <3>1, <3>2, <4>1, SubSeqProperties
    <3> HIDE DEF taken
    <3>4. inputs = taken
      BY <3>1, <3>2, <3>3, SeqEqual
    <3> QED
      BY <3>4 DEF taken
  <2>3. proc = "replay" => replayed <= Len(log)
    BY DEF Inv, ReplayInv
  <2> QED
    BY <2>1, <2>2, <2>3 DEF LogExplainsWorld
<1> QED
  BY Invariance, <1>1, PTL

THEOREM HistoryComplete == Spec => []HistoryIsComplete
<1>1. Inv => HistoryIsComplete
  <2> SUFFICES ASSUME Inv, rec # NoRecord, rec.finished
               PROVE  /\ rec.tick = EndTick
                      /\ Registered => log = rec.log /\ tick = rec.tick
    BY DEF HistoryIsComplete
  <2>1. rec.tick = EndTick
    BY DEF Inv, RecordInv
  <2>2. Registered => log = rec.log /\ rec.tick <= tick /\ tick <= EndTick
    BY DEF Inv, SavedInv, MatchInv
  <2>3. tick \in Nat /\ EndTick \in Nat
    BY ConstantsAssumption DEF Inv, TypeOK
  <2> QED
    BY <2>1, <2>2, <2>3
<1> QED
  BY Invariance, <1>1, PTL

THEOREM OpenIsEmpty == Spec => []OpenHasNoMatch
<1>1. Inv => OpenHasNoMatch
  BY DEF Inv, StartInv, OpenHasNoMatch
<1> QED
  BY Invariance, <1>1, PTL

------------------------------------------------------------------------------
\* What Restore may give up.

\* A record the driver wrote replays to its end, by the build that wrote it.
LEMMA ReplayArrives ==
  ASSUME TypeOK, RecordInv, ReplayInv, ReplayReturns
  PROVE  tick = rec.tick /\ replayed = Len(log)
<1>1. /\ proc = "replay" /\ ~Due /\ (tick >= rec.tick \/ finished \/ OutOfOrder)
  BY DEF ReplayReturns
<1>2. /\ rec # NoRecord /\ log = rec.log /\ tick <= rec.tick /\ ~finished
      /\ replayed <= Len(log)
      /\ \A i \in (replayed + 1)..Len(log) : tick <= log[i].tick
  BY <1>1 DEF ReplayInv
<1>3. /\ rec.tick \in Nat /\ tick \in Nat /\ replayed \in Nat /\ log \in Seq(Input)
      /\ Len(log) \in Nat
  BY <1>2, LenProperties DEF TypeOK, Record
<1>4. \A i \in 1..Len(log) : log[i].tick \in Nat
  BY <1>3, LoggedTicks
<1>5. replayed < Len(log) =>
        /\ replayed + 1 \in (replayed + 1)..Len(log) /\ replayed + 1 \in 1..Len(log)
  BY <1>3
<1>6. ~OutOfOrder
  BY <1>2, <1>3, <1>4, <1>5 DEF OutOfOrder
<1>7. tick = rec.tick
  BY <1>1, <1>2, <1>3, <1>6
<1>8. replayed < Len(log) => log[replayed + 1].tick <= rec.tick
  <2>1. DOMAIN log = 1..Len(log)
    BY <1>3, LenProperties
  <2> QED
    BY <1>2, <1>5, <2>1 DEF RecordInv, InOrder
<1>9. ~(replayed < Len(log))
  BY <1>1, <1>2, <1>3, <1>4, <1>5, <1>7, <1>8 DEF Due
<1> QED
  BY <1>2, <1>3, <1>7, <1>9

LEMMA RestoreInvStep ==
  ASSUME "read" \notin Faults, Inv, RestoreInv, [Next]_vars
  PROVE  RestoreInv'
<1> USE DEF Inv, RestoreInv, ProcessInv, Handling, dbVars, driverVars, matchVars, procVars, reqVars
<1>1. CASE StartFlip \/ StartStep
  BY <1>1 DEF StartFlip, StartStep, StartRegister, StartFails, StartReopens, StartReopenFails
<1>2. ASSUME NEW p \in Players, CommandChecked(p) \/ CommandStep(p) PROVE RestoreInv'
  BY <1>2 DEF CommandChecked, CommandStep, CommandApplied, CommandRefused
<1>3. CASE DriverSave \/ DriverTick \/ DriverEnd
  BY <1>3 DEF DriverSave, DriverCopies, DriverWrites, DriverWriteFails, DriverTick,
              DriverTicks, DriverTicksAndSaves, DriverFinishes, DriverEnd, DriverSettles,
              DriverSettleFails, DriverSuspends, Registered
<1>4. CASE RestoreReads
  <2>1. rec # NoRecord /\ ~rec.finished /\ Unusable => rec.build # build
    <3>1. rec # NoRecord => rec.tick \in Nat /\ EndTick \in Nat
      BY ConstantsAssumption DEF TypeOK, Record
    <3> QED
      BY <3>1 DEF Unusable, RecordInv
  <2> QED
    BY <1>4, <2>1 DEF RestoreReads
<1>5. CASE ReplayReturns
  BY <1>5, ReplayArrives DEF ReplayReturns
<1>6. CASE RestoreLists \/ RestoreReadFails \/ ReplayCommand \/ ReplayStep
             \/ RestoreSettles \/ RestoreAbandons \/ RestoreDeletes
  BY <1>6 DEF RestoreLists, RestoreReadFails, ReplayCommand, ReplayStep, RestoreSettles,
              RestoreAbandons, RestoreDeletes
<1>7. CASE ProcessStep
  BY <1>7 DEF ProcessStep, Boot, Crash, Signal, StopDrivers, Exit
<1>8. CASE UNCHANGED vars
  BY <1>8 DEF vars
<1> QED
  BY <1>1, <1>2, <1>3, <1>4, <1>5, <1>6, <1>7, <1>8 DEF Next, RestoreStep

\* While the reads of a restore answer, only a match without a record of this
\* build is given up.
THEOREM OnlyForeign ==
  ASSUME "read" \notin Faults
  PROVE  Spec => []OnlyForeignIsAbandoned
<1>1. Init => RestoreInv
  BY DEF Init, RestoreInv
<1>2. Inv /\ RestoreInv /\ [Next]_vars => RestoreInv'
  BY RestoreInvStep
<1>3. RestoreInv => OnlyForeignIsAbandoned
  BY DEF RestoreInv, OnlyForeignIsAbandoned
<1> QED
  BY Invariance, <1>1, <1>2, <1>3, PTL DEF Spec

\* And a finished record stays what it is for ever.
THEOREM HistoryPermanent ==
  ASSUME "read" \notin Faults
  PROVE  Spec => HistoryIsPermanent
<1>1. Init => RestoreInv
  BY DEF Init, RestoreInv
<1>2. Inv /\ RestoreInv /\ [Next]_vars => RestoreInv'
  BY RestoreInvStep
<1>3. Inv /\ RestoreInv /\ [Next]_vars => [rec # NoRecord /\ rec.finished => rec' = rec]_vars
  <2> SUFFICES ASSUME Inv, RestoreInv, [Next]_vars, rec # NoRecord, rec.finished
               PROVE  rec' = rec
    OBVIOUS
  <2>1. ~DriverWrites
    BY DEF DriverWrites, Inv, SavedInv, Registered
  <2>2. ~RestoreDeletes
    BY DEF RestoreDeletes, RestoreInv
  <2> QED
    BY <2>1, <2>2, RecordMoves
<1> QED
  BY Invariance, <1>1, <1>2, <1>3, PTL DEF Spec, HistoryIsPermanent

------------------------------------------------------------------------------
\* What a stop costs.

LEMMA RewindInvStep ==
  ASSUME Inv, RewindInv, [Next]_vars
  PROVE  RewindInv'
<1> DEFINE base == IF rec = NoRecord THEN 0 ELSE rec.tick
<1>t. /\ tick \in Nat /\ unsaved \in Nat /\ missed \in Nat /\ EndTick \in Nat
      /\ SaveEvery \in Nat \ {0} /\ base \in Nat
      /\ SaveEvery * missed \in Nat /\ SaveEvery * (missed + 1) = SaveEvery * missed + SaveEvery
      /\ SaveEvery * 0 = 0
  BY ConstantsAssumption DEF Inv, TypeOK, Record
<1>b. /\ unsaved < SaveEvery
      /\ driver = "select" => tick <= base + unsaved + SaveEvery * missed
      /\ Registered => tick <= base + SaveEvery + SaveEvery * missed
  BY DEF RewindInv
<1> HIDE DEF base
<1>g. SUFFICES /\ unsaved' < SaveEvery
               /\ driver' = "select" => tick' <= base' + unsaved' + SaveEvery * missed'
               /\ Registered' => tick' <= base' + SaveEvery + SaveEvery * missed'
  BY DEF RewindInv, base
<1> USE DEF Registered, dbVars, driverVars, matchVars, procVars, reqVars
<1>u. rec' = rec => base' = base
  BY DEF base
<1>1. CASE StartFlip \/ StartFails \/ StartReopens \/ StartReopenFails
  BY <1>1, <1>t, <1>b, <1>u DEF StartFlip, StartFails, StartReopens, StartReopenFails
<1>2. CASE StartRegister
  BY <1>2, <1>t, <1>b, <1>u DEF StartRegister, NewMatch, Launch
<1>3. ASSUME NEW p \in Players, CommandChecked(p) \/ CommandStep(p)
      PROVE  UNCHANGED <<rec, driver, unsaved, missed, tick>>
  BY <1>3 DEF CommandChecked, CommandStep, CommandApplied, CommandRefused
<1>4. CASE DriverCopies
  BY <1>4, <1>t, <1>b, <1>u DEF DriverCopies
<1>5. CASE DriverWrites
  <2>1. copy # NoRecord /\ copy.tick = tick
    BY <1>5 DEF DriverWrites, Inv, DriverInv
  <2>2. base' = tick /\ missed' = 0 /\ UNCHANGED <<tick, unsaved>>
    BY <1>5, <2>1 DEF DriverWrites, base
  <2> QED
    BY <2>2, <1>t, <1>b
<1>6. CASE DriverWriteFails
  <2>1. missed' = missed + 1 /\ UNCHANGED <<tick, unsaved, rec>>
    BY <1>6 DEF DriverWriteFails
  <2>2. tick <= base + SaveEvery + SaveEvery * missed
    BY <1>6, <1>b DEF DriverWriteFails
  <2> QED
    BY <2>1, <2>2, <1>t, <1>b, <1>u
<1>7. CASE DriverTick
  BY <1>7, <1>t, <1>b, <1>u DEF DriverTick, DriverTicks, DriverTicksAndSaves,
                                DriverFinishes, Step
<1>8. CASE DriverEnd
  BY <1>8, <1>t, <1>b, <1>u DEF DriverEnd, DriverSettles, DriverSettleFails, DriverSuspends
<1>9. CASE ReplayReturns
  <2>1. tick = rec.tick /\ rec # NoRecord
    BY <1>9, ReplayArrives DEF Inv, ReplayInv, ReplayReturns
  <2> QED
    BY <1>9, <2>1, <1>t, <1>b, <1>u DEF ReplayReturns, Launch, Inv, ProcessInv, Handling, base
<1>10. CASE RestoreStep /\ ~ReplayReturns
  <2>1. ~Registered /\ UNCHANGED <<driver, unsaved>>
    BY <1>10 DEF RestoreStep, RestoreLists, RestoreReads, RestoreReadFails, ReplayCommand,
                 ReplayStep, RestoreSettles, RestoreAbandons, RestoreDeletes,
                 Inv, ProcessInv, Handling
  <2> QED
    BY <2>1, <1>b
<1>11. CASE ProcessStep
  <2>1. CASE Crash \/ Exit
    BY <2>1, <1>t, <1>b DEF Crash, Exit, LoseMemory
  <2>2. CASE Boot \/ Signal \/ StopDrivers
    BY <2>2, <1>t, <1>b, <1>u DEF Boot, Signal, StopDrivers
  <2> QED
    BY <1>11, <2>1, <2>2 DEF ProcessStep
<1>12. CASE UNCHANGED vars
  BY <1>12, <1>b, <1>u DEF vars
<1> QED
  BY <1>1, <1>2, <1>3, <1>4, <1>5, <1>6, <1>7, <1>8, <1>9, <1>10, <1>11, <1>12, <1>b, <1>u
  DEF Next, StartStep, DriverSave

\* Whatever fails, the record of a match in progress is within SaveEvery ticks of
\* the world, and SaveEvery more for each save lost in a row.
THEOREM RewindBounded == Spec => []RewindBound
<1>1. Init => RewindInv
  BY ConstantsAssumption DEF Init, RewindInv, NoDriver, NoMatch, Registered
<1>2. Inv /\ RewindInv /\ [Next]_vars => RewindInv'
  BY RewindInvStep
<1>3. Inv /\ RewindInv => RewindBound
  <2> SUFFICES ASSUME Inv, RewindInv, Registered
               PROVE  IF rec = NoRecord
                        THEN tick <= SaveEvery * (missed + 1)
                        ELSE rec.tick <= tick /\ tick - rec.tick <= SaveEvery * (missed + 1)
    BY DEF RewindBound
  <2>1. /\ tick \in Nat /\ missed \in Nat /\ SaveEvery \in Nat
        /\ SaveEvery * missed \in Nat
        /\ SaveEvery * (missed + 1) = SaveEvery * missed + SaveEvery
        /\ rec # NoRecord => rec.tick \in Nat
    BY ConstantsAssumption DEF Inv, TypeOK, Record
  <2>2. rec # NoRecord => rec.tick <= tick
    BY DEF Inv, SavedInv
  <2> QED
    BY <2>1, <2>2 DEF RewindInv
<1> QED
  BY Invariance, <1>1, <1>2, <1>3, PTL DEF Spec

------------------------------------------------------------------------------
\* What is there when a lobby is settled, and when a stop is over.

LEMMA FinishInvStep ==
  ASSUME "save" \notin Faults, Inv, FinishInv, [Next]_vars
  PROVE  FinishInv'
<1> USE DEF FinishInv, dbVars, driverVars, matchVars, procVars, reqVars
<1>1. CASE StartFlip \/ StartStep
  BY <1>1 DEF StartFlip, StartStep, StartRegister, Launch, StartFails, StartReopens,
              StartReopenFails
<1>2. ASSUME NEW p \in Players, CommandChecked(p) \/ CommandStep(p) PROVE FinishInv'
  BY <1>2 DEF CommandChecked, CommandStep, CommandApplied, CommandRefused
<1>3. CASE DriverWrites
  <2>1. copy # NoRecord /\ copy.finished = finished /\ (after = "settle" <=> finished)
    BY <1>3 DEF DriverWrites, Inv, DriverInv
  <2>2. ~(proc = "settle")
    BY <1>3 DEF DriverWrites, Inv, ProcessInv, Handling, Registered
  <2>3. row = "finished" => abandoned
    BY <1>3 DEF DriverWrites, Inv, SavedInv, Registered
  <2> QED
    BY <1>3, <2>1, <2>2, <2>3 DEF DriverWrites
<1>4. CASE DriverCopies \/ DriverWriteFails \/ DriverTick \/ DriverEnd
  BY <1>4 DEF DriverCopies, DriverWriteFails, DriverTick, DriverTicks, DriverTicksAndSaves,
              DriverFinishes, DriverEnd, DriverSettles, DriverSettleFails, DriverSuspends
<1>5. CASE RestoreStep
  BY <1>5 DEF RestoreStep, RestoreLists, RestoreReads, RestoreReadFails, ReplayCommand,
              ReplayStep, ReplayReturns, Launch, RestoreSettles, RestoreAbandons,
              RestoreDeletes, Inv, ProcessInv, Handling, Registered
<1>6. CASE ProcessStep
  BY <1>6 DEF ProcessStep, Boot, Crash, Signal, StopDrivers, Exit, LoseMemory
<1>7. CASE UNCHANGED vars
  BY <1>7 DEF vars
<1> QED
  BY <1>1, <1>2, <1>3, <1>4, <1>5, <1>6, <1>7 DEF Next, DriverSave

\* While saves succeed, a finished lobby that was not given up is in the history.
THEOREM FinishedKept ==
  ASSUME "save" \notin Faults
  PROVE  Spec => []FinishedIsInHistory
<1>1. Init => FinishInv
  BY DEF Init, FinishInv, NoDriver
<1>2. Inv /\ FinishInv /\ [Next]_vars => FinishInv'
  BY FinishInvStep
<1>3. FinishInv => FinishedIsInHistory
  BY DEF FinishInv, FinishedIsInHistory
<1> QED
  BY Invariance, <1>1, <1>2, <1>3, PTL DEF Spec

LEMMA LastSaveInvStep ==
  ASSUME "save" \notin Faults, "drain" \notin Faults, Inv, LastSaveInv, [Next]_vars
  PROVE  LastSaveInv'
<1> USE DEF LastSaveInv, Closed, Requesting, Snapshot, dbVars, driverVars, matchVars, procVars, reqVars
<1>1. CASE StartFlip \/ StartStep
  BY <1>1 DEF StartFlip, StartStep, StartRegister, Launch, StartFails, StartReopens,
              StartReopenFails, Registered
<1>2. ASSUME NEW p \in Players, CommandChecked(p) PROVE LastSaveInv'
  BY <1>2 DEF CommandChecked
<1>3. ASSUME NEW p \in Players, CommandApplied(p) PROVE LastSaveInv'
  <2>1. p \in asked /\ ~finished
    BY <1>3 DEF CommandApplied
  <2>2. ~Closed
    BY <2>1
  <2>3. driver \notin {"settle", "gone"}
    BY <2>1, <2>2 DEF Inv, DriverInv
  <2>4. ~(driver = "write" /\ after \in {"settle", "gone"})
    BY <2>1, <2>2 DEF Inv, DriverInv
  <2> QED
    BY <1>3, <2>2, <2>3, <2>4 DEF CommandApplied
<1>4. ASSUME NEW p \in Players, CommandRefused(p) PROVE LastSaveInv'
  BY <1>4 DEF CommandRefused
<1>5. CASE DriverCopies
  BY <1>5 DEF DriverCopies
<1>6. CASE DriverWrites
  BY <1>6 DEF DriverWrites, Inv, TypeOK
<1>7. CASE DriverWriteFails
  BY <1>7 DEF DriverWriteFails
<1>8. CASE DriverTick
  BY <1>8 DEF DriverTick, DriverTicks, DriverTicksAndSaves, DriverFinishes
<1>9. CASE DriverEnd
  BY <1>9 DEF DriverEnd, DriverSettles, DriverSettleFails, DriverSuspends
<1>10. CASE RestoreStep
  BY <1>10 DEF RestoreStep, RestoreLists, RestoreReads, RestoreReadFails, ReplayCommand,
              ReplayStep, ReplayReturns, Launch, RestoreSettles, RestoreAbandons,
              RestoreDeletes, Inv, ProcessInv, Handling, Registered
<1>11. CASE ProcessStep
  BY <1>11 DEF ProcessStep, Boot, Crash, Signal, StopDrivers, Exit, LoseMemory,
              Inv, ProcessInv, Handling, Registered
<1>12. CASE UNCHANGED vars
  BY <1>12 DEF vars
<1> QED
  BY <1>1, <1>2, <1>3, <1>4, <1>5, <1>6, <1>7, <1>8, <1>9, <1>10, <1>11, <1>12
  DEF Next, CommandStep, DriverSave

\* While, besides, the requests are over before the drivers are told to stop, a
\* stop rewinds nothing.
THEOREM GracefulStop ==
  ASSUME "save" \notin Faults, "drain" \notin Faults
  PROVE  Spec => []GracefulStopRewindsNothing
<1>1. Init => LastSaveInv
  BY DEF Init, LastSaveInv, NoDriver, Closed
<1>2. Inv /\ LastSaveInv /\ [Next]_vars => LastSaveInv'
  BY LastSaveInvStep
<1>3. LastSaveInv => GracefulStopRewindsNothing
  BY DEF LastSaveInv, GracefulStopRewindsNothing
<1> QED
  BY Invariance, <1>1, <1>2, <1>3, PTL DEF Spec

------------------------------------------------------------------------------
\* Match implements MatchPromise: what its drivers, saves and restarts do is, step for
\* step, what the players were promised or nothing at all.

\* What the promise rests on besides the invariant of the match: a save in progress
\* holds the first commands of the log, those given since are not older than it, and
\* a save never holds fewer commands than the one before.
PrefixInv ==
  /\ driver = "write" =>
       /\ Len(copy.log) <= Len(log)
       /\ \A i \in 1..Len(copy.log) : copy.log[i] = log[i]
       /\ \A i \in (Len(copy.log) + 1)..Len(log) : log[i].tick >= tick
       /\ rec # NoRecord => Len(rec.log) <= Len(copy.log)
  /\ Registered /\ rec # NoRecord => Len(rec.log) <= Len(log)

\* And a command or a driver is only ever about a match that is registered and, up to
\* the settling, running.
PlayInv ==
  /\ asked # {} => Registered
  /\ Registered /\ row = "finished" => driver = "gone"

LEMMA PlayInvStep ==
  ASSUME Inv, PlayInv, [Next]_vars
  PROVE  PlayInv'
<1> USE DEF PlayInv, Registered, dbVars, driverVars, matchVars, procVars, reqVars
<1>1. CASE StartFlip \/ StartStep
  BY <1>1 DEF StartFlip, StartStep, StartRegister, Launch, StartFails, StartReopens,
              StartReopenFails, Inv, StartInv
<1>2. ASSUME NEW p \in Players, CommandChecked(p) \/ CommandStep(p) PROVE PlayInv'
  BY <1>2 DEF CommandChecked, CommandStep, CommandApplied, CommandRefused
<1>3. CASE DriverSave \/ DriverTick \/ DriverEnd
  BY <1>3 DEF DriverSave, DriverCopies, DriverWrites, DriverWriteFails, DriverTick, DriverTicks,
              DriverTicksAndSaves, DriverFinishes, DriverEnd, DriverSettles, DriverSettleFails,
              DriverSuspends, Inv, DriverInv
<1>4. CASE RestoreStep
  BY <1>4 DEF RestoreStep, RestoreLists, RestoreReads, RestoreReadFails, ReplayCommand,
              ReplayStep, ReplayReturns, Launch, RestoreSettles, RestoreAbandons,
              RestoreDeletes, Inv, ProcessInv, Handling
<1>5. CASE ProcessStep
  BY <1>5 DEF ProcessStep, Boot, Crash, Signal, StopDrivers, Exit, LoseMemory
<1>6. CASE UNCHANGED vars
  BY <1>6 DEF vars
<1> QED
  BY <1>1, <1>2, <1>3, <1>4, <1>5, <1>6 DEF Next

LEMMA PrefixInvStep ==
  ASSUME Inv, PrefixInv, PlayInv, [Next]_vars
  PROVE  PrefixInv'
<1> USE DEF Registered, dbVars, driverVars, matchVars, procVars, reqVars
<1>t. /\ log \in Seq(Input) /\ tick \in Nat /\ Len(log) \in Nat
      /\ copy # NoRecord => copy.log \in Seq(Input) /\ Len(copy.log) \in Nat
      /\ rec # NoRecord => rec.log \in Seq(Input) /\ Len(rec.log) \in Nat
      /\ after # "write"
  BY DEF Inv, TypeOK, Record
<1>w. driver = "write" => copy # NoRecord
  BY DEF Inv, DriverInv
<1>q. CASE UNCHANGED <<rec, driver, copy, log, tick>>
  BY <1>q DEF PrefixInv
<1>n. ASSUME driver' = "none" PROVE PrefixInv'
  BY <1>n DEF PrefixInv
<1>1. CASE StartRegister
  <2>1. rec = NoRecord /\ rec' = rec /\ driver' = "copy"
    BY <1>1 DEF StartRegister, Launch, Inv, StartInv
  <2> QED BY <2>1 DEF PrefixInv
<1>2. CASE StartFlip \/ StartFails \/ StartReopens \/ StartReopenFails
  BY <1>2, <1>q DEF StartFlip, StartFails, StartReopens, StartReopenFails
<1>3. ASSUME NEW p \in Players, CommandChecked(p) \/ CommandRefused(p)
      PROVE  PrefixInv'
  BY <1>3, <1>q DEF CommandChecked, CommandRefused
<1>4. ASSUME NEW p \in Players, CommandApplied(p) PROVE PrefixInv'
  <2>1. /\ log' = Append(log, [tick |-> tick, by |-> p])
        /\ UNCHANGED <<rec, driver, copy, tick>>
    BY <1>4 DEF CommandApplied
  <2>2. [tick |-> tick, by |-> p] \in Input
    BY <1>t DEF Input
  <2>3. /\ Len(log') = Len(log) + 1
        /\ \A i \in 1..Len(log) : log'[i] = log[i]
        /\ log'[Len(log) + 1].tick = tick
    BY <2>1, <2>2, <1>t
  <2>4. ASSUME driver = "write"
        PROVE  /\ Len(copy.log) <= Len(log')
               /\ \A i \in 1..Len(copy.log) : copy.log[i] = log'[i]
               /\ \A i \in (Len(copy.log) + 1)..Len(log') : log'[i].tick >= tick
               /\ rec # NoRecord => Len(rec.log) <= Len(copy.log)
    <3>1. /\ Len(copy.log) <= Len(log)
          /\ \A i \in 1..Len(copy.log) : copy.log[i] = log[i]
          /\ \A i \in (Len(copy.log) + 1)..Len(log) : log[i].tick >= tick
          /\ rec # NoRecord => Len(rec.log) <= Len(copy.log)
          /\ Len(copy.log) \in Nat
      BY <2>4, <1>t, <1>w DEF PrefixInv
    <3>2. ASSUME NEW i \in (Len(copy.log) + 1)..Len(log') PROVE log'[i].tick >= tick
      <4>1. CASE i = Len(log) + 1
        BY <4>1, <2>3, <1>t
      <4>2. CASE i # Len(log) + 1
        <5>1. i \in (Len(copy.log) + 1)..Len(log) /\ i \in 1..Len(log)
          BY <4>2, <2>3, <3>1, <1>t
        <5> QED BY <5>1, <2>3, <3>1
      <4> QED BY <4>1, <4>2
    <3>3. ASSUME NEW i \in 1..Len(copy.log) PROVE copy.log[i] = log'[i]
      <4>1. i \in 1..Len(log)
        BY <3>1, <1>t
      <4> QED BY <4>1, <2>3, <3>1
    <3> QED BY <2>3, <3>1, <3>2, <3>3, <1>t
  <2>5. driver # "none" /\ rec # NoRecord => Len(rec.log) <= Len(log')
    BY <2>3, <1>t DEF PrefixInv
  <2> QED BY <2>1, <2>4, <2>5 DEF PrefixInv
<1>5. CASE DriverCopies
  <2>1. copy'.log = log /\ UNCHANGED <<rec, log, tick>> /\ driver = "copy"
    BY <1>5 DEF DriverCopies, Snapshot
  <2> QED BY <2>1, <1>t DEF PrefixInv
<1>6. CASE DriverWrites
  BY <1>6, <1>t, <1>w DEF DriverWrites, PrefixInv
<1>7. CASE DriverWriteFails
  BY <1>7, <1>t DEF DriverWriteFails, PrefixInv
<1>8. CASE DriverTick \/ DriverEnd
  <2>1. driver' # "write" /\ driver # "none" /\ UNCHANGED <<rec, log>>
    BY <1>8 DEF DriverTick, DriverTicks, DriverTicksAndSaves, DriverFinishes, Step, DriverEnd,
                DriverSettles, DriverSettleFails, DriverSuspends
  <2> QED BY <2>1 DEF PrefixInv
<1>9. CASE ReplayReturns
  <2>1. driver' = "copy" /\ UNCHANGED <<rec, log>> /\ log = rec.log
    BY <1>9, ReplayArrives DEF ReplayReturns, Launch, Inv, ReplayInv
  <2> QED BY <2>1, <1>t DEF PrefixInv
<1>10. CASE RestoreStep /\ ~ReplayReturns
  BY <1>10, <1>n DEF RestoreStep, RestoreLists, RestoreReads, RestoreReadFails, ReplayCommand,
              ReplayStep, RestoreSettles, RestoreAbandons, RestoreDeletes,
              Inv, ProcessInv, Handling
<1>11. CASE ProcessStep
  BY <1>11, <1>n, <1>q DEF ProcessStep, Boot, Crash, Signal, StopDrivers, Exit, LoseMemory
<1>12. CASE UNCHANGED vars
  BY <1>12, <1>q DEF vars
<1> QED
  BY <1>1, <1>2, <1>3, <1>4, <1>5, <1>6, <1>7, <1>8, <1>9, <1>10, <1>11, <1>12
  DEF Next, StartStep, CommandStep, DriverSave

------------------------------------------------------------------------------
\* Step by step.  The world the players are in is the registered match, what is kept
\* is the record on disk.

World == [tick |-> tick, inputs |-> inputs]

\* The parts of the mapping that a step leaves alone, it leaves alone.
LEMMA Stutter ==
  ASSUME UNCHANGED <<row, rec>>, start' = "none" <=> start = "none",
         Registered' <=> Registered, Registered => UNCHANGED <<tick, inputs>>
  PROVE  UNCHANGED Promise!vars
BY DEF Promise!vars

\* The part of the log a save has written is a moment of the match.
LEMMA WrittenMoment ==
  ASSUME Inv, PrefixInv, DriverWrites, NEW n, n = Len(copy.log)
  PROVE  /\ n \in 0..Len(inputs)
         /\ copy.tick = tick
         /\ SubSeq(inputs, 1, n) = copy.log
         /\ \A i \in 1..n : inputs[i].tick <= tick
         /\ \A i \in (n + 1)..Len(inputs) : inputs[i].tick >= tick
<1>1. driver = "write" /\ copy # NoRecord /\ inputs = log /\ copy.tick = tick
  BY DEF DriverWrites, Inv, DriverInv, MatchInv, Registered
<1>2. copy.log \in Seq(Input) /\ log \in Seq(Input) /\ n \in Nat /\ Len(log) \in Nat
  BY <1>1 DEF Inv, TypeOK, Record
<1>3. /\ n <= Len(log)
      /\ \A i \in 1..n : copy.log[i] = log[i]
      /\ \A i \in (n + 1)..Len(log) : log[i].tick >= tick
  BY <1>1 DEF PrefixInv
<1>4. \A i \in 1..n : copy.log[i].tick <= tick
  <2>1. InOrder(copy.log, tick)
    BY <1>1 DEF Inv, DriverInv
  <2> QED BY <2>1, <1>2 DEF InOrder
<1>5. SubSeq(log, 1, n) = copy.log
  <2>1. /\ SubSeq(log, 1, n) \in Seq(Input) /\ Len(SubSeq(log, 1, n)) = n
        /\ \A i \in 1..n : SubSeq(log, 1, n)[i] = log[i]
    BY <1>2, <1>3
  <2> QED BY <2>1, <1>2, <1>3, SeqEqual
<1> QED BY <1>1, <1>2, <1>3, <1>4, <1>5

\* NoRecord is told from a world as it is from a record.
WorldAssumed == NoRecord \notin [tick : Nat, inputs : Seq(Input)]

\* A save that is written is a moment kept.
LEMMA WriteKeeps ==
  ASSUME WorldAssumed, Inv, PrefixInv, PlayInv, DriverWrites
  PROVE  Promise!Keep
<1> DEFINE n == Len(copy.log)
<1>1. /\ driver = "write" /\ copy # NoRecord /\ copy.tick = tick
      /\ Registered /\ Registered' /\ row = "running" /\ start = "none"
      /\ rec' = copy /\ UNCHANGED <<row, start, tick, inputs>>
  <2>1. driver = "write" /\ Registered /\ rec' = copy /\ UNCHANGED <<row, start, tick, inputs>>
    BY DEF DriverWrites, Registered, matchVars, reqVars
  <2>2. Registered'
    BY DEF DriverWrites, Registered, Inv, TypeOK, DriverInv
  <2>3. row = "running" /\ start = "none"
    BY <2>1 DEF Inv, StartInv, TypeOK, PlayInv
  <2> QED BY <2>1, <2>2, <2>3 DEF Inv, DriverInv
<1>2. tick \in Nat /\ inputs \in Seq(Input)
  BY DEF Inv, TypeOK
<1>3. World # NoRecord
  BY <1>2 DEF World, WorldAssumed
<1>4. /\ n \in 0..Len(inputs) /\ SubSeq(inputs, 1, n) = copy.log
      /\ \A i \in 1..n : inputs[i].tick <= tick
      /\ \A i \in (n + 1)..Len(inputs) : inputs[i].tick >= tick
  BY WrittenMoment
<1>5. rec # NoRecord => rec.tick <= tick /\ Len(rec.log) <= n
  BY <1>1 DEF Inv, SavedInv, PrefixInv
<1>6. tick \in 0..tick
  BY <1>2
<1> HIDE DEF n
<1>7. Promise!WasMoment(World, tick, n)
  BY <1>4 DEF Promise!WasMoment, World
<1>8. Promise!Moment(World, tick, n) = [tick |-> tick, inputs |-> copy.log]
  BY <1>4 DEF Promise!Moment, World
<1> QED
  BY <1>1, <1>3, <1>4, <1>5, <1>6, <1>7, <1>8 DEF Promise!Keep, World

LEMMA PromiseStep ==
  ASSUME WorldAssumed, "save" \notin Faults, "read" \notin Faults,
         Inv, PrefixInv, PlayInv, FinishInv, RestoreInv, [Next]_vars
  PROVE  [Promise!Next]_Promise!vars
<1> USE DEF Registered, dbVars, driverVars, matchVars, procVars, reqVars
<1>t. /\ tick \in Nat /\ inputs \in Seq(Input) /\ EndTick \in Nat
      /\ rec # NoRecord => rec.tick \in Nat /\ rec.log \in Seq(Input)
      /\ row \in {"open", "running", "finished"}
      /\ start \in {"none", "flipped", "failed"}
  BY ConstantsAssumption DEF Inv, TypeOK, Record
<1>w. World # NoRecord /\ (rec # NoRecord => [tick |-> rec.tick, inputs |-> rec.log] # NoRecord)
  BY <1>t DEF World, WorldAssumed
<1>1. CASE StartFlip
  <2>1. Promise!Begin
    BY <1>1, <1>t DEF StartFlip, Inv, StartInv, Promise!Begin
  <2> QED BY <2>1 DEF Promise!Next
<1>2. CASE StartRegister
  <2>1. start = "flipped" /\ row = "running"
    BY <1>2 DEF StartRegister, Inv, StartInv
  <2>2. Promise!Launch
    BY <1>2, <2>1 DEF StartRegister, NewMatch, Launch, Promise!Launch, Promise!Dawn
  <2> QED BY <2>2 DEF Promise!Next
<1>3. CASE StartFails
  BY <1>3, Stutter DEF StartFails
<1>4. CASE StartReopens
  <2>1. Promise!Withdraw
    BY <1>4 DEF StartReopens, Promise!Withdraw
  <2> QED BY <2>1 DEF Promise!Next
<1>5. CASE StartReopenFails
  <2>1. row = "running" /\ driver = "none"
    BY <1>5 DEF StartReopenFails, Inv, StartInv
  <2>2. Promise!Stop
    BY <1>5, <2>1 DEF StartReopenFails, Promise!Stop
  <2> QED BY <2>2 DEF Promise!Next
<1>6. ASSUME NEW p \in Players, CommandChecked(p) \/ CommandRefused(p)
      PROVE  UNCHANGED Promise!vars
  BY <1>6, Stutter DEF CommandChecked, CommandRefused
<1>7. ASSUME NEW p \in Players, CommandApplied(p) PROVE Promise!Next
  <2>1. driver # "none" /\ ~finished
    BY <1>7 DEF CommandApplied, PlayInv
  <2>2. tick < EndTick
    BY <2>1, <1>t DEF Inv, MatchInv
  <2>3. /\ inputs' = Append(inputs, [tick |-> tick, by |-> p])
        /\ driver' = driver /\ UNCHANGED <<row, rec, start, tick>>
    BY <1>7 DEF CommandApplied
  <2>4. [World EXCEPT !.inputs = Append(World.inputs, [tick |-> World.tick, by |-> p])]
          = [tick |-> tick, inputs |-> inputs']
    <3>1. World.tick = tick /\ World.inputs = inputs
      BY DEF World
    <3>2. [World EXCEPT !.inputs = inputs'] = [tick |-> tick, inputs |-> inputs']
      BY DEF World
    <3>3. Append(World.inputs, [tick |-> World.tick, by |-> p]) = inputs'
      BY <3>1, <2>3
    <3> QED BY <3>2, <3>3, Zenon
  <2> DEFINE was == IF Registered THEN [tick |-> tick, inputs |-> inputs] ELSE NoRecord
  <2>5. was = World /\ World.tick = tick
    BY <2>1 DEF World
  <2>6. Promise!Take(p)
    BY <1>w, <2>1, <2>2, <2>3, <2>4, <2>5 DEF Promise!Take
  <2> QED BY <2>6 DEF Promise!Next
<1>8. CASE DriverCopies
  BY <1>8, Stutter DEF DriverCopies
<1>9. CASE DriverWrites
  BY <1>9, WriteKeeps DEF Promise!Next
<1>10. CASE DriverWriteFails
  BY <1>10 DEF DriverWriteFails
<1>11. CASE DriverTick
  <2>1. driver = "select" /\ driver' # "none" /\ ~finished /\ tick' = tick + 1
        /\ UNCHANGED <<row, rec, start, inputs>>
    BY <1>11 DEF DriverTick, DriverTicks, DriverTicksAndSaves, DriverFinishes, Step
  <2>2. tick < EndTick
    BY <2>1, <1>t DEF Inv, MatchInv
  <2>3. Promise!Play
    BY <1>w, <2>1, <2>2 DEF Promise!Play, World
  <2> QED BY <2>3 DEF Promise!Next
<1>12. CASE DriverSettles
  <2>1. driver = "settle" /\ row' = "finished" /\ driver' = "gone"
        /\ UNCHANGED <<rec, start, tick, inputs>>
    BY <1>12 DEF DriverSettles
  <2>2. row = "running" /\ start = "none"
    BY <2>1, <1>t DEF Inv, StartInv, PlayInv
  <2>3. rec # NoRecord /\ rec.finished
    BY <2>1 DEF FinishInv
  <2>4. rec.tick = EndTick /\ rec.log = log /\ inputs = log /\ tick = rec.tick
    BY <2>1, <2>3, <1>t DEF Inv, RecordInv, SavedInv, MatchInv
  <2>5. Promise!Finish
    BY <2>1, <2>2, <2>3, <2>4, <1>w DEF Promise!Finish
  <2> QED BY <2>5 DEF Promise!Next
<1>13. CASE DriverSettleFails \/ DriverSuspends
  BY <1>13, Stutter DEF DriverSettleFails, DriverSuspends
<1>14. CASE RestoreLists \/ RestoreReads \/ ReplayCommand \/ ReplayStep
  <2>1. driver = "none"
    BY <1>14 DEF RestoreLists, RestoreReads, ReplayCommand, ReplayStep, Inv, ProcessInv, Handling
  <2> QED
    BY <1>14, <2>1, Stutter DEF RestoreLists, RestoreReads, ReplayCommand, ReplayStep
<1>15. CASE RestoreReadFails
  BY <1>15 DEF RestoreReadFails
<1>16. CASE ReplayReturns
  <2>1. tick = rec.tick /\ replayed = Len(log)
    BY <1>16, ReplayArrives DEF Inv
  <2>2. rec # NoRecord /\ rec.tick < EndTick /\ log = rec.log /\ inputs = log
    BY <1>16, <2>1, ReplayedAll DEF Inv, ReplayInv, ReplayReturns
  <2>3. driver = "none" /\ start = "none" /\ row = "running"
    BY <1>16 DEF ReplayReturns, Inv, ProcessInv, Handling
  <2>4. driver' # "none" /\ UNCHANGED <<row, rec, start, tick, inputs>>
    BY <1>16, <2>1 DEF ReplayReturns, Launch
  <2>5. Promise!Resume
    BY <2>1, <2>2, <2>3, <2>4, <1>w DEF Promise!Resume
  <2> QED BY <2>5 DEF Promise!Next
<1>17. CASE RestoreSettles
  <2>1. driver = "none" /\ start = "none" /\ row = "running" /\ rec # NoRecord /\ rec.finished
    BY <1>17 DEF RestoreSettles, Inv, ProcessInv, Handling, FinishInv
  <2>2. rec.tick = EndTick
    BY <2>1 DEF Inv, RecordInv
  <2>3. Promise!Finish
    BY <1>17, <2>1, <2>2, <1>w DEF RestoreSettles, Promise!Finish
  <2> QED BY <2>3 DEF Promise!Next
<1>18. CASE RestoreAbandons
  <2>1. driver = "none" /\ start = "none" /\ row = "running"
    BY <1>18 DEF RestoreAbandons, Inv, ProcessInv, Handling
  <2>2. rec # NoRecord => rec.tick < EndTick
    BY <1>18, <1>t DEF RestoreAbandons, RestoreInv, Inv, RecordInv
  <2>3. Promise!GiveUp
    BY <1>18, <2>1, <2>2 DEF RestoreAbandons, Promise!GiveUp
  <2> QED BY <2>3 DEF Promise!Next
<1>19. CASE RestoreDeletes
  <2>1. driver = "none" /\ start = "none" /\ row = "finished"
    BY <1>19 DEF RestoreDeletes, Inv, ProcessInv, Handling
  <2>2. CASE rec = NoRecord
    BY <1>19, <2>1, <2>2, Stutter DEF RestoreDeletes
  <2>3. CASE rec # NoRecord
    <3>1. rec.tick < EndTick
      BY <1>19, <2>3, <1>t DEF RestoreDeletes, RestoreInv, Inv, RecordInv
    <3>2. Promise!Discard
      BY <1>19, <2>1, <2>3, <3>1, <1>w DEF RestoreDeletes, Promise!Discard
    <3> QED BY <3>2 DEF Promise!Next
  <2> QED BY <2>2, <2>3
<1>20. CASE Boot \/ Signal \/ StopDrivers
  BY <1>20, Stutter DEF Boot, Signal, StopDrivers
<1>21. CASE Crash \/ Exit
  <2>1. driver' = "none" /\ start' = "none" /\ UNCHANGED <<row, rec>>
    BY <1>21 DEF Crash, Exit, LoseMemory
  <2>2. start # "none" => row = "running"
    BY DEF Inv, StartInv
  <2>3. Promise!Stop
    BY <2>1, <2>2, <1>t DEF Promise!Stop
  <2> QED BY <2>3 DEF Promise!Next
<1>22. CASE UNCHANGED vars
  BY <1>22, Stutter DEF vars
<1> QED
  BY <1>1, <1>2, <1>3, <1>4, <1>5, <1>6, <1>7, <1>8, <1>9, <1>10, <1>11, <1>12, <1>13, <1>14,
     <1>15, <1>16, <1>17, <1>18, <1>19, <1>20, <1>21, <1>22
  DEF Next, StartStep, CommandStep, DriverSave, DriverEnd, RestoreStep, ProcessStep

\* Whatever stops, restarts and redeploys do to a match whose saves succeed and whose
\* restore can read, its players see a world that moves by a tick or a command, resumes
\* where it was kept, and ends in the history or is given up while nobody plays it.
THEOREM PromiseKept ==
  ASSUME WorldAssumed, "save" \notin Faults, "read" \notin Faults
  PROVE  Spec => ImplementsPromise
<1>1. Init => Promise!Init /\ PrefixInv /\ PlayInv /\ FinishInv /\ RestoreInv
  BY DEF Init, NoDriver, Promise!Init, PrefixInv, PlayInv, FinishInv, RestoreInv, Registered
<1>2. Inv /\ PrefixInv /\ PlayInv /\ FinishInv /\ RestoreInv /\ [Next]_vars
        => PrefixInv' /\ PlayInv' /\ FinishInv' /\ RestoreInv'
  BY PrefixInvStep, PlayInvStep, FinishInvStep, RestoreInvStep
<1>3. Inv /\ PrefixInv /\ PlayInv /\ FinishInv /\ RestoreInv /\ [Next]_vars
        => [Promise!Next]_Promise!vars
  BY PromiseStep
<1> QED
  BY Invariance, <1>1, <1>2, <1>3, PTL DEF Spec, ImplementsPromise, Promise!Spec
------------------------------------------------------------------------------
\* Nothing goes round in circles.  That a match and a restore do end needs the scheduler
\* too, and is checked by TLC; what the code owes to it is here: every step of the driver
\* and of the restore lowers a count that cannot fall for ever.

\* Restore is under way.
Restoring == proc \in {"list", "read", "replay", "settle", "abandon", "delete"}

\* Steps a restore has before it at most: the ticks and commands left to replay, and the
\* statements after them.
RestoreLeft ==
  CASE proc = "list"                     -> IF rec = NoRecord THEN 5 ELSE rec.tick + Len(rec.log) + 5
    [] proc = "read"                     -> IF rec = NoRecord THEN 4 ELSE rec.tick + Len(rec.log) + 4
    [] proc = "replay"                   -> (rec.tick - tick) + (Len(log) - replayed) + 3
    [] proc = "abandon"                  -> 2
    [] proc \in {"settle", "delete"}     -> 1
    [] OTHER                             -> 0

\* A restore has no loop without an end (persist.go ReplayTo, lobby.go Restore): nothing
\* but its own steps and the end of the process happens before the listener is up, and
\* each of its steps leaves it fewer.
RestoreShrinks ==
  [][Restoring => proc' = "down" \/ RestoreLeft' < RestoreLeft]_vars

\* Steps of the driver between two ticks, from where it stands: a save is two, and what
\* follows one is a tick, the last save of a shutdown, the settling or nothing.
DriverRank ==
  LET rank(place) == CASE place = "select" -> 3 [] place = "settle" -> 1 [] OTHER -> 0
  IN  CASE driver = "copy"  -> rank(after) + 2
        [] driver = "write" -> rank(after) + 1
        [] OTHER            -> rank(driver)

\* Steps the driver has before it at most.
DriverLeft == 3 * (EndTick - tick) + DriverRank

\* Nor has the driver (match.go drive): whatever requests do and however many saves fail,
\* its step leaves it fewer, and nothing but the end of the process takes it away.
DriverShrinks ==
  [][Registered /\ Registered' => DriverLeft' < DriverLeft]_<<driverVars, tick>>

\* The restore has the process to itself.
LEMMA RestoreAlone ==
  ASSUME Inv, Next, Restoring
  PROVE  RestoreStep \/ Crash
<1> USE DEF Restoring, Inv, ProcessInv, Handling, Requesting, Closed, Registered
<1>1. CASE StartFlip \/ StartStep
  BY <1>1 DEF StartFlip, StartStep, StartRegister, StartFails, StartReopens, StartReopenFails
<1>2. ASSUME NEW p \in Players, CommandChecked(p) \/ CommandStep(p) PROVE FALSE
  BY <1>2 DEF CommandChecked, CommandStep, CommandApplied, CommandRefused
<1>3. CASE DriverSave \/ DriverTick \/ DriverEnd
  BY <1>3 DEF DriverSave, DriverCopies, DriverWrites, DriverWriteFails, DriverTick,
              DriverTicks, DriverTicksAndSaves, DriverFinishes, DriverEnd,
              DriverSettles, DriverSettleFails, DriverSuspends
<1>4. CASE ProcessStep
  BY <1>4 DEF ProcessStep, Boot, Signal, StopDrivers, Exit
<1> QED
  BY <1>1, <1>2, <1>3, <1>4 DEF Next

LEMMA RestoreLeftNat ==
  ASSUME Inv, Restoring
  PROVE  RestoreLeft \in Nat \ {0}
<1>1. /\ rec # NoRecord => rec.tick \in Nat /\ Len(rec.log) \in Nat
      /\ tick \in Nat /\ Len(log) \in Nat /\ replayed \in Nat
  BY DEF Inv, TypeOK, Record
<1>2. proc = "replay" => rec # NoRecord /\ tick <= rec.tick /\ replayed <= Len(log)
  BY DEF Inv, ReplayInv
<1> QED
  BY <1>1, <1>2 DEF Restoring, RestoreLeft

LEMMA RestoreShrinksStep ==
  ASSUME Inv, RestoreStep, Restoring
  PROVE  RestoreLeft' < RestoreLeft
<1>1. /\ rec # NoRecord => rec.tick \in Nat /\ Len(rec.log) \in Nat
      /\ tick \in Nat /\ Len(log) \in Nat /\ replayed \in Nat
  BY DEF Inv, TypeOK, Record
<1>2. proc = "replay" => rec # NoRecord /\ tick <= rec.tick /\ replayed <= Len(log)
  BY DEF Inv, ReplayInv
<1> USE DEF RestoreLeft, dbVars, matchVars, procVars
<1>3. CASE RestoreLists
  BY <1>1, <1>3 DEF RestoreLists
<1>4. CASE RestoreReads
  <2>1. proc = "read" /\ UNCHANGED rec
    BY <1>4 DEF RestoreReads
  <2>2. CASE proc' \in {"abandon", "settle"}
    BY <1>1, <2>1, <2>2
  <2>3. CASE proc' = "replay" /\ rec # NoRecord /\ NewMatch(rec.log)
    BY <1>1, <2>1, <2>3 DEF NewMatch
  <2> QED BY <1>4, <2>2, <2>3 DEF RestoreReads
<1>5. CASE RestoreReadFails
  BY <1>1, <1>5 DEF RestoreReadFails
<1>6. CASE ReplayCommand
  BY <1>1, <1>2, <1>6 DEF ReplayCommand, Due
<1>7. CASE ReplayStep
  BY <1>1, <1>2, <1>7 DEF ReplayStep, Step
<1>8. CASE ReplayReturns
  BY <1>1, <1>2, <1>8 DEF ReplayReturns
<1>9. CASE RestoreSettles \/ RestoreAbandons \/ RestoreDeletes
  BY <1>9 DEF RestoreSettles, RestoreAbandons, RestoreDeletes
<1> QED
  BY <1>3, <1>4, <1>5, <1>6, <1>7, <1>8, <1>9 DEF RestoreStep

\* A restore takes a bounded number of steps, whatever fails and whatever record it finds:
\* before the listener come only its own and the end of the process, and each of its own
\* leaves it fewer.
THEOREM RestoreIsBounded ==
  Spec => RestoreShrinks /\ [](Restoring => RestoreLeft \in Nat \ {0})
<1>1. Inv /\ [Next]_vars => [Restoring => proc' = "down" \/ RestoreLeft' < RestoreLeft]_vars
  <2> SUFFICES ASSUME Inv, Next, Restoring
               PROVE  proc' = "down" \/ RestoreLeft' < RestoreLeft
    OBVIOUS
  <2>1. CASE RestoreStep
    BY <2>1, RestoreShrinksStep
  <2>2. CASE Crash
    BY <2>2 DEF Crash
  <2> QED BY <2>1, <2>2, RestoreAlone
<1>2. Inv => (Restoring => RestoreLeft \in Nat \ {0})
  BY RestoreLeftNat
<1> QED
  BY Invariance, <1>1, <1>2, PTL DEF Spec, RestoreShrinks

\* What the driver is about to do, a step of anybody else leaves it to do.
LEMMA DriverAlone ==
  ASSUME Inv, Next, Registered, Registered'
  PROVE  DriverSave \/ DriverTick \/ DriverEnd \/ UNCHANGED <<driverVars, tick>>
<1> USE DEF Registered, Inv, ProcessInv, Handling, driverVars, matchVars
<1>1. CASE StartFlip \/ StartStep
  BY <1>1 DEF StartFlip, StartStep, StartRegister, StartFails, StartReopens, StartReopenFails
<1>2. ASSUME NEW p \in Players, CommandChecked(p) \/ CommandStep(p)
      PROVE  UNCHANGED <<driverVars, tick>>
  BY <1>2 DEF CommandChecked, CommandStep, CommandApplied, CommandRefused
<1>3. CASE RestoreStep
  BY <1>3 DEF RestoreStep, RestoreLists, RestoreReads, RestoreReadFails, ReplayCommand,
              ReplayStep, ReplayReturns, RestoreSettles, RestoreAbandons, RestoreDeletes
<1>4. CASE ProcessStep
  BY <1>4 DEF ProcessStep, Boot, Crash, Signal, StopDrivers, Exit, LoseMemory
<1> QED
  BY <1>1, <1>2, <1>3, <1>4 DEF Next

LEMMA DriverShrinksStep ==
  ASSUME Inv, DriverSave \/ DriverTick \/ DriverEnd
  PROVE  DriverLeft' < DriverLeft
<1>1. /\ tick \in Nat /\ EndTick \in Nat
      /\ after \in {"none", "select", "settle", "gone"}
      /\ driver \in {"copy", "write"} => after # "none"
  BY ConstantsAssumption DEF Inv, TypeOK, DriverInv
<1>l. /\ DriverLeft = 3 * (EndTick - tick) + DriverRank
      /\ DriverLeft' = 3 * (EndTick - tick') + DriverRank'
  BY DEF DriverLeft
<1>m. \A r, s \in Nat :
        /\ s < r => 3 * (EndTick - tick) + s < 3 * (EndTick - tick) + r
        /\ s < r + 3 => 3 * (EndTick - (tick + 1)) + s < 3 * (EndTick - tick) + r
  BY <1>1
<1> USE DEF DriverRank, matchVars
<1>2. CASE DriverSave
  <2>1. UNCHANGED tick
    BY <1>2 DEF DriverSave, DriverCopies, DriverWrites, DriverWriteFails
  <2>2. DriverRank' < DriverRank /\ DriverRank \in Nat /\ DriverRank' \in Nat
    BY <1>1, <1>2 DEF DriverSave, DriverCopies, DriverWrites, DriverWriteFails
  <2> HIDE DEF DriverRank
  <2> QED BY <1>l, <1>m, <2>1, <2>2
<1>3. CASE DriverTick
  <2>1. tick' = tick + 1 /\ DriverRank = 3
    BY <1>3 DEF DriverTick, DriverTicks, DriverTicksAndSaves, DriverFinishes, Step
  <2>2. DriverRank' \in {3, 5}
    BY <1>3 DEF DriverTick, DriverTicks, DriverTicksAndSaves, DriverFinishes
  <2>3. DriverRank \in Nat /\ DriverRank' \in Nat /\ DriverRank' < DriverRank + 3
    BY <2>1, <2>2
  <2> HIDE DEF DriverRank
  <2> QED BY <1>l, <1>m, <2>1, <2>3
<1>4. CASE DriverEnd
  <2>1. UNCHANGED tick
    BY <1>4 DEF DriverEnd, DriverSettles, DriverSettleFails, DriverSuspends
  <2>2. DriverRank' < DriverRank /\ DriverRank \in Nat /\ DriverRank' \in Nat
    BY <1>4 DEF DriverEnd, DriverSettles, DriverSettleFails, DriverSuspends
  <2> HIDE DEF DriverRank
  <2> QED BY <1>l, <1>m, <2>1, <2>2
<1> QED BY <1>2, <1>3, <1>4

LEMMA DriverLeftNat ==
  ASSUME Inv, Registered
  PROVE  DriverLeft \in Nat /\ (DriverLeft = 0 => driver = "gone")
<1>1. /\ tick \in Nat /\ EndTick \in Nat /\ tick <= EndTick
      /\ driver \in {"select", "copy", "write", "settle", "gone"}
  BY ConstantsAssumption DEF Inv, TypeOK, MatchInv, Registered
<1>2. DriverRank \in Nat /\ (DriverRank = 0 => driver = "gone")
  BY <1>1 DEF DriverRank
<1> QED BY <1>1, <1>2 DEF DriverLeft

\* A driver takes at most 3 * EndTick + 5 steps, and so a stop that waits for it: however
\* many saves fail and whatever requests come, each leaves it fewer, until it is gone.
THEOREM DriverIsBounded ==
  Spec => DriverShrinks /\ [](Registered => DriverLeft \in Nat /\ (DriverLeft = 0 => driver = "gone"))
<1>1. Inv /\ [Next]_vars
        => [Registered /\ Registered' => DriverLeft' < DriverLeft]_<<driverVars, tick>>
  <2> SUFFICES ASSUME Inv, Next, Registered, Registered', ~UNCHANGED <<driverVars, tick>>
               PROVE  DriverLeft' < DriverLeft
    BY DEF vars, matchVars
  <2> QED BY DriverAlone, DriverShrinksStep
<1>2. Inv => (Registered => DriverLeft \in Nat /\ (DriverLeft = 0 => driver = "gone"))
  BY DriverLeftNat
<1> QED
  BY Invariance, <1>1, <1>2, PTL DEF Spec, DriverShrinks
=============================================================================
