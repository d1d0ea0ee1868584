-------------------------------- MODULE Match --------------------------------
(***************************************************************************)
(* One match of robocolony, from the click on Start to its place in the    *)
(* history, across every crash, shutdown and restart of the server.        *)
(*                                                                         *)
(*   internal/lobby/match.go    the Match object, its tick driver, Registry*)
(*   internal/lobby/persist.go  the replay that rebuilds a stored match    *)
(*   internal/lobby/lobby.go    Start, Restore, save, matchEnded           *)
(*   internal/db/matches.go     the match_log row                          *)
(*   cmd/server/main.go         boot, drain, stop                          *)
(*                                                                         *)
(* What is abstracted.  The simulation is deterministic, so a world is     *)
(* represented by what determines it: the tick it stands at and the player *)
(* inputs it has taken, each with the tick the world stood at when it took *)
(* it.  Two worlds are the same world iff these agree.  A command is known *)
(* by the player who gave it.  Matches share no state but the life of the  *)
(* process, so one lobby is modelled; the lobby's seats and settings are   *)
(* in Lobby.tla and the two are put together in Server.tla.                *)
(***************************************************************************)
EXTENDS Naturals, Sequences

CONSTANTS
  Players,       \* who may command a robot of the match
  Builds,        \* fingerprints of the binaries that may be deployed
  EndTick,       \* Settings.durationTicks: the tick the match ends on
  SaveEvery,     \* ticks between two periodic saves
  Faults,        \* the database statements that may fail, see FaultKinds
  NoRecord,      \* "no match_log row"
  MaxStops,      \* bound: how many times the process stops
  MaxInputs      \* bound: length of the input log

\* "save":   SaveMatchLog fails (5s timeout, full disk), so a save is lost.
\* "settle": SetLobbyState(finished) fails at the end of the match.
\* "reopen": SetLobbyState(open) fails when a failed start is rolled back;
\*           the request's own context is used, so a client that hung up
\*           is enough.
\* "read":   MatchLogByID or LobbyMembers fails while a match is restored.
\* "drain":  a request outlives the 30s drain and is still running when the
\*           tick drivers are stopped.
FaultKinds == {"save", "settle", "reopen", "read", "drain"}

Input  == [tick : Nat, by : Players]
Record == [build : Builds, tick : Nat, log : Seq(Input), finished : BOOLEAN]

ASSUME ConstantsAssumption ==
  /\ EndTick \in Nat \ {0}
  /\ SaveEvery \in Nat \ {0}
  /\ Builds # {}
  /\ Faults \subseteq FaultKinds
  /\ NoRecord \notin Record
  /\ MaxStops \in Nat
  /\ MaxInputs \in Nat

VARIABLES
  row,           \* lobbies.state
  rec,           \* the match_log row, or NoRecord
  proc,          \* where the process is in main.run, Restore included
  build,         \* the fingerprint of the running binary
  start,         \* the start request that won the flip: how far it is
  asked,         \* players whose command has passed Robots.own
  driver,        \* where the tick driver's goroutine is
  after,         \* where it goes when the save in progress returns
  unsaved,       \* successful steps since the last periodic save
  copy,          \* what Match.record copied for the save in progress
  tick, inputs,  \* Match.world: the tick it stands at, the inputs it took
  log,           \* Match.log
  replayed,      \* Match.replayed
  finished,      \* Match.finished
  stops,         \* history: stops of the process so far
  missed,        \* history: saves of this driver lost since one succeeded
  abandoned      \* history: Restore gave the match up

dbVars     == <<row, rec>>
driverVars == <<driver, after, unsaved, copy, missed>>
matchVars  == <<tick, inputs, log, replayed, finished>>
procVars   == <<proc, build, stops>>
reqVars    == <<start, asked>>
vars == <<dbVars, procVars, reqVars, driverVars, matchVars, abandoned>>

ProcStates ==
  {"down", "list", "read", "replay", "settle", "abandon", "delete",
   "serving", "draining", "stopping"}

TypeOK ==
  /\ row \in {"open", "running", "finished"}
  /\ rec \in Record \cup {NoRecord}
  /\ proc \in ProcStates
  /\ build \in Builds
  /\ start \in {"none", "flipped", "failed"}
  /\ asked \in SUBSET Players
  /\ driver \in {"none", "select", "copy", "write", "settle", "gone"}
  /\ after \in {"none", "select", "settle", "gone"}
  /\ unsaved \in Nat
  /\ copy \in Record \cup {NoRecord}
  /\ tick \in Nat
  /\ inputs \in Seq(Input)
  /\ log \in Seq(Input)
  /\ replayed \in Nat
  /\ finished \in BOOLEAN
  /\ stops \in Nat
  /\ missed \in Nat
  /\ abandoned \in BOOLEAN

\* The match is in the registry.  It stays there, finished, until the process
\* is gone: nothing deletes from Registry.matches.
Registered == driver # "none"

\* Registry.closed: Shutdown has begun.
Closed == proc = "stopping"

\* Restore is behind the process.
Handling == proc \in {"serving", "draining", "stopping"}

\* A request can be under way: new ones come in only while serving, but the drain
\* lets those let in finish, and gives up on them after 30s.
Requesting == proc \in {"serving", "draining"} \/ (Closed /\ "drain" \in Faults)

NoMatch ==
  /\ tick = 0 /\ inputs = <<>> /\ log = <<>> /\ replayed = 0 /\ finished = FALSE

NoDriver ==
  /\ driver = "none" /\ after = "none" /\ unsaved = 0 /\ copy = NoRecord /\ missed = 0

Init ==
  /\ row = "open" /\ rec = NoRecord
  /\ proc = "down" /\ build \in Builds /\ stops = 0
  /\ start = "none" /\ asked = {}
  /\ NoDriver /\ NoMatch
  /\ abandoned = FALSE

------------------------------------------------------------------------------
\* The match object.

\* newMatch: a freshly generated world, standing at tick 0.
NewMatch(cmds) ==
  /\ tick' = 0 /\ inputs' = <<>> /\ replayed' = 0 /\ finished' = FALSE
  /\ log' = cmds

\* Match.step, for a match that is not over.
Step ==
  /\ ~finished
  /\ tick' = tick + 1
  /\ finished' = (tick + 1 >= EndTick)
  /\ UNCHANGED <<inputs, log, replayed>>

\* Mutant: the end flag is not saved.
SnapshotDropsEnd == [build |-> build, tick |-> tick, log |-> log]

\* Match.record and the row Service.save builds from it.
Snapshot == [build |-> build, tick |-> tick, log |-> log, finished |-> finished]

\* Registry.Start: the match is registered and its driver begins by persisting.
Launch ==
  /\ driver' = "copy" /\ after' = "select"
  /\ unsaved' = 0 /\ copy' = NoRecord /\ missed' = 0

------------------------------------------------------------------------------
\* Service.Start, as far as this match can see it.  The flip is one UPDATE with
\* the state in its WHERE clause, so one request at most is past it.

\* Mutant: the state is not in the WHERE clause.
StartFlipUngated ==
  /\ Requesting
  /\ row' = "running" /\ start' = "flipped"
  /\ UNCHANGED <<rec, procVars, asked, driverVars, matchVars, abandoned>>

StartFlip ==
  /\ Requesting
  /\ row = "open"
  /\ row' = "running" /\ start' = "flipped"
  /\ UNCHANGED <<rec, procVars, asked, driverVars, matchVars, abandoned>>

StartRegister ==
  /\ start = "flipped" /\ ~Closed /\ ~Registered
  /\ NewMatch(<<>>) /\ Launch
  /\ start' = "none"
  /\ UNCHANGED <<dbVars, procVars, asked, abandoned>>

\* A read fails, a colony kit cannot be rebuilt, or Registry.Start refuses
\* because the server is shutting down or the id is taken.
StartFails ==
  /\ start = "flipped"
  /\ start' = "failed"
  /\ UNCHANGED <<dbVars, procVars, asked, driverVars, matchVars, abandoned>>

StartReopens ==
  /\ start = "failed"
  /\ row' = "open" /\ start' = "none"
  /\ UNCHANGED <<rec, procVars, asked, driverVars, matchVars, abandoned>>

StartReopenFails ==
  /\ "reopen" \in Faults
  /\ start = "failed"
  /\ start' = "none"
  /\ UNCHANGED <<dbVars, procVars, asked, driverVars, matchVars, abandoned>>

------------------------------------------------------------------------------
\* Robots.Recall and Robots.InstallProgram.  Robots.own looks the match up and
\* checks Finished, taking and releasing the match lock; Match.Apply takes the
\* lock again.

CommandChecked(p) ==
  /\ Requesting /\ Registered /\ ~finished
  /\ p \notin asked
  /\ asked' = asked \cup {p}
  /\ UNCHANGED <<dbVars, procVars, start, driverVars, matchVars, abandoned>>

\* Mutant: the command goes through Match.Read and is not recorded.
CommandUnlogged(p) ==
  /\ p \in asked /\ ~finished
  /\ Len(inputs) < MaxInputs
  /\ inputs' = Append(inputs, [tick |-> tick, by |-> p])
  /\ asked' = asked \ {p}
  /\ UNCHANGED <<dbVars, procVars, start, driverVars, tick, log, replayed, finished, abandoned>>

\* Mutant: Match.Apply trusts the check Robots.own made.
CommandUnchecked(p) ==
  /\ p \in asked
  /\ Len(log) < MaxInputs
  /\ LET cmd == [tick |-> tick, by |-> p]
     IN  inputs' = Append(inputs, cmd) /\ log' = Append(log, cmd)
  /\ asked' = asked \ {p}
  /\ UNCHANGED <<dbVars, procVars, start, driverVars, tick, replayed, finished, abandoned>>

\* Match.Apply with an f that succeeds: the world takes the input and the log
\* records it, under one lock.
CommandApplied(p) ==
  /\ p \in asked /\ ~finished
  /\ Len(log) < MaxInputs
  /\ LET cmd == [tick |-> tick, by |-> p]
     IN  inputs' = Append(inputs, cmd) /\ log' = Append(log, cmd)
  /\ asked' = asked \ {p}
  /\ UNCHANGED <<dbVars, procVars, start, driverVars, tick, replayed, finished, abandoned>>

\* Match.Apply refuses: the match is over (ErrMatchOver), or f fails because the
\* robot is gone or is not at its base.
CommandRefused(p) ==
  /\ p \in asked
  /\ asked' = asked \ {p}
  /\ UNCHANGED <<dbVars, procVars, start, driverVars, matchVars, abandoned>>

------------------------------------------------------------------------------
\* Registry.drive.  A save is two steps: the copy under the match lock, then the
\* write with no lock held.

DriverCopies ==
  /\ driver = "copy"
  /\ copy' = Snapshot
  /\ driver' = "write"
  /\ UNCHANGED <<dbVars, procVars, reqVars, after, unsaved, missed, matchVars, abandoned>>

DriverWrites ==
  /\ driver = "write"
  /\ rec' = copy /\ missed' = 0
  /\ driver' = after /\ after' = "none" /\ copy' = NoRecord
  /\ UNCHANGED <<row, procVars, reqVars, unsaved, matchVars, abandoned>>

\* Mutant: a failed save is tried again until it succeeds.
DriverWriteRetries ==
  /\ "save" \in Faults
  /\ driver = "write"
  /\ driver' = "copy" /\ copy' = NoRecord
  /\ UNCHANGED <<dbVars, procVars, reqVars, after, unsaved, missed, matchVars, abandoned>>

\* A failed save is logged and the driver goes on.
DriverWriteFails ==
  /\ "save" \in Faults
  /\ driver = "write"
  /\ missed' = missed + 1
  /\ driver' = after /\ after' = "none" /\ copy' = NoRecord
  /\ UNCHANGED <<dbVars, procVars, reqVars, unsaved, matchVars, abandoned>>

\* Mutant: the periodic save is a tick late.
DriverTicksLate ==
  /\ driver = "select"
  /\ Step /\ ~finished'
  /\ unsaved + 1 <= SaveEvery
  /\ unsaved' = unsaved + 1
  /\ UNCHANGED <<dbVars, procVars, reqVars, driver, after, copy, missed, abandoned>>

\* The tick that is not followed by a save.
DriverTicks ==
  /\ driver = "select"
  /\ Step /\ ~finished'
  /\ unsaved + 1 < SaveEvery
  /\ unsaved' = unsaved + 1
  /\ UNCHANGED <<dbVars, procVars, reqVars, driver, after, copy, missed, abandoned>>

DriverTicksAndSaves ==
  /\ driver = "select"
  /\ Step /\ ~finished'
  /\ unsaved + 1 >= SaveEvery
  /\ unsaved' = 0
  /\ driver' = "copy" /\ after' = "select"
  /\ UNCHANGED <<dbVars, procVars, reqVars, copy, missed, abandoned>>

\* Mutant: the lobby is settled without the finishing save.
DriverFinishesUnsaved ==
  /\ driver = "select"
  /\ Step /\ finished'
  /\ driver' = "settle"
  /\ UNCHANGED <<dbVars, procVars, reqVars, after, unsaved, copy, missed, abandoned>>

\* The last tick: the finishing save comes first, then the lobby is settled.
DriverFinishes ==
  /\ driver = "select"
  /\ Step /\ finished'
  /\ driver' = "copy" /\ after' = "settle"
  /\ UNCHANGED <<dbVars, procVars, reqVars, unsaved, copy, missed, abandoned>>

\* matchEnded.
DriverSettles ==
  /\ driver = "settle"
  /\ row' = "finished"
  /\ driver' = "gone"
  /\ UNCHANGED <<rec, procVars, reqVars, after, unsaved, copy, missed, matchVars, abandoned>>

DriverSettleFails ==
  /\ "settle" \in Faults
  /\ driver = "settle"
  /\ driver' = "gone"
  /\ UNCHANGED <<dbVars, procVars, reqVars, after, unsaved, copy, missed, matchVars, abandoned>>

\* Mutant: the driver returns on done without a last save.
DriverSuspendsUnsaved ==
  /\ driver = "select" /\ Closed
  /\ driver' = "gone"
  /\ UNCHANGED <<dbVars, procVars, reqVars, after, unsaved, copy, missed, matchVars, abandoned>>

\* <-r.done: the last save of a match that is suspended by the shutdown.
DriverSuspends ==
  /\ driver = "select" /\ Closed
  /\ driver' = "copy" /\ after' = "gone"
  /\ UNCHANGED <<dbVars, procVars, reqVars, unsaved, copy, missed, matchVars, abandoned>>

------------------------------------------------------------------------------
\* main.run.

\* Everything in memory goes with the process.
LoseMemory ==
  /\ start' = "none" /\ asked' = {}
  /\ driver' = "none" /\ after' = "none" /\ unsaved' = 0 /\ copy' = NoRecord /\ missed' = 0
  /\ tick' = 0 /\ inputs' = <<>> /\ log' = <<>> /\ replayed' = 0 /\ finished' = FALSE

\* The container is restarted, perhaps with another build.
Boot ==
  /\ proc = "down"
  /\ proc' = "list" /\ build' \in Builds
  /\ UNCHANGED <<dbVars, stops, reqVars, driverVars, matchVars, abandoned>>

\* A kill, a crash, a shutdown that interrupts Restore, or a Restore that returns
\* the error of one of its own writes: run returns and nothing is saved.
Crash ==
  /\ proc # "down" /\ stops < MaxStops
  /\ proc' = "down" /\ stops' = stops + 1
  /\ LoseMemory
  /\ UNCHANGED <<dbVars, build, abandoned>>

Signal ==
  /\ proc = "serving" /\ stops < MaxStops
  /\ proc' = "draining" /\ stops' = stops + 1
  /\ UNCHANGED <<dbVars, build, reqVars, driverVars, matchVars, abandoned>>

\* srv.Shutdown returns, and Registry.Shutdown closes done.
StopDrivers ==
  /\ proc = "draining"
  /\ "drain" \in Faults \/ (start = "none" /\ asked = {})
  /\ proc' = "stopping"
  /\ UNCHANGED <<dbVars, build, stops, reqVars, driverVars, matchVars, abandoned>>

\* wg.Wait returns: no driver, or one that has returned.  A stop whose own deadline
\* passes first ends the process under its drivers, as Crash does.
Exit ==
  /\ proc = "stopping" /\ driver \in {"none", "gone"}
  /\ proc' = "down"
  /\ LoseMemory
  /\ UNCHANGED <<dbVars, build, stops, abandoned>>

------------------------------------------------------------------------------
\* Service.Restore, before the listener.

RestoreLists ==
  /\ proc = "list"
  /\ proc' = IF row = "running" THEN "read" ELSE "serving"
  /\ UNCHANGED <<dbVars, build, stops, reqVars, driverVars, matchVars, abandoned>>

\* The record this build cannot replay: it is another build's, or it claims a
\* running match at or past its end.
Unusable == rec.build # build \/ rec.tick >= EndTick

\* Mutant: the fingerprint is looked at before the end flag.
RestoreReadsBuildFirst ==
  /\ proc = "read"
  /\ \/ /\ rec = NoRecord
        /\ proc' = "abandon" /\ UNCHANGED matchVars
     \/ /\ rec # NoRecord /\ rec.build # build
        /\ proc' = "abandon" /\ UNCHANGED matchVars
     \/ /\ rec # NoRecord /\ rec.build = build /\ rec.finished
        /\ proc' = "settle" /\ UNCHANGED matchVars
     \/ /\ rec # NoRecord /\ rec.build = build /\ ~rec.finished
        /\ proc' = "replay" /\ NewMatch(rec.log)
  /\ UNCHANGED <<dbVars, build, stops, reqVars, driverVars, abandoned>>

\* Mutant: the match is rebuilt from the seed and the tick, without its log.
RestoreReadsNoLog ==
  /\ proc = "read"
  /\ \/ /\ rec = NoRecord
        /\ proc' = "abandon" /\ UNCHANGED matchVars
     \/ /\ rec # NoRecord /\ rec.finished
        /\ proc' = "settle" /\ UNCHANGED matchVars
     \/ /\ rec # NoRecord /\ ~rec.finished /\ Unusable
        /\ proc' = "abandon" /\ UNCHANGED matchVars
     \/ /\ rec # NoRecord /\ ~rec.finished /\ ~Unusable
        /\ proc' = "replay" /\ NewMatch(<<>>)
  /\ UNCHANGED <<dbVars, build, stops, reqVars, driverVars, abandoned>>

\* restore, up to newReplay: the finished record is history and is looked for
\* before the fingerprint is.
RestoreReads ==
  /\ proc = "read"
  /\ \/ /\ rec = NoRecord
        /\ proc' = "abandon" /\ UNCHANGED matchVars
     \/ /\ rec # NoRecord /\ rec.finished
        /\ proc' = "settle" /\ UNCHANGED matchVars
     \/ /\ rec # NoRecord /\ ~rec.finished /\ Unusable
        /\ proc' = "abandon" /\ UNCHANGED matchVars
     \/ /\ rec # NoRecord /\ ~rec.finished /\ ~Unusable
        /\ proc' = "replay" /\ NewMatch(rec.log)
  /\ UNCHANGED <<dbVars, build, stops, reqVars, driverVars, abandoned>>

\* An error that is neither ErrNoRows nor the context's own is taken for a bad
\* record.
RestoreReadFails ==
  /\ "read" \in Faults
  /\ proc = "read"
  /\ proc' = "abandon"
  /\ UNCHANGED <<dbVars, build, stops, reqVars, driverVars, matchVars, abandoned>>

\* applyDue: the next recorded command is due at the tick the world stands on.
Due == replayed < Len(log) /\ log[replayed + 1].tick = tick

\* Its tick has passed without it.
OutOfOrder == replayed < Len(log) /\ log[replayed + 1].tick < tick

ReplayCommand ==
  /\ proc = "replay" /\ Due
  /\ inputs' = Append(inputs, [tick |-> tick, by |-> log[replayed + 1].by])
  /\ replayed' = replayed + 1
  /\ UNCHANGED <<dbVars, procVars, reqVars, driverVars, tick, log, finished, abandoned>>

ReplayStep ==
  /\ proc = "replay" /\ ~Due /\ ~OutOfOrder /\ tick < rec.tick
  /\ Step
  /\ UNCHANGED <<dbVars, procVars, reqVars, driverVars, abandoned>>

\* Mutant: the replay stops at its target before it applies what is due there.
ReplayReturnsEarly ==
  /\ proc = "replay"
  /\ tick >= rec.tick \/ finished \/ OutOfOrder
  /\ IF tick = rec.tick /\ replayed = Len(log)
       THEN proc' = "serving" /\ Launch
       ELSE proc' = "abandon" /\ UNCHANGED driverVars
  /\ UNCHANGED <<dbVars, build, stops, reqVars, matchVars, abandoned>>

\* ReplayTo returns.  The match is handed to the registry if it stands at its
\* target with every command applied, and given up otherwise.
ReplayReturns ==
  /\ proc = "replay" /\ ~Due
  /\ tick >= rec.tick \/ finished \/ OutOfOrder
  /\ IF tick = rec.tick /\ replayed = Len(log)
       THEN proc' = "serving" /\ Launch
       ELSE proc' = "abandon" /\ UNCHANGED driverVars
  /\ UNCHANGED <<dbVars, build, stops, reqVars, matchVars, abandoned>>

\* Mutant: a finished record is left alone, and its lobby with it.
RestoreSkipsSettling ==
  /\ proc = "settle"
  /\ proc' = "serving"
  /\ UNCHANGED <<dbVars, build, stops, reqVars, driverVars, matchVars, abandoned>>

\* The match ended and the process died before matchEnded: settle the lobby and
\* keep the record.
RestoreSettles ==
  /\ proc = "settle"
  /\ row' = "finished" /\ proc' = "serving"
  /\ UNCHANGED <<rec, build, stops, reqVars, driverVars, matchVars, abandoned>>

\* The match cannot be restored: finish the lobby, then delete the record.
RestoreAbandons ==
  /\ proc = "abandon"
  /\ row' = "finished" /\ proc' = "delete" /\ abandoned' = TRUE
  /\ NewMatch(<<>>)
  /\ UNCHANGED <<rec, build, stops, reqVars, driverVars>>

RestoreDeletes ==
  /\ proc = "delete"
  /\ rec' = NoRecord /\ proc' = "serving"
  /\ UNCHANGED <<row, build, stops, reqVars, driverVars, matchVars, abandoned>>

------------------------------------------------------------------------------
StartStep   == StartRegister \/ StartFails \/ StartReopens \/ StartReopenFails
CommandStep(p) == CommandApplied(p) \/ CommandRefused(p)
DriverSave  == DriverCopies \/ DriverWrites \/ DriverWriteFails
DriverTick  == DriverTicks \/ DriverTicksAndSaves \/ DriverFinishes
DriverEnd   == DriverSettles \/ DriverSettleFails \/ DriverSuspends
RestoreStep == RestoreLists \/ RestoreReads \/ RestoreReadFails \/ ReplayCommand
                 \/ ReplayStep \/ ReplayReturns \/ RestoreSettles
                 \/ RestoreAbandons \/ RestoreDeletes
ProcessStep == Boot \/ Crash \/ Signal \/ StopDrivers \/ Exit

Next ==
  \/ StartFlip \/ StartStep
  \/ \E p \in Players : CommandChecked(p) \/ CommandStep(p)
  \/ DriverSave \/ DriverTick \/ DriverEnd
  \/ RestoreStep
  \/ ProcessStep

Spec == Init /\ [][Next]_vars

\* What the Go runtime and the container's restart policy do: a runnable
\* goroutine runs (a request past its first statement, the tick driver, main),
\* a select with the done channel closed takes it in the end, and a container
\* that exits is started again.  Nobody has to start a match or give a command,
\* and the process need not stop.
Fairness ==
  /\ WF_vars(StartStep)
  /\ \A p \in Players : WF_vars(CommandStep(p))
  /\ WF_vars(DriverSave) /\ WF_vars(DriverTick) /\ WF_vars(DriverEnd)
  /\ WF_vars(RestoreStep)
  /\ WF_vars(Boot) /\ WF_vars(StopDrivers) /\ WF_vars(Exit)

FairSpec == Spec /\ Fairness

------------------------------------------------------------------------------
\* Properties.

\* The input log explains the world: a match in the registry has taken exactly
\* the inputs its log records, each at the tick recorded for it, and one being
\* replayed has taken the first `replayed` of them.  So (seats, seed, log, tick)
\* is the whole match, which is what persist.go saves and Apply keeps true.
LogExplainsWorld ==
  /\ Registered => inputs = log
  /\ proc = "replay" => replayed <= Len(log) /\ inputs = SubSeq(log, 1, replayed)

\* What a stop can cost.  While a driver runs and its saves succeed, the record
\* is at most SaveEvery ticks behind the world ("the bound on how far a match
\* rewinds", match.go); every save lost in a row costs SaveEvery more.  Before
\* the first save succeeds there is no record at all.
RewindBound ==
  Registered =>
    IF rec = NoRecord THEN tick <= SaveEvery * (missed + 1)
                      ELSE rec.tick <= tick /\ tick - rec.tick <= SaveEvery * (missed + 1)

\* Restore gives up only on a match it has no record of, or whose record is of
\* another build: a match this build recorded always replays, so none of the
\* replay's refusals (out of order, past its end, left-over commands) is ever
\* met by a record the driver wrote.
OnlyForeignIsAbandoned ==
  proc = "abandon" => rec = NoRecord \/ rec.build # build

\* The finishing save is the last word (E9): once the record is history it holds
\* the match's exact last tick and every command the match ever accepted.  A command
\* whose match ends between own's look and Apply is refused, so none lands behind the
\* record, as the comment in own (robots.go) allows one to.
HistoryIsComplete ==
  rec # NoRecord /\ rec.finished =>
    /\ rec.tick = EndTick
    /\ Registered => log = rec.log /\ tick = rec.tick

\* "A record with finished_at set is history and is never deleted" (db/matches.go):
\* nor is it ever rewritten, whatever restarts and builds come after.
HistoryIsPermanent ==
  [][rec # NoRecord /\ rec.finished => rec' = rec]_vars

\* A finished lobby is in the history unless Restore gave its match up: the
\* finishing save precedes the settling, and no crash between them is lost.
FinishedIsInHistory ==
  row = "finished" /\ ~abandoned => rec # NoRecord /\ rec.finished

\* Players can still join and leave an open lobby, so it has no match, no record
\* and no driver: a start that is rolled back never reopens a lobby under a
\* running match.
OpenHasNoMatch ==
  row = "open" => ~Registered /\ rec = NoRecord

\* A lobby that says running has a match, unless a start is on its way or the
\* process is not past Restore: "put it back so the lobby is not stranded"
\* (lobby.go, Start).
NotStranded ==
  Handling /\ row = "running" => Registered \/ start # "none"

\* "A graceful stop rewinds nothing" (match.go): when the last goroutine of a
\* stop has returned, the record of an unfinished match is the world as it
\* stands, with every command a player was told had succeeded.
GracefulStopRewindsNothing ==
  Closed /\ driver = "gone" => rec = Snapshot

\* A match under way ends: it is finished, or the start that began it is rolled
\* back.
RunningEnds == row = "running" ~> row # "running"

\* A stopping process gets to its exit: no driver and no request waits for ever.
StopEnds == proc = "draining" ~> proc = "down"

\* The detailed match implements the promise.
Promise == INSTANCE MatchPromise WITH
  NoWorld <- NoRecord,
  phase   <- IF start # "none" THEN "starting" ELSE row,
  world   <- IF Registered THEN [tick |-> tick, inputs |-> inputs] ELSE NoRecord,
  kept    <- IF rec = NoRecord THEN NoRecord ELSE [tick |-> rec.tick, inputs |-> rec.log]

ImplementsPromise == Promise!Spec

------------------------------------------------------------------------------
\* The inductive invariant behind the safety properties (MatchProofs.tla), in
\* named parts.

\* Commands are logged in the order of their ticks, none after tick t.
InOrder(cmds, t) ==
  /\ \A i, j \in DOMAIN cmds : i <= j => cmds[i].tick <= cmds[j].tick
  /\ \A i \in DOMAIN cmds : cmds[i].tick <= t

\* What one pass of the process through main.run has in memory.
ProcessInv ==
  /\ ~Handling => ~Registered /\ start = "none" /\ asked = {}
  /\ ~Registered => NoDriver
  /\ proc \in {"read", "replay", "settle", "abandon"} => row = "running"
  /\ proc = "delete" => row = "finished" /\ abandoned

\* An open lobby has nothing behind it, and neither has one whose start is on
\* its way.
StartInv ==
  /\ row = "open" => ~Registered /\ start = "none" /\ rec = NoRecord
  /\ start # "none" => row = "running" /\ ~Registered /\ rec = NoRecord

\* Every record on disk can be replayed to its tick.
RecordInv ==
  rec # NoRecord =>
    /\ InOrder(rec.log, rec.tick)
    /\ rec.tick <= EndTick
    /\ rec.finished <=> rec.tick = EndTick

\* The match in the registry.
MatchInv ==
  Registered =>
    /\ inputs = log /\ InOrder(log, tick)
    /\ tick <= EndTick
    /\ finished <=> tick = EndTick

\* The driver's place, and the save in progress.
DriverInv ==
  /\ driver \in {"copy", "write"} => after # "none" /\ (after = "settle" <=> finished)
  /\ driver = "select" => ~finished
  /\ driver = "settle" => finished
  /\ driver = "gone" => finished \/ Closed
  /\ after = "gone" => Closed
  /\ driver # "write" => copy = NoRecord
  /\ driver = "write" =>
       /\ copy # NoRecord
       /\ copy.build = build /\ copy.tick = tick /\ copy.finished = finished
       /\ InOrder(copy.log, tick)
       /\ finished => copy.log = log

\* The record and the match it is of.
SavedInv ==
  Registered /\ rec # NoRecord =>
    /\ rec.tick <= tick
    /\ rec.finished => driver \in {"settle", "gone"} /\ rec.log = log

\* The match being replayed.
ReplayInv ==
  proc = "replay" =>
    /\ rec # NoRecord /\ rec.build = build /\ rec.tick < EndTick
    /\ log = rec.log
    /\ tick <= rec.tick /\ ~finished
    /\ replayed <= Len(log) /\ Len(inputs) = replayed
    /\ \A i \in 1..replayed : inputs[i] = log[i]
    /\ \A i \in (replayed + 1)..Len(log) : tick <= log[i].tick

Inv ==
  /\ TypeOK /\ ProcessInv /\ StartInv /\ RecordInv /\ MatchInv
  /\ DriverInv /\ SavedInv /\ ReplayInv

\* What the properties that depend on the faults add to it.

\* While every read of a restore answers: what Restore gives up or deletes is no
\* history, and no record of this build.
RestoreInv ==
  /\ proc = "abandon" => rec = NoRecord \/ (rec.build # build /\ ~rec.finished)
  /\ proc = "delete" => rec = NoRecord \/ ~rec.finished

\* How far the record may be behind, at each place of the driver.
RewindInv ==
  LET base == IF rec = NoRecord THEN 0 ELSE rec.tick
  IN  /\ unsaved < SaveEvery
      /\ driver = "select" => tick <= base + unsaved + SaveEvery * missed
      /\ Registered => tick <= base + SaveEvery + SaveEvery * missed

\* While every save succeeds: a lobby is settled after its finishing save.
FinishInv ==
  /\ driver = "settle" \/ proc = "settle" => rec # NoRecord /\ rec.finished
  /\ row = "finished" /\ ~abandoned => rec # NoRecord /\ rec.finished

\* While, besides, every request is over before the drivers are stopped: the last
\* save holds the last command.
LastSaveInv ==
  /\ Closed => asked = {} /\ start = "none"
  /\ driver = "write" /\ after \in {"settle", "gone"} => copy = Snapshot
  /\ driver \in {"settle", "gone"} => rec = Snapshot
==============================================================================
