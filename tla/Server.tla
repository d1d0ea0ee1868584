-------------------------------- MODULE Server --------------------------------
(***************************************************************************)
(* The lobby (Lobby.tla) and its match (Match.tla) in one process over one *)
(* database.  They share lobbies.state and the life of the process: a      *)
(* request of Service.Start is both a request of the lobby and the start   *)
(* of the match, a stop loses the requests with the match, and Restore     *)
(* builds the match from the record and from the lobby's rows.             *)
(***************************************************************************)
EXTENDS Naturals, Sequences

CONSTANTS
  Users, Owner, Requests, Profiles, Kits, NoKit, MaxColonies, NoColonies,  \* Lobby
  Builds, EndTick, SaveEvery, Faults, NoRecord, MaxStops, MaxInputs        \* Match

VARIABLES
  row,                                                        \* shared
  settings, seats, req, colonies,                             \* Lobby
  rec, proc, build, asked, driver, after, unsaved, copy,      \* Match
  tick, inputs, log, replayed, finished, stops, missed, abandoned,
  born           \* history: the colonies the match was first launched with

lobbyVars == <<settings, seats, req, colonies>>
matchVars == <<rec, proc, build, asked, driver, after, unsaved, copy,
               tick, inputs, log, replayed, finished, stops, missed, abandoned>>
vars == <<row, lobbyVars, matchVars, born>>

\* How far the start request that won the flip is, for the match.
StartOf ==
  IF \E r \in Requests : req[r].op \in {"flipped", "reloaded", "built"} THEN "flipped"
  ELSE IF \E r \in Requests : req[r].op = "failed" THEN "failed"
  ELSE "none"

L == INSTANCE Lobby
M == INSTANCE Match WITH Players <- Users, start <- StartOf

Init == L!Init /\ M!Init /\ born = NoColonies

------------------------------------------------------------------------------
\* Requests.  The listener is open while serving; what it let in finishes later.
\* A request of one action may be taken at any time up to the end of the drain.

\* The player has a colony in the match in the registry (Robots.own).
HasColony(u) ==
  colonies # NoColonies /\ \E i \in DOMAIN colonies.seats : colonies.seats[i].user = u

LobbyRequest(r) ==
  /\ \/ proc = "serving" /\ ((\E u \in Users : L!JoinReads(r, u))
                              \/ (\E list \in L!AILists : L!SetAIReads(r, list))
                              \/ L!StartReads(r))
     \/ L!JoinInserts(r) \/ L!SetAIWrites(r)
     \/ L!StartRefused(r) \/ L!StartReloads(r) \/ L!StartBuilds(r)
  /\ UNCHANGED <<matchVars, born>>

SeatRequest(u) ==
  /\ M!Requesting
  /\ L!Leave(u) \/ (\E k \in Kits \cup {NoKit} : L!SetLoadout(u, k))
  /\ UNCHANGED <<matchVars, born>>

StartRequest(r) ==
  \/ L!StartFlips(r) /\ M!StartFlip /\ UNCHANGED born
  \/ L!StartRegisters(r) /\ M!StartRegister /\ born' = colonies'
  \/ L!StartFails(r) /\ M!StartFails /\ UNCHANGED born
  \/ L!StartReopens(r) /\ M!StartReopens /\ UNCHANGED born
  \/ L!StartReopenFails(r) /\ M!StartReopenFails /\ UNCHANGED born

Command(u) ==
  /\ UNCHANGED <<lobbyVars, born>>
  /\ \/ HasColony(u) /\ M!CommandChecked(u)
     \/ M!CommandApplied(u) \/ M!CommandRefused(u)

------------------------------------------------------------------------------
\* The driver, Restore and the process.

Drive ==
  /\ UNCHANGED born
  /\ \/ /\ UNCHANGED lobbyVars
        /\ M!DriverSave \/ M!DriverTick \/ M!DriverSettleFails \/ M!DriverSuspends
     \/ L!MatchSettles /\ M!DriverSettles

\* newMatch, in the replay, reads the lobby's rows.
Restore ==
  /\ UNCHANGED born
  /\ \/ /\ UNCHANGED lobbyVars
        /\ \/ M!RestoreLists \/ M!RestoreReads \/ M!RestoreReadFails
           \/ M!ReplayCommand \/ M!ReplayStep \/ M!RestoreDeletes
     \/ L!MatchSettles /\ (M!RestoreSettles \/ M!RestoreAbandons)
     \/ /\ UNCHANGED req /\ M!ReplayReturns
        /\ IF proc' = "serving" THEN L!Restored ELSE UNCHANGED lobbyVars

Process ==
  /\ UNCHANGED born
  /\ \/ UNCHANGED lobbyVars /\ (M!Boot \/ M!Signal)
     \/ /\ UNCHANGED lobbyVars
        /\ "drain" \in Faults \/ \A r \in Requests : req[r] = L!Idle
        /\ M!StopDrivers
     \/ L!ProcessStops /\ (M!Crash \/ M!Exit)

Next ==
  \/ \E r \in Requests : LobbyRequest(r) \/ StartRequest(r)
  \/ \E u \in Users : SeatRequest(u) \/ Command(u)
  \/ Drive \/ Restore \/ Process

Spec == Init /\ [][Next]_vars
------------------------------------------------------------------------------
\* Properties.

TypeOK == L!TypeOK /\ M!TypeOK /\ born \in [seats : Seq(L!Seat), ai : L!AILists] \cup {NoColonies}

\* A restart gives the players back the match they started: the colonies rebuilt
\* from the rows are those the match was launched with, whatever requests were
\* in flight at the flip and at the stop.
RestartKeepsColonies == colonies # NoColonies => colonies = born

\* Every command on disk is of a player the rows still seat, so the replay that
\* re-applies it finds a colony for it.
CommandersAreSeated ==
  rec # NoRecord =>
    \A i \in DOMAIN rec.log : \E j \in DOMAIN seats : seats[j].user = rec.log[i].by
==============================================================================
