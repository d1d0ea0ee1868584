-------------------------------- MODULE Lobby --------------------------------
(***************************************************************************)
(* One lobby: its row, its seats, and the requests that race over them     *)
(* until the match starts.                                                 *)
(*                                                                         *)
(*   internal/lobby/lobby.go     Create, Join, Leave, SetAI, SetLoadout,   *)
(*                               Start                                     *)
(*   internal/lobby/settings.go  Validate                                  *)
(*   internal/lobby/match.go     newMatch: the colonies of the match       *)
(*   internal/db/lobbies.go      the statements, each atomic in SQLite     *)
(*                                                                         *)
(* A request runs on its own goroutine and is a sequence of statements:    *)
(* what one of them read is kept in the request and may be stale when the  *)
(* next one runs.  A request of one statement, or whose other statements   *)
(* read what never changes (the owner), is one action.                     *)
(*                                                                         *)
(* Abstracted: of the settings only MaxPlayers and the AI profiles matter  *)
(* here; a loadout is a kit, one value, since SetLoadout stores a snapshot *)
(* that later edits of the library do not reach.  The match itself is in   *)
(* Match.tla: here it is the colonies it was built with.                   *)
(***************************************************************************)
EXTENDS Naturals, Sequences, FiniteSets

CONSTANTS
  Users,         \* who may take a seat
  Owner,         \* the user who created the lobby
  Requests,      \* slots for requests of several statements in flight at once
  Profiles,      \* AI profiles
  Kits,          \* loadouts a member may choose
  NoKit,         \* the built-in kit
  MaxColonies,   \* settings.go maxPlayers: the cap on colonies, human or not
  NoColonies     \* "no match in the registry"

VARIABLES
  row,           \* lobbies.state
  settings,      \* lobbies.settings_json
  seats,         \* lobby_members, in join order
  req,           \* the requests in flight
  colonies       \* Match.Colonies of the match in the registry, or NoColonies

vars == <<row, settings, seats, req, colonies>>

Seat     == [user : Users, kit : Kits \cup {NoKit}]
AILists  == UNION {[1..n -> Profiles] : n \in 0..(MaxColonies - 1)}
Settings == [max : 1..MaxColonies, ai : AILists]

\* Settings.Validate: seats and AI colonies together fit the arena.
Validate(s) == s.max + Len(s.ai) <= MaxColonies

Idle == [op |-> "idle"]

Request ==
  {Idle}
    \cup [op : {"join"}, user : Users, max : 1..MaxColonies]
    \cup [op : {"setai"}, set : Settings]
    \cup [op : {"start", "flipped", "reloaded", "built", "failed"}, set : Settings,
          seats : Seq(Seat)]

ASSUME ConstantsAssumption ==
  /\ Owner \in Users
  /\ IsFiniteSet(Users) /\ IsFiniteSet(Profiles)
  /\ NoKit \notin Kits
  /\ MaxColonies \in Nat \ {0}
  /\ NoColonies \notin [seats : Seq(Seat), ai : AILists]

TypeOK ==
  /\ row \in {"open", "running", "finished"}
  /\ settings \in Settings
  /\ seats \in Seq(Seat)
  /\ req \in [Requests -> Request]
  /\ colonies \in [seats : Seq(Seat), ai : AILists] \cup {NoColonies}

Seated == {seats[i].user : i \in DOMAIN seats}

\* Service.Create and db.CreateLobby: one transaction opens the lobby with its
\* owner seated.
Init ==
  /\ row = "open"
  /\ settings \in {s \in Settings : Validate(s)}
  /\ seats = <<[user |-> Owner, kit |-> NoKit]>>
  /\ req = [r \in Requests |-> Idle]
  /\ colonies = NoColonies

Receive(r, q) == req[r] = Idle /\ req' = [req EXCEPT ![r] = q]
Becomes(r, q) == req' = [req EXCEPT ![r] = q]
Return(r)     == req' = [req EXCEPT ![r] = Idle]

------------------------------------------------------------------------------
\* Join: LobbyByID for the settings, then JoinLobby.

JoinReads(r, u) ==
  /\ Receive(r, [op |-> "join", user |-> u, max |-> settings.max])
  /\ UNCHANGED <<row, settings, seats, colonies>>

\* Mutant: the seats are not counted in the INSERT.
JoinInsertsUncounted(r) ==
  LET q == req[r] IN
  /\ q.op = "join"
  /\ seats' = IF row = "open" /\ q.user \notin Seated
                THEN Append(seats, [user |-> q.user, kit |-> NoKit])
                ELSE seats
  /\ Return(r)
  /\ UNCHANGED <<row, settings, colonies>>

\* Mutant: the state is checked when the row is read, not by the INSERT.
JoinInsertsUngated(r) ==
  LET q == req[r] IN
  /\ q.op = "join"
  /\ seats' = IF Len(seats) < q.max /\ q.user \notin Seated
                THEN Append(seats, [user |-> q.user, kit |-> NoKit])
                ELSE seats
  /\ Return(r)
  /\ UNCHANGED <<row, settings, colonies>>

\* INSERT ... SELECT with the state and the seat count in its WHERE clause,
\* ON CONFLICT DO NOTHING.
JoinInserts(r) ==
  LET q == req[r] IN
  /\ q.op = "join"
  /\ seats' = IF row = "open" /\ Len(seats) < q.max /\ q.user \notin Seated
                THEN Append(seats, [user |-> q.user, kit |-> NoKit])
                ELSE seats
  /\ Return(r)
  /\ UNCHANGED <<row, settings, colonies>>

\* A member's row deleted; the others keep their order.
Without(i) == [j \in 1..(Len(seats) - 1) |-> IF j < i THEN seats[j] ELSE seats[j + 1]]

\* Mutant: a seat can be left after the start.
LeaveAnytime(u) ==
  /\ u # Owner
  /\ \E i \in DOMAIN seats : seats[i].user = u /\ seats' = Without(i)
  /\ UNCHANGED <<row, settings, req, colonies>>

\* LeaveLobby: DELETE with the state in its WHERE clause; the owner may not.
Leave(u) ==
  /\ u # Owner /\ row = "open"
  /\ \E i \in DOMAIN seats : seats[i].user = u /\ seats' = Without(i)
  /\ UNCHANGED <<row, settings, req, colonies>>

\* SetLobbyLoadout: UPDATE with membership and the state in its WHERE clause.
SetLoadout(u, k) ==
  /\ u \in Seated /\ row = "open"
  /\ seats' = [i \in DOMAIN seats |->
                 IF seats[i].user = u THEN [seats[i] EXCEPT !.kit = k] ELSE seats[i]]
  /\ UNCHANGED <<row, settings, req, colonies>>

\* SetAI, the owner's: the row is read, the list put into the settings read and
\* the whole validated, and the whole written back.
SetAIReads(r, list) ==
  LET set == [settings EXCEPT !.ai = list] IN
  /\ Validate(set)
  /\ Receive(r, [op |-> "setai", set |-> set])
  /\ UNCHANGED <<row, settings, seats, colonies>>

\* Mutant: the state is not in the WHERE clause.
SetAIWritesUngated(r) ==
  /\ req[r].op = "setai"
  /\ settings' = req[r].set
  /\ Return(r)
  /\ UNCHANGED <<row, seats, colonies>>

SetAIWrites(r) ==
  /\ req[r].op = "setai"
  /\ settings' = IF row = "open" THEN req[r].set ELSE settings
  /\ Return(r)
  /\ UNCHANGED <<row, seats, colonies>>

------------------------------------------------------------------------------
\* Start, the owner's.  Everything the match is built from is read after the
\* flip; what the first read returned serves the refusal only.

StartReads(r) ==
  /\ Receive(r, [op |-> "start", set |-> settings, seats |-> <<>>])
  /\ UNCHANGED <<row, settings, seats, colonies>>

\* StartLobby: UPDATE with the owner and the state in its WHERE clause.
StartFlips(r) ==
  /\ req[r].op = "start" /\ row = "open"
  /\ row' = "running"
  /\ Becomes(r, [req[r] EXCEPT !.op = "flipped"])
  /\ UNCHANGED <<settings, seats, colonies>>

\* No row matched: the match has already started.
StartRefused(r) ==
  /\ req[r].op = "start" /\ row # "open"
  /\ Return(r)
  /\ UNCHANGED <<row, settings, seats, colonies>>

\* Mutant: the settings read before the flip are used.
StartKeepsStale(r) ==
  /\ req[r].op = "flipped"
  /\ Becomes(r, [req[r] EXCEPT !.op = "reloaded"])
  /\ UNCHANGED <<row, settings, seats, colonies>>

\* LobbyByID again.
StartReloads(r) ==
  /\ req[r].op = "flipped"
  /\ Becomes(r, [req[r] EXCEPT !.op = "reloaded", !.set = settings])
  /\ UNCHANGED <<row, settings, seats, colonies>>

\* LobbyMembers, and newMatch: one colony per seat, then one per profile.
StartBuilds(r) ==
  /\ req[r].op = "reloaded"
  /\ Becomes(r, [req[r] EXCEPT !.op = "built", !.seats = seats])
  /\ UNCHANGED <<row, settings, seats, colonies>>

\* Registry.Start.
StartRegisters(r) ==
  /\ req[r].op = "built" /\ colonies = NoColonies
  /\ colonies' = [seats |-> req[r].seats, ai |-> req[r].set.ai]
  /\ Return(r)
  /\ UNCHANGED <<row, settings, seats>>

\* A read fails, a kit cannot be rebuilt, or Registry.Start refuses.
StartFails(r) ==
  /\ req[r].op \in {"flipped", "reloaded", "built"}
  /\ Becomes(r, [req[r] EXCEPT !.op = "failed"])
  /\ UNCHANGED <<row, settings, seats, colonies>>

StartReopens(r) ==
  /\ req[r].op = "failed"
  /\ row' = "open"
  /\ Return(r)
  /\ UNCHANGED <<settings, seats, colonies>>

\* SetLobbyState fails: the row stays as it is.
StartReopenFails(r) ==
  /\ req[r].op = "failed"
  /\ Return(r)
  /\ UNCHANGED <<row, settings, seats, colonies>>

------------------------------------------------------------------------------
\* What the match and the process do to the lobby.

\* matchEnded, for a match in the registry; or Restore settling a match or giving
\* it up, before there are requests.
MatchSettles ==
  /\ row = "running" /\ row' = "finished"
  /\ colonies # NoColonies \/ \A r \in Requests : req[r] = Idle
  /\ UNCHANGED <<settings, seats, req, colonies>>

ProcessStops ==
  /\ req' = [r \in Requests |-> Idle]
  /\ colonies' = NoColonies
  /\ UNCHANGED <<row, settings, seats>>

\* Restore: newMatch on the row and the members, as they are.
Restored ==
  /\ row = "running" /\ colonies = NoColonies
  /\ \A r \in Requests : req[r] = Idle
  /\ colonies' = [seats |-> seats, ai |-> settings.ai]
  /\ UNCHANGED <<row, settings, seats, req>>

------------------------------------------------------------------------------
Seating(r) == (\E u \in Users : JoinReads(r, u)) \/ JoinInserts(r)
SettingAI(r) == (\E list \in AILists : SetAIReads(r, list)) \/ SetAIWrites(r)
Starting(r) ==
  \/ StartReads(r) \/ StartFlips(r) \/ StartRefused(r) \/ StartReloads(r)
  \/ StartBuilds(r) \/ StartRegisters(r) \/ StartFails(r)
  \/ StartReopens(r) \/ StartReopenFails(r)

Next ==
  \/ \E r \in Requests : Seating(r) \/ SettingAI(r) \/ Starting(r)
  \/ \E u \in Users : Leave(u) \/ (\E k \in Kits \cup {NoKit} : SetLoadout(u, k))
  \/ MatchSettles \/ ProcessStops \/ Restored

Spec == Init /\ [][Next]_vars

------------------------------------------------------------------------------
\* Properties.

\* Two players racing for the last seat do not both get it, nobody gets two, and
\* seats and AI colonies together never outnumber the bases an arena has, however
\* joins, AI changes and starts interleave; and the owner keeps the first seat ("an
\* owner-less lobby could never be started or cleaned up").
SeatsFit ==
  /\ Len(seats) <= settings.max
  /\ settings.max + Len(settings.ai) <= MaxColonies
  /\ Cardinality(Seated) = Len(seats)
  /\ seats # <<>> /\ seats[1].user = Owner

\* The colonies of the match in the registry are exactly the seats and profiles
\* of the rows a restart would rebuild it from (lobby.go, Start: reading before
\* the flip would "leave a running world with one colony list and the row a
\* restart replays from with another"), and an open lobby has no match behind it.
MatchIsTheRows ==
  colonies # NoColonies => row # "open" /\ colonies = [seats |-> seats, ai |-> settings.ai]

\* "No changes after the start" (design 2.1): no request in flight when Start ran
\* can still move a seat, a kit or the AI list.
FrozenByTheStart ==
  [][row # "open" => UNCHANGED <<seats, settings>>]_vars
==============================================================================
