------------------------------- MODULE Library -------------------------------
(***************************************************************************)
(* One player's program library, and the robots that are handed programs   *)
(* out of it.                                                              *)
(*                                                                         *)
(*   internal/server/programs.go  ListPrograms, SaveProgram, fielded,      *)
(*                                ApproveProgram, DeleteProgram            *)
(*   internal/server/robots.go    InstallProgram, installID                *)
(*   internal/lobby/lobby.go      SetLoadout, resolve                      *)
(*   internal/lobby/loadout.go    ProgramRuntimeID, ProgramRef             *)
(*   internal/lobby/match.go      newMatch, ProgramUsage                   *)
(*   internal/db/queries.go       the statements, each atomic in SQLite    *)
(*                                                                         *)
(* A program is a row and a table of saved versions, one of them approved: *)
(* the one robots are given.  A robot runs what the runtime holds under    *)
(* the id it was given, and the id names a program and a version.          *)
(*                                                                         *)
(* Abstracted: a body, the rules of one save, is its number in the order   *)
(* of saves; a blueprint only decides whether a request is refused, which  *)
(* may happen at every step; where a robot stands, likewise.  One lobby    *)
(* and its match; the restarts of a match are in Match.tla.                *)
(***************************************************************************)
EXTENDS Naturals, Sequences, FiniteSets

CONSTANTS
  Names,       \* what the player calls a program
  Starters,    \* the names of the worked programs a library is seeded with
  Robots,      \* every robot the colony may ever have
  Callers,     \* slots for requests in flight at once
  Colony,      \* "every robot" in a runtime id
  BuiltIn,     \* the id of the built-in kit's programs
  Unborn,      \* a robot not produced yet
  Gone,        \* a robot destroyed
  MaxEntries   \* loadout.go maxLoadoutEntries

VARIABLES
  programs,    \* the rows of programs
  versions,    \* the rows of program_versions
  lastId,      \* sqlite_sequence: programs.id is AUTOINCREMENT
  saves,       \* bodies saved so far
  loadout,     \* lobby_members.loadout_json: the entries, each a snapshot
  match,       \* "open" lobby, "running" match, match "over"
  rt,          \* Runtime.programs: what is installed under each id
  robots,      \* World.Robots: the id each one runs
  calls,       \* the requests in flight
  blessed      \* history: every <<id, version>> that was ever the approved one

libraryVars == <<programs, versions, lastId, saves, loadout, match, rt, robots, calls,
          blessed>>

library == <<programs, versions, lastId, saves, blessed>>
field   == <<loadout, match, rt, robots>>

ProgramRow     == [id : Nat, name : Names, version : Nat, approved : Nat]
Version == [id : Nat, version : Nat, body : Nat]
Ref     == [id : Nat, version : Nat, robot : Robots \cup {Colony}]

Idle == [op |-> "idle"]

Request ==
  {Idle}
    \cup [op : {"seed"}, left : SUBSET Starters]
    \cup [op : {"save"}, id : Nat, name : Names, approve : BOOLEAN]
    \cup [op : {"choose"}, left : Seq(Nat), entries : Seq(Version)]
    \cup [op : {"chosen"}, left : Seq(Nat), entries : Seq(Version), version : Nat]
    \cup [op : {"install"}, robot : Robots, id : Nat]
    \cup [op : {"approved"}, robot : Robots, id : Nat, version : Nat]
    \cup [op : {"loaded"}, robot : Robots, id : Nat, version : Nat, body : Nat]

ASSUME LibraryAssumption ==
  /\ Starters \subseteq Names
  /\ Colony \notin Robots
  /\ BuiltIn \notin Ref /\ Unborn \notin Ref /\ Gone \notin Ref
  /\ Cardinality({BuiltIn, Unborn, Gone}) = 3
  /\ MaxEntries \in Nat

LibraryTypeOK ==
  /\ programs \subseteq ProgramRow
  /\ versions \subseteq Version
  /\ lastId \in Nat /\ saves \in Nat
  /\ loadout \in Seq(Version)
  /\ match \in {"open", "running", "over"}
  /\ rt \subseteq [ref : Ref, body : Nat]
  /\ robots \in [Robots -> Ref \cup {BuiltIn, Unborn, Gone}]
  /\ calls \in [Callers -> Request]
  /\ blessed \subseteq Nat \X Nat

LibraryInit ==
  /\ programs = {} /\ versions = {}
  /\ lastId = 0 /\ saves = 0
  /\ loadout = <<>>
  /\ match = "open"
  /\ rt = {}
  /\ robots = [r \in Robots |-> Unborn]
  /\ calls = [q \in Callers |-> Idle]
  /\ blessed = {}

------------------------------------------------------------------------------
Ids == {p.id : p \in programs}

\* ProgramUsage, and fielded: any version of the program in any live robot of a
\* match that is not over.
Fielded(id) == match = "running" /\ \E r \in Robots : robots[r] \in Ref /\ robots[r].id = id

Receive(q, new) == calls[q] = Idle /\ calls' = [calls EXCEPT ![q] = new]
Becomes(q, new) == calls' = [calls EXCEPT ![q] = new]
Return(q)       == calls' = [calls EXCEPT ![q] = Idle]

\* A read that finds nothing, a blueprint the program does not fit, a robot away
\* from its base, an I/O error: the request ends with nothing done.
Refuse(q) == calls[q] # Idle /\ Return(q) /\ UNCHANGED <<library, field>>

NewId == lastId + 1

\* db.CreateProgram and writeVersion, one transaction: v1, approved, with its body.
\* The (user, name) index refuses a second row of the name.
Create(name) ==
  /\ \A p \in programs : p.name # name
  /\ programs' = programs \cup {[id |-> NewId, name |-> name, version |-> 1, approved |-> 1]}
  /\ versions' = versions \cup {[id |-> NewId, version |-> 1, body |-> saves + 1]}
  /\ lastId' = NewId
  /\ saves' = saves + 1
  /\ blessed' = blessed \cup {<<NewId, 1>>}

\* ListPrograms on an empty library: one row per worked program follows.
ListFindsNothing(q) ==
  /\ programs = {}
  /\ Receive(q, [op |-> "seed", left |-> Starters])
  /\ UNCHANGED <<library, field>>

\* A name somebody else seeded first is skipped.
SeedOne(q) ==
  /\ calls[q].op = "seed"
  /\ \E name \in calls[q].left :
       /\ Becomes(q, IF calls[q].left = {name} THEN Idle
                     ELSE [calls[q] EXCEPT !.left = @ \ {name}])
       /\ \/ Create(name)
          \/ (\E p \in programs : p.name = name) /\ UNCHANGED library
  /\ UNCHANGED field

\* SaveProgram with no id.
SaveNew(name) == Create(name) /\ UNCHANGED <<calls, field>>

\* SaveProgram on a row: whether the program is fielded is read first, in the
\* registry; the row need not exist.
SaveReadsField(q, id, name) ==
  /\ Receive(q, [op |-> "save", id |-> id, name |-> name, approve |-> ~Fielded(id)])
  /\ UNCHANGED <<library, field>>

\* db.UpdateProgram and writeVersion, one transaction.
SaveWrites(q) ==
  LET s == calls[q] IN
  /\ s.op = "save"
  /\ \A p \in programs : p.name = s.name => p.id = s.id
  /\ \E p \in programs :
       LET v == p.version + 1 IN
       /\ p.id = s.id
       /\ programs' = (programs \ {p}) \cup
            {[id |-> p.id, name |-> s.name, version |-> v,
              approved |-> IF s.approve THEN v ELSE p.approved]}
       /\ versions' = versions \cup {[id |-> p.id, version |-> v, body |-> saves + 1]}
       /\ blessed' = blessed \cup (IF s.approve THEN {<<p.id, v>>} ELSE {})
  /\ saves' = saves + 1
  /\ Return(q)
  /\ UNCHANGED <<lastId, field>>

\* db.ApproveProgram: UPDATE ... AND EXISTS the version.
Approve(id, v) ==
  /\ \E f \in versions : f.id = id /\ f.version = v
  /\ \E p \in programs :
       /\ p.id = id
       /\ programs' = (programs \ {p}) \cup {[p EXCEPT !.approved = v]}
  /\ blessed' = blessed \cup {<<id, v>>}
  /\ UNCHANGED <<versions, lastId, saves, calls, field>>

\* db.DeleteProgram; the versions go with the row (ON DELETE CASCADE).
Delete(id) ==
  /\ id \in Ids
  /\ programs' = {p \in programs : p.id # id}
  /\ versions' = {f \in versions : f.id # id}
  /\ UNCHANGED <<lastId, saves, blessed, calls, field>>

------------------------------------------------------------------------------
\* SetLoadout: every choice is resolved in turn - ProgramByID, then ProgramVersion
\* of the version that was approved - and the whole list stored.

ChooseReceives(q, ids) ==
  /\ Receive(q, [op |-> "choose", left |-> ids, entries |-> <<>>])
  /\ UNCHANGED <<library, field>>

\* Mutant: the head, not the approved version.
HeadOf(p) == p.version

\* The version of a row that is handed out.
Given(p) == p.approved

ChooseReadsRow(q) ==
  LET c == calls[q] IN
  /\ c.op = "choose" /\ c.left # <<>>
  /\ \E p \in programs :
       /\ p.id = Head(c.left)
       /\ Becomes(q, [op |-> "chosen", left |-> c.left, entries |-> c.entries,
                      version |-> Given(p)])
  /\ UNCHANGED <<library, field>>

\* Mutant: the body is the row's own, which is the head's.
HeadBody(id, v) ==
  {f \in versions : f.id = id /\ \A g \in versions : g.id = id => g.version <= f.version}

\* db.ProgramVersion.
Body(id, v) == {f \in versions : f.id = id /\ f.version = v}

ChooseReadsBody(q) ==
  LET c == calls[q]
      id == Head(c.left) IN
  /\ c.op = "chosen"
  /\ \E f \in Body(id, c.version) :
       Becomes(q, [op |-> "choose", left |-> Tail(c.left),
                   entries |-> Append(c.entries, [id |-> id, version |-> c.version,
                                                  body |-> f.body])])
  /\ UNCHANGED <<library, field>>

\* db.SetLobbyLoadout, gated on the open lobby.
ChooseStores(q) ==
  /\ calls[q].op = "choose" /\ calls[q].left = <<>>
  /\ match = "open"
  /\ loadout' = calls[q].entries
  /\ Return(q)
  /\ UNCHANGED <<library, match, rt, robots>>

------------------------------------------------------------------------------
\* The match.

\* lobby.ProgramRuntimeID: what the whole colony's install is filed under.
ColonyRef(e) == [id |-> e.id, version |-> e.version, robot |-> Colony]

\* installID.
RobotRef(i) == [id |-> i.id, version |-> i.version, robot |-> i.robot]

\* Runtime.Install: a map write.
Installed(table, ref, body) ==
  {x \in table : x.ref # ref} \cup {[ref |-> ref, body |-> body]}

Entries == {loadout[i] : i \in DOMAIN loadout}

\* What the base may build: the approved designs, or the built-in kit's.
Designs == IF loadout = <<>> THEN {BuiltIn} ELSE {ColonyRef(e) : e \in Entries}

\* newMatch on the stored loadout: its programs installed, in order, so of two
\* entries of one id the later stays; and the first robots.
Start ==
  /\ match = "open" /\ match' = "running"
  /\ rt' = {[ref |-> ColonyRef(loadout[i]), body |-> loadout[i].body] : i \in
              {j \in DOMAIN loadout : \A k \in DOMAIN loadout :
                 k > j => ColonyRef(loadout[k]) # ColonyRef(loadout[j])}}
  /\ robots' \in [Robots -> Designs \cup {Unborn}]
  /\ UNCHANGED <<library, loadout, calls>>

Produced(r) ==
  /\ match = "running" /\ robots[r] = Unborn
  /\ \E d \in Designs : robots' = [robots EXCEPT ![r] = d]
  /\ UNCHANGED <<library, loadout, match, rt, calls>>

Destroyed(r) ==
  /\ match = "running" /\ robots[r] \notin {Unborn, Gone}
  /\ robots' = [robots EXCEPT ![r] = Gone]
  /\ UNCHANGED <<library, loadout, match, rt, calls>>

Ends ==
  /\ match = "running" /\ match' = "over"
  /\ UNCHANGED <<library, loadout, rt, robots, calls>>

\* InstallProgram: own; then ProgramByID and ProgramVersion; then Match.Apply.

InstallReceives(q, r, id) ==
  /\ match = "running"
  /\ Receive(q, [op |-> "install", robot |-> r, id |-> id])
  /\ UNCHANGED <<library, field>>

InstallReadsRow(q) ==
  LET i == calls[q] IN
  /\ i.op = "install"
  /\ \E p \in programs :
       /\ p.id = i.id
       /\ Becomes(q, [op |-> "approved", robot |-> i.robot, id |-> i.id,
                      version |-> Given(p)])
  /\ UNCHANGED <<library, field>>

InstallReadsBody(q) ==
  LET i == calls[q] IN
  /\ i.op = "approved"
  /\ \E f \in Body(i.id, i.version) :
       Becomes(q, [op |-> "loaded", robot |-> i.robot, id |-> i.id,
                   version |-> i.version, body |-> f.body])
  /\ UNCHANGED <<library, field>>

\* Under the match's lock, unless the match is over or the robot lost.
InstallApplies(q) ==
  LET i == calls[q] IN
  /\ i.op = "loaded"
  /\ match = "running" /\ robots[i.robot] \notin {Unborn, Gone}
  /\ rt' = Installed(rt, RobotRef(i), i.body)
  /\ robots' = [robots EXCEPT ![i.robot] = RobotRef(i)]
  /\ Return(q)
  /\ UNCHANGED <<library, loadout, match>>

------------------------------------------------------------------------------
Editing(q) ==
  \/ ListFindsNothing(q) \/ SeedOne(q) \/ SaveWrites(q) \/ Refuse(q)
  \/ \E id \in 1..lastId, name \in Names : SaveReadsField(q, id, name)

Choosing(q) ==
  \/ \E n \in 0..MaxEntries : \E ids \in [1..n -> 1..lastId] : ChooseReceives(q, ids)
  \/ ChooseReadsRow(q) \/ ChooseReadsBody(q) \/ ChooseStores(q)

Installing(q) ==
  \/ \E r \in Robots, id \in 1..lastId : InstallReceives(q, r, id)
  \/ InstallReadsRow(q) \/ InstallReadsBody(q) \/ InstallApplies(q)

LibraryNext ==
  \/ \E q \in Callers : Editing(q) \/ Choosing(q) \/ Installing(q)
  \/ \E name \in Names : SaveNew(name)
  \/ \E id \in 1..lastId : Delete(id) \/ (\E v \in 1..saves : Approve(id, v))
  \/ \E r \in Robots : Produced(r) \/ Destroyed(r)
  \/ Start \/ Ends

LibrarySpec == LibraryInit /\ [][LibraryNext]_libraryVars

------------------------------------------------------------------------------
\* Properties.

\* The id a live robot carries is the only record of which rules it was given, and
\* it tells the truth: the runtime holds rules under it, and as long as the library
\* still has that version of that program they are the version's own - whatever was
\* saved, approved, deleted and created while the request that gave it was in
\* flight.
NamesItsRules ==
  \A r \in Robots : robots[r] \in Ref =>
    \E x \in rt :
      /\ x.ref = robots[r]
      /\ \A f \in Body(x.ref.id, x.ref.version) : f.body = x.body

\* "The approved version, not the head": no robot runs, and no loadout fields, a
\* draft nobody ever signed off, whatever was saved or approved between the reads of
\* the request that gave it.
NoDraftIsFielded ==
  /\ \A r \in Robots : robots[r] \in Ref => <<robots[r].id, robots[r].version>> \in blessed
  /\ \A e \in Entries : <<e.id, e.version>> \in blessed

\* "Robots fielding it: leave the approval where it is and keep the new version as a
\* draft" (programs.go, SaveProgram): a save of a program that live robots run does not
\* move what the next robot is given.
FieldedKeepsItsApproval ==
  [][\A p \in programs, n \in programs' :
       (n.id = p.id /\ n.version > p.version /\ Fielded(p.id)) =>
         n.approved = p.approved]_libraryVars
==============================================================================
