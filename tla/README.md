# A formal model of robocolony

robocolony is a game server: players write programs for robots, meet in a
lobby, and watch their colonies fight over an arena that the server simulates
at ten ticks a second. One Go process holds every running match in memory; a
SQLite file holds accounts, lobbies, programs, blueprints and, for each match,
a *replay record* from which the match can be rebuilt.

This directory is the verification project of that server: TLA+ modules, the
TLC configurations that check them on small instances, and theorems that the
TLA+ proof system checks for every instance.

    tlasany M.tla                        # parse
    tlc -config MCMatchSteady.cfg MCMatch # model-check one run
    tlapm MatchProofs.tla                # check the proofs of one module

`PROJECT.json` is the index: components, runs, the mutant that breaks each
property, the source lines each definition stands for, hazards, theorems.

## 1. Inventory

### The parts, their state, their operations

| Part | Code | State it keeps | Operations |
|---|---|---|---|
| Lobby | `internal/lobby/lobby.go`, `settings.go`, `internal/db/lobbies.go` | the row (`open`, `running`, `finished`, settings, seed, owner), the seats in join order with their loadouts | Create, Join, Leave, SetAI, SetLoadout, Start |
| Match | `internal/lobby/match.go` | the world, the command log, `finished`, the replay position, all under one lock per match | step, Read, Apply, record |
| Registry and driver | `internal/lobby/match.go` | the matches by id, `closed`, the `done` channel, one goroutine per match | Start, Get, drive, Shutdown |
| Persistence | `internal/lobby/persist.go`, `lobby.go` (save, Restore), `internal/db/matches.go` | one `match_log` row per match: build fingerprint, tick, command log, end mark and summary | save, Restore, replay, delete |
| Process | `cmd/server/main.go` | none of its own | boot (Restore before the listener), drain, stop |
| Robot commands | `internal/server/robots.go` | none | Recall, InstallProgram |
| World stream, event feed | `internal/server/stream.go`, `internal/lobby/events.go` | a cursor per spectator; a ring of 400 events per match | frames, takeEvents |
| History, archive, replay stream | `internal/lobby/history.go`, `archive.go`, `combat.go`, `internal/server/replay.go` | decimated samples per match; finished records | sample, decimate, Replay |
| Simulation | `internal/sim` | robots, bases, loose components, signals, events, the seeded rng | Step: turns, movement, combat, salvage, production |
| Arena, navigation | `internal/sim/generate.go`, `nav.go` | the terrain | Generate, repairPockets, path, reachable |
| Program language | `internal/prog` | per-robot evaluator and memory; at most 8 watches with a ring each | Decide, Install, Control, Forget, Watch; Decode, Validate, Explain |
| Library | `internal/server/programs.go`, `blueprint.go`, `internal/db/queries.go`, `library.go` | programs, their versions, the approved version, blueprints | save, approve, delete, validate |
| Loadouts, kits, AI | `internal/lobby/loadout.go`, `starter.go`, `ai.go` | a snapshot per seat | memberKit, equipColony |
| Sessions | `internal/auth` | session rows with a sliding expiry | login, callback, RequireAuth, logout |
| Dry runs, traces, shadow tests | `internal/server/dryrun.go`, `trace.go`, `explain.go` | a throttle map | DryRun, TraceOf, ShadowTest |
| Web client, config | `web`, `internal/config` | none that the server depends on | |

### How they interact

A handler runs on its own goroutine. It reaches the database by single
statements (each atomic: SQLite, one writer) and a match through its lock.
A driver goroutine steps its match, and between two ticks, with no lock held,
saves it. `main.run` calls Restore before it listens, drains requests after a
signal, then closes `done` and waits for the drivers. The lobby row is shared by
the start request, the driver's `matchEnded` and Restore; nothing else ties a
lobby to its match.

### What is hard

* **Crash and restart.** A stop can fall between any two statements: between
  the flip and the registration, before the first save, between the finishing
  save and the settling, between the settling and the deletion of a match that
  is given up. A redeploy may bring a build that simulates differently.
* **Stale reads.** Start, Join and SetAI act on a row another request is
  changing; a robot command checks the match and applies later, under a second
  lock; a save writes what it copied while commands go on.
* **Lost writes.** Saves, the settling and the rollback of a failed start are
  logged and not repeated.
* **Order.** A replay must put every command back before the very tick it was
  given at; the drivers must not stop before the last request.
* **Identity.** A program's id, its version and its approval are read one after
  the other by requests that race with edits, and what a robot runs is only told
  by the id it was handed.
* **Two copies of one walk.** What the editor and the inspector say of a program
  is computed beside the evaluator, not by it.
* **Liveness.** Every match ends, every stop ends, no lobby stays `running`
  with nothing behind it.

### What makes each part correct

*Match life cycle*: the log and the tick are the whole match; a graceful stop
loses nothing and a crash a bounded number of ticks; a match this build recorded
is never given up; a finished record is complete and permanent; a finished lobby
is in the history; every match and every stop ends.
*Lobby*: seats and AI colonies fit; the owner stays; nothing moves after the
start; the match is built from exactly the rows a restart rebuilds it from.
*Streams*: no event skipped, repeated or early; the end is announced after the
last tick. *History*: evenly spaced and bounded. *Simulation*: a component is in
one place, a wreck acts and pays once. *Arena*: everything reachable.
*Runtime*: a reprogrammed robot, and no other, gets one fresh evaluator; a trace
is what the robot did; whoever is looking keeps their trace. *Language*: the
inspector and the warnings agree with the evaluator. *Library*: a robot is given
only approved versions and runs the rules its id names. *Loadouts*: every member
opens with the same value. *Sessions*: one that expired or was revoked stays so.

## 2. The modules

| Module | What it is |
|---|---|
| `Match.tla` | one match, from the click on Start to its place in the history, across crashes, shutdowns, restarts and redeploys |
| `MatchPromise.tla` | what players are promised of that match; `Match` implements it |
| `MatchProofs.tla` | the theorems about `Match` |
| `Lobby.tla` | one lobby and the requests that race over it |
| `Server.tla` | `Lobby` and `Match` in one process over one database |
| `MatchStream.tla` | a running match and a spectator: the event feed, the sampled history, the stream handler, the page, over lost connections and restarts |
| `MatchReplay.tla` | the same page on a finished match watched back, with the replay handler |
| `World.tla` | the arena: every tick, turn by turn, and the commands between ticks |
| `WorldProofs.tla` | the theorems about `World` and `Arena` |
| `Arena.tla` | the generation of an arena: terrain, bases, roads, pockets, loose components |
| `Loadouts.tla` | how the colonies of a match are equipped |
| `Library.tla` | one player's program library and the robots handed programs out of it |
| `Sessions.tla` | sign-in sessions: rows, cookies, sliding expiry |
| `Runtime.tla` | the programs of one match at work: installs, evaluators, watches |
| `Language.tla` | the robot language: catalogue, matcher, structure, warnings |
| `Evaluator.tla` | one tick of a mind: `Decide`, and `Explain`, the inspector's copy of it |
| `Starters.tla` | the programs the game ships |
| `Mind.tla` | a robot running one program against any world |
| `LibraryProofs.tla` | the theorems about `Library` and `Sessions` |
| `RuntimeProofs.tla` | the theorems about `Runtime`, `Loadouts` and `Mind` |
| `LobbyProofs.tla`, `ServerProofs.tla`, `StreamProofs.tla` | the theorems about `Lobby`, `Server` and `MatchStream` |
| `DataLemmas.tla` | induction over finite sets and numbers, the laws of sums, and recursion over levels, for the proofs |
| `MCMatch.tla`, `MCLobby.tla`, `MCServer.tla`, `MCMatchStream.tla`, `MCMatchReplay.tla`, `MCWorld.tla`, `MCMind.tla` | the checked instances, with their bounds and symmetry |

### Match

The simulation is deterministic: same seats, same seed, same inputs at the same
ticks, same world. So a world is represented by the tick it stands at and the
inputs it took (`tick`, `inputs`), each stamped with the tick the world really
stood at, while `log` holds what `Match.record` would save. That these agree is
a property (`LogExplainsWorld`), not a definition.

* `row`, `rec` are the database: `lobbies.state` and the `match_log` row.
* `proc`, `build` are `main.run`: down; Restore at its list, at the read of the
  record, replaying, settling, giving up, deleting; serving; draining; stopping.
* `start` is the one start request past its flip; `asked` the players whose
  command has passed `Robots.own` and not yet `Match.Apply`.
* `driver`, `after`, `unsaved`, `copy` are the driver goroutine: at its
  `select`, about to copy, about to write the copy, about to settle, gone; and
  where it continues after the save under way.
* `stops`, `missed`, `abandoned` are history variables: they count and mark, and
  guard nothing but the bound on stops.

One action is one statement, or one critical section under the match lock.
`Crash` may happen anywhere and loses everything in memory; it also stands for a
Restore that returns the error of one of its writes or of a cancelled context,
and for drivers that overrun the 5s they are given.

`Faults` says which statements may fail, so that each property can be checked,
and proved, under the failures it survives:

| Fault | What fails | Why it can |
|---|---|---|
| `save` | SaveMatchLog | a 5s timeout, a full disk |
| `settle` | SetLobbyState(finished) at the end | the same |
| `reopen` | SetLobbyState(open) in the rollback of a start | it uses the request's context |
| `read` | MatchLogByID or LobbyMembers in Restore | any error of the driver |
| `drain` | a request outlives the 30s drain | a stuck client |

The order of checks in `restore` is kept: no row, end mark, fingerprint, range
of the tick. `ReplayCommand`, `ReplayStep` and `ReplayReturns` are the loop of
`ReplayTo` and `applyDue`, refusals included. Commands left over, out of order
or past the end are refused as in the code, and `OnlyForeignIsAbandoned` shows
that no record the driver wrote is ever refused.

### Lobby

Requests of several statements (`Join`, `SetAI`, `Start`) live in slots, `req`,
with what they read: the seat limit of a join, the settings a SetAI writes
back, what a start builds its match from. Each statement is an action whose
guard is its WHERE clause. Leave and SetLoadout change the lobby by one
statement and the rest of what they read cannot change in a way that matters
(the owner, the caller's library), so they are one action. Loadouts are kits: one
value each. The match is what it was built with, `colonies`.

### Server

`Lobby` and `Match` are instantiated over the same `row`. A start is both a
request of the lobby and the start of the match (`StartOf` derives the latter
from the former), a stop loses requests and match together, and the replay reads
the lobby's rows. `born` remembers the colonies the match was launched with.

### MatchPromise

Four facts a player could be told: a world moves by a tick or a command; what is
on disk is a moment that world went through and only moves forward; after a stop
the match resumes at that moment or not at all; the lobby is finished with its
last world on disk, or the match is given up while nobody plays it. The
refinement mapping reads `phase` off `row` and `start`, `world` off the
registered match, `kept` off the record.

### MatchStream

The driver's step and the handler's reads each take the match lock, so each is an
action: `Connect` (history), `ReadFeed`, `ReadBoard`, then `Take` and the frame
for the first board; in the loop `Poll` (Finished), `Snapshot`, `Take` and the
frame. `SendInit`, `SendTick`, `SendEnd` are the frames together with what the
page does with them; `req` holds the handler's locals, `page` the page's
`snap`, feed and graph. `HangUp` is a lost connection, `Close` the `stopping`
channel, `Probe` the page's question after an error whether the match is still
there. `Crash`, `Exit` and `Boot` are the process; what a restart may cost is
`Match!RewindBound` and a constant, `Rewind`, here.

What happened in a world is abstracted to stamps: `made[t]` is the life of the
process that computed tick `t`, an event is its tick, that life and its place in
the tick, a board is its tick. A world rewound by a crash makes other ticks, so
an event of a lost future on the page is told from one of this world's.
`happened` is every event of the world, `events` the ones the ring still has.
Restoring re-derives ring and history by stepping (`Rederived`). One spectator
is enough: spectators only read the match and share nothing else.

### MatchReplay

The handler's private match has no driver and no other reader, so it needs no
state of its own: it stands at `req.board`, with the feed and history of a match
replayed to that tick. `Reopen` is every control of the page.

### World

`Match` treats a world as a tick and its inputs. `World` is what happens inside:
`World.Step`, with the two things `Match.step` and the robot handlers do to it,
the spawned resource and the two commands. A tick is one critical section of the
match, but its turns are steps here (`turn`, `phase`), since what is hard about a
tick is its order: a robot acts on what the turns before it left behind. A command
is only possible at `phase = "rest"`.

* `robots` keeps slice order, which is id order; a wreck stays in it until `Sweep`.
* `Decides` is a turn in which the program is asked. A program may pick any
  primary action at any turn, so `Primary` offers them all, with any argument;
  headings, vision, memory and signals only inform that choice, and are left out.
  The draws of the world's rng (does a shot hit, what is salvaged, where a resource
  appears, which of the buildable blueprints comes next) are free choices over what
  they can give.
* A busy robot, a wreck and a recalled robot are not asked: `BusyTurn`,
  `WreckTurn`, `RecallTurn`.
* `Routes` is `path`: the first cells of the shortest routes, or of those to the
  nearest reachable place. It is a relation, since of two equally short routes the
  code's choice depends on headings.
* `Attack` takes the lowest id and the first ready weapon, as the code does. The
  kill and the event are made by the shot, the loss and the salvage by the sweep.
* Loose components are counts per cell and variant. `ledger` is a history
  variable: what should exist, the opening plus the spawned less what salvage lost.
* Score, the collected count and the ticks a robot has been active are left out:
  nothing in a tick reads them.

### Arena

`Generate` is one call; its steps are actions here, in its order: `Paint` (a
region, a core or a ridge, all of them sets of cells given a terrain),
`PlaceBase` with its cleared footprint, `Connect` (a corridor to the first base for
a base that some locomotion cannot reach), `RepairPocket` until there is none, and
the two pools of loose components. `Flood` is `reachable`, `Corridor` is `carve`
cell by cell, `Closed` the terrain table. The draws of the rng are free choices:
any cell may be the furthest of the candidates, so any site may be a base.

### Loadouts

The kits of all colonies are resolved first (`ResolveKits`, or `RefuseKits`, which
fails the start), then each colony is equipped: its opening listed or drawn one
robot at a time (`DrawRobot`), cut to the budget (`FieldFleet`, with the loop's
`break` as the longest affordable prefix), and the remainder spent one component
at a time (`BuySpare`). Values are the catalogue's, in units of five, which every
one of them is a multiple of. A blueprint is a list of components, since two weapons of
one kind and any number of manipulators are legal and each costs again (`Price`,
`ValidBody`). A budget of zero means no limit, which is what an AI
profile has, and what an unset host budget does not.

### Library

The rows of `programs` and `program_versions` and every request that moves between
them and a robot, a statement an action: `SaveReadsField` (is it fielded, in the
registry) and `SaveWrites` (the transaction); `InstallReceives`, `InstallReadsRow`,
`InstallReadsBody` and `InstallApplies`; a loadout's `Choose...`, one program after
the other. A body is the number of the save that wrote it, so the same rules are
told apart from other rules under the same name. `blessed` is a history
variable: what was ever approved. `Refuse` ends a request at any point.

### Sessions

`rows` and `jar` hold what is left of a row's and of a cookie's life; `SessionTick`
lets time pass between any two statements. A request reads the row, refreshes it
in a second statement and answers; the answer may be lost, with the cookie it sets. A
logout deletes the row and clears the cookie (`Logout`), or only clears the cookie, when
the deletion fails, which the code logs (`LogoutFails`).

### Runtime

Under the match lock: `Step` (a tick, which hands every robot that has a turn its
evaluator and files what a watched one decides), `InstallProgram`, and `TraceOf`,
where the poll is the watch. `revision` counts the installs under an id; an
evaluator is stale when its id or its revision is another. The ring is kept as the
code keeps it, an array and a count; a poll is answered with what of it (`Retained`) was
decided after the tick the page asks from (`Since`). `made`, a history variable, says
what the ring should hold. In the code a tick is counted by an unsigned integer: the mutant of
`WatchIdle` is the subtraction that its comment warns of.

### Language, Evaluator, Mind

`Language` is data and pure functions: what a condition reads (`Reads`), how a tree
of them matches (`Match`, with its depth limit and the two polarities of the
optimistic walk of `warnInertStart`), what is refused, what is warned of. The
conditions there are, with their parts, are a constant set, `Conditions`, and each
walk down a condition is a function of the levels left and the condition, by one
operator that says what it makes of a node given what it made of the parts (`Cond`,
`CheckCond`, `LeavesUnder`, `ConjunctsOf`, `LatchedBy`): the code counts its depth up
to `MaxCondDepth`, the functions count down from it.
`Evaluator` is `Decide` and `Explain`, each translated from its own code: the
first as a walk that stops, the second by what the table and the verdicts hold.
`Mind` puts a robot around them: it is born at its base, a turn may be shown any
scene its hardware can sense, `Decide` acts, the world answers in any way it can,
and now and then it is hit. `Starters` holds the eight programs the game ships.

## 3. The runs

| Run | Configuration | Question |
|---|---|---|
| `match_steady` | `MCMatchSteady` | With no lost save and no failed read, does any sequence of stops, restarts and redeploys lose anything it should not? Includes the refinement. |
| `match_faults` | `MCMatchFaults` | What survives lost saves, failed restore reads and a drain that times out? Includes liveness. |
| `lobby` | `MCLobby` | Can requests racing over a lobby break its seats, or the match built from it? Does any draw of the opening robots and spare parts put a member ahead? Does a reinstall or a watch touch any robot but its own, and is a poll answered with what was decided? Do inspector and editor tell the truth? |
| `server` | `MCServer` | Do lobby and match together keep the colonies over a restart, under every fault? Does a session that expired or was revoked stay so? Can edits, approvals, deletions and installs that race hand a robot rules its id does not name, or a draft? |
| `stream` | `MCMatchStream` | Does a spectator see every event once, in time, and the end, over every race, lost connection and restart? |
| `world` | `MCWorld` | In a tick where several robots act on each other, on the ground and on their base, is a component ever in two places or in none, a kill counted twice, a loss told twice, a wreck alive, a recalled robot lost? And is every arena whole when its match starts? |
| `inert_start` | `MCMindInert` | violation: see Findings |
| `replay_graph` | `MCMatchReplay` | violation: see Findings |
| `start_hang_up` | `MCMatchHangUp` | violation: see Findings |
| `finishing_save_lost` | `MCMatchLostSave` | violation: see Findings |
| `restore_read_error` | `MCMatchReadError` | violation: see Findings |
| `draft_approved` | `MCDraft` | violation: see Findings |

**Bounds.** `EndTick` 3 or 4 with `SaveEvery` 2: a periodic save, a tick that is
not saved, and a finishing save at or between periodic ones. `MaxInputs` 2: two
commands at one tick, at different ticks, at the tick of a save and between a
copy and its write. `MaxStops` 2: a restart that is itself interrupted, and a
crash after a graceful stop or during one. Two builds: a redeploy, and a
roll-back to the build that wrote the record. Two players: one command waiting
between its check and its application while another is applied. Three requests
in `lobby`: two racing starts and a join or a SetAI between them; `MaxColonies`
3 with three users: a full lobby, an AI list that fills it. `server` needs less
of each: one stop, one command, two ticks, two users, two requests. `world`: nine
cells and four ticks, a wall between the two bases so that the way home is not the
straight one, gunners that cannot take the gap in it (a goal out of reach, and a
recall that leads nowhere), two shooters on one target, a gun on the ground that
completes a build with a duplicated part, a build of two ticks, a resource spawned
at the last tick, one command. `stream`: four ticks of no event or two over a feed of three, so that the
ring cuts a tick in half; a history of two points, decimated twice; a page that
trims and decimates at other sizes than the server; a connection lost at any
point and one stop. The actions of the match
do not compare ticks or counts with anything but `EndTick`, `SaveEvery` and the
record, so larger values add longer runs of the same cases; the theorems remove
the bounds for everything they cover.

The parts that share no state are checked in one run where that saves one:
`MCLobby` plays the lobby, the openings, the runtime or a mind, `MCServer` the server,
the sessions or the library, `MCWorld` the world or the arena. A constant-valued
variable `part` says which, and the others rest in an initial state, so the states
add up and do not multiply; an invariant of one part is looked at in the states of
all.

`lobby`, openings: two members who approve nothing or any of three bodies (the
starter's, a lighter one with two manipulators, one with two cannons that only fits the
unset budget), two AI colonies, and an unset, the smallest and a large budget. `server`, sessions: two
browsers, two tokens, a life of four units, so that half of it is past before the row
is refreshed. `world`, arenas: six cells
by four, two bases in either corner or in the same one, two shapes of seven (a wall
in any column but the first, a short row, a diagonal) in any of three terrains, so
that walls cross, seal pockets and cut one locomotion off and not another. `server`,
library: two rows, three saves, two requests in flight and a robot (an install, or a
save, against any other request, a deletion and a new row of the same name). `lobby`,
runtime: three robots and two watches on rings of two ticks, three ticks and a
second install of one id, so that a ring wraps, a watch idles, one is evicted, and
one follows a reinstall. `lobby`, minds: sixteen programs, the eight shipped ones and
eight that cover what the warnings are about, on three cells with every scene their
bodies can sense.

**Symmetry** is used for safety only: players and builds, requests, and
users other than the owner.

**Deadlock** is checked for the lobby, the openings and the minds. It is not for the
library, which stops at the bound on saves, as the runtime does at that on ticks; nor
for the match and the server:
once the stop bound is used up, a server with a finished match has nothing left
to do, as the real one has not until a request comes; nor for the world, which
stops at `Duration`.

**Fairness** (`match_faults`). Weak fairness of each group of steps one goroutine
takes: the start request, each command request, the driver's save, tick and end,
Restore, and boot, drain and exit. The Go scheduler runs every runnable
goroutine; the driver's two select cases are groups of their own since a closed
`done` is taken in the end whatever the ticker does; `restart: unless-stopped`
in `docker-compose.yml` boots a stopped container. Nothing makes a player start
a match or give a command, and no crash is ever required or excluded beyond the
bound on stops. `RunningEnds` is checked without `settle` and `reopen`: when
those writes fail the lobby stays `running` until the next restart, which
nothing forces.

In `stream`, the handler and its page, the exit and the boot are weakly fair. The
driver is, as long as the server is not stopping: a drain is far shorter than a
match and cannot wait for its end. `Close` is strongly fair, since Go's `select`
picks at random between a ticker that keeps firing and a channel that stays
closed. Crashes and lost connections are neither required nor excluded.

**Mutants.** Every property comes with a plausible bug of the code, an operator
named in `PROJECT.json` and defined above the definition it mutates, under which
the property fails in the same run.

### Findings

* `start_hang_up`. A start that fails after its flip puts the lobby back "so the
  lobby is not stranded" (`lobby.go:579`) with the request's own context. When
  that context is why the start failed, the rollback fails too, and the lobby
  says `running` with nothing behind it until the next restart finishes it.
* `finishing_save_lost`. "The worst it costs is the rewind of a restart that
  never happens" (`lobby.go:153`) is not so for the finishing save: the lobby is
  settled whatever becomes of it, and the match is then in no history.
* `restore_read_error`. "A record with finished_at set is history and is never
  deleted" (`db/matches.go:124`): a failed read while restoring is taken for a
  bad record, and the record of a match that had just ended is deleted.
* `replay_graph`. "The server's series is authoritative ... so a reconnect adopts
  it rather than keeping whatever this page observed" (`match.js:2761`): the init
  handler adopts it and then renders, and the render appends the snapshot of the
  previous connection (2680). After a seek back from a sampling tick the graph
  has a point ahead of the playhead, and refuses the samples in between.
* `inert_start`. The warning "never claims a working program is stuck"
  (`prog/validate.go:141`): it gives every predicate about the world a hopeful
  answer, but asks `health_below` of a robot at full health. A program that waits
  to be hurt is reported as one that never acts, and acts once it is.
* `draft_approved`. "Robots fielding it: leave the approval where it is and keep the new
  version as a draft" (`programs.go:431`). The registry is asked (470) before the UPDATE
  and in no common lock: a match that starts in between has robots running the program,
  and the save approves itself under them.

Three more are shown by properties that hold, because they say what the code does:

* `HistoryIsComplete` (`match_faults`). "One command can still land on a match that finishes in the
  gap ... no different from the command having arrived a tick earlier"
  (`server/robots.go:195`). None can: `Apply` asks again under the match lock and
  refuses with `ErrMatchOver` (`match.go:183`), where a tick earlier the command would
  have been applied. The code is the safer of the two: without the refusal a finished record
  would miss the command.
* `OpeningsAreEqual` (`lobby`). The starting budget is "what every colony, human or AI, is worth on
  tick one" (`settings.go:26`). An AI profile's kit has no budget (`starter.go:220`):
  its colony opens with its own list, whatever the host set.
* `RingIsTheDecisions` (`lobby`). The page's `histSince = 0` is the "newest tick already displayed"
  (`match.js:1529`), so 0 stands for nothing displayed. The ring returns what was
  decided *after* that tick (`history.go:95`), and the first decision of a match is made
  at tick 0: no poll ever gets it.

Noticed without a run of their own: the history is read before the board, so it
can only be behind it and never "one sample ahead" (`stream.go:135`,
`graph.js:68`); a client that stalls longer than a tick skips frames, against
"exactly one frame per tick" (`stream.go:79`), and one that stalls for more than
the ring's 400 events loses some without the page saying so (`match.js:2323`
only looks at the backlog); the `end` frame may be sent before the finishing
save is on disk, so that after a crash right there the match resumes and the page
has closed for good; a finished match stays in the registry until the process
stops, so the 410 of `match.js:2811` is only answered after a restart.
`target_reached` is "true on the tick the robot arrives" (`prog/catalogue.go`) and
stays true until the next move; "/auth/logout revokes the session" (`auth.go:6`), but a
deletion that fails is only logged (256) and answered the same, the cookie gone and the
row live until it expires (`LogoutFails`); an answer that is lost after a session was refreshed leaves the cookie shorter than the row,
until half of the row's life is past again.

## 4. The proofs

Eight modules hold the theorems. Each is for every value of the constants that
satisfies the named assumption of its module (`ConstantsAssumption`,
`WorldAssumption`, ...; all are plain facts about sizes and about the constants
that stand for "nothing"), without any of the bounds of the runs.

`DataLemmas` is what the rest stands on where a property is about data of any size.
An induction principle that takes a predicate cannot be cited here, so its two take
the set of what has the property: `SetInduction` (from the well-founded order of the
subsets of a finite set) and, from it, `NumberInduction`. They give the laws of sums
(`SumChange` and the like: what one changed summand does to a sum, and what a
bijection does not) and the existence of the functions that `World` and `Arena` define
by recursion. `LevelRecursion` does that for every function of places that have a
level and looks at lower levels only, which is what the walks of a condition are. So
that the provers can read them, the models cut a feed with `SubSeq` and `Before`, total
with `SumFunction` and recurse with functions only.

### The match (`MatchProofs`)

From `ConstantsAssumption`: positive `EndTick` and `SaveEvery`, at least one
build, `NoRecord` not a record.

| Theorem | Of the specification | Faults excluded |
|---|---|---|
| `TypeCorrect` | `[]TypeOK` | none |
| `Invariance` | `[]Inv` | none |
| `LogCorrect` | `[]LogExplainsWorld` | none |
| `HistoryComplete` | `[]HistoryIsComplete` | none |
| `OpenIsEmpty` | `[]OpenHasNoMatch` | none |
| `RewindBounded` | `[]RewindBound` | none |
| `OnlyForeign` | `[]OnlyForeignIsAbandoned` | `read` |
| `HistoryPermanent` | `HistoryIsPermanent` | `read` |
| `FinishedKept` | `[]FinishedIsInHistory` | `save` |
| `GracefulStop` | `[]GracefulStopRewindsNothing` | `save`, `drain` |
| `PromiseKept` | `ImplementsPromise` | `save`, `read` |
| `RestoreIsBounded` | `RestoreShrinks`, `[](Restoring => RestoreLeft \in Nat \ {0})` | none |
| `DriverIsBounded` | `DriverShrinks`, `[](Registered => DriverLeft \in Nat ...)` | none |

The excluded faults are exactly those under which a run, or a variation of one,
shows the property false.

**The argument.** None of the properties is inductive. `Inv`, at the end of
`Match.tla`, is the conjunction of: what may be in memory at each place of
`main.run` (`ProcessInv`: before Restore is done there is no driver, start or
command; while it works on a match the row says running); an open lobby and a
starting one have no record (`StartInv`); every record on disk has its commands
in the order of their ticks, none after its own, and is marked finished exactly
at `EndTick` (`RecordInv`); a registered match has taken its log, in order
(`MatchInv`); where the driver is says whether the match is over, and its copy
was taken at the tick it still stands at (`DriverInv`); the record is not ahead
of the match, and a finished one has its log (`SavedInv`); a replay has applied a
prefix of the log and no remaining command is overdue (`ReplayInv`). Each part
has a lemma that says which other parts its own preservation needs; three
lemmas (`RecordMoves`, `MatchMoves`, `ReplayMoves`) say who may touch what. The
fault-dependent properties add one part each (`RestoreInv`, `RewindInv`,
`FinishInv`, `LastSaveInv`). `ReplayArrives` is the heart of `OnlyForeign`: a
replay of a well-formed record ends at its tick with its whole log applied.

**The refinement.** `PromiseKept` maps every action to one of `MatchPromise` or to
a stutter. Two more parts are needed. `PrefixInv`: the copy a save holds is the
first part of the log, the commands given since are not older than it, and it is
never shorter than what is on disk; that makes a write of it a `Keep` of a moment
the world went through, although commands were applied between copy and write.
`PlayInv`: a command is only ever about a registered match, and a match whose lobby
is finished has no driver at work. It also assumes that `NoRecord` is not a world,
since the mapping uses it for the absence of one.

**Bounded work.** That a match and a restore *do* end needs a scheduler that runs them,
and stays with TLC (`RunningEnds`, `StopEnds`). What the code owes to it is proved: that
neither can go round in circles. `RestoreLeft` counts the ticks and commands left to
replay and the statements after them; only the restore's own steps and the end of the
process happen while it is at work (`RestoreAlone`), and each of its own lowers it.
`DriverLeft` counts three steps for every tick that is left (tick, copy, write) and what
follows the present save; no request, start or signal touches it while the match is
registered (`DriverAlone`), and each step of the driver lowers it, failed saves included:
a failed save is not retried before the next tick.

### The lobby (`LobbyProofs`) and the server (`ServerProofs`)

| Theorem | Of the specification |
|---|---|
| `LobbyInvariance` | `Lobby`: `[]LobbyInv` |
| `SeatsAlwaysFit` | `Lobby`: `[]SeatsFit` |
| `MatchFromTheRows` | `Lobby`: `[]MatchIsTheRows` |
| `NothingMovesAfterTheStart` | `Lobby`: `FrozenByTheStart` |
| `LobbyInTheServer` | `Server`: `L!Spec` |
| `MatchInTheServer` | `Server`: `M!Spec` |
| `ColoniesSurvive` | `Server`: `[]RestartKeepsColonies` |
| `ReplayFindsItsCommanders` | `Server`: `[]CommandersAreSeated` |
| `LobbySafeInTheServer` | `Server`: `[](L!SeatsFit /\ L!MatchIsTheRows)`, `L!FrozenByTheStart` |
| `MatchSafeInTheServer` | `Server`: `[]` of `LogExplainsWorld`, `RewindBound`, `HistoryIsComplete` and `OpenHasNoMatch` of `M` |
| `PromiseInTheServer` | `Server`: `M!ImplementsPromise`, without `save` and `read` faults |
| `GracefulStopOfTheServer` | `Server`: `[]M!GracefulStopRewindsNothing`, without `save` and `drain` faults |

`SeatInv` says of the rows that the owner sits first, nobody twice and no more than
fit, and of the requests in flight that what they have read cannot break that: a
join holds the seat limit there is (it never changes), a SetAI holds settings that
were validated with it. `StartInv` says that one start at most is past its flip,
that the lobby is then its own, and that what it has read since is what the rows
still say. `SeatsCounted` turns "nobody twice" into the cardinality of `SeatsFit`.

In the server the two implementations come first (`LobbyStep`, `MatchStep`): a step
of the composition is a step of its lobby, and of its match, or none of either,
`StartOf` being what the match sees of the requests. So the lobby's invariant holds
there, and `ServerInv` adds what relates the two: `BornInv` (once a match was
launched, the rows are those it was launched with and no start can reopen them; a
registered match, a record or a replay is of one that was launched) and `SeatedInv`
(whoever has a command checked, logged, copied or on disk has a seat in it). No
fault is excluded. `ServerAssumed` is Lobby's assumption, with the one conjunct of
it that is used spelled out again.

Because a behaviour of the server is one of its match, what is proved of a match by
itself holds there too, for every interleaving with the requests of the lobby, which the
bounded runs of `Server` cover for short matches only. `ServerProofs` instantiates
`MatchProofs` as `MP` and shows the two instances of `Match` equal action by action
(`SameMatch`, `SamePromise`); the last four rows follow from it, the match's under its
own assumptions and excluding the faults of its own table.

### The openings (`RuntimeProofs`)

`NobodyOutEquips` proves `[]OpeningsAreEqual` of `LoadoutsSpec`, from
`LoadoutsAssumption`: the bodies are blueprints `Validate` accepts (lists of any length,
components repeated where it allows that), and a budget is unset or at least the
smallest a host may set. The catalogue is the game's: the theorem is about its prices
(the cheapest part bounds how far two members are apart, and the smallest budget pays for
the starter's robot), not about any table of them. `EquipInv` says how far the colonies are: one equipped has a fleet that fits its budget,
and a rest smaller than the cheapest part; the one being equipped has drawn some of
what it may draw, and has not spent more than there is. `FieldFleet`'s cut is the
longest prefix that can be paid for, which is never empty because a member's first robot
is affordable (`Affordable`, checked before anything is drawn); the spares are then bought until nothing more is, so two members
are less than one part apart. Every step uses that a price is a sum, over the positions
of a list, of positive numbers.

### The mind (`RuntimeProofs`)

| Theorem | Of the specification |
|---|---|
| `MindInvariance` | `[]MindInv` |
| `TheInspectorAgrees` | `[]ExplainAgrees` |
| `TheWarningsHold` | `[]WarningsAreTrue` |
| `MindTypeCorrect` | `[]MindTypeOK`: the robot stays on the line, and its memory holds cells of the line at its points |
| `ActsFitTheBody` | `[]ActsAreBacked`: it reaches only for what a manipulator can hold, and shoots only with a weapon, at a robot it sees or detects |

From `LanguageAssumption` (what a condition looks like, and that its parts are among
the `Conditions`) and `MindAssumption` (the programs are lists of rules that `Validate`
accepts on their blueprint): so for programs of any size and nesting, any body, any line
of cells and any scene on it.

The walks of a condition come first. `MatchIs`, `LeavesIs`, `ConjunctsIs`, `WellFormedIs`
and `TableSaysIs` say what each makes of a node in terms of its parts, from
`LevelRecursion`; an induction over the levels then compares two of them: `TableTells`
(the rows of a table that answers for every leaf say of a well formed condition what the
matcher says), `ConjunctsTell` (a pure conjunction matches when all its predicates read
true), `AlikeTells` (views that read alike match alike), and `HopeTells`: if a view shows
nothing that the clean start does not show or hope for, and all that it does show, the
optimistic walk of the clean start holds wherever the matcher does, and under an odd
number of NOTs the other way round, which is what `UnderNot` is for.

`TickIs` is the invariant of the rule walk: what has matched is what matches at or above
the first winner, and rule, action and target are that winner's. `Explain` takes the
least winner instead; `FirstWinner` says they are the same. A rule below another that
dominates it cannot be among the matched, since the other would have won.

The warnings are about the robot as well as the program. A dead predicate needs
`BodyInv`: a weapon is ready only on a body that has one, and a sighting is at least a
cell away (`ScenesShow`), so a range of zero reaches nothing. `InertInv` is why an inert
program stays inert: while it matches nothing the robot takes no turn that changes it,
so it is still as it was released, and the clean start stands for it, until it is hit.

What a turn writes to memory is a list flattened from the actions of the rules it
walked (`FlattenIs`, by induction on the list of lists), and the address a signal carried
is one its condition latched, or one that was heard (`LatchedType`, by the levels of the
condition). `WritesType` says that
each write names a point and a cell of the line, because the scene shows no other
(`ViewShows`), and `WroteIs` that the last write to a point wins, so `BodyInv` carries the
type of the memory from turn to turn. `ActsAreBacked` needs no history: the action of a
turn is the primary action of some rule (`PrimaryIs`), or the deposit reflex, `Validate`
asks for its hardware, and `ResolveIs` picks its target among what is shown.

### The stream (`StreamProofs`)

From `StreamAssumption` (positive lengths and capacities, of the server and of the
page):

| Theorem | Of the specification |
|---|---|
| `TheEndIsTheEnd` | `[]EndIsFinal` |
| `TheHistoryIsEven` | `[]HistoryEven` |
| `TheGraphAscends` | `[]SeriesAscends` |
| `TheFeedIsTheWorlds` | `[]FeedIsTheWorlds` |
| `TheFrameOwesNothing` | `[]FrameOwesNothing` |

`EndInv` says at each place of the handler what it knows of the end: before its first
frame it has not asked, an end it was told of is the end of the world it reads (no step
is left then, and a crash takes the handler with it), and the board it sends after that
is the last.

`BuffersAre` relates the two buffers of the match to the world: the feed is the newest
part of what happened, in order and of ticks that are over (`BufferInv`), the history
is `Even`: point *i* is the sample of tick *(i - 1)* times the interval. Halving keeps
that, a sample off the interval changes nothing, and one on it is the next point. After
a restart both are computed again from the record; `NumberInduction` shows that the
result is again `Even`, and the cut of the feed that of the tick resumed from.
`ShownType` says what the handler's locals and the page may be, and that each has an
ascending series: the page's own decimation keeps the first of each pair.

`FeedInv` is what the two reads of the lock need. `Held` is what the page holds or will
once the frames being made are there; `Cursor` says which ticks' events these are,
`Frontier` which ticks the frame goes past. What is held is in order, happened, and is
of ticks before the cursor; all of the feed before the cursor is held; and once a frame
is made nothing is between its cursor and its own tick. The board may be ahead of the
feed that was read with it, but an event is only in the feed when its tick is over, so
what was missed is at or after the cursor, and the next frame takes it.

### The library (`LibraryProofs`)

| Theorem | Of the specification |
|---|---|
| `LibraryInvariance` | `[]LibraryInv` |
| `LibraryTypeCorrect` | `[]LibraryTypeOK` |
| `TheIdTellsTheTruth` | `[]NamesItsRules` |
| `OnlyTheApprovedIsFielded` | `[]NoDraftIsFielded` |

The idea is `Truthful`: whoever holds a body as version *v* of program *id* is right,
and stays right whatever is edited, deleted or created, because ids are never given
out again and a version not numbered yet is a later one. It is claimed of every
snapshot there is (`SnapshotsInv`): what a request in flight has read so far, the
loadout, and what the runtime was given. `RowsInv` is what the statements keep of the
rows, `FieldInv` that whatever a robot runs, or may be built to run, is installed.
`StepKeeps` says once
what every edit preserves; the requests then only add what they read.

### Sessions (`LibraryProofs`) and the runtime (`RuntimeProofs`)

| Theorem | Of the specification |
|---|---|
| `SessionTypeCorrect` | `[]SessionTypeOK` |
| `SessionsStayEnded` | `SessionsEnd` |
| `RuntimeInvariance` | `[]RuntimeInv` |
| `RuntimeTypeCorrect` | `[]RuntimeTypeOK` |
| `ThePollIsTruthful` | `[]RingIsTheDecisions` |
| `ColonyMatesAreLeftAlone` | `FieldUntouched` |
| `TheFreshWatchIsKept` | `WatchKeepsTheFresh` |

`SessionsStayEnded` is about sessions that expired or whose row is deleted; a logout that
fails to delete its row ends none (`LogoutFails`). `ThePollIsTruthful` is for every
tick a page may ask from: the answer is those of the latest decisions that were made
after it.

`MemoryInv`: a memory with anything in it belongs to the evaluator of the rules the
robot still runs, which is why a tick wipes nobody's. `RingInv`: the ring holds each
of the last decisions at its number modulo the size, and the explanation is the last
of them; `PlacesApart` (two numbers less than *N* apart differ modulo *N*) is why a
new one overwrites the oldest and nothing else. `OneIsOldest` and `EvictedMakesRoom`
are about the eviction: there is a least recent watch, and after it there is room.

### The world (`WorldProofs`)

For every arena, blueprint table, opening, length of the match and number of
commands, from `WorldAssumption` (sizes and times are positive where the tables of
`component.go` make them so, homes are on the map):

| Theorem | Of the specification |
|---|---|
| `WorldTypeCorrect` | `[]TypeOK` |
| `WrecksAreInert` | `WreckIsInert` |
| `LossesToldOnce` | `[]LossesAreTold` |
| `KillsAreLossesAlways` | `[]KillsAreLosses` |
| `ComponentsAreConserved` | `[]Conservation` |
| `TheRecalledGetHome` | `RecallGetsHome` |

`TypeOK` needs one thing more, that a tick is under way only before `Duration`
(`TickInv`). `LossesAreTold` is not inductive: a second loss of the same robot is
excluded because ids grow along the slice and are never given out twice, because an
event is only ever about an id already given out, and because no wreck is left when
a tick begins, which is when the events are emptied (`LossInv`). `QuietTurn` and
`OneShot` say what a turn can touch: nobody else, or exactly one living robot;
every other step follows from `QuietStep`. `MinOf` (the lowest id exists and is in
the set) comes from the well-foundedness of `<`.

`KillsAreLosses` is about three sums that move in different phases: a shot adds a kill
and a wreck, the sweep turns a wreck into a loss (`WithoutBijects`: the other wrecks are
those that were, at other places of the slice). `Conservation` is shown one step at a
time by what it does to each of the three sums of `Total` (`GroundChange`,
`RobotsChange`, `BasesChange`, `RobotGone`, `RobotBorn`); the salvage is the one step
where the ledger moves too, by exactly the parts that were not kept.

`RecallGetsHome` holds on any terrain because of `FirstMove`: a way of *n + 1* moves is
a first move and a way of *n* from there. So where home can be reached the first step of
a shortest way exists, is among `FirstSteps`, and every one of those leads nearer
(`TheWayIsTaken`); `BusyTurn` and `RecallTurn` are the only actions such a robot's turn
can be.

### The arena (`WorldProofs`)

`TheArenaIsWhole` proves `[]ArenaConnected` of `ArenaSpec`, from `ArenaAssumption`
(sizes are positive, what is drawn is on the grid). `ReachedIs` says what a flood is:
the least set of passable cells that holds the one it starts from and that no
neighbour leaves; its termination is an induction over the cells not flooded yet.
From it follow that reaching is symmetric and transitive (`ReachedBack`), and that more
open ground is reached no less (`ReachedMore`). `CorridorIs` walks a corridor from its
end to its beginning, cell by cell. `SitesInv`: the sites are open and, as far as the
roads are built, met by every locomotion, in every stage since (opening cells closes
none); from the pools on no ground is sealed. `LooseInv`: what was scattered is in the
reach its pool was taken from, off every footprint, and in one pool only.

### Only model-checked

* Liveness (`RunningEnds`, `StopEnds`, `SpectatorSeesTheEnd`, `StopEndsStreams`):
  it needs fairness and ENABLED, which the prover does not handle. That the work they
  wait for is bounded is proved (`RestoreIsBounded`, `DriverIsBounded`).
* `MatchReplay` and the findings: the latter are counterexamples.

## 5. Not modelled

Nothing of the following keeps state that another part depends on, or its state is
out of a model's reach:

* **Web client**: what `match.js` does with the frames of a stream is in
  `MatchStream` and `MatchReplay`; rendering, the editors and the other pages are not.
* **Configuration** (`internal/config`): read once, before anything runs.
* **Sign-in**: the exchange with the provider is external; `Sessions` knows whether it
  succeeded. The `users` row is one upsert.
* **Wire formats, wording and presentation**: DTOs, labels, JSON, migrations of stored
  programs, blueprint previews, the score and the telemetry counters.
* **Blueprints** are rows without versions; a request that names one may be refused.
* **Dry runs and shadow tests** copy a world under its lock and answer from the copy.
  What is left of them is a throttle, a map and a clock under one mutex, whose cap is
  4096 players.
* **Geometry of sight**: what a robot sees is any scene its hardware can sense
  (`Mind`), or any action it could choose (`World`).
* **Retention**: `DeleteMatchLog` apart, nothing removes a record.
* **Database**: opening, pragmas and migrations; SQLite itself is its statements, each
  atomic.
