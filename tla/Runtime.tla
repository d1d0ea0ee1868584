------------------------------- MODULE Runtime -------------------------------
(***************************************************************************)
(* The programs of one match at work: what is installed under which id,    *)
(* the evaluator each robot thinks with, and the traces kept of the robots *)
(* somebody is looking at.                                                 *)
(*                                                                         *)
(*   internal/prog/runtime.go   Install, Control, Forget                   *)
(*   internal/prog/history.go   the ring, Watch, evict, drop, History      *)
(*   internal/prog/explain.go   explainTick, Explanation                   *)
(*   internal/server/trace.go   TraceOf                                    *)
(*   internal/server/robots.go  InstallProgram under the lock, installID   *)
(*   internal/sim/world.go      Robot.Reprogram                            *)
(*                                                                         *)
(* All of it runs under the match's lock: a tick of the world, a poll and  *)
(* an install are each one step, in any order.                             *)
(*                                                                         *)
(* Abstracted: rules are the program they were installed from; memory is   *)
(* whose rules wrote it last; a decision is the tick it was made at - what *)
(* it says is in Mind.tla.  The match's end, which TraceOf reads before it *)
(* takes the lock, may be read as not reached yet.                         *)
(***************************************************************************)
EXTENDS Naturals, Sequences, FiniteSets

CONSTANTS
  Bots,            \* the robots of the match: numbers, ordered as Robot.ID is
  Programs,        \* library programs
  Everyone,        \* the robot part of a colony-wide install's id
  HistoryTicks,    \* history.go: slots of a ring
  MaxWatched,      \* history.go: robots watched at once
  WatchIdleTicks,  \* history.go: a watch not polled for longer is idle
  Wiped,           \* a memory without content
  NoTable          \* no condition table

VARIABLES
  tick,            \* World.Tick
  over,            \* Match.finished
  alive,           \* the robots in World.Robots
  runs,            \* Robot.ProgramID
  memory,          \* Robot.Memory
  revision,        \* Runtime.programs: the installs under each id, 0 when none
  evaluators,      \* Runtime.robots
  watched,         \* Runtime.watched
  built,           \* the robots ever in it: ids are not used again
  made             \* history: the ticks a watched robot decided at since its watch began

runtimeVars == <<tick, over, alive, built, runs, memory, revision, evaluators,
                 watched, made>>

ProgramId == [program : Programs, robot : Bots \cup {Everyone}]
OfColony(p) == [program |-> p, robot |-> Everyone]

\* Evaluator: explain is the tick of its condition table.
Evaluator == [id : ProgramId, revision : Nat, hist : BOOLEAN, explain : Nat \cup {NoTable}]
NoEvaluator == [hist |-> FALSE]

\* history: a ring of ticks and how many were ever appended.
Ring == [buf : [0..(HistoryTicks - 1) -> Nat], n : Nat, seen : Nat]

ASSUME RuntimeAssumption ==
  /\ Bots \subseteq Nat /\ IsFiniteSet(Bots)
  /\ Everyone \notin Bots
  /\ HistoryTicks \in Nat \ {0} /\ MaxWatched \in Nat \ {0}
  /\ WatchIdleTicks \in Nat
  /\ Wiped \notin Programs /\ NoTable \notin Nat

RuntimeTypeOK ==
  /\ tick \in Nat /\ over \in BOOLEAN
  /\ alive \subseteq built /\ built \subseteq Bots
  /\ runs \in [Bots -> ProgramId]
  /\ memory \in [Bots -> Programs \cup {Wiped}]
  /\ revision \in [ProgramId -> Nat]
  /\ evaluators \in [Bots -> Evaluator \cup {NoEvaluator}]
  /\ DOMAIN watched \subseteq Bots /\ \A r \in DOMAIN watched : watched[r] \in Ring
  /\ made \in [Bots -> Seq(Nat)]

\* World.NextID counts up.
NextIds(left) == {new \in SUBSET left : \A r \in new, s \in left \ new : r < s}

\* newMatch: the colonies' programs installed and their starting robots placed.
RuntimeInit ==
  /\ tick = 0 /\ over = FALSE
  /\ alive \in NextIds(Bots) /\ built = alive
  /\ runs \in [Bots -> {OfColony(p) : p \in Programs}]
  /\ memory = [r \in Bots |-> Wiped]
  /\ revision = [id \in ProgramId |-> IF id.robot = Everyone THEN 1 ELSE 0]
  /\ evaluators = [r \in Bots |-> NoEvaluator]
  /\ watched = <<>>
  /\ made = [r \in Bots |-> <<>>]

------------------------------------------------------------------------------
\* The ring.

EmptyRing(now) == [buf |-> [i \in 0..(HistoryTicks - 1) |-> 0], n |-> 0, seen |-> now]

RingAdd(h, t) == [h EXCEPT !.buf[h.n % HistoryTicks] = t, !.n = @ + 1]

\* The retained events, oldest first, at most HistoryTicks of them.
Retained(h) ==
  LET first == IF h.n > HistoryTicks THEN h.n - HistoryTicks ELSE 0 IN
  [i \in 1..(h.n - first) |-> h.buf[(first + i - 1) % HistoryTicks]]

\* since: what a poll is answered that holds everything up to after.
Since(h, after) == SelectSeq(Retained(h), LAMBDA t : t > after)

\* Mutant: now - watchIdleTicks, in unsigned arithmetic.
IdleWrapped(h, now) == now < WatchIdleTicks \/ h.seen < now - WatchIdleTicks

\* "written as addition so that an early tick cannot underflow"
WatchIdle(h, now) == h.seen + WatchIdleTicks < now

\* evict: the idle ones, and when that leaves no room the one polled least recently,
\* of several the lowest id.
Evicted(now) ==
  LET idle == {r \in DOMAIN watched : WatchIdle(watched[r], now)}
      left == DOMAIN watched \ idle
      Older(r, s) == \/ watched[r].seen < watched[s].seen
                     \/ watched[r].seen = watched[s].seen /\ r < s IN
  IF Cardinality(left) < MaxWatched THEN idle
  ELSE idle \cup {r \in left : \A s \in left \ {r} : Older(r, s)}

\* Mutant: the explanation stays behind.
DroppedKept(e) == [e EXCEPT !.hist = FALSE]

\* drop, as it leaves the evaluator.
Dropped(e) == [e EXCEPT !.hist = FALSE, !.explain = NoTable]

\* Watch.
Watch(r) ==
  IF r \in DOMAIN watched
    THEN /\ watched' = [watched EXCEPT ![r].seen = tick]
         /\ UNCHANGED <<evaluators, made>>
    ELSE LET out == Evicted(tick) IN
         /\ watched' = [s \in (DOMAIN watched \ out) \cup {r} |->
                          IF s = r THEN EmptyRing(tick) ELSE watched[s]]
         /\ evaluators' = [s \in Bots |->
              IF evaluators[s] = NoEvaluator THEN NoEvaluator
              ELSE IF s = r THEN [evaluators[s] EXCEPT !.hist = TRUE]
              ELSE IF s \in out THEN Dropped(evaluators[s])
              ELSE evaluators[s]]
         /\ made' = [made EXCEPT ![r] = <<>>]

------------------------------------------------------------------------------
\* Control's new evaluator: New, and the robot's ring attached.
Fresh(r) ==
  [id |-> runs[r], revision |-> revision[runs[r]], hist |-> r \in DOMAIN watched,
   explain |-> NoTable]

\* Control: the evaluator a robot thinks with this tick, unless its id or the
\* revision of its id has changed.
Current(r) ==
  LET e == evaluators[r] IN
  e # NoEvaluator /\ e.id = runs[r] /\ e.revision = revision[runs[r]]

\* What Control hands a robot for its turn.
Thinking(r) ==
  IF Current(r) THEN [evaluators[r] EXCEPT !.hist = r \in DOMAIN watched] ELSE Fresh(r)

\* The memory Control leaves: wiped when an evaluator is replaced.
Remembered(r) == IF evaluators[r] # NoEvaluator /\ ~Current(r) THEN Wiped ELSE memory[r]

\* World.Step.  The robots of turns are not busy: each is handed its evaluator and
\* decides, some of them writing memory; a watched one's decision is explained and
\* filed in its ring.  Then the lost are swept (OnDestroy: Forget) and the bases
\* produce the new, which run what their design names.
Step(turns, writing, lost, new) ==
  /\ ~over
  /\ evaluators' = [r \in Bots |->
       IF r \in lost THEN NoEvaluator
       ELSE IF r \in turns
         THEN [Thinking(r) EXCEPT !.explain = IF Thinking(r).hist THEN tick ELSE @]
         ELSE evaluators[r]]
  /\ memory' = [r \in Bots |->
       IF r \in lost THEN Wiped
       ELSE IF r \in writing THEN runs[r].program
       ELSE IF r \in turns THEN Remembered(r) ELSE memory[r]]
  /\ watched' = [r \in DOMAIN watched \ lost |->
       IF r \in turns /\ Thinking(r).hist THEN RingAdd(watched[r], tick) ELSE watched[r]]
  /\ made' = [r \in Bots |->
       IF r \in lost THEN <<>>
       ELSE IF r \in turns /\ r \in DOMAIN watched THEN Append(made[r], tick) ELSE made[r]]
  /\ alive' = (alive \ lost) \cup new
  /\ built' = built \cup new
  /\ tick' = tick + 1
  /\ UNCHANGED <<over, runs, revision>>

\* Mutant: the library program's own id, shared by the colony.
InstallIdShared(p, r) == OfColony(p)

\* installID: per robot on purpose.
InstallId(p, r) == [program |-> p, robot |-> r]

\* InstallProgram under the lock, on a robot at its base: Runtime.Install and
\* Robot.Reprogram.
InstallProgram(r, p) ==
  LET id == InstallId(p, r) IN
  /\ ~over /\ r \in alive
  /\ revision' = [revision EXCEPT ![id] = @ + 1]
  /\ runs' = [runs EXCEPT ![r] = id]
  /\ memory' = [memory EXCEPT ![r] = Wiped]
  /\ UNCHANGED <<tick, over, alive, built, evaluators, watched, made>>

\* TraceOf: the answer is what the ring, from the tick the page asks after, and the
\* evaluator hold; the poll itself is the watch, unless the match was over when the
\* request looked.
TraceOf(r) ==
  /\ r \in alive
  /\ Watch(r)
  /\ UNCHANGED <<tick, over, alive, built, runs, memory, revision>>

MatchOver ==
  /\ ~over /\ over' = TRUE
  /\ UNCHANGED <<tick, alive, built, runs, memory, revision, evaluators, watched, made>>

RuntimeNext ==
  \/ \E turns \in SUBSET alive, lost \in SUBSET alive, new \in NextIds(Bots \ built) :
       \E writing \in SUBSET turns : Step(turns, writing, lost, new)
  \/ \E r \in Bots : TraceOf(r) \/ \E p \in Programs : InstallProgram(r, p)
  \/ MatchOver

RuntimeSpec == RuntimeInit /\ [][RuntimeNext]_runtimeVars

------------------------------------------------------------------------------
\* Properties.

\* A robot in the field is left alone: no tick gives a live robot other rules to run
\* or wipes its memory, and an install does so to one robot at most - whatever is
\* installed on its colony mates, under ids of the same program ("the exact instant
\* reprogramming design 4.2 forbids").
FieldUntouched ==
  [][LET Touched == {r \in alive \cap alive' : \/ runs'[r] # runs[r]
                                               \/ memory[r] # Wiped /\ memory'[r] = Wiped} IN
     /\ tick' # tick => Touched = {}
     /\ \A r, s \in Touched : r = s]_runtimeVars

\* Explanation, when there is one to serve.
Explained(r) == evaluators[r].hist /\ evaluators[r].explain # NoTable

\* The last decisions made since the watch began, as many as a ring takes.
LastMade(r) ==
  LET n == Len(made[r])
      kept == IF n > HistoryTicks THEN HistoryTicks ELSE n IN
  SubSeq(made[r], n - kept + 1, n)

\* What a poll is answered is what the robot did: whatever tick the page says it holds,
\* it is given those of the last decisions of this watch that were made after it, none
\* missing, none twice, none of an earlier watch, and the explanation beside them is of
\* the last one made - across reinstalls, evictions and watches taken up again.  A page
\* that holds nothing asks with 0 (match.js), and the decision made at tick 0 is not
\* after it.
RingIsTheDecisions ==
  \A r \in DOMAIN watched :
    /\ \A after \in 0..tick :
         Since(watched[r], after) = SelectSeq(LastMade(r), LAMBDA t : t > after)
    /\ (evaluators[r] # NoEvaluator /\ Explained(r)) =>
         made[r] # <<>> /\ evaluators[r].explain = made[r][Len(made[r])]

\* At most MaxWatched rings, and the player who is looking keeps theirs: a live
\* robot's watch is dropped only when it has gone idle, or when the place is needed
\* and no other watch is older.
WatchKeepsTheFresh ==
  [][/\ Cardinality(DOMAIN watched') <= MaxWatched
     /\ \A r \in (DOMAIN watched \cap alive') \ DOMAIN watched' :
          \/ tick > WatchIdleTicks /\ watched[r].seen < tick - WatchIdleTicks
          \/ /\ Cardinality(DOMAIN watched) >= MaxWatched
             /\ \A s \in DOMAIN watched \cap DOMAIN watched' :
                  watched[s].seen >= watched[r].seen]_runtimeVars
==============================================================================
