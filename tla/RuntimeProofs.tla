---------------------------- MODULE RuntimeProofs ----------------------------
(***************************************************************************)
(* The theorems about Runtime, for any robots, programs, sizes of a ring   *)
(* and of the watch, and idle time; about Loadouts, for any bodies,        *)
(* approvals, members, AI profiles and budgets a host may set; and about   *)
(* Mind, for any conditions and valid programs, any line of cells and any  *)
(* weapon's reach.                                                         *)
(***************************************************************************)
EXTENDS Runtime, Mind, Loadouts, DataLemmas, SequenceTheorems, FiniteSetTheorems,
        WellFoundedInduction, TLAPS

\* A robot's own id is nobody else's, and a memory with anything in it belongs to the
\* evaluator of the rules the robot still runs.
MemoryInv ==
  \A r \in Bots :
    /\ runs[r].robot \in {Everyone, r}
    /\ evaluators[r] # NoEvaluator /\ memory[r] # Wiped => Current(r)

\* A ring holds the last of the decisions, each at its number modulo the size, and the
\* explanation is of the last one; without a ring there is no explanation.
RingInv(r) ==
  /\ watched[r].n = Len(made[r])
  /\ \A j \in 0..(Len(made[r]) - 1) :
       Len(made[r]) <= j + HistoryTicks => watched[r].buf[j % HistoryTicks] = made[r][j + 1]
  /\ evaluators[r] # NoEvaluator /\ evaluators[r].explain # NoTable =>
       Len(made[r]) > 0 /\ evaluators[r].explain = made[r][Len(made[r])]

WatchInv ==
  /\ Cardinality(DOMAIN watched) <= MaxWatched
  /\ \A r \in DOMAIN watched : RingInv(r)
  /\ \A r \in Bots \ DOMAIN watched : evaluators[r] # NoEvaluator => evaluators[r].explain = NoTable

RuntimeInv == RuntimeTypeOK /\ MemoryInv /\ WatchInv

------------------------------------------------------------------------------
\* What an evaluator is, and that it is one after a change of what it shows.
LEMMA EvaluatorFields ==
  ASSUME NEW e \in Evaluator
  PROVE  /\ e # NoEvaluator
         /\ e.id \in ProgramId /\ e.revision \in Nat
         /\ \A h \in BOOLEAN : /\ [e EXCEPT !.hist = h] \in Evaluator
                               /\ [e EXCEPT !.hist = h].id = e.id
                               /\ [e EXCEPT !.hist = h].revision = e.revision
                               /\ [e EXCEPT !.hist = h].explain = e.explain
                               /\ [e EXCEPT !.hist = h].hist = h
         /\ \A t \in Nat \cup {NoTable} : /\ [e EXCEPT !.explain = t] \in Evaluator
                                          /\ [e EXCEPT !.explain = t].id = e.id
                                          /\ [e EXCEPT !.explain = t].revision = e.revision
                                          /\ [e EXCEPT !.explain = t].explain = t
<1>1. e # NoEvaluator
  <2>1. "id" \in DOMAIN e /\ "id" \notin DOMAIN NoEvaluator
    BY DEF Evaluator, NoEvaluator
  <2> QED BY <2>1
<1>2. e.id \in ProgramId /\ e.revision \in Nat
  BY DEF Evaluator
<1>3. ASSUME NEW h \in BOOLEAN
      PROVE  /\ [e EXCEPT !.hist = h] \in Evaluator
             /\ [e EXCEPT !.hist = h].id = e.id
             /\ [e EXCEPT !.hist = h].revision = e.revision
             /\ [e EXCEPT !.hist = h].explain = e.explain
             /\ [e EXCEPT !.hist = h].hist = h
  BY DEF Evaluator
<1>4. ASSUME NEW t \in Nat \cup {NoTable}
      PROVE  /\ [e EXCEPT !.explain = t] \in Evaluator
             /\ [e EXCEPT !.explain = t].id = e.id
             /\ [e EXCEPT !.explain = t].revision = e.revision
             /\ [e EXCEPT !.explain = t].explain = t
  BY DEF Evaluator
<1> QED BY <1>1, <1>2, <1>3, <1>4

LEMMA ThinkingFields ==
  ASSUME RuntimeTypeOK, NEW r \in Bots
  PROVE  /\ Thinking(r) \in Evaluator
         /\ Thinking(r).id = runs[r] /\ Thinking(r).revision = revision[runs[r]]
         /\ Thinking(r).hist = (r \in DOMAIN watched)
         /\ Thinking(r).explain = IF Current(r) THEN evaluators[r].explain ELSE NoTable
<1> DEFINE h == r \in DOMAIN watched
<1>1. h \in BOOLEAN
  OBVIOUS
<1>2. runs[r] \in ProgramId /\ revision[runs[r]] \in Nat
  BY DEF RuntimeTypeOK
<1>3. CASE Current(r)
  <2>1. evaluators[r] \in Evaluator
    BY <1>3 DEF RuntimeTypeOK, Current
  <2>2. Thinking(r) = [evaluators[r] EXCEPT !.hist = h]
    BY <1>3 DEF Thinking
  <2> HIDE DEF h
  <2>3. /\ Thinking(r) \in Evaluator /\ Thinking(r).id = evaluators[r].id
        /\ Thinking(r).revision = evaluators[r].revision
        /\ Thinking(r).explain = evaluators[r].explain /\ Thinking(r).hist = h
    BY <1>1, <2>1, <2>2, EvaluatorFields
  <2> QED BY <1>3, <2>3 DEF Current, h
<1>4. CASE ~Current(r)
  <2>1. Thinking(r) = [id |-> runs[r], revision |-> revision[runs[r]], hist |-> h,
                       explain |-> NoTable]
    BY <1>4 DEF Thinking, Fresh
  <2> QED BY <1>1, <1>2, <1>4, <2>1 DEF Evaluator
<1> QED BY <1>3, <1>4

\* What a tick leaves of the evaluators.
LEMMA StepEvaluators ==
  ASSUME RuntimeTypeOK,
         NEW turns \in SUBSET alive, NEW lost \in SUBSET alive, NEW new \in NextIds(Bots \ built),
         NEW writing \in SUBSET turns, Step(turns, writing, lost, new), NEW r \in Bots
  PROVE  /\ evaluators'[r] \in Evaluator \cup {NoEvaluator}
         /\ r \in lost => evaluators'[r] = NoEvaluator
         /\ r \notin lost /\ r \notin turns => evaluators'[r] = evaluators[r]
         /\ r \notin lost /\ r \in turns =>
              /\ evaluators'[r] \in Evaluator
              /\ evaluators'[r].id = runs[r] /\ evaluators'[r].revision = revision[runs[r]]
              /\ evaluators'[r].explain =
                   IF r \in DOMAIN watched THEN tick
                   ELSE IF Current(r) THEN evaluators[r].explain ELSE NoTable
<1>1. evaluators'[r] = IF r \in lost THEN NoEvaluator
                       ELSE IF r \in turns
                         THEN [Thinking(r) EXCEPT !.explain =
                                 IF Thinking(r).hist THEN tick ELSE @]
                         ELSE evaluators[r]
  BY DEF Step
<1>2. evaluators[r] \in Evaluator \cup {NoEvaluator} /\ tick \in Nat
  BY DEF RuntimeTypeOK
<1>3. CASE r \notin lost /\ r \in turns
  <2> DEFINE t == IF r \in DOMAIN watched THEN tick
                  ELSE IF Current(r) THEN evaluators[r].explain ELSE NoTable
  <2>1. evaluators'[r] = [Thinking(r) EXCEPT !.explain = t]
    BY <1>1, <1>3, ThinkingFields
  <2>2. t \in Nat \cup {NoTable}
    BY <1>2 DEF Evaluator, Current
  <2> HIDE DEF t
  <2>3. /\ evaluators'[r] \in Evaluator /\ evaluators'[r].id = Thinking(r).id
        /\ evaluators'[r].revision = Thinking(r).revision /\ evaluators'[r].explain = t
    BY <2>1, <2>2, ThinkingFields, EvaluatorFields
  <2> QED BY <1>3, <2>3, ThinkingFields DEF t
<1> QED BY <1>1, <1>2, <1>3

\* What the beginning of a watch leaves of the evaluators.
LEMMA WatchEvaluators ==
  ASSUME RuntimeTypeOK, NEW r \in Bots, r \notin DOMAIN watched, Watch(r), NEW s \in Bots
  PROVE  /\ evaluators'[s] \in Evaluator \cup {NoEvaluator}
         /\ evaluators'[s] = NoEvaluator <=> evaluators[s] = NoEvaluator
         /\ evaluators[s] # NoEvaluator =>
              /\ evaluators'[s].id = evaluators[s].id
              /\ evaluators'[s].revision = evaluators[s].revision
              /\ evaluators'[s].explain =
                   IF s # r /\ s \in Evicted(tick) THEN NoTable ELSE evaluators[s].explain
<1> DEFINE e == evaluators[s]
<1>1. evaluators'[s] = IF e = NoEvaluator THEN NoEvaluator
                       ELSE IF s = r THEN [e EXCEPT !.hist = TRUE]
                       ELSE IF s \in Evicted(tick) THEN Dropped(e)
                       ELSE e
  BY DEF Watch
<1>2. e \in Evaluator \cup {NoEvaluator}
  BY DEF RuntimeTypeOK
<1>3. CASE e = NoEvaluator
  <2>1. evaluators'[s] = NoEvaluator
    BY <1>1, <1>3, <1>2
  <2> QED BY <1>3, <2>1
<1> HIDE DEF e
<1>4. CASE e # NoEvaluator /\ s = r
  <2>1. evaluators'[s] = [e EXCEPT !.hist = TRUE] /\ e \in Evaluator
    BY <1>1, <1>2, <1>4
  <2>2. /\ evaluators'[s] \in Evaluator /\ evaluators'[s].id = e.id
        /\ evaluators'[s].revision = e.revision /\ evaluators'[s].explain = e.explain
    BY <2>1, EvaluatorFields
  <2>3. evaluators'[s] # NoEvaluator
    BY <2>2, EvaluatorFields
  <2> QED BY <1>4, <2>2, <2>3 DEF e
<1>5. CASE e # NoEvaluator /\ s # r /\ s \in Evicted(tick)
  <2>1. evaluators'[s] = [e EXCEPT !.hist = FALSE, !.explain = NoTable] /\ e \in Evaluator
    BY <1>1, <1>2, <1>5 DEF Dropped
  <2>2. /\ evaluators'[s] \in Evaluator /\ evaluators'[s].id = e.id
        /\ evaluators'[s].revision = e.revision /\ evaluators'[s].explain = NoTable
    BY <2>1 DEF Evaluator
  <2>3. evaluators'[s] # NoEvaluator
    BY <2>2, EvaluatorFields
  <2> QED BY <1>5, <2>2, <2>3 DEF e
<1>6. CASE e # NoEvaluator /\ s # r /\ s \notin Evicted(tick)
  BY <1>1, <1>2, <1>6 DEF e
<1> QED BY <1>3, <1>4, <1>5, <1>6 DEF e

LEMMA RingAddType ==
  ASSUME NEW h \in Ring, NEW t \in Nat
  PROVE  /\ RingAdd(h, t) \in Ring
         /\ RingAdd(h, t).n = h.n + 1 /\ RingAdd(h, t).seen = h.seen
         /\ RingAdd(h, t).buf = [h.buf EXCEPT ![h.n % HistoryTicks] = t]
<1>1. h.n % HistoryTicks \in 0..(HistoryTicks - 1)
  BY RuntimeAssumption DEF Ring
<1>2. RingAdd(h, t) = [buf |-> [h.buf EXCEPT ![h.n % HistoryTicks] = t], n |-> h.n + 1,
                       seen |-> h.seen]
  <2> DEFINE i == h.n % HistoryTicks
  <2>1. h = [buf |-> h.buf, n |-> h.n, seen |-> h.seen]
    BY DEF Ring
  <2>2. RingAdd(h, t) = [h EXCEPT !.buf[i] = t, !.n = @ + 1]
    BY DEF RingAdd
  <2> HIDE DEF i
  <2>3. RingAdd(h, t) = [buf |-> [h.buf EXCEPT ![i] = t], n |-> h.n + 1, seen |-> h.seen]
    BY <2>1, <2>2
  <2> QED BY <2>3 DEF i
<1>3. [h.buf EXCEPT ![h.n % HistoryTicks] = t] \in [0..(HistoryTicks - 1) -> Nat]
  BY <1>1 DEF Ring
<1>4. h.n + 1 \in Nat /\ h.seen \in Nat
  BY DEF Ring
<1> QED BY <1>2, <1>3, <1>4 DEF Ring

LEMMA RuntimeTypeNext == RuntimeTypeOK /\ [RuntimeNext]_runtimeVars => RuntimeTypeOK'
<1> SUFFICES ASSUME RuntimeTypeOK, [RuntimeNext]_runtimeVars PROVE RuntimeTypeOK'
  OBVIOUS
<1>1. ASSUME NEW turns \in SUBSET alive, NEW lost \in SUBSET alive,
             NEW new \in NextIds(Bots \ built), NEW writing \in SUBSET turns,
             Step(turns, writing, lost, new)
      PROVE  RuntimeTypeOK'
  <2>1. tick' = tick + 1 /\ tick' \in Nat /\ over' = over /\ over' \in BOOLEAN
        /\ UNCHANGED <<runs, revision>>
    BY <1>1 DEF Step, RuntimeTypeOK
  <2>2. alive' \subseteq built' /\ built' \subseteq Bots
    BY <1>1 DEF Step, RuntimeTypeOK, NextIds
  <2>3. evaluators' \in [Bots -> Evaluator \cup {NoEvaluator}]
    <3>1. DOMAIN evaluators' = Bots /\ evaluators' = [r \in Bots |-> evaluators'[r]]
      BY <1>1 DEF Step
    <3> QED BY <1>1, <3>1, StepEvaluators
  <2>4. memory' \in [Bots -> Programs \cup {Wiped}]
    BY <1>1 DEF Step, RuntimeTypeOK, Remembered, ProgramId
  <2>5. DOMAIN watched' \subseteq Bots /\ \A r \in DOMAIN watched' : watched'[r] \in Ring
    <3>1. ASSUME NEW r \in DOMAIN watched' PROVE r \in Bots /\ watched'[r] \in Ring
      <4>1. r \in DOMAIN watched /\ r \in Bots /\ watched[r] \in Ring /\ tick \in Nat
        BY <1>1 DEF Step, RuntimeTypeOK
      <4>2. watched'[r] = RingAdd(watched[r], tick) \/ watched'[r] = watched[r]
        BY <1>1 DEF Step
      <4> QED BY <4>1, <4>2, RingAddType
    <3> QED BY <3>1
  <2>6. made' \in [Bots -> Seq(Nat)]
    <3>1. \A r \in Bots : made[r] \in Seq(Nat) /\ Append(made[r], tick) \in Seq(Nat)
      BY AppendProperties DEF RuntimeTypeOK
    <3>2. <<>> \in Seq(Nat)
      BY EmptySeq
    <3>3. \A r \in Bots : made'[r] \in Seq(Nat)
      BY <1>1, <3>1, <3>2 DEF Step
    <3>4. made' = [r \in Bots |-> made'[r]]
      BY <1>1 DEF Step
    <3> QED BY <3>3, <3>4
  <2> QED BY <2>1, <2>2, <2>3, <2>4, <2>5, <2>6 DEF RuntimeTypeOK
<1>2. ASSUME NEW r \in Bots, TraceOf(r) PROVE RuntimeTypeOK'
  <2>1. UNCHANGED <<tick, over, alive, built, runs, memory, revision>> /\ Watch(r)
    BY <1>2 DEF TraceOf
  <2>2. CASE r \in DOMAIN watched
    <3>1. /\ watched' = [watched EXCEPT ![r].seen = tick]
          /\ UNCHANGED <<evaluators, made>>
      BY <2>1, <2>2 DEF Watch
    <3>2. ASSUME NEW s \in DOMAIN watched' PROVE s \in Bots /\ watched'[s] \in Ring
      BY <3>1 DEF RuntimeTypeOK, Ring
    <3> QED BY <2>1, <3>1, <3>2 DEF RuntimeTypeOK
  <2>3. CASE r \notin DOMAIN watched
    <3>1. evaluators' \in [Bots -> Evaluator \cup {NoEvaluator}]
      <4>1. evaluators' = [s \in Bots |-> evaluators'[s]]
        BY <2>1, <2>3 DEF Watch
      <4> QED BY <2>1, <2>3, <4>1, WatchEvaluators
    <3>2. made' \in [Bots -> Seq(Nat)]
      <4>1. made' = [made EXCEPT ![r] = <<>>]
        BY <2>1, <2>3 DEF Watch
      <4>2. <<>> \in Seq(Nat)
        BY EmptySeq
      <4> QED BY <4>1, <4>2 DEF RuntimeTypeOK
    <3>3. EmptyRing(tick) \in Ring
      BY DEF EmptyRing, Ring, RuntimeTypeOK
    <3>4. \A s \in DOMAIN watched' : s \in Bots /\ watched'[s] \in Ring
      BY <2>1, <2>3, <3>3 DEF Watch, RuntimeTypeOK
    <3> QED BY <2>1, <3>1, <3>2, <3>4 DEF RuntimeTypeOK
  <2> QED BY <2>2, <2>3
<1>3. ASSUME NEW r \in Bots, NEW p \in Programs, InstallProgram(r, p) PROVE RuntimeTypeOK'
  <2>1. InstallId(p, r) \in ProgramId
    BY DEF InstallId, ProgramId
  <2>2. revision' \in [ProgramId -> Nat] /\ runs' \in [Bots -> ProgramId]
    BY <1>3, <2>1 DEF InstallProgram, RuntimeTypeOK
  <2>3. memory' \in [Bots -> Programs \cup {Wiped}]
    BY <1>3 DEF InstallProgram, RuntimeTypeOK
  <2> QED BY <1>3, <2>2, <2>3 DEF InstallProgram, RuntimeTypeOK
<1>4. CASE MatchOver
  BY <1>4 DEF MatchOver, RuntimeTypeOK
<1>5. CASE UNCHANGED runtimeVars
  BY <1>5 DEF runtimeVars, RuntimeTypeOK
<1> QED BY <1>1, <1>2, <1>3, <1>4, <1>5 DEF RuntimeNext

------------------------------------------------------------------------------
\* Memory.

LEMMA MemoryInvNext ==
  RuntimeTypeOK /\ MemoryInv /\ [RuntimeNext]_runtimeVars => MemoryInv'
<1> SUFFICES ASSUME RuntimeTypeOK, MemoryInv, [RuntimeNext]_runtimeVars,
                    NEW r \in Bots
             PROVE  /\ runs'[r].robot \in {Everyone, r}
                    /\ evaluators'[r] # NoEvaluator /\ memory'[r] # Wiped => Current(r)'
  BY DEF MemoryInv
<1>0. /\ runs[r].robot \in {Everyone, r} /\ runs[r] \in ProgramId
      /\ evaluators[r] # NoEvaluator /\ memory[r] # Wiped => Current(r)
  BY DEF MemoryInv, RuntimeTypeOK
<1>1. ASSUME NEW turns \in SUBSET alive, NEW lost \in SUBSET alive,
             NEW new \in NextIds(Bots \ built), NEW writing \in SUBSET turns,
             Step(turns, writing, lost, new)
      PROVE  /\ runs'[r].robot \in {Everyone, r}
             /\ evaluators'[r] # NoEvaluator /\ memory'[r] # Wiped => Current(r)'
  <2>1. runs' = runs /\ revision' = revision
    BY <1>1 DEF Step
  <2>2. CASE r \in lost
    BY <1>0, <1>1, <2>1, <2>2, StepEvaluators
  <2>3. CASE r \notin lost /\ r \in turns
    <3>1. /\ evaluators'[r] # NoEvaluator /\ evaluators'[r].id = runs[r]
          /\ evaluators'[r].revision = revision[runs[r]]
      BY <1>1, <2>3, StepEvaluators, EvaluatorFields
    <3> QED BY <1>0, <2>1, <3>1 DEF Current
  <2>4. CASE r \notin lost /\ r \notin turns
    <3>1. evaluators'[r] = evaluators[r]
      BY <1>1, <2>4, StepEvaluators
    <3>2. memory'[r] = memory[r]
      BY <1>1, <2>4 DEF Step
    <3> QED BY <1>0, <2>1, <3>1, <3>2 DEF Current
  <2> QED BY <2>2, <2>3, <2>4
<1>2. ASSUME NEW s \in Bots, TraceOf(s)
      PROVE  /\ runs'[r].robot \in {Everyone, r}
             /\ evaluators'[r] # NoEvaluator /\ memory'[r] # Wiped => Current(r)'
  <2>1. UNCHANGED <<runs, memory, revision>> /\ Watch(s)
    BY <1>2 DEF TraceOf
  <2>2. /\ evaluators'[r] = NoEvaluator <=> evaluators[r] = NoEvaluator
        /\ evaluators[r] # NoEvaluator =>
             evaluators'[r].id = evaluators[r].id /\ evaluators'[r].revision = evaluators[r].revision
    <3>1. CASE s \in DOMAIN watched
      BY <2>1, <3>1 DEF Watch
    <3>2. CASE s \notin DOMAIN watched
      BY <2>1, <3>2, WatchEvaluators
    <3> QED BY <3>1, <3>2
  <2> QED BY <1>0, <2>1, <2>2 DEF Current
<1>3. ASSUME NEW s \in Bots, NEW p \in Programs, InstallProgram(s, p)
      PROVE  /\ runs'[r].robot \in {Everyone, r}
             /\ evaluators'[r] # NoEvaluator /\ memory'[r] # Wiped => Current(r)'
  <2>1. /\ runs' = [runs EXCEPT ![s] = InstallId(p, s)]
        /\ revision' = [revision EXCEPT ![InstallId(p, s)] = @ + 1]
        /\ memory' = [memory EXCEPT ![s] = Wiped] /\ evaluators' = evaluators
    BY <1>3 DEF InstallProgram
  <2>2. InstallId(p, s).robot = s
    BY DEF InstallId
  <2>3. CASE r = s
    BY <2>1, <2>2, <2>3 DEF RuntimeTypeOK
  <2>4. CASE r # s
    <3>1. runs'[r] = runs[r] /\ memory'[r] = memory[r]
      BY <2>1, <2>4 DEF RuntimeTypeOK
    <3>2. runs[r] # InstallId(p, s)
      BY <1>0, <2>2, <2>4, RuntimeAssumption
    <3>3. revision'[runs[r]] = revision[runs[r]]
      BY <1>0, <2>1, <3>2 DEF RuntimeTypeOK
    <3> QED BY <1>0, <2>1, <3>1, <3>3 DEF Current
  <2> QED BY <2>3, <2>4
<1>4. CASE MatchOver
  BY <1>0, <1>4 DEF MatchOver, Current
<1>5. CASE UNCHANGED runtimeVars
  BY <1>0, <1>5 DEF runtimeVars, Current
<1> QED BY <1>1, <1>2, <1>3, <1>4, <1>5 DEF RuntimeNext

------------------------------------------------------------------------------
\* The watch.

\* Among some watched robots one is the oldest.
LEMMA OneIsOldest ==
  ASSUME RuntimeTypeOK, NEW S \in SUBSET DOMAIN watched, S # {}
  PROVE  \E r \in S : \A s \in S \ {r} :
           watched[r].seen < watched[s].seen \/ (watched[r].seen = watched[s].seen /\ r < s)
<1> DEFINE less == OpToRel(<, Nat)
<1>1. IsWellFoundedOn(less, Nat)
  BY NatLessThanWellFounded
<1>2. \A x, y \in Nat : <<y, x>> \in less <=> y < x
  BY DEF OpToRel
<1> HIDE DEF less
<1>3. ASSUME NEW T \in SUBSET Nat, T # {} PROVE \E x \in T : \A y \in T : ~(y < x)
  <2>1. PICK x \in T : \A y \in T : <<y, x>> \notin less
    BY <1>1, <1>3, WFMin
  <2> QED BY <1>2, <2>1
<1>4. \A s \in S : s \in Nat /\ watched[s].seen \in Nat
  BY RuntimeAssumption DEF RuntimeTypeOK, Ring
<1> DEFINE T == {watched[s].seen : s \in S}
<1>5. PICK x \in T : \A y \in T : ~(y < x)
  <2>1. T \in SUBSET Nat /\ T # {}
    BY <1>4
  <2> HIDE DEF T
  <2> QED BY <1>3, <2>1
<1> DEFINE U == {s \in S : watched[s].seen = x}
<1>6. PICK r \in U : \A s \in U : ~(s < r)
  <2>1. U \in SUBSET Nat /\ U # {}
    BY <1>4, <1>5
  <2> HIDE DEF U
  <2> QED BY <1>3, <2>1
<1>7. ASSUME NEW s \in S \ {r}
      PROVE  watched[r].seen < watched[s].seen \/ (watched[r].seen = watched[s].seen /\ r < s)
  BY <1>4, <1>5, <1>6
<1> QED BY <1>6, <1>7

LEMMA EvictedMakesRoom ==
  ASSUME RuntimeTypeOK, Cardinality(DOMAIN watched) <= MaxWatched, NEW now \in Nat
  PROVE  /\ Evicted(now) \subseteq DOMAIN watched
         /\ IsFiniteSet(DOMAIN watched)
         /\ Cardinality(DOMAIN watched \ Evicted(now)) < MaxWatched
<1> DEFINE D == DOMAIN watched
           idle == {r \in D : WatchIdle(watched[r], now)}
           left == D \ idle
           oldest == {r \in left : \A s \in left \ {r} :
                        \/ watched[r].seen < watched[s].seen
                        \/ watched[r].seen = watched[s].seen /\ r < s}
<1>1. IsFiniteSet(D)
  BY RuntimeAssumption, FS_Subset DEF RuntimeTypeOK
<1>2. IsFiniteSet(left) /\ Cardinality(left) <= Cardinality(D)
  BY <1>1, FS_Subset
<1>3. Evicted(now) = IF Cardinality(left) < MaxWatched THEN idle ELSE idle \cup oldest
  BY DEF Evicted
<1>4. CASE Cardinality(left) < MaxWatched
  <2>1. D \ Evicted(now) = left
    BY <1>3, <1>4
  <2> QED BY <1>1, <1>3, <1>4, <2>1
<1>5. CASE ~(Cardinality(left) < MaxWatched)
  <2>1. Cardinality(left) \in Nat /\ MaxWatched \in Nat \ {0}
    BY <1>2, FS_CardinalityType, RuntimeAssumption
  <2>2. left # {}
    BY <1>5, <2>1, FS_EmptySet
  <2>3. PICK r \in left : r \in oldest
    <3>1. left \in SUBSET DOMAIN watched
      OBVIOUS
    <3>2. \E r \in left : \A s \in left \ {r} :
             watched[r].seen < watched[s].seen \/ (watched[r].seen = watched[s].seen /\ r < s)
      <4> HIDE DEF left
      <4> QED BY <2>2, <3>1, OneIsOldest
    <3> QED BY <3>2
  <2>4. D \ Evicted(now) \subseteq left \ {r}
    BY <1>3, <1>5, <2>3
  <2> HIDE DEF left, oldest
  <2>5. IsFiniteSet(left \ {r}) /\ Cardinality(left \ {r}) = Cardinality(left) - 1
    BY <1>2, <2>3, FS_RemoveElement
  <2>6. Cardinality(D \ Evicted(now)) <= Cardinality(left) - 1
    BY <2>4, <2>5, FS_Subset
  <2>7. Cardinality(D) \in Nat /\ Cardinality(D \ Evicted(now)) \in Nat
    BY <1>1, FS_CardinalityType, FS_Subset
  <2>8. Cardinality(D \ Evicted(now)) < MaxWatched
    BY <1>2, <2>1, <2>6, <2>7
  <2> QED BY <1>1, <1>3, <1>5, <2>8 DEF oldest, left
<1> QED BY <1>4, <1>5

\* Two numbers less than a ring apart have places of their own in it.
LEMMA PlacesApart ==
  ASSUME NEW N \in Nat \ {0}, NEW a \in Nat, NEW b \in Nat, a < b, b < a + N
  PROVE  a % N # b % N
<1>1. SUFFICES ASSUME a % N = b % N PROVE FALSE
  OBVIOUS
<1>2. /\ a = N * (a \div N) + (a % N) /\ b = N * (b \div N) + (b % N)
      /\ a \div N \in Int /\ b \div N \in Int
  OBVIOUS
<1> DEFINE k == (b \div N) - (a \div N)
<1>3. k \in Int /\ b - a = N * k
  <2>1. N * k = N * (b \div N) - N * (a \div N)
    BY <1>2
  <2> QED BY <1>1, <1>2, <2>1
<1> HIDE DEF k
<1>4. CASE k <= 0
  <2>1. N * k <= 0
    BY <1>3, <1>4
  <2> QED BY <1>3, <2>1
<1>5. CASE k >= 1
  <2>1. N * k >= N
    BY <1>3, <1>5
  <2> QED BY <1>3, <2>1
<1> QED BY <1>3, <1>4, <1>5

\* A decision filed.
LEMMA FiledInTheRing ==
  ASSUME RuntimeTypeOK, NEW r \in DOMAIN watched, RingInv(r)
  PROVE  LET h == RingAdd(watched[r], tick)
             m == Append(made[r], tick) IN
         /\ h.n = Len(m) /\ Len(m) > 0 /\ m[Len(m)] = tick
         /\ \A j \in 0..(Len(m) - 1) :
              Len(m) <= j + HistoryTicks => h.buf[j % HistoryTicks] = m[j + 1]
<1> DEFINE h == RingAdd(watched[r], tick)
           m == Append(made[r], tick)
           n == Len(made[r])
           N == HistoryTicks
<1>0. /\ watched[r] \in Ring /\ made[r] \in Seq(Nat) /\ tick \in Nat /\ N \in Nat \ {0}
      /\ watched[r].n = n /\ n \in Nat
  BY LenProperties, RuntimeAssumption DEF RuntimeTypeOK, RingInv
<1>1. h.n = n + 1 /\ h.buf = [watched[r].buf EXCEPT ![n % N] = tick]
  BY <1>0, RingAddType
<1>2. /\ Len(m) = n + 1 /\ m[n + 1] = tick
      /\ \A i \in 1..n : m[i] = made[r][i]
  BY <1>0, AppendProperties
<1>3. watched[r].buf \in [0..(N - 1) -> Nat]
  BY <1>0 DEF Ring
<1>4. \A j \in 0..(n - 1) : n <= j + N => watched[r].buf[j % N] = made[r][j + 1]
  BY DEF RingInv
<1> HIDE DEF h, m, n, N
<1>5. ASSUME NEW j \in 0..n, n + 1 <= j + N PROVE h.buf[j % N] = m[j + 1]
  <2>1. j \in Nat /\ n % N \in 0..(N - 1) /\ j % N \in 0..(N - 1)
    BY <1>0
  <2>2. CASE j = n
    BY <1>1, <1>2, <1>3, <2>1, <2>2
  <2>3. CASE j # n
    <3>1. j < n /\ n < j + N /\ j \in 0..(n - 1) /\ j + 1 \in 1..n
      BY <1>0, <1>5, <2>1, <2>3
    <3>2. j % N # n % N
      BY <1>0, <2>1, <3>1, PlacesApart
    <3>3. h.buf[j % N] = watched[r].buf[j % N]
      BY <1>1, <1>3, <2>1, <3>2
    <3>4. watched[r].buf[j % N] = made[r][j + 1]
      <4>1. n <= j + N
        BY <1>0, <2>1, <3>1
      <4> QED BY <1>4, <3>1, <4>1
    <3> QED BY <1>2, <3>1, <3>3, <3>4
  <2> QED BY <2>2, <2>3
<1>6. \A j \in 0..(Len(m) - 1) : Len(m) <= j + N => h.buf[j % N] = m[j + 1]
  <2>1. Len(m) - 1 = n
    BY <1>0, <1>2
  <2> QED BY <1>2, <1>5, <2>1
<1>7. h.n = Len(m) /\ Len(m) > 0 /\ m[Len(m)] = tick
  BY <1>0, <1>1, <1>2
<1> QED BY <1>6, <1>7 DEF h, m, N

LEMMA WatchInvNext ==
  RuntimeTypeOK /\ WatchInv /\ [RuntimeNext]_runtimeVars => WatchInv'
<1> SUFFICES ASSUME RuntimeTypeOK, WatchInv, [RuntimeNext]_runtimeVars PROVE WatchInv'
  OBVIOUS
<1>0. /\ IsFiniteSet(DOMAIN watched) /\ Cardinality(DOMAIN watched) \in Nat
      /\ MaxWatched \in Nat \ {0} /\ tick \in Nat
      /\ Cardinality(DOMAIN watched) <= MaxWatched
  BY RuntimeAssumption, FS_Subset, FS_CardinalityType DEF RuntimeTypeOK, WatchInv
<1>1. ASSUME NEW turns \in SUBSET alive, NEW lost \in SUBSET alive,
             NEW new \in NextIds(Bots \ built), NEW writing \in SUBSET turns,
             Step(turns, writing, lost, new)
      PROVE  WatchInv'
  <2>1. DOMAIN watched' = DOMAIN watched \ lost
    BY <1>1 DEF Step
  <2>2. Cardinality(DOMAIN watched') <= MaxWatched
    <3>1. /\ DOMAIN watched' \subseteq DOMAIN watched
          /\ Cardinality(DOMAIN watched') <= Cardinality(DOMAIN watched)
          /\ Cardinality(DOMAIN watched') \in Nat
      BY <1>0, <2>1, FS_Subset, FS_CardinalityType
    <3> QED BY <1>0, <3>1
  <2>3. ASSUME NEW r \in DOMAIN watched' PROVE RingInv(r)'
    <3>0. r \in DOMAIN watched /\ r \in Bots /\ r \notin lost /\ RingInv(r)
      BY <2>1, <2>3 DEF RuntimeTypeOK, WatchInv
    <3>1. CASE r \in turns
      <4>1. watched'[r] = RingAdd(watched[r], tick) /\ made'[r] = Append(made[r], tick)
        BY <1>1, <3>0, <3>1, ThinkingFields DEF Step
      <4>2. evaluators'[r].explain = tick
        BY <1>1, <3>0, <3>1, StepEvaluators
      <4>3. /\ watched'[r].n = Len(made'[r]) /\ Len(made'[r]) > 0
            /\ made'[r][Len(made'[r])] = tick
            /\ \A j \in 0..(Len(made'[r]) - 1) : Len(made'[r]) <= j + HistoryTicks =>
                 watched'[r].buf[j % HistoryTicks] = made'[r][j + 1]
        BY <3>0, <4>1, FiledInTheRing
      <4> QED BY <4>2, <4>3 DEF RingInv
    <3>2. CASE r \notin turns
      <4>1. watched'[r] = watched[r] /\ made'[r] = made[r]
        BY <1>1, <3>0, <3>2 DEF Step
      <4>2. evaluators'[r] = evaluators[r]
        BY <1>1, <3>0, <3>2, StepEvaluators
      <4> QED BY <3>0, <4>1, <4>2 DEF RingInv
    <3> QED BY <3>1, <3>2
  <2>4. ASSUME NEW r \in Bots \ DOMAIN watched', evaluators'[r] # NoEvaluator
        PROVE  evaluators'[r].explain = NoTable
    <3>1. r \notin lost /\ r \notin DOMAIN watched
      BY <1>1, <2>1, <2>4, StepEvaluators
    <3>2. evaluators[r] # NoEvaluator => evaluators[r].explain = NoTable
      BY <3>1 DEF WatchInv
    <3> QED BY <1>1, <2>4, <3>1, <3>2, StepEvaluators DEF Current
  <2> QED BY <2>2, <2>3, <2>4 DEF WatchInv
<1>2. ASSUME NEW r \in Bots, TraceOf(r) PROVE WatchInv'
  <2>0. Watch(r)
    BY <1>2 DEF TraceOf
  <2>1. CASE r \in DOMAIN watched
    <3>1. /\ watched' = [watched EXCEPT ![r].seen = tick]
          /\ UNCHANGED <<evaluators, made>>
      BY <2>0, <2>1 DEF Watch
    <3>2. DOMAIN watched' = DOMAIN watched
      BY <3>1
    <3>3. \A s \in DOMAIN watched : watched'[s].n = watched[s].n /\ watched'[s].buf = watched[s].buf
      BY <3>1 DEF RuntimeTypeOK, Ring
    <3>4. \A s \in DOMAIN watched' : RingInv(s)'
      BY <3>1, <3>2, <3>3 DEF WatchInv, RingInv
    <3> QED BY <3>1, <3>2, <3>4 DEF WatchInv
  <2>2. CASE r \notin DOMAIN watched
    <3> DEFINE out == Evicted(tick)
    <3>1. /\ watched' = [s \in (DOMAIN watched \ out) \cup {r} |->
                           IF s = r THEN EmptyRing(tick) ELSE watched[s]]
          /\ made' = [made EXCEPT ![r] = <<>>]
      BY <2>0, <2>2 DEF Watch
    <3>2. out \subseteq DOMAIN watched /\ Cardinality(DOMAIN watched \ out) < MaxWatched
      BY <1>0, EvictedMakesRoom
    <3> HIDE DEF out
    <3>3. DOMAIN watched' = (DOMAIN watched \ out) \cup {r}
      BY <3>1
    <3>4. Cardinality(DOMAIN watched') <= MaxWatched
      <4>1. IsFiniteSet(DOMAIN watched \ out) /\ Cardinality(DOMAIN watched \ out) \in Nat
        BY <1>0, FS_Subset, FS_CardinalityType
      <4>2. Cardinality(DOMAIN watched') = Cardinality(DOMAIN watched \ out) + 1
        BY <2>2, <3>3, <4>1, FS_AddElement
      <4> QED BY <1>0, <3>2, <4>1, <4>2
    <3>5. RingInv(r)'
      <4>1. watched'[r] = EmptyRing(tick) /\ made'[r] = <<>>
        BY <3>1 DEF RuntimeTypeOK
      <4>2. watched'[r].n = 0 /\ Len(made'[r]) = 0 /\ 0..(Len(made'[r]) - 1) = {}
        BY <4>1, EmptySeq DEF EmptyRing
      <4>3. evaluators'[r] # NoEvaluator => evaluators'[r].explain = NoTable
        BY <2>0, <2>2, WatchEvaluators DEF WatchInv
      <4> QED BY <4>2, <4>3 DEF RingInv
    <3>6. ASSUME NEW s \in DOMAIN watched \ out PROVE RingInv(s)'
      <4>1. s # r /\ s \in Bots /\ watched'[s] = watched[s] /\ made'[s] = made[s]
        BY <2>2, <3>1, <3>6 DEF RuntimeTypeOK
      <4>2. /\ evaluators'[s] = NoEvaluator <=> evaluators[s] = NoEvaluator
            /\ evaluators[s] # NoEvaluator => evaluators'[s].explain = evaluators[s].explain
        BY <2>0, <2>2, <4>1, <3>6, WatchEvaluators DEF out
      <4> QED BY <4>1, <4>2 DEF WatchInv, RingInv
    <3>7. ASSUME NEW s \in Bots \ DOMAIN watched', evaluators'[s] # NoEvaluator
          PROVE  evaluators'[s].explain = NoTable
      <4>1. s # r /\ (s \in out \/ s \notin DOMAIN watched)
        BY <3>3, <3>7
      <4> QED BY <2>0, <2>2, <3>7, <4>1, WatchEvaluators DEF WatchInv, out
    <3> QED BY <3>3, <3>4, <3>5, <3>6, <3>7 DEF WatchInv
  <2> QED BY <2>1, <2>2
<1>3. ASSUME NEW r \in Bots, NEW p \in Programs, InstallProgram(r, p) PROVE WatchInv'
  BY <1>3 DEF InstallProgram, WatchInv, RingInv
<1>4. CASE MatchOver
  BY <1>4 DEF MatchOver, WatchInv, RingInv
<1>5. CASE UNCHANGED runtimeVars
  BY <1>5 DEF runtimeVars, WatchInv, RingInv
<1> QED BY <1>1, <1>2, <1>3, <1>4, <1>5 DEF RuntimeNext

LEMMA RuntimeInvInit == RuntimeInit => RuntimeInv
<1> SUFFICES ASSUME RuntimeInit PROVE RuntimeInv
  OBVIOUS
<1>1. DOMAIN watched = {} /\ Cardinality({}) = 0 /\ <<>> \in Seq(Nat)
  BY EmptySeq, LenProperties, FS_EmptySet DEF RuntimeInit
<1>2. RuntimeTypeOK
  <2>1. runs \in [Bots -> ProgramId]
    BY DEF RuntimeInit, OfColony, ProgramId
  <2>2. alive \subseteq built /\ built \subseteq Bots
    BY DEF RuntimeInit, NextIds
  <2> QED BY <1>1, <2>1, <2>2 DEF RuntimeInit, RuntimeTypeOK
<1>3. MemoryInv
  BY DEF RuntimeInit, MemoryInv, OfColony
<1>4. WatchInv
  BY <1>1, RuntimeAssumption DEF RuntimeInit, WatchInv
<1> QED BY <1>2, <1>3, <1>4 DEF RuntimeInv

\* A robot's memory belongs to the rules it runs, its ring and its explanation to what it
\* decided, and there are no more rings than there may be.
THEOREM RuntimeInvariance == RuntimeSpec => []RuntimeInv
<1>1. RuntimeInv /\ [RuntimeNext]_runtimeVars => RuntimeInv'
  BY RuntimeTypeNext, MemoryInvNext, WatchInvNext DEF RuntimeInv
<1> QED BY <1>1, RuntimeInvInit, PTL DEF RuntimeSpec

\* The evaluators, rings and memories are what their types say.
THEOREM RuntimeTypeCorrect == RuntimeSpec => []RuntimeTypeOK
<1>1. RuntimeInv => RuntimeTypeOK
  BY DEF RuntimeInv
<1> QED BY <1>1, RuntimeInvariance, PTL

\* The answer to a poll that holds what was decided up to after.
Later(s, after) == SelectSeq(s, LAMBDA t : t > after)

\* A poll is answered with what the robot did after the tick it asks from, in order, and
\* with nothing missing of what the ring has room for (history.go since, trace.go TraceOf).
THEOREM ThePollIsTruthful == RuntimeSpec => []RingIsTheDecisions
<1>1. RuntimeInv => RingIsTheDecisions
  <2> SUFFICES ASSUME RuntimeInv, NEW r \in DOMAIN watched
               PROVE  /\ Retained(watched[r]) = LastMade(r)
                      /\ (evaluators[r] # NoEvaluator /\ Explained(r)) =>
                           /\ made[r] # <<>>
                           /\ evaluators[r].explain = made[r][Len(made[r])]
    <3>1. \A h, after : Since(h, after) = Later(Retained(h), after)
      BY DEF Since, Later
    <3>2. \A s, after : SelectSeq(s, LAMBDA t : t > after) = Later(s, after)
      BY DEF Later
    <3> QED BY <3>1, <3>2 DEF RingIsTheDecisions
  <2> DEFINE n == Len(made[r])
             kept == IF n > HistoryTicks THEN HistoryTicks ELSE n
             first == IF n > HistoryTicks THEN n - HistoryTicks ELSE 0
  <2>1. /\ made[r] \in Seq(Nat) /\ n \in Nat /\ HistoryTicks \in Nat \ {0} /\ RingInv(r)
        /\ \A i \in 1..n : made[r][i] \in Nat
    BY LenProperties, ElementOfSeq, RuntimeAssumption
       DEF RuntimeInv, RuntimeTypeOK, WatchInv
  <2>2. first \in Nat /\ first <= n /\ n - kept + 1 = first + 1 /\ n <= first + HistoryTicks
    BY <2>1
  <2>3. Retained(watched[r]) =
          [i \in 1..(n - first) |-> watched[r].buf[(first + i - 1) % HistoryTicks]]
    BY <2>1 DEF RingInv, Retained
  <2> HIDE DEF n, kept, first
  <2>4. ASSUME NEW i \in 1..(n - first)
        PROVE  watched[r].buf[(first + i - 1) % HistoryTicks] = made[r][first + i]
    <3> DEFINE j == first + i - 1
    <3>1. j \in 0..(n - 1) /\ n <= j + HistoryTicks /\ j + 1 = first + i
      BY <2>1, <2>2
    <3> HIDE DEF j
    <3>2. watched[r].buf[j % HistoryTicks] = made[r][j + 1]
      BY <2>1, <3>1 DEF RingInv, n
    <3> QED BY <3>1, <3>2 DEF j
  <2>5. /\ SubSeq(made[r], first + 1, n) \in Seq(Nat)
        /\ Len(SubSeq(made[r], first + 1, n)) = n - first
        /\ \A i \in 1..(n - first) : SubSeq(made[r], first + 1, n)[i] = made[r][first + i]
    <3>1. \A i \in (first + 1)..n : made[r][i] \in Nat
      BY <2>1, <2>2
    <3>2. first + 1 \in Int /\ n \in Int
      BY <2>1, <2>2
    <3>3. /\ SubSeq(made[r], first + 1, n) \in Seq(Nat)
          /\ Len(SubSeq(made[r], first + 1, n)) =
               IF first + 1 <= n THEN n - (first + 1) + 1 ELSE 0
          /\ \A i \in 1..(n - (first + 1) + 1) :
               SubSeq(made[r], first + 1, n)[i] = made[r][first + 1 + i - 1]
      BY <3>1, <3>2, SubSeqProperties
    <3>4. n - (first + 1) + 1 = n - first
      BY <2>1, <2>2
    <3>5. \A i \in 1..(n - first) : first + 1 + i - 1 = first + i
      BY <2>1, <2>2
    <3> QED BY <2>1, <2>2, <3>3, <3>4, <3>5
  <2>6. SubSeq(made[r], first + 1, n) =
          [i \in 1..(n - first) |-> SubSeq(made[r], first + 1, n)[i]]
    BY <2>5, LenProperties
  <2>7. Retained(watched[r]) = SubSeq(made[r], n - kept + 1, n)
    BY <2>2, <2>3, <2>4, <2>5, <2>6
  <2>8. (evaluators[r] # NoEvaluator /\ Explained(r)) =>
          n > 0 /\ evaluators[r].explain = made[r][n]
    BY <2>1 DEF RingInv, Explained, n
  <2>9. n > 0 => made[r] # <<>>
    BY DEF n
  <2> QED BY <2>7, <2>8, <2>9 DEF n, kept, LastMade
<1> QED BY <1>1, RuntimeInvariance, PTL

\* No tick reprograms a robot or wipes what it remembers, and an install does so to one.
THEOREM ColonyMatesAreLeftAlone == RuntimeSpec => FieldUntouched
<1> DEFINE Touched == {r \in alive \cap alive' : \/ runs'[r] # runs[r]
                                                 \/ memory[r] # Wiped /\ memory'[r] = Wiped}
           Untouched == /\ tick' # tick => Touched = {}
                        /\ \A r, s \in Touched : r = s
<1>1. RuntimeInv /\ [RuntimeNext]_runtimeVars => [Untouched]_runtimeVars
  <2> SUFFICES ASSUME RuntimeInv, RuntimeNext PROVE Untouched
    OBVIOUS
  <2>0. RuntimeTypeOK /\ MemoryInv /\ alive \subseteq Bots
    BY DEF RuntimeInv, RuntimeTypeOK
  <2>1. ASSUME NEW turns \in SUBSET alive, NEW lost \in SUBSET alive,
               NEW new \in NextIds(Bots \ built), NEW writing \in SUBSET turns,
               Step(turns, writing, lost, new)
        PROVE  Touched = {}
    <3> SUFFICES ASSUME NEW r \in alive \cap alive'
                 PROVE  runs'[r] = runs[r] /\ (memory[r] # Wiped => memory'[r] # Wiped)
      OBVIOUS
    <3>1. r \in Bots /\ r \notin lost
      BY <2>0, <2>1 DEF Step, NextIds, RuntimeTypeOK
    <3>2. memory'[r] = IF r \in writing THEN runs[r].program
                       ELSE IF r \in turns THEN Remembered(r) ELSE memory[r]
      BY <2>1, <3>1 DEF Step
    <3>3. runs[r].program # Wiped
      BY <2>0, <3>1, RuntimeAssumption DEF RuntimeTypeOK, ProgramId
    <3>4. memory[r] # Wiped => Remembered(r) = memory[r]
      BY <2>0, <3>1 DEF MemoryInv, Remembered
    <3> QED BY <2>1, <3>2, <3>3, <3>4 DEF Step
  <2>2. ASSUME NEW r \in Bots, NEW p \in Programs, InstallProgram(r, p) PROVE Untouched
    <3>1. tick' = tick
      BY <2>2 DEF InstallProgram
    <3>2. \A s \in Touched : s = r
      BY <2>0, <2>2 DEF InstallProgram, RuntimeTypeOK
    <3> QED BY <3>1, <3>2
  <2>3. ASSUME NEW r \in Bots, TraceOf(r) PROVE Untouched
    BY <2>3 DEF TraceOf
  <2>4. CASE MatchOver
    BY <2>4 DEF MatchOver
  <2> HIDE DEF Touched
  <2> QED BY <2>1, <2>2, <2>3, <2>4 DEF RuntimeNext
<1>2. [Untouched]_runtimeVars =>
        [LET T == {r \in alive \cap alive' : \/ runs'[r] # runs[r]
                                             \/ memory[r] # Wiped /\ memory'[r] = Wiped} IN
         /\ tick' # tick => T = {}
         /\ \A r, s \in T : r = s]_runtimeVars
  OBVIOUS
<1> QED BY <1>1, <1>2, RuntimeInvariance, PTL DEF RuntimeSpec, FieldUntouched

\* There are no more watches than there may be, and the one taken from a live robot is
\* idle or the oldest.
THEOREM TheFreshWatchIsKept == RuntimeSpec => WatchKeepsTheFresh
<1> DEFINE Kept == \A r \in (DOMAIN watched \cap alive') \ DOMAIN watched' :
                     \/ tick > WatchIdleTicks /\ watched[r].seen < tick - WatchIdleTicks
                     \/ /\ Cardinality(DOMAIN watched) >= MaxWatched
                        /\ \A s \in DOMAIN watched \cap DOMAIN watched' :
                             watched[s].seen >= watched[r].seen
<1>1. RuntimeInv /\ [RuntimeNext]_runtimeVars =>
        [Cardinality(DOMAIN watched') <= MaxWatched /\ Kept]_runtimeVars
  <2> SUFFICES ASSUME RuntimeInv, RuntimeNext
               PROVE  Cardinality(DOMAIN watched') <= MaxWatched /\ Kept
    OBVIOUS
  <2>0. RuntimeTypeOK /\ Cardinality(DOMAIN watched) <= MaxWatched
    BY DEF RuntimeInv, WatchInv
  <2>1. Cardinality(DOMAIN watched') <= MaxWatched
    BY WatchInvNext DEF RuntimeInv, WatchInv
  <2>2. ASSUME NEW turns \in SUBSET alive, NEW lost \in SUBSET alive,
               NEW new \in NextIds(Bots \ built), NEW writing \in SUBSET turns,
               Step(turns, writing, lost, new)
        PROVE  Kept
    BY <2>0, <2>2 DEF Step, NextIds, RuntimeTypeOK
  <2>3. ASSUME NEW q \in Bots, TraceOf(q) PROVE Kept
    <3>0. Watch(q)
      BY <2>3 DEF TraceOf
    <3>1. CASE q \in DOMAIN watched
      BY <3>0, <3>1 DEF Watch
    <3>2. CASE q \notin DOMAIN watched
      <4> DEFINE idle == {r \in DOMAIN watched : WatchIdle(watched[r], tick)}
                 left == DOMAIN watched \ idle
      <4>1. DOMAIN watched' = (DOMAIN watched \ Evicted(tick)) \cup {q}
        BY <3>0, <3>2 DEF Watch
      <4>2. /\ tick \in Nat /\ WatchIdleTicks \in Nat
            /\ \A s \in DOMAIN watched : watched[s].seen \in Nat
        BY <2>0, RuntimeAssumption DEF RuntimeTypeOK, Ring
      <4>3. ASSUME NEW r \in DOMAIN watched, r \notin DOMAIN watched'
            PROVE  \/ tick > WatchIdleTicks /\ watched[r].seen < tick - WatchIdleTicks
                   \/ /\ Cardinality(DOMAIN watched) >= MaxWatched
                      /\ \A s \in DOMAIN watched \cap DOMAIN watched' :
                           watched[s].seen >= watched[r].seen
        <5>1. r \in Evicted(tick)
          BY <4>1, <4>3
        <5>2. CASE r \in idle
          BY <4>2, <5>2 DEF WatchIdle
        <5>3. CASE r \notin idle
          <6>1. /\ ~(Cardinality(left) < MaxWatched) /\ r \in left
                /\ \A s \in left \ {r} :
                     \/ watched[r].seen < watched[s].seen
                     \/ watched[r].seen = watched[s].seen /\ r < s
                /\ idle \subseteq Evicted(tick)
            BY <5>1, <5>3 DEF Evicted
          <6>2. Cardinality(DOMAIN watched) >= MaxWatched
            <7>1. IsFiniteSet(DOMAIN watched) /\ left \subseteq DOMAIN watched
              BY <2>0, RuntimeAssumption, FS_Subset DEF RuntimeTypeOK
            <7> HIDE DEF left, idle
            <7>2. /\ Cardinality(left) <= Cardinality(DOMAIN watched)
                  /\ Cardinality(left) \in Nat /\ Cardinality(DOMAIN watched) \in Nat
              BY <7>1, FS_Subset, FS_CardinalityType
            <7> QED BY <6>1, <7>2, RuntimeAssumption
          <6>3. ASSUME NEW s \in DOMAIN watched \cap DOMAIN watched'
                PROVE  watched[s].seen >= watched[r].seen
            <7>1. s \in left /\ s # r
              BY <3>2, <4>1, <4>3, <6>1
            <7> HIDE DEF left, idle
            <7> QED BY <4>2, <6>1, <7>1
          <6> QED BY <6>2, <6>3
        <5> QED BY <5>2, <5>3
      <4> QED BY <4>3
    <3> QED BY <3>1, <3>2
  <2>4. ASSUME NEW r \in Bots, NEW p \in Programs, InstallProgram(r, p) PROVE Kept
    BY <2>4 DEF InstallProgram
  <2>5. CASE MatchOver
    BY <2>1, <2>5 DEF MatchOver
  <2> HIDE DEF Kept
  <2>6. Kept
    BY <2>2, <2>3, <2>4, <2>5 DEF RuntimeNext
  <2> QED BY <2>1, <2>6
<1> QED BY <1>1, RuntimeInvariance, PTL DEF RuntimeSpec, WatchKeepsTheFresh

------------------------------------------------------------------------------
(* The openings. *)

\* What every component of the catalogue is worth.
LEMMA WorthIs ==
  /\ IsFiniteSet(Catalogue)
  /\ \A v \in Catalogue : Worth[v] \in Nat
  /\ {"tracks", "mediumArmor", "manipulator", "partsRadar"} \subseteq Catalogue
  /\ Worth["tracks"] = 6 /\ Worth["mediumArmor"] = 8 /\ Worth["manipulator"] = 4
  /\ Worth["partsRadar"] = 5 /\ \A v \in Catalogue : Worth[v] >= 4
<1>1. Catalogue = {"tracks", "legs", "antigrav", "lightArmor", "mediumArmor", "heavyArmor",
                   "manipulator", "partsRadar", "enemyRadar", "baseRadar", "laser", "cannon",
                   "autoGun"}
  BY DEF Catalogue, Worth
<1>2. \A v \in Catalogue : Worth[v] \in Nat /\ Worth[v] >= 4
  BY <1>1 DEF Worth
<1>3. IsFiniteSet(Catalogue)
  <2> DEFINE A(x) == {x}
  <2>1. \A x : IsFiniteSet({x})
    BY FS_Singleton
  <2>2. \A S, T : IsFiniteSet(S) /\ IsFiniteSet(T) => IsFiniteSet(S \cup T)
    BY FS_Union
  <2>3. /\ IsFiniteSet({"tracks"} \cup {"legs"}) /\ IsFiniteSet({"antigrav"} \cup {"lightArmor"})
        /\ IsFiniteSet({"mediumArmor"} \cup {"heavyArmor"})
        /\ IsFiniteSet({"manipulator"} \cup {"partsRadar"})
        /\ IsFiniteSet({"enemyRadar"} \cup {"baseRadar"}) /\ IsFiniteSet({"laser"} \cup {"cannon"})
        /\ IsFiniteSet({"autoGun"})
    BY <2>1, <2>2
  <2> DEFINE s1 == {"tracks"} \cup {"legs"}
             s2 == {"antigrav"} \cup {"lightArmor"}
             s3 == {"mediumArmor"} \cup {"heavyArmor"}
             s4 == {"manipulator"} \cup {"partsRadar"}
             s5 == {"enemyRadar"} \cup {"baseRadar"}
             s6 == {"laser"} \cup {"cannon"}
             s7 == {"autoGun"}
  <2>4. Catalogue = ((s1 \cup s2) \cup (s3 \cup s4)) \cup ((s5 \cup s6) \cup s7)
    BY <1>1
  <2>5. /\ IsFiniteSet(s1) /\ IsFiniteSet(s2) /\ IsFiniteSet(s3) /\ IsFiniteSet(s4)
        /\ IsFiniteSet(s5) /\ IsFiniteSet(s6) /\ IsFiniteSet(s7)
    BY <2>3
  <2> HIDE DEF s1, s2, s3, s4, s5, s6, s7
  <2>6. IsFiniteSet(s1 \cup s2) /\ IsFiniteSet(s3 \cup s4) /\ IsFiniteSet(s5 \cup s6)
    BY <2>2, <2>5
  <2>7. IsFiniteSet((s1 \cup s2) \cup (s3 \cup s4)) /\ IsFiniteSet((s5 \cup s6) \cup s7)
    BY <2>2, <2>5, <2>6
  <2> QED BY <2>2, <2>4, <2>7
<1>4. /\ Worth["tracks"] = 6 /\ Worth["mediumArmor"] = 8 /\ Worth["manipulator"] = 4
      /\ Worth["partsRadar"] = 5
  BY DEF Worth
<1> QED BY <1>1, <1>2, <1>3, <1>4

\* A body is worth a number, and the starter kit's is what the least budget buys.
LEMMA PriceIs ==
  /\ \A body \in Blueprint : Price(body) \in Nat
  /\ Scavenger \in Blueprint /\ Price(Scavenger) = MinStartingBudget
<1>1. ASSUME NEW body \in Blueprint PROVE Price(body) \in Nat
  <2>1. Len(body) \in Nat /\ DOMAIN body = 1..Len(body) /\ \A i \in 1..Len(body) : body[i] \in Catalogue
    BY LenProperties, ElementOfSeq DEF Blueprint
  <2> DEFINE n == Len(body)
             f == [i \in 1..n |-> Worth[body[i]]]
  <2>2. Price(body) = SumFunctionOnSet(f, 1..n) /\ \A i \in 1..n : f[i] \in Nat
    <3>1. DOMAIN f = 1..n /\ f = [i \in DOMAIN body |-> Worth[body[i]]]
      BY <2>1
    <3>2. \A i \in 1..n : f[i] \in Nat
      BY <2>1, WorthIs
    <3> HIDE DEF f
    <3> QED BY <3>1, <3>2 DEF Price, SumFunction
  <2> HIDE DEF f
  <2>3. IsFiniteSet(1..n)
    BY <2>1, FS_Interval
  <2> QED BY <2>2, <2>3, SumNat
<1> DEFINE b == Scavenger
           w == [i \in DOMAIN b |-> Worth[b[i]]]
<1>2. /\ b \in Blueprint /\ DOMAIN b = 1..4
      /\ b[1] = "tracks" /\ b[2] = "mediumArmor" /\ b[3] = "manipulator" /\ b[4] = "partsRadar"
  <2> DEFINE x == <<"tracks", "mediumArmor">>
             y == <<"manipulator", "partsRadar">>
  <2>1. b = x \o y
    BY DEF Scavenger, Canonical
  <2>2. x[1] = "tracks" /\ x[2] = "mediumArmor" /\ y[1] = "manipulator" /\ y[2] = "partsRadar"
    OBVIOUS
  <2>3. x \in Seq(Catalogue) /\ y \in Seq(Catalogue) /\ Len(x) = 2 /\ Len(y) = 2
    BY WorthIs
  <2> HIDE DEF x, y, b
  <2>4. /\ b \in Seq(Catalogue) /\ Len(b) = 4
        /\ \A i \in 1..4 : b[i] = IF i <= 2 THEN x[i] ELSE y[i - 2]
    <3>1. /\ x \o y \in Seq(Catalogue) /\ Len(x \o y) = Len(x) + Len(y)
          /\ \A i \in 1..Len(x) + Len(y) :
               (x \o y)[i] = IF i <= Len(x) THEN x[i] ELSE y[i - Len(x)]
      BY ONLY <2>3, ConcatProperties
    <3>2. Len(x) + Len(y) = 4
      BY ONLY <2>3
    <3> QED BY ONLY <2>1, <2>3, <3>1, <3>2
  <2>5. b[1] = x[1] /\ b[2] = x[2] /\ b[3] = y[1] /\ b[4] = y[2]
    <3>1. /\ 1 \in 1..4 /\ 2 \in 1..4 /\ 3 \in 1..4 /\ 4 \in 1..4
          /\ 1 <= 2 /\ 2 <= 2 /\ ~(3 <= 2) /\ ~(4 <= 2) /\ 3 - 2 = 1 /\ 4 - 2 = 2
      OBVIOUS
    <3> QED BY ONLY <2>4, <3>1
  <2>6. DOMAIN b = 1..4
    BY ONLY <2>4, LenProperties
  <2> QED BY <2>2, <2>4, <2>5, <2>6 DEF Blueprint
<1>3. DOMAIN w = 1..4 /\ w[1] = 6 /\ w[2] = 8 /\ w[3] = 4 /\ w[4] = 5
  <2>1. 1 \in 1..4 /\ 2 \in 1..4 /\ 3 \in 1..4 /\ 4 \in 1..4
    OBVIOUS
  <2> HIDE DEF b
  <2> QED BY <1>2, <2>1, WorthIs
<1>4. Price(b) = SumFunctionOnSet(w, 1..4)
  <2> HIDE DEF b
  <2> QED BY <1>3 DEF Price, SumFunction
<1> HIDE DEF w, b
<1>5. \A n \in 0..3 : IsFiniteSet(1..n) /\ n + 1 \notin 1..n /\ (1..n) \cup {n + 1} = 1..n + 1
  <2> TAKE n \in 0..3
  <2>1. IsFiniteSet(1..n)
    BY FS_Interval
  <2> QED BY <2>1
<1>6. \A n \in 0..3 : \A x \in (1..n) \cup {n + 1} : w[x] \in Int
  <2> SUFFICES ASSUME NEW x \in 1..4 PROVE w[x] \in Int
    OBVIOUS
  <2> QED BY <1>3
<1>7. ASSUME NEW n \in 0..3
      PROVE  SumFunctionOnSet(w, 1..n + 1) = SumFunctionOnSet(w, 1..n) + w[n + 1]
  <2> DEFINE I == 1..n
             e == n + 1
  <2>1. /\ IsFiniteSet(I) /\ e \notin I /\ I \cup {e} = 1..n + 1
        /\ \A x \in I \cup {e} : w[x] \in Int
    BY <1>5, <1>6
  <2> HIDE DEF I, e
  <2>2. SumFunctionOnSet(w, I \cup {e}) = SumFunctionOnSet(w, I) + w[e]
    BY <2>1, SumAdd
  <2> QED BY <2>1, <2>2 DEF I, e
<1>8. SumFunctionOnSet(w, 1..0) = 0
  <2>1. 1..0 = {}
    OBVIOUS
  <2> QED BY <2>1, SumEmpty
<1>9. /\ SumFunctionOnSet(w, 1..1) = SumFunctionOnSet(w, 1..0) + w[1]
      /\ SumFunctionOnSet(w, 1..2) = SumFunctionOnSet(w, 1..1) + w[2]
      /\ SumFunctionOnSet(w, 1..3) = SumFunctionOnSet(w, 1..2) + w[3]
      /\ SumFunctionOnSet(w, 1..4) = SumFunctionOnSet(w, 1..3) + w[4]
  <2>1. 0 + 1 = 1 /\ 1 + 1 = 2 /\ 2 + 1 = 3 /\ 3 + 1 = 4
        /\ 0 \in 0..3 /\ 1 \in 0..3 /\ 2 \in 0..3 /\ 3 \in 0..3
    OBVIOUS
  <2> QED BY ONLY <1>7, <2>1
<1>10. SumFunctionOnSet(w, 1..4) = 23
  BY <1>3, <1>8, <1>9
<1> QED BY <1>1, <1>2, <1>4, <1>10 DEF MinStartingBudget, b

\* What the bodies of a fleet cost.
LEMMA CostIs ==
  ASSUME NEW s \in Seq(Blueprint)
  PROVE  /\ Cost(s) \in Nat /\ Len(s) \in Nat
         /\ s = <<>> => Cost(s) = 0
         /\ \A body \in Blueprint :
              /\ Append(s, body) \in Seq(Blueprint) /\ Len(Append(s, body)) = Len(s) + 1
              /\ Cost(Append(s, body)) = Cost(s) + Price(body)
<1>1. Len(s) \in Nat /\ DOMAIN s = 1..Len(s) /\ \A i \in 1..Len(s) : s[i] \in Blueprint
  BY LenProperties, ElementOfSeq
<1> DEFINE n == Len(s)
           f == [i \in 1..n |-> Price(s[i])]
<1>2. Cost(s) = SumFunctionOnSet(f, 1..n) /\ \A i \in 1..n : f[i] \in Nat /\ f[i] = Price(s[i])
  <2>1. DOMAIN f = 1..n /\ f = [i \in DOMAIN s |-> Price(s[i])]
    BY <1>1
  <2>2. \A i \in 1..n : f[i] \in Nat /\ f[i] = Price(s[i])
    BY <1>1, PriceIs
  <2> HIDE DEF f
  <2> QED BY <2>1, <2>2 DEF Cost, SumFunction
<1> HIDE DEF f
<1>3. IsFiniteSet(1..n)
  BY <1>1, FS_Interval
<1>4. Cost(s) \in Nat
  BY <1>2, <1>3, SumNat
<1>5. s = <<>> => Cost(s) = 0
  <2>1. s = <<>> => 1..n = {}
    BY <1>1
  <2> QED BY <1>2, <2>1, SumEmpty
<1>6. ASSUME NEW body \in Blueprint
      PROVE  /\ Append(s, body) \in Seq(Blueprint) /\ Len(Append(s, body)) = Len(s) + 1
             /\ Cost(Append(s, body)) = Cost(s) + Price(body)
  <2> DEFINE t == Append(s, body)
             g == [i \in 1..n + 1 |-> Price(t[i])]
             e == n + 1
             I == 1..n
  <2>1. /\ t \in Seq(Blueprint) /\ Len(t) = n + 1
        /\ \A i \in 1..n : t[i] = s[i]
        /\ t[n + 1] = body
    BY <1>1, AppendProperties
  <2>2. DOMAIN t = 1..n + 1
    BY <2>1, LenProperties
  <2> HIDE DEF t
  <2>3. Cost(t) = SumFunctionOnSet(g, 1..n + 1) /\ \A i \in 1..n + 1 : g[i] = Price(t[i])
    BY <2>2 DEF Cost, SumFunction
  <2> HIDE DEF g
  <2>4. /\ I \cup {e} = 1..n + 1 /\ e \notin I /\ IsFiniteSet(I)
        /\ \A x \in I : f[x] \in Int /\ g[x] = f[x]
        /\ g[e] = Price(body) /\ Price(body) \in Int
    BY <1>1, <1>2, <1>3, <2>1, <2>3, PriceIs
  <2>5. Cost(s) = SumFunctionOnSet(f, I)
    BY <1>2
  <2> HIDE DEF e, I, n
  <2>6. SumFunctionOnSet(g, I) = SumFunctionOnSet(f, I)
    BY <2>4, SumSame
  <2>7. SumFunctionOnSet(g, I \cup {e}) = SumFunctionOnSet(g, I) + g[e]
    BY <2>4, SumAdd
  <2>8. Cost(t) = Cost(s) + Price(body)
    BY <2>3, <2>4, <2>5, <2>6, <2>7
  <2> QED BY <2>1, <2>8 DEF t, n
<1> QED BY <1>1, <1>4, <1>5, <1>6
LEMMA MaxIs ==
  ASSUME NEW n \in Nat, NEW W, W \subseteq 0..n, W # {}
  PROVE  Max(W) \in W /\ \A y \in W : Max(W) >= y
<1> DEFINE Top(m) == \E x \in W \cap 0..m : \A y \in W \cap 0..m : x >= y
           F == {m \in Nat : W \cap 0..m # {} => Top(m)}
<1>1. 0 \in F
  OBVIOUS
<1>2. ASSUME NEW m \in Nat, m \in F PROVE m + 1 \in F
  <2>1. CASE m + 1 \in W
    <3>1. m + 1 \in W \cap 0..m + 1 /\ \A y \in W \cap 0..m + 1 : m + 1 >= y
      BY <2>1
    <3> QED BY <3>1
  <2>2. CASE m + 1 \notin W
    <3>1. W \cap 0..m + 1 = W \cap 0..m
      BY <2>2
    <3> QED BY <1>2, <3>1
  <2> QED BY <2>1, <2>2
<1> HIDE DEF F
<1>3. n \in F
  BY <1>1, <1>2, NumberInduction
<1>4. W \cap 0..n = W
  OBVIOUS
<1>5. \E x \in W : \A y \in W : x >= y
  BY <1>3, <1>4 DEF F
<1> QED BY <1>5 DEF Max

\* What is fielded of an opening whose first robot is within the budget is, too.
LEMMA FieldedIs ==
  ASSUME NEW s \in Seq(Blueprint), s # <<>>, NEW b \in Nat \ {0}, Price(s[1]) <= b
  PROVE  /\ Fielded(s, b) \in Seq(Blueprint)
         /\ Len(Fielded(s, b)) \in 1..Len(s) /\ Cost(Fielded(s, b)) <= b
<1> DEFINE W == {n \in 0..Len(s) : \A k \in 1..n : Cost(SubSeq(s, 1, k)) <= b}
           m == Max(W)
<1>1. Len(s) \in Nat /\ 1 \in 1..Len(s) /\ s[1] \in Blueprint /\ DOMAIN s = 1..Len(s)
  BY LenProperties, EmptySeq, ElementOfSeq
<1>2. SubSeq(s, 1, 1) = Append(<<>>, s[1])
  <2> DEFINE p == SubSeq(s, 1, 1)
             q == Append(<<>>, s[1])
  <2>1. p \in Seq(Blueprint) /\ Len(p) = 1 /\ p[1] = s[1]
    <3>1. 1 - 1 + 1 = 1 /\ \A i \in 1..1 : i \in 1..Len(s)
      BY <1>1
    <3> QED BY <1>1, <3>1, SubSeqProperties
  <2>2. q \in Seq(Blueprint) /\ Len(q) = 1 /\ q[1] = s[1]
    <3>1. <<>> \in Seq(Blueprint) /\ Len(<<>>) = 0
      OBVIOUS
    <3>2. q \in Seq(Blueprint) /\ Len(q) = Len(<<>>) + 1 /\ q[Len(<<>>) + 1] = s[1]
      BY <1>1, <3>1, AppendProperties
    <3> QED BY <3>1, <3>2
  <2> HIDE DEF p, q
  <2>3. \A i \in 1..1 : p[i] = q[i]
    BY <2>1, <2>2
  <2> QED BY <2>1, <2>2, <2>3, SeqEqual DEF p, q
<1>3. Cost(SubSeq(s, 1, 1)) = Price(s[1])
  <2> DEFINE z == <<>>
  <2>1. z \in Seq(Blueprint) /\ z = <<>>
    OBVIOUS
  <2> HIDE DEF z
  <2>2. Cost(z) = 0 /\ Cost(Append(z, s[1])) = Cost(z) + Price(s[1])
    BY <1>1, <2>1, CostIs
  <2>3. Price(s[1]) \in Nat
    BY <1>1, PriceIs
  <2>4. SubSeq(s, 1, 1) = Append(z, s[1])
    BY <1>2, <2>1
  <2>5. Cost(SubSeq(s, 1, 1)) = 0 + Price(s[1])
    BY <2>2, <2>4
  <2> QED BY <2>3, <2>5
<1>4. 1 \in W
  BY <1>1, <1>3
<1>5. W \subseteq 0..Len(s) /\ W # {}
  BY <1>4
<1> HIDE DEF W
<1>6. m \in W /\ m >= 1
  BY <1>1, <1>4, <1>5, MaxIs
<1>7. Fielded(s, b) = SubSeq(s, 1, m)
  BY DEF Fielded, W
<1> HIDE DEF m
<1>8. m \in 1..Len(s) /\ Cost(SubSeq(s, 1, m)) <= b
  BY <1>1, <1>6 DEF W
<1>9. SubSeq(s, 1, m) \in Seq(Blueprint) /\ Len(SubSeq(s, 1, m)) = m
  <2>1. \A i \in 1..m : i \in 1..Len(s)
    BY <1>1, <1>8
  <2> QED BY <1>1, <1>8, <2>1, SubSeqProperties
<1> QED BY <1>7, <1>8, <1>9

AIProfiles == {"tutorial", "peaceful", "defensive", "aggressive"}

LEMMA KitOfIs ==
  ASSUME NEW p \in AIProfiles
  PROVE  KitOf(p) \in Seq(Blueprint)
<1>1. {"tracks", "mediumArmor", "manipulator", "partsRadar", "enemyRadar", "laser"} \subseteq Catalogue
  BY DEF Catalogue, Worth
<1>2. /\ Canonical(<<"manipulator">>) \in Blueprint /\ Scavenger \in Blueprint
      /\ Canonical(<<"laser", "partsRadar">>) \in Blueprint
      /\ Canonical(<<"laser", "enemyRadar">>) \in Blueprint
  <2> HIDE DEF Catalogue
  <2>1. /\ <<"manipulator">> \in Blueprint /\ <<"manipulator", "partsRadar">> \in Blueprint
        /\ <<"laser", "partsRadar">> \in Blueprint /\ <<"laser", "enemyRadar">> \in Blueprint
        /\ <<"tracks", "mediumArmor">> \in Blueprint
    BY <1>1 DEF Blueprint
  <2>2. \A s, t \in Blueprint : s \o t \in Blueprint
    BY ConcatProperties DEF Blueprint
  <2> QED BY <2>1, <2>2 DEF Canonical, Scavenger
<1> HIDE DEF Catalogue, Scavenger, Canonical
<1>3. CASE p = "tutorial"
  BY <1>2, <1>3 DEF KitOf
<1>4. CASE p = "peaceful"
  BY <1>2, <1>4 DEF KitOf
<1>5. CASE p = "defensive"
  BY <1>2, <1>5 DEF KitOf
<1>6. CASE p = "aggressive"
  BY <1>2, <1>6 DEF KitOf
<1> QED BY <1>3, <1>4, <1>5, <1>6 DEF AIProfiles

LEMMA BudgetIs ==
  ASSUME NEW set \in StartingBudgets
  PROVE  Budget(set) \in Nat /\ Budget(set) >= MinStartingBudget
BY LoadoutsAssumption, PriceIs DEF Budget, DefaultBudget, MinStartingBudget, StartingRobots

\* The kits are the members' own, in the order of the seats, and then the profiles'.
KitsAre ==
  /\ Len(kits) = Members + Len(ProfilesSeated)
  /\ \A i \in 1..Members : kits[i] = MemberKit(loads[i]) /\ Affordable(loads[i])
  /\ \A i \in 1..Len(ProfilesSeated) : kits[Members + i] = AIKit(ProfilesSeated[i])

\* What a colony that has its robots may have, and has once there is nothing left to buy.
Fits(i) ==
  /\ i <= Members => Len(fleet[i]) \in 1..StartingRobots /\ Opening(i) <= Budget(budgetSet)
  /\ i > Members => fleet[i] = KitOf(ProfilesSeated[i - Members]) /\ spares[i] = 0

Spent(i) == i <= Members => Budget(budgetSet) - Opening(i) < CheapestPart

\* The colonies are equipped one by one; what is drawn fits the budget.
EquipInv ==
  /\ budgetSet \in StartingBudgets /\ loads \in [1..Members -> Loads] /\ at \in Nat
  /\ drawn \in Seq(Blueprint)
  /\ fleet \in Seq(Seq(Blueprint)) /\ spares \in Seq(Nat)
  /\ stage = "kits" => at = 1 /\ drawn = <<>> /\ fleet = <<>> /\ spares = <<>>
  /\ stage \in {"draw", "spares", "ready"} =>
       /\ KitsAre /\ at \in 1..Len(kits)
       /\ Len(fleet) = (IF stage = "draw" THEN at - 1 ELSE at) /\ Len(spares) = Len(fleet)
       /\ stage = "ready" => at = Len(kits)
       /\ \A i \in 1..Len(fleet) : Fits(i) /\ (i # at \/ stage = "ready" => Spent(i))
  /\ stage = "spares" => drawn = <<>>
  /\ stage = "draw" /\ drawn # <<>> =>
       /\ Len(drawn) <= StartingRobots
       /\ Cost(drawn) <= kits[at].budget /\ Price(drawn[1]) <= kits[at].budget

\* Whose kit a colony has.
LEMMA KitIs ==
  ASSUME EquipInv, KitsAre, NEW i \in 1..Len(kits)
  PROVE  /\ i <= Members => i \in DOMAIN loads /\ loads[i] \in SUBSET Bodies
                             /\ kits[i] = MemberKit(loads[i]) /\ Affordable(loads[i])
         /\ i > Members => /\ i - Members \in 1..Len(ProfilesSeated)
                           /\ ProfilesSeated[i - Members] \in AIProfiles
                           /\ kits[i] = AIKit(ProfilesSeated[i - Members])
<1>1. Members \in Nat \ {0} /\ ProfilesSeated \in Seq(AIProfiles) /\ Len(ProfilesSeated) \in Nat
  BY LoadoutsAssumption, LenProperties DEF AIProfiles
<1>2. CASE i <= Members
  <2>1. i \in 1..Members /\ loads \in [1..Members -> Loads]
    BY <1>1, <1>2 DEF EquipInv
  <2>2. i \in DOMAIN loads /\ loads[i] \in Loads
    BY <2>1
  <2>3. kits[i] = MemberKit(loads[i]) /\ Affordable(loads[i])
    BY <2>1 DEF KitsAre
  <2> QED BY <1>1, <1>2, <2>2, <2>3 DEF Loads
<1>3. CASE i > Members
  <2>1. i - Members \in 1..Len(ProfilesSeated) /\ Members + (i - Members) = i
    BY <1>1, <1>3 DEF KitsAre
  <2>2. ProfilesSeated[i - Members] \in AIProfiles
    BY <1>1, <2>1, ElementOfSeq
  <2> QED BY <1>1, <1>3, <2>1, <2>2 DEF KitsAre
<1> QED BY <1>1, <1>2, <1>3 DEF KitsAre

LEMMA EquipInit == LoadoutsInit => EquipInv
<1> SUFFICES ASSUME LoadoutsInit PROVE EquipInv
  OBVIOUS
<1>1. /\ budgetSet \in StartingBudgets /\ loads \in [1..Members -> Loads] /\ stage = "kits" /\ at = 1
      /\ drawn = <<>> /\ fleet = <<>> /\ spares = <<>>
  BY DEF LoadoutsInit
<1>2. drawn \in Seq(Blueprint) /\ fleet \in Seq(Seq(Blueprint)) /\ spares \in Seq(Nat)
  BY <1>1
<1> QED BY <1>1, <1>2 DEF EquipInv

LEMMA ResolvedKits ==
  ASSUME EquipInv, ResolveKits
  PROVE  EquipInv'
<1> DEFINE m == [i \in DOMAIN loads |-> MemberKit(loads[i])]
           a == [i \in DOMAIN ProfilesSeated |-> AIKit(ProfilesSeated[i])]
<1>1. /\ Members \in Nat \ {0} /\ ProfilesSeated \in Seq(AIProfiles) /\ Len(ProfilesSeated) \in Nat
      /\ DOMAIN ProfilesSeated = 1..Len(ProfilesSeated) /\ DOMAIN loads = 1..Members
  BY LoadoutsAssumption, LenProperties DEF AIProfiles, EquipInv
<1>2. /\ stage = "kits" /\ (\A i \in DOMAIN loads : Affordable(loads[i])) /\ kits' = m \o a /\ stage' = "draw"
      /\ UNCHANGED <<budgetSet, loads, at, drawn, fleet, spares>>
  BY DEF ResolveKits
<1> DEFINE M == {m[i] : i \in DOMAIN m} \cup {a[i] : i \in DOMAIN a}
<1>3. m \in Seq(M) /\ a \in Seq(M) /\ Len(m) = Members /\ Len(a) = Len(ProfilesSeated)
      /\ (\A i \in 1..Members : m[i] = MemberKit(loads[i]))
      /\ (\A i \in 1..Len(ProfilesSeated) : a[i] = AIKit(ProfilesSeated[i]))
  <2>1. m \in [1..Members -> M] /\ a \in [1..Len(ProfilesSeated) -> M]
    BY <1>1
  <2>2. (\A i \in 1..Members : m[i] = MemberKit(loads[i]))
        /\ (\A i \in 1..Len(ProfilesSeated) : a[i] = AIKit(ProfilesSeated[i]))
    BY <1>1
  <2> HIDE DEF M, m, a
  <2>3. m \in Seq(M) /\ a \in Seq(M) /\ DOMAIN m = 1..Members /\ DOMAIN a = 1..Len(ProfilesSeated)
    BY <1>1, <2>1, SeqDef
  <2> QED BY <1>1, <2>2, <2>3, LenProperties
<1> HIDE DEF M, m, a
<1>4. /\ Len(m \o a) = Members + Len(ProfilesSeated)
      /\ \A i \in 1..Members + Len(ProfilesSeated) :
            (m \o a)[i] = IF i <= Members THEN m[i] ELSE a[i - Members]
  <2>1. /\ Len(m \o a) = Len(m) + Len(a)
        /\ \A i \in 1..Len(m) + Len(a) :
              (m \o a)[i] = IF i <= Len(m) THEN m[i] ELSE a[i - Len(m)]
    BY <1>3, ConcatProperties
  <2> QED BY <1>3, <2>1
<1>5. \A i \in 1..Members : (m \o a)[i] = MemberKit(loads[i])
  BY <1>1, <1>3, <1>4
<1>6. \A i \in 1..Len(ProfilesSeated) : (m \o a)[Members + i] = AIKit(ProfilesSeated[i])
  <2> TAKE i \in 1..Len(ProfilesSeated)
  <2>1. Members + i \in 1..Members + Len(ProfilesSeated) /\ ~(Members + i <= Members) /\ (Members + i) - Members = i
    BY <1>1
  <2> QED BY <1>3, <1>4, <2>1
<1>7. KitsAre'
  BY <1>1, <1>2, <1>4, <1>5, <1>6 DEF KitsAre, MemberKit, AIKit, Affordable
<1>8. at' = 1 /\ Len(kits') \in Nat \ {0} /\ fleet' = <<>> /\ spares' = <<>> /\ drawn' = <<>>
  BY <1>1, <1>2, <1>4 DEF EquipInv
<1>9. Len(fleet') = 0 /\ Len(spares') = 0
  BY <1>8
<1>10. /\ budgetSet' \in StartingBudgets /\ loads' \in [1..Members -> Loads] /\ at' \in Nat
       /\ drawn' \in Seq(Blueprint)
       /\ fleet' \in Seq(Seq(Blueprint)) /\ spares' \in Seq(Nat)
  BY <1>2 DEF EquipInv
<1>11. \A i \in 1..0 : FALSE
  OBVIOUS
<1>12. at' \in 1..Len(kits') /\ Len(fleet') = at' - 1
  BY <1>8, <1>9
<1> QED BY <1>2, <1>7, <1>8, <1>9, <1>10, <1>11, <1>12 DEF EquipInv

LEMMA DrawnRobot ==
  ASSUME EquipInv, DrawRobot
  PROVE  EquipInv'
<1>1. PICK body \in Fitting : drawn' = Append(drawn, body)
  BY DEF DrawRobot
<1>2. stage = "draw" /\ Len(drawn) < StartingRobots
      /\ UNCHANGED <<budgetSet, loads, stage, kits, at, fleet, spares>>
  BY DEF DrawRobot
<1>3. KitsAre /\ at \in 1..Len(kits) /\ drawn \in Seq(Blueprint) /\ at \in Nat /\ Members \in Nat
  BY <1>2, LoadoutsAssumption DEF EquipInv
<1>4. /\ body \in kits[at].choices /\ Price(body) <= kits[at].budget - Cost(drawn)
      /\ Cost(drawn) \in Nat /\ Len(drawn) \in Nat
  BY <1>1, <1>3, CostIs DEF Fitting
<1>5. at <= Members
  <2>1. ASSUME at > Members PROVE FALSE
    <3>1. kits[at] = AIKit(ProfilesSeated[at - Members])
      BY <1>3, <2>1, KitIs
    <3>2. kits[at].choices = {}
      BY <3>1 DEF AIKit
    <3> QED BY <1>4, <3>2
  <2> QED BY <1>3, <2>1
<1>6. body \in Blueprint /\ kits[at].budget \in Nat
  <2>1. kits[at] = MemberKit(loads[at]) /\ loads[at] \in SUBSET Bodies
    BY <1>3, <1>5, KitIs
  <2>2. kits[at].choices = loads[at] /\ kits[at].budget = Budget(budgetSet)
    BY <1>4, <2>1 DEF MemberKit
  <2> QED BY <1>4, <2>1, <2>2, LoadoutsAssumption, BudgetIs DEF EquipInv
<1>7. /\ drawn' \in Seq(Blueprint) /\ Len(drawn') = Len(drawn) + 1
      /\ Cost(drawn') = Cost(drawn) + Price(body) /\ Price(body) \in Nat
  BY <1>1, <1>3, <1>6, CostIs, PriceIs
<1>8. Len(drawn') <= StartingRobots /\ Cost(drawn') <= kits[at].budget
  BY <1>2, <1>4, <1>6, <1>7 DEF StartingRobots
<1>9. Price(drawn'[1]) <= kits[at].budget
  <2>1. CASE drawn = <<>>
    <3>1. drawn'[1] = body
      BY <1>1, <2>1
    <3> QED BY <1>4, <1>6, <1>7, <3>1
  <2>2. CASE drawn # <<>>
    <3>1. 1 \in 1..Len(drawn)
      BY <1>3, <1>4, <2>2, EmptySeq
    <3>2. drawn'[1] = drawn[1]
      BY <1>1, <1>3, <3>1, AppendProperties
    <3> QED BY <1>2, <2>2, <3>2 DEF EquipInv
  <2> QED BY <2>1, <2>2
<1>10. KitsAre' /\ \A i : Fits(i)' = Fits(i) /\ Spent(i)' = Spent(i)
  BY <1>2, <1>3 DEF KitsAre, MemberKit, AIKit, Affordable, Fits, Spent, Opening
<1> QED BY <1>2, <1>7, <1>8, <1>9, <1>10 DEF EquipInv
\* A colony's robots cost no more than its budget, or are its profile's.
LEMMA FieldedFleet ==
  ASSUME EquipInv, FieldFleet
  PROVE  EquipInv'
<1> DEFINE opening == IF kits[at].choices = {} THEN kits[at].start ELSE drawn
           f == Fielded(opening, kits[at].budget)
<1>1. /\ stage = "draw" /\ stage' = "spares" /\ fleet' = Append(fleet, f) /\ spares' = Append(spares, 0)
      /\ drawn' = <<>> /\ UNCHANGED <<budgetSet, loads, kits, at>>
      /\ kits[at].choices # {} => Len(drawn) = StartingRobots \/ Fitting = {}
  BY DEF FieldFleet
<1>2. /\ KitsAre /\ at \in 1..Len(kits) /\ drawn \in Seq(Blueprint) /\ at \in Nat /\ Members \in Nat
      /\ fleet \in Seq(Seq(Blueprint)) /\ spares \in Seq(Nat)
      /\ Len(fleet) = at - 1 /\ Len(spares) = at - 1 /\ budgetSet \in StartingBudgets
      /\ \A i \in 1..Len(fleet) : Fits(i) /\ (i # at => Spent(i))
      /\ drawn # <<>> => /\ Len(drawn) <= StartingRobots
                         /\ Cost(drawn) <= kits[at].budget /\ Price(drawn[1]) <= kits[at].budget
  BY <1>1, LoadoutsAssumption DEF EquipInv
<1>3. Budget(budgetSet) \in Nat \ {0} /\ Budget(budgetSet) >= MinStartingBudget
  BY <1>2, BudgetIs DEF MinStartingBudget
<1>4. ASSUME at <= Members
      PROVE  /\ f \in Seq(Blueprint) /\ Len(f) \in 1..StartingRobots
             /\ Cost(f) <= Budget(budgetSet)
  <2>1. kits[at] = MemberKit(loads[at]) /\ loads[at] \in SUBSET Bodies /\ Affordable(loads[at])
    BY <1>2, <1>4, KitIs
  <2>2. kits[at].budget = Budget(budgetSet) /\ kits[at].choices = loads[at]
    <3>1. CASE loads[at] = {}
      BY <2>1, <3>1 DEF MemberKit
    <3>2. CASE loads[at] # {}
      BY <2>1, <3>2 DEF MemberKit
    <3> QED BY <3>1, <3>2
  <2>3. /\ opening \in Seq(Blueprint) /\ opening # <<>> /\ Len(opening) <= StartingRobots
        /\ Price(opening[1]) <= Budget(budgetSet)
    <3>1. CASE loads[at] = {}
      <4> DEFINE s == [i \in 1..StartingRobots |-> Scavenger]
      <4>1. opening = s
        BY <2>1, <2>2, <3>1 DEF MemberKit
      <4>2. s \in [1..3 -> Blueprint] /\ s[1] = Scavenger
        BY PriceIs DEF StartingRobots
      <4> HIDE DEF s
      <4>3. s \in Seq(Blueprint) /\ DOMAIN s = 1..3
        BY <4>2, SeqDef
      <4>4. Len(s) = 3
        BY <4>3, LenProperties
      <4>5. s # <<>>
        BY <4>4
      <4> HIDE DEF opening
      <4> QED BY <1>3, <4>1, <4>2, <4>3, <4>4, <4>5, PriceIs DEF StartingRobots
    <3>2. CASE loads[at] # {}
      <4>1. opening = drawn
        BY <2>2, <3>2
      <4>2. drawn # <<>>
        <5> SUFFICES ASSUME drawn = <<>> PROVE FALSE
          OBVIOUS
        <5>1. Len(drawn) = 0 /\ Cost(drawn) = 0
          BY <1>2, CostIs
        <5>2. PICK body \in loads[at] : Price(body) <= Budget(budgetSet)
          BY <2>1, <3>2 DEF Affordable
        <5>3. body \in Blueprint
          BY <2>1, <5>2, LoadoutsAssumption
        <5>4. Price(body) <= kits[at].budget - Cost(drawn)
          BY <1>3, <2>2, <5>1, <5>2, <5>3, PriceIs
        <5>5. Fitting # {}
          BY <2>2, <5>2, <5>4 DEF Fitting
        <5> QED BY <1>1, <2>2, <3>2, <5>1, <5>5 DEF StartingRobots
      <4> HIDE DEF opening
      <4> QED BY <1>2, <2>2, <4>1, <4>2
    <3> QED BY <3>1, <3>2
  <2> HIDE DEF opening, f
  <2>4. f = Fielded(opening, Budget(budgetSet))
    BY <2>2 DEF f
  <2>5. /\ f \in Seq(Blueprint) /\ Len(f) \in 1..Len(opening) /\ Cost(f) <= Budget(budgetSet)
    BY <1>3, <2>3, <2>4, FieldedIs
  <2>6. Len(opening) \in Nat
    BY <2>3, LenProperties
  <2>7. \A n \in 1..Len(opening) : n \in 1..StartingRobots
    BY <2>3, <2>6 DEF StartingRobots
  <2> QED BY <2>5, <2>7
<1>5. ASSUME at > Members
      PROVE  f = KitOf(ProfilesSeated[at - Members]) /\ f \in Seq(Blueprint)
  <2>1. kits[at] = AIKit(ProfilesSeated[at - Members]) /\ ProfilesSeated[at - Members] \in AIProfiles
    BY <1>2, <1>5, KitIs
  <2>2. /\ kits[at].budget = 0 /\ kits[at].choices = {}
        /\ kits[at].start = KitOf(ProfilesSeated[at - Members])
    BY <2>1 DEF AIKit
  <2>3. f = KitOf(ProfilesSeated[at - Members])
    BY <2>2 DEF Fielded
  <2> HIDE DEF f
  <2> QED BY <2>1, <2>3, KitOfIs
<1> HIDE DEF f, opening
<1>6. f \in Seq(Blueprint)
  BY <1>2, <1>4, <1>5
<1>7. /\ fleet' \in Seq(Seq(Blueprint)) /\ Len(fleet') = at /\ fleet'[at] = f
      /\ \A i \in 1..at - 1 : fleet'[i] = fleet[i]
  <2>1. /\ fleet' \in Seq(Seq(Blueprint)) /\ Len(fleet') = Len(fleet) + 1
        /\ fleet'[Len(fleet) + 1] = f /\ \A i \in 1..Len(fleet) : fleet'[i] = fleet[i]
    BY <1>1, <1>2, <1>6, AppendProperties
  <2>2. Len(fleet) = at - 1 /\ (at - 1) + 1 = at
    BY <1>2
  <2>3. Len(fleet) + 1 = at
    BY <2>2
  <2> QED BY <2>1, <2>2, <2>3
<1>8. /\ spares' \in Seq(Nat) /\ Len(spares') = at /\ spares'[at] = 0
      /\ \A i \in 1..at - 1 : spares'[i] = spares[i]
  <2>1. /\ spares' \in Seq(Nat) /\ Len(spares') = Len(spares) + 1
        /\ spares'[Len(spares) + 1] = 0 /\ \A i \in 1..Len(spares) : spares'[i] = spares[i]
    BY <1>1, <1>2, AppendProperties
  <2>2. Len(spares) = at - 1 /\ (at - 1) + 1 = at
    BY <1>2
  <2>3. Len(spares) + 1 = at
    BY <2>2
  <2> QED BY <2>1, <2>2, <2>3
<1>9. Fits(at)'
  <2>1. Cost(f) \in Nat
    BY <1>6, CostIs
  <2> QED BY <1>1, <1>2, <1>4, <1>5, <1>7, <1>8, <2>1 DEF Fits, Opening
<1>10. ASSUME NEW i \in 1..at - 1 PROVE Fits(i)' /\ Spent(i)'
  <2>1. fleet'[i] = fleet[i] /\ spares'[i] = spares[i] /\ budgetSet' = budgetSet
    BY <1>1, <1>7, <1>8
  <2>2. Fits(i) /\ Spent(i)
    <3>1. \A j \in 1..Len(fleet) : Fits(j) /\ (j # at => Spent(j))
      BY <1>2
    <3>2. Len(fleet) = at - 1 /\ at \in Nat
      BY <1>2
    <3>3. i \in 1..Len(fleet) /\ i # at
      BY ONLY <1>10, <3>2
    <3> QED BY ONLY <3>1, <3>3
  <2> QED BY <2>1, <2>2 DEF Fits, Spent, Opening
<1>11. \A i \in 1..Len(fleet') : Fits(i)' /\ (i # at' \/ stage' = "ready" => Spent(i)')
  <2> TAKE i \in 1..Len(fleet')
  <2>1. i \in 1..at - 1 \/ i = at
    BY <1>2, <1>7
  <2>2. at' = at /\ stage' # "ready"
    BY <1>1
  <2>3. CASE i \in 1..at - 1
    BY ONLY <1>10, <2>3
  <2>4. CASE i = at
    BY ONLY <1>9, <2>2, <2>4
  <2> QED BY ONLY <2>1, <2>3, <2>4
<1>12. KitsAre'
  BY <1>1, <1>2 DEF KitsAre, MemberKit, AIKit, Affordable
<1>13. drawn' \in Seq(Blueprint)
  BY <1>1
<1>14. budgetSet' \in StartingBudgets /\ loads' \in [1..Members -> Loads]
  BY <1>1 DEF EquipInv
<1> HIDE DEF Fits, Spent
<1> QED BY <1>1, <1>2, <1>7, <1>8, <1>11, <1>12, <1>13, <1>14 DEF EquipInv

\* A spare is bought out of what is left; a profile has nothing left.
LEMMA BoughtSpare ==
  ASSUME EquipInv, BuySpare
  PROVE  EquipInv'
<1>1. PICK v \in Buyable : spares' = [spares EXCEPT ![at] = @ + Worth[v]]
  BY DEF BuySpare
<1>2. /\ stage = "spares" /\ stage' = stage /\ UNCHANGED <<budgetSet, loads, kits, at, drawn, fleet>>
  BY DEF BuySpare
<1>3. /\ KitsAre /\ at \in 1..Len(kits) /\ at \in Nat /\ Members \in Nat
      /\ fleet \in Seq(Seq(Blueprint)) /\ spares \in Seq(Nat)
      /\ Len(fleet) = at /\ Len(spares) = at /\ budgetSet \in StartingBudgets
      /\ \A i \in 1..at : Fits(i) /\ (i # at => Spent(i))
  BY <1>2, LoadoutsAssumption DEF EquipInv
<1>4. fleet[at] \in Seq(Blueprint) /\ Cost(fleet[at]) \in Nat /\ spares[at] \in Nat
      /\ Worth[v] \in Nat /\ Worth[v] >= 4 /\ Worth[v] <= kits[at].budget - Cost(fleet[at]) - spares[at]
  <2>1. at \in 1..Len(fleet) /\ at \in 1..Len(spares)
    BY <1>3
  <2>2. fleet[at] \in Seq(Blueprint) /\ spares[at] \in Nat
    BY <1>3, <2>1, ElementOfSeq
  <2>3. v \in Catalogue /\ Worth[v] <= kits[at].budget - Cost(fleet[at]) - spares[at]
    BY <1>1 DEF Buyable, Left
  <2> QED BY <2>2, <2>3, CostIs, WorthIs
<1>5. at <= Members /\ kits[at].budget = Budget(budgetSet)
  <2>1. ASSUME at > Members PROVE FALSE
    <3>1. kits[at] = AIKit(ProfilesSeated[at - Members])
      BY <1>3, <2>1, KitIs
    <3>2. kits[at].budget = 0
      BY <3>1 DEF AIKit
    <3> QED BY <1>4, <3>2
  <2>2. at <= Members
    BY <1>3, <2>1
  <2>3. kits[at] = MemberKit(loads[at])
    BY <1>3, <2>2, KitIs
  <2>4. CASE loads[at] = {}
    BY <2>2, <2>3, <2>4 DEF MemberKit
  <2>5. CASE loads[at] # {}
    BY <2>2, <2>3, <2>5 DEF MemberKit
  <2> QED BY <2>4, <2>5
<1>6. /\ spares' \in Seq(Nat) /\ Len(spares') = at /\ spares'[at] = spares[at] + Worth[v]
      /\ \A i \in 1..at : i # at => spares'[i] = spares[i]
  <2>1. spares[at] + Worth[v] \in Nat /\ at \in 1..Len(spares)
    BY <1>3, <1>4
  <2> DEFINE w == spares[at] + Worth[v]
  <2>2. spares' = [spares EXCEPT ![at] = w]
    BY <1>1
  <2> HIDE DEF w
  <2>3. spares' \in Seq(Nat) /\ Len(spares') = Len(spares)
        /\ \A i \in 1..Len(spares) : spares'[i] = IF i = at THEN w ELSE spares[i]
    BY <1>3, <2>1, <2>2, ExceptSeq DEF w
  <2> QED BY <1>3, <2>1, <2>3 DEF w
<1>7. Fits(at)'
  <2>1. Len(fleet[at]) \in 1..StartingRobots
    BY <1>3, <1>5 DEF Fits
  <2>2. Budget(budgetSet) \in Nat
    BY <1>3, BudgetIs
  <2>3. Cost(fleet[at]) + (spares[at] + Worth[v]) <= Budget(budgetSet)
    BY <1>4, <1>5, <2>2
  <2> QED BY <1>2, <1>3, <1>5, <1>6, <2>1, <2>3 DEF Fits, Opening
<1>8. ASSUME NEW i \in 1..at, i # at PROVE Fits(i)' /\ Spent(i)'
  <2>1. fleet'[i] = fleet[i] /\ spares'[i] = spares[i] /\ budgetSet' = budgetSet
    BY <1>2, <1>6, <1>8
  <2>2. Fits(i) /\ Spent(i)
    BY <1>3, <1>8
  <2> QED BY <2>1, <2>2 DEF Fits, Spent, Opening
<1>9. KitsAre'
  BY <1>2, <1>3 DEF KitsAre, MemberKit, AIKit, Affordable
<1>10. \A i \in 1..Len(fleet') : Fits(i)' /\ (i # at' \/ stage' = "ready" => Spent(i)')
  BY <1>2, <1>3, <1>7, <1>8
<1>11. /\ budgetSet' \in StartingBudgets /\ loads' \in [1..Members -> Loads] /\ drawn' \in Seq(Blueprint)
  BY <1>2 DEF EquipInv
<1> HIDE DEF Fits, Spent
<1> QED BY <1>2, <1>3, <1>6, <1>9, <1>10, <1>11 DEF EquipInv

\* Some component is the cheapest.
LEMMA CheapestIs == CheapestPart \in {Worth[v] : v \in Catalogue}
<1> DEFINE W == {Worth[v] : v \in Catalogue}
<1>1. 4 \in W /\ \A y \in W : 4 <= y
  BY WorthIs
<1> HIDE DEF W
<1>2. Min(W) \in W
  BY <1>1 DEF Min
<1> QED BY <1>2 DEF W, CheapestPart

\* Where nothing can be bought, less is left than the cheapest component.
LEMMA EquippedColony ==
  ASSUME EquipInv, ColonyEquipped
  PROVE  EquipInv'
<1>1. /\ stage = "spares" /\ Buyable = {} /\ UNCHANGED <<budgetSet, loads, kits, drawn, fleet, spares>>
      /\ \/ at = Len(kits) /\ stage' = "ready" /\ at' = at
         \/ at # Len(kits) /\ stage' = "draw" /\ at' = at + 1
  BY DEF ColonyEquipped
<1>2. /\ KitsAre /\ at \in 1..Len(kits) /\ at \in Nat /\ Members \in Nat
      /\ fleet \in Seq(Seq(Blueprint)) /\ spares \in Seq(Nat)
      /\ Len(fleet) = at /\ Len(spares) = at /\ budgetSet \in StartingBudgets
      /\ \A i \in 1..at : Fits(i) /\ (i # at => Spent(i))
      /\ Len(kits) \in Nat
  <2>1. Members \in Nat /\ Len(ProfilesSeated) \in Nat
    BY LoadoutsAssumption, LenProperties
  <2>2. KitsAre
    BY <1>1 DEF EquipInv
  <2>3. Len(kits) \in Nat
    BY <2>1, <2>2 DEF KitsAre
  <2> QED BY <1>1, <2>1, <2>2, <2>3 DEF EquipInv
<1>3. Spent(at)
  <2> SUFFICES ASSUME at <= Members PROVE Budget(budgetSet) - Opening(at) < CheapestPart
    BY DEF Spent
  <2>1. kits[at] = MemberKit(loads[at])
    BY <1>2, KitIs
  <2>2. kits[at].budget = Budget(budgetSet) /\ Budget(budgetSet) \in Nat
    BY <1>2, <2>1, BudgetIs DEF MemberKit
  <2>3. PICK v \in Catalogue : CheapestPart = Worth[v]
    BY CheapestIs
  <2>4. Worth[v] \in Nat /\ ~(Worth[v] <= Left)
    BY <1>1, <2>3, WorthIs DEF Buyable
  <2>5. Cost(fleet[at]) \in Nat /\ spares[at] \in Nat
    <3>1. at \in 1..Len(fleet) /\ at \in 1..Len(spares)
      BY <1>2
    <3>2. fleet[at] \in Seq(Blueprint) /\ spares[at] \in Nat
      BY <1>2, <3>1, ElementOfSeq
    <3> QED BY <3>2, CostIs
  <2> QED BY <2>2, <2>3, <2>4, <2>5 DEF Left, Opening
<1>4. \A i : Fits(i)' = Fits(i) /\ Spent(i)' = Spent(i)
  BY <1>1 DEF Fits, Spent, Opening
<1>5. KitsAre'
  BY <1>1, <1>2 DEF KitsAre, MemberKit, AIKit, Affordable
<1>6. stage' = "draw" => drawn' = <<>>
  BY <1>1 DEF EquipInv
<1> HIDE DEF Fits, Spent
<1>7. \A i \in 1..Len(fleet') : Fits(i)' /\ (i # at' \/ stage' = "ready" => Spent(i)')
  BY <1>1, <1>2, <1>3, <1>4
<1>8. /\ budgetSet' \in StartingBudgets /\ loads' \in [1..Members -> Loads] /\ drawn' \in Seq(Blueprint)
  BY <1>1 DEF EquipInv
<1>9. at' \in 1..Len(kits') /\ at' \in Nat /\ Len(fleet') = (IF stage' = "draw" THEN at' - 1 ELSE at')
  BY <1>1, <1>2
<1> QED BY <1>1, <1>2, <1>5, <1>6, <1>7, <1>8, <1>9 DEF EquipInv

LEMMA EquipNext == EquipInv /\ [LoadoutsNext]_loadoutVars => EquipInv'
<1> SUFFICES ASSUME EquipInv, [LoadoutsNext]_loadoutVars PROVE EquipInv'
  OBVIOUS
<1>1. CASE RefuseKits
  <2>1. stage' = "refused" /\ UNCHANGED <<budgetSet, loads, at, drawn, fleet, spares>>
    BY <1>1 DEF RefuseKits
  <2> QED BY <2>1 DEF EquipInv
<1>2. CASE UNCHANGED loadoutVars
  <2>1. UNCHANGED <<budgetSet, loads, stage, kits, at, drawn, fleet, spares>>
    BY <1>2 DEF loadoutVars
  <2> QED BY <2>1 DEF EquipInv, KitsAre, MemberKit, AIKit, Affordable, Fits, Spent, Opening
<1> QED BY <1>1, <1>2, ResolvedKits, DrawnRobot, FieldedFleet, BoughtSpare, EquippedColony DEF LoadoutsNext

\* Whatever the members approved and whatever was drawn, every member opens with a robot
\* and with the same value, the cheapest component apart and within the budget, and an AI
\* profile as it was measured (loadout.go startingRoster, starter.go spendRemainder).
THEOREM NobodyOutEquips == LoadoutsSpec => []OpeningsAreEqual
<1>1. EquipInv => OpeningsAreEqual
  <2> SUFFICES ASSUME EquipInv, stage = "ready" PROVE OpeningsAreEqual
    BY DEF OpeningsAreEqual
  <2>1. /\ KitsAre /\ Len(fleet) = Len(kits) /\ Len(spares) = Len(kits)
        /\ \A i \in 1..Len(kits) : Fits(i) /\ Spent(i)
        /\ fleet \in Seq(Seq(Blueprint)) /\ spares \in Seq(Nat)
        /\ DOMAIN loads = 1..Members /\ budgetSet \in StartingBudgets
    BY DEF EquipInv
  <2>2. /\ Members \in Nat /\ Len(ProfilesSeated) \in Nat /\ DOMAIN ProfilesSeated = 1..Len(ProfilesSeated)
        /\ Len(kits) = Members + Len(ProfilesSeated)
    BY <2>1, LoadoutsAssumption, LenProperties DEF KitsAre
  <2>3. ASSUME NEW i \in 1..Members
        PROVE  /\ Len(fleet[i]) \in 1..StartingRobots /\ Opening(i) <= Budget(budgetSet)
               /\ Budget(budgetSet) - Opening(i) < CheapestPart /\ Opening(i) \in Nat
    <3>1. i \in 1..Len(kits) /\ i <= Members
      BY <2>2
    <3>2. fleet[i] \in Seq(Blueprint) /\ spares[i] \in Nat
      BY <2>1, <3>1, ElementOfSeq
    <3>3. Opening(i) \in Nat
      BY <3>2, CostIs DEF Opening
    <3> QED BY <2>1, <3>1, <3>3 DEF Fits, Spent
  <2>4. Budget(budgetSet) \in Nat /\ CheapestPart \in Nat
    BY <2>1, BudgetIs, CheapestIs, WorthIs
  <2>5. \A i, j \in 1..Members : Opening(i) - Opening(j) < CheapestPart
    <3> TAKE i, j \in 1..Members
    <3> DEFINE x == Opening(i)
               y == Opening(j)
               b == Budget(budgetSet)
               c == CheapestPart
    <3>1. x \in Nat /\ y \in Nat /\ b \in Nat /\ c \in Nat /\ x <= b /\ b - y < c
      BY <2>3, <2>4
    <3> HIDE DEF x, y, b, c
    <3>2. x - y < c
      BY <3>1
    <3> QED BY <3>2 DEF x, y, c
  <2>6. \A i \in 1..Len(ProfilesSeated) :
           fleet[Members + i] = KitOf(ProfilesSeated[i]) /\ spares[Members + i] = 0
    <3> TAKE i \in 1..Len(ProfilesSeated)
    <3>1. Members + i \in 1..Len(kits) /\ Members + i > Members /\ (Members + i) - Members = i
      BY <2>2
    <3> QED BY <2>1, <3>1 DEF Fits
  <2> QED BY <2>1, <2>2, <2>3, <2>5, <2>6 DEF OpeningsAreEqual
<1> QED BY EquipInit, EquipNext, <1>1, PTL DEF LoadoutsSpec

------------------------------------------------------------------------------
(* The mind. *)

\* The parts of a condition are conditions.
LEMMA PartsAre ==
  ASSUME LanguageAssumption, NEW c \in Conditions, c.op # "pred"
  PROVE  c.of \in Seq(Conditions) /\ \A i \in DOMAIN c.of : c.of[i] \in Conditions
<1>1. c.of \in Seq(Conditions)
  BY DEF LanguageAssumption
<1> QED BY <1>1

\* Where the walks go has its level.
LEMMA PlacesHaveLevels ==
  ASSUME LanguageAssumption
  PROVE  /\ MaxCondDepth \in Nat
         /\ \A x \in Places : x[1] \in 0..MaxCondDepth
         /\ \A x \in HopePlaces : x[1] \in 0..MaxCondDepth
         /\ \A x \in SignPlaces : x[1] \in 0..MaxCondDepth
BY DEF LanguageAssumption, Places, HopePlaces, SignPlaces

\* What holds at a place depends on what holds lower down only.
LEMMA CondLocal ==
  ASSUME LanguageAssumption, NEW v, NEW f, NEW g, NEW x \in HopePlaces, AgreeBelow(HopePlaces, x, f, g)
  PROVE  Cond(x[2], v, x[1], x[3], f) = Cond(x[2], v, x[1], x[3], g)
<1>1. PICK m \in 0..MaxCondDepth, c \in Conditions, h \in Hopes : x = <<m, c, h>>
  BY DEF HopePlaces
<1>2. ASSUME m > 0, NEW e \in Conditions, NEW k \in Hopes PROVE f[<<m - 1, e, k>>] = g[<<m - 1, e, k>>]
  <2>1. <<m - 1, e, k>> \in HopePlaces /\ m - 1 < x[1]
    BY <1>1, <1>2, PlacesHaveLevels DEF HopePlaces
  <2> QED BY <2>1 DEF AgreeBelow
<1>3. CASE ~(m > 0)
  BY <1>1, <1>3 DEF Cond
<1>4. CASE m > 0 /\ c.op = "pred"
  BY <1>1, <1>4 DEF Cond
<1>5. CASE m > 0 /\ c.op # "pred"
  <2>1. c.of \in Seq(Conditions) /\ \A i \in DOMAIN c.of : c.of[i] \in Conditions
    BY <1>5, PartsAre
  <2>2. \A i \in DOMAIN c.of : f[<<m - 1, c.of[i], h>>] = g[<<m - 1, c.of[i], h>>]
    BY <1>2, <1>5, <2>1
  <2>3. Len(c.of) = 1 => f[<<m - 1, c.of[1], UnderNot(h)>>] = g[<<m - 1, c.of[1], UnderNot(h)>>]
    <3>1. UnderNot(h) \in Hopes
      BY DEF Hopes, UnderNot
    <3> QED BY <1>2, <1>5, <2>1, <3>1
  <2> QED BY <1>1, <1>5, <2>2, <2>3 DEF Cond
<1> QED BY <1>3, <1>4, <1>5

\* The walk of a condition, level by level.
Judges(f, v) ==
  /\ f \in [HopePlaces -> BOOLEAN]
  /\ \A x \in HopePlaces : f[x] = Cond(x[2], v, x[1], x[3], f)
  /\ \A n, c, h : Match(c, v, n, h) = f[<<n, c, h>>]

\* There is such a walk.
LEMMA MatchWalk ==
  ASSUME LanguageAssumption, NEW v
  PROVE  \E f : Judges(f, v)
<1> DEFINE G == [f \in [HopePlaces -> BOOLEAN] |-> [x \in HopePlaces |-> Cond(x[2], v, x[1], x[3], f)]]
           holds == CHOOSE f : f = [x \in HopePlaces |-> Cond(x[2], v, x[1], x[3], f)]
           V == BOOLEAN
<1>1. \A f : \A x \in HopePlaces : Cond(x[2], v, x[1], x[3], f) \in BOOLEAN
  BY DEF Cond
<1>2. \A f \in [HopePlaces -> V] : G[f] \in [HopePlaces -> V]
  BY <1>1
<1>3. \A f, g \in [HopePlaces -> V] : \A x \in HopePlaces :
        AgreeBelow(HopePlaces, x, f, g) => G[f][x] = G[g][x]
  BY CondLocal
<1>4. V # {}
  OBVIOUS
<1>5. \E f \in [HopePlaces -> V] : f = G[f]
  <2> HIDE DEF G, V
  <2>1. LooksBelow(HopePlaces, V, G)
    BY <1>2, <1>3 DEF LooksBelow
  <2>2. Fixed(HopePlaces, V, G)
    BY <1>4, <2>1, PlacesHaveLevels, LevelRecursion
  <2> QED BY <2>2 DEF Fixed
<1>6. \E f : f = [x \in HopePlaces |-> Cond(x[2], v, x[1], x[3], f)]
  BY <1>5
<1>7. holds = [x \in HopePlaces |-> Cond(x[2], v, x[1], x[3], holds)]
  BY <1>6
<1>8. \A n, c, h : Match(c, v, n, h) = holds[<<n, c, h>>]
  BY DEF Match
<1> HIDE DEF holds
<1>9. holds \in [HopePlaces -> BOOLEAN] /\ \A x \in HopePlaces : holds[x] = Cond(x[2], v, x[1], x[3], holds)
  BY <1>1, <1>7
<1> QED BY <1>8, <1>9 DEF Judges

\* What a condition matches, by what its parts match.
LEMMA MatchIs ==
  ASSUME LanguageAssumption, NEW v, NEW c \in Conditions, NEW h \in Hopes
  PROVE  /\ ~Match(c, v, 0, h)
         /\ \A n \in 0..(MaxCondDepth - 1) :
              /\ c.op = "pred" =>
                   (Match(c, v, n + 1, h) <=>
                      \/ /\ h = "world" /\ c.pred \in WorldPredicates
                         /\ PredicateNeeds(c.pred) \subseteq v.kit
                      \/ Reads(c.pred, c.arg, v))
              /\ c.op = "and" =>
                   (Match(c, v, n + 1, h) <=>
                      c.of # <<>> /\ \A i \in DOMAIN c.of : Match(c.of[i], v, n, h))
              /\ c.op = "or" =>
                   (Match(c, v, n + 1, h) <=> \E i \in DOMAIN c.of : Match(c.of[i], v, n, h))
              /\ c.op = "not" =>
                   (Match(c, v, n + 1, h) <=> Len(c.of) = 1 /\ ~Match(c.of[1], v, n, UnderNot(h)))
              /\ c.op \notin {"pred", "and", "or", "not"} => ~Match(c, v, n + 1, h)
<1>1. PICK f : Judges(f, v)
  BY MatchWalk
<1>2. ASSUME NEW n \in 0..MaxCondDepth PROVE Match(c, v, n, h) = Cond(c, v, n, h, f)
  <2>1. <<n, c, h>> \in HopePlaces
    BY DEF HopePlaces
  <2> QED BY <1>1, <2>1 DEF Judges
<1>3. MaxCondDepth \in Nat
  BY PlacesHaveLevels
<1>4. ~Match(c, v, 0, h)
  <2>1. ~Cond(c, v, 0, h, f)
    BY DEF Cond
  <2> QED BY <1>2, <1>3, <2>1
<1>5. ASSUME NEW n \in 0..(MaxCondDepth - 1)
      PROVE  Match(c, v, n + 1, h) = Cond(c, v, n + 1, h, f) /\ n + 1 > 0 /\ (n + 1) - 1 = n
  BY <1>2, <1>3
<1>6. \A n, d, k : Match(d, v, n, k) = f[<<n, d, k>>]
  BY <1>1 DEF Judges
<1>7. ASSUME NEW n \in 0..(MaxCondDepth - 1)
      PROVE  /\ c.op = "pred" =>
                   (Match(c, v, n + 1, h) <=>
                      \/ /\ h = "world" /\ c.pred \in WorldPredicates
                         /\ PredicateNeeds(c.pred) \subseteq v.kit
                      \/ Reads(c.pred, c.arg, v))
             /\ c.op = "and" =>
                   (Match(c, v, n + 1, h) <=>
                      c.of # <<>> /\ \A i \in DOMAIN c.of : Match(c.of[i], v, n, h))
             /\ c.op = "or" =>
                   (Match(c, v, n + 1, h) <=> \E i \in DOMAIN c.of : Match(c.of[i], v, n, h))
             /\ c.op = "not" =>
                   (Match(c, v, n + 1, h) <=> Len(c.of) = 1 /\ ~Match(c.of[1], v, n, UnderNot(h)))
             /\ c.op \notin {"pred", "and", "or", "not"} => ~Match(c, v, n + 1, h)
  <2>1. Match(c, v, n + 1, h) = Cond(c, v, n + 1, h, f) /\ n + 1 > 0 /\ (n + 1) - 1 = n
    BY <1>5
  <2>2. CASE c.op = "pred"
    BY <2>1, <2>2 DEF Cond
  <2>3. CASE c.op = "and"
    <3>1. Cond(c, v, n + 1, h, f) = (c.of # <<>> /\ \A i \in DOMAIN c.of : f[<<n, c.of[i], h>>])
      BY <2>1, <2>3 DEF Cond
    <3>2. \A i : f[<<n, c.of[i], h>>] = Match(c.of[i], v, n, h)
      BY <1>6
    <3> QED BY <2>1, <2>3, <3>1, <3>2
  <2>4. CASE c.op = "or"
    <3>1. Cond(c, v, n + 1, h, f) = \E i \in DOMAIN c.of : f[<<n, c.of[i], h>>]
      BY <2>1, <2>4 DEF Cond
    <3>2. \A i : f[<<n, c.of[i], h>>] = Match(c.of[i], v, n, h)
      BY <1>6
    <3> QED BY <2>1, <2>4, <3>1, <3>2
  <2>5. CASE c.op = "not"
    BY <2>1, <2>5, <1>6 DEF Cond
  <2>6. CASE c.op \notin {"pred", "and", "or", "not"}
    BY <2>1, <2>6 DEF Cond
  <2> QED BY <2>2, <2>3, <2>4, <2>5, <2>6
<1> QED BY <1>4, <1>7

------------------------------------------------------------------------------
\* The walk that validates.
LEMMA CheckCondLocal ==
  ASSUME LanguageAssumption, NEW f, NEW g, NEW x \in Places, AgreeBelow(Places, x, f, g)
  PROVE  CheckCond(x[2], x[1], f) = CheckCond(x[2], x[1], g)
<1>1. PICK m \in 0..MaxCondDepth, c \in Conditions : x = <<m, c>>
  BY DEF Places
<1>2. ASSUME m > 0, NEW e \in Conditions PROVE f[<<m - 1, e>>] = g[<<m - 1, e>>]
  <2>1. <<m - 1, e>> \in Places /\ m - 1 < x[1]
    BY <1>1, <1>2, PlacesHaveLevels DEF Places
  <2> QED BY <2>1 DEF AgreeBelow
<1>3. CASE ~(m > 0)
  BY <1>1, <1>3 DEF CheckCond
<1>4. CASE m > 0 /\ c.op = "pred"
  BY <1>1, <1>4 DEF CheckCond
<1>5. CASE m > 0 /\ c.op # "pred"
  <2>1. c.of \in Seq(Conditions) /\ \A i \in DOMAIN c.of : c.of[i] \in Conditions
    BY <1>5, PartsAre
  <2>2. \A i \in DOMAIN c.of : f[<<m - 1, c.of[i]>>] = g[<<m - 1, c.of[i]>>]
    BY <1>2, <1>5, <2>1
  <2>3. Len(c.of) = 1 => f[<<m - 1, c.of[1]>>] = g[<<m - 1, c.of[1]>>]
    BY <1>2, <1>5, <2>1
  <2> QED BY <1>1, <1>5, <2>2, <2>3 DEF CheckCond
<1> QED BY <1>3, <1>4, <1>5

LEMMA CheckWalk ==
  ASSUME LanguageAssumption
  PROVE  \E f \in [Places -> BOOLEAN] :
           /\ \A x \in Places : f[x] = CheckCond(x[2], x[1], f)
           /\ \A n, c : WellFormed(c, n) = f[<<n, c>>]
<1> DEFINE G == [f \in [Places -> BOOLEAN] |-> [x \in Places |-> CheckCond(x[2], x[1], f)]]
           sound == CHOOSE f : f = [x \in Places |-> CheckCond(x[2], x[1], f)]
           V == BOOLEAN
<1>1. \A f : \A x \in Places : CheckCond(x[2], x[1], f) \in BOOLEAN
  BY DEF CheckCond
<1>2. \A f \in [Places -> V] : G[f] \in [Places -> V]
  BY <1>1
<1>3. \A f, g \in [Places -> V] : \A x \in Places : AgreeBelow(Places, x, f, g) => G[f][x] = G[g][x]
  BY CheckCondLocal
<1>4. V # {}
  OBVIOUS
<1>5. \E f \in [Places -> V] : f = G[f]
  <2> HIDE DEF G, V
  <2>1. LooksBelow(Places, V, G)
    BY <1>2, <1>3 DEF LooksBelow
  <2>2. Fixed(Places, V, G)
    BY <1>4, <2>1, PlacesHaveLevels, LevelRecursion
  <2> QED BY <2>2 DEF Fixed
<1>6. \E f : f = [x \in Places |-> CheckCond(x[2], x[1], f)]
  BY <1>5
<1>7. sound = [x \in Places |-> CheckCond(x[2], x[1], sound)]
  BY <1>6
<1>8. \A n, c : WellFormed(c, n) = sound[<<n, c>>]
  BY DEF WellFormed
<1> HIDE DEF sound
<1>9. sound \in [Places -> BOOLEAN] /\ \A x \in Places : sound[x] = CheckCond(x[2], x[1], sound)
  BY <1>1, <1>7
<1> QED BY <1>8, <1>9

\* What a well formed condition is made of.
LEMMA WellFormedIs ==
  ASSUME LanguageAssumption, NEW c \in Conditions
  PROVE  /\ ~WellFormed(c, 0)
         /\ \A n \in 0..(MaxCondDepth - 1) : WellFormed(c, n + 1) =>
              /\ c.op = "pred" =>
                   /\ c.pred \in Predicates
                   /\ ArgFits(c.pred, c.arg, PointPredicates, PercentPredicates)
              /\ c.op \in {"and", "or"} =>
                   c.of # <<>> /\ \A i \in DOMAIN c.of : WellFormed(c.of[i], n)
              /\ c.op = "not" => Len(c.of) = 1 /\ WellFormed(c.of[1], n)
              /\ c.op \in {"pred", "and", "or", "not"}
<1>1. PICK f \in [Places -> BOOLEAN] :
        /\ \A x \in Places : f[x] = CheckCond(x[2], x[1], f)
        /\ \A n, d : WellFormed(d, n) = f[<<n, d>>]
  BY CheckWalk
<1>2. ASSUME NEW n \in 0..MaxCondDepth PROVE WellFormed(c, n) = CheckCond(c, n, f)
  <2>1. <<n, c>> \in Places
    BY DEF Places
  <2> QED BY <1>1, <2>1
<1>3. MaxCondDepth \in Nat
  BY PlacesHaveLevels
<1>4. ~WellFormed(c, 0)
  <2>1. ~CheckCond(c, 0, f)
    BY DEF CheckCond
  <2> QED BY <1>2, <1>3, <2>1
<1>5. ASSUME NEW n \in 0..(MaxCondDepth - 1)
      PROVE  WellFormed(c, n + 1) = CheckCond(c, n + 1, f) /\ (n + 1) - 1 = n
  BY <1>2, <1>3
<1>6. \A n, d : WellFormed(d, n) = f[<<n, d>>]
  BY <1>1
<1> QED BY <1>4, <1>5, <1>6 DEF CheckCond

------------------------------------------------------------------------------
\* The walk that collects the leaves.
Leaf == [pred : STRING, arg : Int, neg : BOOLEAN]

LEMMA LeavesLocal ==
  ASSUME LanguageAssumption, NEW f, NEW g, NEW x \in SignPlaces, AgreeBelow(SignPlaces, x, f, g)
  PROVE  LeavesUnder(x[2], x[1], x[3], f) = LeavesUnder(x[2], x[1], x[3], g)
<1>1. PICK m \in 0..MaxCondDepth, c \in Conditions, neg \in BOOLEAN : x = <<m, c, neg>>
  BY DEF SignPlaces
<1>2. ASSUME m # 0, NEW e \in Conditions, NEW k \in BOOLEAN PROVE f[<<m - 1, e, k>>] = g[<<m - 1, e, k>>]
  <2>1. <<m - 1, e, k>> \in SignPlaces /\ m - 1 < x[1]
    BY <1>1, <1>2, PlacesHaveLevels DEF SignPlaces
  <2> QED BY <2>1 DEF AgreeBelow
<1>3. CASE m = 0 \/ c.op = "pred"
  BY <1>1, <1>3 DEF LeavesUnder
<1>4. CASE m # 0 /\ c.op # "pred"
  <2> DEFINE k == neg # (c.op = "not")
  <2>1. \A i \in DOMAIN c.of : c.of[i] \in Conditions
    BY <1>4, PartsAre
  <2>2. k \in BOOLEAN
    OBVIOUS
  <2>3. x[2] = c /\ x[1] = m /\ x[3] = neg
    BY <1>1
  <2> HIDE DEF k
  <2>4. \A i \in DOMAIN c.of : f[<<m - 1, c.of[i], k>>] = g[<<m - 1, c.of[i], k>>]
    BY <1>2, <1>4, <2>1, <2>2
  <2>5. {f[<<m - 1, c.of[i], k>>] : i \in DOMAIN c.of} = {g[<<m - 1, c.of[i], k>>] : i \in DOMAIN c.of}
    BY <2>4
  <2>6. /\ LeavesUnder(c, m, neg, f) = UNION {f[<<m - 1, c.of[i], k>>] : i \in DOMAIN c.of}
        /\ LeavesUnder(c, m, neg, g) = UNION {g[<<m - 1, c.of[i], k>>] : i \in DOMAIN c.of}
    BY <1>4 DEF LeavesUnder, k
  <2> QED BY <2>3, <2>5, <2>6
<1> QED BY <1>3, <1>4

\* That walk, level by level.
Collects(f) ==
  /\ \A x \in SignPlaces : f[x] = LeavesUnder(x[2], x[1], x[3], f)
  /\ \A n, c, neg : Leaves(c, n, neg) = f[<<n, c, neg>>]

LEMMA LeavesWalk ==
  ASSUME LanguageAssumption
  PROVE  \E f : Collects(f)
<1> DEFINE G == [f \in [SignPlaces -> SUBSET Leaf] |->
                   [x \in SignPlaces |-> LeavesUnder(x[2], x[1], x[3], f)]]
           leaves == CHOOSE f : f = [x \in SignPlaces |-> LeavesUnder(x[2], x[1], x[3], f)]
           V == SUBSET Leaf
<1>1. ASSUME NEW f \in [SignPlaces -> V], NEW x \in SignPlaces PROVE LeavesUnder(x[2], x[1], x[3], f) \in V
  <2>1. PICK m \in 0..MaxCondDepth, c \in Conditions, neg \in BOOLEAN : x = <<m, c, neg>>
    BY DEF SignPlaces
  <2>2. x[2] = c /\ x[1] = m /\ x[3] = neg
    BY <2>1
  <2>3. CASE m = 0
    BY <2>2, <2>3 DEF LeavesUnder
  <2>4. CASE m # 0 /\ c.op = "pred"
    <3>1. c.pred \in STRING /\ c.arg \in Int
      BY <2>4 DEF LanguageAssumption
    <3> QED BY <2>2, <2>4, <3>1 DEF LeavesUnder, Leaf
  <2>5. CASE m # 0 /\ c.op # "pred"
    <3> DEFINE k == neg # (c.op = "not")
    <3>1. \A i \in DOMAIN c.of : c.of[i] \in Conditions
      BY <2>5, PartsAre
    <3>2. k \in BOOLEAN /\ m - 1 \in 0..MaxCondDepth
      BY <2>5, PlacesHaveLevels
    <3> HIDE DEF k
    <3>3. \A i \in DOMAIN c.of : <<m - 1, c.of[i], k>> \in SignPlaces
      BY <3>1, <3>2 DEF SignPlaces
    <3>4. \A i \in DOMAIN c.of : f[<<m - 1, c.of[i], k>>] \subseteq Leaf
      BY <3>3
    <3>5. LeavesUnder(c, m, neg, f) = UNION {f[<<m - 1, c.of[i], k>>] : i \in DOMAIN c.of}
      BY <2>5 DEF LeavesUnder, k
    <3>6. UNION {f[<<m - 1, c.of[i], k>>] : i \in DOMAIN c.of} \subseteq Leaf
      BY <3>4
    <3> QED BY <2>2, <3>5, <3>6
  <2> QED BY <2>3, <2>4, <2>5
<1>2. \A f \in [SignPlaces -> V] : G[f] \in [SignPlaces -> V]
  BY <1>1
<1>3. \A f, g \in [SignPlaces -> V] : \A x \in SignPlaces :
        AgreeBelow(SignPlaces, x, f, g) => G[f][x] = G[g][x]
  BY LeavesLocal
<1>4. V # {}
  OBVIOUS
<1>5. \E f \in [SignPlaces -> V] : f = G[f]
  <2> HIDE DEF G, V
  <2>1. LooksBelow(SignPlaces, V, G)
    BY <1>2, <1>3 DEF LooksBelow
  <2>2. Fixed(SignPlaces, V, G)
    BY <1>4, <2>1, PlacesHaveLevels, LevelRecursion
  <2> QED BY <2>2 DEF Fixed
<1>6. PICK h \in [SignPlaces -> V] : h = [x \in SignPlaces |-> LeavesUnder(x[2], x[1], x[3], h)]
  BY <1>5
<1>7. leaves = [x \in SignPlaces |-> LeavesUnder(x[2], x[1], x[3], leaves)]
  BY <1>6
<1>8. \A n, c, neg : Leaves(c, n, neg) = leaves[<<n, c, neg>>]
  BY DEF Leaves
<1> HIDE DEF leaves
<1>9. \A x \in SignPlaces : leaves[x] = LeavesUnder(x[2], x[1], x[3], leaves)
  BY <1>7
<1> QED BY <1>8, <1>9 DEF Collects

\* The leaves of a condition, by those of its parts.
LEMMA LeavesIs ==
  ASSUME LanguageAssumption, NEW c \in Conditions, NEW neg \in BOOLEAN,
         NEW n \in 0..(MaxCondDepth - 1)
  PROVE  /\ c.op = "pred" => Leaves(c, n + 1, neg) = {[pred |-> c.pred, arg |-> c.arg, neg |-> neg]}
         /\ c.op # "pred" =>
              Leaves(c, n + 1, neg) = UNION {Leaves(c.of[i], n, neg # (c.op = "not")) : i \in DOMAIN c.of}
<1>1. PICK f : Collects(f)
  BY LeavesWalk
<1>2. n + 1 \in 0..MaxCondDepth /\ n + 1 # 0 /\ (n + 1) - 1 = n
  BY PlacesHaveLevels
<1>3. Leaves(c, n + 1, neg) = LeavesUnder(c, n + 1, neg, f)
  <2>1. <<n + 1, c, neg>> \in SignPlaces
    BY <1>2 DEF SignPlaces
  <2> QED BY <1>1, <2>1 DEF Collects
<1>4. \A d, k : Leaves(d, n, k) = f[<<n, d, k>>]
  BY <1>1 DEF Collects
<1>5. CASE c.op = "pred"
  BY <1>2, <1>3, <1>5 DEF LeavesUnder
<1>6. CASE c.op # "pred"
  <2> DEFINE k == neg # (c.op = "not")
  <2>1. LeavesUnder(c, n + 1, neg, f) = UNION {f[<<n, c.of[i], k>>] : i \in DOMAIN c.of}
    BY <1>2, <1>6 DEF LeavesUnder
  <2> HIDE DEF k
  <2>2. {f[<<n, c.of[i], k>>] : i \in DOMAIN c.of} = {Leaves(c.of[i], n, k) : i \in DOMAIN c.of}
    BY <1>4
  <2> QED BY <1>3, <1>6, <2>1, <2>2 DEF k
<1> QED BY <1>5, <1>6

------------------------------------------------------------------------------
\* The walk that collects the predicates of a pure conjunction.
LEMMA ConjunctsLocal ==
  ASSUME LanguageAssumption, NEW f, NEW g, NEW x \in Places, AgreeBelow(Places, x, f, g)
  PROVE  ConjunctsOf(x[2], x[1], f) = ConjunctsOf(x[2], x[1], g)
<1>1. PICK m \in 0..MaxCondDepth, c \in Conditions : x = <<m, c>>
  BY DEF Places
<1>2. ASSUME m # 0, NEW e \in Conditions PROVE f[<<m - 1, e>>] = g[<<m - 1, e>>]
  <2>1. <<m - 1, e>> \in Places /\ m - 1 < x[1]
    BY <1>1, <1>2, PlacesHaveLevels DEF Places
  <2> QED BY <2>1 DEF AgreeBelow
<1>3. x[2] = c /\ x[1] = m
  BY <1>1
<1>4. CASE m = 0 \/ c.op = "pred"
  BY <1>3, <1>4 DEF ConjunctsOf
<1>5. CASE m # 0 /\ c.op # "pred"
  <2>1. \A i \in DOMAIN c.of : c.of[i] \in Conditions
    BY <1>5, PartsAre
  <2>2. \A i \in DOMAIN c.of : f[<<m - 1, c.of[i]>>] = g[<<m - 1, c.of[i]>>]
    BY <1>2, <1>5, <2>1
  <2>3. {f[<<m - 1, c.of[i]>>] : i \in DOMAIN c.of} = {g[<<m - 1, c.of[i]>>] : i \in DOMAIN c.of}
    BY <2>2
  <2>4. ConjunctsOf(c, m, f) = ConjunctsOf(c, m, g)
    BY <1>5, <2>3 DEF ConjunctsOf
  <2> QED BY <1>3, <2>4
<1> QED BY <1>4, <1>5

\* That walk, level by level.
Joins(f) ==
  /\ \A x \in Places : f[x] = ConjunctsOf(x[2], x[1], f)
  /\ \A n, c : Conjuncts(c, n) = f[<<n, c>>]

LEMMA ConjunctsWalk ==
  ASSUME LanguageAssumption
  PROVE  \E f : Joins(f)
<1> DEFINE V == SUBSET (STRING \X Int)
           G == [f \in [Places -> V] |-> [x \in Places |-> ConjunctsOf(x[2], x[1], f)]]
           joined == CHOOSE f : f = [x \in Places |-> ConjunctsOf(x[2], x[1], f)]
<1>1. ASSUME NEW f \in [Places -> V], NEW x \in Places PROVE ConjunctsOf(x[2], x[1], f) \in V
  <2>1. PICK m \in 0..MaxCondDepth, c \in Conditions : x = <<m, c>>
    BY DEF Places
  <2>2. x[2] = c /\ x[1] = m
    BY <2>1
  <2>3. CASE m = 0
    BY <2>2, <2>3 DEF ConjunctsOf
  <2>4. CASE m # 0 /\ c.op = "pred"
    <3>1. c.pred \in STRING /\ c.arg \in Int
      BY <2>4 DEF LanguageAssumption
    <3> QED BY <2>2, <2>4, <3>1 DEF ConjunctsOf
  <2>5. CASE m # 0 /\ c.op # "pred"
    <3> DEFINE parts == {f[<<m - 1, c.of[i]>>] : i \in DOMAIN c.of}
    <3>1. \A i \in DOMAIN c.of : c.of[i] \in Conditions
      BY <2>5, PartsAre
    <3>2. m - 1 \in 0..MaxCondDepth
      BY <2>5, PlacesHaveLevels
    <3>3. \A i \in DOMAIN c.of : <<m - 1, c.of[i]>> \in Places
      BY <3>1, <3>2 DEF Places
    <3>4. \A i \in DOMAIN c.of : f[<<m - 1, c.of[i]>>] \subseteq STRING \X Int
      BY <3>3
    <3>5. UNION parts \subseteq STRING \X Int
      BY <3>4
    <3>6. ConjunctsOf(c, m, f) = IF c.op # "and" \/ {} \in parts THEN {} ELSE UNION parts
      BY <2>5 DEF ConjunctsOf
    <3> HIDE DEF parts
    <3> QED BY <2>2, <3>5, <3>6
  <2> QED BY <2>3, <2>4, <2>5
<1>2. \A f \in [Places -> V] : G[f] \in [Places -> V]
  BY <1>1
<1>3. \A f, g \in [Places -> V] : \A x \in Places : AgreeBelow(Places, x, f, g) => G[f][x] = G[g][x]
  BY ConjunctsLocal
<1>4. V # {}
  OBVIOUS
<1>5. \E f \in [Places -> V] : f = G[f]
  <2> HIDE DEF G, V
  <2>1. LooksBelow(Places, V, G)
    BY <1>2, <1>3 DEF LooksBelow
  <2>2. Fixed(Places, V, G)
    BY <1>4, <2>1, PlacesHaveLevels, LevelRecursion
  <2> QED BY <2>2 DEF Fixed
<1>6. \E h : h = [x \in Places |-> ConjunctsOf(x[2], x[1], h)]
  BY <1>5
<1>7. joined = [x \in Places |-> ConjunctsOf(x[2], x[1], joined)]
  BY <1>6
<1>8. \A n, c : Conjuncts(c, n) = joined[<<n, c>>]
  BY DEF Conjuncts
<1> HIDE DEF joined
<1>9. \A x \in Places : joined[x] = ConjunctsOf(x[2], x[1], joined)
  BY <1>7
<1> QED BY <1>8, <1>9 DEF Joins

\* The conjuncts of a condition, by those of its parts.
LEMMA ConjunctsIs ==
  ASSUME LanguageAssumption, NEW c \in Conditions
  PROVE  /\ Conjuncts(c, 0) = {}
         /\ \A n \in 0..(MaxCondDepth - 1) :
              /\ c.op = "pred" => Conjuncts(c, n + 1) = {<<c.pred, c.arg>>}
              /\ c.op # "pred" => LET parts == {Conjuncts(c.of[i], n) : i \in DOMAIN c.of} IN
                   Conjuncts(c, n + 1) = IF c.op # "and" \/ {} \in parts THEN {} ELSE UNION parts
<1>1. PICK f : Joins(f)
  BY ConjunctsWalk
<1>2. ASSUME NEW n \in 0..MaxCondDepth PROVE Conjuncts(c, n) = ConjunctsOf(c, n, f)
  <2>1. <<n, c>> \in Places
    BY DEF Places
  <2> QED BY <1>1, <2>1 DEF Joins
<1>3. Conjuncts(c, 0) = {}
  BY <1>2, PlacesHaveLevels DEF ConjunctsOf
<1>4. ASSUME NEW n \in 0..(MaxCondDepth - 1), c.op = "pred" PROVE Conjuncts(c, n + 1) = {<<c.pred, c.arg>>}
  BY <1>2, <1>4, PlacesHaveLevels DEF ConjunctsOf
<1>5. ASSUME NEW n \in 0..(MaxCondDepth - 1), c.op # "pred"
      PROVE  LET parts == {Conjuncts(c.of[i], n) : i \in DOMAIN c.of} IN
               Conjuncts(c, n + 1) = IF c.op # "and" \/ {} \in parts THEN {} ELSE UNION parts
  <2> DEFINE parts == {Conjuncts(c.of[i], n) : i \in DOMAIN c.of}
             lower == {f[<<n, c.of[i]>>] : i \in DOMAIN c.of}
  <2>1. Conjuncts(c, n + 1) = ConjunctsOf(c, n + 1, f) /\ n + 1 # 0 /\ (n + 1) - 1 = n
    BY <1>2, PlacesHaveLevels
  <2>2. \A i : Conjuncts(c.of[i], n) = f[<<n, c.of[i]>>]
    BY <1>1 DEF Joins
  <2>3. parts = lower
    BY <2>2
  <2>4. ConjunctsOf(c, n + 1, f) = IF c.op # "and" \/ {} \in lower THEN {} ELSE UNION lower
    BY <1>5, <2>1 DEF ConjunctsOf
  <2> QED BY <2>1, <2>3, <2>4
<1> QED BY <1>3, <1>4, <1>5

------------------------------------------------------------------------------
\* The walk that reads a condition off the rows of a table.
LEMMA SaidLocal ==
  ASSUME LanguageAssumption, NEW rows, NEW f, NEW g, NEW x \in Places, AgreeBelow(Places, x, f, g)
  PROVE  SaidByRows(x[2], rows, x[1], f) = SaidByRows(x[2], rows, x[1], g)
<1>1. PICK m \in 0..MaxCondDepth, c \in Conditions : x = <<m, c>>
  BY DEF Places
<1>2. ASSUME m > 0, NEW e \in Conditions PROVE f[<<m - 1, e>>] = g[<<m - 1, e>>]
  <2>1. <<m - 1, e>> \in Places /\ m - 1 < x[1]
    BY <1>1, <1>2, PlacesHaveLevels DEF Places
  <2> QED BY <2>1 DEF AgreeBelow
<1>3. CASE ~(m > 0)
  BY <1>1, <1>3 DEF SaidByRows
<1>4. CASE m > 0 /\ c.op = "pred"
  BY <1>1, <1>4 DEF SaidByRows
<1>5. CASE m > 0 /\ c.op # "pred"
  <2>1. c.of \in Seq(Conditions) /\ \A i \in DOMAIN c.of : c.of[i] \in Conditions
    BY <1>5, PartsAre
  <2>2. \A i \in DOMAIN c.of : f[<<m - 1, c.of[i]>>] = g[<<m - 1, c.of[i]>>]
    BY <1>2, <1>5, <2>1
  <2>3. Len(c.of) = 1 => f[<<m - 1, c.of[1]>>] = g[<<m - 1, c.of[1]>>]
    BY <1>2, <1>5, <2>1
  <2> QED BY <1>1, <1>5, <2>2, <2>3 DEF SaidByRows
<1> QED BY <1>3, <1>4, <1>5

\* That walk, level by level.
Bears(f, rows) ==
  /\ \A x \in Places : f[x] = SaidByRows(x[2], rows, x[1], f)
  /\ \A n, c : TableSays(c, rows, n) = f[<<n, c>>]

LEMMA SaidWalk ==
  ASSUME LanguageAssumption, NEW rows
  PROVE  \E f : Bears(f, rows)
<1> DEFINE G == [f \in [Places -> BOOLEAN] |-> [x \in Places |-> SaidByRows(x[2], rows, x[1], f)]]
           said == CHOOSE f : f = [x \in Places |-> SaidByRows(x[2], rows, x[1], f)]
           V == BOOLEAN
<1>1. \A f : \A x \in Places : SaidByRows(x[2], rows, x[1], f) \in BOOLEAN
  BY DEF SaidByRows
<1>2. \A f \in [Places -> V] : G[f] \in [Places -> V]
  BY <1>1
<1>3. \A f, g \in [Places -> V] : \A x \in Places : AgreeBelow(Places, x, f, g) => G[f][x] = G[g][x]
  BY SaidLocal
<1>4. V # {}
  OBVIOUS
<1>5. \E f \in [Places -> V] : f = G[f]
  <2> HIDE DEF G, V
  <2>1. LooksBelow(Places, V, G)
    BY <1>2, <1>3 DEF LooksBelow
  <2>2. Fixed(Places, V, G)
    BY <1>4, <2>1, PlacesHaveLevels, LevelRecursion
  <2> QED BY <2>2 DEF Fixed
<1>6. \E f : f = [x \in Places |-> SaidByRows(x[2], rows, x[1], f)]
  BY <1>5
<1>7. said = [x \in Places |-> SaidByRows(x[2], rows, x[1], said)]
  BY <1>6
<1>8. \A n, c : TableSays(c, rows, n) = said[<<n, c>>]
  BY DEF TableSays
<1> HIDE DEF said
<1>9. \A x \in Places : said[x] = SaidByRows(x[2], rows, x[1], said)
  BY <1>7
<1> QED BY <1>8, <1>9 DEF Bears

\* What the rows say of a condition, by what they say of its parts.
LEMMA TableSaysIs ==
  ASSUME LanguageAssumption, NEW rows, NEW c \in Conditions, NEW n \in 0..(MaxCondDepth - 1)
  PROVE  /\ c.op = "pred" =>
              (TableSays(c, rows, n + 1) <=>
                 \E row \in rows : row.pred = c.pred /\ row.arg = c.arg /\ ~row.unknown /\ row.true)
         /\ c.op = "and" => (TableSays(c, rows, n + 1) <=> \A i \in DOMAIN c.of : TableSays(c.of[i], rows, n))
         /\ c.op = "or" => (TableSays(c, rows, n + 1) <=> \E i \in DOMAIN c.of : TableSays(c.of[i], rows, n))
         /\ c.op = "not" => (TableSays(c, rows, n + 1) <=> Len(c.of) = 1 /\ ~TableSays(c.of[1], rows, n))
<1>1. PICK f : Bears(f, rows)
  BY SaidWalk
<1>2. n + 1 \in 0..MaxCondDepth /\ n + 1 > 0 /\ (n + 1) - 1 = n
  BY PlacesHaveLevels
<1>3. TableSays(c, rows, n + 1) = SaidByRows(c, rows, n + 1, f)
  <2>1. <<n + 1, c>> \in Places
    BY <1>2 DEF Places
  <2> QED BY <1>1, <2>1 DEF Bears
<1>4. \A d : TableSays(d, rows, n) = f[<<n, d>>]
  BY <1>1 DEF Bears
<1>5. CASE c.op = "pred"
  BY <1>2, <1>3, <1>5 DEF SaidByRows
<1>6. CASE c.op = "and"
  <2>1. SaidByRows(c, rows, n + 1, f) = \A i \in DOMAIN c.of : f[<<n, c.of[i]>>]
    BY <1>2, <1>6 DEF SaidByRows
  <2>2. \A i : f[<<n, c.of[i]>>] = TableSays(c.of[i], rows, n)
    BY <1>4
  <2> QED BY <1>3, <1>6, <2>1, <2>2
<1>7. CASE c.op = "or"
  <2>1. SaidByRows(c, rows, n + 1, f) = \E i \in DOMAIN c.of : f[<<n, c.of[i]>>]
    BY <1>2, <1>7 DEF SaidByRows
  <2>2. \A i : f[<<n, c.of[i]>>] = TableSays(c.of[i], rows, n)
    BY <1>4
  <2> QED BY <1>3, <1>7, <2>1, <2>2
<1>8. CASE c.op = "not"
  BY <1>2, <1>3, <1>4, <1>8 DEF SaidByRows
<1>9. CASE c.op \notin {"pred", "and", "or", "not"}
  BY <1>9
<1> QED BY <1>5, <1>6, <1>7, <1>8, <1>9

------------------------------------------------------------------------------
\* What a table that tells of some leaves says of a condition that has no others.
RowsTell(rows, leaves, v) ==
  \A l \in leaves :
    l.pred \in Predicates /\ ArgFits(l.pred, l.arg, PointPredicates, PercentPredicates) =>
      ((\E row \in rows : row.pred = l.pred /\ row.arg = l.arg /\ ~row.unknown /\ row.true)
         <=> Reads(l.pred, l.arg, v))

\* The same as the matcher.
LEMMA TableTells ==
  ASSUME LanguageAssumption, NEW v, NEW rows, NEW leaves, RowsTell(rows, leaves, v)
  PROVE  \A n \in 0..MaxCondDepth : \A c \in Conditions, neg \in BOOLEAN :
           WellFormed(c, n) /\ Leaves(c, n, neg) \subseteq leaves =>
             (TableSays(c, rows, n) <=> Match(c, v, n, "off"))
<1> DEFINE F == {n \in Nat : n <= MaxCondDepth =>
                   \A c \in Conditions, neg \in BOOLEAN :
                     WellFormed(c, n) /\ Leaves(c, n, neg) \subseteq leaves =>
                       (TableSays(c, rows, n) <=> Match(c, v, n, "off"))}
<1>1. 0 \in F
  BY WellFormedIs
<1>2. ASSUME NEW n \in Nat, n \in F PROVE n + 1 \in F
  <2> SUFFICES ASSUME n + 1 <= MaxCondDepth, NEW c \in Conditions, NEW neg \in BOOLEAN,
                      WellFormed(c, n + 1), Leaves(c, n + 1, neg) \subseteq leaves
               PROVE  TableSays(c, rows, n + 1) <=> Match(c, v, n + 1, "off")
    OBVIOUS
  <2>1. n \in 0..(MaxCondDepth - 1) /\ n <= MaxCondDepth
    BY PlacesHaveLevels
  <2>2. \A d \in Conditions, k \in BOOLEAN : WellFormed(d, n) /\ Leaves(d, n, k) \subseteq leaves =>
          (TableSays(d, rows, n) <=> Match(d, v, n, "off"))
    BY <1>2, <2>1
  <2> HIDE DEF F
  <2>3. "off" \in Hopes /\ UnderNot("off") = "off"
    BY DEF Hopes, UnderNot
  <2>4. CASE c.op = "pred"
    <3>1. c.pred \in Predicates /\ ArgFits(c.pred, c.arg, PointPredicates, PercentPredicates)
      BY <2>1, <2>4, WellFormedIs
    <3>2. Match(c, v, n + 1, "off") <=> Reads(c.pred, c.arg, v)
      BY <2>1, <2>3, <2>4, MatchIs
    <3>3. [pred |-> c.pred, arg |-> c.arg, neg |-> neg] \in leaves
      BY <2>1, <2>4, LeavesIs
    <3>4. TableSays(c, rows, n + 1) <=>
            \E row \in rows : row.pred = c.pred /\ row.arg = c.arg /\ ~row.unknown /\ row.true
      BY <2>1, <2>4, TableSaysIs
    <3> QED BY <3>1, <3>2, <3>3, <3>4 DEF RowsTell
  <2>5. CASE c.op # "pred"
    <3> DEFINE k == neg # (c.op = "not")
    <3>1. c.of \in Seq(Conditions) /\ \A i \in DOMAIN c.of : c.of[i] \in Conditions
      BY <2>5, PartsAre
    <3>2. k \in BOOLEAN
      OBVIOUS
    <3>3. Leaves(c, n + 1, neg) = UNION {Leaves(c.of[i], n, k) : i \in DOMAIN c.of}
      BY <2>1, <2>5, LeavesIs
    <3> HIDE DEF k
    <3>4. \A i \in DOMAIN c.of : Leaves(c.of[i], n, k) \subseteq leaves
      BY <3>3
    <3>5. \A i \in DOMAIN c.of : WellFormed(c.of[i], n) =>
            (TableSays(c.of[i], rows, n) <=> Match(c.of[i], v, n, "off"))
      BY <2>2, <3>1, <3>2, <3>4
    <3>6. CASE c.op = "and"
      <4>1. c.of # <<>> /\ \A i \in DOMAIN c.of : WellFormed(c.of[i], n)
        BY <2>1, <3>6, WellFormedIs
      <4>2. Match(c, v, n + 1, "off") <=> \A i \in DOMAIN c.of : Match(c.of[i], v, n, "off")
        BY <2>1, <2>3, <3>6, <4>1, MatchIs
      <4>3. TableSays(c, rows, n + 1) <=> \A i \in DOMAIN c.of : TableSays(c.of[i], rows, n)
        BY <2>1, <3>6, TableSaysIs
      <4> QED BY <3>5, <4>1, <4>2, <4>3
    <3>7. CASE c.op = "or"
      <4>1. \A i \in DOMAIN c.of : WellFormed(c.of[i], n)
        BY <2>1, <3>7, WellFormedIs
      <4>2. Match(c, v, n + 1, "off") <=> \E i \in DOMAIN c.of : Match(c.of[i], v, n, "off")
        BY <2>1, <2>3, <3>7, MatchIs
      <4>3. TableSays(c, rows, n + 1) <=> \E i \in DOMAIN c.of : TableSays(c.of[i], rows, n)
        BY <2>1, <3>7, TableSaysIs
      <4> QED BY <3>5, <4>1, <4>2, <4>3
    <3>8. CASE c.op = "not"
      <4>1. Len(c.of) = 1 /\ WellFormed(c.of[1], n)
        BY <2>1, <3>8, WellFormedIs
      <4>2. Match(c, v, n + 1, "off") <=> ~Match(c.of[1], v, n, "off")
        <5>1. Match(c, v, n + 1, "off") <=> Len(c.of) = 1 /\ ~Match(c.of[1], v, n, UnderNot("off"))
          BY <2>1, <2>3, <3>8, MatchIs
        <5> QED BY <2>3, <4>1, <5>1
      <4>3. TableSays(c, rows, n + 1) <=> ~TableSays(c.of[1], rows, n)
        BY <2>1, <3>8, <4>1, TableSaysIs
      <4>4. 1 \in DOMAIN c.of
        BY <3>1, <4>1
      <4> QED BY <3>5, <4>1, <4>2, <4>3, <4>4
    <3>9. c.op \in {"and", "or", "not"}
      BY <2>1, <2>5, WellFormedIs
    <3> QED BY <3>6, <3>7, <3>8, <3>9
  <2> QED BY <2>4, <2>5
<1> HIDE DEF F
<1>3. \A n \in Nat : n \in F
  BY <1>1, <1>2, NumberInduction
<1> QED BY <1>3, PlacesHaveLevels DEF F

\* A pure conjunction holds when every one of its predicates does.
LEMMA ConjunctsTell ==
  ASSUME LanguageAssumption, NEW v
  PROVE  \A n \in 0..MaxCondDepth : \A c \in Conditions :
           Conjuncts(c, n) # {} =>
             (Match(c, v, n, "off") <=> \A q \in Conjuncts(c, n) : Reads(q[1], q[2], v))
<1> DEFINE Tells(c, n) == Conjuncts(c, n) # {} =>
             (Match(c, v, n, "off") <=> \A q \in Conjuncts(c, n) : Reads(q[1], q[2], v))
           F == {n \in Nat : n <= MaxCondDepth => \A c \in Conditions : Tells(c, n)}
<1>1. 0 \in F
  BY ConjunctsIs
<1>2. ASSUME NEW n \in Nat, n \in F PROVE n + 1 \in F
  <2> SUFFICES ASSUME n + 1 <= MaxCondDepth, NEW c \in Conditions, Conjuncts(c, n + 1) # {}
               PROVE  Match(c, v, n + 1, "off") <=> \A q \in Conjuncts(c, n + 1) : Reads(q[1], q[2], v)
    OBVIOUS
  <2>1. n \in 0..(MaxCondDepth - 1) /\ n <= MaxCondDepth
    BY PlacesHaveLevels
  <2>2. \A d \in Conditions : Tells(d, n)
    BY <1>2, <2>1
  <2> HIDE DEF F
  <2>3. "off" \in Hopes /\ "off" # "world"
    BY DEF Hopes
  <2>4. CASE c.op = "pred"
    <3>1. Conjuncts(c, n + 1) = {<<c.pred, c.arg>>}
      BY <2>1, <2>4, ConjunctsIs
    <3>2. Match(c, v, n + 1, "off") <=> Reads(c.pred, c.arg, v)
      BY <2>1, <2>3, <2>4, MatchIs
    <3> QED BY <3>1, <3>2
  <2>5. CASE c.op # "pred"
    <3> DEFINE parts == {Conjuncts(c.of[i], n) : i \in DOMAIN c.of}
    <3>1. \A i \in DOMAIN c.of : c.of[i] \in Conditions
      BY <2>5, PartsAre
    <3>2. Conjuncts(c, n + 1) = IF c.op # "and" \/ {} \in parts THEN {} ELSE UNION parts
      BY <2>1, <2>5, ConjunctsIs
    <3>3. c.op = "and" /\ {} \notin parts /\ Conjuncts(c, n + 1) = UNION parts
      BY <3>2
    <3>4. c.of # <<>>
      <4>1. SUFFICES ASSUME c.of = <<>> PROVE FALSE
        OBVIOUS
      <4>2. parts = {}
        BY <4>1
      <4> QED BY <3>3, <4>2
    <3>5. Match(c, v, n + 1, "off") <=> \A i \in DOMAIN c.of : Match(c.of[i], v, n, "off")
      BY <2>1, <2>3, <3>3, <3>4, MatchIs
    <3>6. \A i \in DOMAIN c.of : Conjuncts(c.of[i], n) # {}
      BY <3>3
    <3>7. \A i \in DOMAIN c.of :
            Match(c.of[i], v, n, "off") <=> \A q \in Conjuncts(c.of[i], n) : Reads(q[1], q[2], v)
      BY <2>2, <3>1, <3>6
    <3>8. (\A q \in Conjuncts(c, n + 1) : Reads(q[1], q[2], v)) <=>
            \A i \in DOMAIN c.of : \A q \in Conjuncts(c.of[i], n) : Reads(q[1], q[2], v)
      BY <3>3
    <3> QED BY <3>5, <3>7, <3>8
  <2> QED BY <2>4, <2>5
<1> HIDE DEF F
<1>3. \A n \in Nat : n \in F
  BY <1>1, <1>2, NumberInduction
<1> QED BY <1>3, PlacesHaveLevels DEF F

\* v shows nothing that w does not show or hope for, and w nothing that v does not show.
Hopeful(v, w) ==
  \A q, a :
    /\ Reads(q, a, v) =>
         (q \in WorldPredicates /\ PredicateNeeds(q) \subseteq w.kit) \/ Reads(q, a, w)
    /\ Reads(q, a, w) => Reads(q, a, v)

\* Then the hopeful walk of w holds wherever that of v does, and the fearful one
\* nowhere else.
LEMMA HopeTells ==
  ASSUME LanguageAssumption, NEW v, NEW w, Hopeful(v, w)
  PROVE  \A n \in 0..MaxCondDepth : \A c \in Conditions :
           /\ Match(c, v, n, "off") => Match(c, w, n, "world")
           /\ Match(c, w, n, "clean") => Match(c, v, n, "off")
<1> DEFINE F == {n \in Nat : n <= MaxCondDepth => \A c \in Conditions :
                   /\ Match(c, v, n, "off") => Match(c, w, n, "world")
                   /\ Match(c, w, n, "clean") => Match(c, v, n, "off")}
<1>1. Hopes = {"off", "world", "clean"} /\ UnderNot("off") = "off" /\ UnderNot("world") = "clean"
      /\ UnderNot("clean") = "world"
  BY DEF Hopes, UnderNot
<1>2. 0 \in F
  BY <1>1, MatchIs
<1>3. ASSUME NEW n \in Nat, n \in F PROVE n + 1 \in F
  <2> SUFFICES ASSUME n + 1 <= MaxCondDepth, NEW c \in Conditions
               PROVE  /\ Match(c, v, n + 1, "off") => Match(c, w, n + 1, "world")
                      /\ Match(c, w, n + 1, "clean") => Match(c, v, n + 1, "off")
    OBVIOUS
  <2>1. n \in 0..(MaxCondDepth - 1) /\ n <= MaxCondDepth
    BY PlacesHaveLevels
  <2>2. \A d \in Conditions : /\ Match(d, v, n, "off") => Match(d, w, n, "world")
                              /\ Match(d, w, n, "clean") => Match(d, v, n, "off")
    BY <1>3, <2>1
  <2> HIDE DEF F
  <2>3. "off" \in Hopes /\ "world" \in Hopes /\ "clean" \in Hopes /\ "clean" # "world" /\ "off" # "world"
    BY <1>1
  <2>4. CASE c.op = "pred"
    <3>1. Match(c, v, n + 1, "off") <=> Reads(c.pred, c.arg, v)
      BY <2>1, <2>3, <2>4, MatchIs
    <3>2. Match(c, w, n + 1, "clean") <=> Reads(c.pred, c.arg, w)
      BY <2>1, <2>3, <2>4, MatchIs
    <3>3. Match(c, w, n + 1, "world") <=>
            \/ c.pred \in WorldPredicates /\ PredicateNeeds(c.pred) \subseteq w.kit
            \/ Reads(c.pred, c.arg, w)
      BY <2>1, <2>3, <2>4, MatchIs
    <3> QED BY <3>1, <3>2, <3>3 DEF Hopeful
  <2>5. CASE c.op # "pred"
    <3>1. c.of \in Seq(Conditions) /\ \A i \in DOMAIN c.of : c.of[i] \in Conditions
      BY <2>5, PartsAre
    <3>2. CASE c.op = "and"
      <4>1. \A h \in Hopes : /\ Match(c, v, n + 1, h) <=>
                                  c.of # <<>> /\ \A i \in DOMAIN c.of : Match(c.of[i], v, n, h)
                             /\ Match(c, w, n + 1, h) <=>
                                  c.of # <<>> /\ \A i \in DOMAIN c.of : Match(c.of[i], w, n, h)
        BY <2>1, <3>2, MatchIs
      <4> QED BY <2>2, <2>3, <3>1, <4>1
    <3>3. CASE c.op = "or"
      <4>1. \A h \in Hopes : /\ Match(c, v, n + 1, h) <=> \E i \in DOMAIN c.of : Match(c.of[i], v, n, h)
                             /\ Match(c, w, n + 1, h) <=> \E i \in DOMAIN c.of : Match(c.of[i], w, n, h)
        BY <2>1, <3>3, MatchIs
      <4> QED BY <2>2, <2>3, <3>1, <4>1
    <3>4. CASE c.op = "not"
      <4>1. /\ Match(c, v, n + 1, "off") <=> Len(c.of) = 1 /\ ~Match(c.of[1], v, n, "off")
            /\ Match(c, w, n + 1, "world") <=> Len(c.of) = 1 /\ ~Match(c.of[1], w, n, "clean")
            /\ Match(c, w, n + 1, "clean") <=> Len(c.of) = 1 /\ ~Match(c.of[1], w, n, "world")
        <5>1. \A h \in Hopes :
                /\ Match(c, v, n + 1, h) <=> Len(c.of) = 1 /\ ~Match(c.of[1], v, n, UnderNot(h))
                /\ Match(c, w, n + 1, h) <=> Len(c.of) = 1 /\ ~Match(c.of[1], w, n, UnderNot(h))
          BY <2>1, <3>4, MatchIs
        <5> QED BY <1>1, <2>3, <5>1
      <4>2. Len(c.of) = 1 => c.of[1] \in Conditions
        BY <3>1
      <4> QED BY <2>2, <4>1, <4>2
    <3>5. CASE c.op \notin {"and", "or", "not"}
      BY <2>1, <2>3, <2>5, <3>5, MatchIs
    <3> QED BY <3>2, <3>3, <3>4, <3>5
  <2> QED BY <2>4, <2>5
<1> HIDE DEF F
<1>4. \A n \in Nat : n \in F
  BY <1>2, <1>3, NumberInduction
<1> QED BY <1>4, PlacesHaveLevels DEF F

\* What reads alike holds alike.
LEMMA AlikeTells ==
  ASSUME LanguageAssumption, NEW v, NEW w, \A q, a : Reads(q, a, v) <=> Reads(q, a, w)
  PROVE  \A n \in 0..MaxCondDepth : \A c \in Conditions : Match(c, v, n, "off") <=> Match(c, w, n, "off")
<1> DEFINE F == {n \in Nat : n <= MaxCondDepth => \A c \in Conditions :
                   Match(c, v, n, "off") <=> Match(c, w, n, "off")}
<1>1. "off" \in Hopes /\ UnderNot("off") = "off" /\ "off" # "world"
  BY DEF Hopes, UnderNot
<1>2. 0 \in F
  BY <1>1, MatchIs
<1>3. ASSUME NEW n \in Nat, n \in F PROVE n + 1 \in F
  <2> SUFFICES ASSUME n + 1 <= MaxCondDepth, NEW c \in Conditions
               PROVE  Match(c, v, n + 1, "off") <=> Match(c, w, n + 1, "off")
    OBVIOUS
  <2>1. n \in 0..(MaxCondDepth - 1) /\ n <= MaxCondDepth
    BY PlacesHaveLevels
  <2>2. \A d \in Conditions : Match(d, v, n, "off") <=> Match(d, w, n, "off")
    BY <1>3, <2>1
  <2> HIDE DEF F
  <2>3. CASE c.op = "pred"
    <3>1. /\ Match(c, v, n + 1, "off") <=> Reads(c.pred, c.arg, v)
          /\ Match(c, w, n + 1, "off") <=> Reads(c.pred, c.arg, w)
      BY <1>1, <2>1, <2>3, MatchIs
    <3> QED BY <3>1
  <2>4. CASE c.op # "pred"
    <3>1. c.of \in Seq(Conditions) /\ \A i \in DOMAIN c.of : c.of[i] \in Conditions
      BY <2>4, PartsAre
    <3>2. CASE c.op = "and"
      <4>1. /\ Match(c, v, n + 1, "off") <=>
                 c.of # <<>> /\ \A i \in DOMAIN c.of : Match(c.of[i], v, n, "off")
            /\ Match(c, w, n + 1, "off") <=>
                 c.of # <<>> /\ \A i \in DOMAIN c.of : Match(c.of[i], w, n, "off")
        BY <1>1, <2>1, <3>2, MatchIs
      <4> QED BY <2>2, <3>1, <4>1
    <3>3. CASE c.op = "or"
      <4>1. /\ Match(c, v, n + 1, "off") <=> \E i \in DOMAIN c.of : Match(c.of[i], v, n, "off")
            /\ Match(c, w, n + 1, "off") <=> \E i \in DOMAIN c.of : Match(c.of[i], w, n, "off")
        BY <1>1, <2>1, <3>3, MatchIs
      <4> QED BY <2>2, <3>1, <4>1
    <3>4. CASE c.op = "not"
      <4>1. \A h \in Hopes :
              /\ Match(c, v, n + 1, h) <=> Len(c.of) = 1 /\ ~Match(c.of[1], v, n, UnderNot(h))
              /\ Match(c, w, n + 1, h) <=> Len(c.of) = 1 /\ ~Match(c.of[1], w, n, UnderNot(h))
        BY <2>1, <3>4, MatchIs
      <4>2. Len(c.of) = 1 => c.of[1] \in Conditions
        BY <3>1
      <4> QED BY <1>1, <2>2, <4>1, <4>2
    <3>5. CASE c.op \notin {"and", "or", "not"}
      BY <1>1, <2>1, <2>4, <3>5, MatchIs
    <3> QED BY <3>2, <3>3, <3>4, <3>5
  <2> QED BY <2>3, <2>4
<1> HIDE DEF F
<1>4. \A n \in Nat : n \in F
  BY <1>2, <1>3, NumberInduction
<1> QED BY <1>4, PlacesHaveLevels DEF F

------------------------------------------------------------------------------
\* The walk of the rules: t is the tick after the first i.  It holds the rules that match
\* at or above the first that wins, and that one if it is among them.
TickIs(p, v, i, t) ==
  /\ \E rule, action, act, matched, writes, sent :
       t = [rule |-> rule, action |-> action, act |-> act, matched |-> matched,
            writes |-> writes, sent |-> sent]
  /\ t.matched = {j \in 1..i : Matches(p[j], v) /\ \A w \in Winners(p, v) : j <= w}
  /\ t.rule = 0 => (\A w \in Winners(p, v) : i < w) /\ t.action = "" /\ t.act = Nowhere
  /\ t.rule # 0 =>
       /\ t.rule \in Winners(p, v) /\ t.rule <= i /\ \A w \in Winners(p, v) : t.rule <= w
       /\ t.action = PrimaryOf(p[t.rule]).do
       /\ t.act = Resolve(PrimaryOf(p[t.rule]), v)
  /\ t.matched = {} => t.writes = <<>>

\* One rule more.
LEMMA RuleRuns ==
  ASSUME NEW v, NEW S, NEW p \in Seq(S), NEW i \in Nat, i + 1 <= Len(p), NEW t, TickIs(p, v, i, t)
  PROVE  TickIs(p, v, i + 1, Ran(p[i + 1], i + 1, v, t))
<1> DEFINE W == Winners(p, v)
           M == {j \in DOMAIN p : Matches(p[j], v)}
           u == Ran(p[i + 1], i + 1, v, t)
           Upto(k) == {j \in 1..k : j \in M /\ \A w \in W : j <= w}
<1>1. i + 1 \in DOMAIN p /\ DOMAIN p = 1..Len(p) /\ Len(p) \in Nat
  OBVIOUS
<1>2. \A w \in W : w \in M /\ w \in Nat
  BY <1>1 DEF Winners
<1>3. \A k \in 0..Len(p) : {j \in 1..k : Matches(p[j], v) /\ \A w \in W : j <= w} = Upto(k)
  BY <1>1
<1>4. (Matches(p[i + 1], v) <=> i + 1 \in M) /\ i \in 0..Len(p) /\ i + 1 \in 0..Len(p)
  BY <1>1
<1>5. i + 1 \in W <=> i + 1 \in M /\ PrimariesOf(p[i + 1]) # {}
  BY <1>1 DEF Winners
<1>6. PICK rule, action, act, matched, writes, sent :
        t = [rule |-> rule, action |-> action, act |-> act, matched |-> matched,
             writes |-> writes, sent |-> sent]
  BY DEF TickIs
<1>7. matched = Upto(i) /\ (matched = {} => writes = <<>>)
  <2>1. t.matched = {j \in 1..i : Matches(p[j], v) /\ \A w \in W : j <= w}
    BY DEF TickIs
  <2>2. t.matched = {} => t.writes = <<>>
    BY DEF TickIs
  <2> QED BY <1>3, <1>4, <1>6, <2>1, <2>2
<1>8. rule = 0 => (\A w \in W : i < w) /\ action = "" /\ act = Nowhere
  BY <1>6 DEF TickIs
<1>9. rule # 0 => /\ rule \in W /\ rule <= i /\ \A w \in W : rule <= w
                  /\ action = PrimaryOf(p[rule]).do
                  /\ act = Resolve(PrimaryOf(p[rule]), v)
  BY <1>6 DEF TickIs
<1>10. SUFFICES
         /\ \E ru, ac, go, ma, wr, se :
              u = [rule |-> ru, action |-> ac, act |-> go, matched |-> ma, writes |-> wr, sent |-> se]
         /\ u.matched = Upto(i + 1)
         /\ u.rule = 0 => (\A w \in W : i + 1 < w) /\ u.action = "" /\ u.act = Nowhere
         /\ u.rule # 0 =>
              /\ u.rule \in W /\ u.rule <= i + 1 /\ \A w \in W : u.rule <= w
              /\ u.action = PrimaryOf(p[u.rule]).do
              /\ u.act = Resolve(PrimaryOf(p[u.rule]), v)
         /\ u.matched = {} => u.writes = <<>>
  <2>1. Upto(i + 1) = {j \in 1..(i + 1) : Matches(p[j], v) /\ \A w \in W : j <= w}
    BY <1>3, <1>4
  <2> HIDE DEF u, Upto
  <2>2. TickIs(p, v, i + 1, u)
    BY <1>10, <2>1 DEF TickIs
  <2> QED BY <2>2 DEF u
<1>11. CASE rule # 0 \/ i + 1 \notin M
  <2>1. u = t
    BY <1>4, <1>6, <1>11 DEF Ran
  <2>2. rule # 0 => \E w \in W : ~(i + 1 <= w)
    <3> HIDE DEF W
    <3> QED BY <1>2, <1>9
  <2>3. i + 1 \notin Upto(i + 1)
    BY <1>11, <2>2
  <2>4. Upto(i + 1) = matched
    BY <1>7, <2>3
  <2>5. rule = 0 => \A w \in W : i + 1 < w
    <3> HIDE DEF W, M
    <3>1. ASSUME rule = 0, NEW w \in W PROVE i + 1 < w
      <4>1. i < w /\ w # i + 1 /\ w \in Nat
        BY <1>2, <1>8, <1>11, <3>1
      <4> QED BY <4>1
    <3> QED BY <3>1
  <2>6. rule # 0 => rule <= i + 1
    <3> HIDE DEF W, M
    <3>1. rule # 0 => rule \in Nat /\ rule <= i
      BY <1>2, <1>9
    <3> QED BY <3>1
  <2> HIDE DEF u, W, M, Upto
  <2> QED BY <1>6, <1>7, <1>8, <1>9, <2>1, <2>4, <2>5, <2>6
<1>12. CASE rule = 0 /\ i + 1 \in M
  <2> DEFINE wrote == writes \o Writes(p[i + 1], v)
             told == sent \o Broadcasts(p[i + 1])
             ran == [t EXCEPT !.matched = @ \cup {i + 1}, !.writes = @ \o Writes(p[i + 1], v),
                              !.sent = @ \o Broadcasts(p[i + 1])]
  <2>1. \A w \in W : i < w /\ w \in Nat
    BY <1>2, <1>8, <1>12
  <2>2. \A w \in W : i + 1 <= w
    <3> HIDE DEF W
    <3> QED BY <2>1
  <2>3. Upto(i + 1) = matched \cup {i + 1}
    BY <1>7, <1>12, <2>2
  <2>4. Upto(i + 1) # {}
    BY <2>3
  <2>5. t.rule = 0 /\ Matches(p[i + 1], v)
    BY <1>4, <1>6, <1>12
  <2>6. action = "" /\ act = Nowhere
    BY <1>8, <1>12
  <2>7. ran = [rule |-> 0, action |-> action, act |-> act, matched |-> matched \cup {i + 1},
               writes |-> wrote, sent |-> told]
    <3> DEFINE with == matched \cup {i + 1}
    <3>1. t.matched \cup {i + 1} = with /\ t.writes \o Writes(p[i + 1], v) = wrote
          /\ t.sent \o Broadcasts(p[i + 1]) = told
      BY <1>6
    <3>2. ran = [t EXCEPT !.matched = with, !.writes = wrote, !.sent = told]
      BY <3>1
    <3> HIDE DEF ran, with, wrote, told
    <3>3. ran = [rule |-> 0, action |-> action, act |-> act, matched |-> with,
                 writes |-> wrote, sent |-> told]
      BY <1>6, <1>12, <3>2
    <3> QED BY <3>3 DEF with
  <2>8. CASE PrimariesOf(p[i + 1]) = {}
    <3>1. u = ran
      BY <2>5, <2>8 DEF Ran, Ended
    <3>2. \A w \in W : i + 1 < w
      <4>1. i + 1 \notin W
        BY <1>5, <2>8
      <4> HIDE DEF W
      <4> QED BY <2>1, <2>2, <4>1
    <3> HIDE DEF ran, u, W, M, Upto, wrote, told
    <3> QED BY <2>3, <2>4, <2>6, <2>7, <3>1, <3>2
  <2>9. CASE PrimariesOf(p[i + 1]) # {}
    <3> DEFINE won == PrimaryOf(p[i + 1]).do
               does == Resolve(PrimaryOf(p[i + 1]), v)
    <3>1. u = [ran EXCEPT !.rule = i + 1, !.action = won, !.act = does]
      BY <2>5, <2>9 DEF Ran, Ended
    <3>2. i + 1 \in W
      BY <1>5, <1>12, <2>9
    <3>3. u = [rule |-> i + 1, action |-> won, act |-> does, matched |-> matched \cup {i + 1},
               writes |-> wrote, sent |-> told]
      <4> HIDE DEF ran, u, won, does, wrote, told
      <4> QED BY <2>7, <3>1
    <3>4. /\ u.rule = i + 1 /\ u.action = won /\ u.act = does
          /\ u.matched = matched \cup {i + 1} /\ u.writes = wrote
      <4> HIDE DEF u, won, does, wrote, told
      <4> QED BY <3>3
    <3>5. u.rule # 0 /\ u.rule <= i + 1
      BY <3>4
    <3>6. u.action = PrimaryOf(p[u.rule]).do /\ u.act = Resolve(PrimaryOf(p[u.rule]), v)
      <4> HIDE DEF u
      <4> QED BY <3>4
    <3> HIDE DEF ran, u, W, M, Upto, won, does, wrote, told
    <3> QED BY <2>2, <2>3, <2>4, <3>2, <3>3, <3>4, <3>5, <3>6
  <2> QED BY <2>8, <2>9
<1> QED BY <1>11, <1>12

\* The walk of the rules is a function of how far it got.
LEMMA TicksExist ==
  ASSUME NEW p, NEW v
  PROVE  \A n \in Nat : \E f : f = [i \in 0..n |-> IF i = 0 THEN NoTick ELSE Ran(p[i], i, v, f[i - 1])]
<1> DEFINE Ticks(f, n) == f = [i \in 0..n |-> IF i = 0 THEN NoTick ELSE Ran(p[i], i, v, f[i - 1])]
           F == {n \in Nat : \E f : Ticks(f, n)}
<1>1. 0 \in F
  <2> DEFINE f == [i \in 0..0 |-> NoTick]
  <2>1. Ticks(f, 0)
    OBVIOUS
  <2> QED BY <2>1
<1>2. ASSUME NEW n \in Nat, n \in F PROVE n + 1 \in F
  <2>1. PICK f : Ticks(f, n)
    BY <1>2
  <2> DEFINE g == [i \in 0..(n + 1) |-> IF i = 0 THEN NoTick ELSE Ran(p[i], i, v, f[i - 1])]
  <2>2. \A i \in 0..n : g[i] = f[i]
    BY <2>1
  <2>3. ASSUME NEW i \in 0..(n + 1)
        PROVE  g[i] = IF i = 0 THEN NoTick ELSE Ran(p[i], i, v, g[i - 1])
    <3>1. g[i] = IF i = 0 THEN NoTick ELSE Ran(p[i], i, v, f[i - 1])
      OBVIOUS
    <3>2. i # 0 => g[i - 1] = f[i - 1]
      <4>1. i # 0 => i - 1 \in 0..n
        OBVIOUS
      <4> HIDE DEF g
      <4> QED BY <2>2, <4>1
    <3> QED BY <3>1, <3>2
  <2>4. g = [i \in 0..(n + 1) |-> g[i]]
    OBVIOUS
  <2> HIDE DEF g
  <2>5. Ticks(g, n + 1)
    BY <2>3, <2>4
  <2> QED BY <2>5
<1> HIDE DEF F
<1>3. \A n \in Nat : n \in F
  BY <1>1, <1>2, NumberInduction
<1> QED BY <1>3 DEF F

\* The walk, step by step.
LEMMA WalkGoes ==
  ASSUME NEW v, NEW S, NEW p \in Seq(S)
  PROVE  \E f : /\ f = [i \in 0..Len(p) |-> IF i = 0 THEN NoTick ELSE Ran(p[i], i, v, f[i - 1])]
                /\ Walk(p, v) = f[Len(p)]
<1> DEFINE N == Len(p)
           walk == CHOOSE f : f = [i \in 0..N |-> IF i = 0 THEN NoTick ELSE Ran(p[i], i, v, f[i - 1])]
<1>1. N \in Nat
  OBVIOUS
<1>2. walk = [i \in 0..N |-> IF i = 0 THEN NoTick ELSE Ran(p[i], i, v, walk[i - 1])]
  BY <1>1, TicksExist
<1>3. Walk(p, v) = walk[N]
  BY DEF Walk
<1> HIDE DEF walk
<1> QED BY <1>2, <1>3

\* What the walk of a program comes to.
LEMMA WalkIs ==
  ASSUME NEW v, NEW S, NEW p \in Seq(S)
  PROVE  TickIs(p, v, Len(p), Walk(p, v))
<1> DEFINE N == Len(p)
<1>1. N \in Nat
  OBVIOUS
<1>2. PICK walk : /\ walk = [i \in 0..N |-> IF i = 0 THEN NoTick ELSE Ran(p[i], i, v, walk[i - 1])]
                  /\ Walk(p, v) = walk[N]
  BY WalkGoes
<1>3. Walk(p, v) = walk[N]
  BY <1>2
<1> DEFINE F == {n \in Nat : n <= N => TickIs(p, v, n, walk[n])}
<1>4. 0 \in F
  <2>1. walk[0] = NoTick
    BY <1>1, <1>2
  <2>2. TickIs(p, v, 0, NoTick)
    <3>1. \A w \in Winners(p, v) : 0 < w
      BY DEF Winners
    <3>2. {j \in 1..0 : Matches(p[j], v) /\ \A w \in Winners(p, v) : j <= w} = {}
      OBVIOUS
    <3>3. /\ NoTick.rule = 0 /\ NoTick.action = "" /\ NoTick.act = Nowhere
          /\ NoTick.matched = {} /\ NoTick.writes = <<>>
          /\ \E rule, action, act, matched, writes, sent :
               NoTick = [rule |-> rule, action |-> action, act |-> act, matched |-> matched,
                         writes |-> writes, sent |-> sent]
      BY DEF NoTick
    <3> QED BY <3>1, <3>2, <3>3 DEF TickIs
  <2> QED BY <2>1, <2>2
<1>5. ASSUME NEW n \in Nat, n \in F PROVE n + 1 \in F
  <2> SUFFICES ASSUME n + 1 <= N PROVE TickIs(p, v, n + 1, walk[n + 1])
    OBVIOUS
  <2>1. n + 1 \in 0..N /\ n + 1 # 0 /\ (n + 1) - 1 = n /\ n <= N
    BY <1>1
  <2>2. walk[n + 1] = Ran(p[n + 1], n + 1, v, walk[n])
    BY <1>2, <2>1
  <2>3. TickIs(p, v, n, walk[n])
    BY <1>5, <2>1
  <2> QED BY <2>2, <2>3, RuleRuns
<1> HIDE DEF F
<1>6. \A n \in Nat : n \in F
  BY <1>4, <1>5, NumberInduction
<1> QED BY <1>1, <1>3, <1>6 DEF F

------------------------------------------------------------------------------
\* What a turn writes: points of the memory only, and only cells there are.
Cellish == (0..Far) \cup {NoCell}
Memories == [1..MemPoints -> Cellish]
MemWrites == [point : 1..MemPoints, cell : Cellish]

\* The greatest number of a set that ends.
LEMMA MaxOf ==
  ASSUME NEW S \in SUBSET Nat, S # {}, NEW n \in Nat, \A x \in S : x <= n
  PROVE  Max(S) \in S
<1> DEFINE T == {n - x : x \in S}
<1>1. T \in SUBSET Nat /\ T # {}
  <2>1. \A x \in S : n - x \in Nat
    <3> TAKE x \in S
    <3>1. x \in Nat /\ x <= n
      OBVIOUS
    <3> QED BY <3>1
  <2> QED BY <2>1
<1>2. PICK x \in S : Min(T) = n - x /\ \A y \in T : Min(T) <= y
  BY <1>1, MinOf
<1>3. \A y \in S : n - x <= n - y
  BY <1>2
<1>4. \A y \in S : x >= y
  BY <1>3
<1> QED BY <1>4 DEF Max

\* What a memory holds once it is written to, and that it keeps what nothing is written to.
LEMMA WroteIs ==
  ASSUME LanguageAssumption, NEW m \in Memories
  PROVE  /\ \A w \in Seq(MemWrites) : Wrote(m, w) \in Memories
         /\ Wrote(m, <<>>) = m
<1>1. ASSUME NEW w \in Seq(MemWrites) PROVE Wrote(m, w) \in Memories
  <2> DEFINE To(a) == {i \in DOMAIN w : w[i].point = a}
  <2>1. ASSUME NEW a \in 1..MemPoints, To(a) # {} PROVE w[Max(To(a))].cell \in Cellish
    <3>1. To(a) \in SUBSET Nat /\ Len(w) \in Nat /\ \A x \in To(a) : x <= Len(w) /\ x \in DOMAIN w
      OBVIOUS
    <3> HIDE DEF To
    <3>2. Max(To(a)) \in DOMAIN w
      BY <2>1, <3>1, MaxOf
    <3>3. w[Max(To(a))] \in MemWrites
      BY <3>2
    <3> QED BY <3>3 DEF MemWrites
  <2>2. \A a \in 1..MemPoints : m[a] \in Cellish
    BY DEF Memories
  <2>3. Wrote(m, w) = [a \in 1..MemPoints |-> IF To(a) = {} THEN m[a] ELSE w[Max(To(a))].cell]
    BY DEF Wrote
  <2> HIDE DEF To
  <2> QED BY <2>1, <2>2, <2>3 DEF Memories
<1>2. Wrote(m, <<>>) = [a \in 1..MemPoints |-> m[a]]
  BY DEF Wrote
<1> QED BY <1>1, <1>2 DEF Memories

\* Sequences one after the other.
LEMMA FlattenIs ==
  ASSUME NEW T, NEW seqs \in Seq(Seq(T))
  PROVE  FlattenSeq(seqs) \in Seq(T)
<1> DEFINE N == Len(seqs)
           More(i, x) == IF i = 1 THEN seqs[i] ELSE x \o seqs[i]
           Joined(f, n) == f = [i \in 1..n |-> More(i, f[i - 1])]
           flatten == CHOOSE f : Joined(f, N)
           F == {n \in Nat : \E f : Joined(f, n)}
<1>1. N \in Nat /\ \A i \in 1..N : seqs[i] \in Seq(T)
  OBVIOUS
<1>2. 0 \in F
  <2> DEFINE f == [i \in 1..0 |-> seqs[i]]
  <2>1. f = [i \in 1..0 |-> More(i, f[i - 1])]
    OBVIOUS
  <2> QED BY <2>1
<1>3. ASSUME NEW n \in Nat, n \in F PROVE n + 1 \in F
  <2>1. PICK f : Joined(f, n)
    BY <1>3
  <2> DEFINE g == [i \in 1..(n + 1) |-> More(i, f[i - 1])]
  <2> HIDE DEF More
  <2>2. \A i \in 1..n : g[i] = f[i]
    BY <2>1
  <2>3. ASSUME NEW i \in 1..(n + 1) PROVE g[i] = More(i, g[i - 1])
    <3>1. g[i] = More(i, f[i - 1])
      OBVIOUS
    <3>2. i # 1 => g[i - 1] = f[i - 1]
      <4>1. i # 1 => i - 1 \in 1..n
        OBVIOUS
      <4> HIDE DEF g
      <4> QED BY <2>2, <4>1
    <3>3. \A x, y : More(1, x) = More(1, y)
      BY DEF More
    <3> HIDE DEF g
    <3> QED BY <3>1, <3>2, <3>3
  <2>4. g = [i \in 1..(n + 1) |-> g[i]]
    OBVIOUS
  <2> HIDE DEF g
  <2>5. Joined(g, n + 1)
    BY <2>3, <2>4
  <2> HIDE DEF Joined
  <2> QED BY <2>5
<1>4. \A n \in Nat : n \in F
  <2> HIDE DEF F
  <2> QED BY <1>2, <1>3, NumberInduction
<1>5. Joined(flatten, N)
  <2> HIDE DEF Joined
  <2>1. \E f : Joined(f, N)
    BY <1>1, <1>4
  <2> QED BY <2>1
<1>6. FlattenSeq(seqs) = IF N = 0 THEN seqs ELSE flatten[N]
  BY DEF FlattenSeq
<1> HIDE DEF flatten, F
<1> DEFINE K == {n \in Nat : n + 1 <= N => flatten[n + 1] \in Seq(T)}
<1>7. 0 \in K
  <2>1. 1 <= N => flatten[1] = More(1, flatten[0])
    BY <1>1, <1>5
  <2> QED BY <1>1, <2>1
<1>8. ASSUME NEW n \in Nat, n \in K PROVE n + 1 \in K
  <2> SUFFICES ASSUME (n + 1) + 1 <= N PROVE flatten[(n + 1) + 1] \in Seq(T)
    OBVIOUS
  <2>1. /\ (n + 1) + 1 \in 1..N /\ (n + 1) + 1 # 1 /\ ((n + 1) + 1) - 1 = n + 1
        /\ n + 1 <= N
    BY <1>1
  <2>2. flatten[(n + 1) + 1] = flatten[n + 1] \o seqs[(n + 1) + 1]
    <3> HIDE DEF More
    <3>1. flatten[(n + 1) + 1] = More((n + 1) + 1, flatten[((n + 1) + 1) - 1])
      BY <1>5, <2>1
    <3> QED BY <2>1, <3>1 DEF More
  <2>3. flatten[n + 1] \in Seq(T) /\ seqs[(n + 1) + 1] \in Seq(T)
    BY <1>1, <1>8, <2>1
  <2> HIDE DEF Joined
  <2> QED BY <2>2, <2>3
<1> HIDE DEF K, Joined
<1>9. \A n \in Nat : n \in K
  BY <1>7, <1>8, NumberInduction
<1>10. N # 0 => flatten[N] \in Seq(T)
  <2>1. N # 0 => N - 1 \in Nat /\ (N - 1) + 1 = N /\ (N - 1) + 1 <= N
    BY <1>1
  <2> QED BY <1>9, <2>1 DEF K
<1>11. N = 0 => seqs \in Seq(T)
  <2>1. N = 0 => seqs = <<>>
    OBVIOUS
  <2> QED BY <2>1
<1> QED BY <1>6, <1>10, <1>11

\* What of a kind comes first is of the list.
LEMMA HeardIs ==
  ASSUME NEW H, NEW list \in Seq(H)
  PROVE  \A k : FirstOf(list, k) \in Seq(H)
<1> SUFFICES ASSUME NEW k PROVE FirstOf(list, k) \in Seq(H)
  OBVIOUS
<1> DEFINE found == {i \in DOMAIN list : list[i].kind = k}
<1>1. found \in SUBSET Nat /\ \A i \in found : list[i] \in H
  OBVIOUS
<1>2. FirstOf(list, k) = IF found = {} THEN <<>> ELSE <<list[Min(found)]>>
  BY DEF FirstOf
<1> HIDE DEF found
<1>3. found # {} => list[Min(found)] \in H
  BY <1>1, MinOf
<1> QED BY <1>2, <1>3

\* A walk takes the signals of the parts it comes to, which are the first few.
LEMMA LatchedShape ==
  ASSUME LanguageAssumption, NEW v, NEW n, n # 0, NEW c \in Conditions, c.op # "pred"
  PROVE  \E k \in Nat :
           /\ k <= Len(c.of)
           /\ \A f : LatchedBy(c, v, n, f) = FlattenSeq([i \in 1..k |-> f[<<n - 1, c.of[i]>>]])
<1> DEFINE Stops(i) == c.op # "not" /\ Match(c.of[i], v, n - 1, "off") = (c.op = "or")
           walked == {i \in DOMAIN c.of : \A j \in 1..(i - 1) : ~Stops(j)}
           k == Cardinality(walked)
<1>1. c.of \in Seq(Conditions)
  BY PartsAre
<1>2. DOMAIN c.of = 1..Len(c.of) /\ Len(c.of) \in Nat
  BY <1>1
<1>3. IsFiniteSet(1..Len(c.of)) /\ Cardinality(1..Len(c.of)) = Len(c.of)
  BY <1>2, FS_Interval
<1>4. walked \subseteq 1..Len(c.of)
  BY <1>2
<1>5. \A f : LatchedBy(c, v, n, f) = FlattenSeq([i \in 1..k |-> f[<<n - 1, c.of[i]>>]])
  BY DEF LatchedBy
<1> HIDE DEF walked
<1>6. IsFiniteSet(walked) /\ k <= Len(c.of)
  <2>1. IsFiniteSet(walked) /\ Cardinality(walked) <= Cardinality(1..Len(c.of))
    BY <1>3, <1>4, FS_Subset, Zenon
  <2> QED BY <1>3, <2>1
<1>7. k \in Nat
  BY <1>6, FS_CardinalityType
<1> QED BY <1>5, <1>6, <1>7

LEMMA LatchedLocal ==
  \A v, f, g : \A x \in Places :
    AgreeBelow(Places, x, f, g) => LatchedBy(x[2], v, x[1], f) = LatchedBy(x[2], v, x[1], g)
<1> SUFFICES ASSUME NEW v, NEW f, NEW g, NEW x \in Places, AgreeBelow(Places, x, f, g)
             PROVE  LatchedBy(x[2], v, x[1], f) = LatchedBy(x[2], v, x[1], g)
  OBVIOUS
<1>1. PICK m \in 0..MaxCondDepth, c \in Conditions : x = <<m, c>>
  BY DEF Places
<1>2. x[2] = c /\ x[1] = m
  BY <1>1
<1>3. CASE m = 0 \/ c.op = "pred"
  BY <1>2, <1>3 DEF LatchedBy
<1>4. CASE m # 0 /\ c.op # "pred"
  <2>1. PICK k \in Nat :
          /\ k <= Len(c.of)
          /\ \A h : LatchedBy(c, v, m, h) = FlattenSeq([i \in 1..k |-> h[<<m - 1, c.of[i]>>]])
    BY <1>4, LanguageAssumption, LatchedShape
  <2>2. \A i \in 1..k : c.of[i] \in Conditions
    BY <1>4, <2>1, LanguageAssumption, PartsAre
  <2>3. ASSUME NEW i \in 1..k PROVE f[<<m - 1, c.of[i]>>] = g[<<m - 1, c.of[i]>>]
    <3>1. <<m - 1, c.of[i]>> \in Places /\ m - 1 < x[1]
      BY <1>2, <1>4, <2>2, LanguageAssumption, PlacesHaveLevels DEF Places
    <3> QED BY <3>1 DEF AgreeBelow
  <2>4. [i \in 1..k |-> f[<<m - 1, c.of[i]>>]] = [i \in 1..k |-> g[<<m - 1, c.of[i]>>]]
    BY <2>3
  <2>5. LatchedBy(c, v, m, f) = LatchedBy(c, v, m, g)
    BY <2>1, <2>4
  <2> QED BY <1>2, <2>5
<1> QED BY <1>3, <1>4

\* What a condition latches was heard, if what its parts latch was.
LEMMA LatchedStep ==
  ASSUME LanguageAssumption, NEW H, NEW v, v.signals \in Seq(H), NEW f, NEW n \in 0..MaxCondDepth,
         \A d \in Conditions : n > 0 => f[<<n - 1, d>>] \in Seq(H), NEW c \in Conditions
  PROVE  LatchedBy(c, v, n, f) \in Seq(H)
<1>1. CASE n = 0
  BY <1>1 DEF LatchedBy
<1>2. CASE n # 0 /\ c.op = "pred"
  <2>1. \A k : Heard(v, k) \in Seq(H)
    BY HeardIs DEF Heard
  <2> QED BY <1>2, <2>1 DEF LatchedBy
<1>3. CASE n # 0 /\ c.op # "pred"
  <2>1. PICK k \in Nat :
          /\ k <= Len(c.of)
          /\ \A h : LatchedBy(c, v, n, h) = FlattenSeq([i \in 1..k |-> h[<<n - 1, c.of[i]>>]])
    BY <1>3, LatchedShape
  <2> DEFINE part(i) == f[<<n - 1, c.of[i]>>]
             parts == [i \in 1..k |-> part(i)]
  <2>2. \A i \in 1..k : c.of[i] \in Conditions
    BY <1>3, <2>1, PartsAre
  <2>3. n > 0
    BY <1>3, PlacesHaveLevels
  <2>4. \A i \in 1..k : part(i) \in Seq(H)
    BY <2>2, <2>3
  <2>5. parts \in Seq(Seq(H))
    <3> HIDE DEF part
    <3> QED BY <2>4
  <2>6. FlattenSeq(parts) \in Seq(H)
    BY <2>5, FlattenIs
  <2> QED BY <2>1, <2>6
<1> QED BY <1>1, <1>2, <1>3

\* What a condition latches was heard.
LEMMA LatchedType ==
  ASSUME LanguageAssumption, NEW H, NEW v, v.signals \in Seq(H), NEW c \in Conditions
  PROVE  Latched(c, v) \in Seq(H)
<1> DEFINE V == Seq(H)
           G == [f \in [Places -> V] |-> [x \in Places |-> LatchedBy(x[2], v, x[1], f)]]
           latched == CHOOSE f : f = [x \in Places |-> LatchedBy(x[2], v, x[1], f)]
<1>1. ASSUME NEW f, NEW n \in 0..MaxCondDepth, \A d \in Conditions : n > 0 => f[<<n - 1, d>>] \in V,
             NEW d \in Conditions
      PROVE  LatchedBy(d, v, n, f) \in V
  BY <1>1, LatchedStep
<1>2. ASSUME NEW f \in [Places -> V], NEW x \in Places PROVE LatchedBy(x[2], v, x[1], f) \in V
  <2>1. PICK m \in 0..MaxCondDepth, d \in Conditions : x = <<m, d>>
    BY DEF Places
  <2>2. \A e \in Conditions : m > 0 => <<m - 1, e>> \in Places
    BY <2>1, PlacesHaveLevels DEF Places
  <2> HIDE DEF V
  <2>3. \A e \in Conditions : m > 0 => f[<<m - 1, e>>] \in V
    BY <2>2
  <2>4. LatchedBy(d, v, m, f) \in V
    BY <1>1, <2>3
  <2> QED BY <2>1, <2>4
<1>3. \A f \in [Places -> V] : G[f] \in [Places -> V]
  BY <1>2
<1>4. \A f, g \in [Places -> V] : \A x \in Places : AgreeBelow(Places, x, f, g) => G[f][x] = G[g][x]
  <2> HIDE DEF V
  <2> SUFFICES ASSUME NEW f \in [Places -> V], NEW g \in [Places -> V], NEW x \in Places,
                      AgreeBelow(Places, x, f, g)
               PROVE  G[f][x] = G[g][x]
    OBVIOUS
  <2>1. \A y \in Places : AgreeBelow(Places, y, f, g) => LatchedBy(y[2], v, y[1], f) = LatchedBy(y[2], v, y[1], g)
    BY ONLY LatchedLocal
  <2> QED BY <2>1
<1>5. V # {}
  OBVIOUS
<1>6. \E f \in [Places -> V] : f = G[f]
  <2> HIDE DEF G, V
  <2>1. LooksBelow(Places, V, G)
    BY <1>3, <1>4 DEF LooksBelow
  <2>2. Fixed(Places, V, G)
    BY <1>5, <2>1, PlacesHaveLevels, LevelRecursion
  <2> QED BY <2>2 DEF Fixed
<1>7. \E h : h = [x \in Places |-> LatchedBy(x[2], v, x[1], h)]
  BY <1>6
<1>8. latched = [x \in Places |-> LatchedBy(x[2], v, x[1], latched)]
  BY <1>7
<1>9. Latched(c, v) = latched[<<MaxCondDepth, c>>]
  BY DEF Latched
<1> HIDE DEF latched, G
<1> DEFINE F == {n \in Nat : n <= MaxCondDepth => \A d \in Conditions : latched[<<n, d>>] \in V}
<1> HIDE DEF V
<1>10. ASSUME NEW n \in 0..MaxCondDepth, \A d \in Conditions : n > 0 => latched[<<n - 1, d>>] \in V
       PROVE  \A d \in Conditions : latched[<<n, d>>] \in V
  <2> TAKE d \in Conditions
  <2>1. <<n, d>> \in Places
    BY DEF Places
  <2>2. latched[<<n, d>>] = LatchedBy(d, v, n, latched)
    BY <1>8, <2>1
  <2> QED BY <1>1, <1>10, <2>2
<1>11. 0 \in F
  <2>1. 0 \in 0..MaxCondDepth /\ ~(0 > 0)
    BY PlacesHaveLevels
  <2> QED BY <1>10, <2>1
<1>12. ASSUME NEW n \in Nat, n \in F PROVE n + 1 \in F
  <2> SUFFICES ASSUME n + 1 <= MaxCondDepth PROVE \A d \in Conditions : latched[<<n + 1, d>>] \in V
    OBVIOUS
  <2>1. n + 1 \in 0..MaxCondDepth /\ (n + 1) - 1 = n /\ n <= MaxCondDepth
    BY PlacesHaveLevels
  <2>2. \A d \in Conditions : latched[<<n, d>>] \in V
    BY <1>12, <2>1
  <2> HIDE DEF F
  <2> QED BY <1>10, <2>1, <2>2
<1> HIDE DEF F
<1>13. \A n \in Nat : n \in F
  BY <1>11, <1>12, NumberInduction
<1> QED BY <1>9, <1>13, PlacesHaveLevels DEF F, V

\* The nearest of two sightings, or neither, is one of them.
LEMMA NearestIs ==
  ASSUME NEW H, NEW v, \A list \in {v.components, v.enemies} \ {<<>>} : list[1] \in H
  PROVE  Nearest(v) \in Seq(H)
<1> DEFINE heads == {list[1] : list \in {v.components, v.enemies} \ {<<>>}}
           Before(s, t) == s.dist < t.dist \/ (s.dist = t.dist /\ s.id < t.id)
           S == {s \in heads : \A t \in heads \ {s} : Before(s, t)}
           a == v.components[1]
           b == v.enemies[1]
<1>1. Nearest(v) = SetToSeq(S)
  BY DEF Nearest
<1>2. S \subseteq H /\ S \subseteq {a} \cup {b}
  OBVIOUS
<1> HIDE DEF S, a, b
<1>3. IsFiniteSet(S)
  <2>1. IsFiniteSet({a} \cup {b})
    BY FS_Singleton, FS_Union
  <2> QED BY <1>2, <2>1, FS_Subset
<1> DEFINE n == Cardinality(S)
<1>4. n \in Nat /\ ExistsBijection(1..n, S)
  BY <1>3, FS_CardinalityType
<1>5. \E f \in [1..n -> S] : IsInjective(f)
  BY <1>4 DEF ExistsBijection, Bijection, Injection
<1>6. SetToSeq(S) = CHOOSE f \in [1..n -> S] : IsInjective(f)
  BY DEF SetToSeq
<1> HIDE DEF n
<1>7. SetToSeq(S) \in [1..n -> S]
  BY <1>5, <1>6
<1> QED BY <1>1, <1>2, <1>4, <1>7

\* What the actions of a rule write, in a view that shows cells only.
LEMMA WritesType ==
  ASSUME LanguageAssumption, NEW H, \A h \in H : h.cell \in Cellish,
         NEW v, v.cell \in Cellish, v.radar \in Seq(H), v.signals \in Seq(H), Nearest(v) \in Seq(H),
         NEW rule, rule.when \in Conditions, rule.then \in Seq([do : STRING, arg : Int])
  PROVE  Writes(rule, v) \in Seq(MemWrites)
<1> DEFINE Of(a) ==
             CASE a.do = "save_current_position" -> Write(a, <<v.cell>>)
               [] a.do = "save_visible_target" -> Write(a, Cells(Nearest(v)))
               [] a.do = "save_radar_target" -> Write(a, Cells(v.radar))
               [] a.do = "save_signal_position" -> Write(a, Cells(Signal(rule, v)))
               [] a.do = "clear_point" -> Write(a, <<NoCell>>)
               [] OTHER -> <<>>
           all == [j \in DOMAIN rule.then |-> Of(rule.then[j])]
<1>1. ASSUME NEW list \in Seq(H) PROVE Cells(list) \in Seq(Cellish)
  <2>1. DOMAIN list = 1..Len(list) /\ Len(list) \in Nat /\ \A i \in DOMAIN list : list[i] \in H
    OBVIOUS
  <2>2. \A i \in 1..Len(list) : list[i].cell \in Cellish
    BY <2>1
  <2>3. Cells(list) = [i \in 1..Len(list) |-> list[i].cell]
    BY <2>1 DEF Cells
  <2> QED BY <2>1, <2>2, <2>3
<1>2. ASSUME NEW a, NEW found \in Seq(Cellish) PROVE Write(a, found) \in Seq(MemWrites)
  <2>1. CASE found = <<>> \/ a.arg \notin 1..MemPoints
    BY <2>1 DEF Write
  <2>2. CASE found # <<>> /\ a.arg \in 1..MemPoints
    <3> DEFINE one == [point |-> a.arg, cell |-> found[1]]
    <3>1. one \in MemWrites
      BY <2>2 DEF MemWrites
    <3>2. Write(a, found) = <<one>>
      BY <2>2 DEF Write
    <3> QED BY <3>1, <3>2
  <2> QED BY <2>1, <2>2
<1>3. Signal(rule, v) \in Seq(H)
  BY LatchedType DEF Signal
<1>4. <<v.cell>> \in Seq(Cellish) /\ <<NoCell>> \in Seq(Cellish)
  BY DEF Cellish
<1>5. ASSUME NEW a PROVE Of(a) \in Seq(MemWrites)
  <2>1. /\ Write(a, <<v.cell>>) \in Seq(MemWrites)
        /\ Write(a, Cells(Nearest(v))) \in Seq(MemWrites)
        /\ Write(a, Cells(v.radar)) \in Seq(MemWrites)
        /\ Write(a, Cells(Signal(rule, v))) \in Seq(MemWrites)
        /\ Write(a, <<NoCell>>) \in Seq(MemWrites)
    BY <1>1, <1>2, <1>3, <1>4
  <2>2. <<>> \in Seq(MemWrites)
    OBVIOUS
  <2> QED BY <2>1, <2>2
<1>6. Writes(rule, v) = FlattenSeq(all)
  BY DEF Writes
<1> HIDE DEF Of
<1>7. all \in Seq(Seq(MemWrites))
  <2>1. DOMAIN rule.then = 1..Len(rule.then) /\ Len(rule.then) \in Nat
    OBVIOUS
  <2> QED BY <1>5, <2>1
<1> QED BY <1>6, <1>7, FlattenIs

\* A tick is a record, whose writes are some rules' one after the other.
Tick(t, W) ==
  /\ \E rule, action, act, matched, writes, sent :
       t = [rule |-> rule, action |-> action, act |-> act, matched |-> matched,
            writes |-> writes, sent |-> sent]
  /\ t.writes \in Seq(W)

LEMMA RanWrites ==
  ASSUME NEW W, NEW t, Tick(t, W), NEW v, NEW i, NEW rule, Writes(rule, v) \in Seq(W)
  PROVE  Tick(Ran(rule, i, v, t), W)
<1>1. PICK ru, ac, go, ma, wr, se :
        t = [rule |-> ru, action |-> ac, act |-> go, matched |-> ma, writes |-> wr, sent |-> se]
  BY DEF Tick
<1> DEFINE with == ma \cup {i}
           wrote == wr \o Writes(rule, v)
           told == se \o Broadcasts(rule)
           ran == [t EXCEPT !.matched = @ \cup {i}, !.writes = @ \o Writes(rule, v),
                            !.sent = @ \o Broadcasts(rule)]
<1>2. wr \in Seq(W)
  BY <1>1 DEF Tick
<1>3. wrote \in Seq(W)
  BY <1>2
<1>4. ran = [rule |-> ru, action |-> ac, act |-> go, matched |-> with, writes |-> wrote, sent |-> told]
  <2>1. ran = [t EXCEPT !.matched = with, !.writes = wrote, !.sent = told]
    BY <1>1
  <2> HIDE DEF ran, with, wrote, told
  <2> QED BY <1>1, <2>1
<1> HIDE DEF ran, with, wrote, told
<1>5. CASE t.rule # 0 \/ ~Matches(rule, v)
  BY <1>5 DEF Ran
<1>6. CASE ~(t.rule # 0 \/ ~Matches(rule, v)) /\ PrimariesOf(rule) = {}
  <2>1. Ran(rule, i, v, t) = ran
    BY <1>6 DEF Ran, Ended, ran
  <2> DEFINE u == Ran(rule, i, v, t)
  <2> HIDE DEF u
  <2>2. u = [rule |-> ru, action |-> ac, act |-> go, matched |-> with, writes |-> wrote, sent |-> told]
    BY <1>4, <2>1 DEF u
  <2>3. u.writes = wrote
    BY <2>2
  <2>4. Tick(u, W)
    BY <1>3, <2>2, <2>3 DEF Tick
  <2> QED BY <2>4 DEF u
<1>7. CASE ~(t.rule # 0 \/ ~Matches(rule, v)) /\ PrimariesOf(rule) # {}
  <2> DEFINE won == PrimaryOf(rule).do
             does == Resolve(PrimaryOf(rule), v)
  <2>1. Ran(rule, i, v, t) = [ran EXCEPT !.rule = i, !.action = won, !.act = does]
    BY <1>7 DEF Ran, Ended, ran
  <2> HIDE DEF won, does
  <2> DEFINE u == Ran(rule, i, v, t)
  <2> HIDE DEF u
  <2>2. u = [rule |-> i, action |-> won, act |-> does, matched |-> with, writes |-> wrote, sent |-> told]
    BY <1>4, <2>1 DEF u
  <2>3. u.writes = wrote
    BY <2>2
  <2>4. Tick(u, W)
    BY <1>3, <2>2, <2>3 DEF Tick
  <2> QED BY <2>4 DEF u
<1> QED BY <1>5, <1>6, <1>7

\* What a whole tick writes.
LEMMA WalkWrites ==
  ASSUME NEW W, NEW v, NEW S, NEW p \in Seq(S), \A i \in DOMAIN p : Writes(p[i], v) \in Seq(W)
  PROVE  Decide(p, v).writes \in Seq(W)
<1> DEFINE N == Len(p)
<1>1. N \in Nat /\ DOMAIN p = 1..N
  OBVIOUS
<1>2. PICK walk : /\ walk = [i \in 0..N |-> IF i = 0 THEN NoTick ELSE Ran(p[i], i, v, walk[i - 1])]
                  /\ Walk(p, v) = walk[N]
  BY WalkGoes
<1>3. Walk(p, v) = walk[N]
  BY <1>2
<1> DEFINE F == {n \in Nat : n <= N => Tick(walk[n], W)}
<1>4. 0 \in F
  <2>1. walk[0] = NoTick
    BY <1>1, <1>2
  <2>2. NoTick.writes = <<>> /\ \E rule, action, act, matched, writes, sent :
          NoTick = [rule |-> rule, action |-> action, act |-> act, matched |-> matched,
                    writes |-> writes, sent |-> sent]
    BY DEF NoTick
  <2>3. <<>> \in Seq(W)
    OBVIOUS
  <2>4. Tick(NoTick, W)
    BY <2>2, <2>3 DEF Tick
  <2> QED BY <2>1, <2>4
<1>5. ASSUME NEW n \in Nat, n \in F PROVE n + 1 \in F
  <2> SUFFICES ASSUME n + 1 <= N PROVE Tick(walk[n + 1], W)
    OBVIOUS
  <2>1. n + 1 \in 0..N /\ n + 1 \in DOMAIN p /\ n + 1 # 0 /\ (n + 1) - 1 = n /\ n <= N
    BY <1>1
  <2>2. walk[n + 1] = Ran(p[n + 1], n + 1, v, walk[n])
    BY <1>2, <2>1
  <2>3. Tick(walk[n], W) /\ Writes(p[n + 1], v) \in Seq(W)
    BY <1>5, <2>1
  <2> QED BY <2>2, <2>3, RanWrites
<1> HIDE DEF F
<1>6. \A n \in Nat : n \in F
  BY <1>4, <1>5, NumberInduction
<1>7. Tick(Walk(p, v), W)
  BY <1>1, <1>3, <1>6 DEF F
<1> DEFINE t == Walk(p, v)
           d == Decide(p, v)
<1>8. d = IF Idles(v, t.act) THEN [t EXCEPT !.rule = 0, !.action = Deposit.kind, !.act = Deposit] ELSE t
  BY DEF Decide, Reflex
<1> HIDE DEF t, d
<1>9. d.writes = t.writes
  <2>1. PICK ru, ac, go, ma, wr, se :
          t = [rule |-> ru, action |-> ac, act |-> go, matched |-> ma, writes |-> wr, sent |-> se]
    BY <1>7 DEF Tick, t
  <2>2. CASE Idles(v, t.act)
    <3>1. d = [rule |-> 0, action |-> Deposit.kind, act |-> Deposit, matched |-> ma,
               writes |-> wr, sent |-> se]
      BY <1>8, <2>1, <2>2
    <3> QED BY <2>1, <3>1
  <2>3. CASE ~Idles(v, t.act)
    BY <1>8, <2>3
  <2> QED BY <2>2, <2>3
<1> QED BY <1>7, <1>9 DEF Tick, t, d

------------------------------------------------------------------------------
\* What the body carries from turn to turn: it is a robot on the line, whose weapon is
\* ready only if it has one, and whose memory holds cells of the line; and where the editor
\* called the program inert, an unharmed robot is as its base released it.
Body(m) ==
  [cell : 0..Far, cargo : BOOLEAN, health : {LowHealth, FullHealth}, memory : {m},
   blocked : BOOLEAN, reached : BOOLEAN, unreachable : BOOLEAN, ready : BOOLEAN]

BodyInv ==
  me \in Body(me.memory) /\ me.memory \in Memories /\ (me.ready => "weapon" \in design.kit)

InertIsNew(d, m) ==
  /\ d.rules # <<>> /\ StartFinding(d.rules, d.kit, Base) = "inert_start"
  /\ m.health = FullHealth
  => m = Released(d.kit)

InertInv == InertIsNew(design, me)

MindInv == design \in Minds /\ BodyInv /\ InertInv

------------------------------------------------------------------------------
\* What is installed.
LEMMA InstalledIs ==
  ASSUME LanguageAssumption, MindAssumption, design \in Minds
  PROVE  /\ design.rules \in Seq([when : Conditions, then : Seq([do : STRING, arg : Int])])
         /\ \A i \in DOMAIN design.rules :
              design.rules[i].when \in Conditions /\ WellFormed(design.rules[i].when, MaxCondDepth)
<1>1. design.rules \in Seq([when : Conditions, then : Seq([do : STRING, arg : Int])])
  BY DEF MindAssumption
<1>2. Valid(design.rules, design.kit)
  BY DEF MindAssumption
<1>3. ASSUME NEW i \in DOMAIN design.rules PROVE design.rules[i].when \in Conditions
  <2>1. design.rules[i] \in [when : Conditions, then : Seq([do : STRING, arg : Int])]
    <3> DEFINE T == [when : Conditions, then : Seq([do : STRING, arg : Int])]
    <3>1. design.rules \in Seq(T)
      BY <1>1
    <3> HIDE DEF T
    <3>2. design.rules[i] \in T
      BY <3>1
    <3> QED BY <3>2 DEF T
  <2> QED BY <2>1
<1>4. \A i \in DOMAIN design.rules : WellFormed(design.rules[i].when, MaxCondDepth)
  BY <1>2 DEF Valid, Structure
<1> QED BY <1>1, <1>3, <1>4

\* What a robot is shown lies on the line.
LEMMA ViewShows ==
  ASSUME MindAssumption, me.cell \in 0..Far, NEW s \in Scenes
  PROVE  LET v == View(s) IN
         \E H : /\ \A h \in H : h.cell \in Cellish
                /\ v.cell \in Cellish /\ v.radar \in Seq(H) /\ v.signals \in Seq(H)
                /\ Nearest(v) \in Seq(H)
<1> DEFINE v == View(s)
           a == [kind |-> "come", cell |-> Far]
           b == [kind |-> "avoid", cell |-> Base]
           U == {s.components[1], s.enemies[1], s.radar[1], a, b}
           H == {x \in U : x.cell \in Cellish}
<1>1. ASSUME NEW kind, NEW id, NEW y \in Sightings(kind, id)
      PROVE  y = <<>> \/ \E x : y = <<x>> /\ x.cell \in Cellish
  <2>1. \A c \in (0..Far) \ {me.cell} :
          [kind |-> kind, id |-> id, cell |-> c, dist |-> Distance(me.cell, c)].cell \in Cellish
    BY DEF Cellish
  <2> QED BY <2>1 DEF Sightings
<1>2. s.components = <<>> \/ \E x : s.components = <<x>> /\ x.cell \in Cellish
  <2>1. s.components \in Sightings("component", 1)
    BY DEF Scenes
  <2> QED BY <1>1, <2>1
<1>3. s.enemies = <<>> \/ \E x : s.enemies = <<x>> /\ x.cell \in Cellish
  <2>1. s.enemies \in Sightings("robot", 2)
    BY DEF Scenes
  <2> QED BY <1>1, <2>1
<1>4. s.radar = <<>> \/ \E x : s.radar = <<x>> /\ x.cell \in Cellish
  <2> DEFINE R == RadarKind
  <2>1. s.radar \in (IF "radar" \in design.kit THEN Sightings(R, 3) ELSE {<<>>})
    BY DEF Scenes
  <2> HIDE DEF R
  <2>2. s.radar \in Sightings(R, 3) \/ s.radar = <<>>
    BY <2>1
  <2> QED BY <1>1, <2>2
<1>5. a.cell \in Cellish /\ b.cell \in Cellish
  BY DEF Cellish, Base, MindAssumption
<1>6. a \in H /\ b \in H
  BY <1>5
<1>7. \A h \in H : h.cell \in Cellish
  OBVIOUS
<1>8. s.signals \in {<<>>, <<a>>, <<b, a>>}
  BY DEF Scenes
<1>9. /\ v.cell = me.cell /\ v.radar = s.radar /\ v.signals = s.signals
      /\ v.components = s.components /\ v.enemies = s.enemies
  BY DEF View
<1>10. /\ s.components # <<>> => s.components[1] \in H
       /\ s.enemies # <<>> => s.enemies[1] \in H
       /\ s.radar # <<>> => s.radar[1] \in H
  BY <1>2, <1>3, <1>4
<1> HIDE DEF H, U, a, b, v
<1>11. v.cell \in Cellish
  BY <1>9 DEF Cellish
<1>0. /\ <<>> \in Seq(H)
      /\ \A x \in H : <<x>> \in Seq(H)
      /\ \A x, y \in H : <<x, y>> \in Seq(H)
  OBVIOUS
<1>12. v.radar \in Seq(H)
  <2>1. s.radar = <<>> \/ s.radar = <<s.radar[1]>>
    BY <1>4
  <2>2. CASE s.radar = <<>>
    BY ONLY <1>0, <1>9, <2>2
  <2>3. CASE s.radar # <<>>
    <3>1. s.radar[1] \in H
      BY ONLY <1>10, <2>3
    <3>2. s.radar = <<s.radar[1]>>
      BY ONLY <2>1, <2>3
    <3>3. <<s.radar[1]>> \in Seq(H)
      BY ONLY <1>0, <3>1
    <3> QED BY ONLY <1>9, <3>2, <3>3
  <2> QED BY ONLY <2>2, <2>3
<1>13. v.signals \in Seq(H)
  <2>1. <<a>> \in Seq(H) /\ <<b, a>> \in Seq(H)
    BY ONLY <1>0, <1>6
  <2> QED BY ONLY <1>0, <1>8, <1>9, <2>1
<1>14. Nearest(v) \in Seq(H)
  <2>1. \A list \in {v.components, v.enemies} \ {<<>>} : list[1] \in H
    BY <1>9, <1>10
  <2> QED BY <2>1, NearestIs
<1> QED BY <1>7, <1>11, <1>12, <1>13, <1>14 DEF v

\* A turn of a validated program writes points of the memory, and cells to them.
LEMMA TurnWrites ==
  ASSUME LanguageAssumption, MindAssumption, design \in Minds, me.cell \in 0..Far, NEW s \in Scenes
  PROVE  Decide(design.rules, View(s)).writes \in Seq(MemWrites)
<1> DEFINE p == design.rules
           v == View(s)
           Then == Seq([do : STRING, arg : Int])
           Rules == [when : Conditions, then : Then]
<1>1. p \in Seq(Rules)
  BY InstalledIs
<1>2. PICK H : /\ \A h \in H : h.cell \in Cellish
               /\ v.cell \in Cellish /\ v.radar \in Seq(H) /\ v.signals \in Seq(H)
               /\ Nearest(v) \in Seq(H)
  BY ViewShows
<1> HIDE DEF p, v
<1>3. ASSUME NEW i \in DOMAIN p PROVE Writes(p[i], v) \in Seq(MemWrites)
  <2> HIDE DEF Rules
  <2>1. p[i] \in Rules
    BY <1>1
  <2> HIDE DEF Then
  <2>2. p[i].when \in Conditions /\ p[i].then \in Then
    BY <2>1 DEF Rules
  <2> QED BY <1>2, <2>2, WritesType DEF Then
<1> HIDE DEF Rules
<1>4. Decide(p, v).writes \in Seq(MemWrites)
  BY <1>1, <1>3, WalkWrites
<1> QED BY <1>4 DEF p, v

\* The first of a kind among at most one.
LEMMA FirstOfIs ==
  /\ \A k : FirstOf(<<>>, k) = <<>>
  /\ \A x, k : FirstOf(<<x>>, k) \in {<<>>, <<x>>}
<1>1. \A k : FirstOf(<<>>, k) = <<>>
  BY DEF FirstOf
<1>2. ASSUME NEW x, NEW k PROVE FirstOf(<<x>>, k) \in {<<>>, <<x>>}
  <2> DEFINE found == {i \in DOMAIN <<x>> : <<x>>[i].kind = k}
  <2>1. found \subseteq {1}
    OBVIOUS
  <2>2. found # {} => Min(found) = 1
    BY <2>1 DEF Min
  <2> HIDE DEF found
  <2>3. FirstOf(<<x>>, k) = IF found = {} THEN <<>> ELSE << <<x>>[Min(found)] >>
    BY DEF FirstOf, found
  <2> QED BY <2>2, <2>3
<1> QED BY <1>1, <1>2

\* A scene shows at most one sighting of a kind, at some distance, and radar to nobody
\* without one.
LEMMA ScenesShow ==
  ASSUME MindAssumption, BodyInv, NEW s \in Scenes
  PROVE  /\ s.enemies = <<>> \/ \E x : s.enemies = <<x>> /\ x.dist \in Nat \ {0}
         /\ s.radar = <<>> \/ ((\E x : s.radar = <<x>> /\ x.dist \in Nat \ {0}) /\ "radar" \in design.kit)
<1>1. \A c \in (0..Far) \ {me.cell} : Distance(me.cell, c) \in Nat \ {0}
  BY DEF BodyInv, Body, Distance, MindAssumption
<1>2. ASSUME NEW kind, NEW id, NEW y \in Sightings(kind, id)
      PROVE  y = <<>> \/ \E x : y = <<x>> /\ x.dist \in Nat \ {0}
  BY <1>1 DEF Sightings
<1>3. s.enemies \in Sightings("robot", 2)
  BY DEF Scenes
<1>4. s.radar \in (IF "radar" \in design.kit THEN Sightings(RadarKind, 3) ELSE {<<>>})
  BY DEF Scenes
<1>5. s.enemies = <<>> \/ \E x : s.enemies = <<x>> /\ x.dist \in Nat \ {0}
  BY <1>2, <1>3
<1>6. CASE "radar" \in design.kit
  <2>1. s.radar \in Sightings(RadarKind, 3)
    BY <1>4, <1>6
  <2> QED BY <1>2, <1>5, <1>6, <2>1
<1>7. CASE "radar" \notin design.kit
  <2>1. s.radar \in {<<>>}
    BY <1>4, <1>7
  <2>2. s.radar = <<>>
    BY <2>1
  <2> QED BY <1>5, <2>2, Zenon
<1> QED BY <1>6, <1>7

\* What the robot lacks the hardware for, no scene makes true.
LEMMA LacksHardware ==
  ASSUME MindAssumption, BodyInv, NEW s \in Scenes, NEW q, NEW a,
         ~(PredicateNeeds(q) \subseteq design.kit)
  PROVE  ~Reads(q, a, View(s))
<1> DEFINE v == View(s)
<1>1. /\ v.enemies = s.enemies /\ v.radar = s.radar /\ v.ready = me.ready
      /\ v.range = IF me.ready THEN Reach ELSE 0
  BY DEF View
<1>2. me.ready => "weapon" \in design.kit
  BY DEF BodyInv
<1>3. v.range = 0 \/ "weapon" \in design.kit
  BY <1>1, <1>2
<1>4. q \in {"visible_target_in_weapon_range", "weapon_ready", "radar_detects_target",
             "detected_target_in_weapon_range"}
  BY DEF PredicateNeeds
<1> HIDE DEF v
<1>5. CASE q = "weapon_ready"
  BY <1>1, <1>2, <1>5 DEF Reads, PredicateNeeds, v
<1>6. CASE q = "visible_target_in_weapon_range"
  <2>1. v.range = 0
    BY <1>3, <1>6 DEF PredicateNeeds
  <2>2. ASSUME v.enemies # <<>> PROVE v.enemies[1].dist \in Nat \ {0}
    <3>1. PICK x : s.enemies = <<x>> /\ x.dist \in Nat \ {0}
      BY <1>1, <2>2, ScenesShow
    <3> QED BY <1>1, <3>1
  <2>3. Reads(q, a, v) <=> v.enemies # <<>> /\ v.enemies[1].dist <= v.range
    BY <1>6 DEF Reads
  <2> QED BY <2>1, <2>2, <2>3 DEF v
<1>7. CASE q = "radar_detects_target"
  <2>1. v.radar = <<>>
    BY <1>1, <1>7, ScenesShow DEF PredicateNeeds
  <2> QED BY <1>7, <2>1 DEF Reads, v
<1>8. CASE q = "detected_target_in_weapon_range"
  <2>1. Reads(q, a, v) <=> RadarEnemy(v) # <<>> /\ RadarEnemy(v)[1].dist <= v.range
    BY <1>8 DEF Reads
  <2>2. RadarEnemy(v) = FirstOf(s.radar, "robot")
    BY <1>1 DEF RadarEnemy
  <2>3. CASE s.radar = <<>>
    BY <2>1, <2>2, <2>3, FirstOfIs DEF v
  <2>4. CASE s.radar # <<>>
    <3>1. PICK x : s.radar = <<x>> /\ x.dist \in Nat \ {0} /\ "radar" \in design.kit
      BY <2>4, ScenesShow
    <3>2. v.range = 0
      BY <1>3, <1>8, <3>1 DEF PredicateNeeds
    <3>3. RadarEnemy(v) \in {<<>>, <<x>>}
      BY <2>2, <3>1, FirstOfIs
    <3> QED BY <2>1, <3>1, <3>2, <3>3 DEF v
  <2> QED BY <2>3, <2>4
<1> QED BY <1>4, <1>5, <1>6, <1>7, <1>8

\* What does not ask about the world reads the robot alone.
LEMMA OwnReads ==
  ASSUME NEW v, NEW w, v.cargo = w.cargo, v.health = w.health, v.atBase = w.atBase,
         v.cell = w.cell, v.memory = w.memory, v.blocked = w.blocked, v.reached = w.reached,
         v.unreachable = w.unreachable, v.kit = w.kit, v.ready = w.ready,
         NEW q, q \notin WorldPredicates, NEW a
  PROVE  Reads(q, a, v) <=> Reads(q, a, w)
<1>1. Point(v, a) = Point(w, a)
  BY DEF Point
<1> QED BY <1>1 DEF Reads, WorldPredicates

\* A view that shows nothing makes nothing about the world true.
LEMMA DarkReads ==
  ASSUME NEW v, v.components = <<>>, ~v.inReach, v.enemies = <<>>, ~v.obstacle,
         v.radar = <<>>, v.signals = <<>>, NEW q \in WorldPredicates, NEW a
  PROVE  ~Reads(q, a, v)
<1>1. RadarEnemy(v) = <<>> /\ Heard(v, "come") = <<>> /\ Heard(v, "avoid") = <<>>
  BY FirstOfIs DEF RadarEnemy, Heard
<1> QED BY <1>1 DEF Reads, WorldPredicates

\* A robot just released, before a scene and at the editor's clean start.
LEMMA ReleasedReads ==
  ASSUME MindAssumption, me = Released(design.kit), NEW s
  PROVE  LET v == View(s) w == CleanStart(design.kit, Base) IN
         /\ \A q, a : q \notin WorldPredicates => (Reads(q, a, v) <=> Reads(q, a, w))
         /\ \A q \in WorldPredicates : \A a : ~Reads(q, a, w)
         /\ w.kit = design.kit
<1> DEFINE v == View(s)
           w == CleanStart(design.kit, Base)
<1>1. Distance(Base, Base) <= 1
  BY DEF Distance, Base
<1>2. /\ v.cargo = w.cargo /\ v.health = w.health /\ v.atBase = w.atBase
      /\ v.cell = w.cell /\ v.memory = w.memory /\ v.blocked = w.blocked /\ v.reached = w.reached
      /\ v.unreachable = w.unreachable /\ v.kit = w.kit /\ v.ready = w.ready
  BY <1>1 DEF View, CleanStart, Released
<1>3. /\ w.components = <<>> /\ ~w.inReach /\ w.enemies = <<>> /\ ~w.obstacle
      /\ w.radar = <<>> /\ w.signals = <<>> /\ w.kit = design.kit
  BY DEF CleanStart
<1> HIDE DEF v, w
<1>4. \A q, a : q \notin WorldPredicates => (Reads(q, a, v) <=> Reads(q, a, w))
  BY <1>2, OwnReads
<1>5. \A q \in WorldPredicates : \A a : ~Reads(q, a, w)
  BY <1>3, DarkReads
<1> QED BY <1>3, <1>4, <1>5 DEF v, w

------------------------------------------------------------------------------
\* The inspector.

\* Every leaf of the program has its row, and the row is what the leaf reads.
LEMMA ConditionRows ==
  ASSUME NEW p, NEW v
  PROVE  RowsTell(ConditionTable(p, v), LeavesOf(p), v)
<1> DEFINE asked == PointPredicates \cup PercentPredicates
           rows == ConditionTable(p, v)
           plain == {Row(q, 0, v) : q \in Predicates \ asked}
           used == UNION {{Row(q, a, v) : a \in UsedArgs(p, q)} : q \in asked}
           blank == {[pred |-> q, arg |-> 0, true |-> FALSE, unknown |-> TRUE,
                      impossible |-> ~(PredicateNeeds(q) \subseteq v.kit)] :
                       q \in {q \in asked : UsedArgs(p, q) = {}}}
<1>1. rows = plain \cup used \cup blank
  BY DEF ConditionTable
<1>2. \A q, a : LET row == Row(q, a, v) IN
        row.pred = q /\ row.arg = a /\ ~row.unknown /\ (row.true <=> Reads(q, a, v))
  BY DEF Row
<1>3. ASSUME NEW row \in plain \cup used PROVE row.true <=> Reads(row.pred, row.arg, v)
  <2>1. \E q, a : row = Row(q, a, v)
    OBVIOUS
  <2> QED BY <1>2, <2>1
<1>4. \A row \in blank : row.unknown
  OBVIOUS
<1>5. ASSUME NEW l \in LeavesOf(p), l.pred \in Predicates,
             ArgFits(l.pred, l.arg, PointPredicates, PercentPredicates)
      PROVE  Row(l.pred, l.arg, v) \in plain \cup used
  <2>1. CASE l.pred \in asked
    <3>1. l.arg \in UsedArgs(p, l.pred)
      BY DEF UsedArgs
    <3> QED BY <2>1, <3>1
  <2>2. CASE l.pred \notin asked
    <3>1. l.arg = 0
      BY <1>5, <2>2 DEF ArgFits
    <3> QED BY <1>5, <2>2, <3>1
  <2> QED BY <2>1, <2>2
<1> HIDE DEF plain, used, blank
<1>6. ASSUME NEW l \in LeavesOf(p), l.pred \in Predicates,
             ArgFits(l.pred, l.arg, PointPredicates, PercentPredicates)
      PROVE  (\E row \in rows : row.pred = l.pred /\ row.arg = l.arg /\ ~row.unknown /\ row.true)
               <=> Reads(l.pred, l.arg, v)
  <2>1. Row(l.pred, l.arg, v) \in rows
    BY <1>1, <1>5, <1>6
  <2>2. \A row \in rows : ~row.unknown => (row.true <=> Reads(row.pred, row.arg, v))
    BY <1>1, <1>3, <1>4
  <2> HIDE DEF rows
  <2>3. ASSUME NEW row \in rows, row.pred = l.pred, row.arg = l.arg, ~row.unknown, row.true
        PROVE  Reads(l.pred, l.arg, v)
    BY <2>2, <2>3
  <2>4. ASSUME Reads(l.pred, l.arg, v)
        PROVE  \E row \in rows : row.pred = l.pred /\ row.arg = l.arg /\ ~row.unknown /\ row.true
    BY <1>2, <2>1, <2>4
  <2> QED BY <2>3, <2>4
<1> QED BY <1>6 DEF RowsTell

\* The first of the rules that win is the one the walk ended with.
LEMMA FirstWinner ==
  ASSUME NEW v, NEW S, NEW p \in Seq(S)
  PROVE  LET W == Winners(p, v) t == Walk(p, v) IN
         /\ t.rule = 0 => W = {}
         /\ t.rule # 0 => t.rule \in W /\ Min(W) = t.rule
<1> DEFINE W == Winners(p, v)
           t == Walk(p, v)
<1>1. TickIs(p, v, Len(p), t)
  BY WalkIs
<1>2. \A w \in W : w \in 1..Len(p)
  BY DEF Winners
<1>3. (t.rule = 0 => \A w \in W : Len(p) < w) /\ (t.rule # 0 => t.rule \in W /\ \A w \in W : t.rule <= w)
  BY <1>1 DEF TickIs
<1> HIDE DEF W, t
<1>4. t.rule = 0 => W = {}
  <2> SUFFICES ASSUME t.rule = 0, NEW w \in W PROVE FALSE
    OBVIOUS
  <2>1. Len(p) < w /\ w <= Len(p) /\ w \in Int /\ Len(p) \in Int
    BY <1>2, <1>3
  <2> QED BY <2>1
<1>5. ASSUME t.rule # 0 PROVE t.rule \in W /\ Min(W) = t.rule
  <2>1. t.rule \in W /\ \A w \in W : t.rule <= w
    BY <1>3, <1>5
  <2>2. \A m \in W : (\A w \in W : m <= w) => m = t.rule
    <3> SUFFICES ASSUME NEW m \in W, \A w \in W : m <= w PROVE m = t.rule
      OBVIOUS
    <3>1. m <= t.rule /\ t.rule <= m /\ m \in Int /\ t.rule \in Int
      BY <1>2, <2>1
    <3> QED BY <3>1
  <2> QED BY <2>1, <2>2 DEF Min
<1> QED BY <1>4, <1>5 DEF W, t

\* What the verdicts say.
LEMMA VerdictIs ==
  ASSUME NEW p, NEW v, NEW i
  PROVE  /\ Verdict(p, v, i) = "not_met" <=> ~Matches(p[i], v)
         /\ Verdict(p, v, i) \in {"won", "ran"} <=>
              Matches(p[i], v) /\ ~\E j \in Winners(p, v) : j < i
<1>1. ~Matches(p[i], v) => Verdict(p, v, i) = "not_met"
  BY DEF Verdict
<1>2. Matches(p[i], v) /\ (\E j \in Winners(p, v) : j < i) => Verdict(p, v, i) = "shadowed"
  BY DEF Verdict
<1>3. Matches(p[i], v) /\ ~(\E j \in Winners(p, v) : j < i) => Verdict(p, v, i) \in {"won", "ran"}
  BY DEF Verdict
<1> QED BY <1>1, <1>2, <1>3

\* What Decide and Explain make of one view.
LEMMA ExplainTells ==
  ASSUME LanguageAssumption, NEW v, NEW p \in Seq([when : Conditions, then : Seq([do : STRING, arg : Int])]),
         \A i \in DOMAIN p : p[i].when \in Conditions /\ WellFormed(p[i].when, MaxCondDepth)
  PROVE  SaysTheSame(p, Decide(p, v), Explain(p, v))
<1> DEFINE d == Decide(p, v)
           x == Explain(p, v)
           t == Walk(p, v)
           W == Winners(p, v)
           first == IF W = {} THEN 0 ELSE Min(W)
           a == IF W = {} THEN Do("") ELSE PrimaryOf(p[first])
           act == IF W = {} THEN Nowhere ELSE Resolve(a, v)
<1>1. TickIs(p, v, Len(p), t)
  BY WalkIs
<1> HIDE DEF t
<1>2. PICK rule, action, does, matched, writes, sent :
        t = [rule |-> rule, action |-> action, act |-> does, matched |-> matched,
             writes |-> writes, sent |-> sent]
  BY <1>1 DEF TickIs
<1>0. t.rule = rule /\ t.action = action /\ t.act = does /\ t.matched = matched
  BY <1>2
<1>3. matched = {j \in 1..Len(p) : Matches(p[j], v) /\ \A w \in W : j <= w}
  <2>1. t.matched = {j \in 1..Len(p) : Matches(p[j], v) /\ \A w \in W : j <= w}
    BY <1>1 DEF TickIs
  <2> QED BY <1>0, <2>1
<1>4. rule = 0 => W = {}
  BY <1>0, FirstWinner DEF t
<1>5. rule # 0 => rule \in W /\ Min(W) = rule
  BY <1>0, FirstWinner DEF t
<1>6. rule = first /\ action = a.do /\ does = act
  <2>1. CASE rule = 0
    <3>1. t.rule = 0 => t.action = "" /\ t.act = Nowhere
      BY <1>1 DEF TickIs
    <3> QED BY <1>0, <1>4, <2>1, <3>1 DEF Do
  <2>2. CASE rule # 0
    <3>1. t.rule # 0 => /\ t.action = PrimaryOf(p[t.rule]).do
                        /\ t.act = Resolve(PrimaryOf(p[t.rule]), v)
      BY <1>1 DEF TickIs
    <3>2. W # {} /\ first = rule
      BY <1>5, <2>2
    <3> HIDE DEF W, first
    <3> QED BY <1>0, <2>2, <3>1, <3>2
  <2> QED BY <2>1, <2>2
<1>7. x = [rule |-> IF Idles(v, act) THEN 0 ELSE first,
           action |-> IF Idles(v, act) THEN Deposit.kind ELSE a.do,
           idle |-> act.kind = "none" /\ ~Idles(v, act),
           verdicts |-> [i \in DOMAIN p |-> Verdict(p, v, i)],
           conditions |-> ConditionTable(p, v)]
  BY DEF Explain
<1>8. d = IF Idles(v, does) THEN [t EXCEPT !.rule = 0, !.action = Deposit.kind, !.act = Deposit] ELSE t
  BY <1>0 DEF Decide, Reflex, t
<1> HIDE DEF x, d, first, a, act
<1>9. \A i \in DOMAIN p : x.verdicts[i] = Verdict(p, v, i)
  BY <1>7
<1>10. x.conditions = ConditionTable(p, v)
  BY <1>7
<1>11. x.rule = d.rule /\ x.action = d.action /\ x.idle = (d.act.kind = "none") /\ d.matched = matched
  <2>1. CASE Idles(v, act)
    <3>1. d = [rule |-> 0, action |-> Deposit.kind, act |-> Deposit, matched |-> matched,
               writes |-> writes, sent |-> sent]
      BY <1>2, <1>6, <1>8, <2>1
    <3>2. Deposit.kind # "none"
      BY DEF Deposit
    <3> QED BY <1>7, <2>1, <3>1, <3>2
  <2>2. CASE ~Idles(v, act)
    BY <1>2, <1>6, <1>7, <1>8, <2>2
  <2> QED BY <2>1, <2>2
<1>12. ASSUME NEW i \in DOMAIN p PROVE x.verdicts[i] \in {"won", "ran"} <=> i \in d.matched
  <2>1. \A w \in W : w \in 1..Len(p)
    BY DEF Winners
  <2>2. i \in 1..Len(p) /\ Len(p) \in Nat
    OBVIOUS
  <2>3. i \in d.matched <=> Matches(p[i], v) /\ ~\E j \in W : j < i
    <3> HIDE DEF W
    <3>1. (\A w \in W : i <= w) <=> ~\E j \in W : j < i
      BY <2>1, <2>2
    <3> QED BY <1>3, <1>11, <2>2, <3>1
  <2>4. Verdict(p, v, i) \in {"won", "ran"} <=> Matches(p[i], v) /\ ~\E j \in W : j < i
    BY VerdictIs
  <2> QED BY <1>9, <2>3, <2>4
<1>13. ASSUME NEW i \in DOMAIN p
       PROVE  x.verdicts[i] = "not_met" <=> ~TableSays(p[i].when, x.conditions, MaxCondDepth)
  <2>1. Verdict(p, v, i) = "not_met" <=> ~Match(p[i].when, v, MaxCondDepth, "off")
    BY VerdictIs DEF Matches
  <2>2. Leaves(p[i].when, MaxCondDepth, FALSE) \subseteq LeavesOf(p)
    BY DEF LeavesOf
  <2>3. MaxCondDepth \in 0..MaxCondDepth
    BY PlacesHaveLevels
  <2>4. TableSays(p[i].when, ConditionTable(p, v), MaxCondDepth) <=> Match(p[i].when, v, MaxCondDepth, "off")
    BY <2>2, <2>3, ConditionRows, TableTells
  <2> QED BY <1>9, <1>10, <2>1, <2>4
<1> QED BY <1>11, <1>12, <1>13 DEF SaysTheSame, d, x

\* So they agree on the program that is installed.
LEMMA InspectorAgrees == LanguageAssumption /\ MindAssumption /\ design \in Minds => ExplainAgrees
BY InstalledIs, ExplainTells DEF ExplainAgrees

\* What an action leaves of the body: it stays on the line, is hurt by none, and loads
\* no weapon.
LEMMA OutcomesShape ==
  ASSUME MindAssumption, NEW m, NEW r \in Body(m), NEW act, NEW s, NEW o \in Outcomes(r, act, s)
  PROVE  o \in Body(m) /\ o.health = r.health /\ (o.ready => r.ready)
<1> DEFINE Kept(x) == x \in Body(m) /\ x.health = r.health /\ (x.ready => r.ready)
<1>1. Kept(r)
  OBVIOUS
<1>2. \A c \in 0..Far, a, b, d \in BOOLEAN :
        Kept([r EXCEPT !.cell = c, !.reached = a, !.unreachable = b, !.blocked = d])
  BY DEF Body
<1>3. /\ \A a, b \in BOOLEAN : Kept([r EXCEPT !.reached = a, !.unreachable = b])
      /\ Kept([r EXCEPT !.reached = FALSE, !.unreachable = TRUE, !.blocked = TRUE])
      /\ \A c \in 0..Far : Kept([r EXCEPT !.cell = c, !.blocked = FALSE])
      /\ Kept([r EXCEPT !.blocked = TRUE])
  BY DEF Body
<1>4. \A a \in BOOLEAN : Kept([r EXCEPT !.cargo = a])
  BY DEF Body
<1>5. Kept([r EXCEPT !.ready = FALSE])
  BY DEF Body
<1>6. \A cell : \A x \in MoveTo(r, cell) : Kept(x)
  <2> SUFFICES ASSUME NEW cell, NEW x \in MoveTo(r, cell) PROVE Kept(x)
    OBVIOUS
  <2> HIDE DEF Kept
  <2>1. \A c : (c = cell) \in BOOLEAN
    OBVIOUS
  <2>2. \/ x = [r EXCEPT !.reached = TRUE, !.unreachable = FALSE]
        \/ x = [r EXCEPT !.reached = FALSE, !.unreachable = TRUE, !.blocked = TRUE]
        \/ \E c \in 0..Far : x = [r EXCEPT !.cell = c, !.reached = c = cell, !.unreachable = FALSE,
                                           !.blocked = FALSE]
    BY DEF MoveTo
  <2> QED BY <1>2, <1>3, <2>1, <2>2
<1>7. \A x \in Forward(r) : Kept(x)
  BY <1>3 DEF Forward
<1> HIDE DEF Kept
<1> DEFINE O == Outcomes(r, act, s)
<1>8. act.kind = "move_to" => O = MoveTo(r, act.cell)
  BY DEF Outcomes
<1>9. act.kind = "move_forward" => O = Forward(r)
  BY DEF Outcomes
<1>10. act.kind = "pick_up_component" => O \subseteq {[r EXCEPT !.cargo = TRUE], r}
  BY DEF Outcomes
<1>11. act.kind = "deposit_component_at_base" => O \subseteq {[r EXCEPT !.cargo = FALSE], r}
  BY DEF Outcomes
<1>12. act.kind = "drop_component" => O = {[r EXCEPT !.cargo = FALSE]}
  BY DEF Outcomes
<1>13. act.kind = "attack" => O = {r} \cup {[r EXCEPT !.ready = FALSE]}
  BY DEF Outcomes
<1>14. act.kind \notin {"move_to", "move_forward", "pick_up_component",
                        "deposit_component_at_base", "drop_component", "attack"} => O = {r}
  BY DEF Outcomes
<1> HIDE DEF O
<1>15. Kept(o)
  <2>1. o \in O
    BY DEF O
  <2> QED BY <1>1, <1>4, <1>5, <1>6, <1>7, <1>8, <1>9, <1>10, <1>11, <1>12, <1>13, <1>14, <2>1
<1> QED BY <1>15 DEF Kept

\* What a decision holds: the rules that match at or above the first that wins, so some
\* if any matches; and where none does, nothing is written and an empty hand does nothing.
LEMMA DecideIs ==
  ASSUME NEW v, NEW S, NEW p \in Seq(S)
  PROVE  LET d == Decide(p, v) IN
         /\ d.matched = {j \in 1..Len(p) : Matches(p[j], v) /\ \A w \in Winners(p, v) : j <= w}
         /\ d.matched = {} <=> \A j \in DOMAIN p : ~Matches(p[j], v)
         /\ d.matched = {} => d.writes = <<>> /\ (~v.cargo => d.act = Nowhere)
<1> DEFINE d == Decide(p, v)
           t == Walk(p, v)
           W == Winners(p, v)
<1>1. TickIs(p, v, Len(p), t)
  BY WalkIs
<1>2. t.rule = 0 => W = {}
  BY FirstWinner
<1>3. t.rule # 0 => t.rule \in W
  BY FirstWinner
<1>4. d = IF Idles(v, t.act) THEN [t EXCEPT !.rule = 0, !.action = Deposit.kind, !.act = Deposit] ELSE t
  BY DEF Decide, Reflex
<1> HIDE DEF t, d
<1>5. /\ t.matched = {j \in 1..Len(p) : Matches(p[j], v) /\ \A w \in W : j <= w}
      /\ t.matched = {} => t.writes = <<>>
      /\ t.rule = 0 => t.act = Nowhere
      /\ t.rule # 0 => \A w \in W : t.rule <= w
  BY <1>1 DEF TickIs
<1>6. PICK rule, action, act, matched, writes, sent :
        t = [rule |-> rule, action |-> action, act |-> act, matched |-> matched,
             writes |-> writes, sent |-> sent]
  BY <1>1 DEF TickIs
<1>7. d.matched = t.matched /\ d.writes = t.writes /\ (~Idles(v, t.act) => d.act = t.act)
  <2> HIDE DEF W
  <2>1. CASE Idles(v, t.act)
    <3>1. d = [rule |-> 0, action |-> Deposit.kind, act |-> Deposit, matched |-> matched,
               writes |-> writes, sent |-> sent]
      BY <1>4, <1>6, <2>1
    <3> QED BY <1>6, <2>1, <3>1
  <2>2. CASE ~Idles(v, t.act)
    BY <1>4, <2>2
  <2> QED BY <2>1, <2>2
<1>8. \A w \in W : w \in DOMAIN p /\ Matches(p[w], v)
  BY DEF Winners
<1>9. DOMAIN p = 1..Len(p)
  OBVIOUS
<1>10. t.matched = {} <=> \A j \in DOMAIN p : ~Matches(p[j], v)
  <2> HIDE DEF W
  <2>1. CASE t.rule = 0
    BY <1>2, <1>5, <1>9, <2>1
  <2>2. CASE t.rule # 0
    <3>1. t.rule \in t.matched /\ t.rule \in DOMAIN p /\ Matches(p[t.rule], v)
      BY <1>3, <1>5, <1>8, <1>9, <2>2
    <3> QED BY <3>1
  <2> QED BY <2>1, <2>2
<1>11. t.matched = {} => t.act = Nowhere
  <2> HIDE DEF W
  <2>1. t.rule # 0 => t.rule \in t.matched
    BY <1>3, <1>5, <1>8, <1>9
  <2> QED BY <1>5, <2>1
<1>12. ~v.cargo => ~Idles(v, t.act)
  BY DEF Idles
<1> QED BY <1>5, <1>7, <1>10, <1>11, <1>12 DEF d

\* What the three findings of a program with rules mean.
LEMMA StartIs ==
  ASSUME NEW p, p # <<>>, NEW kit, NEW base
  PROVE  /\ StartFinding(p, kit, base) = "runs" <=>
              \E i \in DOMAIN p : Matches(p[i], CleanStart(kit, base))
         /\ StartFinding(p, kit, base) = "inert_start" =>
              \A i \in DOMAIN p : ~Match(p[i].when, CleanStart(kit, base), MaxCondDepth, "world")
<1> DEFINE v == CleanStart(kit, base)
           some == \E i \in DOMAIN p : Matches(p[i], v)
           hope == \E i \in DOMAIN p : Match(p[i].when, v, MaxCondDepth, "world")
<1>1. StartFinding(p, kit, base) =
        IF some THEN "runs" ELSE IF hope THEN "reactive_start" ELSE "inert_start"
  BY DEF StartFinding
<1>2. hope <=> ~\A i \in DOMAIN p : ~Match(p[i].when, v, MaxCondDepth, "world")
  OBVIOUS
<1> HIDE DEF some, hope
<1>3. /\ StartFinding(p, kit, base) = "runs" <=> some
      /\ StartFinding(p, kit, base) = "inert_start" => ~hope
  BY <1>1
<1> QED BY <1>2, <1>3 DEF some

\* Where the editor called a program inert, an unharmed robot sees no rule match,
\* whatever the scene.
LEMMA InertWaits ==
  ASSUME LanguageAssumption, MindAssumption, MindInv, NEW s \in Scenes, design.rules # <<>>,
         StartFinding(design.rules, design.kit, Base) = "inert_start", me.health = FullHealth
  PROVE  /\ me = Released(design.kit)
         /\ \A i \in DOMAIN design.rules : ~Matches(design.rules[i], View(s))
<1> DEFINE p == design.rules
           v == View(s)
           w == CleanStart(design.kit, Base)
<1>1. me = Released(design.kit)
  BY DEF MindInv, InertInv, InertIsNew
<1>2. Hopeful(v, w)
  <2>1. /\ \A q, a : q \notin WorldPredicates => (Reads(q, a, v) <=> Reads(q, a, w))
        /\ \A q \in WorldPredicates : \A a : ~Reads(q, a, w)
        /\ w.kit = design.kit
    BY <1>1, ReleasedReads
  <2>2. \A q, a : Reads(q, a, v) => PredicateNeeds(q) \subseteq design.kit
    BY LacksHardware DEF MindInv
  <2> HIDE DEF v, w
  <2> QED BY <2>1, <2>2 DEF Hopeful
<1>3. ASSUME NEW i \in DOMAIN p PROVE ~Matches(p[i], v)
  <2>1. p[i].when \in Conditions
    BY InstalledIs DEF MindInv
  <2>2. ~Match(p[i].when, w, MaxCondDepth, "world")
    BY StartIs
  <2>3. MaxCondDepth \in 0..MaxCondDepth
    BY PlacesHaveLevels
  <2> HIDE DEF v, w
  <2>4. Match(p[i].when, v, MaxCondDepth, "off") => Match(p[i].when, w, MaxCondDepth, "world")
    BY <1>2, <2>1, <2>3, HopeTells
  <2> QED BY <2>2, <2>4 DEF Matches
<1> QED BY <1>1, <1>3

------------------------------------------------------------------------------
\* The theorems: a robot as it is released.
LEMMA MindStarts == LanguageAssumption /\ MindAssumption /\ MindInit => MindInv
<1> SUFFICES ASSUME MindAssumption, LanguageAssumption, MindInit PROVE MindInv
  OBVIOUS
<1>1. design \in Minds /\ me = Released(design.kit)
  BY DEF MindInit
<1>2. 0 \in 0..Far /\ ("weapon" \in design.kit) \in BOOLEAN
  BY DEF MindAssumption
<1>3. me.memory \in Memories
  BY <1>1 DEF Released, Memories, Cellish
<1>4. BodyInv
  BY <1>1, <1>2, <1>3 DEF BodyInv, Body, Released, Base
<1> QED BY <1>1, <1>4 DEF MindInv, InertInv, InertIsNew

\* A turn.
LEMMA TurnKeeps ==
  ASSUME LanguageAssumption, MindAssumption, MindInv, NEW s \in Scenes, Turn(s)
  PROVE  MindInv'
<1> DEFINE d == Decide(design.rules, View(s))
           m == Wrote(me.memory, d.writes)
           r == [me EXCEPT !.memory = m]
<1>1. design' = design /\ me' \in Outcomes(r, d.act, s)
  BY DEF Turn
<1>2. /\ design \in Minds /\ me \in Body(me.memory) /\ me.memory \in Memories
      /\ (me.ready => "weapon" \in design.kit)
  BY DEF MindInv, BodyInv
<1>3. r \in Body(m) /\ r.health = me.health /\ r.ready = me.ready
  <2> HIDE DEF m
  <2> QED BY <1>2 DEF Body
<1>4. me' \in Body(m) /\ me'.health = me.health /\ (me'.ready => me.ready)
  <2> DEFINE act == d.act
             Kept(o) == o \in Body(m) /\ o.health = r.health /\ (o.ready => r.ready)
  <2>1. me' \in Outcomes(r, act, s)
    BY <1>1
  <2> HIDE DEF d, m, r, act
  <2>2. r \in Body(m)
    BY <1>3
  <2>3. \A o \in Outcomes(r, act, s) : Kept(o)
    BY <2>2, OutcomesShape
  <2>4. Kept(me')
    BY <2>1, <2>3
  <2> QED BY <1>3, <2>4
<1>5. BodyInv'
  <2>1. me'.memory = m
    <3> HIDE DEF m
    <3> QED BY <1>4 DEF Body
  <2>2. me' \in Body(me'.memory) /\ (me'.ready => "weapon" \in design'.kit)
    <3> HIDE DEF m
    <3> QED BY <1>1, <1>2, <1>4, <2>1
  <2>3. m \in Memories
    <3>1. me.cell \in 0..Far
      BY <1>2 DEF Body
    <3>2. d.writes \in Seq(MemWrites)
      BY <1>2, <3>1, TurnWrites
    <3> HIDE DEF d
    <3> QED BY <1>2, <3>2, WroteIs
  <2>4. me'.memory \in Memories
    <3> HIDE DEF m
    <3> QED BY <2>1, <2>3
  <2> QED BY <2>2, <2>4 DEF BodyInv, Body, Memories, Cellish
<1>6. InertInv'
  <2> SUFFICES ASSUME design.rules # <<>>,
                      StartFinding(design.rules, design.kit, Base) = "inert_start",
                      me'.health = FullHealth
               PROVE  me' = Released(design.kit)
    BY <1>1 DEF InertInv, InertIsNew
  <2>1. me.health = FullHealth
    BY <1>4
  <2>2. me = Released(design.kit) /\ \A i \in DOMAIN design.rules : ~Matches(design.rules[i], View(s))
    BY <2>1, InertWaits
  <2>3. design.rules \in Seq([when : Conditions, then : Seq([do : STRING, arg : Int])])
    BY <1>2, InstalledIs
  <2>4. ~View(s).cargo
    BY <2>2 DEF View, Released
  <2>5. d.writes = <<>> /\ d.act = Nowhere
    BY <2>2, <2>3, <2>4, DecideIs
  <2>6. m = me.memory
    BY <1>2, <2>5, WroteIs
  <2>7. r = me
    <3> HIDE DEF m
    <3> QED BY <1>2, <2>6 DEF Body
  <2>8. Outcomes(r, d.act, s) = {r}
    <3>1. d.act.kind = "none"
      BY <2>5 DEF Nowhere
    <3> HIDE DEF d, r, m
    <3> QED BY <3>1 DEF Outcomes
  <2> HIDE DEF d, r, m
  <2> QED BY <1>1, <2>2, <2>7, <2>8
<1> QED BY <1>1, <1>2, <1>5, <1>6 DEF MindInv

\* A shot, and a reload.
LEMMA HitKeeps == ASSUME MindAssumption, MindInv, Hit PROVE MindInv'
<1>1. design' = design /\ me' = [me EXCEPT !.health = LowHealth]
  BY DEF Hit
<1>2. design \in Minds /\ me \in Body(me.memory) /\ me.memory \in Memories /\ (me.ready => "weapon" \in design.kit)
  BY DEF MindInv, BodyInv
<1>3. /\ me' \in Body(me.memory) /\ me'.memory = me.memory /\ me'.ready = me.ready
      /\ me'.health = LowHealth
  BY <1>1, <1>2 DEF Body
<1>4. BodyInv'
  BY <1>1, <1>2, <1>3 DEF BodyInv, Body, Memories, Cellish
<1>5. InertInv'
  BY <1>3 DEF InertInv, InertIsNew, MindAssumption
<1> QED BY <1>1, <1>2, <1>4, <1>5 DEF MindInv

LEMMA ReloadKeeps == ASSUME MindAssumption, MindInv, Reload PROVE MindInv'
<1> DEFINE w == "weapon" \in design.kit
<1>1. design' = design /\ me' = [me EXCEPT !.ready = w] /\ w \in BOOLEAN
  BY DEF Reload
<1>2. design \in Minds /\ me \in Body(me.memory) /\ me.memory \in Memories
  BY DEF MindInv, BodyInv
<1>3. /\ me' \in Body(me.memory) /\ me'.memory = me.memory /\ me'.ready = w
      /\ me'.health = me.health
  <2> HIDE DEF w
  <2> QED BY <1>1, <1>2 DEF Body
<1>4. BodyInv'
  BY <1>1, <1>2, <1>3 DEF BodyInv, Body, Memories, Cellish
<1>5. InertInv'
  <2> SUFFICES ASSUME InertInv, design.rules # <<>>,
                      StartFinding(design.rules, design.kit, Base) = "inert_start",
                      me'.health = FullHealth
               PROVE  me' = Released(design.kit)
    BY <1>1 DEF MindInv, InertInv, InertIsNew
  <2>1. me = Released(design.kit)
    BY <1>3 DEF InertInv, InertIsNew
  <2>2. me.ready = w
    BY <2>1 DEF Released
  <2>3. me' = me
    <3> HIDE DEF w
    <3> QED BY <1>1, <1>2, <2>2 DEF Body
  <2> QED BY <2>1, <2>3
<1> QED BY <1>1, <1>2, <1>4, <1>5 DEF MindInv

\* Whatever the scenes and however the world answers, the body stays a robot's on the line,
\* with a weapon only if it has one, and where the editor called the program inert an
\* unharmed robot is as its base released it (tick.go Step).
THEOREM MindInvariance == MindSpec => []MindInv
<1>1. MindInit => MindInv
  BY LanguageAssumption, MindAssumption, MindStarts
<1>2. MindInv /\ [MindNext]_mindVars => MindInv'
  <2> SUFFICES ASSUME MindInv, [MindNext]_mindVars PROVE MindInv'
    OBVIOUS
  <2>1. CASE \E s \in Scenes : Turn(s)
    BY <2>1, LanguageAssumption, MindAssumption, TurnKeeps
  <2>2. CASE Hit
    BY <2>2, MindAssumption, HitKeeps
  <2>3. CASE Reload
    BY <2>3, MindAssumption, ReloadKeeps
  <2>4. CASE UNCHANGED mindVars
    <3>1. design' = design /\ me' = me
      BY <2>4 DEF mindVars
    <3> QED BY <3>1 DEF MindInv, BodyInv, InertInv, Body, Memories, Cellish
  <2> QED BY <2>1, <2>2, <2>3, <2>4 DEF MindNext
<1> QED BY <1>1, <1>2, PTL DEF MindSpec

\* A robot stays on the line, in health it can be in, and its memory holds cells of the
\* line at the points it has and at no other, whatever a valid program saves, clears or
\* latches from a signal (eval.go write, tick.go apply).
THEOREM MindTypeCorrect == MindSpec => []MindTypeOK
<1>1. MindInv => MindTypeOK
  BY DEF MindInv, BodyInv, MindTypeOK, Robot, Body, Memories, Cellish
<1> QED BY <1>1, MindInvariance, PTL

\* For every valid program, of any size and depth, and every scene, Explain says what
\* Decide did, and its condition table bears out each verdict (explain.go, eval.go).
THEOREM TheInspectorAgrees == MindSpec => []ExplainAgrees
<1>1. MindInv => ExplainAgrees
  BY LanguageAssumption, MindAssumption, InspectorAgrees DEF MindInv
<1> QED BY <1>1, MindInvariance, PTL

\* An unreachable rule does not match where the rule that pre-empts it does not win.
LEMMA UnreachableIs ==
  ASSUME LanguageAssumption, NEW v, NEW S, NEW p \in Seq(S), \A i \in DOMAIN p : p[i].when \in Conditions
  PROVE  Decide(p, v).matched \cap Unreachable(p) = {}
<1> SUFFICES ASSUME NEW j \in Decide(p, v).matched, j \in Unreachable(p) PROVE FALSE
  OBVIOUS
<1>1. j \in 1..Len(p) /\ Matches(p[j], v) /\ \A w \in Winners(p, v) : j <= w
  BY DecideIs
<1>2. PICK i \in 1..(j - 1) : Dominates(p[i], p[j])
  BY DEF Unreachable
<1>3. i \in DOMAIN p /\ j \in DOMAIN p /\ i < j /\ ~(j <= i)
  BY <1>1, <1>2
<1> DEFINE above == Conjuncts(p[i].when, MaxCondDepth)
           below == Conjuncts(p[j].when, MaxCondDepth)
<1>4. PrimariesOf(p[i]) # {} /\ above # {} /\ above \subseteq below
  BY <1>2 DEF Dominates
<1>5. MaxCondDepth \in 0..MaxCondDepth
  BY PlacesHaveLevels
<1>6. \A k \in {i, j} : Conjuncts(p[k].when, MaxCondDepth) # {} =>
        (Match(p[k].when, v, MaxCondDepth, "off")
           <=> \A q \in Conjuncts(p[k].when, MaxCondDepth) : Reads(q[1], q[2], v))
  BY <1>3, <1>5, ConjunctsTell
<1>7. Match(p[j].when, v, MaxCondDepth, "off")
  BY <1>1 DEF Matches
<1>8. \A q \in below : Reads(q[1], q[2], v)
  BY <1>4, <1>6, <1>7
<1>9. Match(p[i].when, v, MaxCondDepth, "off")
  BY <1>4, <1>6, <1>8
<1>10. i \in Winners(p, v)
  BY <1>3, <1>4, <1>9 DEF Winners, Matches
<1> QED BY <1>1, <1>3, <1>10

\* On a robot just built, in a quiet world, a rule matches exactly where one did at the
\* editor's clean start.
LEMMA QuietStart ==
  ASSUME LanguageAssumption, MindAssumption, design \in Minds, design.rules # <<>>,
         me = Released(design.kit)
  PROVE  Decide(design.rules, View(Quiet)).matched # {}
           <=> StartFinding(design.rules, design.kit, Base) = "runs"
<1> DEFINE p == design.rules
           v == View(Quiet)
           w == CleanStart(design.kit, Base)
<1>1. \A q, a : Reads(q, a, v) <=> Reads(q, a, w)
  <2>1. /\ \A q, a : q \notin WorldPredicates => (Reads(q, a, v) <=> Reads(q, a, w))
        /\ \A q \in WorldPredicates : \A a : ~Reads(q, a, w)
    BY ReleasedReads
  <2>2. /\ v.components = <<>> /\ ~v.inReach /\ v.enemies = <<>> /\ ~v.obstacle
        /\ v.radar = <<>> /\ v.signals = <<>>
    BY DEF View, Quiet
  <2> HIDE DEF v, w
  <2>3. \A q \in WorldPredicates : \A a : ~Reads(q, a, v)
    BY <2>2, DarkReads
  <2> QED BY <2>1, <2>3
<1>2. p \in Seq([when : Conditions, then : Seq([do : STRING, arg : Int])])
      /\ \A i \in DOMAIN p : p[i].when \in Conditions
  BY InstalledIs
<1>3. MaxCondDepth \in 0..MaxCondDepth
  BY PlacesHaveLevels
<1>4. \A i \in DOMAIN p : Matches(p[i], v) <=> Matches(p[i], w)
  <2> HIDE DEF v, w
  <2> QED BY <1>1, <1>2, <1>3, AlikeTells DEF Matches
<1>5. Decide(p, v).matched = {} <=> \A i \in DOMAIN p : ~Matches(p[i], v)
  BY <1>2, DecideIs
<1>6. StartFinding(p, design.kit, Base) = "runs" <=> \E i \in DOMAIN p : Matches(p[i], w)
  BY StartIs
<1> QED BY <1>4, <1>5, <1>6

\* For every valid program and body: an unreachable rule never runs, a dead predicate is
\* never true, an inert program matches nothing while its robot is unharmed, and a robot
\* just built in a quiet world matches a rule exactly when the editor found one that runs
\* (validate.go).
THEOREM TheWarningsHold == MindSpec => []WarningsAreTrue
<1>1. ASSUME MindInv PROVE WarningsAreTrue
  <2> DEFINE p == design.rules
             start == StartFinding(p, design.kit, Base)
  <2> SUFFICES ASSUME p # <<>>
               PROVE  /\ \A s \in Scenes :
                           /\ Decide(p, View(s)).matched \cap Unreachable(p) = {}
                           /\ \A l \in DeadPredicates(p, design.kit) : ~Reads(l.pred, l.arg, View(s))
                           /\ start = "inert_start" /\ me.health = FullHealth =>
                                Decide(p, View(s)).matched = {}
                      /\ me = Released(design.kit) =>
                           (Decide(p, View(Quiet)).matched # {} <=> start = "runs")
    BY DEF WarningsAreTrue
  <2>1. /\ p \in Seq([when : Conditions, then : Seq([do : STRING, arg : Int])])
        /\ \A i \in DOMAIN p : p[i].when \in Conditions
    BY <1>1, LanguageAssumption, MindAssumption, InstalledIs DEF MindInv
  <2>2. ASSUME NEW s \in Scenes
        PROVE  Decide(p, View(s)).matched \cap Unreachable(p) = {}
    BY <2>1, LanguageAssumption, UnreachableIs
  <2>3. ASSUME NEW s \in Scenes, NEW l \in DeadPredicates(p, design.kit)
        PROVE  ~Reads(l.pred, l.arg, View(s))
    BY <1>1, MindAssumption, LacksHardware DEF MindInv, DeadPredicates
  <2>4. ASSUME NEW s \in Scenes, start = "inert_start", me.health = FullHealth
        PROVE  Decide(p, View(s)).matched = {}
    <3>1. \A i \in DOMAIN p : ~Matches(p[i], View(s))
      BY <1>1, <2>4, LanguageAssumption, MindAssumption, InertWaits
    <3> QED BY <2>1, <3>1, DecideIs
  <2>5. ASSUME me = Released(design.kit)
        PROVE  Decide(p, View(Quiet)).matched # {} <=> start = "runs"
    BY <1>1, <2>5, LanguageAssumption, MindAssumption, QuietStart DEF MindInv
  <2> QED BY <2>2, <2>3, <2>4, <2>5
<1> QED BY <1>1, MindInvariance, PTL

------------------------------------------------------------------------------
\* What a robot does, its body can do, and what it shoots at, it sees or detects: a turn
\* is never refused for want of hardware or of a target (validate.go, eval.go
\* resolvePrimary).
ActsAreBacked ==
  \A s \in Scenes :
    LET act == Decide(design.rules, View(s)).act
        sighted == {list[1] : list \in {s.enemies, s.radar} \ {<<>>}} IN
    /\ act.kind \in {"pick_up_component", "deposit_component_at_base", "drop_component"} =>
         "manipulator" \in design.kit
    /\ act.kind = "attack" =>
         "weapon" \in design.kit /\ \E t \in sighted : t.kind = "robot" /\ t.cell = act.cell

\* The primary action of a rule is one of its actions, and ends the tick.
LEMMA PrimaryIs ==
  ASSUME NEW rule, rule.then \in Seq([do : STRING, arg : Int]), PrimariesOf(rule) # {}
  PROVE  \E j \in DOMAIN rule.then : PrimaryOf(rule) = rule.then[j] /\ rule.then[j].do \in Primaries
<1> DEFINE W == PrimariesOf(rule)
<1>1. W \in SUBSET Nat /\ \A j \in W : j \in DOMAIN rule.then /\ rule.then[j].do \in Primaries
  BY DEF PrimariesOf
<1>2. PrimaryOf(rule) = rule.then[Min(W)]
  BY DEF PrimaryOf
<1> HIDE DEF W
<1>3. Min(W) \in W
  BY <1>1, MinOf DEF W
<1> QED BY <1>1, <1>2, <1>3

\* The hardware of what an action comes to is the action's, and its target is in the view.
LEMMA ResolveIs ==
  ASSUME NEW v, NEW a, a.do \in Primaries
  PROVE  LET act == Resolve(a, v) IN
         /\ act.kind \in {"pick_up_component", "deposit_component_at_base", "drop_component"} =>
              "manipulator" \in ActionNeeds(a.do)
         /\ act.kind = "attack" =>
              /\ "weapon" \in ActionNeeds(a.do)
              /\ \/ a.do = "attack_visible_target" /\ v.enemies # <<>> /\ act.cell = v.enemies[1].cell
                 \/ a.do = "attack_radar_target" /\ RadarEnemy(v) # <<>> /\ act.cell = RadarEnemy(v)[1].cell
<1> DEFINE act == Resolve(a, v)
           handled == {"pick_up_component", "deposit_component_at_base", "drop_component"}
           same == {"move_forward", "turn_left", "turn_right", "turn_random", "stop"} \cup handled
<1>1. \A c : Moving(c).kind = "move_to"
  BY DEF Moving
<1>2. Nowhere.kind = "none"
  BY DEF Nowhere
<1>3. \A x, y : Retreat(x, y).kind \in {"none", "move_to"}
  BY <1>1, <1>2 DEF Retreat
<1>4. \A list : MoveToFirst(list).kind \in {"none", "move_to"}
  BY <1>1, <1>2 DEF MoveToFirst
<1>5. CASE a.do \in same
  <2>1. act = [kind |-> a.do, cell |-> NoCell]
    BY <1>5 DEF Resolve
  <2>2. act.kind = a.do
    BY <2>1
  <2>3. a.do # "attack"
    BY <1>5
  <2>4. a.do \in handled => ActionNeeds(a.do) = {"manipulator"}
    BY DEF ActionNeeds
  <2> QED BY <2>2, <2>3, <2>4
<1>6. CASE a.do \in {"move_to_own_base", "move_to_visible_target", "move_to_radar_target",
                     "move_to_point", "move_away_from_target", "move_away_from_point"}
  <2> DEFINE idle == {"none", "move_to"}
  <2> HIDE DEF act
  <2>1. a.do = "move_to_own_base" => act.kind \in idle
    BY <1>1, <1>2 DEF Resolve, act
  <2>2. a.do = "move_to_visible_target" => act.kind \in idle
    BY <1>4 DEF Resolve, act
  <2>3. a.do = "move_to_radar_target" => act.kind \in idle
    BY <1>4 DEF Resolve, act
  <2>4. a.do = "move_to_point" => act.kind \in idle
    BY <1>1, <1>2 DEF Resolve, act
  <2>5. a.do = "move_away_from_target" => act.kind \in idle
    BY <1>2, <1>3 DEF Resolve, act
  <2>6. a.do = "move_away_from_point" => act.kind \in idle
    BY <1>2, <1>3 DEF Resolve, act
  <2>7. act.kind \in idle
    BY <1>6, <2>1, <2>2, <2>3, <2>4, <2>5, <2>6
  <2> QED BY <2>7 DEF act
<1>7. CASE a.do = "attack_visible_target"
  <2>1. act = IF v.enemies = <<>> THEN Nowhere ELSE [kind |-> "attack", cell |-> v.enemies[1].cell]
    BY <1>7 DEF Resolve
  <2>2. ActionNeeds(a.do) = {"weapon"}
    BY <1>7 DEF ActionNeeds
  <2> HIDE DEF act
  <2>3. act.kind \notin handled
    BY <1>2, <2>1
  <2>4. act.kind = "attack" => v.enemies # <<>> /\ act.cell = v.enemies[1].cell
    BY <1>2, <2>1
  <2> QED BY <1>7, <2>2, <2>3, <2>4 DEF act
<1>8. CASE a.do = "attack_radar_target"
  <2>1. act = IF RadarEnemy(v) = <<>> THEN Nowhere ELSE [kind |-> "attack", cell |-> RadarEnemy(v)[1].cell]
    BY <1>8 DEF Resolve
  <2>2. ActionNeeds(a.do) = {"radar", "weapon"}
    BY <1>8 DEF ActionNeeds
  <2> HIDE DEF act
  <2>3. act.kind \notin handled
    BY <1>2, <2>1
  <2>4. act.kind = "attack" => RadarEnemy(v) # <<>> /\ act.cell = RadarEnemy(v)[1].cell
    BY <1>2, <2>1
  <2> QED BY <1>8, <2>2, <2>3, <2>4 DEF act
<1> QED BY <1>5, <1>6, <1>7, <1>8 DEF Primaries, Steering

\* Who a scene shows is a robot: the first seen, and the first robot detected.
LEMMA TargetsShown ==
  ASSUME NEW s \in Scenes
  PROVE  /\ s.enemies # <<>> => s.enemies[1].kind = "robot"
         /\ RadarEnemy(View(s)) # <<>> => /\ s.radar # <<>> /\ RadarEnemy(View(s))[1] = s.radar[1]
                                          /\ s.radar[1].kind = "robot"
<1>1. s.enemies \in Sightings("robot", 2)
  BY DEF Scenes
<1>2. \A kind, id : \A y \in Sightings(kind, id) : y = <<>> \/ \E x : y = <<x>> /\ x.kind = kind
  BY DEF Sightings
<1>3. s.enemies # <<>> => s.enemies[1].kind = "robot"
  BY <1>1, <1>2
<1>4. s.radar = <<>> \/ \E x : s.radar = <<x>>
  <2>1. s.radar \in (IF "radar" \in design.kit THEN Sightings(RadarKind, 3) ELSE {<<>>})
    BY DEF Scenes
  <2> DEFINE R == RadarKind
  <2>2. s.radar \in Sightings(R, 3) \/ s.radar \in {<<>>}
    BY <2>1
  <2> HIDE DEF R
  <2> QED BY <1>2, <2>2
<1>5. RadarEnemy(View(s)) = FirstOf(s.radar, "robot")
  BY DEF RadarEnemy, View
<1>6. ASSUME FirstOf(s.radar, "robot") # <<>>
      PROVE  /\ s.radar # <<>> /\ FirstOf(s.radar, "robot")[1] = s.radar[1] /\ s.radar[1].kind = "robot"
  <2>1. PICK x : s.radar = <<x>>
    BY <1>4, <1>6, FirstOfIs
  <2>2. FirstOf(<<x>>, "robot") = <<x>>
    BY <1>6, <2>1, FirstOfIs
  <2>3. {i \in DOMAIN <<x>> : <<x>>[i].kind = "robot"} # {}
    BY <1>6, <2>1 DEF FirstOf
  <2>4. x.kind = "robot"
    BY <2>3
  <2> QED BY <2>1, <2>2, <2>4
<1> QED BY <1>3, <1>5, <1>6

\* What the act of a tick comes from.
LEMMA TickActs ==
  ASSUME NEW p, NEW v, NEW i, NEW t, TickIs(p, v, i, t)
  PROVE  /\ \E rule, action, act, matched, writes, sent :
              t = [rule |-> rule, action |-> action, act |-> act, matched |-> matched,
                   writes |-> writes, sent |-> sent]
         /\ t.rule = 0 => t.act = Nowhere
         /\ t.rule # 0 => t.rule \in Winners(p, v) /\ t.act = Resolve(PrimaryOf(p[t.rule]), v)
BY Zenon DEF TickIs

\* What a validated program decides.
LEMMA DecidedIsBacked ==
  ASSUME LanguageAssumption, MindAssumption, design \in Minds
  PROVE  ActsAreBacked
<1> SUFFICES ASSUME NEW s \in Scenes
             PROVE  LET act == Decide(design.rules, View(s)).act
                        sighted == {list[1] : list \in {s.enemies, s.radar} \ {<<>>}} IN
                    /\ act.kind \in {"pick_up_component", "deposit_component_at_base",
                                     "drop_component"} => "manipulator" \in design.kit
                    /\ act.kind = "attack" =>
                         "weapon" \in design.kit /\ \E t \in sighted : t.kind = "robot" /\ t.cell = act.cell
  BY DEF ActsAreBacked
<1> DEFINE p == design.rules
           v == View(s)
           t == Walk(p, v)
           d == Decide(p, v)
           sighted == {list[1] : list \in {s.enemies, s.radar} \ {<<>>}}
           handled == {"pick_up_component", "deposit_component_at_base", "drop_component"}
           Backed(act) ==
             /\ act.kind \in handled => "manipulator" \in design.kit
             /\ act.kind = "attack" =>
                  "weapon" \in design.kit /\ \E x \in sighted : x.kind = "robot" /\ x.cell = act.cell
<1>1. /\ p \in Seq([when : Conditions, then : Seq([do : STRING, arg : Int])])
      /\ Valid(p, design.kit)
  BY InstalledIs DEF MindAssumption
<1>2. TickIs(p, v, Len(p), t)
  BY <1>1, WalkIs
<1>3. v.kit = design.kit /\ v.enemies = s.enemies
  BY DEF View
<1>4. d = IF Idles(v, t.act) THEN [t EXCEPT !.rule = 0, !.action = Deposit.kind, !.act = Deposit] ELSE t
  BY DEF Decide, Reflex
<1>5. PICK rule, action, act, matched, writes, sent :
        t = [rule |-> rule, action |-> action, act |-> act, matched |-> matched,
             writes |-> writes, sent |-> sent]
  <2> HIDE DEF p, v, t
  <2> QED BY <1>2, TickActs
<1>6. Backed(Nowhere)
  BY DEF Nowhere
<1>7. ASSUME t.rule # 0 PROVE Backed(t.act)
  <2> DEFINE a == PrimaryOf(p[t.rule])
  <2>1. t.rule \in Winners(p, v) /\ t.act = Resolve(a, v)
    BY <1>2, <1>7, TickActs
  <2>2. t.rule \in DOMAIN p /\ PrimariesOf(p[t.rule]) # {}
    BY <2>1 DEF Winners
  <2>3. p[t.rule].then \in Seq([do : STRING, arg : Int])
    <3> DEFINE T == [when : Conditions, then : Seq([do : STRING, arg : Int])]
    <3>1. p \in Seq(T)
      BY <1>1
    <3> HIDE DEF T, p, t
    <3>2. p[t.rule] \in T
      BY <2>2, <3>1
    <3> QED BY <3>2 DEF T
  <2>4. PICK j \in DOMAIN p[t.rule].then : a = p[t.rule].then[j] /\ p[t.rule].then[j].do \in Primaries
    BY <2>2, <2>3, PrimaryIs
  <2>5. ActionNeeds(a.do) \subseteq design.kit /\ a.do \in Primaries
    BY <1>1, <2>2, <2>4 DEF Valid
  <2> HIDE DEF p, v, t, a
  <2>6. CASE t.act.kind # "attack"
    BY <2>1, <2>5, <2>6, ResolveIs
  <2>7. CASE t.act.kind = "attack"
    <3>1. "weapon" \in design.kit
      BY <2>1, <2>5, <2>7, ResolveIs
    <3>2. \/ v.enemies # <<>> /\ t.act.cell = v.enemies[1].cell
          \/ RadarEnemy(v) # <<>> /\ t.act.cell = RadarEnemy(v)[1].cell
      BY <2>1, <2>5, <2>7, ResolveIs
    <3>3. CASE v.enemies # <<>> /\ t.act.cell = v.enemies[1].cell
      BY <1>3, <2>7, <3>1, <3>3, TargetsShown
    <3>4. CASE RadarEnemy(v) # <<>> /\ t.act.cell = RadarEnemy(v)[1].cell
      BY <2>7, <3>1, <3>4, TargetsShown DEF v
    <3> QED BY <3>2, <3>3, <3>4
  <2> QED BY <2>6, <2>7
<1>8. Backed(t.act)
  <2>1. t.rule = 0 => t.act = Nowhere
    BY <1>2, TickActs
  <2> HIDE DEF t, Backed
  <2> QED BY <1>6, <1>7, <2>1
<1>9. CASE Idles(v, t.act)
  <2>1. d.act = Deposit
    <3> HIDE DEF t, d
    <3> QED BY <1>4, <1>5, <1>9
  <2>2. "manipulator" \in design.kit
    BY <1>3, <1>9 DEF Idles
  <2>3. Deposit.kind # "attack"
    BY DEF Deposit
  <2> HIDE DEF d
  <2>4. Backed(d.act)
    BY <2>1, <2>2, <2>3
  <2> QED BY <2>4 DEF d
<1>10. CASE ~Idles(v, t.act)
  <2>1. d = t
    BY <1>4, <1>10
  <2> HIDE DEF t, d
  <2>2. Backed(d.act)
    BY <1>8, <2>1
  <2> QED BY <2>2 DEF d
<1> QED BY <1>9, <1>10

\* For every valid program, whatever the robot has been through and is shown: it only
\* reaches for what a manipulator is there to hold, the deposit reflex included, and only
\* shoots with a weapon, at a robot it sees or detects (validate.go, eval.go).
THEOREM ActsFitTheBody == MindSpec => []ActsAreBacked
<1>1. MindInv => ActsAreBacked
  BY LanguageAssumption, MindAssumption, DecidedIsBacked DEF MindInv
<1> QED BY <1>1, MindInvariance, PTL
==============================================================================
