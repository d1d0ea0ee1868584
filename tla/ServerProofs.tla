---------------------------- MODULE ServerProofs -----------------------------
(***************************************************************************)
(* The lobby and its match in one process.  Put together they are still    *)
(* what Lobby.tla and Match.tla say of each alone, so that every theorem   *)
(* about either holds of the server; and together they keep what neither   *)
(* can promise by itself.                                                  *)
(***************************************************************************)
EXTENDS Server, SequenceTheorems, TLAPS

LP == INSTANCE LobbyProofs

MP == INSTANCE MatchProofs WITH Players <- Users, start <- StartOf

\* A request of the lobby that is not the start past its flip is nothing to the match.
LEMMA StartUnmoved ==
  ASSUME NEW r \in Requests, NEW q, req' = [req EXCEPT ![r] = q], req \in [Requests -> L!Request],
         req[r].op \in {"flipped", "reloaded", "built"} <=> q.op \in {"flipped", "reloaded", "built"},
         req[r].op = "failed" <=> q.op = "failed"
  PROVE  UNCHANGED StartOf
<1>1. \A s \in Requests : req'[s] = IF s = r THEN q ELSE req[s]
  OBVIOUS
<1>2. \A s \in Requests :
        /\ req'[s].op \in {"flipped", "reloaded", "built"} <=> req[s].op \in {"flipped", "reloaded", "built"}
        /\ req'[s].op = "failed" <=> req[s].op = "failed"
  BY <1>1
<1> QED BY <1>2 DEF StartOf

\* Every step of the server is a step of its lobby, or none.
LEMMA LobbyStep ==
  ASSUME [Next]_vars
  PROVE  [L!Next]_(L!vars)
<1> USE DEF vars, lobbyVars, L!vars
<1>1. ASSUME NEW r \in Requests, LobbyRequest(r) PROVE L!Next
  BY <1>1 DEF LobbyRequest, L!Next, L!Seating, L!SettingAI, L!Starting
<1>2. ASSUME NEW r \in Requests, StartRequest(r) PROVE L!Next
  BY <1>2 DEF StartRequest, L!Next, L!Starting
<1>3. ASSUME NEW u \in Users, SeatRequest(u) PROVE L!Next
  BY <1>3 DEF SeatRequest, L!Next
<1>4. ASSUME NEW u \in Users, Command(u) PROVE UNCHANGED L!vars
  BY <1>4 DEF Command, M!CommandChecked, M!CommandApplied, M!CommandRefused, M!dbVars
<1>5. CASE Drive
  <2>1. CASE L!MatchSettles
    BY <2>1 DEF L!Next
  <2>2. CASE UNCHANGED lobbyVars /\ (M!DriverSave \/ M!DriverTick \/ M!DriverSettleFails \/ M!DriverSuspends)
    BY <2>2 DEF M!DriverSave, M!DriverCopies, M!DriverWrites, M!DriverWriteFails, M!DriverTick,
       M!DriverTicks, M!DriverTicksAndSaves, M!DriverFinishes, M!DriverSettleFails,
       M!DriverSuspends, M!dbVars
  <2> QED BY <1>5, <2>1, <2>2 DEF Drive
<1>6. CASE Restore
  <2>1. CASE L!MatchSettles
    BY <2>1 DEF L!Next
  <2>2. CASE UNCHANGED lobbyVars /\ (M!RestoreLists \/ M!RestoreReads \/ M!RestoreReadFails
                                      \/ M!ReplayCommand \/ M!ReplayStep \/ M!RestoreDeletes)
    BY <2>2 DEF M!RestoreLists, M!RestoreReads, M!RestoreReadFails, M!ReplayCommand,
       M!ReplayStep, M!RestoreDeletes, M!dbVars
  <2>3. CASE M!ReplayReturns /\ IF proc' = "serving" THEN L!Restored ELSE UNCHANGED lobbyVars
    BY <2>3 DEF M!ReplayReturns, M!dbVars, L!Next
  <2> QED BY <1>6, <2>1, <2>2, <2>3 DEF Restore
<1>7. CASE Process
  <2>1. CASE L!ProcessStops
    BY <2>1 DEF L!Next
  <2>2. CASE UNCHANGED lobbyVars /\ (M!Boot \/ M!Signal \/ M!StopDrivers)
    BY <2>2 DEF M!Boot, M!Signal, M!StopDrivers, M!dbVars
  <2> QED BY <1>7, <2>1, <2>2 DEF Process
<1> QED
  BY <1>1, <1>2, <1>3, <1>4, <1>5, <1>6, <1>7 DEF Next

\* And of its match.
LEMMA MatchStep ==
  ASSUME req \in [Requests -> L!Request], [Next]_vars
  PROVE  [M!Next]_(M!vars)
<1> DEFINE Rest == UNCHANGED <<row, matchVars>> /\ UNCHANGED StartOf
<1>0. Rest => UNCHANGED M!vars
  BY DEF matchVars, M!vars, M!dbVars, M!procVars, M!reqVars, M!driverVars, M!matchVars
<1>i. \A r \in Requests : req[r] = L!Idle => ~(req[r].op \in {"flipped", "reloaded", "built"})
                                              /\ req[r].op # "failed"
  BY DEF L!Idle
<1>1. ASSUME NEW r \in Requests, LobbyRequest(r) PROVE UNCHANGED M!vars
  <2>1. UNCHANGED <<row, matchVars>>
    BY <1>1 DEF LobbyRequest, L!JoinReads, L!SetAIReads, L!StartReads, L!JoinInserts,
       L!SetAIWrites, L!StartRefused, L!StartReloads, L!StartBuilds
  <2>2. CASE (\E u \in Users : L!JoinReads(r, u)) \/ (\E list \in L!AILists : L!SetAIReads(r, list))
              \/ L!StartReads(r)
    <3>1. PICK q : /\ req' = [req EXCEPT ![r] = q] /\ req[r] = L!Idle
                   /\ q.op \in {"join", "setai", "start"}
      <4>1. ASSUME NEW u \in Users, L!JoinReads(r, u)
            PROVE  /\ req' = [req EXCEPT ![r] = [op |-> "join", user |-> u, max |-> settings.max]]
                   /\ req[r] = L!Idle
        BY <4>1 DEF L!JoinReads, L!Receive
      <4>2. ASSUME NEW list \in L!AILists, L!SetAIReads(r, list)
            PROVE  /\ req' = [req EXCEPT ![r] = [op |-> "setai", set |-> [settings EXCEPT !.ai = list]]]
                   /\ req[r] = L!Idle
        BY <4>2 DEF L!SetAIReads, L!Receive
      <4>3. ASSUME L!StartReads(r)
            PROVE  /\ req' = [req EXCEPT ![r] = [op |-> "start", set |-> settings, seats |-> <<>>]]
                   /\ req[r] = L!Idle
        BY <4>3 DEF L!StartReads, L!Receive
      <4>4. \A u, m : [op |-> "join", user |-> u, max |-> m].op = "join"
        OBVIOUS
      <4>5. \A set : [op |-> "setai", set |-> set].op = "setai"
        OBVIOUS
      <4>6. \A set, s : [op |-> "start", set |-> set, seats |-> s].op = "start"
        OBVIOUS
      <4> QED BY <2>2, <4>1, <4>2, <4>3, <4>4, <4>5, <4>6
    <3>2. UNCHANGED StartOf
      BY <3>1, <1>i, StartUnmoved
    <3> QED BY <2>1, <3>2, <1>0
  <2>3. CASE L!JoinInserts(r) \/ L!SetAIWrites(r) \/ L!StartRefused(r)
    <3>1. /\ req' = [req EXCEPT ![r] = L!Idle]
          /\ req[r].op \in {"join", "setai", "start"} /\ L!Idle.op = "idle"
      BY <2>3 DEF L!JoinInserts, L!SetAIWrites, L!StartRefused, L!Return, L!Idle
    <3>2. UNCHANGED StartOf
      BY <3>1, StartUnmoved
    <3> QED BY <2>1, <3>2, <1>0
  <2>4. CASE L!StartReloads(r) \/ L!StartBuilds(r)
    <3>1. PICK q : /\ req' = [req EXCEPT ![r] = q]
                   /\ req[r].op \in {"flipped", "reloaded"} /\ q.op \in {"reloaded", "built"}
      <4>1. ASSUME NEW f \in [op : {"flipped", "reloaded"}, set : L!Settings, seats : Seq(L!Seat)], NEW v
            PROVE  /\ [f EXCEPT !.op = "reloaded", !.set = v].op = "reloaded"
                   /\ [f EXCEPT !.op = "built", !.seats = v].op = "built"
        OBVIOUS
      <4>2. req[r].op \in {"flipped", "reloaded"} =>
              req[r] \in [op : {"flipped", "reloaded"}, set : L!Settings, seats : Seq(L!Seat)]
        BY DEF L!Request, L!Idle
      <4>3. CASE L!StartReloads(r)
        <5> DEFINE q == [req[r] EXCEPT !.op = "reloaded", !.set = settings]
        <5>1. req' = [req EXCEPT ![r] = q] /\ req[r].op = "flipped"
          BY <4>3 DEF L!StartReloads, L!Becomes
        <5>2. q.op = "reloaded"
          BY <5>1, <4>1, <4>2
        <5> HIDE DEF q
        <5> QED BY <5>1, <5>2
      <4>4. CASE L!StartBuilds(r)
        <5> DEFINE q == [req[r] EXCEPT !.op = "built", !.seats = seats]
        <5>1. req' = [req EXCEPT ![r] = q] /\ req[r].op = "reloaded"
          BY <4>4 DEF L!StartBuilds, L!Becomes
        <5>2. q.op = "built"
          BY <5>1, <4>1, <4>2
        <5> HIDE DEF q
        <5> QED BY <5>1, <5>2
      <4> QED BY <2>4, <4>3, <4>4
    <3>2. UNCHANGED StartOf
      BY <3>1, StartUnmoved
    <3> QED BY <2>1, <3>2, <1>0
  <2> QED BY <1>1, <2>2, <2>3, <2>4 DEF LobbyRequest
<1>2. ASSUME NEW r \in Requests, StartRequest(r) PROVE M!Next
  BY <1>2 DEF StartRequest, M!Next, M!StartStep
<1>3. ASSUME NEW u \in Users, SeatRequest(u) PROVE UNCHANGED M!vars
  <2>1. UNCHANGED <<row, matchVars, req>>
    BY <1>3 DEF SeatRequest, L!Leave, L!SetLoadout
  <2> QED BY <2>1, <1>0 DEF StartOf
<1>4. ASSUME NEW u \in Users, Command(u) PROVE M!Next
  BY <1>4 DEF Command, M!Next, M!CommandStep
<1>5. CASE Drive
  BY <1>5 DEF Drive, M!Next, M!DriverEnd
<1>6. CASE Restore
  BY <1>6 DEF Restore, M!Next, M!RestoreStep
<1>7. CASE Process
  BY <1>7 DEF Process, M!Next, M!ProcessStep
<1>8. CASE UNCHANGED vars
  <2>1. UNCHANGED <<row, matchVars, req>>
    BY <1>8 DEF vars, lobbyVars
  <2> QED BY <2>1, <1>0 DEF StartOf
<1> QED
  BY <1>1, <1>2, <1>3, <1>4, <1>5, <1>6, <1>7, <1>8 DEF Next

------------------------------------------------------------------------------
\* The constants of the lobby are what Lobby.tla assumes of them; the second conjunct is
\* one of those assumptions, spelled out.
ServerAssumed ==
  /\ LP!ConstantsAssumption
  /\ NoColonies \notin [seats : Seq(L!Seat), ai : L!AILists]

\* Lobby.tla and the lobby of LobbyProofs.tla are one and the same.
LEMMA SameLobby ==
  /\ L!Init => LP!Init
  /\ [L!Next]_(L!vars) => [LP!Next]_(LP!vars)
  /\ LP!TypeOK => req \in [Requests -> L!Request]
<1>1. L!Init => LP!Init
  BY DEF L!Init, LP!Init, L!Idle, LP!Idle, L!Settings, LP!Settings, L!AILists, LP!AILists,
         L!Validate, LP!Validate
<1>2. \A r \in Requests : L!Seating(r) => LP!Seating(r)
  BY DEF L!Seating, LP!Seating, L!JoinReads, LP!JoinReads, L!JoinInserts, LP!JoinInserts,
         L!Receive, LP!Receive, L!Return, LP!Return, L!Idle, LP!Idle, L!Seated, LP!Seated
<1>3. \A r \in Requests : L!SettingAI(r) => LP!SettingAI(r)
  BY DEF L!SettingAI, LP!SettingAI, L!SetAIReads, LP!SetAIReads, L!SetAIWrites, LP!SetAIWrites,
         L!Receive, LP!Receive, L!Return, LP!Return, L!Idle, LP!Idle, L!Validate, LP!Validate,
         L!AILists, LP!AILists
<1>4. \A r \in Requests : L!Starting(r) => LP!Starting(r)
  BY DEF L!Starting, LP!Starting, L!StartReads, LP!StartReads, L!StartFlips, LP!StartFlips,
         L!StartRefused, LP!StartRefused, L!StartReloads, LP!StartReloads, L!StartBuilds,
         LP!StartBuilds, L!StartRegisters, LP!StartRegisters, L!StartFails, LP!StartFails,
         L!StartReopens, LP!StartReopens, L!StartReopenFails, LP!StartReopenFails,
         L!Receive, LP!Receive, L!Return, LP!Return, L!Becomes, LP!Becomes, L!Idle, LP!Idle
<1>5. \A u \in Users : L!Leave(u) => LP!Leave(u)
  BY DEF L!Leave, LP!Leave, L!Without, LP!Without
<1>6. \A u \in Users, k \in Kits \cup {NoKit} : L!SetLoadout(u, k) => LP!SetLoadout(u, k)
  BY DEF L!SetLoadout, LP!SetLoadout, L!Seated, LP!Seated
<1>7. /\ L!MatchSettles => LP!MatchSettles
      /\ L!ProcessStops => LP!ProcessStops
      /\ L!Restored => LP!Restored
  BY DEF L!MatchSettles, LP!MatchSettles, L!ProcessStops, LP!ProcessStops, L!Restored,
         LP!Restored, L!Idle, LP!Idle
<1>8. UNCHANGED L!vars => UNCHANGED LP!vars
  BY DEF L!vars, LP!vars
<1>9. [L!Next]_(L!vars) => [LP!Next]_(LP!vars)
  BY <1>2, <1>3, <1>4, <1>5, <1>6, <1>7, <1>8 DEF L!Next, LP!Next
<1>10. LP!TypeOK => req \in [Requests -> L!Request]
  BY DEF LP!TypeOK, LP!Request, L!Request, LP!Idle, L!Idle, LP!Settings, L!Settings, LP!Seat,
         L!Seat, LP!AILists, L!AILists
<1> QED BY <1>1, <1>9, <1>10

LEMMA LobbyInvStep ==
  ASSUME ServerAssumed, LP!LobbyInv, [Next]_vars
  PROVE  LP!LobbyInv'
<1>1. LP!ConstantsAssumption /\ [LP!Next]_(LP!vars)
  BY LobbyStep, SameLobby DEF ServerAssumed
<1> QED BY <1>1, LP!InvStep

LEMMA LobbyInvInit ==
  ASSUME ServerAssumed, Init
  PROVE  LP!LobbyInv
<1>1. LP!Init /\ LP!ConstantsAssumption
  BY SameLobby DEF Init, ServerAssumed
<1> QED BY <1>1, LP!InvInit

\* The lobby of a server is a lobby: what Lobby.tla says of its requests holds beside a
\* match, its driver and its restarts.
THEOREM LobbyInTheServer == Spec => L!Spec
<1>1. Init => L!Init
  BY DEF Init
<1>2. [Next]_vars => [L!Next]_(L!vars)
  BY LobbyStep
<1> QED BY <1>1, <1>2, PTL DEF Spec, L!Spec

\* The match of a server is a match: every theorem about Match.tla holds of it, with the
\* start request the lobby lets through and the requests that outlive a drain.
THEOREM MatchInTheServer ==
  ASSUME ServerAssumed
  PROVE  Spec => M!Spec
<1>1. Init => M!Init
  BY DEF Init
<1>2. Init => LP!LobbyInv
  BY LobbyInvInit
<1>3. LP!LobbyInv /\ [Next]_vars => LP!LobbyInv'
  BY LobbyInvStep
<1>4. LP!LobbyInv => req \in [Requests -> L!Request]
  BY SameLobby DEF LP!LobbyInv
<1>5. LP!LobbyInv /\ [Next]_vars => [M!Next]_(M!vars)
  BY <1>4, MatchStep
<1> QED BY <1>1, <1>2, <1>3, <1>5, PTL DEF Spec, M!Spec

------------------------------------------------------------------------------
\* What the lobby's rows would give a match.
Rows == [seats |-> seats, ai |-> settings.ai]

\* Once a match was launched the rows are those it was launched with, and no start is on
\* its way that could open them again; whatever is left of a match is of one that was.
BornInv ==
  /\ born # NoColonies => /\ row # "open" /\ born = Rows
                          /\ \A r \in Requests : ~LP!Flipped(r)
  /\ M!Registered \/ colonies # NoColonies \/ rec # NoRecord \/ proc = "replay"
       => born # NoColonies

\* The users a command may be of: those with a seat in a match that was launched.
Commanders == {u \in Users : born # NoColonies /\ \E j \in DOMAIN seats : seats[j].user = u}

Commands == [tick : Nat, by : Commanders]

SeatedInv ==
  /\ tick \in Nat /\ asked \subseteq Commanders
  /\ log \in Seq(Commands)
  /\ copy # NoRecord => copy.log \in Seq(Commands)
  /\ rec # NoRecord => rec.log \in Seq(Commands)

\* A lobby that is not open, with no start on its way, is not changed any more.
LEMMA RowsKept ==
  ASSUME row # "open", \A r \in Requests : ~LP!Flipped(r), req \in [Requests -> L!Request],
         [L!Next]_(L!vars)
  PROVE  /\ UNCHANGED <<seats, settings>> /\ row' # "open"
         /\ \A r \in Requests : ~LP!Flipped(r)'
<1> DEFINE F(q) == q.op \in {"flipped", "reloaded", "built", "failed"}
<1>f. \A r \in Requests : LP!Flipped(r) = F(req[r]) /\ LP!Flipped(r)' = F(req'[r])
  BY DEF LP!Flipped
<1>n. \A r \in Requests : ~F(req[r])
  BY <1>f
<1>g. SUFFICES /\ UNCHANGED <<seats, settings>> /\ row' # "open"
               /\ \A r \in Requests : ~F(req'[r])
  BY <1>f
<1>o. /\ ~F(L!Idle)
      /\ \A u, m : ~F([op |-> "join", user |-> u, max |-> m])
      /\ \A set : ~F([op |-> "setai", set |-> set])
      /\ \A set, s : ~F([op |-> "start", set |-> set, seats |-> s])
  BY DEF L!Idle
<1> HIDE DEF F
<1>r. ASSUME NEW r \in Requests, NEW q, req' = [req EXCEPT ![r] = q], ~F(q)
      PROVE  \A s \in Requests : ~F(req'[s])
  <2>1. \A s \in Requests : req'[s] = IF s = r THEN q ELSE req[s]
    BY <1>r
  <2> QED BY <1>r, <1>n, <2>1
<1>1. ASSUME NEW r \in Requests, L!Seating(r)
      PROVE  UNCHANGED <<seats, settings, row>> /\ \A s \in Requests : ~F(req'[s])
  <2>1. ASSUME NEW u \in Users, L!JoinReads(r, u)
        PROVE  req' = [req EXCEPT ![r] = [op |-> "join", user |-> u, max |-> settings.max]]
               /\ UNCHANGED <<seats, settings, row>>
    BY <2>1 DEF L!JoinReads, L!Receive
  <2>2. CASE L!JoinInserts(r)
    <3>1. req' = [req EXCEPT ![r] = L!Idle] /\ UNCHANGED <<seats, settings, row>>
      BY <2>2 DEF L!JoinInserts, L!Return
    <3> QED BY <3>1, <1>o, <1>r
  <2> QED BY <1>1, <2>1, <2>2, <1>o, <1>r DEF L!Seating
<1>2. ASSUME NEW r \in Requests, L!SettingAI(r)
      PROVE  UNCHANGED <<seats, settings, row>> /\ \A s \in Requests : ~F(req'[s])
  <2>1. ASSUME NEW list \in L!AILists, L!SetAIReads(r, list)
        PROVE  req' = [req EXCEPT ![r] = [op |-> "setai", set |-> [settings EXCEPT !.ai = list]]]
               /\ UNCHANGED <<seats, settings, row>>
    BY <2>1 DEF L!SetAIReads, L!Receive
  <2>2. CASE L!SetAIWrites(r)
    <3>1. req' = [req EXCEPT ![r] = L!Idle] /\ UNCHANGED <<seats, settings, row>>
      BY <2>2 DEF L!SetAIWrites, L!Return
    <3> QED BY <3>1, <1>o, <1>r
  <2> QED BY <1>2, <2>1, <2>2, <1>o, <1>r DEF L!SettingAI
<1>3. ASSUME NEW r \in Requests, L!Starting(r)
      PROVE  UNCHANGED <<seats, settings, row>> /\ \A s \in Requests : ~F(req'[s])
  <2>1. CASE L!StartReads(r)
    <3>1. req' = [req EXCEPT ![r] = [op |-> "start", set |-> settings, seats |-> <<>>]]
          /\ UNCHANGED <<seats, settings, row>>
      BY <2>1 DEF L!StartReads, L!Receive
    <3> QED BY <3>1, <1>o, <1>r
  <2>2. CASE L!StartRefused(r)
    <3>1. req' = [req EXCEPT ![r] = L!Idle] /\ UNCHANGED <<seats, settings, row>>
      BY <2>2 DEF L!StartRefused, L!Return
    <3> QED BY <3>1, <1>o, <1>r
  <2>3. ~(req[r].op \in {"flipped", "reloaded", "built", "failed"})
    BY <1>n DEF F
  <2>4. L!StartReads(r) \/ L!StartRefused(r)
    BY <1>3, <2>3 DEF L!Starting, L!StartFlips, L!StartReloads, L!StartBuilds, L!StartRegisters,
       L!StartFails, L!StartReopens, L!StartReopenFails
  <2> QED BY <2>1, <2>2, <2>4
<1>4. ASSUME NEW u \in Users, L!Leave(u) \/ \E k \in Kits \cup {NoKit} : L!SetLoadout(u, k)
      PROVE  FALSE
  BY <1>4 DEF L!Leave, L!SetLoadout
<1>5. CASE L!MatchSettles \/ L!Restored
  BY <1>5, <1>n DEF L!MatchSettles, L!Restored
<1>6. CASE L!ProcessStops
  <2>1. \A r \in Requests : req'[r] = L!Idle
    BY <1>6 DEF L!ProcessStops
  <2> QED BY <1>6, <2>1, <1>o DEF L!ProcessStops
<1>7. CASE UNCHANGED L!vars
  BY <1>7, <1>n DEF L!vars
<1> QED BY <1>1, <1>2, <1>3, <1>4, <1>5, <1>6, <1>7 DEF L!Next

\* The launch: what the match was built from is what the rows say.
LEMMA LaunchedFromTheRows ==
  ASSUME ServerAssumed, LP!LobbyInv, NEW r \in Requests, L!StartRegisters(r), M!StartRegister,
         born' = colonies'
  PROVE  /\ born' = Rows /\ born' # NoColonies /\ UNCHANGED <<row, seats, settings>>
         /\ row # "open" /\ \A s \in Requests : ~LP!Flipped(s)'
<1>1. /\ req[r].op = "built" /\ req' = [req EXCEPT ![r] = L!Idle]
      /\ colonies' = [seats |-> req[r].seats, ai |-> req[r].set.ai]
      /\ UNCHANGED <<row, seats, settings>>
  BY DEF L!StartRegisters, L!Return
<1>2. /\ row = "running" /\ req[r].set = settings /\ req[r].seats = seats
      /\ \A s \in Requests : LP!Flipped(s) => s = r
  BY <1>1 DEF LP!LobbyInv, LP!StartInv, LP!Flipped
<1>3. born' = Rows
  BY <1>1, <1>2 DEF Rows
<1>4. seats \in Seq(L!Seat) /\ settings.ai \in L!AILists
  BY DEF LP!LobbyInv, LP!TypeOK, LP!Seat, L!Seat, LP!Settings, LP!AILists, L!AILists
<1>5. born' # NoColonies
  BY <1>3, <1>4 DEF Rows, ServerAssumed
<1>6. req \in [Requests -> L!Request]
  BY SameLobby DEF LP!LobbyInv
<1>7. \A s \in Requests : req'[s] = IF s = r THEN L!Idle ELSE req[s]
  BY <1>1, <1>6
<1>8. \A s \in Requests : ~LP!Flipped(s)'
  BY <1>2, <1>7 DEF LP!Flipped, L!Idle
<1> QED BY <1>1, <1>2, <1>3, <1>5, <1>8

\* Nothing but a launch is written down as one.
LEMMA BornMoves ==
  ASSUME [Next]_vars
  PROVE  \/ UNCHANGED born
         \/ \E r \in Requests : L!StartRegisters(r) /\ M!StartRegister /\ born' = colonies'
BY DEF Next, LobbyRequest, StartRequest, SeatRequest, Command, Drive, Restore, Process, vars

\* Without a launch nothing of a match comes to be.
LEMMA NothingUnborn ==
  ASSUME [Next]_vars, UNCHANGED born,
         M!Registered' \/ colonies' # NoColonies \/ rec' # NoRecord \/ proc' = "replay"
  PROVE  \/ M!Registered \/ colonies # NoColonies \/ rec # NoRecord \/ proc = "replay"
         \/ \E r \in Requests : L!StartRegisters(r) /\ M!StartRegister /\ born' = colonies'
<1> SUFFICES ASSUME ~M!Registered, colonies = NoColonies, rec = NoRecord, proc # "replay",
                    ~\E r \in Requests : L!StartRegisters(r) /\ M!StartRegister /\ born' = colonies'
             PROVE  FALSE
  OBVIOUS
<1> DEFINE Same == UNCHANGED <<driver, colonies, rec>> /\ proc' # "replay"
<1>0. ~Same
  BY DEF M!Registered
<1>1. ASSUME NEW r \in Requests, LobbyRequest(r) PROVE Same
  BY <1>1 DEF LobbyRequest, matchVars, L!JoinReads, L!SetAIReads, L!StartReads, L!JoinInserts,
     L!SetAIWrites, L!StartRefused, L!StartReloads, L!StartBuilds
<1>2. ASSUME NEW r \in Requests, StartRequest(r) PROVE Same
  BY <1>2 DEF StartRequest, L!StartFlips, L!StartFails, L!StartReopens, L!StartReopenFails,
     M!StartFlip, M!StartFails, M!StartReopens, M!StartReopenFails, M!dbVars, M!procVars,
     M!driverVars
<1>3. ASSUME NEW u \in Users, SeatRequest(u) PROVE Same
  BY <1>3 DEF SeatRequest, matchVars, L!Leave, L!SetLoadout
<1>4. ASSUME NEW u \in Users, Command(u) PROVE Same
  BY <1>4 DEF Command, lobbyVars, M!CommandChecked, M!CommandApplied, M!CommandRefused,
     M!dbVars, M!procVars, M!driverVars
<1>5. CASE Drive
  <2>1. driver # "none"
    BY <1>5 DEF Drive, M!DriverSave, M!DriverCopies, M!DriverWrites, M!DriverWriteFails,
       M!DriverTick, M!DriverTicks, M!DriverTicksAndSaves, M!DriverFinishes,
       M!DriverSettleFails, M!DriverSuspends, M!DriverSettles
  <2> QED BY <2>1 DEF M!Registered
<1>6. CASE Restore
  <2>1. colonies' = colonies
    BY <1>6 DEF Restore, lobbyVars, L!MatchSettles, M!ReplayReturns
  <2>2. ~M!ReplayReturns
    BY DEF M!ReplayReturns
  <2>3. CASE M!RestoreReads
    BY <1>0, <2>1, <2>3 DEF M!RestoreReads, M!dbVars, M!driverVars
  <2>4. CASE M!RestoreLists \/ M!RestoreReadFails
    BY <1>0, <2>1, <2>4 DEF M!RestoreLists, M!RestoreReadFails, M!dbVars, M!driverVars
  <2>5. CASE M!ReplayCommand \/ M!ReplayStep
    BY <2>5 DEF M!ReplayCommand, M!ReplayStep
  <2>6. CASE M!RestoreDeletes \/ M!RestoreSettles \/ M!RestoreAbandons
    BY <1>0, <2>1, <2>6 DEF M!RestoreDeletes, M!RestoreSettles, M!RestoreAbandons, M!driverVars
  <2> QED BY <1>6, <2>2, <2>3, <2>4, <2>5, <2>6 DEF Restore
<1>7. CASE Process
  <2>1. CASE UNCHANGED lobbyVars /\ (M!Boot \/ M!Signal \/ M!StopDrivers)
    BY <1>0, <2>1 DEF lobbyVars, M!Boot, M!Signal, M!StopDrivers, M!dbVars, M!driverVars
  <2>2. CASE L!ProcessStops /\ (M!Crash \/ M!Exit)
    BY <1>0, <2>2 DEF L!ProcessStops, M!Crash, M!Exit, M!LoseMemory, M!dbVars, M!Registered
  <2> QED BY <1>7, <2>1, <2>2 DEF Process
<1>8. CASE UNCHANGED vars
  BY <1>0, <1>8 DEF vars, lobbyVars, matchVars
<1> QED BY <1>0, <1>1, <1>2, <1>3, <1>4, <1>5, <1>6, <1>7, <1>8 DEF Next

LEMMA BornInvStep ==
  ASSUME ServerAssumed, LP!LobbyInv, BornInv, [Next]_vars
  PROVE  BornInv' /\ (born # NoColonies => UNCHANGED <<born, seats, settings>>)
<1>t. req \in [Requests -> L!Request]
  BY SameLobby DEF LP!LobbyInv
<1>1. CASE \E r \in Requests : L!StartRegisters(r) /\ M!StartRegister /\ born' = colonies'
  <2>1. PICK r \in Requests : L!StartRegisters(r) /\ M!StartRegister /\ born' = colonies'
    BY <1>1
  <2>2. /\ born' = Rows /\ born' # NoColonies /\ UNCHANGED <<row, seats, settings>>
        /\ row # "open" /\ \A s \in Requests : ~LP!Flipped(s)'
    BY <2>1, LaunchedFromTheRows
  <2>3. LP!Flipped(r)
    BY <2>1 DEF L!StartRegisters, LP!Flipped
  <2> QED BY <2>2, <2>3 DEF BornInv, Rows
<1>2. CASE UNCHANGED born
         /\ ~\E r \in Requests : L!StartRegisters(r) /\ M!StartRegister /\ born' = colonies'
  <2>1. CASE born = NoColonies
    BY <1>2, <2>1, NothingUnborn DEF BornInv
  <2>2. CASE born # NoColonies
    <3>1. row # "open" /\ \A r \in Requests : ~LP!Flipped(r)
      BY <2>2 DEF BornInv
    <3>2. [L!Next]_(L!vars)
      BY LobbyStep
    <3>3. /\ UNCHANGED <<seats, settings>> /\ row' # "open"
          /\ \A r \in Requests : ~LP!Flipped(r)'
      BY <3>1, <3>2, <1>t, RowsKept
    <3> QED BY <1>2, <2>2, <3>3 DEF BornInv, Rows
  <2> QED BY <2>1, <2>2
<1> QED BY <1>1, <1>2, BornMoves

\* Sequences over a set are sequences over any larger one.
LEMMA SeqWider ==
  ASSUME NEW S, NEW T, S \subseteq T, NEW s \in Seq(S)
  PROVE  s \in Seq(T)
<1>1. Len(s) \in Nat /\ s \in [1..Len(s) -> S]
  BY LenProperties
<1>2. s \in [1..Len(s) -> T]
  BY <1>1
<1> QED BY <1>1, <1>2, SeqDef

\* No seat of a match that was launched is ever lost.
LEMMA CommandersStay ==
  ASSUME ServerAssumed, LP!LobbyInv, BornInv, [Next]_vars
  PROVE  Commanders \subseteq Commanders' /\ Commands \subseteq Commands'
<1>1. born # NoColonies => UNCHANGED <<born, seats>>
  BY BornInvStep
<1>2. Commanders \subseteq Commanders'
  BY <1>1 DEF Commanders
<1> QED BY <1>2 DEF Commands

LEMMA SeatedInvStep ==
  ASSUME ServerAssumed, LP!LobbyInv, BornInv, SeatedInv, [Next]_vars
  PROVE  SeatedInv'
<1>w. /\ Commanders \subseteq Commanders'
      /\ \A s \in Seq(Commands) : s \in Seq(Commands')
  BY CommandersStay, SeqWider
<1>s. /\ tick \in Nat /\ asked \subseteq Commanders /\ log \in Seq(Commands)
      /\ copy # NoRecord => copy.log \in Seq(Commands)
      /\ rec # NoRecord => rec.log \in Seq(Commands)
  BY DEF SeatedInv
<1>e. <<>> \in Seq(Commands)
  OBVIOUS
<1> DEFINE C == Commands
<1>g. SUFFICES /\ tick' \in Nat /\ asked' \subseteq Commanders'
               /\ log' \in Seq(C)
               /\ copy' # NoRecord => copy'.log \in Seq(C)
               /\ rec' # NoRecord => rec'.log \in Seq(C)
  BY <1>w DEF SeatedInv
<1> HIDE DEF C
<1> DEFINE Kept == UNCHANGED <<tick, asked, log, copy, rec>>
<1>k. Kept => /\ tick' \in Nat /\ asked' \subseteq Commanders'
              /\ log' \in Seq(C)
              /\ copy' # NoRecord => copy'.log \in Seq(C)
              /\ rec' # NoRecord => rec'.log \in Seq(C)
  BY <1>s, <1>w DEF C
<1> HIDE DEF Kept
<1>1. ASSUME NEW r \in Requests, LobbyRequest(r) PROVE Kept
  BY <1>1 DEF LobbyRequest, matchVars, Kept
<1>2. ASSUME NEW r \in Requests, StartRequest(r)
      PROVE  Kept \/ (tick' = 0 /\ log' = <<>> /\ copy' = NoRecord /\ UNCHANGED <<asked, rec>>)
  BY <1>2 DEF StartRequest, M!StartFlip, M!StartRegister, M!NewMatch, M!Launch, M!StartFails,
     M!StartReopens, M!StartReopenFails, M!dbVars, M!procVars, M!driverVars, M!matchVars, Kept
<1>3. ASSUME NEW u \in Users, SeatRequest(u) PROVE Kept
  BY <1>3 DEF SeatRequest, matchVars, Kept
<1>4. ASSUME NEW u \in Users, Command(u)
      PROVE  /\ asked' \subseteq Commanders /\ UNCHANGED <<tick, copy, rec>>
             /\ log' \in Seq(C)
  <2>1. CASE HasColony(u) /\ M!CommandChecked(u)
    <3>1. colonies = Rows /\ born # NoColonies
      BY <2>1 DEF HasColony, LP!LobbyInv, LP!MatchIsTheRows, Rows, BornInv
    <3>2. u \in Commanders
      BY <2>1, <3>1 DEF HasColony, Commanders, Rows
    <3> QED BY <2>1, <3>2, <1>s DEF M!CommandChecked, M!dbVars, M!driverVars, M!matchVars, C
  <2>2. CASE M!CommandApplied(u)
    <3>1. u \in Commanders /\ [tick |-> tick, by |-> u] \in Commands
      BY <2>2, <1>s DEF M!CommandApplied, Commands
    <3>2. Append(log, [tick |-> tick, by |-> u]) \in Seq(Commands)
      BY <3>1, <1>s, AppendProperties
    <3> QED BY <2>2, <3>2, <1>s DEF M!CommandApplied, M!dbVars, M!driverVars, C
  <2>3. CASE M!CommandRefused(u)
    BY <2>3, <1>s DEF M!CommandRefused, M!dbVars, M!driverVars, M!matchVars, C
  <2> QED BY <1>4, <2>1, <2>2, <2>3 DEF Command
<1>5. CASE Drive
  <2>1. CASE M!DriverCopies
    <3>1. copy' = M!Snapshot /\ UNCHANGED <<tick, asked, log, rec>>
      BY <2>1 DEF M!DriverCopies, M!dbVars, M!reqVars, M!matchVars
    <3>2. copy'.log = log
      BY <3>1 DEF M!Snapshot
    <3> QED BY <3>1, <3>2, <1>s, <1>w DEF C
  <2>2. CASE M!DriverWrites
    <3>1. rec' = copy /\ copy' = NoRecord /\ UNCHANGED <<tick, asked, log>>
      BY <2>2 DEF M!DriverWrites, M!reqVars, M!matchVars
    <3> QED BY <3>1, <1>s, <1>w DEF C
  <2>3. CASE M!DriverWriteFails
    <3>1. copy' = NoRecord /\ UNCHANGED <<tick, asked, log, rec>>
      BY <2>3 DEF M!DriverWriteFails, M!dbVars, M!reqVars, M!matchVars
    <3> QED BY <3>1, <1>s, <1>w DEF C
  <2>4. CASE M!DriverTick
    <3>1. tick' = tick + 1 /\ UNCHANGED <<asked, log, rec, copy>>
      BY <2>4 DEF M!DriverTick, M!DriverTicks, M!DriverTicksAndSaves, M!DriverFinishes, M!Step,
         M!dbVars, M!reqVars
    <3> QED BY <3>1, <1>s, <1>w DEF C
  <2>5. CASE M!DriverSettleFails \/ M!DriverSuspends \/ M!DriverSettles
    <3>1. Kept
      BY <2>5 DEF M!DriverSettleFails, M!DriverSuspends, M!DriverSettles, M!dbVars, M!reqVars,
         M!matchVars, Kept
    <3> QED BY <3>1, <1>k
  <2> QED BY <1>5, <2>1, <2>2, <2>3, <2>4, <2>5 DEF Drive, M!DriverSave
<1>6. CASE Restore
  <2>1. CASE M!RestoreLists \/ M!RestoreReadFails \/ M!RestoreSettles \/ M!ReplayReturns
    <3>1. UNCHANGED <<tick, asked, log, rec>> /\ (copy' = copy \/ copy' = NoRecord)
      BY <2>1 DEF M!RestoreLists, M!RestoreReadFails, M!RestoreSettles, M!ReplayReturns, M!Launch,
         M!dbVars, M!reqVars, M!driverVars, M!matchVars
    <3> QED BY <3>1, <1>s, <1>w DEF C
  <2>2. CASE M!RestoreReads
    <3>1. \/ UNCHANGED <<tick, log>>
          \/ rec # NoRecord /\ tick' = 0 /\ log' = rec.log
      BY <2>2 DEF M!RestoreReads, M!NewMatch, M!matchVars
    <3>2. UNCHANGED <<asked, rec, copy>>
      BY <2>2 DEF M!RestoreReads, M!dbVars, M!reqVars, M!driverVars
    <3> QED BY <3>1, <3>2, <1>s, <1>w DEF C
  <2>3. CASE M!ReplayCommand
    <3>1. Kept
      BY <2>3 DEF M!ReplayCommand, M!dbVars, M!reqVars, M!driverVars, Kept
    <3> QED BY <3>1, <1>k
  <2>4. CASE M!ReplayStep
    <3>1. tick' = tick + 1 /\ UNCHANGED <<asked, log, rec, copy>>
      BY <2>4 DEF M!ReplayStep, M!Step, M!dbVars, M!reqVars, M!driverVars
    <3> QED BY <3>1, <1>s, <1>w DEF C
  <2>5. CASE M!RestoreAbandons
    <3>1. tick' = 0 /\ log' = <<>> /\ UNCHANGED <<asked, rec, copy>>
      BY <2>5 DEF M!RestoreAbandons, M!NewMatch, M!reqVars, M!driverVars
    <3> QED BY <3>1, <1>s, <1>w, <1>e DEF C
  <2>6. CASE M!RestoreDeletes
    <3>1. rec' = NoRecord /\ UNCHANGED <<tick, asked, log, copy>>
      BY <2>6 DEF M!RestoreDeletes, M!reqVars, M!driverVars, M!matchVars
    <3> QED BY <3>1, <1>s, <1>w DEF C
  <2> QED BY <1>6, <2>1, <2>2, <2>3, <2>4, <2>5, <2>6 DEF Restore
<1>7. CASE Process
  <2>1. CASE M!Boot \/ M!Signal \/ M!StopDrivers
    <3>1. Kept
      BY <2>1 DEF M!Boot, M!Signal, M!StopDrivers, M!dbVars, M!reqVars, M!driverVars,
         M!matchVars, Kept
    <3> QED BY <3>1, <1>k
  <2>2. CASE M!Crash \/ M!Exit
    <3>1. tick' = 0 /\ log' = <<>> /\ asked' = {} /\ copy' = NoRecord /\ rec' = rec
      BY <2>2 DEF M!Crash, M!Exit, M!LoseMemory, M!dbVars
    <3> QED BY <3>1, <1>s, <1>w, <1>e DEF C
  <2> QED BY <1>7, <2>1, <2>2 DEF Process
<1>8. CASE UNCHANGED vars
  BY <1>8, <1>k DEF vars, matchVars, Kept
<1>9. ASSUME NEW r \in Requests, StartRequest(r)
      PROVE  /\ tick' \in Nat /\ asked' \subseteq Commanders'
             /\ log' \in Seq(C)
             /\ copy' # NoRecord => copy'.log \in Seq(C)
             /\ rec' # NoRecord => rec'.log \in Seq(C)
  <2>1. CASE Kept
    BY <2>1, <1>k
  <2>2. CASE tick' = 0 /\ log' = <<>> /\ copy' = NoRecord /\ UNCHANGED <<asked, rec>>
    BY <2>2, <1>s, <1>w, <1>e DEF C
  <2> QED BY <1>2, <1>9, <2>1, <2>2
<1>10. ASSUME NEW u \in Users, Command(u)
       PROVE  /\ tick' \in Nat /\ asked' \subseteq Commanders'
              /\ log' \in Seq(C)
              /\ copy' # NoRecord => copy'.log \in Seq(C)
              /\ rec' # NoRecord => rec'.log \in Seq(C)
  <2>1. /\ asked' \subseteq Commanders /\ UNCHANGED <<tick, copy, rec>>
        /\ log' \in Seq(C)
    BY <1>4, <1>10
  <2> QED BY <2>1, <1>s, <1>w DEF C
<1> QED BY <1>1, <1>3, <1>5, <1>6, <1>7, <1>8, <1>9, <1>10, <1>k DEF Next

ServerInv == LP!LobbyInv /\ BornInv /\ SeatedInv

LEMMA ServerInvInit ==
  ASSUME ServerAssumed, Init
  PROVE  ServerInv
<1>1. LP!LobbyInv
  BY LobbyInvInit
<1>2. BornInv /\ SeatedInv
  BY DEF Init, L!Init, M!Init, M!NoDriver, M!NoMatch, M!Registered, BornInv, SeatedInv
<1> QED BY <1>1, <1>2 DEF ServerInv

LEMMA ServerInvStep ==
  ASSUME ServerAssumed, ServerInv, [Next]_vars
  PROVE  ServerInv'
BY LobbyInvStep, BornInvStep, SeatedInvStep DEF ServerInv

\* A restart gives the players back the colonies they started with, whatever requests were
\* in flight at the flip and at the stop, and whatever fails (lobby.go Start, Restore).
THEOREM ColoniesSurvive ==
  ASSUME ServerAssumed
  PROVE  Spec => []RestartKeepsColonies
<1>1. Init => ServerInv
  BY ServerInvInit
<1>2. ServerInv /\ [Next]_vars => ServerInv'
  BY ServerInvStep
<1>3. ServerInv => RestartKeepsColonies
  BY DEF ServerInv, LP!LobbyInv, LP!MatchIsTheRows, BornInv, Rows, RestartKeepsColonies
<1> QED BY <1>1, <1>2, <1>3, PTL DEF Spec

\* Every command on disk is of a player the rows still seat: the replay finds a colony for
\* it (persist.go replay, robots.go own).
THEOREM ReplayFindsItsCommanders ==
  ASSUME ServerAssumed
  PROVE  Spec => []CommandersAreSeated
<1>1. Init => ServerInv
  BY ServerInvInit
<1>2. ServerInv /\ [Next]_vars => ServerInv'
  BY ServerInvStep
<1>3. ServerInv => CommandersAreSeated
  <2> SUFFICES ASSUME ServerInv, rec # NoRecord, NEW i \in DOMAIN rec.log
               PROVE  \E j \in DOMAIN seats : seats[j].user = rec.log[i].by
    BY DEF CommandersAreSeated
  <2>1. rec.log \in Seq(Commands)
    BY DEF ServerInv, SeatedInv
  <2>2. rec.log[i] \in Commands
    BY <2>1, ElementOfSeq, LenProperties
  <2> QED BY <2>2 DEF Commands, Commanders
<1> QED BY <1>1, <1>2, <1>3, PTL DEF Spec

------------------------------------------------------------------------------
\* What is proved of each alone, of both together.

\* Match.tla and the match of MatchProofs.tla are one and the same.
LEMMA SameMatch ==
  /\ M!Init => MP!Init
  /\ [M!Next]_(M!vars) => [MP!Next]_(MP!vars)
<1>1. M!Init => MP!Init
  BY DEF M!Init, MP!Init, M!NoDriver, MP!NoDriver, M!NoMatch, MP!NoMatch
<1>2. M!StartFlip => MP!StartFlip
  BY DEF M!StartFlip, MP!StartFlip, M!dbVars, MP!dbVars, M!procVars, MP!procVars, M!reqVars,
         MP!reqVars, M!driverVars, MP!driverVars, M!matchVars, MP!matchVars, M!Requesting,
         MP!Requesting, M!Closed, MP!Closed, M!Registered, MP!Registered
<1>3. M!StartStep => MP!StartStep
  BY DEF M!StartStep, MP!StartStep, M!StartRegister, MP!StartRegister, M!StartFails,
         MP!StartFails, M!StartReopens, MP!StartReopens, M!StartReopenFails,
         MP!StartReopenFails, M!NewMatch, MP!NewMatch, M!Launch, MP!Launch, M!dbVars, MP!dbVars,
         M!procVars, MP!procVars, M!reqVars, MP!reqVars, M!driverVars, MP!driverVars,
         M!matchVars, MP!matchVars, M!Requesting, MP!Requesting, M!Closed, MP!Closed,
         M!Registered, MP!Registered
<1>4. \A p \in Users :
        M!CommandChecked(p) \/ M!CommandStep(p) => MP!CommandChecked(p) \/ MP!CommandStep(p)
  BY DEF M!CommandChecked, MP!CommandChecked, M!CommandStep, MP!CommandStep, M!CommandApplied,
         MP!CommandApplied, M!CommandRefused, MP!CommandRefused, M!dbVars, MP!dbVars,
         M!procVars, MP!procVars, M!reqVars, MP!reqVars, M!driverVars, MP!driverVars,
         M!matchVars, MP!matchVars, M!Requesting, MP!Requesting, M!Closed, MP!Closed,
         M!Registered, MP!Registered
<1>5. M!DriverSave => MP!DriverSave
  BY DEF M!DriverSave, MP!DriverSave, M!DriverCopies, MP!DriverCopies, M!DriverWrites,
         MP!DriverWrites, M!DriverWriteFails, MP!DriverWriteFails, M!Snapshot, MP!Snapshot,
         M!dbVars, MP!dbVars, M!procVars, MP!procVars, M!reqVars, MP!reqVars, M!driverVars,
         MP!driverVars, M!matchVars, MP!matchVars
<1>6. M!DriverTick => MP!DriverTick
  BY DEF M!DriverTick, MP!DriverTick, M!DriverTicks, MP!DriverTicks, M!DriverTicksAndSaves,
         MP!DriverTicksAndSaves, M!DriverFinishes, MP!DriverFinishes, M!Step, MP!Step, M!dbVars,
         MP!dbVars, M!procVars, MP!procVars, M!reqVars, MP!reqVars, M!driverVars, MP!driverVars,
         M!matchVars, MP!matchVars
<1>7. M!DriverEnd => MP!DriverEnd
  BY DEF M!DriverEnd, MP!DriverEnd, M!DriverSettles, MP!DriverSettles, M!DriverSettleFails,
         MP!DriverSettleFails, M!DriverSuspends, MP!DriverSuspends, M!Closed, MP!Closed,
         M!dbVars, MP!dbVars, M!procVars, MP!procVars, M!reqVars, MP!reqVars, M!driverVars,
         MP!driverVars, M!matchVars, MP!matchVars
<1>8. M!RestoreStep => MP!RestoreStep
  BY DEF M!RestoreStep, MP!RestoreStep, M!RestoreLists, MP!RestoreLists, M!RestoreReads,
         MP!RestoreReads, M!RestoreReadFails, MP!RestoreReadFails, M!ReplayCommand,
         MP!ReplayCommand, M!ReplayStep, MP!ReplayStep, M!ReplayReturns, MP!ReplayReturns,
         M!RestoreSettles, MP!RestoreSettles, M!RestoreAbandons, MP!RestoreAbandons,
         M!RestoreDeletes, MP!RestoreDeletes, M!Unusable, MP!Unusable, M!NewMatch, MP!NewMatch,
         M!Due, MP!Due, M!OutOfOrder, MP!OutOfOrder, M!Step, MP!Step, M!Launch, MP!Launch,
         M!dbVars, MP!dbVars, M!procVars, MP!procVars, M!reqVars, MP!reqVars, M!driverVars,
         MP!driverVars, M!matchVars, MP!matchVars
<1>9. M!ProcessStep => MP!ProcessStep
  BY DEF M!ProcessStep, MP!ProcessStep, M!Boot, MP!Boot, M!Crash, MP!Crash, M!Signal, MP!Signal,
         M!StopDrivers, MP!StopDrivers, M!Exit, MP!Exit, M!LoseMemory, MP!LoseMemory, M!dbVars,
         MP!dbVars, M!procVars, MP!procVars, M!reqVars, MP!reqVars, M!driverVars, MP!driverVars,
         M!matchVars, MP!matchVars
<1>10. UNCHANGED M!vars => UNCHANGED MP!vars
  BY DEF M!vars, MP!vars, M!dbVars, MP!dbVars, M!procVars, MP!procVars, M!reqVars, MP!reqVars,
         M!driverVars, MP!driverVars, M!matchVars, MP!matchVars
<1>11. M!Next => MP!Next
  BY <1>2, <1>3, <1>4, <1>5, <1>6, <1>7, <1>8, <1>9 DEF M!Next, MP!Next
<1> QED BY <1>1, <1>10, <1>11

\* And so are their promises.
LEMMA SamePromise ==
  /\ MP!Promise!Init => M!Promise!Init
  /\ [MP!Promise!Next]_(MP!Promise!vars) => [M!Promise!Next]_(M!Promise!vars)
<1>1. MP!Promise!Init => M!Promise!Init
  BY DEF M!Promise!Init, MP!Promise!Init, M!Registered, MP!Registered
<1>2. MP!Promise!Next => M!Promise!Next
  BY DEF M!Promise!Next, MP!Promise!Next, M!Promise!Begin, MP!Promise!Begin, M!Promise!Withdraw,
         MP!Promise!Withdraw, M!Promise!Launch, MP!Promise!Launch, M!Promise!Stop,
         MP!Promise!Stop, M!Promise!Resume, MP!Promise!Resume, M!Promise!Play, MP!Promise!Play,
         M!Promise!Take, MP!Promise!Take, M!Promise!Keep, MP!Promise!Keep, M!Promise!Finish,
         MP!Promise!Finish, M!Promise!GiveUp, MP!Promise!GiveUp, M!Promise!Discard,
         MP!Promise!Discard, M!Promise!Dawn, MP!Promise!Dawn, M!Promise!WasMoment,
         MP!Promise!WasMoment, M!Promise!Moment, MP!Promise!Moment, M!Registered, MP!Registered
<1>3. UNCHANGED MP!Promise!vars => UNCHANGED M!Promise!vars
  BY DEF M!Promise!vars, MP!Promise!vars, M!Registered, MP!Registered
<1> QED BY <1>1, <1>2, <1>3

LEMMA MatchSpecInTheServer ==
  ASSUME ServerAssumed
  PROVE  Spec => MP!Spec
<1>1. M!Init => MP!Init
  BY SameMatch
<1>2. [M!Next]_(M!vars) => [MP!Next]_(MP!vars)
  BY SameMatch
<1> QED BY MatchInTheServer, <1>1, <1>2, PTL DEF M!Spec, MP!Spec

\* The promise is kept by the whole server, with the seats, the settings and the starts of
\* a lobby going on beside the match: the players' world moves by ticks and commands, comes
\* back where it was kept, and ends in the history or is given up while nobody plays it.
THEOREM PromiseInTheServer ==
  ASSUME ServerAssumed, MP!ConstantsAssumption, MP!WorldAssumed,
         "save" \notin Faults, "read" \notin Faults
  PROVE  Spec => M!ImplementsPromise
<1>1. Spec => MP!ImplementsPromise
  BY MatchSpecInTheServer, MP!PromiseKept, PTL
<1>2. MP!Promise!Init => M!Promise!Init
  BY SamePromise
<1>3. [MP!Promise!Next]_(MP!Promise!vars) => [M!Promise!Next]_(M!Promise!vars)
  BY SamePromise
<1> QED
  BY <1>1, <1>2, <1>3, PTL
  DEF MP!ImplementsPromise, M!ImplementsPromise, MP!Promise!Spec, M!Promise!Spec

\* Whatever fails, and however the requests of the lobby fall between the driver's steps:
\* the log explains the world of the match, the record is no further behind it than its
\* lost saves account for, history is complete and an open lobby has no match behind it.
THEOREM MatchSafeInTheServer ==
  ASSUME ServerAssumed, MP!ConstantsAssumption
  PROVE  Spec => [](M!LogExplainsWorld /\ M!RewindBound /\ M!HistoryIsComplete /\ M!OpenHasNoMatch)
<1>1. Spec => [](MP!LogExplainsWorld /\ MP!RewindBound /\ MP!HistoryIsComplete /\ MP!OpenHasNoMatch)
  BY MatchSpecInTheServer, MP!LogCorrect, MP!RewindBounded, MP!HistoryComplete, MP!OpenIsEmpty, PTL
<1>2. /\ MP!LogExplainsWorld => M!LogExplainsWorld
      /\ MP!RewindBound => M!RewindBound
      /\ MP!HistoryIsComplete => M!HistoryIsComplete
      /\ MP!OpenHasNoMatch => M!OpenHasNoMatch
  BY DEF MP!LogExplainsWorld, M!LogExplainsWorld, MP!RewindBound, M!RewindBound,
         MP!HistoryIsComplete, M!HistoryIsComplete, MP!OpenHasNoMatch, M!OpenHasNoMatch,
         MP!Registered, M!Registered
<1> QED BY <1>1, <1>2, PTL

\* While saves succeed and the drain is waited for: the last goroutine of a stop leaves the
\* record equal to the match, although the starts of the lobby race the shutdown.
THEOREM GracefulStopOfTheServer ==
  ASSUME ServerAssumed, MP!ConstantsAssumption, "save" \notin Faults, "drain" \notin Faults
  PROVE  Spec => []M!GracefulStopRewindsNothing
<1>1. Spec => []MP!GracefulStopRewindsNothing
  BY MatchSpecInTheServer, MP!GracefulStop, PTL
<1>2. MP!GracefulStopRewindsNothing => M!GracefulStopRewindsNothing
  BY DEF MP!GracefulStopRewindsNothing, M!GracefulStopRewindsNothing, MP!Closed, M!Closed,
         MP!Snapshot, M!Snapshot
<1> QED BY <1>1, <1>2, PTL

\* Whatever the match, its driver and the restarts do to the row the lobby shares with them:
\* the seats fit, the match is of the rows, and nothing moves after the start.
THEOREM LobbySafeInTheServer ==
  ASSUME ServerAssumed
  PROVE  Spec => [](L!SeatsFit /\ L!MatchIsTheRows) /\ L!FrozenByTheStart
<1>1. Init => LP!Init
  BY SameLobby DEF Init
<1>2. [Next]_vars => [LP!Next]_(LP!vars)
  BY LobbyStep, SameLobby
<1>3. Spec => LP!Spec
  BY <1>1, <1>2, PTL DEF Spec, LP!Spec
<1>4. LP!ConstantsAssumption
  BY DEF ServerAssumed
<1>5. Spec => [](LP!SeatsFit /\ LP!MatchIsTheRows) /\ LP!FrozenByTheStart
  BY <1>3, <1>4, LP!SeatsAlwaysFit, LP!MatchFromTheRows, LP!NothingMovesAfterTheStart, PTL
<1>6. (LP!SeatsFit => L!SeatsFit) /\ (LP!MatchIsTheRows => L!MatchIsTheRows)
  <2>1. LP!Seated = L!Seated
    BY DEF LP!Seated, L!Seated
  <2>c. \A S : LP!Cardinality(S) = L!Cardinality(S)
    BY DEF LP!Cardinality, L!Cardinality
  <2>2. LP!SeatsFit => L!SeatsFit
    BY <2>1, <2>c DEF LP!SeatsFit, L!SeatsFit
  <2>3. LP!MatchIsTheRows => L!MatchIsTheRows
    BY DEF LP!MatchIsTheRows, L!MatchIsTheRows
  <2> QED BY <2>2, <2>3
<1>7. [row # "open" => UNCHANGED <<seats, settings>>]_(LP!vars)
        => [row # "open" => UNCHANGED <<seats, settings>>]_(L!vars)
  BY DEF LP!vars, L!vars
<1> QED
  BY <1>5, <1>6, <1>7, PTL DEF LP!FrozenByTheStart, L!FrozenByTheStart
=============================================================================
