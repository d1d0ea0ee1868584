---------------------------- MODULE LobbyProofs -----------------------------
(***************************************************************************)
(* The theorems about Lobby, for any users, requests in flight, profiles,  *)
(* loadouts and cap on colonies.                                           *)
(***************************************************************************)
EXTENDS Lobby, FiniteSetTheorems, SequenceTheorems, TLAPS

\* A start between its flip and its end: the lobby is its own.
Flipped(r) == req[r].op \in {"flipped", "reloaded", "built", "failed"}

\* The owner sits first, nobody twice, and no more than fit; a request in flight
\* holds the seat limit there is and settings that fit.
SeatInv ==
  /\ seats # <<>> /\ seats[1].user = Owner
  /\ \A i, j \in DOMAIN seats : seats[i].user = seats[j].user => i = j
  /\ Len(seats) <= settings.max /\ Validate(settings)
  /\ \A r \in Requests :
       /\ req[r].op = "join" => req[r].max = settings.max
       /\ req[r].op = "setai" => req[r].set.max = settings.max /\ Validate(req[r].set)

\* One start at most is past its flip; while it is the row says running and there is
\* no match; and what it read since is what the rows still say.
StartInv ==
  \A r \in Requests : Flipped(r) =>
    /\ row = "running" /\ colonies = NoColonies
    /\ \A q \in Requests : Flipped(q) => q = r
    /\ req[r].op \in {"reloaded", "built"} => req[r].set = settings
    /\ req[r].op = "built" => req[r].seats = seats

LobbyInv == TypeOK /\ SeatInv /\ StartInv /\ MatchIsTheRows

------------------------------------------------------------------------------
\* What a request of a kind is.
LEMMA RequestFields ==
  ASSUME TypeOK, NEW r \in Requests
  PROVE  /\ req[r].op = "join" => req[r] \in [op : {"join"}, user : Users, max : 1..MaxColonies]
         /\ req[r].op = "setai" => req[r] \in [op : {"setai"}, set : Settings]
         /\ req[r].op \in {"start", "flipped", "reloaded", "built", "failed"} =>
              req[r] \in [op : {"start", "flipped", "reloaded", "built", "failed"},
                          set : Settings, seats : Seq(Seat)]
<1>1. req[r] \in Request
  BY DEF TypeOK
<1> QED BY <1>1 DEF Request, Idle

\* A seat taken: one more, at the end, the others as they were.
LEMMA Seated1 ==
  ASSUME NEW s \in Seq(Seat), NEW e \in Seat
  PROVE  /\ Append(s, e) \in Seq(Seat) /\ Len(Append(s, e)) = Len(s) + 1
         /\ DOMAIN Append(s, e) = 1..(Len(s) + 1)
         /\ \A i \in 1..Len(s) : Append(s, e)[i] = s[i]
         /\ Append(s, e)[Len(s) + 1] = e
  BY AppendProperties

\* A seat left: one less, each of the others where it was or one place further up.
LEMMA SeatLeft ==
  ASSUME seats \in Seq(Seat), NEW i \in DOMAIN seats
  PROVE  /\ Without(i) \in Seq(Seat) /\ Len(Without(i)) = Len(seats) - 1
         /\ DOMAIN Without(i) = 1..(Len(seats) - 1)
         /\ \A j \in 1..(Len(seats) - 1) :
              Without(i)[j] = IF j < i THEN seats[j] ELSE seats[j + 1]
<1>1. Len(seats) \in Nat /\ DOMAIN seats = 1..Len(seats)
  BY LenProperties
<1>2. Len(seats) - 1 \in Nat
  BY <1>1
<1>3. \A j \in 1..Len(seats) : seats[j] \in Seat
  BY <1>1, ElementOfSeq
<1>4. Without(i) \in [1..(Len(seats) - 1) -> Seat]
  BY <1>1, <1>3 DEF Without
<1>5. Without(i) \in Seq(Seat)
  BY <1>2, <1>4, SeqDef
<1>6. Len(Without(i)) = Len(seats) - 1
  BY <1>2, <1>4, <1>5, LenProperties
<1> QED BY <1>4, <1>5, <1>6 DEF Without

\* A loadout chosen: the same seats, of the same users.
LEMMA Chosen ==
  ASSUME seats \in Seq(Seat), NEW u \in Users, NEW k \in Kits \cup {NoKit},
         SetLoadout(u, k)
  PROVE  /\ seats' \in Seq(Seat) /\ Len(seats') = Len(seats) /\ DOMAIN seats' = DOMAIN seats
         /\ \A j \in DOMAIN seats : seats'[j].user = seats[j].user
<1>1. Len(seats) \in Nat /\ DOMAIN seats = 1..Len(seats)
  BY LenProperties
<1>2. \A j \in 1..Len(seats) : seats[j] \in Seat
  BY <1>1, ElementOfSeq
<1>3. seats' \in [1..Len(seats) -> Seat]
  BY <1>1, <1>2 DEF SetLoadout, Seat
<1>4. seats' \in Seq(Seat)
  BY <1>1, <1>3, SeqDef
<1>5. Len(seats') = Len(seats)
  BY <1>1, <1>3, <1>4, LenProperties
<1>6. \A j \in DOMAIN seats : seats'[j].user = seats[j].user
  BY <1>1, <1>2 DEF SetLoadout, Seat
<1> QED BY <1>1, <1>3, <1>4, <1>5, <1>6

------------------------------------------------------------------------------
LEMMA InvInit == Init => LobbyInv
<1> SUFFICES ASSUME Init PROVE LobbyInv
  OBVIOUS
<1> USE ConstantsAssumption
<1> DEFINE first == [user |-> Owner, kit |-> NoKit]
<1>1. first \in Seat
  BY DEF Seat
<1> HIDE DEF first
<1>2. <<first>> \in Seq(Seat) /\ Len(<<first>>) = 1 /\ DOMAIN <<first>> = {1}
       /\ <<first>>[1] = first /\ <<first>> # <<>>
  BY <1>1
<1>3. first.user = Owner
  BY DEF first
<1>4. seats = <<first>>
  BY DEF Init, first
<1>5. TypeOK
  BY <1>2, <1>4 DEF Init, TypeOK, Request, Idle
<1>6. settings.max \in 1..MaxColonies
  BY <1>5 DEF TypeOK, Settings
<1>7. SeatInv
  BY <1>2, <1>3, <1>4, <1>6 DEF Init, SeatInv, Idle
<1>8. StartInv /\ MatchIsTheRows
  BY DEF Init, StartInv, Flipped, Idle, MatchIsTheRows
<1> QED BY <1>5, <1>7, <1>8 DEF LobbyInv

\* Seats and settings as they are, and one request more or less: the seats still fit.
LEMMA SeatsKeep ==
  ASSUME TypeOK, SeatInv, UNCHANGED <<seats, settings>>,
         \A r \in Requests :
           /\ req'[r].op = "join" => req'[r] = req[r] \/ req'[r].max = settings.max
           /\ req'[r].op = "setai" =>
                req'[r] = req[r] \/ (req'[r].set.max = settings.max /\ Validate(req'[r].set))
  PROVE  SeatInv'
  BY DEF SeatInv, Validate

LEMMA InvStep == LobbyInv /\ [Next]_vars => LobbyInv'
<1> SUFFICES ASSUME LobbyInv, [Next]_vars PROVE LobbyInv'
  OBVIOUS
<1> USE ConstantsAssumption DEF LobbyInv
<1>1. ASSUME NEW r \in Requests, NEW u \in Users, JoinReads(r, u) PROVE LobbyInv'
  <2>1. settings.max \in 1..MaxColonies
    BY DEF TypeOK, Settings
  <2>2. TypeOK'
    BY <1>1, <2>1 DEF JoinReads, Receive, TypeOK, Request
  <2>3. SeatInv'
    BY <1>1 DEF JoinReads, Receive, SeatInv, TypeOK, Validate
  <2>4. StartInv' /\ MatchIsTheRows'
    BY <1>1 DEF JoinReads, Receive, StartInv, Flipped, MatchIsTheRows, TypeOK
  <2> QED BY <2>2, <2>3, <2>4
<1>2. ASSUME NEW r \in Requests, JoinInserts(r) PROVE LobbyInv'
  <2> DEFINE e == [user |-> req[r].user, kit |-> NoKit]
  <2>1. req[r].op = "join" /\ req[r].user \in Users /\ e \in Seat
        /\ req[r].max = settings.max /\ req[r].max \in Nat
    BY <1>2, RequestFields DEF JoinInserts, Seat, SeatInv
  <2>2. req' = [req EXCEPT ![r] = Idle] /\ UNCHANGED <<row, settings, colonies>>
    BY <1>2 DEF JoinInserts, Return
  <2>3. (StartInv' /\ MatchIsTheRows') \/ row = "open"
    BY <1>2, <2>2 DEF JoinInserts, StartInv, Flipped, MatchIsTheRows, TypeOK, Idle
  <2>4. row = "open" => StartInv' /\ MatchIsTheRows'
    BY <1>2, <2>2 DEF JoinInserts, StartInv, Flipped, MatchIsTheRows, TypeOK, Idle
  <2>5. CASE seats' = seats
    <3>1. TypeOK'
      BY <2>2, <2>5 DEF TypeOK, Request
    <3>2. SeatInv'
      BY <2>2, <2>5 DEF SeatInv, TypeOK, Idle, Validate
    <3> QED BY <2>3, <2>4, <3>1, <3>2
  <2>6. CASE /\ Len(seats) < req[r].max /\ req[r].user \notin Seated
             /\ seats' = Append(seats, e)
    <3>1. seats \in Seq(Seat) /\ Len(seats) \in Nat /\ DOMAIN seats = 1..Len(seats)
      BY LenProperties DEF TypeOK
    <3> HIDE DEF e
    <3>2. /\ seats' \in Seq(Seat) /\ Len(seats') = Len(seats) + 1
          /\ DOMAIN seats' = 1..(Len(seats) + 1)
          /\ \A i \in 1..Len(seats) : seats'[i] = seats[i]
          /\ seats'[Len(seats) + 1] = e
      BY <2>1, <2>6, <3>1, Seated1
    <3>3. e.user = req[r].user
      BY DEF e
    <3>4. TypeOK'
      BY <2>2, <3>2 DEF TypeOK, Request
    <3>5. \A i \in 1..Len(seats) : seats[i].user # e.user
      BY <2>6, <3>1, <3>3 DEF Seated
    <3>6. Len(seats) >= 1
      BY <3>1, EmptySeq DEF SeatInv
    <3>7. seats' # <<>> /\ seats'[1].user = Owner
      BY <3>1, <3>2, <3>6, EmptySeq DEF SeatInv
    <3>8. \A i, j \in DOMAIN seats' : seats'[i].user = seats'[j].user => i = j
      BY <3>1, <3>2, <3>5 DEF SeatInv
    <3>9. Len(seats') <= settings'.max /\ Validate(settings)'
      <4>1. Len(seats) + 1 <= settings.max
        BY <2>1, <2>6, <3>1
      <4> QED BY <2>2, <3>2, <4>1 DEF SeatInv, Validate
    <3>10. \A q \in Requests :
             /\ req'[q].op = "join" => req'[q].max = settings'.max
             /\ req'[q].op = "setai" => req'[q].set.max = settings'.max /\ Validate(req'[q].set)
      BY <2>2 DEF SeatInv, TypeOK, Idle
    <3>11. SeatInv'
      BY <3>7, <3>8, <3>9, <3>10 DEF SeatInv, Validate
    <3> QED BY <2>3, <2>4, <3>4, <3>11
  <2> QED BY <1>2, <2>5, <2>6 DEF JoinInserts
<1>3. ASSUME NEW r \in Requests, NEW list \in AILists, SetAIReads(r, list) PROVE LobbyInv'
  <2> DEFINE set == [settings EXCEPT !.ai = list]
  <2>1. set \in Settings /\ set.max = settings.max /\ Validate(set)
    BY <1>3 DEF SetAIReads, TypeOK, Settings
  <2>2. req' = [req EXCEPT ![r] = [op |-> "setai", set |-> set]] /\ req[r] = Idle
        /\ UNCHANGED <<row, settings, seats, colonies>>
    BY <1>3 DEF SetAIReads, Receive
  <2> HIDE DEF set
  <2>3. TypeOK'
    BY <2>1, <2>2 DEF TypeOK, Request
  <2>4. SeatInv'
    BY <2>1, <2>2, SeatsKeep DEF TypeOK
  <2>5. StartInv' /\ MatchIsTheRows'
    BY <2>2 DEF StartInv, Flipped, MatchIsTheRows, TypeOK
  <2> QED BY <2>3, <2>4, <2>5
<1>4. ASSUME NEW r \in Requests, SetAIWrites(r) PROVE LobbyInv'
  <2>1. req[r].op = "setai" /\ req[r].set \in Settings
        /\ req[r].set.max = settings.max /\ Validate(req[r].set)
    BY <1>4, RequestFields DEF SetAIWrites, SeatInv
  <2>2. req' = [req EXCEPT ![r] = Idle] /\ UNCHANGED <<row, seats, colonies>>
        /\ settings' = IF row = "open" THEN req[r].set ELSE settings
    BY <1>4 DEF SetAIWrites, Return
  <2>3. TypeOK'
    BY <2>1, <2>2 DEF TypeOK, Request
  <2>4. settings'.max = settings.max /\ Validate(settings')
    BY <2>1, <2>2 DEF SeatInv
  <2>5. SeatInv'
    BY <2>2, <2>4 DEF SeatInv, TypeOK, Idle, Validate
  <2>6. StartInv' /\ MatchIsTheRows'
    BY <2>2 DEF StartInv, Flipped, MatchIsTheRows, TypeOK, Idle
  <2> QED BY <2>3, <2>5, <2>6
<1>5. ASSUME NEW r \in Requests, Starting(r) PROVE LobbyInv'
  <2>1. UNCHANGED <<seats, settings>>
    BY <1>5 DEF Starting, StartReads, StartFlips, StartRefused, StartReloads, StartBuilds,
                StartRegisters, StartFails, StartReopens, StartReopenFails
  <2>2. CASE StartReads(r)
    <3>1. req' = [req EXCEPT ![r] = [op |-> "start", set |-> settings, seats |-> <<>>]]
          /\ req[r] = Idle /\ UNCHANGED <<row, settings, seats, colonies>>
      BY <2>2 DEF StartReads, Receive
    <3>2. <<>> \in Seq(Seat)
      OBVIOUS
    <3>3. TypeOK'
      BY <3>1, <3>2 DEF TypeOK, Request
    <3>4. SeatInv'
      BY <3>1, SeatsKeep DEF TypeOK
    <3>5. StartInv' /\ MatchIsTheRows'
      BY <3>1 DEF StartInv, Flipped, MatchIsTheRows, TypeOK
    <3> QED BY <3>3, <3>4, <3>5
  <2>3. CASE StartFlips(r) \/ StartReloads(r) \/ StartBuilds(r) \/ StartFails(r)
    <3> DEFINE now == req'[r]
    <3>1. /\ req[r].op \in {"start", "flipped", "reloaded", "built"}
          /\ colonies' = colonies
          /\ StartFlips(r) \/ row' = row
      BY <2>3 DEF StartFlips, StartReloads, StartBuilds, StartFails
    <3>2. req[r] \in [op : {"start", "flipped", "reloaded", "built", "failed"},
                      set : Settings, seats : Seq(Seat)]
      BY <3>1, RequestFields
    <3>3. \/ StartFlips(r) /\ now = [req[r] EXCEPT !.op = "flipped"]
          \/ StartReloads(r) /\ now = [req[r] EXCEPT !.op = "reloaded", !.set = settings]
          \/ StartBuilds(r) /\ now = [req[r] EXCEPT !.op = "built", !.seats = seats]
          \/ StartFails(r) /\ now = [req[r] EXCEPT !.op = "failed"]
      BY <2>3 DEF StartFlips, StartReloads, StartBuilds, StartFails, Becomes, TypeOK
    <3>4. req' = [req EXCEPT ![r] = now]
      BY <2>3 DEF StartFlips, StartReloads, StartBuilds, StartFails, Becomes, TypeOK
    <3>5. now \in [op : {"flipped", "reloaded", "built", "failed"},
                   set : Settings, seats : Seq(Seat)]
      BY <3>2, <3>3 DEF TypeOK
    <3>6. \A q \in Requests \ {r} : req'[q] = req[q]
      BY <3>4 DEF TypeOK
    <3>7. /\ now.op \in {"reloaded", "built"} => now.set = settings
          /\ now.op = "built" => now.seats = seats
      BY <3>2, <3>3 DEF StartFlips, StartReloads, StartBuilds, StartFails, StartInv, Flipped
    <3>8. row' = "running" /\ colonies' = NoColonies
          /\ \A q \in Requests \ {r} : ~Flipped(q)
      BY <3>1, <3>3 DEF StartFlips, StartReloads, StartBuilds, StartFails, StartInv, Flipped,
                        MatchIsTheRows
    <3> HIDE DEF now
    <3>9. TypeOK'
      BY <2>1, <3>1, <3>4, <3>5, <3>8 DEF TypeOK, Request
    <3>10. SeatInv'
      BY <2>1, <3>4, <3>5, SeatsKeep DEF TypeOK
    <3>11. StartInv'
      <4>1. now = req'[r]
        BY DEF now
      <4> QED BY <2>1, <3>5, <3>6, <3>7, <3>8, <4>1 DEF StartInv, Flipped
    <3> QED BY <3>8, <3>9, <3>10, <3>11 DEF MatchIsTheRows
  <2>4. CASE StartRefused(r) \/ StartReopens(r) \/ StartReopenFails(r)
    <3>1. req' = [req EXCEPT ![r] = Idle] /\ colonies' = colonies
          /\ (row' = row \/ (Flipped(r) /\ row' = "open"))
      BY <2>4 DEF StartRefused, StartReopens, StartReopenFails, Return, Flipped
    <3>2. TypeOK'
      BY <2>1, <3>1 DEF TypeOK, Request
    <3>3. SeatInv'
      BY <2>1, <3>1, SeatsKeep DEF TypeOK, Idle
    <3>4. StartInv' /\ MatchIsTheRows'
      BY <2>1, <3>1 DEF StartInv, Flipped, MatchIsTheRows, TypeOK, Idle
    <3> QED BY <3>2, <3>3, <3>4
  <2>5. CASE StartRegisters(r)
    <3>1. req' = [req EXCEPT ![r] = Idle] /\ row' = row /\ req[r].op = "built"
          /\ colonies' = [seats |-> req[r].seats, ai |-> req[r].set.ai]
      BY <2>5 DEF StartRegisters, Return
    <3>2. req[r].seats \in Seq(Seat) /\ req[r].set \in Settings
      BY <3>1, RequestFields
    <3>3. row = "running" /\ req[r].seats = seats /\ req[r].set = settings
          /\ \A q \in Requests \ {r} : ~Flipped(q)
      BY <3>1 DEF StartInv, Flipped
    <3>4. TypeOK'
      BY <2>1, <3>1, <3>2 DEF TypeOK, Request, Settings
    <3>5. SeatInv'
      BY <2>1, <3>1, SeatsKeep DEF TypeOK, Idle
    <3>6. StartInv' /\ MatchIsTheRows'
      BY <2>1, <3>1, <3>3 DEF StartInv, Flipped, MatchIsTheRows, TypeOK, Idle
    <3> QED BY <3>4, <3>5, <3>6
  <2> QED BY <1>5, <2>2, <2>3, <2>4, <2>5 DEF Starting
<1>6. ASSUME NEW u \in Users, Leave(u) PROVE LobbyInv'
  <2>1. PICK i \in DOMAIN seats : seats[i].user = u /\ seats' = Without(i)
    BY <1>6 DEF Leave
  <2>2. u # Owner /\ row = "open" /\ UNCHANGED <<row, settings, req, colonies>>
    BY <1>6 DEF Leave
  <2>3. seats \in Seq(Seat) /\ Len(seats) \in Nat /\ DOMAIN seats = 1..Len(seats)
    BY LenProperties DEF TypeOK
  <2>4. /\ seats' \in Seq(Seat) /\ Len(seats') = Len(seats) - 1
        /\ DOMAIN seats' = 1..(Len(seats) - 1)
        /\ \A j \in 1..(Len(seats) - 1) : seats'[j] = IF j < i THEN seats[j] ELSE seats[j + 1]
    BY <2>1, <2>3, SeatLeft
  <2>5. TypeOK'
    BY <2>2, <2>4 DEF TypeOK
  <2>6. i # 1 /\ i \in 1..Len(seats)
    BY <2>1, <2>2, <2>3 DEF SeatInv
  <2>7. seats' # <<>> /\ seats'[1].user = Owner
    BY <2>3, <2>4, <2>6, EmptySeq DEF SeatInv
  <2>8. \A j, k \in DOMAIN seats' : seats'[j].user = seats'[k].user => j = k
    BY <2>3, <2>4, <2>6 DEF SeatInv
  <2>9. settings.max \in Nat
    BY DEF TypeOK, Settings
  <2>10. Len(seats') <= settings'.max
    BY <2>2, <2>3, <2>4, <2>9 DEF SeatInv
  <2>11. SeatInv'
    BY <2>2, <2>7, <2>8, <2>10 DEF SeatInv, Validate
  <2>12. StartInv' /\ MatchIsTheRows'
    BY <2>2 DEF StartInv, Flipped, MatchIsTheRows
  <2> QED BY <2>5, <2>11, <2>12
<1>7. ASSUME NEW u \in Users, NEW k \in Kits \cup {NoKit}, SetLoadout(u, k) PROVE LobbyInv'
  <2>1. row = "open" /\ UNCHANGED <<row, settings, req, colonies>>
    BY <1>7 DEF SetLoadout
  <2>2. seats \in Seq(Seat) /\ Len(seats) \in Nat /\ DOMAIN seats = 1..Len(seats)
    BY LenProperties DEF TypeOK
  <2>3. /\ seats' \in Seq(Seat) /\ Len(seats') = Len(seats) /\ DOMAIN seats' = DOMAIN seats
        /\ \A j \in DOMAIN seats : seats'[j].user = seats[j].user
    BY <1>7, <2>2, Chosen
  <2>4. TypeOK'
    BY <2>1, <2>3 DEF TypeOK
  <2>5. Len(seats) > 0
    BY <2>2, EmptySeq DEF SeatInv
  <2>6. seats' # <<>> /\ seats'[1].user = Owner
    BY <2>2, <2>3, <2>5, EmptySeq DEF SeatInv
  <2>7. SeatInv'
    BY <2>1, <2>3, <2>6 DEF SeatInv, Validate
  <2>8. StartInv' /\ MatchIsTheRows'
    BY <2>1 DEF StartInv, Flipped, MatchIsTheRows
  <2> QED BY <2>4, <2>7, <2>8
<1>8. CASE MatchSettles
  <2>1. TypeOK' /\ SeatInv' /\ MatchIsTheRows'
    BY <1>8 DEF MatchSettles, TypeOK, SeatInv, Validate, MatchIsTheRows
  <2>2. StartInv'
    BY <1>8 DEF MatchSettles, StartInv, Flipped, Idle
  <2> QED BY <2>1, <2>2
<1>9. CASE ProcessStops
  <2>1. TypeOK'
    BY <1>9 DEF ProcessStops, TypeOK, Request
  <2>2. SeatInv' /\ StartInv' /\ MatchIsTheRows'
    BY <1>9 DEF ProcessStops, SeatInv, Validate, StartInv, Flipped, MatchIsTheRows, Idle
  <2> QED BY <2>1, <2>2
<1>10. CASE Restored
  <2>1. TypeOK'
    BY <1>10 DEF Restored, TypeOK, Settings
  <2>2. SeatInv' /\ StartInv' /\ MatchIsTheRows'
    BY <1>10 DEF Restored, SeatInv, Validate, StartInv, Flipped, MatchIsTheRows, Idle
  <2> QED BY <2>1, <2>2
<1>11. CASE UNCHANGED vars
  BY <1>11 DEF vars, TypeOK, SeatInv, Validate, StartInv, Flipped, MatchIsTheRows
<1> QED
  BY <1>1, <1>2, <1>3, <1>4, <1>5, <1>6, <1>7, <1>8, <1>9, <1>10, <1>11
     DEF Next, Seating, SettingAI

\* The inductive invariant behind the lobby's safety holds in every reachable state.
THEOREM LobbyInvariance == Spec => []LobbyInv
  BY InvInit, InvStep, PTL DEF Spec

\* As many users as seats, when nobody sits twice.
LEMMA SeatsCounted ==
  ASSUME TypeOK, SeatInv
  PROVE  Cardinality(Seated) = Len(seats)
<1>1. Len(seats) \in Nat /\ DOMAIN seats = 1..Len(seats)
  BY LenProperties DEF TypeOK
<1> DEFINE who == [i \in 1..Len(seats) |-> seats[i].user]
<1>2. who \in [1..Len(seats) -> Seated]
  BY <1>1 DEF Seated
<1>3. \A i, j \in 1..Len(seats) : who[i] = who[j] => i = j
  BY <1>1 DEF SeatInv
<1>4. \A u \in Seated : \E i \in 1..Len(seats) : who[i] = u
  BY <1>1 DEF Seated
<1> HIDE DEF who
<1>5. who \in Injection(1..Len(seats), Seated)
  BY <1>2, <1>3 DEF Injection, IsInjective
<1>6. who \in Surjection(1..Len(seats), Seated)
  BY <1>2, <1>4 DEF Surjection
<1>7. who \in Bijection(1..Len(seats), Seated)
  BY <1>5, <1>6 DEF Bijection
<1> QED BY <1>1, <1>7, FS_CountingElements DEF ExistsBijection

\* Seats and AI colonies fit the arena, nobody sits twice and the owner stays, however
\* many joins, leaves, AI changes and starts race (lobby.go, db/lobbies.go).
THEOREM SeatsAlwaysFit == Spec => []SeatsFit
<1>1. LobbyInv => SeatsFit
  BY SeatsCounted DEF LobbyInv, SeatsFit, SeatInv, Validate
<1> QED BY <1>1, LobbyInvariance, PTL

\* The match is built from exactly the rows a restart would rebuild it from, and an
\* open lobby has none (lobby.go Start).
THEOREM MatchFromTheRows == Spec => []MatchIsTheRows
<1>1. LobbyInv => MatchIsTheRows
  BY DEF LobbyInv
<1> QED BY <1>1, LobbyInvariance, PTL

\* After the flip no request moves a seat, a loadout or the settings.
THEOREM NothingMovesAfterTheStart == Spec => FrozenByTheStart
<1>1. [Next]_vars => [row # "open" => UNCHANGED <<seats, settings>>]_vars
  BY DEF Next, vars, Seating, SettingAI, Starting, JoinReads, JoinInserts, Leave, SetLoadout,
         SetAIReads, SetAIWrites, StartReads, StartFlips, StartRefused, StartReloads,
         StartBuilds, StartRegisters, StartFails, StartReopens, StartReopenFails,
         MatchSettles, ProcessStops, Restored
<1> QED BY <1>1, PTL DEF Spec, FrozenByTheStart
=============================================================================
