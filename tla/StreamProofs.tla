---------------------------- MODULE StreamProofs -----------------------------
(***************************************************************************)
(* Theorems about MatchStream.tla, for a match of any length, buffers of   *)
(* any size and any number of lost connections, crashes and restarts: what *)
(* a spectator is told of the end is the end, the feed it shows is the     *)
(* world's own and complete, and neither history skips or repeats a point. *)
(***************************************************************************)
EXTENDS MatchStream, DataLemmas, SequenceTheorems

Locals == {"hist", "feed", "board", "sentEvents", "owed", "finished"}

\* The handler's locals: one record from its first read to its last frame.
LocalsInv == DOMAIN req = Locals /\ req = [f \in Locals |-> req[f]]

\* Where the handler is, and what it knows of the end there: it has not asked before its
\* first frame, an end it was told of is the end of the world it reads, and the board it
\* sends then, or has sent, is that end.
EndInv ==
  /\ made \in Seq(Nat) /\ life \in Nat /\ Tick <= EndTick
  /\ at \in {"away", "feed", "board", "first", "init"} => ~req.finished
  /\ req.finished => Tick = EndTick
  /\ at \in {"loop", "snapshot", "end"} => page.snap = req.board
  /\ at \in {"take", "tick", "end"} /\ req.finished => req.board.tick = EndTick
  /\ at = "end" => req.finished
  /\ at = "over" => page.snap.tick = EndTick

StreamInv == LocalsInv /\ EndInv

\* A local that is set leaves the others as they are.
LEMMA LocalSet ==
  ASSUME LocalsInv, NEW l \in Locals, NEW v
  PROVE  LET r == [req EXCEPT ![l] = v] IN
         /\ DOMAIN r = Locals /\ r = [f \in Locals |-> r[f]]
         /\ r[l] = v /\ \A f \in Locals \ {l} : r[f] = req[f]
BY DEF LocalsInv

LEMMA StreamInvInit == Init => StreamInv
<1> SUFFICES ASSUME Init PROVE StreamInv
  OBVIOUS
<1>1. LocalsInv
  BY DEF Init, NoLocals, LocalsInv, Locals
<1>2. made = <<>> /\ Len(made) = 0 /\ made \in Seq(Nat)
  BY DEF Init
<1>3. ~req.finished /\ at = "away" /\ life = 1
  BY DEF Init, NoLocals
<1>4. EndInv
  BY <1>2, <1>3, StreamAssumption DEF EndInv, Tick
<1> QED BY <1>1, <1>4 DEF StreamInv

\* A handler that returned left nothing behind.
LEMMA Returned ==
  ASSUME EndInv, req' = NoLocals, made' = made, life' = life, page' = page,
         at' \in {"away", "over", "gone"}, at' = "over" => at \in {"end", "over"}
  PROVE  StreamInv'
<1>1. LocalsInv' /\ ~req'.finished
  BY DEF NoLocals, LocalsInv, Locals
<1>2. at' = "over" => page.snap.tick = EndTick
  BY DEF EndInv
<1> QED BY <1>1, <1>2 DEF StreamInv, EndInv, Tick

LEMMA StreamInvNext == StreamInv /\ [Next]_vars => StreamInv'
<1> SUFFICES ASSUME StreamInv, [Next]_vars PROVE StreamInv'
  OBVIOUS
<1> USE DEF StreamInv
<1>t. /\ made \in Seq(Nat) /\ life \in Nat /\ Tick \in Nat /\ EndTick \in Nat
      /\ Tick <= EndTick /\ (req.finished => Tick = EndTick)
      /\ (Finished <=> Tick = EndTick)
  BY StreamAssumption DEF EndInv, Tick, Finished
<1>1. CASE Step
  <2>1. made' = Append(made, life) /\ UNCHANGED <<life, at, req, page>> /\ ~Finished
    BY <1>1 DEF Step, procVars
  <2>2. made' \in Seq(Nat) /\ Tick' = Tick + 1
    BY <2>1, <1>t DEF Tick
  <2>3. ~req.finished /\ Tick' <= EndTick
    BY <2>1, <2>2, <1>t
  <2> QED BY <2>1, <2>2, <2>3 DEF EndInv, LocalsInv
<1>2. CASE Connect
  <2>1. req' = [req EXCEPT !["hist"] = history] /\ at = "away" /\ at' = "feed"
        /\ UNCHANGED <<made, life, page>>
    BY <1>2 DEF Connect, Handler, matchVars, procVars
  <2>2. LocalsInv' /\ req'.finished = req.finished
    BY <2>1, LocalSet DEF LocalsInv, Locals
  <2> QED BY <2>1, <2>2 DEF EndInv, Tick
<1>3. CASE ReadFeed
  <2> DEFINE v == EventsSince(events, 0)
  <2>1. req' = [req EXCEPT !["feed"] = v] /\ at = "feed" /\ at' = "board"
        /\ UNCHANGED <<made, life, page>>
    BY <1>3 DEF ReadFeed, Handler, matchVars, procVars
  <2> HIDE DEF v
  <2>2. LocalsInv' /\ req'.finished = req.finished
    BY <2>1, LocalSet DEF LocalsInv, Locals
  <2> QED BY <2>1, <2>2 DEF EndInv, Tick
<1>4. CASE ReadBoard
  <2> DEFINE v == After(req.feed, 0)
  <2>1. req' = [req EXCEPT !["board"] = Made(made, Tick), !["sentEvents"] = v]
        /\ at = "board" /\ at' = "first" /\ UNCHANGED <<made, life, page>>
    BY <1>4 DEF ReadBoard, Handler, matchVars, procVars
  <2> HIDE DEF v
  <2>2. LocalsInv' /\ req'.finished = req.finished
    BY <2>1 DEF LocalsInv, Locals
  <2> QED BY <2>1, <2>2 DEF EndInv, Tick
<1>5. CASE Take
  <2> DEFINE owed == Taken(EventsSince(events, req.sentEvents), req.board.tick)
             v    == After(owed, req.sentEvents)
  <2>1. req' = [req EXCEPT !["owed"] = owed, !["sentEvents"] = v]
        /\ \/ at = "first" /\ at' = "init"
           \/ at = "take" /\ at' = "tick"
        /\ UNCHANGED <<made, life, page>>
    BY <1>5 DEF Take, Handler, matchVars, procVars
  <2> HIDE DEF owed, v
  <2>2. LocalsInv' /\ req'.finished = req.finished /\ req'.board = req.board
    BY <2>1 DEF LocalsInv, Locals
  <2> QED BY <2>1, <2>2 DEF EndInv, Tick
<1>6. CASE Poll
  <2>1. req' = [req EXCEPT !["finished"] = Finished] /\ at = "loop" /\ at' = "snapshot"
        /\ UNCHANGED <<made, life, page>>
    BY <1>6 DEF Poll, Handler, matchVars, procVars
  <2>2. LocalsInv' /\ req'.finished = Finished /\ req'.board = req.board
    BY <2>1, LocalSet DEF LocalsInv, Locals
  <2> QED BY <2>1, <2>2, <1>t DEF EndInv, Tick
<1>7. CASE Snapshot
  <2>1. CASE Tick # req.board.tick
    <3>1. req' = [req EXCEPT !["board"] = Made(made, Tick)] /\ at = "snapshot" /\ at' = "take"
          /\ UNCHANGED <<made, life, page>>
      BY <1>7, <2>1 DEF Snapshot, Handler, matchVars, procVars
    <3>2. LocalsInv' /\ req'.finished = req.finished /\ req'.board = Made(made, Tick)
      BY <3>1, LocalSet DEF LocalsInv, Locals
    <3>3. req'.board.tick = Tick
      BY <3>2 DEF Made
    <3> QED BY <3>1, <3>2, <3>3, <1>t DEF EndInv, Tick
  <2>2. CASE Tick = req.board.tick
    <3>1. UNCHANGED <<req, made, life, page>> /\ at = "snapshot"
          /\ at' = IF req.finished THEN "end" ELSE "loop"
      BY <1>7, <2>2 DEF Snapshot, Handler, matchVars, procVars
    <3> QED BY <2>2, <3>1, <1>t DEF EndInv, Tick, LocalsInv
  <2> QED BY <2>1, <2>2
<1>8. CASE SendInit
  <2>1. UNCHANGED <<req, made, life>> /\ at = "init" /\ at' = "tick"
    BY <1>8 DEF SendInit, Handler, matchVars, procVars
  <2> QED BY <2>1 DEF EndInv, Tick, LocalsInv
<1>9. CASE SendTick
  <2>1. UNCHANGED <<req, made, life>> /\ at = "tick" /\ page'.snap = req.board
        /\ at' = IF req.finished THEN "end" ELSE "loop"
    BY <1>9 DEF SendTick, Handler, matchVars, procVars
  <2> QED BY <2>1 DEF EndInv, Tick, LocalsInv
<1>10. CASE SendEnd
  <2>1. req' = NoLocals /\ UNCHANGED <<made, life, page>> /\ at = "end" /\ at' = "over"
    BY <1>10 DEF SendEnd, Handler, matchVars, procVars
  <2>2. page.snap.tick = EndTick
    BY <2>1 DEF EndInv
  <2>3. LocalsInv' /\ ~req'.finished
    BY <2>1 DEF NoLocals, LocalsInv, Locals
  <2> QED BY <2>1, <2>2, <2>3 DEF EndInv, Tick
<1>11. CASE Probe
  <2>1. UNCHANGED <<req, made, life, page>> /\ at' = "gone"
    BY <1>11 DEF Probe, Handler, matchVars, procVars
  <2> QED BY <2>1 DEF EndInv, Tick, LocalsInv
<1>12. CASE Close \/ HangUp
  <2>1. req' = NoLocals /\ UNCHANGED <<made, life, page>> /\ at' = "away"
    BY <1>12 DEF Close, HangUp, Handler, matchVars, procVars
  <2> QED BY <2>1, Returned
<1>13. CASE Stop
  <2>1. UNCHANGED <<req, made, life, page, at>>
    BY <1>13 DEF Stop, matchVars
  <2> QED BY <2>1 DEF EndInv, Tick, LocalsInv
<1>14. ASSUME NEW t \in 0..Tick, Down(t) PROVE StreamInv'
  <2>1. made' = SubSeq(made, 1, t) /\ req' = NoLocals /\ UNCHANGED <<life, page>>
        /\ at' = IF at \in {"over", "gone"} THEN at ELSE "away"
    BY <1>14 DEF Down
  <2>2. made' \in Seq(Nat) /\ Tick' = t
    BY <2>1, <1>t DEF Tick
  <2>3. LocalsInv' /\ ~req'.finished
    BY <2>1 DEF NoLocals, LocalsInv, Locals
  <2> QED BY <2>1, <2>2, <2>3, <1>t DEF EndInv
<1>15. CASE Crash \/ Exit
  <2>1. \E t \in 0..Tick : Down(t)
    BY <1>15, <1>t DEF Crash, Exit
  <2> QED BY <2>1, <1>14
<1>16. CASE Boot
  <2>1. UNCHANGED <<req, made, page, at>> /\ life' = life + 1
    BY <1>16 DEF Boot, matchVars
  <2> QED BY <2>1, <1>t DEF EndInv, Tick, LocalsInv
<1>17. CASE UNCHANGED vars
  BY <1>17 DEF vars, matchVars, procVars, EndInv, Tick, LocalsInv
<1> QED
  BY <1>1, <1>2, <1>3, <1>4, <1>5, <1>6, <1>7, <1>8, <1>9, <1>10, <1>11, <1>12, <1>13, <1>15,
     <1>16, <1>17 DEF Next, StreamStep, PageStep

\* The page is told of the end under the board of the last tick, over every race of the
\* reads and every lost connection and restart before it (stream.go Stream).
THEOREM TheEndIsTheEnd == Spec => []EndIsFinal
<1>1. StreamInv => EndIsFinal
  BY DEF StreamInv, EndInv, EndIsFinal
<1> QED BY StreamInvInit, StreamInvNext, <1>1, PTL DEF Spec

-----------------------------------------------------------------------------
(* The feed, the history and the graph. *)

Event   == [tick : Nat, life : Nat, n : Nat]
Frame   == [tick : Nat, life : Nat]
History == [interval : Nat \ {0}, points : Seq(Frame)]

Later(x, y) == x.tick < y.tick \/ (x.tick = y.tick /\ x.n < y.n)
InOrder(s)  == \A i, j \in 1..Len(s) : i < j => Later(s[i], s[j])

\* The feed is in the order its events happened in, and of ticks that are over.
BufferInv ==
  /\ InOrder(happened) /\ InOrder(events)
  /\ \A i \in 1..Len(happened) : happened[i].tick < Tick
  /\ \A i \in 1..Len(events) : InSeq(events[i], happened)

\* h is what sampling the world m up to tick t gives.
Even(h, m, t) ==
  /\ h \in History /\ Len(h.points) <= HistoryCap
  /\ Len(h.points) = (t \div h.interval) + 1
  /\ \A i \in 1..Len(h.points) : h.points[i] = Made(m, (i - 1) * h.interval)

HistoryInv == Even(history, made, Tick)

\* What the page holds, or will once the frames being made are there.
Held ==
  IF at \in {"board", "first"} THEN req.feed
  ELSE IF at = "init" THEN req.feed \o req.owed
  ELSE IF at = "tick" THEN page.feed \o req.owed
  ELSE page.feed

\* The ticks whose events it holds, and those a frame of which it has or gets now.
Cursor   == IF at = "board" THEN After(req.feed, 0) ELSE req.sentEvents
Frontier == IF at = "take" THEN page.snap.tick ELSE req.board.tick

Shown(e) ==
  \/ InSeq(e, Held)
  \/ at \in {"tick"} \cup {"loop", "snapshot", "take", "end"} /\ page.dropped /\ Held # <<>> /\ Held[1].tick >= e.tick

\* Where the handler is between its first read of the feed and its end, what it holds
\* is in order and this world's; it is all before the cursor, and all of the feed that
\* is before the cursor it has. Once a frame is made, nothing is between its cursor and
\* the frame's tick.
FeedInv ==
  at \in {"board", "first", "init", "tick", "loop", "snapshot", "take", "end"} =>
    /\ InOrder(Held)
    /\ \A i \in 1..Len(Held) : InSeq(Held[i], happened) /\ Held[i].tick < Cursor
    /\ Cursor \in Nat /\ Cursor <= Tick
    /\ \A i \in 1..Len(events) : events[i].tick < Cursor => Shown(events[i])
    /\ at # "board" => Cursor <= req.board.tick /\ req.board.tick <= Tick
    /\ at \notin {"board", "first"} =>
         /\ Cursor <= Frontier /\ Frontier \in Nat /\ Frontier <= Tick
         /\ \A i \in 1..Len(events) : events[i].tick < Frontier => events[i].tick < Cursor


-----------------------------------------------------------------------------
(* Pieces of sequences. *)

\* What a feed holds are events.
LEMMA EventAt ==
  ASSUME NEW s \in Seq(Event)
  PROVE  Len(s) \in Nat /\ \A i \in 1..Len(s) : s[i] \in Event /\ s[i].tick \in Nat /\ s[i].n \in Nat
<1>1. Len(s) \in Nat /\ \A i \in 1..Len(s) : s[i] \in Event
  BY ElementOfSeq, LenProperties
<1> QED BY <1>1 DEF Event

\* Where a sequence is cut: everything before it is earlier, and what is next is not.
LEMMA BeforeIs ==
  ASSUME NEW s \in Seq(Event), NEW t \in Nat
  PROVE  /\ Before(s, t) \in 0..Len(s)
         /\ \A i \in 1..Before(s, t) : s[i].tick < t
         /\ Before(s, t) < Len(s) => s[Before(s, t) + 1].tick >= t
<1> DEFINE Cut(n, m) == /\ \A i \in 1..n : s[i].tick < t
                        /\ n < m => s[n + 1].tick >= t
           F == {m \in Nat : m <= Len(s) => \E n \in 0..m : Cut(n, m)}
<1>0. Len(s) \in Nat /\ \A i \in 1..Len(s) : s[i].tick \in Nat
  BY EventAt
<1>1. 0 \in F
  OBVIOUS
<1>2. ASSUME NEW m \in Nat, m \in F PROVE m + 1 \in F
  <2> SUFFICES ASSUME m + 1 <= Len(s) PROVE \E n \in 0..m + 1 : Cut(n, m + 1)
    OBVIOUS
  <2>1. PICK n \in 0..m : Cut(n, m)
    BY <1>0, <1>2
  <2>2. CASE n < m
    BY <2>1, <2>2
  <2>3. CASE n = m /\ s[m + 1].tick >= t
    BY <2>1, <2>3
  <2>4. CASE n = m /\ s[m + 1].tick < t
    <3>1. Cut(m + 1, m + 1)
      BY <2>1, <2>4
    <3> QED BY <3>1
  <2>5. n < m \/ (n = m /\ s[m + 1].tick >= t) \/ (n = m /\ s[m + 1].tick < t)
    <3>1. m + 1 \in 1..Len(s) /\ n \in 0..m
      BY <1>0
    <3>2. s[m + 1].tick \in Nat
      BY <1>0, <3>1
    <3> QED BY <3>1, <3>2
  <2> HIDE DEF Cut
  <2> QED BY <2>2, <2>3, <2>4, <2>5
<1> HIDE DEF F
<1>3. Len(s) \in F
  BY <1>0, <1>1, <1>2, NumberInduction
<1>4. \E n \in 0..Len(s) : Cut(n, Len(s))
  BY <1>0, <1>3 DEF F
<1> QED BY <1>4 DEF Before

\* Of an ordered feed the cut takes exactly what is earlier.
LEMMA BeforeCuts ==
  ASSUME NEW s \in Seq(Event), InOrder(s), NEW t \in Nat
  PROVE  /\ Before(s, t) \in 0..Len(s)
         /\ \A i \in 1..Len(s) : s[i].tick < t <=> i <= Before(s, t)
<1> DEFINE n == Before(s, t)
<1>1. /\ n \in 0..Len(s) /\ \A i \in 1..n : s[i].tick < t
      /\ n < Len(s) => s[n + 1].tick >= t
  BY BeforeIs
<1> HIDE DEF n
<1>2. Len(s) \in Nat /\ \A i \in 1..Len(s) : s[i].tick \in Nat
  BY EventAt
<1>3. ASSUME NEW i \in 1..Len(s), n < i PROVE ~(s[i].tick < t)
  <2>1. n + 1 \in 1..Len(s) /\ s[n + 1].tick >= t
    BY <1>1, <1>2, <1>3
  <2>2. s[n + 1].tick <= s[i].tick
    <3>1. CASE i = n + 1
      BY <1>2, <3>1
    <3>2. CASE n + 1 < i
      <4>1. Later(s[n + 1], s[i])
        BY <2>1, <3>2 DEF InOrder
      <4> QED BY <1>2, <2>1, <4>1 DEF Later
    <3> QED BY <1>1, <1>2, <1>3, <3>1, <3>2
  <2> QED BY <1>2, <2>1, <2>2
<1> QED BY <1>1, <1>2, <1>3 DEF n

\* A piece of a feed is a feed, in order if that is.
LEMMA PieceIs ==
  ASSUME NEW s \in Seq(Event), NEW a \in Nat, NEW b \in Nat, a <= b, b <= Len(s)
  PROVE  LET p == SubSeq(s, a + 1, b) IN
         /\ p \in Seq(Event) /\ Len(p) = b - a
         /\ \A i \in 1..Len(p) : a + i \in 1..Len(s) /\ p[i] = s[a + i]
         /\ InOrder(s) => InOrder(p)
         /\ \A x : InSeq(x, p) <=> \E i \in a + 1..b : s[i] = x
<1> DEFINE p == SubSeq(s, a + 1, b)
<1>1. Len(s) \in Nat /\ DOMAIN s = 1..Len(s)
  BY LenProperties
<1>2. p \in Seq(Event) /\ Len(p) = b - a /\ \A i \in 1..b - a : p[i] = s[a + i]
  <2>1. \A i \in a + 1..b : i \in 1..Len(s)
    BY <1>1
  <2> QED BY <1>1, <2>1, SubSeqProperties
<1> HIDE DEF p
<1>3. \A i \in 1..Len(p) : a + i \in 1..Len(s) /\ p[i] = s[a + i]
  BY <1>1, <1>2
<1>4. InOrder(s) => InOrder(p)
  BY <1>1, <1>2, <1>3 DEF InOrder
<1>5. \A x : InSeq(x, p) <=> \E i \in a + 1..b : s[i] = x
  <2>1. ASSUME NEW x, InSeq(x, p) PROVE \E i \in a + 1..b : s[i] = x
    BY <1>2, <1>3, <2>1 DEF InSeq
  <2>2. ASSUME NEW i \in a + 1..b PROVE InSeq(s[i], p)
    <3>1. i - a \in 1..Len(p) /\ a + (i - a) = i
      BY <1>2
    <3>2. p[i - a] = s[i]
      BY <1>3, <3>1
    <3> QED BY <3>1, <3>2 DEF InSeq
  <2> QED BY <2>1, <2>2
<1> QED BY <1>2, <1>3, <1>4, <1>5 DEF p

\* Match.Events: the events from a tick on, and takeEvents: those before another.
LEMMA TailIs ==
  ASSUME NEW s \in Seq(Event), InOrder(s), NEW t \in Nat
  PROVE  /\ EventsSince(s, t) \in Seq(Event) /\ InOrder(EventsSince(s, t))
         /\ \A x : InSeq(x, EventsSince(s, t)) <=> InSeq(x, s) /\ x.tick >= t
<1> DEFINE n == Before(s, t)
<1>1. n \in 0..Len(s) /\ \A i \in 1..Len(s) : s[i].tick < t <=> i <= n
  BY BeforeCuts
<1>2. Len(s) \in Nat /\ \A i \in 1..Len(s) : s[i].tick \in Nat
  BY EventAt
<1>3. EventsSince(s, t) = SubSeq(s, n + 1, Len(s))
  BY DEF EventsSince
<1> DEFINE p == SubSeq(s, n + 1, Len(s))
<1> HIDE DEF n
<1>p. n \in Nat /\ n <= Len(s) /\ Len(s) <= Len(s)
  BY <1>1, <1>2
<1>q. /\ p \in Seq(Event) /\ InOrder(p)
      /\ \A x : InSeq(x, p) <=> \E i \in n + 1..Len(s) : s[i] = x
  BY <1>2, <1>p, PieceIs
<1>4. /\ EventsSince(s, t) \in Seq(Event) /\ InOrder(EventsSince(s, t))
      /\ \A x : InSeq(x, EventsSince(s, t)) <=> \E i \in n + 1..Len(s) : s[i] = x
  BY <1>3, <1>q
<1>5. \A i \in 1..Len(s) : i \in n + 1..Len(s) <=> s[i].tick >= t
  BY <1>1, <1>2
<1>6. n + 1..Len(s) \subseteq 1..Len(s)
  BY <1>1, <1>2
<1> QED BY <1>4, <1>5, <1>6 DEF InSeq

LEMMA HeadIs ==
  ASSUME NEW s \in Seq(Event), InOrder(s), NEW t \in Nat
  PROVE  /\ SubSeq(s, 1, Before(s, t)) \in Seq(Event) /\ InOrder(SubSeq(s, 1, Before(s, t)))
         /\ \A x : InSeq(x, SubSeq(s, 1, Before(s, t))) <=> InSeq(x, s) /\ x.tick < t
<1> DEFINE n == Before(s, t)
<1>1. n \in 0..Len(s) /\ \A i \in 1..Len(s) : s[i].tick < t <=> i <= n
  BY BeforeCuts
<1>2. Len(s) \in Nat /\ \A i \in 1..Len(s) : s[i].tick \in Nat
  BY EventAt
<1> HIDE DEF n
<1> DEFINE z == 0
<1>z. z = 0 /\ z \in Nat
  OBVIOUS
<1> HIDE DEF z
<1> DEFINE p == SubSeq(s, z + 1, n)
<1>3. n \in Nat /\ z <= n /\ n <= Len(s)
  BY <1>1, <1>2, <1>z
<1>4. /\ p \in Seq(Event) /\ InOrder(p)
      /\ \A x : InSeq(x, p) <=> \E i \in z + 1..n : s[i] = x
  BY <1>z, <1>3, PieceIs
<1>5. \A i \in 1..Len(s) : i \in z + 1..n <=> s[i].tick < t
  BY <1>1, <1>2, <1>z
<1>6. z + 1..n \subseteq 1..Len(s)
  BY <1>1, <1>2, <1>z
<1>7. \A x : InSeq(x, p) <=> InSeq(x, s) /\ x.tick < t
  BY <1>4, <1>5, <1>6 DEF InSeq
<1>8. p = SubSeq(s, 1, n)
  BY <1>z
<1> HIDE DEF p
<1> QED BY <1>4, <1>7, <1>8 DEF n

\* The newest of a feed: a piece at its end, and never more than asked for.
LEMMA NewestIs ==
  ASSUME NEW s \in Seq(Event), NEW c \in Nat \ {0}
  PROVE  LET p == Newest(s, c) IN
         /\ p \in Seq(Event) /\ (InOrder(s) => InOrder(p)) /\ (s # <<>> => p # <<>>)
         /\ \E d \in 0..Len(s) : /\ Len(p) = Len(s) - d
                                 /\ \A i \in 1..Len(p) : d + i \in 1..Len(s) /\ p[i] = s[d + i]
<1> DEFINE p == Newest(s, c)
<1>1. Len(s) \in Nat
  BY LenProperties
<1>2. CASE Len(s) <= c
  <2>1. p = s
    BY <1>2 DEF Newest
  <2>2. 0 \in 0..Len(s) /\ Len(s) = Len(s) - 0 /\ \A i \in 1..Len(s) : 0 + i \in 1..Len(s) /\ s[i] = s[0 + i]
    BY <1>1
  <2> QED BY <2>1, <2>2
<1>3. CASE ~(Len(s) <= c)
  <2> DEFINE d == Len(s) - c
  <2>1. d \in Nat /\ d <= Len(s) /\ p = SubSeq(s, d + 1, Len(s))
    BY <1>1, <1>3 DEF Newest
  <2>2. Len(s) - d = c
    BY <1>1
  <2> HIDE DEF d, p
  <2>3. /\ p \in Seq(Event) /\ Len(p) = Len(s) - d /\ (InOrder(s) => InOrder(p))
        /\ \A i \in 1..Len(p) : d + i \in 1..Len(s) /\ p[i] = s[d + i]
    BY <1>1, <2>1, PieceIs
  <2>4. p # <<>>
    BY <2>2, <2>3
  <2> QED BY <1>1, <2>1, <2>3, <2>4 DEF p
<1> QED BY <1>2, <1>3

\* Two feeds joined, the second of them later.
LEMMA JoinIs ==
  ASSUME NEW r \in Seq(Event), NEW s \in Seq(Event)
  PROVE  /\ r \o s \in Seq(Event)
         /\ \A x : InSeq(x, r \o s) <=> InSeq(x, r) \/ InSeq(x, s)
         /\ r # <<>> => (r \o s) # <<>> /\ (r \o s)[1] = r[1]
         /\ (InOrder(r) /\ InOrder(s) /\ \A i \in 1..Len(r), j \in 1..Len(s) : Later(r[i], s[j]))
              => InOrder(r \o s)
<1>1. Len(r) \in Nat /\ Len(s) \in Nat
  BY LenProperties
<1>2. /\ r \o s \in Seq(Event) /\ Len(r \o s) = Len(r) + Len(s)
      /\ \A i \in 1..Len(r) + Len(s) : (r \o s)[i] = IF i <= Len(r) THEN r[i] ELSE s[i - Len(r)]
  BY ConcatProperties
<1>3. \A i \in 1..Len(r) : i \in 1..Len(r) + Len(s) /\ (r \o s)[i] = r[i]
  BY <1>1, <1>2
<1>4. \A i \in 1..Len(s) : Len(r) + i \in 1..Len(r) + Len(s) /\ (r \o s)[Len(r) + i] = s[i]
  BY <1>1, <1>2
<1>5. \A x : InSeq(x, r \o s) <=> InSeq(x, r) \/ InSeq(x, s)
  <2>1. ASSUME NEW x, InSeq(x, r \o s) PROVE InSeq(x, r) \/ InSeq(x, s)
    <3>1. PICK i \in 1..Len(r) + Len(s) : (r \o s)[i] = x
      BY <1>2, <2>1 DEF InSeq
    <3>2. i \in 1..Len(r) \/ i - Len(r) \in 1..Len(s)
      BY <1>1
    <3> QED BY <1>1, <1>2, <3>1, <3>2 DEF InSeq
  <2>2. ASSUME NEW x, InSeq(x, r) \/ InSeq(x, s) PROVE InSeq(x, r \o s)
    BY <1>2, <1>3, <1>4, <2>2 DEF InSeq
  <2> QED BY <2>1, <2>2
<1>6. r # <<>> => (r \o s) # <<>> /\ (r \o s)[1] = r[1]
  <2> SUFFICES ASSUME r # <<>> PROVE (r \o s) # <<>> /\ (r \o s)[1] = r[1]
    OBVIOUS
  <2>1. 1 \in 1..Len(r)
    BY <1>1, EmptySeq
  <2> QED BY <1>1, <1>2, <1>3, <2>1
<1>7. ASSUME InOrder(r), InOrder(s), \A i \in 1..Len(r), j \in 1..Len(s) : Later(r[i], s[j])
      PROVE  InOrder(r \o s)
  <2> SUFFICES ASSUME NEW i \in 1..Len(r) + Len(s), NEW j \in 1..Len(r) + Len(s), i < j
               PROVE  Later((r \o s)[i], (r \o s)[j])
    BY <1>2 DEF InOrder
  <2>1. CASE j <= Len(r)
    BY <1>1, <1>2, <1>7, <2>1 DEF InOrder
  <2>2. CASE i <= Len(r) /\ ~(j <= Len(r))
    BY <1>1, <1>2, <1>7, <2>2
  <2>3. CASE ~(i <= Len(r))
    <3>1. i - Len(r) \in 1..Len(s) /\ j - Len(r) \in 1..Len(s) /\ i - Len(r) < j - Len(r)
          /\ ~(j <= Len(r))
      BY <1>1, <2>3
    <3>2. Later(s[i - Len(r)], s[j - Len(r)])
      BY <1>7, <3>1 DEF InOrder
    <3> QED BY <1>2, <2>3, <3>1, <3>2
  <2> QED BY <1>1, <2>1, <2>2, <2>3
<1> QED BY <1>2, <1>5, <1>6, <1>7

-----------------------------------------------------------------------------
(* The history. *)

\* Quotients and remainders.
LEMMA DivIs ==
  ASSUME NEW a \in Nat, NEW b \in Nat \ {0}
  PROVE  /\ a \div b \in Nat /\ a % b \in Nat /\ a % b < b
         /\ a = b * (a \div b) + (a % b)
OBVIOUS

LEMMA DivUnique ==
  ASSUME NEW b \in Nat \ {0}, NEW q \in Nat, NEW r \in Nat, r < b
  PROVE  (b * q + r) \div b = q /\ (b * q + r) % b = r
<1> DEFINE a == b * q + r
           p == a \div b
           e == a % b
<1>1. b * q \in Nat /\ a \in Nat
  OBVIOUS
<1>2. p \in Nat /\ e \in Nat /\ e < b /\ a = b * p + e
  BY <1>1, DivIs
<1>3. a = b * q + r
  OBVIOUS
<1> HIDE DEF a, p, e
<1>4. p = q
  <2>1. CASE p < q
    <3>1. p + 1 <= q
      BY <1>2, <2>1
    <3>2. b * (p + 1) <= b * q
      BY <1>2, <3>1
    <3>3. b * (p + 1) = b * p + b
      BY <1>2
    <3> QED BY <1>1, <1>2, <1>3, <3>2, <3>3
  <2>2. CASE q < p
    <3>1. q + 1 <= p
      BY <1>2, <2>2
    <3>2. b * (q + 1) <= b * p
      BY <1>2, <3>1
    <3>3. b * (q + 1) = b * q + b
      OBVIOUS
    <3> QED BY <1>1, <1>2, <1>3, <3>2, <3>3
  <2> QED BY <1>2, <2>1, <2>2
<1>5. e = r
  BY <1>1, <1>2, <1>3, <1>4
<1> QED BY <1>4, <1>5 DEF a, p, e

\* Twice as much of b is as much of twice b.
LEMMA TwiceIs ==
  ASSUME NEW j \in Nat, NEW b \in Nat
  PROVE  (2 * j) * b = j * (b * 2) /\ (2 * j) * b = (b * 2) * j
<1>1. (2 * j) * b = 2 * (j * b)
  OBVIOUS
<1>2. j * (b * 2) = 2 * (j * b)
  OBVIOUS
<1>3. (b * 2) * j = 2 * (j * b)
  OBVIOUS
<1> QED BY <1>1, <1>2, <1>3

\* A tick further is a sampling tick, or in the same interval.
LEMMA NextSample ==
  ASSUME NEW t \in Nat, NEW b \in Nat \ {0}
  PROVE  /\ (t + 1) % b = 0 =>
              (t + 1) \div b = (t \div b) + 1 /\ t + 1 = ((t \div b) + 1) * b
         /\ (t + 1) % b # 0 => (t + 1) \div b = t \div b
<1> DEFINE q == t \div b
           r == t % b
<1>1. q \in Nat /\ r \in Nat /\ r < b /\ t = b * q + r
  BY DivIs
<1> HIDE DEF q, r
<1>2. b * q \in Nat
  BY <1>1
<1>3. CASE r + 1 < b
  <2>1. r + 1 \in Nat /\ t + 1 = b * q + (r + 1)
    BY <1>1, <1>2
  <2>2. (t + 1) \div b = q /\ (t + 1) % b = r + 1
    BY <1>1, <1>3, <2>1, DivUnique
  <2>3. r + 1 # 0
    BY <1>1
  <2> QED BY <2>2, <2>3 DEF q
<1>4. CASE r + 1 = b
  <2>1. b * (q + 1) = b * q + b /\ q + 1 \in Nat /\ 0 \in Nat /\ 0 < b
    BY <1>1
  <2>2. t + 1 = b * (q + 1) + 0 /\ b * (q + 1) = (q + 1) * b
    BY <1>1, <1>2, <1>4, <2>1
  <2>3. (t + 1) \div b = q + 1 /\ (t + 1) % b = 0
    <3> DEFINE p == q + 1
               z == 0
    <3>1. p \in Nat /\ z \in Nat /\ z < b /\ t + 1 = b * p + z
      BY <2>1, <2>2
    <3> HIDE DEF p, z
    <3>2. (t + 1) \div b = p /\ (t + 1) % b = z
      BY <3>1, DivUnique
    <3> QED BY <3>2 DEF p, z
  <2>4. t + 1 = (q + 1) * b
    BY <1>1, <2>1, <2>2
  <2> QED BY <2>3, <2>4 DEF q
<1> QED BY <1>1, <1>3, <1>4

\* Every second point of a series.
LEMMA EverySecondIs ==
  ASSUME NEW s \in Seq(Frame)
  PROVE  /\ EverySecond(s) \in Seq(Frame) /\ Len(EverySecond(s)) = (Len(s) + 1) \div 2
         /\ \A i \in 1..Len(EverySecond(s)) :
              2 * i - 1 \in 1..Len(s) /\ EverySecond(s)[i] = s[2 * i - 1]
<1> DEFINE n == (Len(s) + 1) \div 2
<1>1. Len(s) \in Nat /\ n \in Nat /\ 2 * n <= Len(s) + 1
  BY LenProperties
<1> HIDE DEF n
<1>2. \A i \in 1..n : 2 * i - 1 \in 1..Len(s)
  BY <1>1
<1>3. \A i \in 1..n : s[2 * i - 1] \in Frame
  BY <1>2, ElementOfSeq
<1>4. EverySecond(s) = [i \in 1..n |-> s[2 * i - 1]]
  BY DEF EverySecond, n
<1>5. EverySecond(s) \in Seq(Frame) /\ Len(EverySecond(s)) = n
  BY <1>1, <1>3, <1>4, SeqDef
<1> QED BY <1>2, <1>4, <1>5 DEF n

\* The first sample.
LEMMA DawnIsEven ==
  ASSUME NEW m
  PROVE  Even(Dawn, m, 0) /\ Dawn.points = <<Made(m, 0)>>
<1> DEFINE h == [interval |-> HistoryEvery, points |-> <<Made(m, 0)>>]
<1>1. 0 % HistoryEvery = 0 /\ 0 \div HistoryEvery = 0
  <2>1. HistoryEvery * 0 + 0 = 0 /\ 0 \in Nat /\ 0 < HistoryEvery
    BY StreamAssumption
  <2> QED BY <2>1, StreamAssumption, DivUnique
<1>2. Made(m, 0) = Made(<<>>, 0) /\ Made(m, 0) \in Frame
  BY DEF Made, Frame
<1>3. ~(1 > HistoryCap)
  BY StreamAssumption
<1>4. Dawn = h
  BY <1>1, <1>2, <1>3 DEF Dawn, Sampled, Appended
<1>5. h \in History /\ Len(h.points) = 1 /\ h.points[1] = Made(m, 0)
  BY <1>2, StreamAssumption DEF History
<1>6. h.interval = HistoryEvery /\ (1 - 1) * HistoryEvery = 0
  BY StreamAssumption
<1>7. h.points = <<Made(m, 0)>>
  OBVIOUS
<1> HIDE DEF h
<1> QED BY <1>1, <1>3, <1>4, <1>5, <1>6, <1>7, StreamAssumption DEF Even

\* A tick's sample keeps the series even, by going on with it or by halving it.
LEMMA SampledIsEven ==
  ASSUME NEW h, NEW m, NEW t \in Nat, Even(h, m, t), Made(m, t + 1) \in Frame
  PROVE  Even(Sampled(h, m, t + 1), m, t + 1)
<1> DEFINE b == h.interval
           q == t \div b
           g == Append(h.points, Made(m, t + 1))
<1>1. /\ h \in History /\ b \in Nat \ {0} /\ h.points \in Seq(Frame) /\ Len(h.points) <= HistoryCap
      /\ Len(h.points) = q + 1 /\ q \in Nat
      /\ \A i \in 1..Len(h.points) : h.points[i] = Made(m, (i - 1) * b)
  BY DivIs DEF Even, History
<1>2. CASE (t + 1) % b # 0
  <2>1. (t + 1) \div b = q
    BY <1>1, <1>2, NextSample
  <2> QED BY <1>1, <1>2, <2>1 DEF Sampled, Even
<1>3. CASE (t + 1) % b = 0
  <2>1. (t + 1) \div b = q + 1 /\ t + 1 = (q + 1) * b
    BY <1>1, <1>3, NextSample
  <2>2. /\ g \in Seq(Frame) /\ Len(g) = q + 2
        /\ \A i \in 1..q + 1 : g[i] = h.points[i]
        /\ g[q + 2] = Made(m, t + 1)
    <3>1. /\ g \in Seq(Frame) /\ Len(g) = Len(h.points) + 1
          /\ \A i \in 1..Len(h.points) : g[i] = h.points[i]
          /\ g[Len(h.points) + 1] = Made(m, t + 1)
      BY <1>1, AppendProperties
    <3> QED BY <1>1, <3>1
  <2>3. ASSUME NEW i \in 1..Len(g) PROVE g[i] = Made(m, (i - 1) * b)
    <3>1. CASE i \in 1..q + 1
      BY <1>1, <2>2, <3>1
    <3>2. CASE i = q + 2
      BY <1>1, <2>1, <2>2, <3>2
    <3> QED BY <1>1, <2>2, <3>1, <3>2
  <2>4. Sampled(h, m, t + 1) = Appended(h, Made(m, t + 1), HistoryCap)
    BY <1>3 DEF Sampled
  <2> HIDE DEF g, q
  <2>5. CASE ~(Len(g) > HistoryCap)
    <3> DEFINE k == [interval |-> b, points |-> g]
    <3>1. Sampled(h, m, t + 1) = k
      BY <2>4, <2>5 DEF Appended, g
    <3>2. k \in History /\ k.interval = b /\ k.points = g
      BY <1>1, <2>2 DEF History
    <3>3. Len(g) <= HistoryCap
      BY <1>1, <2>2, <2>5, StreamAssumption
    <3>4. Len(g) = (t + 1) \div b + 1
      BY <1>1, <2>1, <2>2
    <3> HIDE DEF k
    <3>5. Even(k, m, t + 1)
      BY <2>3, <3>2, <3>3, <3>4 DEF Even
    <3> QED BY <3>1, <3>5
  <2>6. CASE Len(g) > HistoryCap
    <3> DEFINE u == (q + 1) \div 2
               w == (q + 1) % 2
               c == b * 2
               e == EverySecond(g)
               k == [interval |-> c, points |-> e]
    <3>1. u \in Nat /\ w \in 0..1 /\ q + 1 = 2 * u + w
      BY <1>1
    <3>2. c \in Nat \ {0}
      BY <1>1
    <3>3. Sampled(h, m, t + 1) = k /\ k.interval = c /\ k.points = e
      BY <2>4, <2>6 DEF Appended, g
    <3>4. /\ e \in Seq(Frame) /\ Len(e) = u + 1
          /\ \A i \in 1..Len(e) : 2 * i - 1 \in 1..Len(g) /\ e[i] = g[2 * i - 1]
      <4>1. (Len(g) + 1) \div 2 = u + 1
        BY <1>1, <2>2
      <4> QED BY <2>2, <4>1, EverySecondIs
    <3>5. (t + 1) \div c = u
      <4> HIDE DEF u, w
      <4>1. b * w \in Nat /\ b * w < c
        BY <1>1, <3>1
      <4>2. t + 1 = c * u + b * w
        <5>1. (q + 1) * b = (2 * u + w) * b
          BY <3>1
        <5>2. (2 * u + w) * b = (b * 2) * u + b * w
          <6>1. (2 * u) * b = (b * 2) * u
            BY <1>1, <3>1, TwiceIs
          <6>2. (2 * u + w) * b = (2 * u) * b + b * w
            BY <1>1, <3>1
          <6> QED BY <6>1, <6>2
        <5> QED BY <2>1, <5>1, <5>2
      <4> HIDE DEF c
      <4> QED BY <3>1, <3>2, <4>1, <4>2, DivUnique
    <3>6. Len(e) <= HistoryCap
      BY <1>1, <2>2, <2>6, <3>1, <3>4, StreamAssumption
    <3>7. ASSUME NEW i \in 1..Len(e) PROVE e[i] = Made(m, (i - 1) * c)
      <4>1. 2 * i - 1 \in 1..Len(g) /\ e[i] = g[2 * i - 1]
        BY <3>4
      <4>2. e[i] = Made(m, ((2 * i - 1) - 1) * b)
        BY <2>3, <4>1
      <4>3. i - 1 \in Nat /\ (2 * i - 1) - 1 = 2 * (i - 1)
        BY <3>1, <3>4
      <4>4. (2 * (i - 1)) * b = (i - 1) * (b * 2)
        BY <1>1, <4>3, TwiceIs
      <4> QED BY <4>2, <4>3, <4>4
    <3>8. k \in History
      BY <3>2, <3>4 DEF History
    <3> HIDE DEF k, e, c, u, w
    <3> QED BY <3>3, <3>4, <3>5, <3>6, <3>7, <3>8 DEF Even
  <2> QED BY <2>5, <2>6
<1> QED BY <1>2, <1>3

\* A replay samples like the match it replays.
LEMMA RederivedIsEven ==
  ASSUME NEW m \in Seq(Nat)
  PROVE  Even(Rederived(m, Len(m)), m, Len(m))
<1> DEFINE t == Len(m)
           Step1(k, v) == IF k = 0 THEN Dawn ELSE Sampled(v[k - 1], m, k)
           IsRun(g, n) == g = [k \in 0..n |-> IF k = 0 THEN Dawn ELSE Sampled(g[k - 1], m, k)]
           F == {n \in Nat : \E g : IsRun(g, n)}
<1>0. t \in Nat
  BY LenProperties
<1>1. 0 \in F
  <2> DEFINE g == [k \in 0..0 |-> Dawn]
  <2>1. IsRun(g, 0)
    OBVIOUS
  <2> HIDE DEF g
  <2> QED BY <2>1
<1>2. ASSUME NEW n \in Nat, n \in F PROVE n + 1 \in F
  <2>1. PICK g : IsRun(g, n)
    BY <1>2
  <2> DEFINE f == [k \in 0..n + 1 |-> IF k = n + 1 THEN Sampled(g[n], m, n + 1) ELSE g[k]]
  <2>2. \A k \in 0..n : g[k] = IF k = 0 THEN Dawn ELSE Sampled(g[k - 1], m, k)
    BY <2>1
  <2>3. \A k \in 0..n : f[k] = g[k]
    OBVIOUS
  <2>4. f[n + 1] = Sampled(g[n], m, n + 1)
    OBVIOUS
  <2>5. f = [k \in 0..n + 1 |-> f[k]]
    OBVIOUS
  <2> HIDE DEF f, IsRun
  <2>6. ASSUME NEW k \in 0..n + 1 PROVE f[k] = IF k = 0 THEN Dawn ELSE Sampled(f[k - 1], m, k)
    <3>1. CASE k = 0
      BY <2>2, <2>3, <3>1
    <3>2. CASE k # 0 /\ k # n + 1
      <4>1. k \in 0..n /\ k - 1 \in 0..n
        BY <3>2
      <4> QED BY <2>2, <2>3, <3>2, <4>1
    <3>3. CASE k = n + 1
      <4>1. n \in 0..n /\ (n + 1) - 1 = n /\ n + 1 # 0
        OBVIOUS
      <4> QED BY <2>3, <2>4, <3>3, <4>1
    <3> QED BY <3>1, <3>2, <3>3
  <2>7. IsRun(f, n + 1)
    BY <2>5, <2>6 DEF IsRun
  <2> QED BY <2>7
<1> HIDE DEF F
<1>3. t \in F
  BY <1>0, <1>1, <1>2, NumberInduction
<1> DEFINE h == CHOOSE g : IsRun(g, t)
<1>4. IsRun(h, t)
  BY <1>3 DEF F
<1>5. Rederived(m, t) = h[t]
  BY DEF Rederived
<1> HIDE DEF h
<1>6. \A k \in 0..t : h[k] = IF k = 0 THEN Dawn ELSE Sampled(h[k - 1], m, k)
  BY <1>4
<1> HIDE DEF IsRun
<1> DEFINE E == {k \in Nat : k <= t => Even(h[k], m, k)}
<1>7. 0 \in E
  BY <1>0, <1>6, DawnIsEven
<1>8. ASSUME NEW k \in Nat, k \in E PROVE k + 1 \in E
  <2> SUFFICES ASSUME k + 1 <= t PROVE Even(h[k + 1], m, k + 1)
    OBVIOUS
  <2>1. Even(h[k], m, k)
    BY <1>0, <1>8
  <2>2. Made(m, k + 1) \in Frame
    <3>1. k + 1 \in 1..Len(m)
      BY <1>0
    <3> QED BY <3>1, ElementOfSeq DEF Made, Frame
  <2>3. h[k + 1] = Sampled(h[k], m, k + 1)
    BY <1>0, <1>6
  <2> QED BY <2>1, <2>2, <2>3, SampledIsEven
<1> HIDE DEF E
<1>9. t \in E
  BY <1>0, <1>7, <1>8, NumberInduction
<1> QED BY <1>0, <1>5, <1>9 DEF E

-----------------------------------------------------------------------------
(* The graph. *)

LEMMA EvenAscends ==
  ASSUME NEW h, NEW m, NEW t, Even(h, m, t)
  PROVE  Ascending(h.points)
<1>1. h.interval \in Nat \ {0} /\ \A i \in 1..Len(h.points) : h.points[i] = Made(m, (i - 1) * h.interval)
  BY DEF Even, History
<1>2. Len(h.points) \in Nat
  BY LenProperties DEF Even, History
<1> DEFINE b == h.interval
<1>3. \A i \in 1..Len(h.points) : h.points[i].tick = (i - 1) * b
  <2>1. \A x : Made(m, x).tick = x
    BY DEF Made
  <2>2. \A i \in 1..Len(h.points) : h.points[i] = Made(m, (i - 1) * b)
    BY <1>1
  <2> HIDE DEF b
  <2> QED BY <2>1, <2>2
<1> HIDE DEF b
<1>4. ASSUME NEW i \in 1..Len(h.points), NEW j \in 1..Len(h.points), i < j
      PROVE  (i - 1) * b < (j - 1) * b
  <2> DEFINE x == i - 1
             y == j - i
  <2>1. x \in Nat /\ y \in Nat \ {0} /\ j - 1 = x + y
    BY <1>2, <1>4
  <2> HIDE DEF x, y
  <2>2. b \in Nat \ {0}
    BY <1>1 DEF b
  <2>3. (x + y) * b = x * b + y * b /\ x * b \in Nat
    BY <2>1, <2>2
  <2>4. y * b > 0 /\ y * b \in Nat
    BY <2>1, <2>2
  <2>5. x * b < (x + y) * b
    BY <2>3, <2>4
  <2>6. (i - 1) * b = x * b /\ (j - 1) * b = (x + y) * b
    BY <2>1 DEF x
  <2> QED BY <2>5, <2>6
<1> QED BY <1>3, <1>4 DEF Ascending

\* A render adds a later point, or halves what it then has.
LEMMA DrawnIs ==
  ASSUME NEW h \in History, Ascending(h.points), NEW s \in Frame \cup {NoSnap}
  PROVE  Drawn(h, s) \in History /\ Ascending(Drawn(h, s).points)
<1> DEFINE g == Append(h.points, s)
<1>1. CASE Drawn(h, s) = h
  BY <1>1
<1>2. CASE Drawn(h, s) # h
  <2>1. /\ Drawn(h, s) = Appended(h, s, GraphMax)
        /\ s \in Frame /\ (h.points = <<>> \/ ~(s.tick <= LastTick(h.points)))
    BY <1>2 DEF Drawn
  <2>2. h.points \in Seq(Frame) /\ h.interval \in Nat \ {0} /\ Len(h.points) \in Nat
        /\ \A i \in 1..Len(h.points) : h.points[i] \in Frame /\ h.points[i].tick \in Nat
    <3>1. h.points \in Seq(Frame) /\ h.interval \in Nat \ {0}
      BY DEF History
    <3>2. \A i \in 1..Len(h.points) : h.points[i] \in Frame
      BY <3>1, ElementOfSeq
    <3> QED BY <3>1, <3>2, LenProperties DEF Frame
  <2>3. /\ g \in Seq(Frame) /\ Len(g) = Len(h.points) + 1
        /\ \A i \in 1..Len(h.points) : g[i] = h.points[i]
        /\ g[Len(h.points) + 1] = s
    BY <2>1, <2>2, AppendProperties
  <2> HIDE DEF g
  <2>4. ASSUME NEW i \in 1..Len(h.points) PROVE h.points[i].tick < s.tick
    <3>1. h.points # <<>> /\ Len(h.points) \in 1..Len(h.points)
      BY <2>2
    <3>2. LastTick(h.points) < s.tick
      BY <2>1, <2>2, <3>1 DEF LastTick, Frame
    <3>3. i = Len(h.points) \/ i < Len(h.points)
      BY <2>2
    <3>4. h.points[i].tick <= LastTick(h.points)
      BY <2>2, <3>1, <3>3 DEF Ascending, LastTick
    <3>5. s.tick \in Nat
      BY <2>1 DEF Frame
    <3> QED BY <2>2, <3>1, <3>2, <3>4, <3>5 DEF LastTick
  <2>5. Ascending(g)
    <3> SUFFICES ASSUME NEW i \in 1..Len(g), NEW j \in 1..Len(g), i < j
                 PROVE  g[i].tick < g[j].tick
      BY DEF Ascending
    <3>1. i \in 1..Len(h.points)
      BY <2>2, <2>3
    <3>2. CASE j \in 1..Len(h.points)
      BY <2>3, <3>1, <3>2 DEF Ascending
    <3>3. CASE j = Len(h.points) + 1
      BY <2>3, <2>4, <3>1, <3>3
    <3> QED BY <2>2, <2>3, <3>2, <3>3
  <2>6. CASE ~(Len(g) > GraphMax)
    <3>1. Drawn(h, s) = [interval |-> h.interval, points |-> g]
      BY <2>1, <2>6 DEF Appended, g
    <3> QED BY <2>2, <2>3, <2>5, <3>1 DEF History
  <2>7. CASE Len(g) > GraphMax
    <3>1. Drawn(h, s) = [interval |-> h.interval * 2, points |-> EverySecond(g)]
      BY <2>1, <2>7 DEF Appended, g
    <3> DEFINE e == EverySecond(g)
    <3>2. /\ e \in Seq(Frame)
          /\ \A i \in 1..Len(e) : 2 * i - 1 \in 1..Len(g) /\ e[i] = g[2 * i - 1]
      BY <2>3, EverySecondIs
    <3> HIDE DEF e
    <3>3. Ascending(e)
      <4> SUFFICES ASSUME NEW i \in 1..Len(e), NEW j \in 1..Len(e), i < j
                   PROVE  e[i].tick < e[j].tick
        BY DEF Ascending
      <4>1. Len(e) \in Nat
        BY <3>2, LenProperties
      <4>2. 2 * i - 1 < 2 * j - 1
        BY <4>1
      <4> QED BY <2>5, <3>2, <4>2 DEF Ascending
    <3> QED BY <2>2, <3>1, <3>2, <3>3 DEF History, e
  <2> QED BY <2>6, <2>7
<1> QED BY <1>1, <1>2

-----------------------------------------------------------------------------
(* The world and its two buffers. *)

\* What a step of the world leaves of its buffers.
BuffersAre ==
  /\ happened \in Seq(Event) /\ events \in Seq(Event) /\ history \in History
  /\ BufferInv /\ HistoryInv

LEMMA BuffersInit == Init => BuffersAre
<1> SUFFICES ASSUME Init PROVE BuffersAre
  OBVIOUS
<1>1. made = <<>> /\ happened = <<>> /\ events = <<>> /\ history = Dawn
  BY DEF Init
<1>2. Tick = 0 /\ Even(Dawn, <<>>, 0)
  BY <1>1, DawnIsEven DEF Tick
<1>3. history \in History /\ HistoryInv
  BY <1>1, <1>2 DEF HistoryInv, Even
<1>4. happened \in Seq(Event) /\ events \in Seq(Event) /\ Len(happened) = 0 /\ Len(events) = 0
  BY <1>1
<1>5. BufferInv
  BY <1>4 DEF BufferInv, InOrder
<1> QED BY <1>3, <1>4, <1>5 DEF BuffersAre

\* A tick brings events stamped with it, in order, and later than any before them.
LEMMA TickFills ==
  ASSUME BuffersAre, EndInv, Step
  PROVE  /\ BuffersAre'
         /\ \A x : InSeq(x, happened) => InSeq(x, happened')
         /\ \A x : InSeq(x, events') => InSeq(x, events) \/ x.tick = Tick
<1>1. made' = Append(made, life) /\ history' = Sampled(history, made', Tick + 1)
  BY DEF Step
<1>2. made \in Seq(Nat) /\ life \in Nat /\ Tick \in Nat
  BY LenProperties DEF EndInv, Tick
<1>3. made' \in Seq(Nat) /\ Tick' = Tick + 1 /\ Len(made') = Tick + 1
      /\ (\A i \in 1..Tick : made'[i] = made[i]) /\ made'[Tick + 1] = life
  BY <1>1, <1>2, AppendProperties DEF Tick
<1>4. PICK k \in TickEvents :
        LET fresh == [i \in 1..k |-> [tick |-> Tick, life |-> life, n |-> i]] IN
        happened' = happened \o fresh /\ events' = Collected(events, fresh)
  BY DEF Step
<1> DEFINE fresh == [i \in 1..k |-> [tick |-> Tick, life |-> life, n |-> i]]
<1>5. k \in Nat
  BY StreamAssumption
<1>6. fresh \in Seq(Event) /\ Len(fresh) = k
      /\ \A i \in 1..k : fresh[i].tick = Tick /\ fresh[i].n = i
  <2>1. fresh \in [1..k -> Event]
    BY <1>2 DEF Event
  <2> QED BY <1>5, <2>1, SeqDef
<1>7. happened' = happened \o fresh /\ events' = Newest(events \o fresh, EventCap)
  BY <1>4 DEF Collected
<1> HIDE DEF fresh
<1>8. InOrder(fresh) /\ \A x : InSeq(x, fresh) => x.tick = Tick
  BY <1>5, <1>6 DEF InOrder, Later, InSeq
<1>9. /\ happened \in Seq(Event) /\ events \in Seq(Event) /\ InOrder(happened) /\ InOrder(events)
      /\ \A i \in 1..Len(happened) : happened[i].tick < Tick
      /\ \A i \in 1..Len(events) : InSeq(events[i], happened)
  BY DEF BuffersAre, BufferInv
<1>10. \A i \in 1..Len(events) : events[i].tick < Tick
  BY <1>9 DEF InSeq
<1>11. /\ happened' \in Seq(Event) /\ InOrder(happened')
       /\ \A x : InSeq(x, happened') <=> InSeq(x, happened) \/ InSeq(x, fresh)
  <2>1. \A i \in 1..Len(happened), j \in 1..Len(fresh) : Later(happened[i], fresh[j])
    BY <1>6, <1>9 DEF Later
  <2> QED BY <1>6, <1>7, <1>8, <1>9, <2>1, JoinIs
<1> DEFINE g == events \o fresh
<1>12. /\ g \in Seq(Event) /\ InOrder(g)
       /\ \A x : InSeq(x, g) <=> InSeq(x, events) \/ InSeq(x, fresh)
  <2>1. \A i \in 1..Len(events), j \in 1..Len(fresh) : Later(events[i], fresh[j])
    BY <1>6, <1>10 DEF Later
  <2> QED BY <1>6, <1>8, <1>9, <2>1, JoinIs
<1> HIDE DEF g
<1>13. /\ events' \in Seq(Event) /\ InOrder(events')
       /\ \A i \in 1..Len(events') : InSeq(events'[i], g)
  <2>1. EventCap \in Nat \ {0}
    BY StreamAssumption
  <2>2. /\ Newest(g, EventCap) \in Seq(Event) /\ InOrder(Newest(g, EventCap))
        /\ \E d \in 0..Len(g) : \A i \in 1..Len(Newest(g, EventCap)) :
              d + i \in 1..Len(g) /\ Newest(g, EventCap)[i] = g[d + i]
    BY <1>12, <2>1, NewestIs
  <2> QED BY <1>7, <2>2 DEF InSeq, g
<1>14. BufferInv'
  <2>1. \A x : InSeq(x, happened') => x.tick < Tick + 1
    <3>1. \A x : InSeq(x, happened) => x.tick \in Nat /\ x.tick < Tick
      BY <1>9, EventAt DEF InSeq
    <3>2. \A x : InSeq(x, fresh) => x.tick < Tick + 1
      BY <1>2, <1>8
    <3> QED BY <1>2, <1>11, <3>1, <3>2
  <2>2. \A i \in 1..Len(happened') : happened'[i].tick < Tick'
    BY <1>3, <2>1 DEF InSeq
  <2>3. \A x : InSeq(x, events) => InSeq(x, happened)
    BY <1>9 DEF InSeq
  <2>4. \A i \in 1..Len(events') : InSeq(events'[i], happened')
    BY <1>11, <1>12, <1>13, <2>3
  <2> QED BY <1>11, <1>13, <2>2, <2>4 DEF BufferInv
<1>15. HistoryInv' /\ history' \in History
  <2>1. Even(history, made', Tick)
    <3>1. Even(history, made, Tick)
      BY DEF BuffersAre, HistoryInv
    <3> DEFINE b == history.interval
    <3>2. b \in Nat \ {0} /\ Len(history.points) = (Tick \div b) + 1
      BY <3>1 DEF Even, History
    <3>3. ASSUME NEW i \in 1..Len(history.points)
          PROVE  Made(made', (i - 1) * b) = Made(made, (i - 1) * b)
      <4> DEFINE q == Tick \div b
                 j == i - 1
      <4>1. q \in Nat /\ b * q <= Tick
        <5>1. q \in Nat /\ Tick % b \in Nat /\ Tick = b * q + (Tick % b)
          BY <1>2, <3>2, DivIs
        <5>2. b * q \in Nat
          BY <3>2, <5>1
        <5> QED BY <1>2, <5>1, <5>2
      <4>2. j \in Nat /\ j <= q
        BY <3>2, <4>1
      <4> HIDE DEF q, j, b
      <4>3. j * b <= Tick /\ j * b \in Nat
        <5>1. q - j \in Nat /\ q = j + (q - j)
          BY <4>1, <4>2
        <5>2. b * q = j * b + (q - j) * b
          <6> DEFINE y == q - j
          <6>1. y \in Nat /\ q = j + y
            BY <5>1
          <6> HIDE DEF y
          <6>2. b * q = j * b + y * b
            BY <3>2, <4>2, <6>1
          <6> QED BY <6>2 DEF y
        <5>3. (q - j) * b \in Nat /\ j * b \in Nat
          BY <3>2, <4>2, <5>1
        <5> QED BY <1>2, <4>1, <5>2, <5>3
      <4>4. j * b = 0 \/ j * b \in 1..Tick
        BY <1>2, <4>3
      <4>5. Made(made', j * b) = Made(made, j * b)
        BY <1>3, <4>4 DEF Made
      <4> QED BY <4>5 DEF j
    <3> QED BY <3>1, <3>3 DEF Even
  <2>2. Made(made', Tick + 1) \in Frame
    BY <1>2, <1>3 DEF Made, Frame
  <2>3. Even(Sampled(history, made', Tick + 1), made', Tick + 1)
    BY <1>2, <2>1, <2>2, SampledIsEven
  <2> QED BY <1>1, <1>3, <2>3 DEF HistoryInv, Even
<1>16. \A x : InSeq(x, events') => InSeq(x, events) \/ x.tick = Tick
  BY <1>8, <1>12, <1>13 DEF InSeq
<1> QED BY <1>11, <1>13, <1>14, <1>15, <1>16 DEF BuffersAre

\* A world brought back has the buffers a replay gives it.
LEMMA DownRefills ==
  ASSUME BuffersAre, EndInv, NEW t \in 0..Tick, Down(t)
  PROVE  BuffersAre'
<1>1. made \in Seq(Nat) /\ Tick \in Nat /\ t \in Nat
  BY LenProperties DEF EndInv, Tick
<1>2. made' \in Seq(Nat) /\ Len(made') = t /\ Tick' = t /\ history' = Rederived(made', t)
  <2>1. made' = SubSeq(made, 1, t) /\ history' = Rederived(made', t)
    BY DEF Down
  <2> QED BY <1>1, <2>1 DEF Tick
<1>3. HistoryInv' /\ history' \in History
  <2>1. Even(Rederived(made', Len(made')), made', Len(made'))
    BY <1>2, RederivedIsEven
  <2> QED BY <1>2, <2>1 DEF HistoryInv, Even
<1>4. happened \in Seq(Event) /\ InOrder(happened)
  BY DEF BuffersAre, BufferInv
<1>5. /\ happened' \in Seq(Event) /\ InOrder(happened')
      /\ \A x : InSeq(x, happened') <=> InSeq(x, happened) /\ x.tick < t
  <2>1. happened' = SubSeq(happened, 1, Before(happened, t))
    BY DEF Down
  <2> QED BY <1>1, <1>4, <2>1, HeadIs
<1>6. events' = Newest(happened', EventCap)
  BY DEF Down, RederivedEvents
<1>7. /\ events' \in Seq(Event) /\ InOrder(events')
      /\ \A i \in 1..Len(events') : InSeq(events'[i], happened')
  <2> DEFINE s == happened'
             p == Newest(s, EventCap)
  <2>1. s \in Seq(Event) /\ InOrder(s) /\ EventCap \in Nat \ {0}
    BY <1>5, StreamAssumption
  <2> HIDE DEF s
  <2>2. /\ p \in Seq(Event) /\ InOrder(p)
        /\ \E d \in 0..Len(s) : \A i \in 1..Len(p) : d + i \in 1..Len(s) /\ p[i] = s[d + i]
    BY <2>1, NewestIs
  <2>3. \A i \in 1..Len(p) : InSeq(p[i], s)
    BY <2>2 DEF InSeq
  <2> HIDE DEF p
  <2> QED BY <1>6, <2>2, <2>3 DEF p, s
<1>8. \A i \in 1..Len(happened') : happened'[i].tick < Tick'
  BY <1>2, <1>5 DEF InSeq
<1> QED BY <1>3, <1>5, <1>7, <1>8 DEF BuffersAre, BufferInv

-----------------------------------------------------------------------------
(* The streams over them. *)

\* A step leaves the world, ticks it, or brings it back.
LEMMA NextOfBuffers ==
  ASSUME BuffersAre, EndInv, [Next]_vars
  PROVE  BuffersAre'
<1>1. CASE Step
  BY <1>1, TickFills
<1>2. CASE Crash \/ Exit
  <2>1. \E t \in 0..Tick : Down(t)
    BY <1>2, LenProperties DEF Crash, Exit, EndInv, Tick
  <2> QED BY <2>1, DownRefills
<1>3. CASE UNCHANGED matchVars
  BY <1>3 DEF matchVars, BuffersAre, BufferInv, HistoryInv, Tick, InOrder, InSeq
<1>4. CASE StreamStep \/ PageStep \/ Close \/ HangUp \/ Stop \/ Boot \/ UNCHANGED vars
  <2>1. UNCHANGED matchVars
    BY <1>4 DEF StreamStep, PageStep, Connect, ReadFeed, ReadBoard, Poll, Snapshot, Take,
                SendInit, SendTick, SendEnd, Probe, Close, HangUp, Stop, Boot, Handler, vars
  <2> QED BY <1>3, <2>1
<1> QED BY <1>1, <1>2, <1>4 DEF Next

\* The cursor is past what was taken.
LEMMA AfterIs ==
  ASSUME NEW s \in Seq(Event), InOrder(s), NEW c \in Nat
  PROVE  /\ After(s, c) \in Nat
         /\ \A i \in 1..Len(s) : s[i].tick < After(s, c)
         /\ \/ After(s, c) = c /\ s = <<>>
            \/ \E i \in 1..Len(s) : After(s, c) = s[i].tick + 1
<1>1. Len(s) \in Nat /\ \A i \in 1..Len(s) : s[i].tick \in Nat
  BY EventAt
<1>2. CASE s = <<>>
  BY <1>2 DEF After
<1>3. CASE s # <<>>
  <2>1. Len(s) \in 1..Len(s) /\ After(s, c) = s[Len(s)].tick + 1
    BY <1>1, <1>3 DEF After, LastTick
  <2>2. ASSUME NEW i \in 1..Len(s) PROVE s[i].tick <= s[Len(s)].tick
    <3>1. CASE i = Len(s)
      BY <1>1, <3>1
    <3>2. CASE i < Len(s)
      <4>1. Later(s[i], s[Len(s)])
        BY <2>1, <3>2 DEF InOrder
      <4> QED BY <1>1, <2>1, <4>1 DEF Later
    <3> QED BY <1>1, <3>1, <3>2
  <2>3. \A i \in 1..Len(s) : s[i].tick < s[Len(s)].tick + 1
    BY <1>1, <2>1, <2>2
  <2> QED BY <1>1, <2>1, <2>3
<1> QED BY <1>2, <1>3

\* What takeEvents takes: the events of the ticks between the cursor and the frame.
LEMMA TakenIs ==
  ASSUME NEW s \in Seq(Event), InOrder(s), NEW c \in Nat, NEW t \in Nat
  PROVE  LET o == Taken(EventsSince(s, c), t) IN
         /\ o \in Seq(Event) /\ InOrder(o)
         /\ \A x : InSeq(x, o) <=> InSeq(x, s) /\ x.tick >= c /\ x.tick < t
<1> DEFINE r == EventsSince(s, c)
<1>1. r \in Seq(Event) /\ InOrder(r) /\ \A x : InSeq(x, r) <=> InSeq(x, s) /\ x.tick >= c
  BY TailIs
<1> HIDE DEF r
<1>2. /\ SubSeq(r, 1, Before(r, t)) \in Seq(Event) /\ InOrder(SubSeq(r, 1, Before(r, t)))
      /\ \A x : InSeq(x, SubSeq(r, 1, Before(r, t))) <=> InSeq(x, r) /\ x.tick < t
  BY <1>1, HeadIs
<1>3. Taken(r, t) = SubSeq(r, 1, Before(r, t))
  BY DEF Taken
<1>4. Taken(r, t) \in Seq(Event) /\ InOrder(Taken(r, t))
      /\ \A x : InSeq(x, Taken(r, t)) <=> InSeq(x, s) /\ x.tick >= c /\ x.tick < t
  BY <1>1, <1>2, <1>3
<1> QED BY <1>4 DEF r

Request == [hist : History, feed : Seq(Event), board : Frame, sentEvents : Nat,
            owed : Seq(Event), finished : BOOLEAN]
Page    == [snap : Frame \cup {NoSnap}, feed : Seq(Event), dropped : BOOLEAN, series : History]

\* The handler's locals and the page, and the history each of them has.
ShownType ==
  /\ req \in Request /\ page \in Page
  /\ Ascending(req.hist.points) /\ Ascending(page.series.points)

LEMMA NoLocalsType == NoLocals \in Request /\ Ascending(NoLocals.hist.points)
<1>1. Dawn \in History /\ Ascending(Dawn.points)
  BY DawnIsEven, EvenAscends DEF Even
<1>2. Made(<<>>, 0) \in Frame
  BY DEF Made, Frame
<1> HIDE DEF Dawn, Made
<1> QED BY <1>1, <1>2 DEF NoLocals, Request

LEMMA ShownInit == Init => ShownType
<1> SUFFICES ASSUME Init PROVE ShownType
  OBVIOUS
<1>1. Dawn \in History /\ Ascending(Dawn.points)
  BY DawnIsEven, EvenAscends DEF Even
<1>2. req = NoLocals
  BY DEF Init
<1>3. page = [snap |-> NoSnap, feed |-> <<>>, dropped |-> FALSE, series |-> Dawn]
  BY DEF Init
<1>4. page \in Page /\ Ascending(page.series.points)
  BY <1>1, <1>3 DEF Page
<1> QED BY <1>2, <1>4, NoLocalsType DEF ShownType

LEMMA NowIs ==
  ASSUME EndInv
  PROVE  Made(made, Tick) \in Frame /\ Made(made, Tick).tick = Tick /\ Tick \in Nat
<1>1. made \in Seq(Nat) /\ Tick \in Nat
  BY LenProperties DEF EndInv, Tick
<1>2. Tick # 0 => made[Tick] \in Nat
  BY <1>1, ElementOfSeq DEF Tick
<1> QED BY <1>1, <1>2 DEF Made, Frame

LEMMA ShownNext ==
  ASSUME BuffersAre, EndInv, ShownType, [Next]_vars
  PROVE  ShownType'
<1>0. /\ happened \in Seq(Event) /\ events \in Seq(Event) /\ InOrder(events)
      /\ history \in History /\ Ascending(history.points)
      /\ req \in Request /\ page \in Page
      /\ Ascending(req.hist.points) /\ Ascending(page.series.points)
  BY EvenAscends DEF BuffersAre, BufferInv, HistoryInv, ShownType
<1>1. CASE UNCHANGED page /\ req' = NoLocals
  BY <1>0, <1>1, NoLocalsType DEF ShownType
<1>2. CASE UNCHANGED <<req, page>>
  BY <1>0, <1>2 DEF ShownType
<1>3. CASE Connect
  <2>1. req' = [req EXCEPT !.hist = history] /\ page' = page
    BY <1>3 DEF Connect
  <2>2. req' \in Request /\ req'.hist = history
    BY <1>0, <2>1 DEF Request
  <2> QED BY <1>0, <2>1, <2>2 DEF ShownType
<1>4. CASE ReadFeed
  <2> DEFINE v == EventsSince(events, 0)
  <2>1. v \in Seq(Event)
    BY <1>0, TailIs
  <2>2. req' = [req EXCEPT !.feed = v] /\ page' = page
    BY <1>4 DEF ReadFeed
  <2> HIDE DEF v
  <2>3. req' \in Request /\ req'.hist = req.hist
    BY <1>0, <2>1, <2>2 DEF Request
  <2> QED BY <1>0, <2>2, <2>3 DEF ShownType
<1>5. CASE ReadBoard
  <2> DEFINE v == After(req.feed, 0)
             w == Made(made, Tick)
  <2>1. v \in Nat
    <3>1. req.feed \in Seq(Event) /\ Len(req.feed) \in Nat
      BY <1>0, LenProperties DEF Request
    <3>2. req.feed # <<>> => req.feed[Len(req.feed)] \in Event
      BY <3>1, ElementOfSeq
    <3> QED BY <3>2 DEF After, LastTick, Event
  <2>2. w \in Frame
    BY NowIs
  <2>3. req' = [req EXCEPT !.board = w, !.sentEvents = v] /\ page' = page
    BY <1>5 DEF ReadBoard
  <2> HIDE DEF v, w
  <2>4. req' \in Request /\ req'.hist = req.hist
    BY <1>0, <2>1, <2>2, <2>3 DEF Request
  <2> QED BY <1>0, <2>3, <2>4 DEF ShownType
<1>6. CASE Take
  <2> DEFINE owed == Taken(EventsSince(events, req.sentEvents), req.board.tick)
             v    == After(owed, req.sentEvents)
  <2>1. req.sentEvents \in Nat /\ req.board.tick \in Nat
    BY <1>0 DEF Request, Frame
  <2>2. owed \in Seq(Event) /\ InOrder(owed)
    BY <1>0, <2>1, TakenIs
  <2>3. req' = [req EXCEPT !.owed = owed, !.sentEvents = v] /\ page' = page
    BY <1>6 DEF Take
  <2> HIDE DEF owed
  <2>4. v \in Nat
    BY <2>1, <2>2, AfterIs
  <2> HIDE DEF v
  <2>5. req' \in Request /\ req'.hist = req.hist
    BY <1>0, <2>2, <2>3, <2>4 DEF Request
  <2> QED BY <1>0, <2>3, <2>5 DEF ShownType
<1>7. CASE Poll
  <2>1. req' = [req EXCEPT !.finished = Finished] /\ page' = page
    BY <1>7 DEF Poll
  <2>2. Finished \in BOOLEAN
    BY DEF Finished
  <2>3. req' \in Request /\ req'.hist = req.hist
    BY <1>0, <2>1, <2>2 DEF Request
  <2> QED BY <1>0, <2>1, <2>3 DEF ShownType
<1>8. CASE Snapshot
  <2>1. CASE req' = [req EXCEPT !.board = Made(made, Tick)] /\ page' = page
    <3>1. Made(made, Tick) \in Frame
      BY NowIs
    <3>2. req' \in Request /\ req'.hist = req.hist
      BY <1>0, <2>1, <3>1 DEF Request
    <3> QED BY <1>0, <2>1, <3>2 DEF ShownType
  <2> QED BY <1>2, <1>8, <2>1 DEF Snapshot
<1>9. CASE SendInit
  <2>1. page' = [page EXCEPT !.feed = req.feed, !.dropped = Len(req.feed) >= EventCap,
                             !.series = Drawn(req.hist, page.snap)]
        /\ req' = req
    BY <1>9 DEF SendInit
  <2> DEFINE d == Drawn(req.hist, page.snap)
             z == Len(req.feed) >= EventCap
  <2>2. req.hist \in History /\ page.snap \in Frame \cup {NoSnap} /\ req.feed \in Seq(Event)
    BY <1>0 DEF Request, Page
  <2>3. d \in History /\ Ascending(d.points)
    BY <1>0, <2>2, DrawnIs
  <2>4. z \in BOOLEAN
    OBVIOUS
  <2>5. page' = [page EXCEPT !.feed = req.feed, !.dropped = z, !.series = d]
    BY <2>1
  <2> HIDE DEF d, z
  <2>6. page' \in Page /\ page'.series = d
    BY <1>0, <2>2, <2>3, <2>4, <2>5 DEF Page
  <2> QED BY <1>0, <2>1, <2>3, <2>6 DEF ShownType
<1>10. CASE SendTick
  <2> DEFINE grown == page.feed \o req.owed
             over  == Len(grown) > EventCap + FeedSlack
             f     == IF over THEN Newest(grown, EventCap) ELSE grown
             d     == Drawn(page.series, req.board)
             z     == page.dropped \/ over
  <2>1. page' = [snap |-> req.board, feed |-> f, dropped |-> z, series |-> d] /\ req' = req
    BY <1>10 DEF SendTick
  <2>2. /\ page.series \in History /\ req.board \in Frame /\ page.feed \in Seq(Event)
        /\ req.owed \in Seq(Event) /\ page.dropped \in BOOLEAN
    BY <1>0 DEF Request, Page
  <2>3. d \in History /\ Ascending(d.points)
    BY <1>0, <2>2, DrawnIs
  <2>4. z \in BOOLEAN
    OBVIOUS
  <2>5. f \in Seq(Event)
    <3>1. grown \in Seq(Event) /\ EventCap \in Nat \ {0}
      BY <2>2, JoinIs, StreamAssumption
    <3> HIDE DEF grown
    <3>2. Newest(grown, EventCap) \in Seq(Event)
      BY <3>1, NewestIs
    <3> QED BY <3>1, <3>2
  <2> HIDE DEF f, d, z
  <2>6. page' \in Page /\ page'.series = d
    BY <2>1, <2>2, <2>3, <2>4, <2>5 DEF Page
  <2> QED BY <1>0, <2>1, <2>3, <2>6 DEF ShownType
<1>11. CASE Step \/ Probe \/ Stop \/ Boot \/ UNCHANGED vars
  <2>1. UNCHANGED <<req, page>>
    BY <1>11 DEF Step, Probe, Stop, Boot, vars
  <2> QED BY <1>2, <2>1
<1>12. CASE SendEnd \/ Close \/ HangUp \/ Crash \/ Exit
  <2>1. UNCHANGED page /\ req' = NoLocals
    BY <1>12 DEF SendEnd, Close, HangUp, Crash, Exit, Down
  <2> QED BY <1>1, <2>1
<1> QED
  BY <1>3, <1>4, <1>5, <1>6, <1>7, <1>8, <1>9, <1>10, <1>11, <1>12 DEF Next, StreamStep, PageStep

-----------------------------------------------------------------------------
(* The feed. *)

Ready == BuffersAre /\ EndInv /\ ShownType

\* Nothing of FeedInv is about anything but these.
LEMMA FeedStutters ==
  ASSUME FeedInv, UNCHANGED <<matchVars, at, req, page>>
  PROVE  FeedInv'
BY DEF matchVars, FeedInv, Held, Cursor, Frontier, Shown, InSeq, InOrder, Tick

\* A tick's events are none that a frame made before it owes.
LEMMA FeedTicks ==
  ASSUME Ready, FeedInv, Step
  PROVE  FeedInv'
<1>1. UNCHANGED <<at, req, page>> /\ Tick \in Nat /\ Tick' = Tick + 1
  <2>1. made \in Seq(Nat) /\ made' = Append(made, life) /\ UNCHANGED <<at, req, page>>
    BY DEF Step, Ready, EndInv
  <2> QED BY <2>1, AppendProperties, LenProperties DEF Tick
<1>2. /\ \A x : InSeq(x, happened) => InSeq(x, happened')
      /\ \A x : InSeq(x, events') => InSeq(x, events) \/ x.tick = Tick
  BY TickFills DEF Ready
<1>3. Held' = Held /\ Cursor' = Cursor /\ Frontier' = Frontier /\ \A e : Shown(e)' <=> Shown(e)
  BY <1>1 DEF Held, Cursor, Frontier, Shown, InSeq
<1> SUFFICES ASSUME at \in {"board", "first", "init", "tick", "loop", "snapshot", "take", "end"}
             PROVE  FeedInv'
  BY <1>1 DEF FeedInv
<1>4. /\ InOrder(Held)
      /\ \A i \in 1..Len(Held) : InSeq(Held[i], happened) /\ Held[i].tick < Cursor
      /\ Cursor \in Nat /\ Cursor <= Tick
      /\ \A i \in 1..Len(events) : events[i].tick < Cursor => Shown(events[i])
      /\ at # "board" => Cursor <= req.board.tick /\ req.board.tick <= Tick
      /\ at \notin {"board", "first"} =>
           /\ Cursor <= Frontier /\ Frontier \in Nat /\ Frontier <= Tick
           /\ \A i \in 1..Len(events) : events[i].tick < Frontier => events[i].tick < Cursor
  BY DEF FeedInv
<1>5. ASSUME NEW i \in 1..Len(events')
      PROVE  \/ \E j \in 1..Len(events) : events[j] = events'[i]
             \/ events'[i].tick = Tick
  BY <1>2 DEF InSeq
<1>6. \A i \in 1..Len(events') : events'[i].tick < Cursor => Shown(events'[i])
  BY <1>1, <1>4, <1>5
<1>7. InOrder(Held)' /\ \A i \in 1..Len(Held') : InSeq(Held'[i], happened') /\ Held'[i].tick < Cursor'
  BY <1>2, <1>3, <1>4 DEF InOrder
<1>8. Cursor' \in Nat /\ Cursor' <= Tick'
  BY <1>1, <1>3, <1>4
<1>9. at # "board" => Cursor <= req.board.tick /\ req.board.tick <= Tick + 1
  <2>1. req.board.tick \in Nat
    BY DEF Ready, ShownType, Request, Frame
  <2> QED BY <1>1, <1>4, <2>1
<1>10. at \notin {"board", "first"} =>
           /\ Cursor <= Frontier /\ Frontier \in Nat /\ Frontier <= Tick + 1
           /\ \A i \in 1..Len(events') : events'[i].tick < Frontier => events'[i].tick < Cursor
  BY <1>1, <1>4, <1>5
<1> HIDE DEF Cursor, Held, Frontier, Shown, Tick
<1> QED BY <1>1, <1>3, <1>6, <1>7, <1>8, <1>9, <1>10 DEF FeedInv

\* The backlog is all the server has.
LEMMA FeedBegins ==
  ASSUME Ready, ReadFeed
  PROVE  FeedInv'
<1> DEFINE v == EventsSince(events, 0)
<1>1. /\ events \in Seq(Event) /\ InOrder(events) /\ req \in Request
      /\ \A i \in 1..Len(events) : InSeq(events[i], happened)
      /\ \A i \in 1..Len(happened) : happened[i].tick < Tick
  BY DEF Ready, BuffersAre, BufferInv, ShownType
<1>2. req' = [req EXCEPT !.feed = v] /\ page' = page /\ at' = "board" /\ UNCHANGED matchVars
  BY DEF ReadFeed, Handler
<1>3. v \in Seq(Event) /\ InOrder(v) /\ \A x : InSeq(x, v) <=> InSeq(x, events) /\ x.tick >= 0
  BY <1>1, TailIs
<1> HIDE DEF v
<1>4. req'.feed = v
  BY <1>1, <1>2 DEF Request
<1>5. Held' = v /\ Cursor' = After(v, 0)
  BY <1>2, <1>4 DEF Held, Cursor
<1>6. /\ After(v, 0) \in Nat /\ \A i \in 1..Len(v) : v[i].tick < After(v, 0)
      /\ \/ After(v, 0) = 0
         \/ \E i \in 1..Len(v) : After(v, 0) = v[i].tick + 1
  BY <1>3, AfterIs
<1>7. Tick \in Nat /\ Tick' = Tick /\ happened' = happened /\ events' = events
  BY <1>2, NowIs DEF Ready, matchVars, Tick
<1>8. \A i \in 1..Len(v) : InSeq(v[i], happened) /\ v[i].tick < Tick /\ v[i].tick \in Nat
  <2>1. \A i \in 1..Len(v) : InSeq(v[i], events)
    BY <1>3 DEF InSeq
  <2>2. \A i \in 1..Len(v) : InSeq(v[i], happened)
    BY <1>1, <2>1 DEF InSeq
  <2>3. \A i \in 1..Len(v) : v[i].tick < Tick
    BY <1>1, <2>2 DEF InSeq
  <2> QED BY <1>3, <2>2, <2>3, EventAt
<1>9. After(v, 0) <= Tick
  BY <1>6, <1>7, <1>8
<1>10. \A i \in 1..Len(events) : InSeq(events[i], v)
  <2>1. \A i \in 1..Len(events) : events[i].tick >= 0
    BY <1>1, EventAt
  <2> QED BY <1>3, <2>1 DEF InSeq
<1>11. \A i \in 1..Len(events') : Shown(events[i])'
  BY <1>5, <1>7, <1>10 DEF Shown
<1>12. InOrder(Held)' /\ \A i \in 1..Len(Held') : InSeq(Held'[i], happened') /\ Held'[i].tick < Cursor'
  BY <1>3, <1>5, <1>6, <1>7, <1>8 DEF InOrder
<1>13. Cursor' \in Nat /\ Cursor' <= Tick'
  BY <1>5, <1>6, <1>7, <1>9
<1> QED BY <1>2, <1>11, <1>12, <1>13 DEF FeedInv

\* The first board is read behind the backlog.
LEMMA FeedBoards ==
  ASSUME Ready, FeedInv, ReadBoard
  PROVE  FeedInv'
<1> DEFINE v == After(req.feed, 0)
           w == Made(made, Tick)
<1>1. w.tick = Tick /\ Tick \in Nat /\ req \in Request
  BY NowIs DEF Ready, ShownType
<1>2. Cursor = v /\ Held = req.feed /\ at = "board" /\ at' = "first" /\ UNCHANGED matchVars
  BY DEF ReadBoard, Handler, Cursor, Held
<1>3. req' = [req EXCEPT !.board = w, !.sentEvents = v] /\ page' = page
  BY DEF ReadBoard
<1> HIDE DEF v, w
<1>4. req'.board = w /\ req'.sentEvents = v /\ req'.feed = req.feed
  BY <1>1, <1>3 DEF Request
<1>5. Held' = Held /\ Cursor' = Cursor
  BY <1>2, <1>4 DEF Held, Cursor
<1>6. happened' = happened /\ events' = events /\ Tick' = Tick
  BY <1>2 DEF matchVars, Tick
<1>7. /\ InOrder(Held)
      /\ \A i \in 1..Len(Held) : InSeq(Held[i], happened) /\ Held[i].tick < Cursor
      /\ Cursor \in Nat /\ Cursor <= Tick
      /\ \A i \in 1..Len(events) : events[i].tick < Cursor => Shown(events[i])
  BY <1>2 DEF FeedInv
<1>9. InOrder(Held)' /\ \A i \in 1..Len(Held') : InSeq(Held'[i], happened') /\ Held'[i].tick < Cursor'
  BY <1>5, <1>6, <1>7 DEF InOrder
<1>10. \A i \in 1..Len(events') : events'[i].tick < Cursor' => Shown(events[i])'
  <2> SUFFICES ASSUME NEW i \in 1..Len(events), events[i].tick < Cursor
               PROVE  Shown(events[i])'
    BY <1>5, <1>6
  <2> DEFINE e == events[i]
  <2>1. Shown(e)
    BY <1>7
  <2>2. InSeq(e, Held)
    BY <1>2, <2>1 DEF Shown
  <2> QED BY <1>5, <1>6, <2>2 DEF Shown, InSeq
<1>11. Cursor' \in Nat /\ Cursor' <= Tick' /\ Cursor' <= req'.board.tick /\ req'.board.tick <= Tick'
  BY <1>1, <1>4, <1>5, <1>6, <1>7
<1> QED BY <1>2, <1>9, <1>10, <1>11 DEF FeedInv

\* What a frame owes follows what is held, and nothing between the two is left.
LEMMA FeedTakes ==
  ASSUME Ready, FeedInv, Take
  PROVE  FeedInv'
<1> DEFINE c == req.sentEvents
           t == req.board.tick
           o == Taken(EventsSince(events, c), t)
           v == After(o, c)
           h == Held
<1>1. /\ events \in Seq(Event) /\ InOrder(events) /\ req \in Request /\ page \in Page
      /\ \A i \in 1..Len(events) : InSeq(events[i], happened)
  BY DEF Ready, BuffersAre, BufferInv, ShownType
<1>2. c \in Nat /\ t \in Nat /\ Tick \in Nat
  BY <1>1, NowIs DEF Request, Frame, Ready
<1>3. o \in Seq(Event) /\ InOrder(o)
      /\ \A x : InSeq(x, o) <=> InSeq(x, events) /\ x.tick >= c /\ x.tick < t
  BY <1>1, <1>2, TakenIs
<1>4. req' = [req EXCEPT !.owed = o, !.sentEvents = v] /\ page' = page /\ UNCHANGED matchVars
      /\ \/ at = "first" /\ at' = "init"
         \/ at = "take" /\ at' = "tick"
  BY DEF Take, Handler
<1> HIDE DEF o
<1>5. /\ v \in Nat /\ \A i \in 1..Len(o) : o[i].tick < v
      /\ \/ v = c /\ o = <<>>
         \/ \E i \in 1..Len(o) : v = o[i].tick + 1
  BY <1>2, <1>3, AfterIs
<1> HIDE DEF v
<1>6. /\ req'.owed = o /\ req'.sentEvents = v
      /\ req'.board = req.board /\ req'.feed = req.feed
  BY <1>1, <1>4 DEF Request
<1>7. h = (IF at = "first" THEN req.feed ELSE page.feed) /\ h \in Seq(Event) /\ Cursor = c
  BY <1>1, <1>4 DEF Held, Cursor, Request, Page
<1>8. Held' = h \o o /\ Cursor' = v /\ Frontier' = t
  BY <1>4, <1>6, <1>7 DEF Held, Cursor, Frontier
<1>9. /\ InOrder(h)
      /\ \A i \in 1..Len(h) : InSeq(h[i], happened) /\ h[i].tick < c
      /\ \A i \in 1..Len(events) : events[i].tick < c => Shown(events[i])
      /\ c <= t /\ t <= Tick
  BY <1>4, <1>7 DEF FeedInv
<1>10. ASSUME NEW e PROVE Shown(e) => InSeq(e, h) \/ (at' = "tick" /\ page.dropped /\ h # <<>> /\ h[1].tick >= e.tick)
  BY <1>4, <1>7 DEF Shown
<1> HIDE DEF h, c, t
<1>11. Tick' = Tick /\ happened' = happened /\ events' = events
  BY <1>4 DEF matchVars, Tick
<1>12. \A i \in 1..Len(o) : o[i].tick \in Nat /\ o[i].tick >= c /\ o[i].tick < t /\ InSeq(o[i], happened)
  <2>1. \A i \in 1..Len(o) : InSeq(o[i], o)
    BY DEF InSeq
  <2>3. \A x : InSeq(x, events) => InSeq(x, happened)
    BY <1>1 DEF InSeq
  <2>2. \A i \in 1..Len(o) : InSeq(o[i], happened)
    BY <1>3, <2>1, <2>3
  <2> QED BY <1>3, <2>1, <2>2, EventAt
<1>13. c <= v /\ v <= t
  BY <1>2, <1>5, <1>9, <1>12
<1>14. \A i \in 1..Len(h) : h[i].tick \in Nat
  BY <1>7, EventAt
<1>15. \A i \in 1..Len(h), j \in 1..Len(o) : Later(h[i], o[j])
  BY <1>2, <1>9, <1>12, <1>14 DEF Later
<1> DEFINE g == h \o o
<1>16. /\ g \in Seq(Event) /\ InOrder(g)
       /\ \A x : InSeq(x, g) <=> InSeq(x, h) \/ InSeq(x, o)
       /\ h # <<>> => g # <<>> /\ g[1] = h[1]
  BY <1>3, <1>7, <1>9, <1>15, JoinIs
<1>17. Held' = g
  BY <1>8
<1> HIDE DEF g
<1>18. \A x : InSeq(x, g) => InSeq(x, happened) /\ x.tick < v
  <2>1. \A x : InSeq(x, h) => InSeq(x, happened) /\ x.tick < v
    BY <1>2, <1>5, <1>9, <1>13, <1>14 DEF InSeq
  <2>2. \A x : InSeq(x, o) => InSeq(x, happened) /\ x.tick < v
    BY <1>5, <1>12 DEF InSeq
  <2> QED BY <1>16, <2>1, <2>2
<1>19. InOrder(Held)' /\ \A i \in 1..Len(Held') : InSeq(Held'[i], happened') /\ Held'[i].tick < Cursor'
  <2>1. \A i \in 1..Len(g) : InSeq(g[i], happened) /\ g[i].tick < v
    BY <1>18 DEF InSeq
  <2> QED BY <1>8, <1>11, <1>16, <1>17, <2>1 DEF InOrder
<1>20. \A i \in 1..Len(events) : events[i].tick \in Nat /\ InSeq(events[i], events)
  BY <1>1, EventAt DEF InSeq
<1>21. ASSUME NEW i \in 1..Len(events), events[i].tick < t PROVE events[i].tick < v
  <2>1. CASE events[i].tick < c
    BY <1>2, <1>5, <1>13, <1>20, <2>1
  <2>2. CASE ~(events[i].tick < c)
    <3> DEFINE e == events[i]
    <3>0. InSeq(e, events) /\ e.tick >= c /\ e.tick < t
      BY <1>2, <1>20, <1>21, <2>2
    <3> HIDE DEF e
    <3>2. InSeq(e, o)
      BY <1>3, <3>0
    <3>1. InSeq(events[i], o)
      BY <3>2 DEF e
    <3> QED BY <1>5, <3>1 DEF InSeq
  <2> QED BY <2>1, <2>2
<1>22. ASSUME NEW i \in 1..Len(events), events[i].tick < v PROVE Shown(events[i])'
  <2> DEFINE e == events[i]
  <2>1. CASE e.tick < c
    <3>1. InSeq(e, h) \/ (at' = "tick" /\ page.dropped /\ h # <<>> /\ h[1].tick >= e.tick)
      BY <1>9, <1>10, <2>1
    <3>2. InSeq(e, g) \/ (at' = "tick" /\ page'.dropped /\ g # <<>> /\ g[1].tick >= e.tick)
      BY <1>4, <1>16, <3>1
    <3> HIDE DEF e
    <3>3. InSeq(e, Held)' \/ (at' = "tick" /\ page'.dropped /\ Held' # <<>> /\ Held'[1].tick >= e.tick)
      <4>1. InSeq(e, g) <=> \E j \in 1..Len(Held') : Held'[j] = e
        BY <1>17 DEF InSeq
      <4> QED BY <1>11, <1>17, <3>2, <4>1 DEF e, InSeq
    <3> QED BY <1>11, <3>3 DEF Shown, e
  <2>2. CASE ~(e.tick < c)
    <3>1. e.tick < t
      BY <1>2, <1>5, <1>13, <1>20, <1>22
    <3>2. InSeq(e, g)
      BY <1>2, <1>3, <1>16, <1>20, <2>2, <3>1
    <3> QED BY <1>11, <1>17, <3>2 DEF Shown, InSeq
  <2> QED BY <2>1, <2>2
<1>23. \A i \in 1..Len(events') : events'[i].tick < Cursor' => Shown(events[i])'
  BY <1>8, <1>11, <1>22
<1>24. Cursor' \in Nat /\ Cursor' <= Tick' /\ Cursor' <= req'.board.tick /\ req'.board.tick <= Tick'
  BY <1>2, <1>5, <1>6, <1>8, <1>9, <1>11, <1>13 DEF t
<1>25. /\ Cursor' <= Frontier' /\ Frontier' \in Nat /\ Frontier' <= Tick'
       /\ \A i \in 1..Len(events') : events'[i].tick < Frontier' => events'[i].tick < Cursor'
  BY <1>2, <1>8, <1>9, <1>11, <1>13, <1>21
<1> QED BY <1>4, <1>19, <1>23, <1>24, <1>25 DEF FeedInv
\* An init frame puts the backlog where the handler had it.
LEMMA FeedSendsInit ==
  ASSUME Ready, FeedInv, SendInit
  PROVE  FeedInv'
<1>1. req \in Request /\ page \in Page
  BY DEF Ready, ShownType
<1>2. at = "init" /\ at' = "tick" /\ req' = req /\ UNCHANGED matchVars
      /\ page' = [page EXCEPT !.feed = req.feed, !.dropped = Len(req.feed) >= EventCap,
                              !.series = Drawn(req.hist, page.snap)]
  BY DEF SendInit, Handler
<1>3. page'.feed = req.feed
  BY <1>1, <1>2 DEF Page
<1>4. Held' = Held /\ Cursor' = Cursor /\ Frontier' = Frontier
  <2>1. at = "init" /\ at' = "tick" /\ req' = req
    BY <1>2
  <2>2. Held = req.feed \o req.owed /\ Cursor = req.sentEvents /\ Frontier = req.board.tick
    BY <2>1 DEF Held, Cursor, Frontier
  <2>3. Held' = page'.feed \o req'.owed /\ Cursor' = req'.sentEvents /\ Frontier' = req'.board.tick
    BY <2>1 DEF Held, Cursor, Frontier
  <2> QED BY <1>3, <2>1, <2>2, <2>3
<1>5. happened' = happened /\ events' = events /\ Tick' = Tick
  BY <1>2 DEF matchVars, Tick
<1>6. /\ InOrder(Held)
      /\ \A i \in 1..Len(Held) : InSeq(Held[i], happened) /\ Held[i].tick < Cursor
      /\ Cursor \in Nat /\ Cursor <= Tick
      /\ \A i \in 1..Len(events) : events[i].tick < Cursor => InSeq(events[i], Held)
      /\ Cursor <= req.board.tick /\ req.board.tick <= Tick
      /\ Cursor <= Frontier /\ Frontier \in Nat /\ Frontier <= Tick
      /\ \A i \in 1..Len(events) : events[i].tick < Frontier => events[i].tick < Cursor
  BY <1>2 DEF FeedInv, Shown
<1>7. \A i \in 1..Len(events') : events'[i].tick < Cursor' => Shown(events[i])'
  BY <1>4, <1>5, <1>6 DEF Shown, InSeq
<1>8. InOrder(Held)' /\ \A i \in 1..Len(Held') : InSeq(Held'[i], happened') /\ Held'[i].tick < Cursor'
  BY <1>4, <1>5, <1>6 DEF InOrder
<1> HIDE DEF Held, Cursor, Frontier, Tick
<1> QED BY <1>2, <1>4, <1>5, <1>6, <1>7, <1>8 DEF FeedInv

\* A tick frame puts what it owes there, and what the page trims is older than what it keeps.
LEMMA FeedSendsTick ==
  ASSUME Ready, FeedInv, SendTick
  PROVE  FeedInv'
<1> DEFINE g    == page.feed \o req.owed
           over == Len(g) > EventCap + FeedSlack
           f    == IF over THEN Newest(g, EventCap) ELSE g
<1>1. req \in Request /\ page \in Page /\ page.feed \in Seq(Event) /\ req.owed \in Seq(Event)
      /\ events \in Seq(Event)
  BY DEF Ready, ShownType, BuffersAre, Request, Page
<1>0. at = "tick" /\ at' \in {"loop", "end"} /\ req' = req /\ page'.feed = f
  BY DEF SendTick, Handler
<1>2. /\ at = "tick" /\ at' \in {"loop", "end"} /\ req' = req /\ UNCHANGED matchVars
      /\ page'.snap = req.board /\ page'.feed = f /\ page'.dropped = (page.dropped \/ over)
  BY DEF SendTick, Handler
<1>h. Held = g
  BY <1>2 DEF Held
<1> HIDE DEF f
<1>3. Held = g /\ Held' = f /\ Cursor' = Cursor /\ Frontier' = Frontier
  BY <1>0, <1>h DEF Held, Cursor, Frontier
<1> USE DEF f
<1>4. happened' = happened /\ events' = events /\ Tick' = Tick
  BY <1>2 DEF matchVars, Tick
<1>5. /\ InOrder(g)
      /\ \A i \in 1..Len(g) : InSeq(g[i], happened) /\ g[i].tick < Cursor
      /\ Cursor \in Nat /\ Cursor <= Tick
      /\ Cursor <= req.board.tick /\ req.board.tick <= Tick
      /\ Cursor <= Frontier /\ Frontier \in Nat /\ Frontier <= Tick
      /\ \A i \in 1..Len(events) : events[i].tick < Frontier => events[i].tick < Cursor
  BY <1>2, <1>3 DEF FeedInv
<1>6. \A i \in 1..Len(events) : events[i].tick < Cursor =>
         InSeq(events[i], g) \/ (page.dropped /\ g # <<>> /\ g[1].tick >= events[i].tick)
  BY <1>2, <1>3 DEF FeedInv, Shown
<1>7. g \in Seq(Event) /\ Len(g) \in Nat /\ \A i \in 1..Len(g) : g[i].tick \in Nat
  BY <1>1, JoinIs, EventAt
<1>8. \A i \in 1..Len(events) : events[i].tick \in Nat
  BY <1>1, EventAt
<1> HIDE DEF g, Cursor, Held, Frontier
<1>9. /\ InOrder(f)
      /\ \A i \in 1..Len(f) : InSeq(f[i], g)
      /\ \A i \in 1..Len(events) : events[i].tick < Cursor =>
           InSeq(events[i], f) \/ ((page.dropped \/ over) /\ f # <<>> /\ f[1].tick >= events[i].tick)
  <2>1. CASE ~over
    BY <1>5, <1>6, <2>1 DEF InSeq
  <2>2. CASE over
    <3> DEFINE p == Newest(g, EventCap)
    <3>0. EventCap \in Nat \ {0} /\ FeedSlack \in Nat
      BY StreamAssumption
    <3>1. g # <<>>
      BY <1>7, <2>2, <3>0
    <3>2. /\ p \in Seq(Event) /\ InOrder(p) /\ p # <<>>
          /\ \E d \in 0..Len(g) : /\ Len(p) = Len(g) - d
                                  /\ \A i \in 1..Len(p) : d + i \in 1..Len(g) /\ p[i] = g[d + i]
      BY <1>5, <1>7, <3>0, <3>1, NewestIs
    <3>3. f = p
      BY <2>2
    <3> HIDE DEF p, f, over
    <3>4. PICK d \in 0..Len(g) : /\ Len(p) = Len(g) - d
                                 /\ \A i \in 1..Len(p) : d + i \in 1..Len(g) /\ p[i] = g[d + i]
      BY <3>2
    <3>5. 1 \in 1..Len(p) /\ p[1] = g[d + 1] /\ d + 1 \in 1..Len(g)
      <4>1. Len(p) \in Nat /\ Len(p) # 0
        BY <3>2, LenProperties, EmptySeq
      <4> QED BY <3>4, <4>1
    <3>6. \A i \in 1..Len(p) : InSeq(p[i], g)
      BY <3>4 DEF InSeq
    <3>7. ASSUME NEW k \in 1..Len(g), k <= d + 1 PROVE g[k].tick <= g[d + 1].tick
      <4>1. CASE k = d + 1
        BY <1>7, <3>5, <4>1
      <4>2. CASE k < d + 1
        <5>1. Later(g[k], g[d + 1])
          BY <1>5, <3>5, <4>2 DEF InOrder
        <5> QED BY <1>7, <3>5, <5>1 DEF Later
      <4> QED BY <1>7, <3>4, <3>7, <4>1, <4>2
    <3>8. ASSUME NEW k \in 1..Len(g) PROVE InSeq(g[k], p) \/ p[1].tick >= g[k].tick
      <4>1. CASE k <= d + 1
        BY <1>7, <3>5, <3>7, <4>1
      <4>2. CASE ~(k <= d + 1)
        <5>1. k - d \in 1..Len(p) /\ d + (k - d) = k
          BY <1>7, <3>4, <4>2
        <5>2. p[k - d] = g[k]
          BY <3>4, <5>1
        <5> QED BY <5>1, <5>2 DEF InSeq
      <4> QED BY <4>1, <4>2
    <3>9. ASSUME NEW i \in 1..Len(events), events[i].tick < Cursor
          PROVE  InSeq(events[i], p) \/ p[1].tick >= events[i].tick
      <4>1. CASE InSeq(events[i], g)
        BY <3>8, <4>1 DEF InSeq
      <4>2. CASE g # <<>> /\ g[1].tick >= events[i].tick
        <5>1. 1 \in 1..Len(g) /\ 1 <= d + 1
          BY <1>7, <3>4, <3>5
        <5>2. g[1].tick <= g[d + 1].tick
          BY <3>7, <5>1
        <5> QED BY <1>7, <1>8, <3>5, <4>2, <5>1, <5>2
      <4> QED BY <1>6, <3>9, <4>1, <4>2
    <3> QED BY <2>2, <3>2, <3>3, <3>6, <3>9
  <2> QED BY <2>1, <2>2
<1> HIDE DEF f, over
<1>10. InOrder(Held)' /\ \A i \in 1..Len(Held') : InSeq(Held'[i], happened') /\ Held'[i].tick < Cursor'
  <2>1. \A i \in 1..Len(f) : InSeq(f[i], happened) /\ f[i].tick < Cursor
    BY <1>5, <1>9 DEF InSeq
  <2> QED BY <1>3, <1>4, <1>9, <2>1 DEF InOrder
<1>11. \A i \in 1..Len(events') : events'[i].tick < Cursor' => Shown(events[i])'
  BY <1>2, <1>3, <1>4, <1>9 DEF Shown, InSeq
<1> HIDE DEF Tick
<1> QED BY <1>2, <1>3, <1>4, <1>5, <1>10, <1>11 DEF FeedInv

\* Between the frames.
LEMMA FeedPolls ==
  ASSUME Ready, FeedInv, Poll \/ Snapshot
  PROVE  FeedInv'
<1>1. /\ req \in Request /\ UNCHANGED <<matchVars, page>>
      /\ Tick \in Nat /\ Made(made, Tick).tick = Tick
  BY NowIs DEF Ready, ShownType, Poll, Snapshot, Handler
<1>2. happened' = happened /\ events' = events /\ Tick' = Tick
  BY <1>1 DEF matchVars, Tick
<1>3. /\ at \in {"loop", "snapshot"} /\ at' \in {"loop", "snapshot", "take", "end"}
      /\ req'.sentEvents = req.sentEvents
      /\ \/ req'.board = req.board /\ at' # "take"
         \/ req'.board.tick = Tick /\ at' = "take"
  <2>1. CASE Poll
    <3>1. req' = [req EXCEPT !.finished = Finished] /\ at = "loop" /\ at' = "snapshot"
      BY <2>1 DEF Poll, Handler
    <3> QED BY <1>1, <3>1 DEF Request
  <2>2. CASE Snapshot /\ Tick # req.board.tick
    <3>1. req' = [req EXCEPT !.board = Made(made, Tick)] /\ at = "snapshot" /\ at' = "take"
      BY <2>2 DEF Snapshot, Handler
    <3> QED BY <1>1, <3>1 DEF Request
  <2>3. CASE Snapshot /\ Tick = req.board.tick
    BY <2>3 DEF Snapshot, Handler
  <2> QED BY <2>1, <2>2, <2>3
<1>4. page.snap = req.board
  BY <1>3 DEF Ready, EndInv
<1>5. Held = page.feed /\ Cursor = req.sentEvents /\ Frontier = req.board.tick
      /\ Held' = Held /\ Cursor' = Cursor /\ Frontier' = Frontier
  BY <1>1, <1>3, <1>4 DEF Held, Cursor, Frontier
<1>6. /\ InOrder(Held)
      /\ \A i \in 1..Len(Held) : InSeq(Held[i], happened) /\ Held[i].tick < Cursor
      /\ Cursor \in Nat /\ Cursor <= Tick
      /\ \A i \in 1..Len(events) : events[i].tick < Cursor =>
            InSeq(events[i], Held) \/ (page.dropped /\ Held # <<>> /\ Held[1].tick >= events[i].tick)
      /\ Cursor <= req.board.tick /\ req.board.tick <= Tick
      /\ Cursor <= Frontier /\ Frontier \in Nat /\ Frontier <= Tick
      /\ \A i \in 1..Len(events) : events[i].tick < Frontier => events[i].tick < Cursor
  BY <1>3 DEF FeedInv, Shown
<1>7. \A i \in 1..Len(events') : events'[i].tick < Cursor' => Shown(events[i])'
  BY <1>1, <1>2, <1>3, <1>5, <1>6 DEF Shown, InSeq
<1>8. InOrder(Held)' /\ \A i \in 1..Len(Held') : InSeq(Held'[i], happened') /\ Held'[i].tick < Cursor'
  BY <1>2, <1>5, <1>6 DEF InOrder
<1>9. Cursor' <= req'.board.tick /\ req'.board.tick <= Tick'
  BY <1>1, <1>2, <1>3, <1>5, <1>6
<1> HIDE DEF Held, Cursor, Frontier, Tick
<1> QED BY <1>2, <1>3, <1>5, <1>6, <1>7, <1>8, <1>9 DEF FeedInv

ShowInv == StreamInv /\ BuffersAre /\ ShownType /\ FeedInv

LEMMA ShowInvInit == Init => ShowInv
<1>1. Init => FeedInv
  BY DEF Init, FeedInv
<1> QED BY <1>1, StreamInvInit, BuffersInit, ShownInit DEF ShowInv

LEMMA ShowInvNext == ShowInv /\ [Next]_vars => ShowInv'
<1> SUFFICES ASSUME ShowInv, [Next]_vars PROVE ShowInv'
  OBVIOUS
<1>1. Ready /\ FeedInv /\ StreamInv
  BY DEF ShowInv, Ready, StreamInv
<1>2. StreamInv' /\ BuffersAre' /\ ShownType'
  BY <1>1, StreamInvNext, NextOfBuffers, ShownNext DEF Ready
<1>3. ASSUME Connect \/ SendEnd \/ Probe \/ Close \/ HangUp \/ Crash \/ Exit PROVE FeedInv'
  <2>1. at' \in {"feed", "away", "over", "gone"}
    BY <1>3 DEF Connect, SendEnd, Probe, Close, HangUp, Crash, Exit, Down, Handler
  <2> QED BY <2>1 DEF FeedInv
<1>4. ASSUME Stop \/ Boot \/ UNCHANGED vars PROVE FeedInv'
  <2>1. UNCHANGED <<matchVars, at, req, page>>
    BY <1>4 DEF Stop, Boot, vars
  <2> QED BY <1>1, <2>1, FeedStutters
<1>5. FeedInv'
  BY <1>1, <1>3, <1>4, FeedTicks, FeedBegins, FeedBoards, FeedTakes, FeedPolls, FeedSendsInit,
     FeedSendsTick DEF Next, StreamStep, PageStep
<1> QED BY <1>2, <1>5 DEF ShowInv

\* The server's history covers the whole match at its interval, within its cap, whatever
\* was decimated and however often the match was replayed (history.go sample, everySecond).
THEOREM TheHistoryIsEven == Spec => []HistoryEven
<1>1. ShowInv => HistoryEven
  BY DEF ShowInv, BuffersAre, HistoryInv, Even, HistoryEven
<1> QED BY ShowInvInit, ShowInvNext, <1>1, PTL DEF Spec

\* The page's graph never goes back or repeats a point (graph.js seriesAppend, seriesReset).
THEOREM TheGraphAscends == Spec => []SeriesAscends
<1>1. ShowInv => SeriesAscends
  BY DEF ShowInv, ShownType, SeriesAscends
<1> QED BY ShowInvInit, ShowInvNext, <1>1, PTL DEF Spec

\* What a page that is watching shows of the feed is this world's, in order and once
\* (stream.go Stream, takeEvents; match.js feedReset, feedAdd).
THEOREM TheFeedIsTheWorlds == Spec => []FeedIsTheWorlds
<1>1. ShowInv => FeedIsTheWorlds
  <2> SUFFICES ASSUME ShowInv, Watching PROVE FeedIsTheWorlds
    BY DEF FeedIsTheWorlds
  <2>1. Held = page.feed
    BY DEF Watching, Held
  <2>2. InOrder(page.feed) /\ \A i \in 1..Len(page.feed) : InSeq(page.feed[i], happened)
    BY <2>1 DEF ShowInv, FeedInv, Watching
  <2> QED BY <2>2 DEF FeedIsTheWorlds, InOrder, Later
<1> QED BY ShowInvInit, ShowInvNext, <1>1, PTL DEF Spec

\* A frame never shows an event before its tick is over, and owes none the server still
\* has, over the two reads of the match's lock it is made from (stream.go takeEvents).
THEOREM TheFrameOwesNothing == Spec => []FrameOwesNothing
<1>1. ShowInv => FrameOwesNothing
  <2> SUFFICES ASSUME ShowInv, Watching PROVE FrameOwesNothing
    BY DEF FrameOwesNothing
  <2>1. Held = page.feed /\ Frontier = page.snap.tick
    BY DEF Watching, Held, Frontier, ShowInv, StreamInv, EndInv
  <2>2. /\ \A i \in 1..Len(page.feed) : page.feed[i].tick < Cursor
        /\ Cursor \in Nat /\ Cursor <= page.snap.tick /\ page.snap.tick \in Nat
        /\ \A i \in 1..Len(events) : events[i].tick < Cursor => Shown(events[i])
        /\ \A i \in 1..Len(events) : events[i].tick < page.snap.tick => events[i].tick < Cursor
    BY <2>1 DEF ShowInv, FeedInv, Watching
  <2>3. \A i \in 1..Len(page.feed) : page.feed[i].tick \in Nat
    BY EventAt DEF ShowInv, ShownType, Page
  <2>4. \A i \in 1..Len(page.feed) : page.feed[i].tick < page.snap.tick
    BY <2>2, <2>3
  <2>5. ASSUME NEW i \in 1..Len(events), events[i].tick < page.snap.tick
        PROVE  \/ InSeq(events[i], page.feed)
               \/ page.dropped /\ page.feed # <<>> /\ page.feed[1].tick >= events[i].tick
    BY <2>1, <2>2, <2>5 DEF Shown
  <2> QED BY <2>4, <2>5 DEF FrameOwesNothing
<1> QED BY ShowInvInit, ShowInvNext, <1>1, PTL DEF Spec
=============================================================================
