----------------------------- MODULE MatchStream -----------------------------
(***************************************************************************)
(* A running match and one spectator of it: the event feed and the sampled *)
(* history that the tick driver fills, the handler that streams them, and  *)
(* the page that puts them together, over lost connections and restarts.   *)
(*                                                                         *)
(*   internal/lobby/events.go    collectEvents, Events: the bounded feed   *)
(*   internal/lobby/history.go   sample, decimate: the bounded history     *)
(*   internal/server/stream.go   Stream, takeEvents                        *)
(*   web/js/match.js, graph.js   connect, feedReset, feedAdd, seriesAppend *)
(*                                                                         *)
(* Every read of the match takes its lock anew, so the driver may tick     *)
(* between any two of them: each is a step of its own.  Spectators share   *)
(* nothing but the match, which they only read, so one is enough.          *)
(*                                                                         *)
(* What is abstracted.  What happened during a tick is known by the tick   *)
(* and the life of the process that made it: a world rewound by a crash    *)
(* makes other ticks after the ones it kept.  The rest of a frame is its   *)
(* tick.  How a crash picks the tick to resume from is Match.tla's; here   *)
(* it is any of the last Rewind ticks (Match!RewindBound).                 *)
(***************************************************************************)
EXTENDS Naturals, Sequences

CONSTANTS
  EndTick,       \* Settings.durationTicks
  HistoryEvery,  \* historyEvery: the base sampling interval
  HistoryCap,    \* historyCap: samples kept by the server
  GraphMax,      \* GRAPH_MAX: samples kept by the page
  EventCap,      \* eventCap and EVENT_CAP: events kept by the server
  FeedSlack,     \* how far the page's list may outgrow EVENT_CAP
  Rewind,        \* ticks a crash may cost
  NoSnap,        \* "the page has had no tick frame yet"
  TickEvents,    \* bound: how many events a tick may have
  MaxDrops,      \* bound: connections lost
  MaxStops       \* bound: stops of the process

ASSUME StreamAssumption ==
  /\ EndTick \in Nat \ {0} /\ HistoryEvery \in Nat \ {0}
  /\ HistoryCap \in Nat \ {0} /\ GraphMax \in Nat \ {0} /\ EventCap \in Nat \ {0}
  /\ FeedSlack \in Nat /\ Rewind \in Nat
  /\ TickEvents \subseteq Nat /\ MaxDrops \in Nat /\ MaxStops \in Nat

VARIABLES
  made,      \* made[t]: the life of the process that made tick t; Len is World.Tick
  happened,  \* every event of this world, oldest first
  events,    \* Match.events: the ones the feed still has
  history,   \* Match.history
  life,      \* which life of the process this is
  up,        \* the process runs, and Restore is done
  live,      \* the match is in the registry
  stopping,  \* Stream's stopping channel is closed
  at,        \* where the handler and its page are
  req,       \* the handler's locals
  page,      \* the page's variables
  drops      \* connections lost so far

matchVars   == <<made, happened, events, history>>
procVars    == <<life, up, live, stopping>>
vars == <<matchVars, procVars, at, req, page, drops>>

Tick     == Len(made)
Finished == Tick >= EndTick

\* A tick of this world, with the life that made it; nobody made tick 0.
Made(m, t)  == [tick |-> t, life |-> IF t = 0 THEN 0 ELSE m[t]]
LastTick(s) == s[Len(s)].tick

-----------------------------------------------------------------------------
(* The two buffers of the match. *)

\* The last n of s.
Newest(s, n) == IF Len(s) <= n THEN s ELSE SubSeq(s, Len(s) - n + 1, Len(s))

\* collectEvents: past the cap the oldest fall off.
Collected(buffer, fresh) == Newest(buffer \o fresh, EventCap)

\* Mutant: the samples kept are the others.
EverySecondOdd(s) == [i \in 1..(Len(s) \div 2) |-> s[2 * i]]

\* everySecond: elements 0, 2, 4, ... of the Go slice.
EverySecond(s) == [i \in 1..((Len(s) + 1) \div 2) |-> s[2 * i - 1]]

\* append and decimate: the server's sample and the page's seriesAppend agree on
\* this, each with its own cap.
Appended(h, p, cap) ==
  LET grown == Append(h.points, p) IN
  IF Len(grown) > cap THEN [interval |-> h.interval * 2, points |-> EverySecond(grown)]
                      ELSE [interval |-> h.interval, points |-> grown]

\* sample, at tick t of the world m.
Sampled(h, m, t) ==
  IF t % h.interval = 0 THEN Appended(h, Made(m, t), HistoryCap) ELSE h

\* The history newMatch starts with, and the one a replay to tick t re-derives
\* by stepping.
Dawn == Sampled([interval |-> HistoryEvery, points |-> <<>>], <<>>, 0)
Rederived(m, t) ==
  LET h[k \in 0..t] == IF k = 0 THEN Dawn ELSE Sampled(h[k - 1], m, k) IN h[t]

\* How many events come before the first one stamped t or later.
Before(s, t) ==
  CHOOSE n \in 0..Len(s) :
    (\A i \in 1..n : s[i].tick < t) /\ (n < Len(s) => s[n + 1].tick >= t)

RederivedEvents(h, t) == Newest(SubSeq(h, 1, Before(h, t)), EventCap)

\* Match.Events(since), a binary search for the first one stamped so.
EventsSince(buffer, since) == SubSeq(buffer, Before(buffer, since) + 1, Len(buffer))

\* takeEvents: what the frame at tick t owes of them, from ticks it has advanced
\* past; it breaks off at the first of another.
Taken(tail, t) == SubSeq(tail, 1, Before(tail, t))

\* The cursor after taking s: off the events, never off the frame's tick.
After(s, since) == IF s = <<>> THEN since ELSE LastTick(s) + 1

-----------------------------------------------------------------------------
\* The handler's locals before it runs, and after it returns.
NoLocals ==
  [hist |-> Dawn, feed |-> <<>>, board |-> Made(<<>>, 0), sentEvents |-> 0,
   owed |-> <<>>, finished |-> FALSE]

Init ==
  /\ made = <<>> /\ happened = <<>> /\ events = <<>> /\ history = Dawn
  /\ life = 1 /\ up = TRUE /\ live = TRUE /\ stopping = FALSE
  /\ at = "away" /\ req = NoLocals
  /\ page = [snap |-> NoSnap, feed |-> <<>>, dropped |-> FALSE, series |-> Dawn]
  /\ drops = 0

\* Match.step: the events are stamped with the tick they happened during.
Step ==
  /\ up /\ live /\ ~Finished
  /\ made' = Append(made, life)
  /\ \E n \in TickEvents :
       LET fresh == [i \in 1..n |-> [tick |-> Tick, life |-> life, n |-> i]] IN
       /\ happened' = happened \o fresh
       /\ events' = Collected(events, fresh)
  /\ history' = Sampled(history, made', Tick + 1)
  /\ UNCHANGED <<procVars, at, req, page, drops>>

-----------------------------------------------------------------------------
(* Stream. *)

Handler(from, to) ==
  /\ up /\ at = from /\ at' = to
  /\ UNCHANGED <<matchVars, procVars, drops>>

\* The page connects, or connects again: reg.Get, Info and History.
Connect ==
  /\ live /\ ~stopping /\ Handler("away", "feed")
  /\ req' = [req EXCEPT !.hist = history]
  /\ UNCHANGED page

ReadFeed ==
  /\ Handler("feed", "board")
  /\ req' = [req EXCEPT !.feed = EventsSince(events, 0)]
  /\ UNCHANGED page

\* Mutant: the cursor is the first board's tick.
ReadBoardCursor ==
  /\ Handler("board", "first")
  /\ req' = [req EXCEPT !.board = Made(made, Tick), !.sentEvents = Tick]
  /\ UNCHANGED page

\* The first board; the cursor starts after the backlog.
ReadBoard ==
  /\ Handler("board", "first")
  /\ req' = [req EXCEPT !.board = Made(made, Tick), !.sentEvents = After(req.feed, 0)]
  /\ UNCHANGED page

\* Mutant: Finished is read after the snapshot.
TakeThenFinished ==
  /\ Handler("first", "init") \/ Handler("take", "tick")
  /\ LET owed == Taken(EventsSince(events, req.sentEvents), req.board.tick) IN
     req' = [req EXCEPT !.owed = owed, !.sentEvents = After(owed, req.sentEvents),
                        !.finished = Finished]
  /\ UNCHANGED page

\* takeEvents for the frame of req.board. What the world produced between the
\* reads of the feed and of the first board rides that first board.
Take ==
  /\ Handler("first", "init") \/ Handler("take", "tick")
  /\ LET owed == Taken(EventsSince(events, req.sentEvents), req.board.tick) IN
     req' = [req EXCEPT !.owed = owed, !.sentEvents = After(owed, req.sentEvents)]
  /\ UNCHANGED page

\* Finished is read before the snapshot.
Poll ==
  /\ Handler("loop", "snapshot")
  /\ req' = [req EXCEPT !.finished = Finished]
  /\ UNCHANGED page

\* Mutant: the end is only looked for behind a fresh frame.
SnapshotFreshOnly ==
  /\ \/ /\ Tick # req.board.tick
        /\ Handler("snapshot", "take")
        /\ req' = [req EXCEPT !.board = Made(made, Tick)]
     \/ /\ Tick = req.board.tick
        /\ Handler("snapshot", "loop")
        /\ UNCHANGED req
  /\ UNCHANGED page

Snapshot ==
  /\ \/ /\ Tick # req.board.tick
        /\ Handler("snapshot", "take")
        /\ req' = [req EXCEPT !.board = Made(made, Tick)]
     \/ /\ Tick = req.board.tick
        /\ Handler("snapshot", IF req.finished THEN "end" ELSE "loop")
        /\ UNCHANGED req
  /\ UNCHANGED page

\* Mutant: the handler watches the request's context alone.
CloseNever == Handler("loop", "away") /\ FALSE /\ UNCHANGED <<req, page>>

\* select on stopping: the body is closed, without an end frame.
Close ==
  /\ stopping /\ Handler("loop", "away")
  /\ req' = NoLocals
  /\ UNCHANGED page

-----------------------------------------------------------------------------
(* What the frames do to the page. *)

\* Mutant: a sampling tick is appended whatever the last point is.
DrawnAgain(h, s) ==
  IF s = NoSnap THEN h
  ELSE IF s.tick % h.interval # 0 THEN h ELSE Appended(h, s, GraphMax)

\* seriesAppend, at every render: a sampling tick newer than the last point.
Drawn(h, s) ==
  IF \/ s = NoSnap
     \/ s.tick % h.interval # 0
     \/ (h.points # <<>> /\ s.tick <= LastTick(h.points))
  THEN h ELSE Appended(h, s, GraphMax)

\* Mutant: the backlog is added to what the page holds.
SendInitAdds ==
  /\ Handler("init", "tick")
  /\ page' = [page EXCEPT !.feed = page.feed \o req.feed,
                          !.dropped = Len(req.feed) >= EventCap,
                          !.series = Drawn(req.hist, page.snap)]
  /\ UNCHANGED req

\* "init": feedReset and seriesReset adopt the server's copies, and the page is
\* rendered with the snapshot it still has.
SendInit ==
  /\ Handler("init", "tick")
  /\ page' = [page EXCEPT !.feed = req.feed, !.dropped = Len(req.feed) >= EventCap,
                          !.series = Drawn(req.hist, page.snap)]
  /\ UNCHANGED req

\* "tick": feedAdd, which trims the list in blocks, and the render.
SendTick ==
  /\ Handler("tick", IF req.finished THEN "end" ELSE "loop")
  /\ LET grown == page.feed \o req.owed
         over  == Len(grown) > EventCap + FeedSlack IN
     page' = [snap    |-> req.board,
              feed    |-> IF over THEN Newest(grown, EventCap) ELSE grown,
              dropped |-> page.dropped \/ over,
              series  |-> Drawn(page.series, req.board)]
  /\ UNCHANGED req

\* "end": the page closes its source for good.
SendEnd ==
  /\ Handler("end", "over")
  /\ req' = NoLocals
  /\ UNCHANGED page

\* The client goes away or a write fails: the handler returns.
HangUp ==
  /\ at \notin {"away", "over", "gone"} /\ drops < MaxDrops
  /\ at' = "away" /\ req' = NoLocals /\ drops' = drops + 1
  /\ UNCHANGED <<matchVars, procVars, page>>

\* The probe of the page's error handler: a match that is not in memory is over.
Probe ==
  /\ ~live /\ ~stopping /\ Handler("away", "gone")
  /\ UNCHANGED <<req, page>>

-----------------------------------------------------------------------------
(* The process. *)

\* The signal: Shutdown closes the listener and the stopping channel.
Stop ==
  /\ up /\ ~stopping /\ life <= MaxStops
  /\ stopping' = TRUE
  /\ UNCHANGED <<matchVars, life, up, live, at, req, page, drops>>

\* The process is gone, and the world is back at the tick on disk. Restore
\* re-derives both buffers by stepping.
Down(t) ==
  /\ made' = SubSeq(made, 1, t)
  /\ happened' = SubSeq(happened, 1, Before(happened, t))
  /\ events' = RederivedEvents(happened, t)
  /\ history' = Rederived(made', t)
  /\ up' = FALSE /\ live' = FALSE /\ stopping' = FALSE
  /\ at' = IF at \in {"over", "gone"} THEN at ELSE "away"
  /\ req' = NoLocals
  /\ UNCHANGED <<life, page, drops>>

Crash ==
  /\ up /\ life <= MaxStops
  /\ \E t \in 0..Tick : t + Rewind >= Tick /\ Down(t)

\* The drain is done, the driver has saved once more.
Exit == up /\ stopping /\ at \in {"away", "over", "gone"} /\ Down(Tick)

\* Restore, before the listener opens: a finished match is not put back.
Boot ==
  /\ ~up /\ up' = TRUE
  /\ live' = ~Finished /\ life' = life + 1
  /\ UNCHANGED <<matchVars, stopping, at, req, page, drops>>

-----------------------------------------------------------------------------
StreamStep == Connect \/ ReadFeed \/ ReadBoard \/ Poll \/ Snapshot \/ Take
PageStep   == SendInit \/ SendTick \/ SendEnd \/ Probe

Next == Step \/ StreamStep \/ PageStep \/ Close \/ HangUp \/ Stop \/ Crash \/ Exit \/ Boot

Spec == Init /\ [][Next]_vars

\* The driver's ticker, the handler's, the page's retry timer and the restart
\* policy go on for ever; a page that has not hung up reads what it is sent. Go's
\* select picks among the ready cases at random, so a closed stopping channel is
\* taken sooner or later although the ticker is always ready as well. A drain is
\* far shorter than a match, so it cannot count on the match to end by itself.
Fairness ==
  /\ WF_vars(~stopping /\ Step) /\ WF_vars(StreamStep \/ PageStep) /\ SF_vars(Close)
  /\ WF_vars(Exit) /\ WF_vars(Boot)

FairSpec == Spec /\ Fairness

-----------------------------------------------------------------------------
Watching == at \in {"loop", "snapshot", "take", "end"}

Ascending(s) == \A i, j \in 1..Len(s) : i < j => s[i].tick < s[j].tick
InSeq(x, s)  == \E i \in 1..Len(s) : s[i] = x

\* The feed the page holds is this world's own, in the order it happened in and
\* with nothing twice: no reconnect, restart or race of the reads repeats an
\* event or keeps one of a world that was rewound.
FeedIsTheWorlds ==
  Watching =>
    /\ \A i \in 1..Len(page.feed) : InSeq(page.feed[i], happened)
    /\ \A i, j \in 1..Len(page.feed) : i < j =>
         \/ page.feed[i].tick < page.feed[j].tick
         \/ page.feed[i].tick = page.feed[j].tick /\ page.feed[i].n < page.feed[j].n

\* No event is on the page before a frame that shows it, and none the server
\* still has is missing from it once one does - unless the page trimmed it. This
\* is takeEvents' promise across the two reads of the lock.
FrameOwesNothing ==
  Watching =>
    /\ \A i \in 1..Len(page.feed) : page.feed[i].tick < page.snap.tick
    /\ \A i \in 1..Len(events) :
         events[i].tick < page.snap.tick =>
           \/ InSeq(events[i], page.feed)
           \/ page.dropped /\ page.feed # <<>> /\ page.feed[1].tick >= events[i].tick

\* The end is announced under the final board; that the last tick's events are then on
\* the page is FrameOwesNothing's half.
EndIsFinal == at \in {"end", "over"} => page.snap.tick = EndTick

\* The server's history covers the whole match at its interval, whatever was
\* decimated, within its cap, and the next sample falls in step.
HistoryEven ==
  /\ Len(history.points) <= HistoryCap
  /\ Len(history.points) = (Tick \div history.interval) + 1
  /\ \A i \in 1..Len(history.points) :
       history.points[i] = Made(made, (i - 1) * history.interval)

\* The page's graph never goes back in time or repeats a point, the init frame's
\* history and the first board being two reads of the lock.
SeriesAscends == Ascending(page.series.points)

\* A spectator is told how it ended, over every lost connection and restart.
SpectatorSeesTheEnd == <>(at \in {"over", "gone"})

\* A signal ends the streams, so that the drain completes by itself: the timeout after
\* which the server would cut them is not modelled.
StopEndsStreams == stopping ~> ~stopping

=============================================================================
