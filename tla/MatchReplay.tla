----------------------------- MODULE MatchReplay -----------------------------
(***************************************************************************)
(* A finished match watched back: the replay handler with its private      *)
(* match, and the page, every control of which is a reconnect.             *)
(*                                                                         *)
(*   internal/lobby/archive.go   Service.Replay                            *)
(*   internal/server/replay.go   Replay                                    *)
(*   web/js/match.js             reopen, connect in replay mode            *)
(*                                                                         *)
(* The frames and the page are MatchStream's: "exactly the frames of the   *)
(* live stream".  The private match has no driver: it stands at the tick   *)
(* of the last board, and its feed and history are re-derived up to there. *)
(* The record is taken to be whole and this build's own.                   *)
(***************************************************************************)
EXTENDS MatchStream

\* A match of EndTick ticks is in the history; the page has not connected.
ReplayInit ==
  /\ made = [t \in 1..EndTick |-> 1]
  /\ \E busy \in [1..EndTick -> TickEvents] :
       LET h[t \in 0..EndTick] ==
             IF t = 0 THEN <<>>
             ELSE h[t - 1] \o [i \in 1..busy[t] |-> [tick |-> t - 1, life |-> 1, n |-> i]]
       IN happened = h[EndTick]
  /\ events = RederivedEvents(happened, EndTick) /\ history = Rederived(made, EndTick)
  /\ life = 1 /\ up = TRUE /\ live = FALSE /\ stopping = FALSE
  /\ at = "away" /\ req = NoLocals
  /\ page = [snap |-> NoSnap, feed |-> <<>>, dropped |-> FALSE, series |-> Dawn]
  /\ drops = 0

\* Play, a scrub, a step or another speed: the page closes its source and
\* reconnects, and Service.Replay rebuilds the match up to the tick asked for.
Reopen(from) ==
  /\ at \in {"away", "next", "over"} /\ drops <= MaxDrops /\ ~stopping
  /\ LET backlog == RederivedEvents(happened, from) IN
     req' = [hist |-> Rederived(made, from), feed |-> backlog, board |-> Made(made, from),
             sentEvents |-> After(backlog, 0), owed |-> <<>>, finished |-> from >= EndTick]
  /\ at' = "init" /\ drops' = drops + 1
  /\ UNCHANGED <<matchVars, procVars, page>>

\* The handler's ticker: one tick further, and one frame.
ReplayTick ==
  /\ Handler("next", "tick")
  /\ LET t    == req.board.tick + 1
         tail == EventsSince(RederivedEvents(happened, t), req.sentEvents)
         owed == Taken(tail, t) IN
     req' = [req EXCEPT !.board = Made(made, t), !.owed = owed,
                        !.sentEvents = After(owed, @), !.finished = t >= EndTick]
  /\ UNCHANGED page

\* After a frame the handler waits for its ticker, or says it has reached the
\* end.
ReplaySent == SendTick \/ (Handler("loop", "next") /\ UNCHANGED <<req, page>>)

ReplayClose ==
  /\ stopping /\ Handler("next", "away")
  /\ req' = NoLocals /\ UNCHANGED page

ReplayNext ==
  \/ \E from \in 0..EndTick : Reopen(from)
  \/ SendInit \/ ReplaySent \/ ReplayTick \/ SendEnd \/ ReplayClose \/ Stop

ReplaySpec == ReplayInit /\ [][ReplayNext]_vars

-----------------------------------------------------------------------------
\* "The server's series is authoritative and covers the whole match, so a
\* reconnect adopts it rather than keeping whatever this page observed"
\* (match.js:2761): once the first board after a reconnect is on screen, no point
\* of the graph is ahead of it.
GraphFollowsTheBoard ==
  at \in {"loop", "next", "end"} =>
    \A i \in 1..Len(page.series.points) : page.series.points[i].tick <= page.snap.tick
=============================================================================
