------------------------------- MODULE MCServer -------------------------------
(* Three parts that share no state, on small instances; a behaviour plays one of *)
(* them while the others rest in an initial state.                              *)
(*   server    Server.tla: two users, two requests in flight, a match of two     *)
(*             ticks with one command                                           *)
(*   sessions  Sessions.tla: two browsers, two tokens                           *)
(*   library   Library.tla: a player's programs on their way to the robots, with *)
(*             two program rows, three saves, a robot and two requests in flight *)
EXTENDS Server, Sessions, Library, TLC

CONSTANTS MaxSaves, MaxId, SaveName   \* bounds of the library

VARIABLE part

MCInit ==
  /\ part \in {"server", "sessions", "library"}
  /\ Init /\ SessionInit /\ LibraryInit
  /\ part # "server" => settings.ai = <<>> /\ settings.max = 1

\* How many saves, of how many rows, and one name to rename a row to.  Deletes are
\* bounded by the first two.
LibraryBound ==
  /\ saves' <= MaxSaves /\ lastId' <= MaxId
  /\ \A q \in Callers : calls'[q].op = "save" => calls'[q].name = SaveName

PlayServer == part = "server" /\ Next /\ UNCHANGED <<sessionVars, libraryVars>>

PlaySessions == part = "sessions" /\ SessionNext /\ UNCHANGED <<vars, libraryVars>>

PlayLibrary ==
  part = "library" /\ LibraryNext /\ LibraryBound /\ UNCHANGED <<vars, sessionVars>>

MCNext == (PlayServer \/ PlaySessions \/ PlayLibrary) /\ UNCHANGED part

MCSpec == MCInit /\ [][MCNext]_<<vars, sessionVars, libraryVars, part>>

\* Requests are interchangeable, those of the lobby as those of the library.  Browsers
\* and tokens are too, but the permutations would cost more than they save.
Symmetry == Permutations(Requests) \cup Permutations(Callers)
==============================================================================
