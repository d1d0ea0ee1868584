------------------------------- MODULE MCMatch -------------------------------
(* Match.tla on small instances. *)
EXTENDS Match, TLC

\* Players and builds are interchangeable.  For safety only: the liveness run
\* does without.
Symmetry == Permutations(Players) \cup Permutations(Builds)
==============================================================================
