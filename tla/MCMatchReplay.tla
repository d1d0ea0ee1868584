---------------------------- MODULE MCMatchReplay ----------------------------
(* MatchReplay.tla on a small instance: a match of four ticks watched back, with *)
(* two seeks.                                                                   *)
EXTENDS MatchReplay
==============================================================================
