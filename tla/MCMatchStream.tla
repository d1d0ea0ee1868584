---------------------------- MODULE MCMatchStream ----------------------------
(* MatchStream.tla on a small instance: a match of four ticks, a feed of three   *)
(* events, a history of two points.                                             *)
EXTENDS MatchStream
==============================================================================
