---------------------------- MODULE MCGameClock ----------------------------
(* Instances of GameClock for TLC. *)
EXTENDS GameClock
=============================================================================
