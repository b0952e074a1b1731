----------------------------- MODULE MCPoseTail -----------------------------
(* PoseTail for TLC: a rig that turns, and a clock that starts below zero. *)
EXTENDS PoseTail
MCTsMin == -3
=============================================================================
