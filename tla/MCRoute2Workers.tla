--------------------------- MODULE MCRoute2Workers --------------------------
(* Instances of Route2Workers for TLC: one session with two or three epochs, *)
(* or two or three sessions that compete for the budget; the values are in   *)
(* the .cfg files.                                                            *)
EXTENDS Route2Workers
=============================================================================
