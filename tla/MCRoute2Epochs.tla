--------------------------- MODULE MCRoute2Epochs ---------------------------
(* Instances of Route2Epochs for TLC: one or two audio streams, at most two  *)
(* replacement epochs and two failures; the values are in the .cfg files.     *)
EXTENDS Route2Epochs
=============================================================================
