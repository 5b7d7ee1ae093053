----------------------------- MODULE MCWatermarks -----------------------------
(* Watermarks.tla for TLC: one station, the shard that owns it and the      *)
(* unsharded job, both running at once.                                     *)
EXTENDS Watermarks

CONSTANTS main, s000, station

MCWriters == {main, s000}
MCStations == {station}
MCOwner == [s \in MCStations |-> s000]
===============================================================================
