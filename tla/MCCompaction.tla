----------------------------- MODULE MCCompaction -----------------------------
(* Compaction.tla for TLC: two rows of one period and one of another, so    *)
(* that a partition is cut into two files and a run has two periods to do.  *)
(* The backfill wrote one of the first two: the later period has no         *)
(* partition until a compaction makes one.                                  *)
EXTENDS Compaction

CONSTANTS early, late, shard

MCKeys == 1 .. 3
MCPeriods == {early, late}
MCPeriodOf == [k \in Keys |-> IF k <= 2 THEN early ELSE late]
MCWrittenBy == [k \in Keys |-> IF k = 2 THEN shard ELSE -1]
MCShardNames == {shard}
===============================================================================
