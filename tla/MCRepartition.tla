---------------------------- MODULE MCRepartition -----------------------------
EXTENDS Repartition

(* Rows of two shards in the first two years and the last; the station      *)
(* metadata knows nothing but the last year.                                *)
MCYearOf == [k \in Keys |-> IF k = 3 THEN 4 ELSE k]
MCShardOf == [k \in Keys |-> IF k = 2 THEN "s001-00000" ELSE "s000-00000"]
MCEstimate == [y \in {4} |-> 1]
===============================================================================
