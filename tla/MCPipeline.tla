------------------------------ MODULE MCPipeline ------------------------------
(* Pipeline.tla for TLC.                                                    *)
EXTENDS Pipeline

CONSTANT s1

OneStation == {s1}

(* A period a re-read of the window rewrites along with what lies behind.   *)
TwoPeriods == [t \in Times |-> IF t <= 2 THEN 1 ELSE 2]
===============================================================================
