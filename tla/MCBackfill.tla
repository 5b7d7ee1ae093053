------------------------------ MODULE MCBackfill ------------------------------
(* Three stations and three years in two periods; one station ends early,   *)
(* one starts late and one has a gap.                                       *)
EXTENDS Backfill

TwoPeriods == [y \in Years |-> IF y <= 2 THEN 1 ELSE 2]

History ==
    [s \in Stations |-> CASE s = 1 -> {1, 2}
                          [] s = 2 -> {2, 3}
                          [] OTHER -> {1, 3}]

(* The workflow over the whole archive at once.                             *)
AllYears == {Years}
===============================================================================
