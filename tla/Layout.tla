-------------------------------- MODULE Layout --------------------------------
(***************************************************************************)
(* `plan_periods` (src/pcds/partitioning.py): the loop that merges years   *)
(* into periods until each clears the size floor.  A period may end only   *)
(* after a year of `cuts`, which is how a new plan stays applicable to     *)
(* partitions that are already written.  One year is one step.             *)
(***************************************************************************)
EXTENDS Integers

CONSTANTS
    FirstYear,   \* bound: the years a plan may be about
    LastYear,
    Floor        \* min_file_bytes

ASSUME LayoutAssumption ==
    /\ FirstYear \in Int
    /\ LastYear \in Int
    /\ FirstYear <= LastYear
    /\ Floor \in Nat

Years == FirstYear .. LastYear

(* A Period; its label is its two years.                                    *)
Periods == {p \in [lo : Years, hi : Years] : p.lo <= p.hi}

Contains(p, y) == p.lo <= y /\ y <= p.hi

VARIABLES
    stage,    \* where plan_periods is: idle, scan, planned
    bytes,    \* year_bytes: expected bytes of the years it has
    cuts,     \* cut_after; all Years when the argument is None
    first,    \* years[0]
    last,     \* years[-1]
    year,     \* the next year of the loop
    start,    \* where the current bucket begins
    acc,      \* its bytes so far
    periods,  \* the periods cut so far
    upto      \* history: upto[y] is the bytes of the years before y

planVars == <<stage, bytes, cuts, first, last, year, start, acc, periods, upto>>

Idle ==
    /\ stage = "idle"
    /\ bytes = [y \in {} |-> 0]
    /\ cuts = {}
    /\ first = FirstYear
    /\ last = FirstYear
    /\ year = FirstYear
    /\ start = FirstYear
    /\ acc = 0
    /\ periods = {}
    /\ upto = [y \in FirstYear .. LastYear + 1 |-> 0]

-------------------------------------------------------------------------------
(* The call, with a size for each year of b and cuts after the years of c.  *)
Begin(b, c) ==
    /\ stage = "idle"
    /\ stage' = "scan"
    /\ bytes' = b
    /\ cuts' = c
    /\ \E f, l \in DOMAIN b :
        /\ \A y \in DOMAIN b : f <= y /\ y <= l
        /\ first' = f
        /\ last' = l
        /\ year' = f
        /\ start' = f
    /\ acc' = 0
    /\ periods' = {}
    /\ upto' = [y \in FirstYear .. LastYear + 1 |-> 0]

(* Mutant of MayCut: the cut lands wherever the floor is reached.           *)
MayCutAnywhere(total) == total >= Floor

MayCut(total) == total >= Floor /\ year \in cuts

(* Mutant of ScanYear: the next bucket begins with the year just closed.    *)
ScanYearTwice ==
    /\ stage = "scan"
    /\ year <= last
    /\ year \in DOMAIN bytes
    /\ LET total == acc + bytes[year] IN
        \/ /\ MayCut(total)
           /\ periods' = periods \cup {[lo |-> start, hi |-> year]}
           /\ start' = year
           /\ acc' = 0
        \/ /\ ~ MayCut(total)
           /\ acc' = total
           /\ UNCHANGED <<periods, start>>
    /\ upto' = [upto EXCEPT ![year + 1] = upto[year] + bytes[year]]
    /\ year' = year + 1
    /\ UNCHANGED <<stage, bytes, cuts, first, last>>

(* The body of the loop: the year joins the bucket, which may end with it.  *)
ScanYear ==
    /\ stage = "scan"
    /\ year <= last
    /\ year \in DOMAIN bytes
    /\ LET total == acc + bytes[year] IN
        \/ /\ MayCut(total)
           /\ periods' = periods \cup {[lo |-> start, hi |-> year]}
           /\ start' = year + 1
           /\ acc' = 0
        \/ /\ ~ MayCut(total)
           /\ acc' = total
           /\ UNCHANGED <<periods, start>>
    /\ upto' = [upto EXCEPT ![year + 1] = upto[year] + bytes[year]]
    /\ year' = year + 1
    /\ UNCHANGED <<stage, bytes, cuts, first, last>>

(* A year without an entry is not looked at, so no period ends with it.     *)
SkipYear ==
    /\ stage = "scan"
    /\ year <= last
    /\ year \notin DOMAIN bytes
    /\ upto' = [upto EXCEPT ![year + 1] = upto[year]]
    /\ year' = year + 1
    /\ UNCHANGED <<stage, bytes, cuts, first, last, start, acc, periods>>

(* Mutant of CloseTail: the tail is a period however little it holds.       *)
CloseTailStub ==
    /\ stage = "scan"
    /\ year > last
    /\ periods' = IF acc > 0 \/ start <= last
                  THEN periods \cup {[lo |-> start, hi |-> last]}
                  ELSE periods
    /\ stage' = "planned"
    /\ UNCHANGED <<bytes, cuts, first, last, year, start, acc, upto>>

(* What is left after the loop: a tail under the floor joins the period     *)
(* before it, if there is one.                                              *)
CloseTail ==
    /\ stage = "scan"
    /\ year > last
    /\ \/ /\ ~ (acc > 0 \/ start <= last)
          /\ UNCHANGED periods
       \/ /\ acc > 0 \/ start <= last
          /\ periods = {} \/ acc >= Floor
          /\ periods' = periods \cup {[lo |-> start, hi |-> last]}
       \/ /\ acc > 0 \/ start <= last
          /\ acc < Floor
          /\ \E p \in periods :
              /\ \A q \in periods : q.hi <= p.hi
              /\ periods' = (periods \ {p}) \cup {[lo |-> p.lo, hi |-> last]}
    /\ stage' = "planned"
    /\ UNCHANGED <<bytes, cuts, first, last, year, start, acc, upto>>

PlanStep == ScanYear \/ SkipYear \/ CloseTail

(* The caller has the list; the next call starts afresh.                    *)
Return ==
    /\ stage = "planned"
    /\ stage' = "idle"
    /\ bytes' = [y \in {} |-> 0]
    /\ cuts' = {}
    /\ first' = FirstYear
    /\ last' = FirstYear
    /\ year' = FirstYear
    /\ start' = FirstYear
    /\ acc' = 0
    /\ periods' = {}
    /\ upto' = [y \in FirstYear .. LastYear + 1 |-> 0]

(* plan_periods alone, on any sizes and cuts.                               *)
PlanNext ==
    \/ \E P \in SUBSET Years, c \in SUBSET Years :
        \E b \in [P -> Nat] : Begin(b, c)
    \/ PlanStep
    \/ Return

PlanSpec == Idle /\ [][PlanNext]_planVars

-------------------------------------------------------------------------------
Weight(p) == upto[p.hi + 1] - upto[p.lo]

(* A finished plan is a map from years to periods: each year between the    *)
(* first and the last is in exactly one, the years without data included    *)
(* (partitioning.py:74-75, "keeping periods contiguous makes `period_for`   *)
(* total").                                                                 *)
PlanTiles ==
    stage = "planned" =>
        \A y \in first .. last :
            /\ \E p \in periods : Contains(p, y)
            /\ \A p, q \in periods : Contains(p, y) /\ Contains(q, y) => p = q

(* Every period clears the floor, a merged tail included; the one exception *)
(* is a plan of a single period, which has nothing to merge with            *)
(* (partitioning.py:43-54).                                                 *)
PlanClearsFloor ==
    stage = "planned" =>
        \/ \A p \in periods : Weight(p) >= Floor
        \/ periods = {[lo |-> first, hi |-> last]}

(* A run of years no allowed cut falls into lies in one period, so a new    *)
(* plan whose cuts are the ends of the written partitions splits none of    *)
(* them (partitioning.py:56-64).                                            *)
PlanNests ==
    stage = "planned" =>
        \A a, b \in first .. last :
            a <= b /\ (\A c \in cuts : ~ (a <= c /\ c < b)) =>
                \E p \in periods : Contains(p, a) /\ Contains(p, b)
===============================================================================
