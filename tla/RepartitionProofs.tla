-------------------------- MODULE RepartitionProofs ---------------------------
(***************************************************************************)
(* What `pcds layout` and repartition.py promise for any years, sizes,     *)
(* cuts, rows and files, whatever was written, moved, lost or ingested     *)
(* before: every plan tiles the years, leaves no stub and splits no        *)
(* partition; every plan stays applicable; and a run of repartition.py     *)
(* that ends has each row once, where the plan says, and has lost none but *)
(* to a death in a fold.                                                   *)
(***************************************************************************)
EXTENDS Repartition, FiniteSetTheorems, WellFoundedInduction, TLAPS

-------------------------------------------------------------------------------
(* plan_periods, by the invariant of its loop: the periods cut so far tile  *)
(* the years before the bucket, each clears the floor and ends where a cut  *)
(* may land, and the bucket holds what the years since it began weigh.      *)

ScanTypes ==
    /\ stage \in {"idle", "scan", "planned"}
    /\ DOMAIN bytes \subseteq Years
    /\ \A y \in DOMAIN bytes : bytes[y] \in Nat
    /\ cuts \subseteq Years
    /\ first \in Years /\ last \in Years
    /\ year \in Int /\ start \in Int
    /\ acc \in Nat
    /\ periods \subseteq Periods
    /\ upto \in [FirstYear .. LastYear + 1 -> Nat]

(* The years lo .. hi are in exactly one of the periods of P each.          *)
Tiles(P, lo, hi) ==
    \A y \in lo .. hi :
        /\ \E p \in P : Contains(p, y)
        /\ \A p, q \in P : Contains(p, y) /\ Contains(q, y) => p = q

Scanning ==
    /\ first <= start /\ start <= year /\ year <= last + 1
    /\ acc = upto[year] - upto[start]
    /\ Tiles(periods, first, start - 1)
    /\ \A p \in periods :
        /\ first <= p.lo /\ p.hi < start
        /\ Weight(p) >= Floor
        /\ p.hi \in cuts

(* No period reaches beyond the years the plan is about.                    *)
Within(P) == \A p \in P : first <= p.lo /\ p.hi <= last

ScanInv ==
    /\ ScanTypes
    /\ stage = "scan" => Scanning
    /\ stage = "planned" => Within(periods) /\ PlanTiles /\ PlanClearsFloor /\ PlanNests

-------------------------------------------------------------------------------
LEMMA IdleScanInv == Idle => ScanInv
<1>1. FirstYear \in Years
    BY LayoutAssumption DEF Years
<1> QED
    BY <1>1, LayoutAssumption DEF Idle, ScanInv, ScanTypes, Years, Periods

LEMMA BeginScanInv ==
    ASSUME NEW P \in SUBSET Years, NEW c \in SUBSET Years,
           NEW b \in [P -> Nat], Begin(b, c)
    PROVE  ScanInv'
<1>1. PICK f \in P, l \in P :
        /\ \A y \in P : f <= y /\ y <= l
        /\ first' = f /\ last' = l /\ year' = f /\ start' = f
    BY DEF Begin
<1>2. f <= l /\ f \in Int /\ l \in Int
    BY <1>1 DEF Years
<1>3. ScanTypes'
    BY <1>1, <1>2, LayoutAssumption DEF Begin, ScanTypes, Years
<1>4. Scanning'
    BY <1>1, <1>2, LayoutAssumption
    DEF Begin, Scanning, Tiles, Years
<1> QED
    BY <1>3, <1>4 DEF ScanInv, Begin

(* A year that joins the bucket without ending it.                          *)
LEMMA Extends ==
    ASSUME ScanInv, stage = "scan", year <= last, NEW n \in Nat,
           upto' = [upto EXCEPT ![year + 1] = upto[year] + n],
           acc' = acc + n, year' = year + 1,
           UNCHANGED <<stage, bytes, cuts, first, last, start, periods>>
    PROVE  ScanInv'
<1> USE DEF ScanInv, ScanTypes
<1>0. start \in Int /\ year \in Int /\ acc \in Nat
    OBVIOUS
<1>1. year \in Years /\ year + 1 \in FirstYear .. LastYear + 1
    BY LayoutAssumption DEF Scanning, Years
<1>2. /\ upto'[year + 1] = upto[year] + n
      /\ \A y \in FirstYear .. LastYear + 1 : y # year + 1 => upto'[y] = upto[y]
    BY <1>1
<1>3. ScanTypes'
    BY <1>1, LayoutAssumption DEF Years
<1>4. ASSUME NEW p \in periods
      PROVE  Weight(p)' = Weight(p)
  <2>1. /\ p.lo \in Years /\ p.hi \in Years
        /\ p.lo <= p.hi /\ p.hi < start /\ start <= year
    BY DEF Scanning, Periods
  <2> HIDE DEF ScanInv, ScanTypes
  <2>2. /\ p.lo \in FirstYear .. LastYear + 1 /\ p.lo # year + 1
        /\ p.hi + 1 \in FirstYear .. LastYear + 1 /\ p.hi + 1 # year + 1
    BY <1>0, <1>1, <2>1, LayoutAssumption DEF Years
  <2> QED
    BY <1>2, <2>2 DEF Weight
<1>5. /\ start \in FirstYear .. LastYear + 1 /\ year \in FirstYear .. LastYear + 1
      /\ start # year + 1 /\ year # year + 1
    BY <1>1, LayoutAssumption DEF Scanning, Years
<1>6. acc' = upto'[year'] - upto'[start']
    BY <1>2, <1>5 DEF Scanning
<1>7. Scanning'
  <2>1. first' <= start' /\ start' <= year' /\ year' <= last' + 1
    BY <1>0, <1>1, LayoutAssumption DEF Scanning, Years
  <2>2. Tiles(periods', first', start' - 1)
    BY DEF Scanning, Tiles
  <2>3. \A p \in periods' :
            first' <= p.lo /\ p.hi < start' /\ Weight(p)' >= Floor /\ p.hi \in cuts'
    BY <1>4 DEF Scanning
  <2> QED
    BY <1>6, <2>1, <2>2, <2>3 DEF Scanning
<1> QED
    BY <1>3, <1>7

(* The year ends a period: from start to year, of at least the floor.       *)
LEMMA CutsPeriod ==
    ASSUME ScanInv, stage = "scan", year <= last, NEW n \in Nat,
           MayCut(acc + n),
           upto' = [upto EXCEPT ![year + 1] = upto[year] + n],
           periods' = periods \cup {[lo |-> start, hi |-> year]},
           start' = year + 1, acc' = 0, year' = year + 1,
           UNCHANGED <<stage, bytes, cuts, first, last>>
    PROVE  ScanInv'
<1> DEFINE new == [lo |-> start, hi |-> year]
<1>1. /\ start \in Int /\ year \in Int /\ acc \in Nat
      /\ first \in Years /\ last \in Years /\ periods \subseteq Periods
      /\ upto \in [FirstYear .. LastYear + 1 -> Nat]
      /\ first <= start /\ start <= year /\ year <= last
      /\ acc = upto[year] - upto[start]
      /\ Tiles(periods, first, start - 1)
      /\ \A p \in periods :
            first <= p.lo /\ p.hi < start /\ Weight(p) >= Floor /\ p.hi \in cuts
    BY DEF ScanInv, ScanTypes, Scanning
<1>2. /\ start \in Years /\ year \in Years
      /\ start \in FirstYear .. LastYear + 1
      /\ year \in FirstYear .. LastYear + 1
      /\ year + 1 \in FirstYear .. LastYear + 1
    BY <1>1, LayoutAssumption DEF Years
<1>3. /\ upto'[year + 1] = upto[year] + n
      /\ \A y \in FirstYear .. LastYear + 1 : y # year + 1 => upto'[y] = upto[y]
    BY <1>1, <1>2
<1>4. new \in Periods
    BY <1>1, <1>2 DEF Periods
<1>5. ScanTypes'
  <2>1. upto' \in [FirstYear .. LastYear + 1 -> Nat]
    BY <1>1, <1>2
  <2>2. periods' \subseteq Periods
    BY <1>1, <1>4
  <2> QED
    BY <1>1, <2>1, <2>2 DEF ScanInv, ScanTypes
<1>6. ASSUME NEW p \in periods'
      PROVE  /\ first <= p.lo /\ p.hi < year + 1
             /\ Weight(p)' >= Floor /\ p.hi \in cuts
  <2>1. CASE p = new
    <3>1. upto'[start] = upto[start]
      BY <1>1, <1>2, <1>3
    <3>2. Weight(p)' = acc + n
      BY <1>1, <1>2, <1>3, <2>1, <3>1 DEF Weight
    <3> QED
      BY <1>1, <2>1, <3>2, LayoutAssumption DEF MayCut
  <2>2. CASE p \in periods
    <3>1. p.lo \in Years /\ p.hi \in Years /\ p.lo <= p.hi
      BY <1>1, <2>2 DEF Periods
    <3>2. p.hi < start /\ start <= year /\ start \in Int /\ year \in Int
      BY <1>1, <2>2
    <3>3. /\ p.lo \in FirstYear .. LastYear + 1 /\ p.lo # year + 1
          /\ p.hi + 1 \in FirstYear .. LastYear + 1 /\ p.hi + 1 # year + 1
      BY <3>1, <3>2, LayoutAssumption DEF Years
    <3>4. Weight(p)' = Weight(p)
      BY <1>3, <3>3 DEF Weight
    <3> QED
      BY <1>1, <2>2, <3>1, <3>2, <3>4, LayoutAssumption DEF Years
  <2> QED
    BY <2>1, <2>2
<1>7. Tiles(periods', first, year)
  <2> SUFFICES ASSUME NEW y \in first .. year
               PROVE  /\ \E p \in periods' : Contains(p, y)
                      /\ \A p, q \in periods' :
                            Contains(p, y) /\ Contains(q, y) => p = q
    BY DEF Tiles
  <2>1. CASE y < start
    <3>1. y \in first .. start - 1 /\ ~ Contains(new, y)
      BY <1>1, <2>1, LayoutAssumption DEF Contains, Years
    <3> QED
      BY <1>1, <3>1 DEF Tiles
  <2>2. CASE start <= y
    <3>1. Contains(new, y)
      BY <1>1, <2>2, LayoutAssumption DEF Contains, Years
    <3>2. \A p \in periods : ~ Contains(p, y)
      BY <1>1, <2>2, LayoutAssumption DEF Contains, Years, Periods
    <3> QED
      BY <3>1, <3>2
  <2> QED
    BY <1>1, <2>1, <2>2, LayoutAssumption DEF Years
<1>8. Scanning'
  <2>1. /\ first' <= start' /\ start' <= year' /\ year' <= last' + 1
        /\ start' - 1 = year
    BY <1>1, LayoutAssumption DEF Years
  <2>2. acc' = upto'[year'] - upto'[start']
    BY <1>1, <1>2, <1>3
  <2>3. \A p \in periods' :
            first' <= p.lo /\ p.hi < start' /\ Weight(p)' >= Floor /\ p.hi \in cuts'
    BY <1>6
  <2>4. Tiles(periods', first', start' - 1)
    BY <1>7, <2>1
  <2> QED
    BY <2>1, <2>2, <2>3, <2>4 DEF Scanning
<1> QED
    BY <1>5, <1>8 DEF ScanInv

LEMMA ScanYearScanInv == ScanInv /\ ScanYear => ScanInv'
<1> SUFFICES ASSUME ScanInv, ScanYear PROVE ScanInv'
    OBVIOUS
<1>1. bytes[year] \in Nat
    BY DEF ScanYear, ScanInv, ScanTypes
<1>2. CASE MayCut(acc + bytes[year]) /\ start' = year + 1
    BY <1>1, <1>2, CutsPeriod, LayoutAssumption DEF ScanYear, ScanInv, ScanTypes
<1>3. CASE acc' = acc + bytes[year] /\ UNCHANGED <<periods, start>>
    BY <1>1, <1>3, Extends DEF ScanYear
<1> QED
    BY <1>2, <1>3 DEF ScanYear

LEMMA SkipYearScanInv == ScanInv /\ SkipYear => ScanInv'
<1> SUFFICES ASSUME ScanInv, SkipYear PROVE ScanInv'
    OBVIOUS
<1>1. year \in FirstYear .. LastYear + 1
    BY LayoutAssumption DEF SkipYear, ScanInv, ScanTypes, Scanning, Years
<1>2. upto[year] + 0 = upto[year] /\ acc + 0 = acc
    BY <1>1 DEF ScanInv, ScanTypes
<1> QED
    BY <1>2, Extends DEF SkipYear

-------------------------------------------------------------------------------
(* What is known of the loop at any of its steps.                            *)
LEMMA ScanFacts ==
    ASSUME ScanInv, stage = "scan"
    PROVE  /\ start \in Int /\ year \in Int /\ acc \in Nat
           /\ first \in Years /\ last \in Years /\ periods \subseteq Periods
           /\ upto \in [FirstYear .. LastYear + 1 -> Nat]
           /\ first <= start /\ start <= year /\ year <= last + 1
           /\ acc = upto[year] - upto[start]
           /\ Tiles(periods, first, start - 1)
           /\ \A p \in periods : first <= p.lo /\ p.hi < start
                                 /\ Weight(p) >= Floor /\ p.hi \in cuts
BY DEF ScanInv, ScanTypes, Scanning

(* A tiling whose periods end where a cut may land, or at the end, splits   *)
(* no run of years without a cut.                                           *)
LEMMA TilesNest ==
    ASSUME NEW P \in SUBSET Periods, NEW f \in Years, NEW l \in Years,
           NEW C, Tiles(P, f, l),
           \A p \in P : p.hi \in C \/ p.hi = l,
           NEW a \in f .. l, NEW b \in f .. l, a <= b,
           \A c \in C : ~ (a <= c /\ c < b)
    PROVE  \E p \in P : Contains(p, a) /\ Contains(p, b)
<1>1. PICK p \in P : Contains(p, a)
    BY DEF Tiles
<1>2. p.lo \in Int /\ p.hi \in Int
    BY LayoutAssumption DEF Periods, Years
<1>3. b <= p.hi
    BY <1>1, <1>2, LayoutAssumption DEF Contains, Years
<1> QED
    BY <1>1, <1>2, <1>3, LayoutAssumption DEF Contains, Years

(* The last period cut is the one the bucket follows.                       *)
LEMMA LastPeriod ==
    ASSUME ScanInv, stage = "scan", NEW p \in periods,
           \A q \in periods : q.hi <= p.hi
    PROVE  p.hi = start - 1
<1>1. p.lo \in Int /\ p.hi \in Int /\ p.lo <= p.hi /\ first <= p.lo /\ p.hi < start
    BY ScanFacts, LayoutAssumption DEF Periods, Years
<1>2. start \in Int /\ first \in Int
    BY ScanFacts, LayoutAssumption DEF Years
<1>3. start - 1 \in first .. start - 1
    BY <1>1, <1>2
<1>4. PICK q \in periods : Contains(q, start - 1)
    BY <1>3, ScanFacts DEF Tiles
<1>5. q.hi \in Int /\ start - 1 <= q.hi
    BY <1>4, ScanFacts, LayoutAssumption DEF Contains, Periods, Years
<1> QED
    BY <1>1, <1>2, <1>5

LEMMA PlannedInv ==
    ASSUME ScanInv, stage = "scan", year > last, stage' = "planned",
           UNCHANGED <<bytes, cuts, first, last, year, start, acc, upto>>,
           periods' \subseteq Periods,
           Tiles(periods', first, last), Within(periods'),
           \A p \in periods' : p.hi \in cuts \/ p.hi = last,
           \/ \A p \in periods' : Weight(p) >= Floor
           \/ periods' = {[lo |-> first, hi |-> last]}
    PROVE  ScanInv'
<1>1. ScanTypes'
    BY DEF ScanInv, ScanTypes
<1>2. PlanTiles'
    BY DEF PlanTiles, Tiles
<1>3. PlanClearsFloor'
    BY DEF PlanClearsFloor, Weight
<1>4. PlanNests'
  <2> SUFFICES ASSUME NEW a \in first .. last, NEW b \in first .. last, a <= b,
                      \A c \in cuts : ~ (a <= c /\ c < b)
               PROVE  \E p \in periods' : Contains(p, a) /\ Contains(p, b)
    BY DEF PlanNests
  <2> QED
    BY TilesNest, ScanFacts
<1>5. Within(periods)'
    BY DEF Within
<1> QED
    BY <1>1, <1>2, <1>3, <1>4, <1>5 DEF ScanInv

LEMMA CloseTailScanInv == ScanInv /\ CloseTail => ScanInv'
<1> SUFFICES ASSUME ScanInv, CloseTail PROVE ScanInv'
    OBVIOUS
<1>1. /\ start \in Int /\ year \in Int /\ acc \in Nat
      /\ first \in Years /\ last \in Years /\ periods \subseteq Periods
      /\ upto \in [FirstYear .. LastYear + 1 -> Nat]
      /\ first <= start /\ start <= year
      /\ Tiles(periods, first, start - 1)
      /\ \A p \in periods : first <= p.lo /\ p.hi < start
                            /\ Weight(p) >= Floor /\ p.hi \in cuts
    BY ScanFacts DEF CloseTail
<1>2. year = last + 1 /\ acc = upto[last + 1] - upto[start]
    BY ScanFacts, LayoutAssumption DEF CloseTail, Years
<1>3. first \in Int /\ last \in Int /\ Floor \in Nat
    BY <1>1, LayoutAssumption DEF Years
<1>4. start = last + 1 \/ (start \in Years /\ start <= last)
    BY <1>1, <1>2, <1>3, LayoutAssumption DEF Years
<1>5. acc > 0 => start <= last
    BY <1>1, <1>2, <1>3, <1>4, LayoutAssumption DEF Years
<1>6. CASE ~ (acc > 0 \/ start <= last) /\ UNCHANGED periods
  <2>1. start - 1 = last
    BY <1>1, <1>3, <1>4, <1>6
  <2>2. Within(periods')
    BY <1>1, <1>3, <1>6, <2>1, LayoutAssumption DEF Within, Periods, Years
  <2> QED
    BY <1>1, <1>6, <2>1, <2>2, PlannedInv DEF CloseTail
<1>7. CASE /\ start <= last
           /\ periods = {} \/ acc >= Floor
           /\ periods' = periods \cup {[lo |-> start, hi |-> last]}
  <2> DEFINE new == [lo |-> start, hi |-> last]
  <2>1. start \in Years
    BY <1>3, <1>4, <1>7, <1>1
  <2>2. periods' \subseteq Periods
    BY <1>1, <1>7, <2>1 DEF Periods
  <2>3. Tiles(periods', first, last)
    <3> SUFFICES ASSUME NEW y \in first .. last
                 PROVE  /\ \E p \in periods' : Contains(p, y)
                        /\ \A p, q \in periods' :
                              Contains(p, y) /\ Contains(q, y) => p = q
      BY DEF Tiles
    <3>1. CASE y < start
      <4>1. y \in first .. start - 1 /\ ~ Contains(new, y)
        BY <1>1, <1>3, <3>1 DEF Contains
      <4> QED
        BY <1>1, <1>7, <4>1 DEF Tiles
    <3>2. CASE start <= y
      <4>1. Contains(new, y)
        BY <1>3, <3>2 DEF Contains
      <4>2. \A p \in periods : ~ Contains(p, y)
        BY <1>1, <1>3, <3>2, LayoutAssumption DEF Contains, Periods, Years
      <4> QED
        BY <1>7, <4>1, <4>2
    <3> QED
      BY <1>1, <1>3, <3>1, <3>2
  <2>4. periods = {} => start = first
    <3> SUFFICES ASSUME periods = {}, first < start PROVE FALSE
      BY <1>1, <1>3
    <3> QED
      BY <1>1, <1>3 DEF Tiles
  <2>5. Weight(new) = acc
    BY <1>2 DEF Weight
  <2>6. Within(periods')
    <3>1. \A q \in periods : first <= q.lo /\ q.hi < start
      BY <1>1
    <3>2. start \in Int /\ last \in Int /\ first <= start
      BY <1>1, <1>3
    <3>3. \A q \in periods : q.hi \in Int
      BY <1>1, LayoutAssumption DEF Periods, Years
    <3>4. \A q \in periods : q.hi <= last
      BY <1>7, <3>1, <3>2, <3>3
    <3> QED
      BY <1>7, <3>1, <3>2, <3>4 DEF Within
  <2> QED
    BY <1>1, <1>7, <2>2, <2>3, <2>4, <2>5, <2>6, PlannedInv DEF CloseTail
<1>8. CASE /\ start <= last
           /\ \E p \in periods :
                /\ \A q \in periods : q.hi <= p.hi
                /\ periods' = (periods \ {p}) \cup {[lo |-> p.lo, hi |-> last]}
  <2>1. PICK p \in periods :
            /\ \A q \in periods : q.hi <= p.hi
            /\ periods' = (periods \ {p}) \cup {[lo |-> p.lo, hi |-> last]}
    BY <1>8
  <2> DEFINE new == [lo |-> p.lo, hi |-> last]
  <2>2. p.hi = start - 1
    BY <2>1, LastPeriod DEF CloseTail
  <2>3. /\ p.lo \in Years /\ p.hi \in Years /\ p.lo <= p.hi /\ p.lo <= last
        /\ p.lo \in Int /\ p.hi \in Int
    BY <1>1, <1>3, <1>8, <2>2, LayoutAssumption DEF Periods, Years
  <2>4. periods' \subseteq Periods
    BY <1>1, <2>1, <2>3 DEF Periods
  <2>5. Tiles(periods', first, last)
    <3> SUFFICES ASSUME NEW y \in first .. last
                 PROVE  /\ \E r \in periods' : Contains(r, y)
                        /\ \A r, q \in periods' :
                              Contains(r, y) /\ Contains(q, y) => r = q
      BY DEF Tiles
    <3>1. CASE y < p.lo
      <4>1. y \in first .. start - 1 /\ ~ Contains(new, y) /\ ~ Contains(p, y)
        BY <1>1, <1>3, <2>2, <2>3, <3>1 DEF Contains
      <4> QED
        BY <1>1, <2>1, <4>1 DEF Tiles
    <3>2. CASE p.lo <= y
      <4>1. Contains(new, y)
        BY <1>3, <3>2 DEF Contains
      <4>2. \A q \in periods \ {p} : ~ Contains(q, y)
        <5>1. CASE y < start
          <6>1. y \in first .. start - 1 /\ Contains(p, y)
            BY <1>1, <1>3, <2>2, <2>3, <3>2, <5>1 DEF Contains
          <6> QED
            BY <1>1, <6>1 DEF Tiles
        <5>2. CASE start <= y
          BY <1>1, <1>3, <5>2, LayoutAssumption DEF Contains, Periods, Years
        <5> QED
          BY <1>1, <1>3, <5>1, <5>2
      <4> QED
        BY <2>1, <4>1, <4>2
    <3> QED
      BY <1>3, <2>3, <3>1, <3>2
  <2>6. Weight(new) >= Floor
    <3>1. Weight(p) = upto[start] - upto[p.lo] /\ Weight(p) >= Floor
      BY <1>1, <2>1, <2>2, <2>3 DEF Weight
    <3>2. Weight(new) = upto[last + 1] - upto[p.lo]
      BY DEF Weight
    <3>3. /\ upto[start] \in Nat /\ upto[p.lo] \in Nat /\ upto[last + 1] \in Nat
      <4>1. upto \in [FirstYear .. LastYear + 1 -> Nat]
        BY <1>1
      <4>2. p.lo \in FirstYear .. LastYear + 1
        BY <2>3, LayoutAssumption DEF Years
      <4>3. /\ start \in FirstYear .. LastYear + 1
            /\ last + 1 \in FirstYear .. LastYear + 1
        BY <1>1, <1>3, <1>4, <1>8, LayoutAssumption DEF Years
      <4> QED
        BY <4>1, <4>2, <4>3
    <3> QED
      BY <1>1, <1>2, <1>3, <3>1, <3>2, <3>3
  <2>7. Within(periods')
    <3>1. \A q \in periods : first <= q.lo /\ q.hi < start
      BY <1>1
    <3>2. start \in Int /\ last \in Int
      BY <1>1, <1>3
    <3>3. \A q \in periods : q.hi \in Int
      BY <1>1, LayoutAssumption DEF Periods, Years
    <3>4. \A q \in periods : q.hi <= last
      BY <1>8, <3>1, <3>2, <3>3
    <3>5. first <= new.lo /\ new.hi <= last
      BY <2>1, <3>1, <3>2
    <3> QED
      BY <2>1, <3>1, <3>4, <3>5 DEF Within
  <2> QED
    BY <1>1, <2>1, <2>4, <2>5, <2>6, <2>7, PlannedInv DEF CloseTail
<1> QED
    BY <1>5, <1>6, <1>7, <1>8 DEF CloseTail

LEMMA ReturnScanInv == ScanInv /\ Return => ScanInv'
<1>1. FirstYear \in Years
    BY LayoutAssumption DEF Years
<1> QED
    BY <1>1, LayoutAssumption DEF Return, ScanInv, ScanTypes, Years, Periods

LEMMA StutterScanInv == ScanInv /\ UNCHANGED planVars => ScanInv'
BY DEF planVars, ScanInv, ScanTypes, Scanning, Tiles, Within, Weight,
       PlanTiles, PlanClearsFloor, PlanNests

THEOREM LoopInvariant == PlanSpec => []ScanInv
<1>1. ScanInv /\ [PlanNext]_planVars => ScanInv'
  <2> SUFFICES ASSUME ScanInv, [PlanNext]_planVars PROVE ScanInv'
    OBVIOUS
  <2>1. CASE \E P \in SUBSET Years, c \in SUBSET Years :
                \E b \in [P -> Nat] : Begin(b, c)
    BY <2>1, BeginScanInv
  <2>2. CASE PlanStep
    BY <2>2, ScanYearScanInv, SkipYearScanInv, CloseTailScanInv DEF PlanStep
  <2>3. CASE Return
    BY <2>3, ReturnScanInv
  <2>4. CASE UNCHANGED planVars
    BY <2>4, StutterScanInv
  <2> QED
    BY <2>1, <2>2, <2>3, <2>4 DEF PlanNext
<1> QED
    BY <1>1, IdleScanInv, PTL DEF PlanSpec

(* Every year from the first to the last of a finished plan is in exactly   *)
(* one period (partitioning.py:74-91).                                     *)
THEOREM PlanIsATiling == PlanSpec => []PlanTiles
<1>1. ScanInv => PlanTiles
    BY DEF ScanInv, PlanTiles
<1> QED
    BY <1>1, LoopInvariant, PTL

(* Every period clears the floor unless it is the only one                  *)
(* (partitioning.py:43-54).                                                 *)
THEOREM PlanHasNoStub == PlanSpec => []PlanClearsFloor
<1>1. ScanInv => PlanClearsFloor
    BY DEF ScanInv, PlanClearsFloor
<1> QED
    BY <1>1, LoopInvariant, PTL

(* No period boundary falls into a run of years without an allowed cut      *)
(* (partitioning.py:56-64).                                                 *)
THEOREM PlanKeepsRunsWhole == PlanSpec => []PlanNests
<1>1. ScanInv => PlanNests
    BY DEF ScanInv, PlanNests
<1> QED
    BY <1>1, LoopInvariant, PTL

-------------------------------------------------------------------------------
(* `pcds layout` calls plan_periods as PlanSpec allows, so what is proved   *)
(* of a plan holds of every layout.json the command writes.                 *)

Stored == IsFiniteSet(files)

LEMMA FoldedFinite ==
    ASSUME NEW p, NEW R PROVE IsFiniteSet(Folded(p, R))
<1> DEFINE head == {k \in R : Cardinality({j \in R : j < k}) < FileRows}
           a == [at |-> p, via |-> <<>>, base |-> "part-00000", rows |-> head]
           b == [at |-> p, via |-> <<>>, base |-> "part-00001", rows |-> R \ head]
<1>1. IsFiniteSet({a}) /\ IsFiniteSet({b})
    BY FS_Singleton
<1>2. IsFiniteSet({a} \cup {b})
    BY <1>1, FS_Union
<1>3. Folded(p, R) \subseteq {a} \cup {b}
    BY DEF Folded
<1> QED
    BY <1>2, <1>3, FS_Subset

LEMMA StoredInductive == Stored /\ [Next]_vars => Stored'
<1> SUFFICES ASSUME Stored, [Next]_vars PROVE Stored'
    OBVIOUS
<1> USE DEF Stored
<1>1. CASE \E p \in layout : Backfill(p)
  <2>1. PICK p \in layout : Backfill(p)
    BY <1>1
  <2> DEFINE K == {j \in Keys : Contains(p, YearOf[j])}
             S == {ShardOf[k] : k \in K}
             new == {[at |-> p, via |-> <<>>, base |-> s,
                      rows |-> {k \in Keys : Contains(p, YearOf[k]) /\ ShardOf[k] = s}]
                        : s \in S}
  <2>2. IsFiniteSet(K)
    BY RepartitionAssumption, FS_Subset
  <2>3. IsFiniteSet(S)
    <3> DEFINE g == [k \in K |-> ShardOf[k]]
    <3>1. g \in Surjection(K, S)
      BY DEF Surjection
    <3> QED
      BY <2>2, <3>1, FS_Surjection
  <2>4. IsFiniteSet(new)
    <3> DEFINE file(s) == [at |-> p, via |-> <<>>, base |-> s,
                           rows |-> {k \in Keys : Contains(p, YearOf[k]) /\ ShardOf[k] = s}]
               g == [s \in S |-> file(s)]
    <3> HIDE DEF file
    <3>1. g \in Surjection(S, {file(s) : s \in S})
      BY DEF Surjection
    <3>2. IsFiniteSet({file(s) : s \in S})
      BY <2>3, <3>1, FS_Surjection
    <3> QED
      BY <3>2 DEF file
  <2>5. files' = files \cup new
    BY <2>1 DEF Backfill
  <2> QED
    BY <2>4, <2>5, FS_Union
<1>2. CASE \E k \in Keys : Ingest(k)
  <2>1. PICK k \in Keys : Ingest(k)
    BY <1>2
  <2> DEFINE p == PeriodFor(YearOf[k])
  <2>2. files' = (files \ At(p)) \cup Folded(p, Rows(At(p)) \cup {k})
    BY <2>1 DEF Ingest
  <2>3. IsFiniteSet(files \ At(p))
    BY FS_Difference
  <2> QED
    BY <2>2, <2>3, FoldedFinite, FS_Union
<1>3. CASE \E f \in files : CopyFile(f) \/ Unlink(f) \/ DeleteFile(f)
  <2>1. ASSUME NEW f \in files, CopyFile(f) PROVE Stored'
    <3>1. IsFiniteSet({g \in files : ~ SameName(g, Moved(f))})
      BY FS_Subset
    <3>2. IsFiniteSet({Moved(f)})
      BY FS_Singleton
    <3> QED
      BY <2>1, <3>1, <3>2, FS_Union DEF CopyFile
  <2>2. ASSUME NEW f \in files, Unlink(f) \/ DeleteFile(f) PROVE Stored'
    BY <2>2, FS_Subset DEF Unlink, DeleteFile
  <2> QED
    BY <1>3, <2>1, <2>2
<1>4. CASE \E f \in staged : MoveIn(f)
  <2>1. PICK f \in staged : files' = files \cup {f}
    BY <1>4 DEF MoveIn
  <2>2. IsFiniteSet({f})
    BY FS_Singleton
  <2> QED
    BY <2>1, <2>2, FS_Union
<1>5. CASE Fold
    BY <1>5, FS_Subset DEF Fold
<1>6. CASE UNCHANGED files
    BY <1>6
<1> QED
    BY <1>1, <1>2, <1>3, <1>4, <1>5, <1>6
    DEF Next, Work, Catalog, StartLayout, Planning, WriteLayout, Start, Take,
        NextTarget, Crash, vars

LEMMA YearBytesType ==
    ASSUME Stored, NEW measured \in {{}, Measured}
    PROVE  /\ measured \cup DOMAIN Estimate \in SUBSET Years
           /\ YearBytes(measured) \in [measured \cup DOMAIN Estimate -> Nat]
<1>1. \A y \in Years : Cardinality(RowsIn(y)) \in Nat
  <2> TAKE y \in Years
  <2>1. IsFiniteSet(files \X Keys)
    BY RepartitionAssumption, FS_Product DEF Stored
  <2>2. IsFiniteSet(RowsIn(y))
    BY <2>1, FS_Subset DEF RowsIn
  <2> QED
    BY <2>2, FS_CardinalityType
<1>2. measured \subseteq Years
    BY DEF Measured
<1>3. DOMAIN Estimate \subseteq Years /\ Estimate \in [DOMAIN Estimate -> Nat]
    BY RepartitionAssumption
<1>4. \A y \in measured : BytesPerRow * Cardinality(RowsIn(y)) \in Nat
    BY <1>1, <1>2, RepartitionAssumption
<1> QED
    BY <1>2, <1>3, <1>4 DEF YearBytes

LEMMA StartLayoutPlans ==
    ASSUME Stored, NEW ignore \in BOOLEAN, NEW recut \in BOOLEAN,
           StartLayout(ignore, recut)
    PROVE  PlanNext
<1> DEFINE m == IF ignore \/ manifest = {} THEN {} ELSE Measured
           P == m \cup DOMAIN Estimate
           c == IF recut \/ manifest = {} THEN Years ELSE CutAfter
<1>1. P \in SUBSET Years /\ YearBytes(m) \in [P -> Nat]
    BY YearBytesType
<1>2. c \in SUBSET Years
    BY DEF CutAfter
<1>3. Begin(YearBytes(m), c)
    BY DEF StartLayout
<1> QED
    BY <1>1, <1>2, <1>3 DEF PlanNext

(* Every call of plan_periods the command makes is one PlanSpec describes,  *)
(* however the store came to be (cli.py:132-181).                           *)
THEOREM LayoutRunsPlanner == Spec => PlanSpec
<1>1. Init => Idle /\ Stored
    BY FS_EmptySet DEF Init, Stored
<1>2. Stored /\ [Next]_vars => [PlanNext]_planVars
  <2> SUFFICES ASSUME Stored, [Next]_vars PROVE [PlanNext]_planVars
    OBVIOUS
  <2>1. CASE \E ignore, recut \in BOOLEAN : StartLayout(ignore, recut)
    BY <2>1, StartLayoutPlans
  <2>2. CASE Planning \/ WriteLayout
    BY <2>2 DEF Planning, WriteLayout, PlanNext
  <2>3. CASE UNCHANGED planVars
    BY <2>3
  <2> QED
    BY <2>1, <2>2, <2>3
    DEF Next, Work, Backfill, Ingest, Catalog, Start, Take, CopyFile, Unlink,
        Fold, DeleteFile, MoveIn, NextTarget, Crash, vars
<1> QED
    BY <1>1, <1>2, StoredInductive, PTL DEF Spec, PlanSpec

(* Every plan the command makes tiles its years without a stub, and splits  *)
(* no run of years it was told to keep together (cli.py:154-180).           *)
THEOREM EveryLayoutIsSound == Spec => [](PlanTiles /\ PlanClearsFloor /\ PlanNests)
BY LayoutRunsPlanner, PlanIsATiling, PlanHasNoStub, PlanKeepsRunsWhole, PTL

-------------------------------------------------------------------------------
(* What every object is, and which of the move's variables hold something   *)
(* when.                                                                     *)
Bases == {ShardOf[k] : k \in Keys} \cup {"part-00000", "part-00001"}
Object ==
    [at : Periods, via : Seq(Periods), base : Bases, rows : (SUBSET Keys) \ {{}}]

Kinds ==
    /\ layout \subseteq Periods
    /\ files \subseteq Object /\ listed \subseteq Object
    /\ copied \subseteq Object /\ old \subseteq Object /\ staged \subseteq Object
    /\ moves \subseteq [src : Periods, dst : Periods]
    /\ todo \subseteq Periods
    /\ pc \in {"idle", "next", "move", "swap"}
    /\ pc \in {"move", "swap"} => target \in todo
    /\ pc # "move" => copied = {}
    /\ pc # "swap" => old = {} /\ staged = {}
    /\ stage # "idle" => pc = "idle"
    /\ pc = "idle" => moves = {} /\ todo = {}
    /\ pc # "idle" => ~ done

(* An object store: one object of a name.  A fold replaces what was there.  *)
Apart(f, g) == ~ SameName(f, g) /\ f.rows \cap g.rows = {}

Objects ==
    /\ \A f, g \in files : SameName(f, g) => f = g
    /\ \A m \in moves : m.src # m.dst
    /\ \A f \in copied : f \in files /\ Moved(f) \in files /\ f.at # target
    /\ copied = {} \/ \E f \in copied : copied = {f}
    /\ pc = "swap" =>
        /\ \A f \in staged : f.at = target
        /\ \A f, g \in (At(target) \ old) \cup staged : f # g => Apart(f, g)
        /\ Rows(old) \subseteq Rows(staged)

(* Two periods of the plan share no year.                                   *)
Separate(P) ==
    \A p, q \in P : \A y \in Int : Contains(p, y) /\ Contains(q, y) => p = q

(* What plan_periods was told while it runs, if the plan is to be sound:    *)
(* the years of each partition, and no cut between two of them.             *)
Told ==
    stage # "idle" /\ sound =>
        \A p \in Written : \A k, l \in Rows(At(p)) :
            /\ first <= YearOf[k] /\ YearOf[k] <= last
            /\ \A c \in cuts : ~ (YearOf[k] <= c /\ c < YearOf[l])

(* Each partition lies in one period, its own if it is one.                 *)
Holds(q, p) ==
    /\ \A k \in Rows(At(p)) : Contains(q, YearOf[k])
    /\ p \in layout => q = p
Nested == \A p \in Written : \E q \in layout : Holds(q, p)

Moving == tidy /\ pc # "idle"

Nesting ==
    /\ sound /\ pc # "idle" => tidy
    /\ (sound /\ stage = "idle") \/ Moving \/ (tidy /\ done) => Nested

Course ==
    Moving =>
        /\ todo \subseteq layout
        /\ \A m \in moves :
            /\ m.dst \in layout /\ m.src \notin layout
            /\ \A k \in Rows(At(m.src)) : Contains(m.dst, YearOf[k])
        /\ \A m, n \in moves : m.src = n.src => m = n
        /\ \A f \in files : f.at \notin layout =>
            /\ f \in listed
            /\ \E m \in moves : m.src = f.at /\ m.dst \in todo
        /\ \A p \in layout \ todo : \A f, g \in At(p) :
            f # g => f.rows \cap g.rows = {}
        /\ pc = "swap" =>
            /\ Sourced(files) = {}
            /\ \A f \in staged : \A k \in f.rows : Contains(target, YearOf[k])

Arrived ==
    tidy /\ done =>
        /\ \A f \in files : f.at \in layout
        /\ \A p \in layout : \A f, g \in At(p) : f # g => f.rows \cap g.rows = {}

Ground == Kinds /\ Objects /\ Separate(layout)
Tidiness == Nesting /\ Course /\ Arrived

RepartitionInv == Ground /\ Told /\ Tidiness

-------------------------------------------------------------------------------
(* A set of years that is not empty has a first one and a last one.         *)
LEMMA LeastNatural ==
    ASSUME NEW T \in SUBSET Nat, T # {}
    PROVE  \E n \in T : \A m \in T : n <= m
<1> DEFINE Less == OpToRel(<, Nat)
<1>1. IsWellFoundedOn(Less, Nat)
    BY NatLessThanWellFounded
<1>2. \A m, n \in Nat : m < n => <<m, n>> \in Less
    BY Zenon DEF OpToRel
<1> HIDE DEF Less
<1>3. PICK n \in T : \A m \in T : ~ (<<m, n>> \in Less)
    BY <1>1, WFMin
<1>4. \A m \in T : m \in Nat /\ ~ (m < n)
    BY <1>2, <1>3, Zenon
<1> QED
    BY <1>4

LEMMA YearsHaveEnds ==
    ASSUME NEW Y \in SUBSET Years, Y # {}
    PROVE  /\ \E y \in Y : \A z \in Y : y <= z
           /\ \E y \in Y : \A z \in Y : y >= z
<1>1. \A y \in Y : y \in Int /\ y - FirstYear \in Nat /\ LastYear - y \in Nat
    BY LayoutAssumption DEF Years
<1>2. \E y \in Y : \A z \in Y : y <= z
  <2> DEFINE T == {n \in Nat : \E y \in Y : n = y - FirstYear}
  <2>1. T \in SUBSET Nat /\ T # {}
    BY <1>1
  <2>2. PICK n \in T : \A m \in T : n <= m
    BY <2>1, LeastNatural
  <2>3. PICK y \in Y : n = y - FirstYear
    BY <2>2
  <2>4. \A z \in Y : z - FirstYear \in T
    BY <1>1
  <2> QED
    BY <1>1, <2>2, <2>3, <2>4, LayoutAssumption
<1>3. \E y \in Y : \A z \in Y : y >= z
  <2> DEFINE T == {n \in Nat : \E y \in Y : n = LastYear - y}
  <2>1. T \in SUBSET Nat /\ T # {}
    BY <1>1
  <2>2. PICK n \in T : \A m \in T : n <= m
    BY <2>1, LeastNatural
  <2>3. PICK y \in Y : n = LastYear - y
    BY <2>2
  <2>4. \A z \in Y : LastYear - z \in T
    BY <1>1
  <2> QED
    BY <1>1, <2>2, <2>3, <2>4, LayoutAssumption
<1> QED
    BY <1>2, <1>3

(* A partition has rows, and data_years is the first and last year of them. *)
LEMMA Ends ==
    ASSUME Kinds, NEW p \in Written
    PROVE  /\ YearsAt(p) \subseteq Years /\ YearsAt(p) # {}
           /\ FirstAt(p) \in YearsAt(p) /\ \A z \in YearsAt(p) : FirstAt(p) <= z
           /\ LastAt(p) \in YearsAt(p) /\ \A z \in YearsAt(p) : LastAt(p) >= z
<1>1. \A f \in files : f.rows \subseteq Keys /\ f.rows # {}
    BY DEF Kinds, Object
<1>2. YearsAt(p) \in SUBSET Years
    BY <1>1, RepartitionAssumption DEF YearsAt, Rows, At
<1>3. YearsAt(p) # {}
    BY <1>1 DEF YearsAt, Rows, At, Written
<1> QED
    BY <1>2, <1>3, YearsHaveEnds DEF FirstAt, LastAt

LEMMA RowsOf ==
    /\ \A F, k : k \in Rows(F) <=> \E f \in F : k \in f.rows
    /\ \A F, G : Rows(F \cup G) = Rows(F) \cup Rows(G)
BY DEF Rows

(* The writer puts each row into one of two files, of different names.      *)
LEMMA FoldedFacts ==
    ASSUME NEW p \in Periods, NEW R \in SUBSET Keys
    PROVE  /\ Folded(p, R) \subseteq Object
           /\ \A f \in Folded(p, R) : f.at = p
           /\ Rows(Folded(p, R)) = R
           /\ \A f, g \in Folded(p, R) : f # g => Apart(f, g)
<1> DEFINE head == {k \in R : Cardinality({j \in R : j < k}) < FileRows}
           a == [at |-> p, via |-> <<>>, base |-> "part-00000", rows |-> head]
           b == [at |-> p, via |-> <<>>, base |-> "part-00001", rows |-> R \ head]
<1>1. Folded(p, R) = {f \in {a, b} : f.rows # {}}
    BY DEF Folded
<1>2. /\ a.at = p /\ a.via = <<>> /\ a.base = "part-00000" /\ a.rows \subseteq R
      /\ b.at = p /\ b.via = <<>> /\ b.base = "part-00001" /\ b.rows = R \ a.rows
    OBVIOUS
<1>3. <<>> \in Seq(Periods) /\ {"part-00000", "part-00001"} \subseteq Bases
    BY DEF Bases
<1>4. a.rows # {} => a \in Object
    BY <1>2, <1>3 DEF Object
<1>5. b.rows # {} => b \in Object
    BY <1>2, <1>3 DEF Object
<1> HIDE DEF head, a, b
<1>6. \A f \in Folded(p, R) : f \in Object /\ f.at = p /\ f.rows \subseteq R
    BY <1>1, <1>2, <1>4, <1>5
<1>7. \A k \in R : \E f \in Folded(p, R) : k \in f.rows
    BY <1>1, <1>2
<1>8. Rows(Folded(p, R)) = R
    BY <1>6, <1>7, RowsOf
<1>9. Apart(a, b) /\ Apart(b, a)
    BY <1>2 DEF Apart, SameName
<1> QED
    BY <1>1, <1>6, <1>8, <1>9

LEMMA MovedFacts ==
    ASSUME NEW f \in Object, target \in Periods
    PROVE  /\ Moved(f) \in Object
           /\ Moved(f).at = target
           /\ Moved(f).via = Append(f.via, f.at)
           /\ Moved(f).base = f.base
           /\ Moved(f).rows = f.rows
<1> DEFINE v == Append(f.via, f.at)
           V == Seq(Periods)
           K == (SUBSET Keys) \ {{}}
<1>1. v \in V
    BY DEF Object
<1>2. Object = [at : Periods, via : V, base : Bases, rows : K]
    BY DEF Object
<1>3. Moved(f) = [f EXCEPT !.at = target, !.via = v]
    BY DEF Moved
<1> HIDE DEF v, V, K
<1>4. /\ Moved(f) \in Object
      /\ Moved(f).at = target /\ Moved(f).via = v
      /\ Moved(f).base = f.base /\ Moved(f).rows = f.rows
    BY <1>1, <1>2, <1>3
<1> QED
    BY <1>4 DEF v

LEMMA PeriodForIsPeriod ==
    ASSUME layout \subseteq Periods, NEW y \in Years
    PROVE  PeriodFor(y) \in Periods /\ Contains(PeriodFor(y), y)
<1>1. CASE \E p \in layout : Contains(p, y)
    BY <1>1 DEF PeriodFor
<1>2. CASE ~ \E p \in layout : Contains(p, y)
    BY <1>2, LayoutAssumption DEF PeriodFor, Periods, Contains, Years
<1> QED
    BY <1>1, <1>2

-------------------------------------------------------------------------------
LEMMA KindsInductive == ScanInv /\ Kinds /\ [Next]_vars => Kinds'
<1> SUFFICES ASSUME ScanInv, Kinds, [Next]_vars PROVE Kinds'
    OBVIOUS
<1> USE DEF Kinds
<1>1. ASSUME NEW p \in layout, Backfill(p) PROVE Kinds'
  <2> DEFINE rows(s) == {k \in Keys : Contains(p, YearOf[k]) /\ ShardOf[k] = s}
             file(s) == [at |-> p, via |-> <<>>, base |-> s, rows |-> rows(s)]
             S == {ShardOf[k] : k \in {j \in Keys : Contains(p, YearOf[j])}}
  <2>1. files' = files \cup {file(s) : s \in S}
    BY <1>1 DEF Backfill
  <2>2. \A s \in S : s \in Bases /\ rows(s) \subseteq Keys /\ rows(s) # {}
    BY DEF Bases
  <2>3. <<>> \in Seq(Periods) /\ p \in Periods
    OBVIOUS
  <2> HIDE DEF S, rows
  <2>4. \A s \in S : file(s) \in Object
    BY <2>2, <2>3 DEF Object
  <2> HIDE DEF file
  <2>5. files' \subseteq Object
    BY <2>1, <2>4
  <2> QED
    BY <1>1, <2>5 DEF Backfill, planVars
<1>2. ASSUME NEW k \in Keys, Ingest(k) PROVE Kinds'
  <2> DEFINE p == PeriodFor(YearOf[k])
             R == Rows(At(p)) \cup {k}
  <2>1. files' = (files \ At(p)) \cup Folded(p, R)
    BY <1>2 DEF Ingest
  <2>2. p \in Periods
    BY PeriodForIsPeriod, RepartitionAssumption
  <2>3. R \in SUBSET Keys
    BY DEF Rows, At, Object
  <2> HIDE DEF p, R
  <2>4. files' \subseteq Object
    BY <2>1, <2>2, <2>3, FoldedFacts
  <2> QED
    BY <1>2, <2>4 DEF Ingest, planVars
<1>3. CASE Catalog
    BY <1>3 DEF Catalog, planVars, moveVars
<1>4. ASSUME NEW ignore \in BOOLEAN, NEW recut \in BOOLEAN,
             StartLayout(ignore, recut)
      PROVE  Kinds'
    BY <1>4 DEF StartLayout, Quiet, moveVars
<1>5. CASE Planning
  <2>1. stage # "idle"
    BY <1>5 DEF Planning, PlanStep, ScanYear, SkipYear, CloseTail
  <2> QED
    BY <1>5, <2>1 DEF Planning, moveVars
<1>6. CASE WriteLayout
  <2>1. periods \subseteq Periods
    BY DEF ScanInv, ScanTypes
  <2> QED
    BY <1>6, <2>1 DEF WriteLayout, Return
<1>7. CASE Start
  <2>1. Written \subseteq Periods
    BY DEF Written, Object
  <2>2. Moves \subseteq [src : Periods, dst : Periods] /\ Pieces \subseteq Periods
        /\ {m.dst : m \in Moves} \subseteq Periods
    BY <2>1 DEF Moves, Pieces
  <2>3. todo' = {} => moves' = {}
    BY <1>7 DEF Start
  <2>4. Quiet /\ stage' = stage /\ pc' \in {"idle", "next"}
        /\ (pc' = "idle" => todo' = {})
    BY <1>7 DEF Start, planVars
  <2>5. /\ moves' \subseteq [src : Periods, dst : Periods] /\ todo' \subseteq Periods
        /\ listed' \subseteq Object
    BY <1>7, <2>2 DEF Start
  <2> QED
    BY <1>7, <2>3, <2>4, <2>5 DEF Start, Quiet
<1>8. ASSUME NEW t \in todo, Take(t) PROVE Kinds'
    BY <1>8 DEF Take, planVars
<1>9. ASSUME NEW f \in files, CopyFile(f) PROVE Kinds'
  <2>1. Moved(f) \in Object
    BY <1>9, MovedFacts DEF CopyFile
  <2>2. files' \subseteq Object /\ copied' \subseteq Object
    BY <1>9, <2>1 DEF CopyFile
  <2> QED
    BY <1>9, <2>2 DEF CopyFile, planVars
<1>10. ASSUME NEW f \in files, Unlink(f) PROVE Kinds'
    BY <1>10 DEF Unlink, planVars
<1>11. CASE Fold
  <2>1. target \in Periods /\ Rows(At(target)) \in SUBSET Keys
    BY <1>11 DEF Fold, Rows, At, Object
  <2>2. staged' \subseteq Object
    BY <1>11, <2>1, FoldedFacts DEF Fold
  <2> QED
    BY <1>11, <2>2 DEF Fold, At, planVars
<1>12. ASSUME NEW f \in files, DeleteFile(f) PROVE Kinds'
    BY <1>12 DEF DeleteFile, planVars
<1>13. ASSUME NEW f \in staged, MoveIn(f) PROVE Kinds'
    BY <1>13 DEF MoveIn, planVars
<1>14. CASE NextTarget
    BY <1>14 DEF NextTarget, planVars
<1>15. CASE Crash
    BY <1>15 DEF Crash, planVars
<1>16. CASE UNCHANGED vars
    BY <1>16 DEF vars, moveVars, planVars
<1> QED
    BY <1>1, <1>2, <1>3, <1>4, <1>5, <1>6, <1>7, <1>8, <1>9, <1>10, <1>11, <1>12,
       <1>13, <1>14, <1>15, <1>16 DEF Next, Work

-------------------------------------------------------------------------------
LEMMA ObjectsInductive == Kinds /\ Objects /\ [Next]_vars => Objects'
<1> SUFFICES ASSUME Kinds, Objects, [Next]_vars PROVE Objects'
    OBVIOUS
<1>1. ASSUME NEW p \in layout, Backfill(p) PROVE Objects'
  <2> DEFINE rows(s) == {k \in Keys : Contains(p, YearOf[k]) /\ ShardOf[k] = s}
             file(s) == [at |-> p, via |-> <<>>, base |-> s, rows |-> rows(s)]
             S == {ShardOf[k] : k \in {j \in Keys : Contains(p, YearOf[j])}}
  <2>1. files' = files \cup {file(s) : s \in S}
    BY <1>1 DEF Backfill
  <2>2. \A s \in S : file(s).at = p /\ file(s).base = s
    OBVIOUS
  <2>3. \A f \in files : f.at # p
    BY <1>1 DEF Backfill, Written
  <2> HIDE DEF S, rows, file
  <2>4. \A f, g \in files' : SameName(f, g) => f = g
    BY <2>1, <2>2, <2>3 DEF Objects, SameName
  <2> QED
    BY <1>1, <2>4 DEF Backfill, Quiet, Kinds, Objects
<1>2. ASSUME NEW k \in Keys, Ingest(k) PROVE Objects'
  <2> DEFINE p == PeriodFor(YearOf[k])
             R == Rows(At(p)) \cup {k}
  <2>1. files' = (files \ At(p)) \cup Folded(p, R)
    BY <1>2 DEF Ingest
  <2>2. p \in Periods
    BY PeriodForIsPeriod, RepartitionAssumption DEF Kinds
  <2>3. R \in SUBSET Keys
    BY DEF Kinds, Rows, At, Object
  <2> HIDE DEF p, R
  <2>4. \A f, g \in files' : SameName(f, g) => f = g
    BY <2>1, <2>2, <2>3, FoldedFacts DEF Objects, SameName, Apart, At
  <2> QED
    BY <1>2, <2>4 DEF Ingest, Quiet, Kinds, Objects
<1>3. CASE Start
  <2>1. \A m \in Moves : m.src # m.dst
    BY DEF Moves
  <2> QED
    BY <1>3, <2>1 DEF Start, Quiet, Kinds, Objects
<1>4. ASSUME NEW t \in todo, Take(t) PROVE Objects'
    BY <1>4 DEF Take, Kinds, Objects
<1>5. ASSUME NEW f \in files, CopyFile(f) PROVE Objects'
  <2>1. PICK g \in Sourced(listed) : SameName(f, g)
    BY <1>5 DEF CopyFile
  <2>2. f.at # target
    BY <2>1 DEF Sourced, SameName, Objects
  <2>3. Moved(f).at = target
    BY <1>5, MovedFacts DEF CopyFile, Kinds
  <2>4. ~ SameName(f, Moved(f))
    BY <2>2, <2>3 DEF SameName
  <2>5. /\ files' = {h \in files : ~ SameName(h, Moved(f))} \cup {Moved(f)}
        /\ copied' = {f} /\ UNCHANGED <<target, moves, old, staged, pc>> /\ pc = "move"
    BY <1>5 DEF CopyFile
  <2>6. \A h, i \in files' : SameName(h, i) => h = i
    BY <2>5 DEF Objects, SameName
  <2>7. Moved(f)' = Moved(f)
    BY <2>5 DEF Moved
  <2> QED
    BY <2>2, <2>4, <2>5, <2>6, <2>7 DEF Objects
<1>6. ASSUME NEW f \in files, Unlink(f) PROVE Objects'
  <2>1. pc = "move"
    BY <1>6 DEF Unlink, Kinds
  <2> QED
    BY <1>6, <2>1 DEF Unlink, Objects
<1>7. CASE Fold
  <2> DEFINE R == Rows(At(target))
  <2>1. target \in Periods /\ R \in SUBSET Keys
    BY <1>7 DEF Fold, Rows, At, Object, Kinds
  <2>2. /\ files' \subseteq files /\ staged' = Folded(target, R) /\ old' = At(target)
        /\ copied' = {} /\ UNCHANGED <<moves, target>>
    BY <1>7 DEF Fold
  <2> HIDE DEF R
  <2>3. /\ \A f \in staged' : f.at = target'
        /\ \A f, g \in staged' : f # g => Apart(f, g)
        /\ Rows(staged') = R
    BY <2>1, <2>2, FoldedFacts
  <2>4. At(target)' \ old' = {}
    BY <2>2 DEF At
  <2>5. Rows(old') = R
    BY <2>2 DEF R
  <2> QED
    BY <2>2, <2>3, <2>4, <2>5 DEF Objects
<1>8. ASSUME NEW f \in files, DeleteFile(f) PROVE Objects'
  <2>1. /\ files' = files \ {f} /\ old' = old \ {f} /\ copied = {} /\ pc = "swap"
        /\ UNCHANGED <<moves, target, staged, copied, pc>>
    BY <1>8 DEF DeleteFile, Kinds
  <2>2. At(target)' \ old' \subseteq At(target) \ old
    BY <2>1 DEF At
  <2>3. Rows(old') \subseteq Rows(old)
    BY <2>1 DEF Rows
  <2> QED
    BY <2>1, <2>2, <2>3 DEF Objects
<1>9. ASSUME NEW f \in staged, MoveIn(f) PROVE Objects'
  <2>1. /\ files' = files \cup {f} /\ staged' = staged \ {f} /\ copied = {}
        /\ old = {} /\ pc = "swap"
        /\ UNCHANGED <<moves, target, old, copied, pc>>
    BY <1>9 DEF MoveIn, Kinds
  <2>2. (At(target)' \ old') \cup staged' \subseteq (At(target) \ old) \cup staged
    BY <2>1 DEF At
  <2>3. ASSUME NEW g \in files, SameName(f, g) \/ SameName(g, f) PROVE f = g
    <3>1. g \in At(target) \ old
      BY <2>1, <2>3 DEF SameName, At, Objects
    <3> QED
      BY <2>1, <2>3, <3>1 DEF Objects, Apart
  <2>4. \A h, i \in files' : SameName(h, i) => h = i
    BY <2>1, <2>3 DEF Objects
  <2>5. Rows(old') \subseteq Rows(staged')
    BY <2>1 DEF Rows
  <2> QED
    BY <2>1, <2>2, <2>4, <2>5 DEF Objects
<1>10. CASE NextTarget
    BY <1>10 DEF NextTarget, Kinds, Objects
<1>11. CASE Crash
    BY <1>11 DEF Crash, Objects
<1>12. CASE UNCHANGED <<files, pc, moves, target, copied, old, staged>>
    BY <1>12 DEF Objects, Moved, At
<1> QED
    BY <1>1, <1>2, <1>3, <1>4, <1>5, <1>6, <1>7, <1>8, <1>9, <1>10, <1>11, <1>12
    DEF Next, Work, Catalog, StartLayout, Planning, WriteLayout, vars, moveVars

-------------------------------------------------------------------------------
LEMMA PlanIsSeparate ==
    ASSUME ScanInv, stage = "planned"
    PROVE  Separate(periods)
<1>1. /\ Within(periods) /\ periods \subseteq Periods
      /\ first \in Int /\ last \in Int
      /\ \A y \in first .. last :
            \A p, q \in periods : Contains(p, y) /\ Contains(q, y) => p = q
    BY LayoutAssumption DEF ScanInv, ScanTypes, PlanTiles, Years
<1> SUFFICES ASSUME NEW p \in periods, NEW q \in periods, NEW y \in Int,
                    Contains(p, y), Contains(q, y)
             PROVE  p = q
    BY DEF Separate
<1>2. p.lo \in Int /\ p.hi \in Int /\ first <= p.lo /\ p.hi <= last
    BY <1>1, LayoutAssumption DEF Within, Periods, Years
<1>3. y \in first .. last
    BY <1>1, <1>2 DEF Contains
<1> QED
    BY <1>1, <1>3

LEMMA SeparateInductive ==
    ScanInv /\ Separate(layout) /\ [Next]_vars => Separate(layout)'
<1> SUFFICES ASSUME ScanInv, Separate(layout), [Next]_vars PROVE Separate(layout')
    BY DEF Separate
<1>1. CASE WriteLayout
    BY <1>1, PlanIsSeparate DEF WriteLayout, Return
<1>2. CASE UNCHANGED layout
    BY <1>2
<1> QED
    BY <1>1, <1>2
    DEF Next, Work, Backfill, Ingest, Catalog, StartLayout, Planning, Start, Take,
        CopyFile, Unlink, Fold, DeleteFile, MoveIn, NextTarget, Crash, vars

(* What the layout command tells the planner of each partition.              *)
LEMMA StartLayoutTells ==
    ASSUME Kinds, NEW ignore \in BOOLEAN, NEW recut \in BOOLEAN,
           StartLayout(ignore, recut)
    PROVE  Told'
<1> SUFFICES ASSUME sound', NEW p \in Written, NEW k \in Rows(At(p)),
                    NEW l \in Rows(At(p))
             PROVE  /\ first' <= YearOf[k] /\ YearOf[k] <= last'
                    /\ \A c \in cuts' : ~ (YearOf[k] <= c /\ c < YearOf[l])
    BY DEF StartLayout, Told, Written, Rows, At
<1>1. manifest = Spans /\ ~ ignore /\ ~ recut /\ Disjoint
    BY DEF StartLayout
<1>2. manifest # {}
    BY <1>1 DEF Spans
<1>3. Begin(YearBytes(Measured), CutAfter)
    BY <1>1, <1>2 DEF StartLayout
<1>4. \A q \in Written : /\ FirstAt(q) \in Int /\ LastAt(q) \in Int
                         /\ FirstAt(q) <= LastAt(q)
  <2> TAKE q \in Written
  <2>1. FirstAt(q) \in Years /\ LastAt(q) \in Years /\ FirstAt(q) <= LastAt(q)
    BY Ends
  <2> QED
    BY <2>1, LayoutAssumption DEF Years
<1>5. /\ YearOf[k] \in YearsAt(p) /\ YearOf[l] \in YearsAt(p)
      /\ YearOf[k] \in Int /\ YearOf[l] \in Int
  <2>1. YearOf[k] \in YearsAt(p) /\ YearOf[l] \in YearsAt(p)
    BY DEF YearsAt
  <2> QED
    BY <2>1, Ends, LayoutAssumption DEF Years
<1>6. FirstAt(p) <= YearOf[k] /\ YearOf[l] <= LastAt(p)
    BY <1>4, <1>5, Ends
<1>7. first' <= YearOf[k] /\ YearOf[k] <= last'
  <2>1. PICK f \in At(p) : k \in f.rows
    BY RowsOf
  <2>2. f \in files /\ k \in Keys
    BY <2>1 DEF At, Kinds, Object
  <2>3. <<f, k>> \in RowsIn(YearOf[k])
    BY <2>1, <2>2 DEF RowsIn
  <2>4. YearOf[k] \in Measured
    BY <1>5, <2>3, Ends DEF Measured
  <2>5. YearOf[k] \in DOMAIN YearBytes(Measured)
    BY <2>4 DEF YearBytes
  <2> QED
    BY <1>3, <2>5 DEF Begin
<1>8. ASSUME NEW c \in CutAfter, YearOf[k] <= c, c < YearOf[l]
      PROVE  FALSE
  <2> DEFINE ends == {m.hi : m \in manifest}
  <2>1. \A q \in Written : LastAt(q) \in ends
    <3> TAKE q \in Written
    <3>1. PICK m \in manifest : m = [at |-> q, hi |-> LastAt(q)]
      BY <1>1 DEF Spans
    <3>2. m.hi = LastAt(q)
      BY <3>1
    <3> QED
      BY <3>2
  <2>2. c \in Int
    BY LayoutAssumption DEF CutAfter, Years
  <2>3. CASE \A e \in ends : c > e
    <3>1. c > LastAt(p)
      BY <2>1, <2>3
    <3> QED
      BY <1>4, <1>5, <1>6, <1>8, <2>2, <3>1
  <2>4. CASE c \in ends
    <3>1. PICK q \in Written : c = LastAt(q)
      BY <1>1, <2>4 DEF Spans
    <3>2. CASE q = p
      BY <1>4, <1>5, <1>6, <1>8, <3>1, <3>2
    <3>3. CASE q # p
      <4>1. LastAt(p) < FirstAt(q) \/ LastAt(q) < FirstAt(p)
        BY <1>1, <3>3 DEF Disjoint
      <4> QED
        BY <1>4, <1>5, <1>6, <1>8, <3>1, <4>1
    <3> QED
      BY <3>2, <3>3
  <2> QED
    BY <2>3, <2>4 DEF CutAfter
<1> QED
    BY <1>3, <1>7, <1>8 DEF Begin

LEMMA ToldInductive == Kinds /\ Told /\ [Next]_vars => Told'
<1> SUFFICES ASSUME Kinds, Told, [Next]_vars PROVE Told'
    OBVIOUS
<1>1. CASE \E ignore, recut \in BOOLEAN : StartLayout(ignore, recut)
    BY <1>1, StartLayoutTells
<1>2. CASE Planning
  <2>1. stage # "idle" /\ UNCHANGED <<first, last, cuts, sound, files>>
    BY <1>2 DEF Planning, PlanStep, ScanYear, SkipYear, CloseTail
  <2> QED
    BY <2>1 DEF Told, Written, Rows, At
<1>3. CASE stage' = "idle"
    BY <1>3 DEF Told
<1>4. CASE UNCHANGED <<stage, first, last, cuts, sound, files>>
    BY <1>4 DEF Told, Written, Rows, At
<1>5. stage = "idle" => stage' = "idle" \/ Planning
                        \/ \E ignore, recut \in BOOLEAN : StartLayout(ignore, recut)
    BY DEF Next, Work, Backfill, Ingest, Catalog, Start, Take, CopyFile, WriteLayout,
           Return, Unlink, Fold, DeleteFile, MoveIn, NextTarget, Crash, vars, planVars
<1>6. stage # "idle" =>
        \/ Planning
        \/ stage' = "idle"
        \/ UNCHANGED <<stage, first, last, cuts, sound, files>>
    BY DEF Next, Work, Backfill, Ingest, Catalog, StartLayout, Start, Take, CopyFile,
           Unlink, Fold, DeleteFile, MoveIn, NextTarget, Crash, vars, planVars,
           WriteLayout, Return, Quiet, Kinds
<1> QED
    BY <1>1, <1>2, <1>3, <1>4, <1>5, <1>6

-------------------------------------------------------------------------------
LEMMA PeriodsAreFinite == \A P \in SUBSET Periods : IsFiniteSet(P)
<1> DEFINE pair == [z \in Years \X Years |-> [lo |-> z[1], hi |-> z[2]]]
           all == [lo : Years, hi : Years]
<1>1. IsFiniteSet(Years)
    BY LayoutAssumption, FS_Interval DEF Years
<1>2. IsFiniteSet(Years \X Years)
    BY <1>1, FS_Product
<1>3. pair \in Surjection(Years \X Years, all)
  <2>1. pair \in [Years \X Years -> all]
    OBVIOUS
  <2>2. ASSUME NEW p \in all PROVE \E z \in Years \X Years : pair[z] = p
    <3>1. p.lo \in Years /\ p.hi \in Years /\ p = [lo |-> p.lo, hi |-> p.hi]
      OBVIOUS
    <3>2. <<p.lo, p.hi>> \in Years \X Years /\ pair[<<p.lo, p.hi>>] = p
      BY <3>1
    <3> QED
      BY <3>2
  <2> QED
    BY <2>1, <2>2 DEF Surjection
<1>4. IsFiniteSet(all)
    BY <1>2, <1>3, FS_Surjection
<1> QED
    BY <1>4, FS_Subset DEF Periods

LEMMA BetweenEnds ==
    ASSUME Kinds, NEW p \in Written, NEW q \in Periods
    PROVE  Contains(q, FirstAt(p)) /\ Contains(q, LastAt(p))
             <=> \A k \in Rows(At(p)) : Contains(q, YearOf[k])
<1>1. q.lo \in Int /\ q.hi \in Int
    BY LayoutAssumption DEF Periods, Years
<1>2. \A y \in YearsAt(p) : y \in Int
    BY Ends, LayoutAssumption DEF Years
<1>3. YearsAt(p) = {YearOf[k] : k \in Rows(At(p))}
    BY DEF YearsAt
<1>4. Contains(q, FirstAt(p)) /\ Contains(q, LastAt(p))
        <=> \A y \in YearsAt(p) : Contains(q, y)
    BY <1>1, <1>2, Ends DEF Contains
<1> QED
    BY <1>3, <1>4

(* A partition that lies in one period has that period for its one holder.  *)
LEMMA HolderOfNested ==
    ASSUME Kinds, Separate(layout), NEW p \in Written, NEW q \in layout,
           \A k \in Rows(At(p)) : Contains(q, YearOf[k])
    PROVE  Holders(p) = {q}
<1>1. Contains(q, FirstAt(p)) /\ Contains(q, LastAt(p))
    BY BetweenEnds DEF Kinds
<1>2. FirstAt(p) \in Int /\ LastAt(p) \in Int
    BY Ends, LayoutAssumption DEF Years
<1> QED
    BY <1>1, <1>2 DEF Holders, Separate

LEMMA NestedApplies ==
    ASSUME Kinds, Separate(layout), Nested
    PROVE  /\ Applies
           /\ Strays(layout) = {}
           /\ \A k \in Rows(files) : \E p \in layout : Contains(p, YearOf[k])
<1>1. ASSUME NEW p \in Written PROVE Cardinality(Holders(p)) = 1
  <2>1. PICK q \in layout : Holds(q, p)
    BY DEF Nested
  <2> QED
    BY <2>1, HolderOfNested, FS_Singleton DEF Holds
<1>2. Strays(layout) = {}
    BY DEF Strays, Nested, Holds
<1>3. ASSUME NEW k \in Rows(files)
      PROVE  \E p \in layout : Contains(p, YearOf[k])
  <2>1. PICK f \in files : k \in f.rows
    BY RowsOf
  <2>2. f.at \in Written /\ k \in Rows(At(f.at))
    BY <2>1, RowsOf DEF Written, At
  <2> QED
    BY <2>2 DEF Nested, Holds
<1> QED
    BY <1>1, <1>2, <1>3 DEF Applies

LEMMA AppliesNested ==
    ASSUME Kinds, Separate(layout), Applies, Strays(layout) = {},
           \A k \in Rows(files) : \E p \in layout : Contains(p, YearOf[k])
    PROVE  Nested
<1> SUFFICES ASSUME NEW p \in Written PROVE \E q \in layout : Holds(q, p)
    BY DEF Nested
<1>1. IsFiniteSet(Holders(p))
    BY PeriodsAreFinite DEF Holders, Kinds
<1>2. PICK q : Holders(p) = {q}
    BY <1>1, FS_Singleton DEF Applies
<1>3. q \in layout /\ q \in Periods
    BY <1>2 DEF Holders, Kinds
<1>4. \A y \in YearsAt(p) : \E r \in layout : Contains(r, y)
  <2>1. Rows(At(p)) \subseteq Rows(files)
    BY DEF Rows, At
  <2> QED
    BY <2>1 DEF YearsAt
<1>5. Contains(q, FirstAt(p)) /\ Contains(q, LastAt(p))
    BY <1>2, <1>4, Ends DEF Holders
<1>6. \A k \in Rows(At(p)) : Contains(q, YearOf[k])
    BY <1>3, <1>5, BetweenEnds
<1>7. ASSUME p \in layout PROVE q = p
  <2>1. \A k \in Rows(At(p)) : Contains(p, YearOf[k])
    BY <1>7 DEF Strays
  <2> QED
    BY <1>2, <1>7, <2>1, HolderOfNested
<1> QED
    BY <1>3, <1>6, <1>7 DEF Holds

(* What plan_moves decides when each partition lies in one period.           *)
LEMMA MovesNest ==
    ASSUME Kinds, Separate(layout), Nested
    PROVE  /\ \A m \in Moves :
                /\ m.dst \in layout /\ m.src \notin layout
                /\ \A k \in Rows(At(m.src)) : Contains(m.dst, YearOf[k])
           /\ \A m, n \in Moves : m.src = n.src => m = n
           /\ \A p \in Written \ layout : \E m \in Moves : m.src = p
           /\ Pieces \subseteq layout
<1>1. \A p \in Written : \E q \in layout : Holds(q, p) /\ Holders(p) = {q}
    BY HolderOfNested DEF Nested, Holds
<1>2. ASSUME NEW m \in Moves
      PROVE  /\ m.src \in Written /\ m.dst \in layout /\ Holders(m.src) = {m.dst}
             /\ m = [src |-> m.src, dst |-> m.dst]
             /\ Holds(m.dst, m.src) /\ m.src # m.dst
    BY <1>1 DEF Moves
<1>3. \A m \in Moves : m.src \notin layout
    BY <1>2 DEF Holds
<1>4. \A m, n \in Moves : m.src = n.src => m = n
  <2> TAKE m, n \in Moves
  <2>1. m.src = n.src => m.dst = n.dst
    BY <1>2
  <2> QED
    BY <1>2, <2>1
<1>5. ASSUME NEW p \in Written \ layout PROVE \E m \in Moves : m.src = p
  <2>1. PICK q \in layout : Holders(p) = {q}
    BY <1>1
  <2>2. [src |-> p, dst |-> q] \in Moves
    BY <2>1 DEF Moves
  <2> QED
    BY <2>2
<1>6. Pieces \subseteq layout
    BY <1>5 DEF Pieces
<1> QED
    BY <1>2, <1>3, <1>4, <1>5, <1>6 DEF Holds

-------------------------------------------------------------------------------
(* Partitions stay where they belong when files go, and when rows of its    *)
(* own years come to a period of the plan.                                  *)
LEMMA NestedGrows ==
    ASSUME Nested, layout' = layout, NEW t \in layout,
           \A f \in files' : \/ f \in files
                             \/ /\ f.at = t
                                /\ \A k \in f.rows : Contains(t, YearOf[k])
    PROVE  Nested'
<1> SUFFICES ASSUME NEW p \in Written'
             PROVE  \E q \in layout :
                        /\ \A f \in files' : f.at = p =>
                                \A k \in f.rows : Contains(q, YearOf[k])
                        /\ p \in layout => q = p
    BY DEF Nested, Holds, Rows, At
<1>1. \A q \in layout, f \in files : Holds(q, f.at) =>
            \A k \in f.rows : Contains(q, YearOf[k])
    BY DEF Holds, Rows, At
<1>2. CASE p = t
  <2>1. ASSUME NEW f \in files, f.at = t
        PROVE  \A k \in f.rows : Contains(t, YearOf[k])
    <3>1. f.at \in Written
      BY DEF Written
    <3>2. PICK q \in layout : Holds(q, f.at)
      BY <3>1 DEF Nested
    <3>3. q = t
      BY <2>1, <3>2 DEF Holds
    <3> QED
      BY <1>1, <3>2, <3>3
  <2> QED
    BY <1>2, <2>1
<1>3. CASE p # t
  <2>1. p \in Written
    BY <1>3 DEF Written
  <2>2. PICK q \in layout : Holds(q, p)
    BY <2>1 DEF Nested
  <2>3. p \in layout => q = p
    BY <2>2 DEF Holds
  <2> QED
    BY <1>1, <1>3, <2>2, <2>3
<1> QED
    BY <1>2, <1>3

LEMMA NestedShrinks ==
    ASSUME Nested, layout' = layout, files' \subseteq files
    PROVE  Nested'
BY DEF Nested, Holds, Written, Rows, At

LEMMA BackfillTidy ==
    ASSUME Ground, Tidiness, NEW p \in layout, Backfill(p)
    PROVE  Tidiness'
<1>1. /\ pc = "idle" /\ pc' = "idle" /\ done' = FALSE
      /\ UNCHANGED <<layout, sound, stage>>
    BY DEF Backfill, Quiet, planVars
<1>2. Course' /\ Arrived'
    BY <1>1 DEF Course, Moving, Arrived
<1>3. \A f \in files' : \/ f \in files
                        \/ /\ f.at = p
                           /\ \A k \in f.rows : Contains(p, YearOf[k])
  <2> DEFINE rows(s) == {k \in Keys : Contains(p, YearOf[k]) /\ ShardOf[k] = s}
             file(s) == [at |-> p, via |-> <<>>, base |-> s, rows |-> rows(s)]
             S == {ShardOf[k] : k \in {j \in Keys : Contains(p, YearOf[j])}}
  <2>1. files' = files \cup {file(s) : s \in S}
    BY DEF Backfill
  <2>2. \A s \in S : file(s).at = p /\ \A k \in file(s).rows : Contains(p, YearOf[k])
    OBVIOUS
  <2> HIDE DEF file, S
  <2> QED
    BY <2>1, <2>2
<1>4. Nesting'
    BY <1>1, <1>3, NestedGrows DEF Tidiness, Nesting, Moving
<1> QED
    BY <1>2, <1>4 DEF Tidiness

LEMMA IngestTidy ==
    ASSUME Ground, Tidiness, NEW k \in Keys, Ingest(k)
    PROVE  Tidiness'
<1> DEFINE p == PeriodFor(YearOf[k])
           R == Rows(At(p)) \cup {k}
<1>1. /\ pc = "idle" /\ pc' = "idle" /\ done' = FALSE /\ stage = "idle"
      /\ sound' => sound /\ p \in layout
      /\ files' = (files \ At(p)) \cup Folded(p, R)
      /\ UNCHANGED <<layout, stage>>
    BY DEF Ingest, Quiet, planVars
<1>2. Course' /\ Arrived'
    BY <1>1 DEF Course, Moving, Arrived
<1>3. p \in Periods /\ Contains(p, YearOf[k])
    BY PeriodForIsPeriod, RepartitionAssumption DEF Ground, Kinds
<1>4. R \in SUBSET Keys
    BY DEF Ground, Kinds, Rows, At, Object
<1>5. ASSUME sound' PROVE Nested'
  <2>1. Nested /\ p \in layout
    BY <1>1, <1>5 DEF Tidiness, Nesting
  <2>2. \A l \in R : Contains(p, YearOf[l])
    <3>1. ASSUME NEW l \in Rows(At(p)) PROVE Contains(p, YearOf[l])
      <4>1. p \in Written
        BY DEF Rows, At, Written
      <4> QED
        BY <2>1, <4>1 DEF Nested, Holds
    <3> QED
      BY <1>3, <3>1
  <2>3. \A f \in Folded(p, R) : f.at = p /\ f.rows \subseteq R
    <3> HIDE DEF R
    <3>1. Rows(Folded(p, R)) = R /\ \A f \in Folded(p, R) : f.at = p
      BY <1>3, <1>4, FoldedFacts
    <3> QED
      BY <3>1 DEF Rows
  <2> HIDE DEF p, R
  <2>4. \A f \in files' : \/ f \in files
                          \/ /\ f.at = p
                             /\ \A l \in f.rows : Contains(p, YearOf[l])
    BY <1>1, <2>2, <2>3
  <2> QED
    BY <1>1, <2>1, <2>4, NestedGrows
<1>6. Nesting'
    BY <1>1, <1>5 DEF Nesting, Moving
<1> QED
    BY <1>2, <1>6 DEF Tidiness

LEMMA WriteLayoutTidy ==
    ASSUME ScanInv, Ground, Told, Tidiness, WriteLayout
    PROVE  Tidiness'
<1>1. /\ pc = "idle" /\ pc' = "idle" /\ done' = FALSE
      /\ stage = "planned" /\ layout' = periods
      /\ sound' => sound /\ Strays(periods) = {}
      /\ UNCHANGED files
    BY DEF WriteLayout, Return, Ground, Kinds
<1>2. Course' /\ Arrived'
    BY <1>1 DEF Course, Moving, Arrived
<1>3. ASSUME sound' PROVE Nested'
  <2> SUFFICES ASSUME NEW p \in Written
               PROVE  \E q \in periods :
                        /\ \A k \in Rows(At(p)) : Contains(q, YearOf[k])
                        /\ p \in periods => q = p
    BY <1>1 DEF Nested, Holds, Written, Rows, At
  <2>1. \A k, l \in Rows(At(p)) :
            /\ first <= YearOf[k] /\ YearOf[k] <= last
            /\ \A c \in cuts : ~ (YearOf[k] <= c /\ c < YearOf[l])
    BY <1>1, <1>3 DEF Told
  <2>2. /\ FirstAt(p) \in YearsAt(p) /\ LastAt(p) \in YearsAt(p)
        /\ FirstAt(p) <= LastAt(p)
        /\ FirstAt(p) \in Int /\ LastAt(p) \in Int
    BY Ends, LayoutAssumption DEF Ground, Years
  <2>3. /\ FirstAt(p) \in first .. last /\ LastAt(p) \in first .. last
        /\ \A c \in cuts : ~ (FirstAt(p) <= c /\ c < LastAt(p))
    BY <2>1, <2>2 DEF YearsAt
  <2>4. PICK q \in periods : Contains(q, FirstAt(p)) /\ Contains(q, LastAt(p))
    BY <1>1, <2>2, <2>3 DEF ScanInv, PlanNests
  <2>5. q \in Periods
    BY DEF ScanInv, ScanTypes
  <2>6. \A k \in Rows(At(p)) : Contains(q, YearOf[k])
    BY <2>4, <2>5, BetweenEnds DEF Ground
  <2>7. ASSUME p \in periods PROVE q = p
    <3>1. \A k \in Rows(At(p)) : Contains(p, YearOf[k])
      BY <1>1, <1>3, <2>7 DEF Strays
    <3>2. p \in Periods
      BY <2>7 DEF ScanInv, ScanTypes
    <3>3. Contains(p, FirstAt(p))
      BY <3>1, <3>2, BetweenEnds DEF Ground
    <3> QED
      BY <1>1, <2>2, <2>4, <2>7, <3>3, PlanIsSeparate DEF Separate
  <2> QED
    BY <2>6, <2>7
<1>4. Nesting'
    BY <1>1, <1>3 DEF Nesting, Moving
<1> QED
    BY <1>2, <1>4 DEF Tidiness

(* Neither the manifest nor a planner that is not done moves anything.       *)
LEMMA AsideTidy ==
    ASSUME Ground, Tidiness,
           \/ Catalog
           \/ \E ignore, recut \in BOOLEAN : StartLayout(ignore, recut)
           \/ Planning
           \/ UNCHANGED vars
    PROVE  Tidiness'
<1>1. UNCHANGED <<layout, files, moveVars>>
    BY DEF Catalog, StartLayout, Planning, vars
<1>2. \/ UNCHANGED <<sound, stage>>
      \/ stage' # "idle" /\ pc = "idle"
    BY DEF Catalog, StartLayout, Planning, vars, planVars, Begin, Quiet, Ground, Kinds,
           PlanStep, ScanYear, SkipYear, CloseTail
<1>3. UNCHANGED <<Nested, Moving, Course, Arrived>>
    BY <1>1 DEF moveVars, Nested, Holds, Written, Rows, At, Moving, Course, Arrived,
                Sourced
<1>4. Nesting'
    BY <1>1, <1>2, <1>3 DEF Tidiness, Nesting, moveVars, Moving
<1> QED
    BY <1>3, <1>4 DEF Tidiness

-------------------------------------------------------------------------------
LEMMA OneFile ==
    ASSUME Stored, NEW p \in layout, p \notin Pieces,
           \A m \in Moves : p # m.src /\ p # m.dst,
           NEW f \in At(p), NEW g \in At(p)
    PROVE  f = g
<1> SUFFICES ASSUME f # g PROVE FALSE
    OBVIOUS
<1>1. p \in Written
    BY DEF Written, At
<1>2. IsFiniteSet(At(p)) /\ Cardinality(At(p)) \in Nat
    BY FS_Subset, FS_CardinalityType DEF Stored, At
<1>3. Cardinality({f} \cup {g}) = 2
  <2> DEFINE S == {f}
  <2>1. IsFiniteSet(S) /\ Cardinality(S) = 1 /\ g \notin S
    BY FS_Singleton
  <2> HIDE DEF S
  <2>2. Cardinality(S \cup {g}) = 1 + 1
    BY <2>1, FS_AddElement
  <2> QED
    BY <2>2 DEF S
<1>4. {f} \cup {g} \in SUBSET At(p)
    OBVIOUS
<1>5. Cardinality({f} \cup {g}) <= Cardinality(At(p))
    BY <1>2, <1>4, FS_Subset
<1> QED
    BY <1>1, <1>2, <1>3, <1>5 DEF Pieces

LEMMA StartTidy ==
    ASSUME Stored, Ground, Tidiness, Start
    PROVE  Tidiness'
<1>1. /\ pc = "idle" /\ stage = "idle" /\ Applies
      /\ moves' = Moves /\ todo' = {m.dst : m \in Moves} \cup Pieces
      /\ todo' # {} => listed' = files
      /\ pc' = IF todo' = {} THEN "idle" ELSE "next"
      /\ done' = (todo' = {})
      /\ UNCHANGED <<layout, files, sound, stage>>
    BY DEF Start, Quiet, planVars
<1>2. tidy' = /\ \A k \in Rows(files) : \E p \in layout : Contains(p, YearOf[k])
              /\ Strays(layout) = {}
    BY DEF Start
<1>3. sound => Nested
    BY <1>1 DEF Tidiness, Nesting
<1>4. sound => tidy'
    BY <1>2, <1>3, NestedApplies DEF Ground
<1>5. tidy' => Nested
    BY <1>1, <1>2, AppliesNested DEF Ground
<1>6. Nested => Nested'
    BY <1>1, NestedShrinks
<1>7. Nesting'
    BY <1>1, <1>3, <1>4, <1>5, <1>6 DEF Nesting, Moving
<1>8. ASSUME tidy', NEW p \in layout \ todo', NEW f \in At(p), NEW g \in At(p)
      PROVE  f = g
  <2>1. \A m \in Moves : p # m.src /\ p # m.dst
    BY <1>1, <1>5, <1>8, MovesNest DEF Ground
  <2>2. p \notin Pieces
    BY <1>1
  <2> QED
    BY <2>1, <2>2, OneFile
<1>9. ASSUME tidy', NEW f \in files, f.at \notin layout
      PROVE  \E m \in Moves : m.src = f.at /\ m.dst \in todo'
  <2>1. f.at \in Written \ layout
    BY <1>9 DEF Written
  <2>2. PICK m \in Moves : m.src = f.at
    BY <1>5, <1>9, <2>1, MovesNest DEF Ground
  <2> QED
    BY <1>1, <2>2
<1>10. Course'
  <2> SUFFICES ASSUME tidy', pc' # "idle" PROVE Course'
    BY DEF Course, Moving
  <2>1. pc' = "next" /\ todo' # {} /\ listed' = files
    BY <1>1
  <2>2. todo' \subseteq layout
    BY <1>1, <1>5, MovesNest DEF Ground
  <2>3. /\ \A m \in Moves :
                /\ m.dst \in layout /\ m.src \notin layout
                /\ \A k \in Rows(At(m.src)) : Contains(m.dst, YearOf[k])
        /\ \A m, n \in Moves : m.src = n.src => m = n
    BY <1>5, MovesNest DEF Ground
  <2>4. \A p \in layout \ todo' : \A f, g \in At(p) : f = g
    BY <1>8
  <2>5. \A f \in files : f.at \notin layout =>
            f \in listed' /\ \E m \in Moves : m.src = f.at /\ m.dst \in todo'
    BY <1>9, <2>1
  <2> QED
    BY <1>1, <2>1, <2>2, <2>3, <2>4, <2>5 DEF Course, At, Rows
<1>11. Arrived'
  <2> SUFFICES ASSUME tidy', done' PROVE Arrived'
    BY DEF Arrived
  <2>1. todo' = {}
    BY <1>1
  <2>2. \A f \in files : f.at \in layout
    BY <1>9, <2>1
  <2>3. \A p \in layout : \A f, g \in At(p) : f = g
    BY <1>8, <2>1
  <2> QED
    BY <1>1, <2>2, <2>3 DEF Arrived, At
<1> QED
    BY <1>7, <1>10, <1>11 DEF Tidiness

(* A step of the move keeps Nesting if a tidy one keeps Nested.              *)
LEMMA RunNesting ==
    ASSUME Nesting, pc # "idle", UNCHANGED <<sound, tidy>>, Moving => Nested'
    PROVE  Nesting'
BY DEF Nesting, Moving

LEMMA TakeTidy ==
    ASSUME Ground, Tidiness, NEW t \in todo, Take(t)
    PROVE  Tidiness'
<1>1. /\ pc = "next" /\ pc' = "move"
      /\ UNCHANGED <<layout, files, moves, listed, todo, sound, tidy, done>>
    BY DEF Take
<1>2. Nesting'
    BY <1>1, RunNesting, NestedShrinks DEF Tidiness, Nesting
<1>3. Course'
    BY <1>1 DEF Tidiness, Course, Moving, Rows, At
<1>4. Arrived'
    BY <1>1 DEF Tidiness, Arrived, At
<1> QED
    BY <1>2, <1>3, <1>4 DEF Tidiness

LEMMA CopyTidy ==
    ASSUME Ground, Tidiness, NEW f \in files, CopyFile(f)
    PROVE  Tidiness'
<1>1. /\ pc = "move" /\ pc' = "move" /\ ~ done /\ ~ done'
      /\ files' = {g \in files : ~ SameName(g, Moved(f))} \cup {Moved(f)}
      /\ UNCHANGED <<layout, moves, listed, todo, target, sound, tidy>>
    BY DEF CopyFile, Ground, Kinds
<1>2. Arrived'
    BY <1>1 DEF Arrived
<1>3. f \in Object /\ target \in Periods /\ target \in todo
    BY <1>1 DEF Ground, Kinds
<1>4. Moved(f).at = target /\ Moved(f).rows = f.rows
    BY <1>3, MovedFacts
<1>5. [src |-> f.at, dst |-> target] \in moves
    BY DEF CopyFile, Sourced, SameName
<1>6. ASSUME Moving
      PROVE  /\ target \in layout
             /\ \A k \in f.rows : Contains(target, YearOf[k])
  <2>1. /\ target \in layout
        /\ \A k \in Rows(At(f.at)) : Contains(target, YearOf[k])
    BY <1>5, <1>6 DEF Tidiness, Course
  <2>2. f.rows \subseteq Rows(At(f.at))
    BY DEF Rows, At
  <2> QED
    BY <2>1, <2>2
<1>7. Moving => Nested'
  <2> SUFFICES ASSUME Moving PROVE Nested'
    OBVIOUS
  <2> DEFINE g == Moved(f)
  <2> HIDE DEF g
  <2>1. \A h \in files' : \/ h \in files
                          \/ /\ h.at = target
                             /\ \A k \in h.rows : Contains(target, YearOf[k])
    BY <1>1, <1>4, <1>6 DEF g
  <2> QED
    BY <1>1, <1>6, <2>1, NestedGrows DEF Tidiness, Nesting
<1>8. Nesting'
    BY <1>1, <1>7, RunNesting DEF Tidiness
<1>9. Course'
  <2> SUFFICES ASSUME Moving PROVE Course'
    BY <1>1 DEF Course, Moving
  <2>1. \A h \in files' : h \in files \/ h.at = target
    BY <1>1, <1>4
  <2>2. \A p \in Periods : p # target => At(p)' \subseteq At(p)
    BY <2>1 DEF At
  <2>3. \A m \in moves : /\ m.dst \in layout /\ m.src \notin layout
                         /\ \A k \in Rows(At(m.src)') : Contains(m.dst, YearOf[k])
    <3> TAKE m \in moves
    <3>1. m.dst \in layout /\ m.src \notin layout /\ m.src \in Periods
          /\ \A k \in Rows(At(m.src)) : Contains(m.dst, YearOf[k])
      BY DEF Tidiness, Course, Ground, Kinds
    <3>2. At(m.src)' \subseteq At(m.src)
      BY <1>6, <2>2, <3>1
    <3> QED
      BY <3>1, <3>2 DEF Rows
  <2>4. \A h \in files' : h.at \notin layout =>
            h \in listed /\ \E m \in moves : m.src = h.at /\ m.dst \in todo
    BY <1>6, <2>1 DEF Tidiness, Course
  <2>5. \A p \in layout \ todo : \A h, i \in At(p)' :
            h # i => h.rows \cap i.rows = {}
    BY <1>3, <2>2 DEF Tidiness, Course, Ground, Kinds
  <2> QED
    BY <1>1, <2>3, <2>4, <2>5 DEF Tidiness, Course, Rows
<1> QED
    BY <1>2, <1>8, <1>9 DEF Tidiness

LEMMA UnlinkTidy ==
    ASSUME Ground, Tidiness, NEW f \in files, Unlink(f)
    PROVE  Tidiness'
<1>1. /\ pc = "move" /\ pc' = "move" /\ ~ done /\ ~ done'
      /\ files' = files \ {f} /\ listed' = {g \in listed : ~ SameName(f, g)}
      /\ UNCHANGED <<layout, moves, todo, target, sound, tidy>>
    BY DEF Unlink, Ground, Kinds, Objects
<1>2. Arrived'
    BY <1>1 DEF Arrived
<1>3. Nesting'
    BY <1>1, RunNesting, NestedShrinks DEF Tidiness, Nesting
<1>4. \A g \in files' : g \in listed => g \in listed'
    BY <1>1 DEF Ground, Objects
<1>5. \A p : At(p)' \subseteq At(p)
    BY <1>1 DEF At
<1>6. \A p : Rows(At(p)') \subseteq Rows(At(p))
    BY <1>5 DEF Rows
<1>7. Course'
  <2> SUFFICES ASSUME Moving PROVE Course'
    BY <1>1 DEF Course, Moving
  <2> QED
    BY <1>1, <1>4, <1>5, <1>6 DEF Tidiness, Course, Rows
<1> QED
    BY <1>2, <1>3, <1>7 DEF Tidiness

(* By the time of the fold every source of the target has gone into it.     *)
LEMMA SourcesAreGone ==
    ASSUME Tidiness, Moving, Sourced(listed) = {}
    PROVE  Sourced(files) = {}
<1> SUFFICES ASSUME NEW f \in files, [src |-> f.at, dst |-> target] \in moves
             PROVE  FALSE
    BY DEF Sourced
<1>1. f.at \notin layout
    BY DEF Tidiness, Course
<1>2. f \in listed
    BY <1>1 DEF Tidiness, Course
<1> QED
    BY <1>2 DEF Sourced

LEMMA FoldTidy ==
    ASSUME Ground, Tidiness, Fold
    PROVE  Tidiness'
<1> DEFINE R == Rows(At(target))
<1>1. /\ pc = "move" /\ pc' = "swap" /\ ~ done /\ ~ done'
      /\ Sourced(listed) = {}
      /\ files' = files \ Sourced(files) /\ staged' = Folded(target, R)
      /\ UNCHANGED <<layout, moves, listed, todo, target, sound, tidy>>
    BY DEF Fold, Ground, Kinds
<1>2. Arrived'
    BY <1>1 DEF Arrived
<1>3. Nesting'
    BY <1>1, RunNesting, NestedShrinks DEF Tidiness, Nesting
<1>4. Course'
  <2> SUFFICES ASSUME Moving PROVE Course'
    BY <1>1 DEF Course, Moving
  <2>1. Sourced(files) = {}
    BY <1>1, SourcesAreGone
  <2>2. files' = files /\ Sourced(files)' = {}
    BY <1>1, <2>1 DEF Sourced
  <2>3. target \in layout /\ target \in Periods /\ R \in SUBSET Keys
    BY <1>1 DEF Ground, Kinds, Tidiness, Course, Rows, At, Object
  <2>4. \A k \in R : Contains(target, YearOf[k])
    <3> SUFFICES ASSUME NEW k \in R PROVE Contains(target, YearOf[k])
      OBVIOUS
    <3>1. target \in Written
      BY DEF Rows, At, Written
    <3> QED
      BY <2>3, <3>1 DEF Tidiness, Nesting, Nested, Holds
  <2> HIDE DEF R
  <2>5. \A f \in staged' : \A k \in f.rows : Contains(target, YearOf[k])
    BY <1>1, <2>3, <2>4, FoldedFacts, RowsOf
  <2> QED
    BY <1>1, <2>2, <2>5 DEF Tidiness, Course, At, Rows
<1> QED
    BY <1>2, <1>3, <1>4 DEF Tidiness

LEMMA DeleteTidy ==
    ASSUME Ground, Tidiness, NEW f \in files, DeleteFile(f)
    PROVE  Tidiness'
<1>1. /\ pc = "swap" /\ pc' = "swap" /\ ~ done /\ ~ done'
      /\ files' = files \ {f}
      /\ UNCHANGED <<layout, moves, listed, todo, target, staged, sound, tidy>>
    BY DEF DeleteFile, Ground, Kinds
<1>2. Arrived'
    BY <1>1 DEF Arrived
<1>3. Nesting'
    BY <1>1, RunNesting, NestedShrinks DEF Tidiness, Nesting
<1>4. \A p : At(p)' \subseteq At(p)
    BY <1>1 DEF At
<1>5. \A p : Rows(At(p)') \subseteq Rows(At(p))
    BY <1>4 DEF Rows
<1>6. Sourced(files)' \subseteq Sourced(files)
    BY <1>1 DEF Sourced
<1>7. Course'
  <2> SUFFICES ASSUME Moving PROVE Course'
    BY <1>1 DEF Course, Moving
  <2> QED
    BY <1>1, <1>4, <1>5, <1>6 DEF Tidiness, Course, Rows
<1> QED
    BY <1>2, <1>3, <1>7 DEF Tidiness

LEMMA MoveInTidy ==
    ASSUME Ground, Tidiness, NEW f \in staged, MoveIn(f)
    PROVE  Tidiness'
<1>1. /\ pc = "swap" /\ pc' = "swap" /\ ~ done /\ ~ done'
      /\ files' = files \cup {f} /\ staged' = staged \ {f}
      /\ UNCHANGED <<layout, moves, listed, todo, target, sound, tidy>>
    BY DEF MoveIn, Ground, Kinds
<1>2. Arrived'
    BY <1>1 DEF Arrived
<1>3. f.at = target /\ target \in todo
    BY <1>1 DEF Ground, Objects, Kinds
<1>4. ASSUME Moving
      PROVE  /\ target \in layout
             /\ \A k \in f.rows : Contains(target, YearOf[k])
    BY <1>1, <1>3, <1>4 DEF Tidiness, Course
<1>5. Moving => Nested'
  <2> SUFFICES ASSUME Moving PROVE Nested'
    OBVIOUS
  <2>1. \A h \in files' : \/ h \in files
                          \/ /\ h.at = target
                             /\ \A k \in h.rows : Contains(target, YearOf[k])
    BY <1>1, <1>3, <1>4
  <2> QED
    BY <1>1, <1>4, <2>1, NestedGrows DEF Tidiness, Nesting
<1>6. Nesting'
    BY <1>1, <1>5, RunNesting DEF Tidiness
<1>7. Course'
  <2> SUFFICES ASSUME Moving PROVE Course'
    BY <1>1 DEF Course, Moving
  <2>1. \A p : p # target => At(p)' = At(p)
    BY <1>1, <1>3 DEF At
  <2>2. \A m \in moves : m.dst \in layout /\ m.src \notin layout
                         /\ \A k \in Rows(At(m.src)') : Contains(m.dst, YearOf[k])
    BY <1>4, <2>1 DEF Tidiness, Course
  <2>3. \A p \in layout \ todo : \A g, h \in At(p)' : g # h => g.rows \cap h.rows = {}
    BY <1>3, <2>1 DEF Tidiness, Course
  <2>4. \A h \in files' : h.at \notin layout =>
            h \in listed /\ \E m \in moves : m.src = h.at /\ m.dst \in todo
    BY <1>1, <1>3, <1>4 DEF Tidiness, Course
  <2>5. Sourced(files)' = {}
    <3>1. Sourced(files) = {}
      BY <1>1 DEF Tidiness, Course
    <3>2. [src |-> f.at, dst |-> target] \notin moves
      BY <1>3, <1>4 DEF Tidiness, Course
    <3> QED
      BY <1>1, <3>1, <3>2 DEF Sourced
  <2> QED
    BY <1>1, <2>2, <2>3, <2>4, <2>5 DEF Tidiness, Course, Rows
<1> QED
    BY <1>2, <1>6, <1>7 DEF Tidiness

LEMMA NextTargetTidy ==
    ASSUME Ground, Tidiness, NextTarget
    PROVE  Tidiness'
<1>1. /\ pc = "swap" /\ old = {} /\ staged = {} /\ ~ done
      /\ todo' = todo \ {target}
      /\ pc' = IF todo' = {} THEN "idle" ELSE "next"
      /\ done' = (todo' = {})
      /\ moves' = IF todo' = {} THEN {} ELSE moves
      /\ listed' = IF todo' = {} THEN {} ELSE listed
      /\ UNCHANGED <<layout, files, sound, tidy>>
    BY DEF NextTarget, Ground, Kinds
<1>2. Nesting'
    BY <1>1, RunNesting, NestedShrinks DEF Tidiness, Nesting
<1>3. \A f, g \in At(target) : f # g => f.rows \cap g.rows = {}
    BY <1>1 DEF Ground, Objects, Apart
<1>4. ASSUME Moving, NEW p \in layout \ todo'
      PROVE  \A f, g \in At(p) : f # g => f.rows \cap g.rows = {}
  <2>1. CASE p = target
    BY <1>3, <2>1
  <2>2. CASE p # target
    BY <1>1, <1>4, <2>2 DEF Tidiness, Course
  <2> QED
    BY <2>1, <2>2
<1>5. ASSUME Moving, NEW f \in files, f.at \notin layout
      PROVE  f \in listed /\ \E m \in moves : m.src = f.at /\ m.dst \in todo'
  <2>1. PICK m \in moves : m.src = f.at /\ m.dst \in todo
    BY <1>5 DEF Tidiness, Course
  <2>2. m = [src |-> f.at, dst |-> m.dst]
    BY <2>1 DEF Ground, Kinds
  <2>3. m.dst # target
    BY <1>1, <1>5, <2>1, <2>2 DEF Tidiness, Course, Sourced
  <2> QED
    BY <1>1, <1>5, <2>1, <2>3 DEF Tidiness, Course
<1>6. Course'
  <2> SUFFICES ASSUME Moving, todo' # {} PROVE Course'
    BY <1>1 DEF Course, Moving
  <2>1. pc' = "next" /\ moves' = moves /\ listed' = listed /\ todo' \subseteq layout
    BY <1>1 DEF Tidiness, Course
  <2> QED
    BY <1>1, <1>4, <1>5, <2>1 DEF Tidiness, Course, At, Rows
<1>7. Arrived'
  <2> SUFFICES ASSUME Moving, todo' = {} PROVE Arrived'
    BY <1>1 DEF Arrived, Moving
  <2> QED
    BY <1>1, <1>4, <1>5 DEF Arrived, At
<1> QED
    BY <1>2, <1>6, <1>7 DEF Tidiness

LEMMA CrashTidy ==
    ASSUME Ground, Tidiness, Crash
    PROVE  Tidiness'
<1>1. /\ pc # "idle" /\ pc' = "idle" /\ done' = FALSE
      /\ UNCHANGED <<layout, files, sound, stage, tidy>>
    BY DEF Crash, planVars
<1>2. Nesting'
    BY <1>1, RunNesting, NestedShrinks DEF Tidiness, Nesting
<1>3. Course' /\ Arrived'
    BY <1>1 DEF Course, Moving, Arrived
<1> QED
    BY <1>2, <1>3 DEF Tidiness

-------------------------------------------------------------------------------
LEMMA InitRepartition == Init => RepartitionInv
<1> SUFFICES ASSUME Init PROVE RepartitionInv
    OBVIOUS
<1>1. Yearly \subseteq Periods
    BY LayoutAssumption DEF Yearly, Periods, Years
<1>2. Separate(Yearly)
  <2> SUFFICES ASSUME NEW p \in Yearly, NEW q \in Yearly, NEW y \in Int,
                      Contains(p, y), Contains(q, y)
               PROVE  p = q
    BY DEF Separate
  <2>1. PICK a \in Years : p = [lo |-> a, hi |-> a]
    BY DEF Yearly
  <2>2. PICK b \in Years : q = [lo |-> b, hi |-> b]
    BY DEF Yearly
  <2>3. a = y /\ b = y
    BY <2>1, <2>2, LayoutAssumption DEF Contains, Years
  <2> QED
    BY <2>1, <2>2, <2>3
<1>3. Kinds /\ Objects
    BY <1>1 DEF Init, Idle, Kinds, Objects
<1>4. Told /\ Tidiness
    BY DEF Init, Idle, Told, Tidiness, Nesting, Course, Arrived, Moving
<1> QED
    BY <1>2, <1>3, <1>4 DEF RepartitionInv, Ground, Init

LEMMA RepartitionInductive ==
    Stored /\ ScanInv /\ RepartitionInv /\ [Next]_vars => RepartitionInv'
<1> SUFFICES ASSUME Stored, ScanInv, RepartitionInv, [Next]_vars
             PROVE  RepartitionInv'
    OBVIOUS
<1>1. Ground /\ Told /\ Tidiness
    BY DEF RepartitionInv
<1>2. Ground' /\ Told'
    BY <1>1, KindsInductive, ObjectsInductive, SeparateInductive, ToldInductive
    DEF Ground
<1>3. Tidiness'
    BY <1>1, BackfillTidy, IngestTidy, WriteLayoutTidy, AsideTidy, StartTidy,
       TakeTidy, CopyTidy, UnlinkTidy, FoldTidy, DeleteTidy, MoveInTidy,
       NextTargetTidy, CrashTidy
    DEF Next, Work
<1> QED
    BY <1>2, <1>3 DEF RepartitionInv

LEMMA RepartitionInvariant == Spec => [](Stored /\ ScanInv /\ RepartitionInv)
<1>1. Init => Stored
    BY FS_EmptySet DEF Init, Stored
<1> QED
    BY <1>1, LayoutRunsPlanner, LoopInvariant, StoredInductive, InitRepartition,
       RepartitionInductive, PTL
    DEF Spec

(* A plan made from a current manifest, without --recut, keeps applying: no *)
(* partition comes to straddle two of its periods, whatever is backfilled,  *)
(* ingested, moved or interrupted afterwards (README.md:260).               *)
THEOREM PlansStayApplicable == Spec => []PlanApplies
<1>1. RepartitionInv => PlanApplies
  <2> SUFFICES ASSUME RepartitionInv, sound, Quiet PROVE Applies
    BY DEF PlanApplies
  <2>1. Nested /\ Kinds /\ Separate(layout)
    BY DEF RepartitionInv, Ground, Tidiness, Nesting, Quiet
  <2> QED
    BY <2>1, NestedApplies
<1> QED
    BY <1>1, RepartitionInvariant, PTL

LEMMA ArrivedRowsAreFound ==
    ASSUME RepartitionInv, done, tidy, NEW f \in files, NEW k \in f.rows
    PROVE  /\ f.at \in layout /\ Contains(f.at, YearOf[k])
           /\ f.at = PeriodFor(YearOf[k])
<1>1. /\ Nested /\ Separate(layout) /\ Kinds /\ f.at \in layout
    BY DEF RepartitionInv, Ground, Tidiness, Nesting, Arrived
<1>2. f.at \in Written /\ k \in Rows(At(f.at))
    BY RowsOf DEF Written, At
<1>3. Contains(f.at, YearOf[k])
    BY <1>1, <1>2 DEF Nested, Holds
<1>4. YearOf[k] \in Int
    BY <1>1, RepartitionAssumption, LayoutAssumption DEF Kinds, Object, Years
<1> QED
    BY <1>1, <1>3, <1>4 DEF PeriodFor, Separate

(* When repartition.py has nothing left to do every row is in the partition *)
(* layout.json sends its readers to, after any interrupts before            *)
(* (repartition.py:97-108, 125-132).                                        *)
THEOREM MovedRowsAreFound == Spec => []RowsFollowLayout
<1>1. RepartitionInv => RowsFollowLayout
    BY ArrivedRowsAreFound DEF RowsFollowLayout
<1> QED
    BY <1>1, RepartitionInvariant, PTL

(* And no row is in two of the files, though moves were cut short between   *)
(* a copy and its delete (repartition.py:125-132, 151-160).                 *)
THEOREM MovedRowsAreStoredOnce == Spec => []NothingStoredTwice
<1>1. RepartitionInv => NothingStoredTwice
  <2> SUFFICES ASSUME RepartitionInv, done, tidy, NEW f \in files, NEW g \in files,
                      f # g, NEW k \in f.rows \cap g.rows
               PROVE  FALSE
    BY DEF NothingStoredTwice
  <2>1. f.at = g.at /\ f.at \in layout
    BY ArrivedRowsAreFound
  <2> QED
    BY <2>1 DEF RepartitionInv, Tidiness, Arrived, At
<1> QED
    BY <1>1, RepartitionInvariant, PTL

-------------------------------------------------------------------------------
LEMMA StepLoses ==
    ASSUME RepartitionInv, [Next]_vars, tidy \/ pc = "idle",
           NEW k \in Rows(files) \cup Rows(staged),
           k \notin Rows(files') \cup Rows(staged')
    PROVE  \/ pc = "swap" /\ pc' = "idle" /\ k \in Rows(staged)
           \/ k \in Rows(UNION {Left(f) : f \in copied'})
<1>1. Kinds /\ Objects /\ Tidiness /\ Ground
    BY DEF RepartitionInv, Ground
<1>2. ASSUME NEW p \in layout, Backfill(p) PROVE FALSE
    BY <1>2, RowsOf DEF Backfill
<1>3. ASSUME NEW j \in Keys, Ingest(j) PROVE FALSE
  <2> DEFINE p == PeriodFor(YearOf[j])
             R == Rows(At(p)) \cup {j}
  <2>1. /\ files' = (files \ At(p)) \cup Folded(p, R)
        /\ pc = "idle" /\ staged' = staged
    BY <1>3 DEF Ingest, Quiet
  <2>2. p \in Periods
    BY <1>1, PeriodForIsPeriod, RepartitionAssumption DEF Kinds
  <2>3. R \in SUBSET Keys
    BY <1>1 DEF Kinds, Rows, At, Object
  <2>4. Rows(At(p)) \subseteq R
    OBVIOUS
  <2> HIDE DEF p, R
  <2>5. Rows(Folded(p, R)) = R
    BY <2>2, <2>3, FoldedFacts
  <2>6. Rows(files) \subseteq Rows(files \ At(p)) \cup Rows(At(p))
    BY RowsOf
  <2> QED
    BY <2>1, <2>4, <2>5, <2>6, RowsOf
<1>4. ASSUME NEW f \in files, CopyFile(f)
      PROVE  k \in Rows(UNION {Left(g) : g \in copied'})
  <2>1. /\ files' = {g \in files : ~ SameName(g, Moved(f))} \cup {Moved(f)}
        /\ copied' = {f} /\ staged' = staged /\ pc = "move"
    BY <1>4 DEF CopyFile
  <2>2. f \in Object /\ target \in Periods
    BY <1>1, <2>1 DEF Kinds
  <2>3. PICK g \in files : k \in g.rows
    BY <2>1, RowsOf
  <2>4. SameName(g, Moved(f))
    BY <2>1, <2>3, RowsOf
  <2>5. g \in Left(f)
    BY <2>2, <2>3, <2>4, MovedFacts DEF Left, SameName
  <2>6. g \in UNION {Left(h) : h \in copied'}
    BY <2>1, <2>5
  <2> QED
    BY <2>3, <2>6, RowsOf
<1>5. ASSUME NEW f \in files, Unlink(f) PROVE FALSE
  <2>1. /\ files' = files \ {f} /\ staged' = staged /\ pc = "move"
        /\ Moved(f) \in files /\ f.at # target
    BY <1>1, <1>5 DEF Unlink, Objects, Kinds
  <2>2. f \in Object /\ target \in Periods
    BY <1>1, <2>1 DEF Kinds
  <2>3. Moved(f).rows = f.rows /\ Moved(f) # f
    BY <2>1, <2>2, MovedFacts
  <2>4. Moved(f) \in files'
    BY <2>1, <2>3
  <2> QED
    BY <2>1, <2>3, <2>4, RowsOf
<1>6. ASSUME Fold PROVE FALSE
  <2>1. pc = "move" /\ Sourced(listed) = {} /\ files' = files \ Sourced(files)
    BY <1>6 DEF Fold
  <2>2. Sourced(files) = {}
    BY <1>1, <2>1, SourcesAreGone DEF Moving
  <2>3. staged = {}
    BY <1>1, <2>1 DEF Kinds
  <2> QED
    BY <2>1, <2>2, <2>3 DEF Rows
<1>7. ASSUME NEW f \in files, DeleteFile(f) PROVE FALSE
  <2>1. files' = files \ {f} /\ staged' = staged /\ f \in old /\ pc = "swap"
    BY <1>7 DEF DeleteFile
  <2>2. f.rows \subseteq Rows(staged)
    BY <1>1, <2>1 DEF Objects, Rows
  <2> QED
    BY <2>1, <2>2, RowsOf
<1>8. ASSUME NEW f \in staged, MoveIn(f) PROVE FALSE
  <2>1. files' = files \cup {f} /\ staged' = staged \ {f}
    BY <1>8 DEF MoveIn
  <2> QED
    BY <2>1, RowsOf
<1>9. ASSUME Crash PROVE pc = "swap" /\ pc' = "idle" /\ k \in Rows(staged)
  <2>1. files' = files /\ pc' = "idle"
    BY <1>9 DEF Crash
  <2>2. k \in Rows(staged)
    BY <2>1
  <2>3. staged # {}
    BY <2>2 DEF Rows
  <2> QED
    BY <1>1, <2>1, <2>2, <2>3 DEF Kinds
<1>10. ASSUME UNCHANGED <<files, staged>> PROVE FALSE
    BY <1>10
<1> QED
    BY <1>2, <1>3, <1>4, <1>5, <1>6, <1>7, <1>8, <1>9, <1>10
    DEF Next, Work, Catalog, StartLayout, Planning, WriteLayout, Start, Take,
        NextTarget, vars, moveVars

(* Rows go missing only with a run that dies in the swap of a fold, and     *)
(* then only those it had not moved in yet; a move costs none but those of  *)
(* an object left under the same name before (repartition.py:36, 151-160).  *)
(* The premise is that the run began `tidy`: with a period in the plan for  *)
(* every row, and no strays.                                                *)
THEOREM LossStaysInTheFold == Spec => LossConfinedToFold
<1>1. ASSUME RepartitionInv, [Next]_vars
      PROVE  [tidy \/ pc = "idle" =>
                (Rows(files) \cup Rows(staged)) \ (Rows(files') \cup Rows(staged'))
                    \subseteq UNION {IF pc = "swap" /\ pc' = "idle" THEN Rows(staged)
                                     ELSE {},
                                     Rows(UNION {Left(f) : f \in copied'})}]_vars
    BY <1>1, StepLoses
<1> QED
    BY <1>1, RepartitionInvariant, PTL DEF Spec, LossConfinedToFold
===============================================================================
