----------------------------- MODULE Repartition ------------------------------
(***************************************************************************)
(* `pcds layout` (src/pcds/cli.py) and `scripts/repartition.py`: a new     *)
(* plan of the periods, and the move of the partitions that are already    *)
(* written into the periods it has.                                        *)
(*                                                                         *)
(* The store is object storage: a move is a copy and then a delete, and a  *)
(* folded partition replaces its files one object at a time.  A run of     *)
(* repartition.py can die between any two of these.  Nothing else writes   *)
(* while it runs ("Plan, then move, then let the walk continue").          *)
(***************************************************************************)
EXTENDS Layout, FiniteSets, Sequences

CONSTANTS
    Keys,         \* rows, numbered in the order a partition is sorted in
    YearOf,       \* YearOf[k]: the year of row k
    ShardOf,      \* ShardOf[k]: the base name a backfill writes row k under
    Estimate,     \* bytes per year by the station metadata, at least one year
    BytesPerRow,  \* the measured rate
    FileRows,     \* rows after which the writer rolls to a second file
    MaxPlans,     \* bound: runs of `pcds layout`
    MaxIngests,   \* bound: compacted appends
    MaxCrashes    \* bound: repartition runs that die

ASSUME RepartitionAssumption ==
    /\ Keys \subseteq Int /\ IsFiniteSet(Keys)
    /\ YearOf \in [Keys -> Years]
    /\ DOMAIN Estimate \in (SUBSET Years) \ {{}}
    /\ Estimate \in [DOMAIN Estimate -> Nat]
    /\ BytesPerRow \in Nat
    /\ FileRows \in Nat \ {0}
    /\ MaxPlans \in Nat /\ MaxIngests \in Nat /\ MaxCrashes \in Nat

NoTarget == [lo |-> LastYear, hi |-> FirstYear - 1]

VARIABLES
    layout,    \* the periods of layout.json; yearly while there is no file
    files,     \* objects: partition `at`, labels moved `via`, `base`, `rows`
    manifest,  \* [at, hi] of each partition as catalog.write found it
    pc,        \* where repartition.py is
    moves,     \* its plan: partition src goes to period dst
    listed,    \* the objects it found, less those it has moved
    todo,      \* periods it has still to work on
    target,    \* the one it is working on
    copied,    \* objects copied to the target and not deleted yet
    old,       \* the target's objects the fold has still to delete
    staged,    \* the folded files it has still to move in
    sound,     \* history: the last plan was made from a current manifest
               \*   over partitions of disjoint years, without --recut,
               \*   and has no strays
    tidy,      \* history: when repartition.py began, each row had a period
               \*   in the plan and there were no strays
    done,      \* history: repartition.py ended and nothing happened since
    ever,      \* history: every row that was ever written
    plans, ingests, crashes

moveVars == <<pc, moves, listed, todo, target, copied, old, staged, tidy, done>>
vars == <<planVars, layout, files, manifest, moveVars, sound, ever, plans, ingests,
          crashes>>

-------------------------------------------------------------------------------
Rows(F) == UNION {f.rows : f \in F}
Written == {f.at : f \in files}
At(p) == {f \in files : f.at = p}

(* data_years: the years a partition's rows span, whatever its label says.  *)
YearsAt(p) == {YearOf[k] : k \in Rows(At(p))}
FirstAt(p) == CHOOSE y \in YearsAt(p) : \A z \in YearsAt(p) : y <= z
LastAt(p) == CHOOSE y \in YearsAt(p) : \A z \in YearsAt(p) : y >= z

Yearly == {[lo |-> y, hi |-> y] : y \in Years}

(* period_for: a year no period contains is a partition of its own.         *)
PeriodFor(y) ==
    IF \E p \in layout : Contains(p, y)
    THEN CHOOSE p \in layout : Contains(p, y)
    ELSE [lo |-> y, hi |-> y]

(* RollingWriter: sorted rows, a second file once the first is full.        *)
Folded(p, R) ==
    LET head == {k \in R : Cardinality({j \in R : j < k}) < FileRows}
        part(n, S) == [at |-> p, via |-> <<>>, base |-> n, rows |-> S]
    IN {f \in {part("part-00000", head), part("part-00001", R \ head)} :
            f.rows # {}}

(* What the manifest holds of a partition: where its rows end.              *)
Spans == {[at |-> p, hi |-> LastAt(p)] : p \in Written}

-------------------------------------------------------------------------------
Init ==
    /\ Idle
    /\ layout = Yearly
    /\ files = {}
    /\ manifest = {}
    /\ pc = "idle"
    /\ moves = {} /\ listed = {} /\ todo = {} /\ target = NoTarget
    /\ copied = {} /\ old = {} /\ staged = {}
    /\ sound = FALSE /\ tidy = FALSE /\ done = FALSE /\ ever = {}
    /\ plans = 0 /\ ingests = 0 /\ crashes = 0

Quiet == pc = "idle" /\ stage = "idle"

(* One period of the walk: every shard leaves a file.                       *)
Backfill(p) ==
    /\ Quiet
    /\ p \in layout \ Written
    /\ \E k \in Keys : Contains(p, YearOf[k])
    /\ files' = files \cup
        {[at |-> p, via |-> <<>>, base |-> s,
          rows |-> {k \in Keys : Contains(p, YearOf[k]) /\ ShardOf[k] = s}] :
            s \in {ShardOf[k] : k \in {j \in Keys : Contains(p, YearOf[j])}}}
    /\ done' = FALSE
    /\ ever' = ever \cup {k \in Keys : Contains(p, YearOf[k])}
    /\ UNCHANGED <<planVars, layout, manifest, pc, moves, listed, todo, target,
                   copied, old, staged, sound, tidy, plans, ingests, crashes>>

(* An append and the compaction that folds it: the one period of the row is *)
(* rewritten, and a manifest that exists is rebuilt.                        *)
Ingest(k) ==
    /\ Quiet
    /\ ingests < MaxIngests
    /\ ingests' = ingests + 1
    /\ LET p == PeriodFor(YearOf[k]) IN
        /\ files' = (files \ At(p)) \cup Folded(p, Rows(At(p)) \cup {k})
        /\ sound' = (sound /\ p \in layout)
    /\ ever' = ever \cup {k}
    /\ manifest' = IF manifest = {} THEN {} ELSE Spans'
    /\ done' = FALSE
    /\ UNCHANGED <<planVars, layout, pc, moves, listed, todo, target, copied,
                   old, staged, tidy, plans, crashes>>

Catalog ==
    /\ Quiet
    /\ files # {}
    /\ manifest' = Spans
    /\ UNCHANGED <<planVars, layout, files, moveVars, sound, ever, plans, ingests,
                   crashes>>

(* year_bytes_for_plan: a year with rows counts as measured, every other    *)
(* one as the station metadata has it.                                      *)
RowsIn(y) ==
    {o \in files \X Keys : o[2] \in o[1].rows /\ YearOf[o[2]] = y}
Measured == {y \in Years : RowsIn(y) # {}}

YearBytes(measured) ==
    [y \in measured \cup DOMAIN Estimate |->
        IF y \in measured THEN BytesPerRow * Cardinality(RowsIn(y))
        ELSE Estimate[y]]

(* Mutant of CutAfter: the years past the shortest partition, not past all. *)
CutAfterShortest ==
    LET ends == {m.hi : m \in manifest} IN
    {y \in Years : \E e \in ends : y >= e /\ \A z \in ends : e <= z}

(* Where a cut may land: the last year of each partition, and after all of  *)
(* them.                                                                    *)
CutAfter ==
    LET ends == {m.hi : m \in manifest} IN
    {y \in Years : y \in ends \/ \A e \in ends : y > e}

Disjoint ==
    \A p, q \in Written :
        p # q => LastAt(p) < FirstAt(q) \/ LastAt(q) < FirstAt(p)

(* `pcds layout` [--ignore-catalog] [--recut], up to plan_periods.          *)
StartLayout(ignore, recut) ==
    /\ Quiet
    /\ plans < MaxPlans
    /\ plans' = plans + 1
    /\ Begin(YearBytes(IF ignore \/ manifest = {} THEN {} ELSE Measured),
             IF recut \/ manifest = {} THEN Years ELSE CutAfter)
    /\ sound' = /\ manifest = Spans
                /\ ~ ignore
                /\ ~ recut
                /\ Disjoint
    /\ UNCHANGED <<layout, files, manifest, moveVars, ever, ingests, crashes>>

Planning ==
    /\ PlanStep
    /\ UNCHANGED <<layout, files, manifest, moveVars, sound, ever, plans, ingests,
                   crashes>>

(* Partitions under a label of P that hold rows of other years.             *)
Strays(P) ==
    {p \in Written \cap P : \E k \in Rows(At(p)) : ~ Contains(p, YearOf[k])}

WriteLayout ==
    /\ Return
    /\ layout' = periods
    /\ sound' = (sound /\ Strays(periods) = {})
    /\ done' = FALSE
    /\ UNCHANGED <<files, manifest, pc, moves, listed, todo, target, copied,
                   old, staged, tidy, ever, plans, ingests, crashes>>

-------------------------------------------------------------------------------
(* Mutant of Holders: where the partition begins decides.                   *)
HoldersOfFirst(p) == {q \in layout : Contains(q, FirstAt(p))}

(* plan_moves: the new periods a partition's first or last year is in.      *)
Holders(p) ==
    {q \in layout : Contains(q, FirstAt(p)) \/ Contains(q, LastAt(p))}

Applies == \A p \in Written : Cardinality(Holders(p)) = 1

(* Mutant of Moves: a period that is already written takes no more files.   *)
MovesIntoNew ==
    {m \in [src : Written, dst : layout \ Written] :
        m.dst \in Holders(m.src) \ {m.src}}

(* Each partition goes to its one holder, unless it is there.               *)
Moves ==
    {m \in [src : Written, dst : layout] : m.dst \in Holders(m.src) \ {m.src}}

(* Mutant of Pieces: a partition in pieces is left as it is.                *)
PiecesIgnored == {}

(* A partition in several files that no move touches is folded in place.    *)
Pieces ==
    {p \in Written : /\ Cardinality(At(p)) > 1
                     /\ \A m \in Moves : p # m.src /\ p # m.dst}

(* repartition.py --apply; when the plan does not apply it changes nothing. *)
Start ==
    /\ Quiet
    /\ Applies
    /\ moves' = Moves
    /\ todo' = {m.dst : m \in Moves} \cup Pieces
    /\ listed' = IF todo' = {} THEN {} ELSE files
    /\ pc' = IF todo' = {} THEN "idle" ELSE "next"
    /\ tidy' = /\ \A k \in Rows(files) : \E p \in layout : Contains(p, YearOf[k])
               /\ Strays(layout) = {}
    /\ done' = (todo' = {})
    /\ UNCHANGED <<planVars, layout, files, manifest, target, copied, old,
                   staged, sound, ever, plans, ingests, crashes>>

(* The targets are taken in the order of their labels.                      *)
Take(t) ==
    /\ pc = "next"
    /\ t \in todo
    /\ \A u \in todo : t.lo <= u.lo
    /\ target' = t
    /\ pc' = "move"
    /\ UNCHANGED <<planVars, layout, files, manifest, moves, listed, todo, copied,
                   old, staged, sound, tidy, ever, done, plans, ingests, crashes>>

Sourced(F) == {f \in F : [src |-> f.at, dst |-> target] \in moves}

(* Mutant of Moved: the file keeps its name.                                *)
MovedSameName(f) == [f EXCEPT !.at = target]

(* The source label goes in front of the name: part-00000 in every period.  *)
Moved(f) == [f EXCEPT !.at = target, !.via = Append(f.via, f.at)]

SameName(f, g) == f.at = g.at /\ f.via = g.via /\ f.base = g.base

CopyFile(f) ==
    /\ pc = "move"
    /\ copied = {}
    /\ f \in files
    /\ \E g \in Sourced(listed) : SameName(f, g)
    /\ files' = {g \in files : ~ SameName(g, Moved(f))} \cup {Moved(f)}
    /\ copied' = {f}
    /\ UNCHANGED <<planVars, layout, manifest, pc, moves, listed, todo, target,
                   old, staged, sound, tidy, ever, done, plans, ingests, crashes>>

Unlink(f) ==
    /\ f \in copied
    /\ files' = files \ copied
    /\ copied' = {}
    /\ listed' = {g \in listed : ~ SameName(f, g)}
    /\ UNCHANGED <<planVars, layout, manifest, pc, moves, todo, target, old,
                   staged, sound, tidy, ever, done, plans, ingests, crashes>>

(* A listed object a fold of the same run replaced is not found.            *)
Missing ==
    /\ pc = "move" /\ copied = {}
    /\ \E g \in Sourced(listed) : \A f \in files : ~ SameName(f, g)

(* The sources' prefixes go, with whatever came there since the listing.    *)
(* compact_period without deltas: every row once, staged before the swap.   *)
Fold ==
    /\ pc = "move"
    /\ copied = {}
    /\ Sourced(listed) = {}
    /\ files' = files \ Sourced(files)
    /\ staged' = Folded(target, Rows(At(target)))
    /\ old' = At(target)
    /\ pc' = "swap"
    /\ UNCHANGED <<planVars, layout, manifest, moves, listed, todo, target,
                   copied, sound, tidy, ever, done, plans, ingests, crashes>>

DeleteFile(f) ==
    /\ pc = "swap"
    /\ f \in old
    /\ old' = old \ {f}
    /\ files' = files \ {f}
    /\ UNCHANGED <<planVars, layout, manifest, pc, moves, listed, todo, target,
                   copied, staged, sound, tidy, ever, done, plans, ingests,
                   crashes>>

MoveIn(f) ==
    /\ pc = "swap"
    /\ old = {}
    /\ f \in staged
    /\ files' = files \cup {f}
    /\ staged' = staged \ {f}
    /\ UNCHANGED <<planVars, layout, manifest, pc, moves, listed, todo, target,
                   copied, old, sound, tidy, ever, done, plans, ingests, crashes>>

NextTarget ==
    /\ pc = "swap"
    /\ old = {}
    /\ staged = {}
    /\ todo' = todo \ {target}
    /\ target' = NoTarget
    /\ pc' = IF todo' = {} THEN "idle" ELSE "next"
    /\ done' = (todo' = {})
    /\ moves' = IF todo' = {} THEN {} ELSE moves
    /\ listed' = IF todo' = {} THEN {} ELSE listed
    /\ UNCHANGED <<planVars, layout, files, manifest, copied, old, staged,
                   sound, tidy, ever, plans, ingests, crashes>>

(* The run is killed, or ends for want of an object.  What is staged stays  *)
(* behind, and the next fold of the period clears it.                       *)
Crash ==
    /\ pc # "idle"
    /\ crashes < MaxCrashes \/ Missing
    /\ crashes' = IF Missing THEN crashes ELSE crashes + 1
    /\ pc' = "idle"
    /\ moves' = {} /\ listed' = {} /\ todo' = {} /\ target' = NoTarget
    /\ copied' = {} /\ old' = {} /\ staged' = {}
    /\ done' = FALSE
    /\ UNCHANGED <<planVars, layout, files, manifest, sound, tidy, ever, plans,
                   ingests>>

Work ==
    \/ Planning
    \/ WriteLayout
    \/ \E t \in todo : Take(t)
    \/ \E f \in files : CopyFile(f) \/ Unlink(f) \/ DeleteFile(f)
    \/ Fold
    \/ \E f \in staged : MoveIn(f)
    \/ NextTarget

Next ==
    \/ \E p \in layout : Backfill(p)
    \/ \E k \in Keys : Ingest(k)
    \/ Catalog
    \/ \E ignore, recut \in BOOLEAN : StartLayout(ignore, recut)
    \/ Start
    \/ Work
    \/ Crash

Spec == Init /\ [][Next]_vars

(* The run of a command goes on until it ends or dies, and the operator     *)
(* runs repartition.py again until it has nothing left to do.               *)
FairSpec == Spec /\ WF_vars(Work) /\ WF_vars(Start)

-------------------------------------------------------------------------------
File == [at : Periods, via : Seq(Periods), base : STRING, rows : SUBSET Keys]

TypeOK ==
    /\ layout \in SUBSET Periods
    /\ files \in SUBSET File
    /\ manifest \in SUBSET [at : Periods, hi : Years]
    /\ pc \in {"idle", "next", "move", "swap"}
    /\ moves \in SUBSET [src : Periods, dst : Periods]
    /\ listed \in SUBSET File
    /\ todo \in SUBSET Periods
    /\ target \in Periods \cup {NoTarget}
    /\ copied \in SUBSET File /\ old \in SUBSET File /\ staged \in SUBSET File
    /\ sound \in BOOLEAN /\ tidy \in BOOLEAN /\ done \in BOOLEAN /\ ever \in SUBSET Keys
    /\ plans \in 0 .. MaxPlans
    /\ ingests \in 0 .. MaxIngests
    /\ crashes \in 0 .. MaxCrashes

(* A plan made from a current manifest, without --recut, applies: no        *)
(* partition straddles two of its periods, not even after an interrupted    *)
(* move and whatever was ingested into planned periods since (README.md:260 *)
(* "applicable by construction").  A stray, which an interrupted move under *)
(* a plan without all the years leaves, is the exception: its label is in   *)
(* the plan, so ingests go to it, while its rows belong elsewhere.          *)
PlanApplies == sound /\ Quiet => Applies

(* Rows only go missing with a run that dies inside the swap of the period  *)
(* they are folded into, and then only those not moved in yet.  Moving      *)
(* files between partitions costs none, unless one of the same source and   *)
(* name was left under the target before (repartition.py:151-156).  Of a    *)
(* run of repartition.py it says so only if that began `tidy`: with a       *)
(* period in the plan for every row, and no strays.                         *)
Left(f) ==
    {g \in files : g.at = target /\ g.via = Append(f.via, f.at) /\ g.base = f.base}

LossConfinedToFold ==
    [][tidy \/ pc = "idle" =>
        (Rows(files) \cup Rows(staged)) \ (Rows(files') \cup Rows(staged'))
            \subseteq UNION {IF pc = "swap" /\ pc' = "idle" THEN Rows(staged) ELSE {},
                            Rows(UNION {Left(f) : f \in copied'})}]_vars

(* Once repartition.py has nothing left to do, a reader who maps years to   *)
(* partitions through layout.json finds every row there, if the plan had a  *)
(* period for every year that has rows, and no strays (repartition.py:      *)
(* 97-108, README.md periods_for).                                          *)
RowsFollowLayout ==
    done /\ tidy => \A f \in files : \A k \in f.rows : f.at = PeriodFor(YearOf[k])

(* By then no row is stored twice, though moves were interrupted between    *)
(* copy and delete and rows were ingested into the new period beside the    *)
(* partition that still held them (repartition.py:125-132).                 *)
NothingStoredTwice ==
    done /\ tidy => \A f, g \in files : f # g => f.rows \cap g.rows = {}

(* Repeating repartition.py after interrupts gets there: either the plan is *)
(* refused or every partition is one of its periods.                        *)
PartitionsFollowPlan ==
    []<>(Quiet /\ (Applies => Written \subseteq layout))

(* "Safe to re-run, including after an interrupt" (repartition.py:36): once  *)
(* a run has ended, every row ever written is in a partition.               *)
RerunLosesNothing == done => ever \subseteq Rows(files)
===============================================================================
