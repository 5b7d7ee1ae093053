------------------------------- MODULE Pipeline -------------------------------
(***************************************************************************)
(* The daily mirror of a service that revises its data: `append`           *)
(* (src/pcds/cli.py:349-426) polls every active station from its           *)
(* watermark minus a revision window, stages what came back as a delta     *)
(* and then saves the watermarks; `compact` rewrites the periods the       *)
(* deltas fall in, swaps the files of each (delete the old, move the new   *)
(* in) and drops the deltas one by one.  Both run in one concurrency       *)
(* group, either can die between any two of its steps, inside the swap     *)
(* too, and the service goes on reporting and correcting observations all  *)
(* the while.                                                              *)
(*                                                                         *)
(* A death between the deletes and the moves of a swap is the one thing    *)
(* that takes rows from the mirror for good (compact.py:140-150): `append` *)
(* does not ask again for what lies behind its watermarks.  The properties *)
(* name that exception; `lost` is the record of it.                        *)
(*                                                                         *)
(* Compaction and Watermarks have the detail of the files this module      *)
(* keeps as maps from station and time to version.                         *)
(***************************************************************************)
EXTENDS Integers, Sequences, SequencesExt

CONSTANTS
    Stations,    \* station_id values
    Window,      \* PCDS_REVISION_WINDOW_DAYS
    ActiveDays,  \* --active-days
    Threshold,   \* quarantined(threshold), 10 in the code
    PeriodOf,    \* PeriodOf[t]: the partition of the layout that holds day t
    SortedListing, \* whether store.ls lists objects in the order of their names
    MaxTime,     \* bound: days the clock runs for
    MaxVersion,  \* bound: versions of one observation
    MaxDeltas,   \* bound: deltas staged at once
    MaxCrashes   \* bound: jobs that die

ASSUME PipelineAssumption ==
    /\ Window \in Nat
    /\ ActiveDays \in Nat
    /\ Threshold \in Nat \ {0}
    /\ MaxTime \in Nat
    /\ MaxVersion \in Nat
    /\ MaxDeltas \in Nat
    /\ MaxCrashes \in Nat
    /\ PeriodOf \in [1 .. MaxTime -> Nat \ {0}]
    /\ SortedListing \in BOOLEAN

Times == 1 .. MaxTime        \* obs_time, in days
NoTime == 0                  \* None
NoPeriod == 0                \* no partition is being swapped
None == 0                    \* no version of an observation
Data == [Stations -> [Times -> 0 .. MaxVersion]]
NoData == [s \in Stations |-> [t \in Times |-> None]]
Marks == [Stations -> [watermark : 0 .. MaxTime,
                       consecutive_failures : 0 .. Threshold]]

VARIABLES
    now,       \* the clock
    upstream,  \* upstream[s][t]: the version the service has
    known,     \* known[s]: max_obs_time in the mirror's stations table
    base,      \* base[s][t]: the version in the partitions
    delta,     \* the staged deltas in the order of their runs, each a Data
    marks,     \* the saved watermarks
    job,       \* what the pcds-write group is running
    todo,      \* append: stations whose result is outstanding
    fetched,   \* append: the tables of the results so far
    mem,       \* append: the watermarks in memory
    periods,   \* compact: periods it has still to rewrite
    period,    \* compact: the one it is swapping
    moving,    \* compact: the rows written anew for it, under _staging/compact
    lost,      \* history: <<s, t>> a torn swap took, not fetched again since
    crashes

vars == <<now, upstream, known, base, delta, marks, job, todo, fetched, mem,
          periods, period, moving, lost, crashes>>
service == <<now, upstream>>
run == <<todo, fetched, mem>>
swap == <<periods, period, moving>>

TypeOK ==
    /\ now \in 0 .. MaxTime
    /\ upstream \in Data
    /\ known \in [Stations -> 0 .. MaxTime]
    /\ base \in Data
    /\ delta \in Seq(Data)
    /\ Len(delta) <= MaxDeltas
    /\ marks \in Marks
    /\ job \in {"none", "poll", "save", "fold", "delete", "move", "clear"}
    /\ todo \in SUBSET Stations
    /\ fetched \in Data
    /\ mem \in Marks
    /\ periods \subseteq Nat \ {0}
    /\ period \in Nat
    /\ moving \in Data
    /\ lost \subseteq Stations \X Times
    /\ crashes \in 0 .. MaxCrashes

-------------------------------------------------------------------------------
Init ==
    /\ now = 0
    /\ upstream = NoData
    /\ known = [s \in Stations |-> NoTime]
    /\ base = NoData
    /\ delta = <<>>
    /\ marks = [s \in Stations |->
                  [watermark |-> NoTime, consecutive_failures |-> 0]]
    /\ job = "none"
    /\ todo = {}
    /\ fetched = NoData
    /\ mem = marks
    /\ periods = {}
    /\ period = NoPeriod
    /\ moving = NoData
    /\ lost = {}
    /\ crashes = 0

(* The version in the newest delta that has the row: deltas are ordered by  *)
(* ingested_at, the time of their run.                                      *)
Holding(s, t) == {d \in DOMAIN delta : delta[d][s][t] # None}
Newest(s, t) == CHOOSE d \in Holding(s, t) : \A q \in Holding(s, t) : q <= d
Staged(s, t) ==
    IF Holding(s, t) = {} THEN None ELSE delta[Newest(s, t)][s][t]

(* The mirror's version: the newest delta's, else the partition's, whose    *)
(* rows are in the new files while a running swap replaces the old.         *)
Stored ==
    [s \in Stations |-> [t \in Times |->
        IF Staged(s, t) # None THEN Staged(s, t)
        ELSE IF base[s][t] # None THEN base[s][t]
        ELSE moving[s][t]]]

(* Watermarks.quarantined, whose stations append leaves out.                *)
Quarantined(s) == marks[s].consecutive_failures >= Threshold

-------------------------------------------------------------------------------
Tick ==
    /\ now < MaxTime
    /\ now' = now + 1
    /\ UNCHANGED <<upstream, known, base, delta, marks, job, run, swap,
                   lost, crashes>>

(* The service reports an observation, late or not, or corrects one.  It    *)
(* does so within the revision window: that is what the window stands for.  *)
Report(s, t) ==
    /\ now - Window < t
    /\ t <= now
    /\ upstream[s][t] < MaxVersion
    /\ upstream' = [upstream EXCEPT ![s][t] = @ + 1]
    /\ UNCHANGED <<now, known, base, delta, marks, job, run, swap,
                   lost, crashes>>

(* pcds metadata: the stations table as the service has it now.  Its        *)
(* max_obs_time may be that of observations no request returns as rows      *)
(* (unmapped columns, nulls), so it is at least the latest row's.           *)
Refresh ==
    /\ \E last \in [Stations -> 0 .. now] :
        /\ \A s \in Stations, t \in Times : upstream[s][t] # None => t <= last[s]
        /\ known' = last
    /\ UNCHANGED <<service, base, delta, marks, job, run, swap,
                   lost, crashes>>

(* Mutant of Selected: a station last heard of ActiveDays ago is left out.  *)
SelectedShort(s) ==
    /\ known[s] # NoTime
    /\ now - known[s] < ActiveDays
    /\ ~ Quarantined(s)

(* append loads the stations and the watermarks and selects its targets.    *)
Selected(s) ==
    /\ known[s] # NoTime
    /\ now - known[s] <= ActiveDays
    /\ ~ Quarantined(s)

StartAppend ==
    /\ job = "none"
    /\ Len(delta) < MaxDeltas
    /\ job' = "poll"
    /\ todo' = {s \in Stations : Selected(s)}
    /\ mem' = marks
    /\ fetched' = NoData
    /\ UNCHANGED <<service, known, base, delta, marks, swap, lost, crashes>>

(* Mutant of InWindow: only what is newer than the watermark.               *)
InWindowAppendOnly(s, t) == t > marks[s].watermark

(* win: strictly after the watermark minus the window, without an end.      *)
InWindow(s, t) ==
    \/ marks[s].watermark = NoTime
    \/ t > marks[s].watermark - Window

Answer(s) == {t \in Times : upstream[s][t] # None /\ InWindow(s, t)}

Later(a, b) == IF a >= b THEN a ELSE b

(* A station's rows arrive, and record_success takes their latest time.     *)
PollRows(s) ==
    /\ job = "poll"
    /\ s \in todo
    /\ \E last \in Answer(s) :
        /\ \A t \in Answer(s) : t <= last
        /\ mem' = [mem EXCEPT ![s] =
                     [watermark |-> Later(mem[s].watermark, last),
                      consecutive_failures |-> 0]]
    /\ fetched' = [fetched EXCEPT ![s] =
                     [t \in Times |->
                        IF t \in Answer(s) THEN upstream[s][t] ELSE None]]
    /\ todo' = todo \ {s}
    /\ UNCHANGED <<service, known, base, delta, marks, job, swap, lost, crashes>>

(* No rows in the window: record_success without a time.                    *)
PollNothing(s) ==
    /\ job = "poll"
    /\ s \in todo
    /\ Answer(s) = {}
    /\ mem' = [mem EXCEPT ![s].consecutive_failures = 0]
    /\ todo' = todo \ {s}
    /\ UNCHANGED <<service, known, base, delta, marks, job, fetched, swap, lost,
                   crashes>>

(* The request failed: record_failure, and the result is passed over.       *)
PollError(s) ==
    /\ job = "poll"
    /\ s \in todo
    /\ mem' = [mem EXCEPT ![s].consecutive_failures = @ + 1]
    /\ todo' = todo \ {s}
    /\ UNCHANGED <<service, known, base, delta, marks, job, fetched, swap, lost,
                   crashes>>

(* write_delta: everything fetched, in one object, if anything was,         *)
(* before ...                                                               *)
WriteDelta ==
    /\ job = "poll"
    /\ todo = {}
    /\ delta' = IF fetched = NoData THEN delta ELSE Append(delta, fetched)
    /\ lost' = {r \in lost : fetched[r[1]][r[2]] = None}
    /\ fetched' = NoData
    /\ job' = "save"
    /\ UNCHANGED <<service, known, base, marks, todo, mem, swap, crashes>>

(* Mutant of SaveMarks: the watermarks may be saved before the delta.       *)
SaveMarksEarly ==
    /\ job \in {"poll", "save"}
    /\ todo = {}
    /\ marks' = mem
    /\ job' = "none"
    /\ UNCHANGED <<service, known, base, delta, run, swap, lost, crashes>>

(* ... marks.save says so.                                                  *)
SaveMarks ==
    /\ job = "save"
    /\ marks' = mem
    /\ job' = "none"
    /\ UNCHANGED <<service, known, base, delta, run, swap, lost, crashes>>

-------------------------------------------------------------------------------
(* compact, as it is scheduled: the periods that deltas have rows of.       *)
StartFold ==
    /\ job = "none"
    /\ delta # <<>>
    /\ periods' = {PeriodOf[t] : t \in {u \in Times :
                       \E s \in Stations : Staged(s, u) # None}}
    /\ job' = "fold"
    /\ UNCHANGED <<service, known, base, delta, marks, run, period, moving, lost,
                   crashes>>

(* Mutant of Deduped: what the partition holds wins over the deltas.        *)
DedupedBaseFirst(s, t) ==
    IF base[s][t] # None THEN base[s][t] ELSE Staged(s, t)

(* dedupe_sql: any delta wins over the partition, the newest of them first. *)
Deduped(s, t) ==
    IF Staged(s, t) # None THEN Staged(s, t) ELSE base[s][t]

(* compact_period, one period after the other, up to writer.close().        *)
Rewrite(p) ==
    /\ job = "fold"
    /\ p \in periods
    /\ \A q \in periods : p <= q
    /\ periods' = periods \ {p}
    /\ period' = p
    /\ moving' = [s \in Stations |-> [t \in Times |->
                     IF PeriodOf[t] = p THEN Deduped(s, t) ELSE None]]
    /\ job' = "delete"
    /\ UNCHANGED <<service, known, base, delta, marks, run, lost, crashes>>

(* The rows R of the data d.  The rows of one file are not told: any of a   *)
(* partition's may share one.                                               *)
RowsOf(d) == {r \in Stations \X Times : d[r[1]][r[2]] # None}
Overlaid(d, R, new) ==
    [s \in Stations |-> [t \in Times |->
        IF <<s, t>> \in R THEN new[s][t] ELSE d[s][t]]]

(* The swap: store.delete(base_prefix), one file after the other ...        *)
DeleteFile(R) ==
    /\ job = "delete"
    /\ R # {}
    /\ \A r \in R : PeriodOf[r[2]] = period
    /\ base' = Overlaid(base, R, NoData)
    /\ UNCHANGED <<service, known, delta, marks, job, run, swap, lost, crashes>>

DeleteDone ==
    /\ job = "delete"
    /\ \A r \in RowsOf(base) : PeriodOf[r[2]] # period
    /\ job' = "move"
    /\ UNCHANGED <<service, known, base, delta, marks, run, swap, lost, crashes>>

(* ... then one move per written file ...                                   *)
MoveFile(R) ==
    /\ job = "move"
    /\ R # {}
    /\ base' = Overlaid(base, R, moving)
    /\ UNCHANGED <<service, known, delta, marks, job, run, swap, lost, crashes>>

(* ... and the next period.                                                 *)
MoveDone ==
    /\ job = "move"
    /\ RowsOf(moving) \subseteq RowsOf(base)
    /\ job' = "fold"
    /\ period' = NoPeriod
    /\ moving' = NoData
    /\ UNCHANGED <<service, known, base, delta, marks, run, periods, lost, crashes>>

Folded ==
    /\ job = "fold"
    /\ periods = {}
    /\ job' = "clear"
    /\ UNCHANGED <<service, known, base, delta, marks, run, swap, lost, crashes>>

(* clear_deltas: one object after the other in listing order, the oldest    *)
(* first where a listing is sorted by name.                                 *)
ClearDelta(d) ==
    /\ job = "clear"
    /\ SortedListing => d = 1
    /\ delta' = RemoveAt(delta, d)
    /\ UNCHANGED <<service, known, base, marks, job, run, swap, lost, crashes>>

ClearDone ==
    /\ job = "clear"
    /\ delta = <<>>
    /\ job' = "none"
    /\ UNCHANGED <<service, known, base, delta, marks, run, swap, lost, crashes>>

(* What only the files under _staging/compact hold: nobody reads those      *)
(* again once the run is dead.                                              *)
OnlyMoving ==
    {r \in RowsOf(moving) : base[r[1]][r[2]] = None /\ Staged(r[1], r[2]) = None}

(* The runner dies, and what the job had in memory goes with it.            *)
Crash ==
    /\ job # "none"
    /\ crashes < MaxCrashes
    /\ crashes' = crashes + 1
    /\ job' = "none"
    /\ todo' = {}
    /\ fetched' = NoData
    /\ mem' = marks
    /\ periods' = {}
    /\ period' = NoPeriod
    /\ moving' = NoData
    /\ lost' = lost \cup OnlyMoving
    /\ UNCHANGED <<service, known, base, delta, marks>>

JobStep ==
    \/ \E s \in Stations : PollRows(s) \/ PollNothing(s) \/ PollError(s)
    \/ WriteDelta
    \/ SaveMarks
    \/ \E p \in periods : Rewrite(p)
    \/ \E R \in SUBSET RowsOf(base) : DeleteFile(R)
    \/ DeleteDone
    \/ \E R \in SUBSET (RowsOf(moving) \ RowsOf(base)) : MoveFile(R)
    \/ MoveDone
    \/ Folded
    \/ \E d \in DOMAIN delta : ClearDelta(d)
    \/ ClearDone

Next ==
    \/ Tick
    \/ \E s \in Stations, t \in Times : Report(s, t)
    \/ Refresh
    \/ StartAppend
    \/ StartFold
    \/ JobStep
    \/ Crash

Spec == Init /\ [][Next]_vars

(* A running job proceeds; append, compact and metadata are scheduled again *)
(* and again (.github/workflows), whatever the group ran in between.        *)
FairSpec ==
    /\ Spec
    /\ WF_vars(JobStep)
    /\ SF_vars(StartAppend)
    /\ SF_vars(StartFold)
    /\ WF_vars(Refresh)

-------------------------------------------------------------------------------
Lost(s, t) == <<s, t>> \in lost

(* Whatever lies behind a saved watermark by more than the window is never  *)
(* asked for again, so the mirror must hold it, in the version the service  *)
(* has: no error, crash or revision may leave a hole there, but for the     *)
(* rows a death inside a swap took (compact.py:140-150).  The order of      *)
(* write_delta and marks.save, the order deltas are cleared in and the      *)
(* window all bear on it (cli.py:389-422).                                  *)
NoSilentGap ==
    \A s \in Stations, t \in Times :
        /\ upstream[s][t] # None
        /\ t <= marks[s].watermark - Window
        => Stored[s][t] = upstream[s][t] \/ Lost(s, t)

(* The observation a watermark names has been stored: the file of           *)
(* watermarks never claims what no delta or partition holds, unless a death *)
(* inside a swap took that row since (compact.py:140-150).                  *)
WatermarkIsStored ==
    \A s \in Stations :
        marks[s].watermark # NoTime =>
            \/ Stored[s][marks[s].watermark] # None
            \/ Lost(s, marks[s].watermark)

(* What the mirror holds is never replaced by an older version or lost: a   *)
(* re-read of the window, a rewrite, its swap and the drop of deltas, done  *)
(* in full or cut short, all keep the newest.  The exception is a death     *)
(* inside a swap (compact.py:140-150), which takes rows of the one period   *)
(* being swapped and of no staged delta.                                    *)
TornSwap(s, t) ==
    /\ Crash
    /\ job \in {"delete", "move"}
    /\ PeriodOf[t] = period
    /\ Staged(s, t) = None

NeverOlder ==
    [][\A s \in Stations, t \in Times :
          Stored'[s][t] >= Stored[s][t] \/ TornSwap(s, t)]_vars

(* Every observation is published in its latest version in the end, unless  *)
(* a torn swap took it, or its station is quarantined or has stopped        *)
(* reporting for so long that append no longer polls it.                    *)
Inactive(s) ==
    \A t \in Times : upstream[s][t] # None => now - t > ActiveDays

EventuallyMirrored ==
    \A s \in Stations, t \in Times :
        upstream[s][t] # None ~>
            \/ base[s][t] = upstream[s][t]
            \/ Lost(s, t)
            \/ Quarantined(s)
            \/ Inactive(s)
===============================================================================
