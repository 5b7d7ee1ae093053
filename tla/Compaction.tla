------------------------------ MODULE Compaction ------------------------------
(***************************************************************************)
(* `pcds compact` (src/pcds/cli.py, src/pcds/compact.py) over the files    *)
(* `append` stages and the period partitions it folds them into.           *)
(*                                                                         *)
(* A run works through its periods one at a time: it writes the partition  *)
(* anew under `_staging/compact`, deletes the old files one by one, moves  *)
(* the new ones in one by one, and when every period is done drops the     *)
(* staged deltas and refreshes the manifest.  Object storage makes only a  *)
(* single object's write atomic, so each of those is a step of its own,    *)
(* and a run can die between any two of them.  `append`, `compact` and     *)
(* `catalog` share one concurrency group (pcds-write): no two run at once. *)
(***************************************************************************)
EXTENDS Integers

CONSTANTS
    Keys,         \* rows, numbered in the order a partition is sorted in
    Periods,      \* partitions of the layout
    PeriodOf,     \* PeriodOf[k]: the period holding the year of row k
    ShardNames,   \* names of files a backfill left: s000-00000.parquet, ...
    WrittenBy,    \* WrittenBy[k]: the shard file a backfill wrote row k to
    NoPeriod,     \* no partition is being rewritten
    NoManifest,   \* `pcds catalog` has never run
    MaxRuns,      \* bound: append runs
    MaxCrashes,   \* bound: compactions that die
    CrashInSwap,  \* whether one may die between the delete and the last move
    SortedListing \* whether store.ls lists objects in the order of their names

ASSUME CompactionAssumption ==
    /\ Keys \subseteq Int
    /\ PeriodOf \in [Keys -> Periods]
    /\ NoPeriod \notin Periods
    /\ ShardNames \cap Int = {}
    /\ WrittenBy \in [Keys -> ShardNames \cup {-1}]   \* -1: it wrote none
    /\ MaxRuns \in Nat
    /\ MaxCrashes \in Nat
    /\ CrashInSwap \in BOOLEAN
    /\ SortedListing \in BOOLEAN

(* Every append run stamps its rows with `ingested_at`, and runs are        *)
(* serial, so the run's number stands for the stamp and for the version of  *)
(* every row it carries.  0 is what the backfill wrote.                     *)
Runs == 1 .. MaxRuns
Versions == 0 .. MaxRuns
NoRow == -1

PartNames == {0, 1}      \* bound: part-00000.parquet and part-00001.parquet
Names == PartNames \cup ShardNames
Rows == [Keys -> Versions \cup {NoRow}]
EmptyFile == [k \in Keys |-> NoRow]     \* also a name without a file
NoFiles == [n \in Names |-> EmptyFile]

VARIABLES
    delta,     \* delta[r]: the rows append run r staged, {} when cleared
    runs,      \* append runs so far
    base,      \* base[p][n]: the file n of partition p
    manifest,  \* base as of the last catalog.write
    pc,        \* where the compaction is
    drop,      \* it clears the deltas: neither --period nor --no-clear given
    todo,      \* periods it has still to rewrite
    period,    \* the one it is rewriting
    staged,    \* staged[n]: files written under _staging/compact, to move
    stale,     \* history: a run died and the manifest was not rebuilt since
    crashes

vars == <<delta, runs, base, manifest, pc, drop, todo, period, staged, stale,
          crashes>>

TypeOK ==
    /\ delta \in [Runs -> SUBSET Keys]
    /\ runs \in 0 .. MaxRuns
    /\ base \in [Periods -> [Names -> Rows]]
    /\ manifest = NoManifest \/ manifest \in [Periods -> [Names -> Rows]]
    /\ pc \in {"idle", "next", "delete", "move", "clear", "refresh"}
    /\ drop \in BOOLEAN
    /\ todo \in SUBSET Periods
    /\ period \in Periods \cup {NoPeriod}
    /\ staged \in [Names -> Rows]
    /\ stale \in BOOLEAN
    /\ crashes \in 0 .. MaxCrashes

-------------------------------------------------------------------------------
Staging(k) == {r \in Runs : k \in delta[r]}         \* runs with a delta for k
Newest(k) == CHOOSE r \in Staging(k) : \A q \in Staging(k) : r >= q

Stored(p, k) == {base[p][n][k] : n \in Names} \ {NoRow}

(* Mutant of Kept: what the partition holds wins over the deltas.           *)
KeptBaseFirst(p, k) ==
    IF Stored(p, k) # {} THEN Stored(p, k)
    ELSE IF PeriodOf[k] = p /\ Staging(k) # {} THEN {Newest(k)}
    ELSE {NoRow}

(* dedupe_sql for one key of partition p: the newest delta, which the year  *)
(* filter admits only in its own period, else any row of the base, which is *)
(* not filtered.  Base rows all carry the epoch, so a tie breaks anyhow.    *)
Kept(p, k) ==
    IF PeriodOf[k] = p /\ Staging(k) # {} THEN {Newest(k)}
    ELSE IF Stored(p, k) # {} THEN Stored(p, k)
    ELSE {NoRow}

HasRows(file) == \E k \in Keys : file[k] # NoRow

(* RollingWriter: the sorted rows cut after row c, the rest in a next file. *)
Split(rows, c) ==
    [n \in Names |->
        [k \in Keys |-> IF \/ n = 0 /\ k <= c
                           \/ n = 1 /\ k > c
                        THEN rows[k]
                        ELSE NoRow]]

-------------------------------------------------------------------------------
(* A backfill left at most one row per key, in its shards' own files.       *)
Init ==
    /\ delta = [r \in Runs |-> {}]
    /\ runs = 0
    /\ base = [p \in Periods |-> [n \in Names |-> [k \in Keys |->
                  IF PeriodOf[k] = p /\ WrittenBy[k] = n THEN 0 ELSE NoRow]]]
    /\ manifest \in {NoManifest, base}
    /\ pc = "idle"
    /\ drop = FALSE
    /\ todo = {}
    /\ period = NoPeriod
    /\ staged = NoFiles
    /\ stale = FALSE
    /\ crashes = 0

(* append: write_delta stages one object per run, for keys of any period.   *)
Append(K) ==
    /\ pc = "idle"
    /\ runs < MaxRuns
    /\ K # {}
    /\ runs' = runs + 1
    /\ delta' = [delta EXCEPT ![runs + 1] = K]
    /\ UNCHANGED <<base, manifest, pc, drop, todo, period, staged, stale,
                   crashes>>

(* Mutant of StartAuto: only periods that have a partition already.         *)
StartAutoKnown(clear) ==
    /\ pc = "idle"
    /\ todo' = {PeriodOf[k] : k \in {j \in UNION {delta[r] : r \in Runs} :
                                     \E n \in Names : HasRows(base[PeriodOf[j]][n])}}
    /\ todo' # {}
    /\ pc' = "next"
    /\ drop' = clear
    /\ UNCHANGED <<delta, runs, base, manifest, period, staged, stale, crashes>>

(* compact without --period: the periods of the years that have deltas.     *)
StartAuto(clear) ==
    /\ pc = "idle"
    /\ todo' = {PeriodOf[k] : k \in UNION {delta[r] : r \in Runs}}
    /\ todo' # {}
    /\ pc' = "next"
    /\ drop' = clear
    /\ UNCHANGED <<delta, runs, base, manifest, period, staged, stale, crashes>>

(* Mutant of StartTargeted: it clears the deltas too.                       *)
StartTargetedClearing(P) ==
    /\ pc = "idle"
    /\ P # {}
    /\ todo' = P
    /\ pc' = "next"
    /\ drop' = TRUE
    /\ UNCHANGED <<delta, runs, base, manifest, period, staged, stale, crashes>>

(* compact --period P: whatever is staged stays, for the other periods.     *)
StartTargeted(P) ==
    /\ pc = "idle"
    /\ P # {}
    /\ todo' = P
    /\ pc' = "next"
    /\ drop' = FALSE
    /\ UNCHANGED <<delta, runs, base, manifest, period, staged, stale, crashes>>

(* compact_period up to writer.close(): read, dedupe, write the new files.  *)
Rewrite(p) ==
    /\ pc = "next"
    /\ p \in todo
    /\ \E rows \in Rows :
        /\ \A k \in Keys : rows[k] \in Kept(p, k)
        /\ HasRows(rows)
        /\ \E c \in {k \in Keys : rows[k] # NoRow} : staged' = Split(rows, c)
    /\ period' = p
    /\ todo' = todo \ {p}
    /\ pc' = "delete"
    /\ UNCHANGED <<delta, runs, base, manifest, drop, stale, crashes>>

(* compact_period's early returns: nothing to read, or no row came out.     *)
SkipPeriod(p) ==
    /\ pc = "next"
    /\ p \in todo
    /\ \A k \in Keys : NoRow \in Kept(p, k)
    /\ todo' = todo \ {p}
    /\ UNCHANGED <<delta, runs, base, manifest, pc, drop, period, staged,
                   stale, crashes>>

(* The swap: store.delete(base_prefix), object by object ...                *)
DeleteFile(n) ==
    /\ pc = "delete"
    /\ HasRows(base[period][n])
    /\ base' = [base EXCEPT ![period][n] = EmptyFile]
    /\ UNCHANGED <<delta, runs, manifest, pc, drop, todo, period, staged,
                   stale, crashes>>

(* Mutant of DeleteDone: files of other writers than the compactor stay.    *)
DeleteDoneParts ==
    /\ pc = "delete"
    /\ \A n \in PartNames : ~ HasRows(base[period][n])
    /\ pc' = "move"
    /\ UNCHANGED <<delta, runs, base, manifest, drop, todo, period, staged,
                   stale, crashes>>

DeleteDone ==
    /\ pc = "delete"
    /\ \A n \in Names : ~ HasRows(base[period][n])
    /\ pc' = "move"
    /\ UNCHANGED <<delta, runs, base, manifest, drop, todo, period, staged,
                   stale, crashes>>

(* ... then one move per written file ...                                   *)
MoveFile(n) ==
    /\ pc = "move"
    /\ HasRows(staged[n])
    /\ base' = [base EXCEPT ![period][n] = staged[n]]
    /\ staged' = [staged EXCEPT ![n] = EmptyFile]
    /\ UNCHANGED <<delta, runs, manifest, pc, drop, todo, period, stale,
                   crashes>>

(* ... and the next period.                                                 *)
MoveDone ==
    /\ pc = "move"
    /\ staged = NoFiles
    /\ pc' = "next"
    /\ period' = NoPeriod
    /\ UNCHANGED <<delta, runs, base, manifest, drop, todo, staged, stale,
                   crashes>>

(* Mutant of Folded: --no-clear and --period runs end without a refresh.    *)
FoldedNoRefresh ==
    /\ pc = "next"
    /\ todo = {}
    /\ pc' = IF drop THEN "clear" ELSE "idle"
    /\ drop' = FALSE
    /\ UNCHANGED <<delta, runs, base, manifest, todo, period, staged,
                   stale, crashes>>

(* Mutant of Folded: every run drops the deltas.                            *)
FoldedClearing ==
    /\ pc = "next"
    /\ todo = {}
    /\ pc' = "clear"
    /\ drop' = FALSE
    /\ UNCHANGED <<delta, runs, base, manifest, todo, period, staged,
                   stale, crashes>>

(* Only a run that derived its periods from the deltas may drop them.       *)
Folded ==
    /\ pc = "next"
    /\ todo = {}
    /\ pc' = IF drop THEN "clear" ELSE "refresh"
    /\ drop' = FALSE
    /\ UNCHANGED <<delta, runs, base, manifest, todo, period, staged,
                   stale, crashes>>

(* clear_deltas, object by object in listing order.  A run_id begins with   *)
(* the run's time, so a listing sorted by name has the oldest delta first.  *)
ClearDelta(r) ==
    /\ pc = "clear"
    /\ delta[r] # {}
    /\ SortedListing => \A q \in Runs : q < r => delta[q] = {}
    /\ delta' = [delta EXCEPT ![r] = {}]
    /\ UNCHANGED <<runs, base, manifest, pc, drop, todo, period, staged,
                   stale, crashes>>

ClearDone ==
    /\ pc = "clear"
    /\ \A r \in Runs : delta[r] = {}
    /\ pc' = "refresh"
    /\ UNCHANGED <<delta, runs, base, manifest, drop, todo, period, staged,
                   stale, crashes>>

(* The end of compact: an existing manifest is rebuilt from what is there.  *)
Refresh ==
    /\ pc = "refresh"
    /\ manifest' = IF manifest = NoManifest THEN NoManifest ELSE base
    /\ pc' = "idle"
    /\ stale' = FALSE
    /\ UNCHANGED <<delta, runs, base, drop, todo, period, staged, crashes>>

(* pcds catalog.                                                            *)
Catalog ==
    /\ pc = "idle"
    /\ manifest' = base
    /\ stale' = FALSE
    /\ UNCHANGED <<delta, runs, base, pc, drop, todo, period, staged, crashes>>

(* The runner dies.  What it left in _staging/compact is never read again:  *)
(* the next rewrite of that period deletes it first.                        *)
Crash ==
    /\ pc # "idle"
    /\ crashes < MaxCrashes
    /\ pc \in {"delete", "move"} => CrashInSwap
    /\ pc' = "idle"
    /\ drop' = FALSE
    /\ todo' = {}
    /\ period' = NoPeriod
    /\ staged' = NoFiles
    /\ stale' = TRUE
    /\ crashes' = crashes + 1
    /\ UNCHANGED <<delta, runs, base, manifest>>

Step ==
    \/ \E p \in Periods : Rewrite(p) \/ SkipPeriod(p)
    \/ \E n \in Names : DeleteFile(n) \/ MoveFile(n)
    \/ DeleteDone
    \/ MoveDone
    \/ Folded
    \/ \E r \in Runs : ClearDelta(r)
    \/ ClearDone
    \/ Refresh

Next ==
    \/ \E K \in SUBSET Keys : Append(K)
    \/ \E clear \in BOOLEAN : StartAuto(clear)
    \/ \E P \in SUBSET Periods : StartTargeted(P)
    \/ Step
    \/ Catalog
    \/ Crash

Spec == Init /\ [][Next]_vars

(* A started run proceeds unless it dies, and an untargeted, clearing run   *)
(* is started again and again.                                              *)
FairSpec == Spec /\ WF_vars(Step) /\ SF_vars(StartAuto(TRUE))

-------------------------------------------------------------------------------
Swapping == pc \in {"delete", "move"}

Present(p, k) == \E n \in Names : base[p][n][k] # NoRow

(* What a reader of observations/ finds under k.                            *)
Published(k) ==
    IF \E p \in Periods : Present(p, k)
    THEN CHOOSE v \in UNION {Stored(p, k) : p \in Periods} : TRUE
    ELSE NoRow

(* What the archive holds under k: the newest staged delta, else the base,  *)
(* whose rows are in the new files while a running swap replaces the old.   *)
Content(k) ==
    IF Staging(k) # {} THEN Newest(k)
    ELSE IF Published(k) # NoRow THEN Published(k)
    ELSE IF Swapping /\ \E n \in Names : staged[n][k] # NoRow
         THEN CHOOSE v \in {staged[n][k] : n \in Names} : v # NoRow
    ELSE NoRow

archive == INSTANCE Archive
             WITH content <- [k \in Keys |-> Content(k)],
                  published <- [k \in Keys |-> Published(k)]

(* Compaction is invisible to the archive's content: only an append changes *)
(* what the archive holds, and what readers see never goes back to an older *)
(* version, in every step but a death inside a swap, after which the        *)
(* archive goes on from what is left (compact.py:91-152, dedupe_sql "keep   *)
(* the newest row per key").                                                *)
TornSwap == Crash /\ Swapping
ImplementsArchive ==
    archive!Init /\ [][archive!Next \/ TornSwap]_(archive!avars)

(* No key is stored twice: two files of a partition, or two partitions,     *)
(* never both hold it, which is what `pcds verify` looks for afterwards     *)
(* (cli.py duplicate_keys).                                                 *)
NoDuplicateRows ==
    \A p, q \in Periods, m, n \in Names, k \in Keys :
        base[p][m][k] # NoRow /\ base[q][n][k] # NoRow => p = q /\ m = n

(* A delta is dropped only once readers find each of its rows, in that      *)
(* version or a newer one: the watermarks have advanced past them, so       *)
(* nothing would fetch them again (cli.py:445-449).                         *)
DroppedWasPublished ==
    [][\A r \in Runs : delta'[r] # delta[r] =>
          \A k \in delta[r] : Published(k) >= r]_<<delta>>

(* Outside a running or interrupted compaction the manifest names only      *)
(* files that are there, with the rows that are in them (cli.py:486-491:    *)
(* one that survives a compaction would cost readers a 404).                *)
ManifestAtRest ==
    pc = "idle" /\ ~ stale /\ manifest # NoManifest =>
        \A p \in Periods, n \in Names :
            HasRows(manifest[p][n]) => base[p][n] = manifest[p][n]

(* When a run dies inside a swap, the rows that vanish are rows of the one  *)
(* partition being swapped that no staged delta holds any more: the other   *)
(* partitions and everything not yet cleared survive (README, Known gaps).  *)
LossConfinedToSwap ==
    [][\A k \in Keys : Content(k) # NoRow /\ Content(k)' # Content(k) =>
          \/ Content(k)' = runs'
          \/ Swapping /\ PeriodOf[k] = period /\ Staging(k) = {}]_vars

(* Again and again everything staged is readable in its latest version,     *)
(* however often compactions die in between, inside a swap too; that a      *)
(* delta is not dropped before is DroppedWasPublished.                      *)
StagedGetsPublished ==
    []<>(\A k \in Keys : Staging(k) # {} => Published(k) = Content(k))
===============================================================================
