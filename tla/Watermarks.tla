------------------------------ MODULE Watermarks ------------------------------
(***************************************************************************)
(* Per-station ingest watermarks (src/pcds/state.py).                      *)
(*                                                                         *)
(* Every writer owns one object under `_state/`: `watermarks.parquet` for  *)
(* the single unsharded job (append, or an unsharded backfill) and         *)
(* `watermarks-<shard>.parquet` for each backfill shard.  A writer loads   *)
(* the merge of all of them, records one result per station it worked on   *)
(* and saves its WHOLE in-memory map, including the rows of stations it    *)
(* never touched, over its own object.  Nothing locks the prefix, so loads *)
(* and saves of different writers interleave, and a load, which lists the  *)
(* prefix once and then reads one object at a time, is not atomic.         *)
(***************************************************************************)
EXTENDS Integers

CONSTANTS
    Stations,     \* station_id values
    Writers,      \* the objects under _state/, one per writer
    Main,         \* the writer of watermarks.parquet (writer=None)
    Owner,        \* Owner[s]: the shard s with station_id % n = i
    NoRow,        \* a station without a row in an object
    MaxTime,      \* bound: latest observation time
    MaxFailures   \* bound: highest consecutive_failures counted

ASSUME WatermarksAssumption ==
    /\ Main \in Writers
    /\ Owner \in [Stations -> Writers \ {Main}]
    /\ MaxTime \in Nat
    /\ MaxFailures \in Nat

Times == 0 .. MaxTime
NoTime == 0                   \* watermark = None, before every real time

Row == [watermark : Times, consecutive_failures : 0 .. MaxFailures]

ASSUME NoRowAssumption == NoRow \notin Row

Rows == [Stations -> Row \cup {NoRow}]
NoRows == [s \in Stations |-> NoRow]

VARIABLES
    files,    \* files[f]: rows of the object writer f last saved
    phase,    \* phase[w]: "idle", "loading" or "running"
    unread,   \* unread[w]: objects listed by w's load and not read yet
    rows,     \* rows[w]: w's in-memory map, Watermarks.rows
    targets,  \* targets[w]: stations w has still to record a result for
    snap      \* history: what the prefix held when w's load listed it

vars == <<files, phase, unread, rows, targets, snap>>

TypeOK ==
    /\ files \in [Writers -> Rows]
    /\ phase \in [Writers -> {"idle", "loading", "running"}]
    /\ unread \in [Writers -> SUBSET Writers]
    /\ rows \in [Writers -> Rows]
    /\ targets \in [Writers -> SUBSET Stations]
    /\ snap \in [Writers -> [Writers -> Rows]]

-------------------------------------------------------------------------------
(* Watermarks.watermark: the stored time, None when the station has no row. *)
WatermarkOf(row) == IF row = NoRow THEN NoTime ELSE row.watermark

(* Mutant of Merge: the object read last wins.                              *)
MergeLastRead(current, row) == IF row = NoRow THEN current ELSE row

(* _merge, for one station: `row` is what the next object says of it.       *)
Merge(current, row) ==
    IF row = NoRow THEN current
    ELSE IF current = NoRow THEN row
    ELSE IF \/ current.watermark = NoTime
            \/ row.watermark > current.watermark
         THEN row
         ELSE current

(* ensure: the row record_success and record_failure then change in place.  *)
Ensure(row) ==
    IF row = NoRow
    THEN [watermark |-> NoTime, consecutive_failures |-> 0]
    ELSE row

Later(a, b) == IF a >= b THEN a ELSE b

(* Mutant of Succeeded: the new time replaces a later one.                  *)
SucceededAnyTime(row, t) == [watermark |-> t, consecutive_failures |-> 0]

Succeeded(row, t) ==
    [watermark |-> Later(Ensure(row).watermark, t), consecutive_failures |-> 0]

Failed(row) ==
    [Ensure(row) EXCEPT !.consecutive_failures = @ + 1]

(* Stations a writer may record: its own shard's, or any when unsharded.    *)
Eligible(w) == {s \in Stations : w = Main \/ Owner[s] = w}

Exists(f) == \E s \in Stations : files[f][s] # NoRow

-------------------------------------------------------------------------------
Init ==
    /\ files = [f \in Writers |-> NoRows]
    /\ phase = [w \in Writers |-> "idle"]
    /\ unread = [w \in Writers |-> {}]
    /\ rows = [w \in Writers |-> NoRows]
    /\ targets = [w \in Writers |-> {}]
    /\ snap = [w \in Writers |-> [f \in Writers |-> NoRows]]

(* Watermarks.load lists the prefix ...                                     *)
List(w) ==
    /\ phase[w] = "idle"
    /\ phase' = [phase EXCEPT ![w] = "loading"]
    /\ unread' = [unread EXCEPT ![w] = {f \in Writers : Exists(f)}]
    /\ snap' = [snap EXCEPT ![w] = files]
    /\ UNCHANGED <<files, rows, targets>>

(* ... and merges the objects one read at a time, in any listing order.     *)
Read(w, f) ==
    /\ phase[w] = "loading"
    /\ f \in unread[w]
    /\ rows' = [rows EXCEPT ![w] =
                   [s \in Stations |-> Merge(rows[w][s], files[f][s])]]
    /\ unread' = [unread EXCEPT ![w] = @ \ {f}]
    /\ UNCHANGED <<files, phase, targets, snap>>

(* The job selects its stations; T are those whose result records anything  *)
(* (backfill records nothing for a station without rows in its range).      *)
Start(w) ==
    /\ phase[w] = "loading"
    /\ unread[w] = {}
    /\ phase' = [phase EXCEPT ![w] = "running"]
    /\ \E T \in SUBSET Eligible(w) : targets' = [targets EXCEPT ![w] = T]
    /\ UNCHANGED <<files, unread, rows, snap>>

(* A result landed; t = NoTime is an append that fetched no new rows.       *)
RecordSuccess(w, s, t) ==
    /\ phase[w] = "running"
    /\ s \in targets[w]
    /\ rows' = [rows EXCEPT ![w][s] = Succeeded(@, t)]
    /\ targets' = [targets EXCEPT ![w] = @ \ {s}]
    /\ UNCHANGED <<files, phase, unread, snap>>

RecordFailure(w, s) ==
    /\ phase[w] = "running"
    /\ s \in targets[w]
    /\ Ensure(rows[w][s]).consecutive_failures < MaxFailures
    /\ rows' = [rows EXCEPT ![w][s] = Failed(@)]
    /\ targets' = [targets EXCEPT ![w] = @ \ {s}]
    /\ UNCHANGED <<files, phase, unread, snap>>

(* save: the move publishes the whole map under the writer's own name; the  *)
(* temporary object before it is never read, since load skips its name.     *)
Save(w) ==
    /\ phase[w] = "running"
    /\ targets[w] = {}
    /\ files' = [files EXCEPT ![w] = rows[w]]
    /\ phase' = [phase EXCEPT ![w] = "idle"]
    /\ rows' = [rows EXCEPT ![w] = NoRows]
    /\ snap' = [snap EXCEPT ![w] = [f \in Writers |-> NoRows]]
    /\ UNCHANGED <<unread, targets>>

(* The runner dies before the move: only its memory is lost.                *)
Crash(w) ==
    /\ phase[w] # "idle"
    /\ phase' = [phase EXCEPT ![w] = "idle"]
    /\ unread' = [unread EXCEPT ![w] = {}]
    /\ rows' = [rows EXCEPT ![w] = NoRows]
    /\ targets' = [targets EXCEPT ![w] = {}]
    /\ snap' = [snap EXCEPT ![w] = [f \in Writers |-> NoRows]]
    /\ UNCHANGED files

Next ==
    \E w \in Writers :
        \/ List(w)
        \/ \E f \in Writers : Read(w, f)
        \/ Start(w)
        \/ \E s \in Stations, t \in Times : RecordSuccess(w, s, t)
        \/ \E s \in Stations : RecordFailure(w, s)
        \/ Save(w)
        \/ Crash(w)

Spec == Init /\ [][Next]_vars

-------------------------------------------------------------------------------
(* A job works from watermarks at least as late as everything that was      *)
(* saved before it listed `_state/`, although its load reads the objects    *)
(* one by one while other writers replace them (state.py:51-61).  Starting  *)
(* from an earlier one would re-fetch the archive from the service.         *)
LoadIsFresh ==
    \A w \in Writers : phase[w] = "running" =>
        \A f \in Writers, s \in Stations :
            WatermarkOf(rows[w][s]) >= WatermarkOf(snap[w][f][s])

(* No save ever moves a station's merged watermark back: what some object   *)
(* vouched for, some object vouches for after every step, although each     *)
(* save replaces a whole object by a map that carries other writers' rows   *)
(* as they were when it was loaded (state.py:7-13).                         *)
Vouched(s, t) == \E f \in Writers : WatermarkOf(files[f][s]) >= t

MergedNeverRegresses ==
    [][\A s \in Stations, t \in Times : Vouched(s, t) => Vouched(s, t)']_vars
===============================================================================
