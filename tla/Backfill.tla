-------------------------------- MODULE Backfill --------------------------------
(***************************************************************************)
(* Backfill: `pcds backfill` (src/pcds/cli.py:218-343) as one of its       *)
(* shards, and scripts/walk.sh, which runs it over one layout period after *)
(* another and compacts each.                                              *)
(*                                                                         *)
(* Stations are fetched by a pool and their results land in any order; the *)
(* shard writes them in the order of the stations, to one rolling writer   *)
(* per period, and saves its watermarks once those are closed.  The files  *)
(* of a shard in a period have the same names in every run, so a run       *)
(* replaces those of the run before, each as soon as it is full, while     *)
(* other results are still out.                                            *)
(*                                                                         *)
(* A year stands for a request's window and for the observations in it,    *)
(* and a file is the sequence of the tables written to it, each of which   *)
(* is taken for one batch of RollingWriter.write.  The rows a compaction   *)
(* deletes and moves at once are those of one file, so any it may be.      *)
(***************************************************************************)
EXTENDS Integers, FiniteSets, Sequences, SequencesExt

CONSTANTS
    Stations,      \* the shard's stations, as integers
    Years,
    Periods,       \* 1 .. the number of layout periods
    PeriodOf,      \* PeriodOf[y]: the layout's period of a year
    Reported,      \* Reported[s]: the years in which the service has rows of s
    Flaky,         \* stations whose requests may fail
    Dispatched,    \* ranges an operator hands to the backfill workflow
    Appended,      \* years an append run picks up
    LocalRoot,     \* whether PCDS_ROOT is a directory: a file that is opened
                   \* again is empty at once, where an object stays until the
                   \* new one is complete
    FailureShare,  \* one station in so many may fail in a successful run: 10
    MaxFiles,      \* bound: times the writer of a period rolls over
    MaxFaults      \* bound: failed fetches, crashes and failures of other shards

ASSUME BackfillAssumption ==
    /\ Stations \subseteq Int /\ IsFiniteSet(Stations)
    /\ Years \subseteq Nat \ {0} /\ IsFiniteSet(Years)
    /\ IsFiniteSet(Periods) /\ Periods = 1 .. Cardinality(Periods)
    /\ PeriodOf \in [Years -> Periods]
    /\ Reported \in [Stations -> SUBSET Years]
    /\ Flaky \subseteq Stations
    /\ Dispatched \subseteq SUBSET Years
    /\ Appended \subseteq Years
    /\ FailureShare \in Nat \ {0}
    /\ LocalRoot \in BOOLEAN
    /\ MaxFiles \in Nat
    /\ MaxFaults \in Nat

FileNumbers == 0 .. MaxFiles     \* s<shard>-00000.parquet, -00001, ...

VARIABLES
    files,     \* files[p][i]: the shard's file i in period p, <<>> if it has none
    part,      \* part[p]: the rows of the compacted partition
    saved,     \* saved[s]: the watermark in the shard's state file, 0 for none
    at,        \* the period walk.sh is at, 0 when it does not run
    pc,        \* the backfill process
    years,     \* its --start-year .. --end-year
    landed,    \* landed[s]: the result of a station, for those that have one
    stream,    \* stream[p]: what went into the open file of period p
    index,     \* index[p]: the number of that file
    merging,   \* the .merging object of a tail, <<>> if there is none
    marks,     \* the watermarks in memory
    failures,
    period,    \* the period whose tail is merged or whose files are swapped, or 0
    staged,    \* the rows a compaction has written anew, under _staging/compact
    faults

store == <<files, part, saved>>
process == <<years, landed, stream, index, merging, marks, failures>>
swap == <<period, staged>>
vars == <<files, part, saved, at, pc, years, landed, stream, index, merging, marks,
          failures, period, staged, faults>>

Table == [station : Stations, years : SUBSET Years]
Result == [got : SUBSET Years, error : BOOLEAN]
Rows == Stations \X Years

RowsOf(file) == UNION {{file[i].station} \X file[i].years : i \in DOMAIN file}

(* What the archive holds of a period, compacted or not.                    *)
Files(p) == UNION {RowsOf(files[p][i]) : i \in FileNumbers}
Held(p) == Files(p) \cup part[p]

YearsOf(p) == {y \in Years : PeriodOf[y] = p}

TypeOK ==
    /\ files \in [Periods -> [FileNumbers -> Seq(Table)]]
    /\ part \in [Periods -> SUBSET Rows]
    /\ saved \in [Stations -> Years \cup {0}]
    /\ at \in Periods \cup {0}
    /\ pc \in {"idle", "fetch", "exit", "delete", "move"}
    /\ years \subseteq Years
    /\ DOMAIN landed \subseteq Stations /\ Range(landed) \subseteq Result
    /\ stream \in [Periods -> Seq(Table)]
    /\ index \in [Periods -> FileNumbers]
    /\ merging \in Seq(Table)
    /\ marks \in [Stations -> Years \cup {0}]
    /\ failures \in 0 .. Cardinality(Stations)
    /\ period \in Periods \cup {0}
    /\ staged \subseteq Rows
    /\ faults \in 0 .. MaxFaults

-------------------------------------------------------------------------------
NoStreams == [p \in Periods |-> <<>>]
NoIndex == [p \in Periods |-> 0]

Init ==
    /\ files = [p \in Periods |-> [i \in FileNumbers |-> <<>>]]
    /\ part = [p \in Periods |-> {}]
    /\ saved = [s \in Stations |-> 0]
    /\ at = 0
    /\ pc = "idle"
    /\ years = {}
    /\ landed = <<>>
    /\ stream = NoStreams
    /\ index = NoIndex
    /\ merging = <<>>
    /\ marks = [s \in Stations |-> 0]
    /\ failures = 0
    /\ period = 0
    /\ staged = {}
    /\ faults = 0

(* A process starts: it loads the watermarks and asks for a range of years. *)
Start(range) ==
    /\ pc = "idle"
    /\ pc' = "fetch"
    /\ years' = range
    /\ marks' = saved
    /\ UNCHANGED <<landed, stream, index, merging, failures, swap>>

(* ... and ends: what it had in memory and in open streams is gone.         *)
End ==
    /\ years' = {}
    /\ landed' = <<>>
    /\ stream' = NoStreams
    /\ index' = NoIndex
    /\ merging' = <<>>
    /\ marks' = [s \in Stations |-> 0]
    /\ failures' = 0

Fault ==
    /\ faults < MaxFaults
    /\ faults' = faults + 1

-------------------------------------------------------------------------------
(* The shard's run *)

(* Stations whose span overlaps the range.                                  *)
SpanOf ==
    [s \in Stations |-> {y \in Years : \E a, b \in Reported[s] : a <= y /\ y <= b}]

(* What is asked of one, a chunk at a time.                                 *)
Asked(s) == SpanOf[s] \cap years

Targets == {s \in Stations : Asked(s) # {}}

(* The targets up to the first whose result is still out.                   *)
Leading(results) ==
    LET missing == Targets \ DOMAIN results
    IN  {s \in Targets : \A t \in missing : s < t}

(* Mutant of Drained: a result is written as soon as it lands.              *)
DrainedAsLanded(results) == DOMAIN results \ DOMAIN landed

(* The stations the loop writes once `results` is what has landed.          *)
Drained(results) == Leading(results) \ Leading(landed)

(* Stations in the order of `targets`.                                      *)
InOrder(S) ==
    CHOOSE q \in SetToSeqs(S) : \A i, j \in DOMAIN q : i < j => q[i] < q[j]

(* Mutant of Part: the whole table goes to the period of its first year.    *)
PartWhole(got, p) ==
    IF \E y \in got : PeriodOf[y] = p /\ \A z \in got : y <= z THEN got ELSE {}

(* The rows of a table that belong in the file of period p.                 *)
Part(got, p) == got \cap YearsOf(p)

(* flush, station by station: the tables that go to the writer of period p. *)
Flushed(S, results, p) ==
    LET q == InOrder({s \in S : Part(results[s].got, p) # {}})
    IN  [i \in DOMAIN q |-> [station |-> q[i], years |-> Part(results[q[i]].got, p)]]

Latest(got) == CHOOSE y \in got : \A z \in got : z <= y

(* A station's watermark moves if it returned rows and no chunk failed.     *)
Success(r) == r.got # {} /\ ~r.error

Recorded(s, r) ==
    IF Success(r) THEN Latest({marks[s], Latest(r.got)}) ELSE marks[s]

(* A writer is open from its first table on, and goes on to a next file.    *)
WriterOpen(p) == stream[p] # <<>> \/ index[p] > 0

(* A result lands.  Chunks of it may have failed; the others' rows are in.  *)
Land(s, failed) ==
    /\ pc = "fetch"
    /\ s \in Targets \ DOMAIN landed
    /\ IF failed = {} THEN UNCHANGED faults ELSE s \in Flaky /\ Fault
    /\ LET result == [got |-> (Reported[s] \cap years) \ failed,
                      error |-> failed # {}]
           now == [t \in DOMAIN landed \cup {s} |->
                      IF t = s THEN result ELSE landed[t]]
           next == Drained(now)
       IN  /\ landed' = now
           /\ files' = [p \in Periods |->
                           IF /\ LocalRoot /\ ~ WriterOpen(p)
                              /\ Flushed(next, now, p) # <<>>
                           THEN [files[p] EXCEPT ![0] = <<>>] ELSE files[p]]
           /\ stream' = [p \in Periods |-> stream[p] \o Flushed(next, now, p)]
           /\ marks' = [t \in Stations |->
                           IF t \in next THEN Recorded(t, now[t]) ELSE marks[t]]
           /\ failures' = failures + Cardinality({t \in next : now[t].error})
    /\ UNCHANGED <<part, saved, at, pc, years, index, merging, swap>>

(* RollingWriter.write: what passes the target is closed, with n tables in  *)
(* it, and the next file opened.  That is within the call that wrote the    *)
(* tables; when exactly makes a difference only to a death.                 *)
Roll(p, n) ==
    /\ pc = "fetch" /\ period = 0
    /\ index[p] < MaxFiles
    /\ files' = [files EXCEPT ![p] =
                    [i \in FileNumbers |->
                       IF i = index[p] THEN SubSeq(stream[p], 1, n)
                       ELSE IF LocalRoot /\ i = index[p] + 1 THEN <<>>
                       ELSE files[p][i]]]
    /\ stream' = [stream EXCEPT ![p] = SubSeq(@, n + 1, Len(@))]
    /\ index' = [index EXCEPT ![p] = @ + 1]
    /\ UNCHANGED <<part, saved, at, pc, years, landed, merging, marks, failures,
                   swap, faults>>

AllLanded == pc = "fetch" /\ DOMAIN landed = Targets

(* A writer is closed: its last file replaces the one an earlier run left.  *)
CloseWriter(p) ==
    /\ AllLanded /\ period = 0
    /\ stream[p] # <<>>
    /\ files' = [files EXCEPT ![p][index[p]] = stream[p]]
    /\ stream' = [stream EXCEPT ![p] = <<>>]
    /\ index' = [index EXCEPT ![p] = 0]
    /\ UNCHANGED <<part, saved, at, pc, years, landed, merging, marks, failures,
                   swap, faults>>

(* A last file below the size floor, an empty one too, is closed and merged *)
(* with the one before it: both are written into a third, ...               *)
MergeTail(p) ==
    /\ AllLanded /\ period = 0
    /\ index[p] > 0
    /\ files' = [files EXCEPT ![p][index[p]] = stream[p]]
    /\ merging' = files[p][index[p] - 1] \o stream[p]
    /\ stream' = [stream EXCEPT ![p] = <<>>]
    /\ period' = p
    /\ UNCHANGED <<part, saved, at, pc, years, landed, index, marks, failures,
                   staged, faults>>

(* ... the former is deleted, then the latter, ...                          *)
DropMerged(i) ==
    /\ pc = "fetch" /\ period # 0
    /\ \/ i = index[period] - 1
       \/ i = index[period] /\ files[period][i - 1] = <<>>
    /\ files[period][i] # <<>>
    /\ files' = [files EXCEPT ![period][i] = <<>>]
    /\ UNCHANGED <<part, saved, at, pc, process, swap, faults>>

(* ... and the third takes the former's name.                               *)
MoveMerged ==
    /\ pc = "fetch" /\ period # 0
    /\ \A i \in {index[period] - 1, index[period]} : files[period][i] = <<>>
    /\ files' = [files EXCEPT ![period][index[period] - 1] = merging]
    /\ index' = [index EXCEPT ![period] = 0]
    /\ merging' = <<>>
    /\ period' = 0
    /\ UNCHANGED <<part, saved, at, pc, years, landed, stream, marks, failures,
                   staged, faults>>

(* Mutant of Save: the watermarks are saved before the files are closed.    *)
SaveEarly ==
    /\ AllLanded
    /\ saved' = marks
    /\ pc' = IF \A p \in Periods : ~ WriterOpen(p) THEN "exit" ELSE pc
    /\ UNCHANGED <<files, part, at, process, swap, faults>>

(* With every writer closed the watermarks are saved, and the process exits.*)
Save ==
    /\ AllLanded
    /\ \A p \in Periods : ~ WriterOpen(p)
    /\ saved' = marks
    /\ pc' = "exit"
    /\ UNCHANGED <<files, part, at, process, swap, faults>>

(* A backfill or a compaction dies.  The next run reads neither a .merging  *)
(* object nor what is under _staging/compact.                               *)
Crash ==
    /\ pc \in {"fetch", "delete", "move"}
    /\ Fault
    /\ End
    /\ pc' = "idle"
    /\ at' = 0
    /\ period' = 0
    /\ staged' = {}
    /\ UNCHANGED store

ExitsWithZero == failures <= Cardinality(Targets) \div FailureShare

-------------------------------------------------------------------------------
(* scripts/walk.sh *)

NextPeriod == IF at + 1 \in Periods THEN at + 1 ELSE 0

StartWalk ==
    /\ pc = "idle"
    /\ at = 0
    /\ at' = NextPeriod
    /\ UNCHANGED <<store, pc, process, swap, faults>>

(* Mutant of Skip: a finished period ends the walk.                         *)
SkipStops ==
    /\ pc = "idle"
    /\ at # 0 /\ part[at] # {}
    /\ at' = 0
    /\ UNCHANGED <<store, pc, process, swap, faults>>

(* A period with a compacted partition is skipped, ...                      *)
Skip ==
    /\ pc = "idle"
    /\ at # 0 /\ part[at] # {}
    /\ at' = NextPeriod
    /\ UNCHANGED <<store, pc, process, swap, faults>>

(* Mutant of WalkRange: a run covers one year of the period.                *)
WalkRangePart == {{y} : y \in YearsOf(at)}

WalkRange == {YearsOf(at)}

(* ... and another one is backfilled as a whole, ...                        *)
WalkPeriod ==
    /\ at # 0 /\ part[at] = {}
    /\ \E range \in WalkRange : Start(range)
    /\ UNCHANGED <<store, at, faults>>

(* compact_period: the rows of a period are written anew, ...               *)
Swap(p, rows) ==
    /\ pc' = "delete"
    /\ period' = p
    /\ staged' = rows

(* ... and compacted, if no shard failed.                                   *)
WalkCompact ==
    /\ pc = "exit"
    /\ at # 0 /\ ExitsWithZero
    /\ Swap(at, Held(at))
    /\ End
    /\ UNCHANGED <<store, at, faults>>

(* ... then its files are deleted one after the other, of whichever writer, *)
DeleteFile(i) ==
    /\ pc = "delete"
    /\ files[period][i] # <<>>
    /\ files' = [files EXCEPT ![period][i] = <<>>]
    /\ UNCHANGED <<part, saved, at, pc, process, swap, faults>>

DeletePart(R) ==
    /\ pc = "delete"
    /\ R # {}
    /\ part' = [part EXCEPT ![period] = @ \ R]
    /\ UNCHANGED <<files, saved, at, pc, process, swap, faults>>

DeleteDone ==
    /\ pc = "delete"
    /\ part[period] = {} /\ \A i \in FileNumbers : files[period][i] = <<>>
    /\ pc' = "move"
    /\ UNCHANGED <<store, at, process, swap, faults>>

(* ... and the new ones moved in one after the other.                       *)
MovePart(R) ==
    /\ pc = "move"
    /\ R # {}
    /\ part' = [part EXCEPT ![period] = @ \cup R]
    /\ UNCHANGED <<files, saved, at, pc, process, swap, faults>>

MoveDone ==
    /\ pc = "move"
    /\ part[period] = staged
    /\ pc' = "idle"
    /\ at' = IF at = 0 THEN 0 ELSE NextPeriod
    /\ period' = 0
    /\ staged' = {}
    /\ UNCHANGED <<store, process, faults>>

(* The walk ends if this shard or another one failed, or the compaction     *)
(* before its swap.                                                         *)
WalkFails ==
    /\ pc = "exit"
    /\ at # 0
    /\ IF ExitsWithZero THEN Fault ELSE UNCHANGED faults
    /\ at' = 0
    /\ pc' = "idle"
    /\ End
    /\ UNCHANGED <<store, swap>>

-------------------------------------------------------------------------------
(* .github/workflows/backfill.yml: any range; the `compact --no-clear` that *)
(* follows finds no deltas, and then folds nothing.                         *)
Dispatch ==
    /\ at = 0
    /\ \E range \in Dispatched : Start(range)
    /\ UNCHANGED <<store, at, faults>>

DispatchEnds ==
    /\ pc = "exit"
    /\ at = 0
    /\ pc' = "idle"
    /\ End
    /\ UNCHANGED <<store, at, swap, faults>>

(* Append stages a row of a recent year, and its compaction merges it with  *)
(* what the partition holds; the delta outlives a compaction that dies.     *)
AppendRun(s, y) ==
    /\ pc = "idle" /\ at = 0
    /\ y \in Appended \cap Reported[s]
    /\ <<s, y>> \notin part[PeriodOf[y]]
    /\ Swap(PeriodOf[y], Held(PeriodOf[y]) \cup {<<s, y>>})
    /\ UNCHANGED <<store, at, process, faults>>

(* What goes on by itself once it has begun: a run and the script.          *)
Proceed ==
    \/ \E s \in Stations : \E failed \in SUBSET Asked(s) : Land(s, failed)
    \/ \E p \in Periods : \E n \in 1 .. Len(stream[p]) : Roll(p, n)
    \/ \E p \in Periods : CloseWriter(p) \/ MergeTail(p)
    \/ \E i \in FileNumbers : DropMerged(i) \/ DeleteFile(i)
    \/ MoveMerged
    \/ Save
    \/ Skip
    \/ WalkPeriod
    \/ WalkCompact
    \/ \E R \in SUBSET staged : DeletePart(R) \/ MovePart(R)
    \/ DeleteDone
    \/ MoveDone
    \/ WalkFails
    \/ DispatchEnds

Next ==
    \/ Proceed
    \/ StartWalk
    \/ Dispatch
    \/ Crash
    \/ \E s \in Stations, y \in Years : AppendRun(s, y)

Spec == Init /\ [][Next]_vars

(* A pool's futures all complete, and a process that is not killed and the  *)
(* script go on; the operator starts a walk that ended again, in the end.   *)
FairSpec == Spec /\ WF_vars(Proceed) /\ SF_vars(StartWalk)

-------------------------------------------------------------------------------
(* A shard's file is sorted by station, although the results of the pool    *)
(* land in any order (cli.py:284-288): RollingWriter takes its input as     *)
(* sorted and compaction's row groups rely on it.                           *)
FilesSorted ==
    \A p \in Periods, n \in FileNumbers : \A i, j \in DOMAIN files[p][n] :
        i < j => files[p][n][i].station < files[p][n][j].station

(* When a process has saved its watermarks, every row it fetched is in the  *)
(* archive, in the partition of its year: nothing stays in the buffer of    *)
(* results that wait for an earlier station (cli.py:310-337).               *)
FetchedIsHeld ==
    pc = "exit" =>
        \A s \in DOMAIN landed : \A y \in landed[s].got : <<s, y>> \in Held(PeriodOf[y])

(* A watermark moves only when the archive holds all that the service has   *)
(* of the station in the requested years: neither a failed chunk nor a      *)
(* crash before the files are closed leaves a gap below it (cli.py:328-340).*)
SavedIsComplete ==
    [][\A s \in Stations :
          saved'[s] # saved[s] =>
              \A y \in Reported[s] \cap years : <<s, y>> \in Held(PeriodOf[y])']_vars

(* The rows of period p that a running process holds or is still to bring:  *)
(* in a stream, a .merging object or the files of a swap, or in a result    *)
(* that is not written yet.                                                 *)
Coming(p) ==
    UNION {{s} \X (YearsOf(p) \cap
                     IF s \in DOMAIN landed THEN landed[s].got
                     ELSE Reported[s] \cap years) :
             s \in Targets \ Leading(landed)}

Carried(p) ==
    UNION {RowsOf(stream[p]), Coming(p),
           IF period = p THEN RowsOf(merging) \cup staged ELSE {}}

(* A run replaces files of earlier runs one by one, while it fetches, and a *)
(* compaction deletes files before it moves the new ones in.  Of what the   *)
(* archive holds or is being rewritten, a step loses only rows of stations  *)
(* that fail in this run, and a death besides only rows that were out of    *)
(* the archive at that moment, in the hands of the process that died        *)
(* (scripts/walk.sh:4-8, pack.py:109-117, compact.py:140-150).              *)
LossConfined ==
    [][\A p \in Periods : \A row \in Held(p) \cup Carried(p) :
          \/ row \in Held(p)' \cup Carried(p)'
          \/ row[1] \in DOMAIN landed' /\ landed'[row[1]].error
          \/ Crash /\ row \notin Held(p)]_vars

(* Once faults stop, repeating the walk compacts every period that has rows *)
(* (scripts/walk.sh:10-11, "Restartable").                                  *)
WalkCompletes ==
    \A p \in Periods :
        (\E s \in Stations : Reported[s] \cap YearsOf(p) # {}) => <>(part[p] # {})
===============================================================================
