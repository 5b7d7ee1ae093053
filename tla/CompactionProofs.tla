--------------------------- MODULE CompactionProofs ---------------------------
(***************************************************************************)
(* What `pcds compact` keeps, for any rows, periods, shards and bounds and *)
(* a death between any two of its steps: no row is stored twice, the       *)
(* manifest at rest names what is there, no delta is dropped unpublished,  *)
(* a torn swap loses nothing but folded rows of its partition, and the     *)
(* files implement Archive.                                                *)
(***************************************************************************)
EXTENDS Compaction, WellFoundedInduction, TLAPS

(* Versions never run ahead of the append runs there were.                  *)
Numbered ==
    /\ \A r \in Runs : delta[r] # {} => r <= runs
    /\ \A p \in Periods, n \in Names, k \in Keys : base[p][n][k] <= runs
    /\ \A n \in Names, k \in Keys : staged[n][k] <= runs

(* A row is in the partition of its year, and there in one file.            *)
Homed ==
    \A p \in Periods, n \in Names, k \in Keys :
        base[p][n][k] # NoRow =>
            /\ PeriodOf[k] = p
            /\ \A m \in Names : base[p][m][k] # NoRow => m = n

(* What the process holds at which point.                                   *)
Control ==
    /\ Swapping <=> period # NoPeriod
    /\ ~ Swapping => staged = NoFiles
    /\ drop => pc \in {"next", "delete", "move"}

(* The new files hold each row of the period once, in its newest version.   *)
StagedOnce ==
    \A n \in Names, k \in Keys :
        staged[n][k] # NoRow =>
            /\ PeriodOf[k] = period
            /\ \A m \in Names : staged[m][k] # NoRow => m = n
            /\ Staging(k) # {} => staged[n][k] = Newest(k)

(* While the old files go, what no delta holds is in the new ones too.      *)
Deleting ==
    pc = "delete" =>
        \A n \in Names, k \in Keys :
            base[period][n][k] # NoRow /\ Staging(k) = {} =>
                \E m \in Names : staged[m][k] = base[period][n][k]

(* While the new files come, their names are free, and no row of them is    *)
(* there already.                                                           *)
Moving ==
    pc = "move" =>
        \A n \in Names, k \in Keys :
            /\ staged[n][k] # NoRow =>
                  \A m \in Names : base[period][m][k] = NoRow
            /\ HasRows(staged[n]) => base[period][n][k] = NoRow

Settled(k) == \E n \in Names : base[PeriodOf[k]][n][k] = Newest(k)

(* The staged rows of the period being swapped are on their way ...         *)
Rewritten ==
    Swapping =>
        \A k \in Keys : PeriodOf[k] = period /\ Staging(k) # {} =>
            \/ \E n \in Names : staged[n][k] = Newest(k)
            \/ pc = "move" /\ Settled(k)

(* ... those of the periods done are there, when the run drops deltas ...   *)
Folding ==
    drop =>
        \A k \in Keys : Staging(k) # {} =>
            PeriodOf[k] \in todo \cup {period} \/ Settled(k)

(* ... and while they are dropped, each is there or a newer one is.         *)
Clearing ==
    pc = "clear" =>
        \A r \in Runs : \A k \in delta[r] :
            \E n \in Names : base[PeriodOf[k]][n][k] >= r

ClearingInOrder ==
    pc = "clear" /\ SortedListing =>
        \A k \in Keys : Staging(k) # {} => Settled(k)

(* The manifest is the files' own between runs.                             *)
Cataloged ==
    pc = "idle" /\ ~ stale => manifest = NoManifest \/ manifest = base

CompactionInv ==
    /\ TypeOK
    /\ Numbered
    /\ Homed
    /\ Control
    /\ StagedOnce
    /\ Deleting
    /\ Moving
    /\ Rewritten
    /\ Folding
    /\ Clearing
    /\ ClearingInOrder
    /\ Cataloged

-------------------------------------------------------------------------------
(* The newest of a row's deltas is one of them, and no other is newer.      *)
LEMMA NewestIsNewest ==
    ASSUME NEW k \in Keys, Staging(k) # {}
    PROVE  /\ Newest(k) \in Runs
           /\ k \in delta[Newest(k)]
           /\ \A r \in Runs : k \in delta[r] => r <= Newest(k)
<1> DEFINE Less == OpToRel(<, Nat)
           T == {n \in Nat : \E r \in Staging(k) : n = MaxRuns - r}
<1>1. IsWellFoundedOn(Less, Nat)
    BY NatLessThanWellFounded
<1>2. \A m, n \in Nat : m < n => <<m, n>> \in Less
    BY Zenon DEF OpToRel
<1> HIDE DEF Less
<1>3. MaxRuns \in Nat /\ \A r \in Staging(k) : r \in Int /\ MaxRuns - r \in Nat
    BY CompactionAssumption DEF Staging, Runs
<1>4. T \subseteq Nat /\ T # {}
    BY <1>3
<1>5. \E n \in T : \A m \in T : n <= m
  <2> HIDE DEF T
  <2>1. PICK n \in T : \A m \in T : ~ (<<m, n>> \in Less)
    BY <1>1, <1>4, WFMin
  <2>2. \A m \in T : m \in Nat /\ ~ (m < n)
    BY <1>2, <1>4, <2>1, Zenon
  <2> QED
    BY <2>2
<1>6. PICK n \in T : \A m \in T : n <= m
    BY <1>5
<1>7. PICK r \in Staging(k) : n = MaxRuns - r
    BY <1>6
<1>8. \A q \in Staging(k) : r >= q
    BY <1>3, <1>6, <1>7
<1>9. Newest(k) \in Staging(k) /\ \A q \in Staging(k) : Newest(k) >= q
    BY <1>8 DEF Newest
<1> QED
    BY <1>3, <1>9 DEF Staging

-------------------------------------------------------------------------------
LEMMA RowTypes ==
    /\ EmptyFile \in Rows
    /\ NoFiles \in [Names -> Rows]
    /\ Versions \cup {NoRow} \subseteq Int
    /\ Runs \subseteq Versions \ {0}
BY CompactionAssumption DEF EmptyFile, Rows, NoFiles, Versions, NoRow, Runs

(* The writer puts every row into exactly one of its files.                 *)
LEMMA SplitFacts ==
    ASSUME NEW rows \in Rows, NEW c \in Keys
    PROVE  /\ Split(rows, c) \in [Names -> Rows]
           /\ \A n \in Names, k \in Keys : Split(rows, c)[n][k] # NoRow =>
                 /\ Split(rows, c)[n][k] = rows[k]
                 /\ \A m \in Names : Split(rows, c)[m][k] # NoRow => m = n
           /\ \A k \in Keys : \E n \in Names : Split(rows, c)[n][k] = rows[k]
<1> DEFINE fits(n, k) == (n = 0 /\ k <= c) \/ (n = 1 /\ k > c)
<1>1. Split(rows, c) \in [Names -> Rows]
    BY RowTypes DEF Split, Rows
<1>2. \A n \in Names, k \in Keys :
          Split(rows, c)[n][k] = IF fits(n, k) THEN rows[k] ELSE NoRow
    BY DEF Split
<1>3. \A k \in Keys : k \in Int /\ c \in Int
    BY CompactionAssumption
<1>4. \A m, n \in Names, k \in Keys : fits(m, k) /\ fits(n, k) => m = n
    BY <1>3
<1>5. \A k \in Keys : \E n \in Names : fits(n, k)
  <2>1. 0 \in Names /\ 1 \in Names
    BY DEF Names, PartNames
  <2>2. ASSUME NEW k \in Keys PROVE fits(0, k) \/ fits(1, k)
    <3>1. k <= c \/ k > c
      BY <1>3
    <3> QED
      BY <3>1
  <2> QED
    BY <2>1, <2>2
<1> HIDE DEF fits
<1> QED
    BY <1>1, <1>2, <1>4, <1>5

LEMMA TypeInductive == TypeOK /\ [Next]_vars => TypeOK'
<1> SUFFICES ASSUME TypeOK, [Next]_vars PROVE TypeOK'
    OBVIOUS
<1> USE DEF TypeOK
<1>1. ASSUME NEW K \in SUBSET Keys, Append(K) PROVE TypeOK'
    BY <1>1, CompactionAssumption DEF Append, Runs
<1>2. ASSUME NEW clear \in BOOLEAN, StartAuto(clear) PROVE TypeOK'
  <2>1. UNION {delta[r] : r \in Runs} \subseteq Keys
    OBVIOUS
  <2>2. todo' \in SUBSET Periods
    BY <1>2, <2>1, CompactionAssumption DEF StartAuto
  <2> QED
    BY <1>2, <2>2 DEF StartAuto
<1>3. ASSUME NEW P \in SUBSET Periods, StartTargeted(P) PROVE TypeOK'
    BY <1>3 DEF StartTargeted
<1>4. ASSUME NEW p \in Periods, Rewrite(p) PROVE TypeOK'
  <2>1. PICK rows \in Rows, c \in Keys : staged' = Split(rows, c)
    BY <1>4 DEF Rewrite
  <2> QED
    BY <1>4, <2>1, SplitFacts DEF Rewrite
<1>5. ASSUME NEW p \in Periods, SkipPeriod(p) PROVE TypeOK'
    BY <1>5 DEF SkipPeriod
<1>6. ASSUME NEW n \in Names, DeleteFile(n) PROVE TypeOK'
    BY <1>6, RowTypes DEF DeleteFile
<1>7. ASSUME NEW n \in Names, MoveFile(n) PROVE TypeOK'
    BY <1>7, RowTypes DEF MoveFile
<1>8. CASE DeleteDone \/ MoveDone \/ Folded \/ ClearDone
    BY <1>8 DEF DeleteDone, MoveDone, Folded, ClearDone
<1>9. ASSUME NEW r \in Runs, ClearDelta(r) PROVE TypeOK'
    BY <1>9 DEF ClearDelta
<1>10. CASE Refresh \/ Catalog
    BY <1>10 DEF Refresh, Catalog
<1>11. CASE Crash
  <2>1. staged' \in [Names -> Rows]
    BY <1>11, RowTypes DEF Crash
  <2>2. crashes' \in 0 .. MaxCrashes
    BY <1>11, CompactionAssumption DEF Crash
  <2> QED
    BY <1>11, <2>1, <2>2 DEF Crash
<1>12. CASE UNCHANGED vars
    BY <1>12 DEF vars
<1> QED
    BY <1>1, <1>2, <1>3, <1>4, <1>5, <1>6, <1>7, <1>8, <1>9, <1>10, <1>11, <1>12
    DEF Next, Step

-------------------------------------------------------------------------------
(* A step of the inductive invariant, action by action: first what most of  *)
(* them have in common.                                                     *)
LEMMA NoFilesAreEmpty ==
    /\ \A n \in Names, k \in Keys : NoFiles[n][k] = NoRow
    /\ \A n \in Names : ~ HasRows(NoFiles[n])
BY DEF NoFiles, EmptyFile, HasRows

LEMMA SameDeltas ==
    ASSUME UNCHANGED delta
    PROVE  \A k \in Keys : Staging(k)' = Staging(k) /\ Newest(k)' = Newest(k)
BY DEF Staging, Newest

LEMMA SameFiles ==
    ASSUME UNCHANGED <<delta, base>>
    PROVE  \A k \in Keys : Settled(k)' = Settled(k)
BY SameDeltas DEF Settled

LEMMA NewestIsARun ==
    ASSUME TypeOK, Numbered, NEW k \in Keys, Staging(k) # {}
    PROVE  Newest(k) \in Runs /\ Newest(k) # NoRow /\ Newest(k) <= runs
BY NewestIsNewest, RowTypes, CompactionAssumption DEF Numbered, NoRow, Runs

LEMMA AppendKeeps ==
    ASSUME CompactionInv, NEW K \in SUBSET Keys, Append(K)
    PROVE  CompactionInv'
<1> USE DEF CompactionInv
<1>1. TypeOK'
    BY TypeInductive DEF Next
<1>2. Numbered'
  <2>1. runs \in Int /\ runs' = runs + 1
    BY CompactionAssumption DEF Append, TypeOK
  <2>2. \A r \in Runs : r # runs + 1 => delta'[r] = delta[r]
    BY DEF Append, TypeOK
  <2>3. \A r \in Runs : r \in Int
    BY CompactionAssumption DEF Runs
  <2>4. \A p \in Periods, n \in Names, k \in Keys :
            base[p][n][k] \in Int
    BY RowTypes DEF TypeOK, Rows
  <2>5. ASSUME NEW r \in Runs, delta'[r] # {} PROVE r <= runs'
    <3>1. CASE r = runs + 1
      BY <2>1, <3>1
    <3>2. CASE r # runs + 1
      <4>1. r <= runs
        BY <2>2, <2>5, <3>2 DEF Numbered
      <4> QED
        BY <2>1, <2>3, <4>1
    <3> QED
      BY <3>1, <3>2
  <2>6. \A p \in Periods, n \in Names, k \in Keys : base[p][n][k] <= runs'
    BY <2>1, <2>4 DEF Numbered
  <2>7. \A n \in Names, k \in Keys : staged[n][k] <= runs'
    <3> TAKE n \in Names, k \in Keys
    <3>1. staged[n][k] \in Int
      BY RowTypes DEF TypeOK, Rows
    <3> QED
      BY <2>1, <3>1 DEF Numbered
  <2> QED
    BY <2>5, <2>6, <2>7 DEF Append, Numbered
<1>3. /\ ~ Swapping /\ ~ drop /\ staged = NoFiles
      /\ ~ Swapping' /\ ~ drop' /\ UNCHANGED <<base, staged, period, pc>>
    BY DEF Append, Control, Swapping
<1>4. Homed' /\ Control'
    BY <1>3 DEF Homed, Control
<1>5. StagedOnce' /\ Deleting' /\ Moving' /\ Rewritten' /\ Folding'
    BY <1>3, NoFilesAreEmpty
    DEF StagedOnce, Deleting, Moving, Rewritten, Folding, Swapping
<1>6. Clearing' /\ ClearingInOrder' /\ Cataloged'
    BY DEF Append, Clearing, ClearingInOrder, Cataloged
<1> QED
    BY <1>1, <1>2, <1>4, <1>5, <1>6

LEMMA StartKeeps ==
    ASSUME CompactionInv,
           \/ \E clear \in BOOLEAN : StartAuto(clear)
           \/ \E P \in SUBSET Periods : StartTargeted(P)
    PROVE  CompactionInv'
<1> USE DEF CompactionInv
<1>1. TypeOK'
    BY TypeInductive DEF Next
<1>2. /\ pc = "idle" /\ pc' = "next" /\ ~ Swapping /\ ~ Swapping'
      /\ UNCHANGED <<delta, runs, base, manifest, period, staged, stale>>
    BY DEF StartAuto, StartTargeted, Swapping
<1>3. Numbered' /\ Homed' /\ Control'
    BY <1>2 DEF Numbered, Homed, Control
<1>4. StagedOnce' /\ Deleting' /\ Moving' /\ Rewritten'
    BY <1>2, NoFilesAreEmpty
    DEF Control, StagedOnce, Deleting, Moving, Rewritten
<1>5. Folding'
  <2>1. CASE \E clear \in BOOLEAN : StartAuto(clear)
    <3>1. \A k \in Keys : Staging(k) # {} => PeriodOf[k] \in todo'
      BY <2>1 DEF StartAuto, Staging
    <3> QED
      BY <1>2, <3>1, SameDeltas DEF Folding
  <2>2. CASE \E P \in SUBSET Periods : StartTargeted(P)
    BY <2>2 DEF StartTargeted, Folding
  <2> QED
    BY <2>1, <2>2
<1>6. Clearing' /\ ClearingInOrder' /\ Cataloged'
    BY <1>2 DEF Clearing, ClearingInOrder, Cataloged
<1> QED
    BY <1>1, <1>3, <1>4, <1>5, <1>6

(* What dedupe_sql keeps of a row is in the partition of its year, the      *)
(* newest delta if there is one, and else what the base has.                *)
LEMMA KeptFacts ==
    ASSUME TypeOK, Numbered, Homed, NEW p \in Periods, NEW k \in Keys,
           NEW v \in Kept(p, k)
    PROVE  /\ v # NoRow => PeriodOf[k] = p
           /\ v # NoRow /\ Staging(k) # {} => v = Newest(k)
           /\ v <= runs
           /\ PeriodOf[k] = p /\ Staging(k) # {} => v = Newest(k)
           /\ \A n \in Names : base[p][n][k] # NoRow /\ Staging(k) = {} =>
                 v = base[p][n][k]
<1>1. CASE PeriodOf[k] = p /\ Staging(k) # {}
    BY <1>1, NewestIsARun DEF Kept
<1>2. CASE ~ (PeriodOf[k] = p /\ Staging(k) # {})
  <2>1. CASE Stored(p, k) # {}
    <3>1. PICK n \in Names : v = base[p][n][k] /\ v # NoRow
      BY <1>2, <2>1 DEF Kept, Stored
    <3> QED
      BY <1>2, <3>1 DEF Homed, Numbered
  <2>2. CASE Stored(p, k) = {}
    <3>1. v = NoRow /\ \A n \in Names : base[p][n][k] = NoRow
      BY <1>2, <2>2 DEF Kept, Stored
    <3>2. NoRow <= runs
      BY CompactionAssumption DEF NoRow, TypeOK
    <3> QED
      BY <1>2, <3>1, <3>2
  <2> QED
    BY <2>1, <2>2
<1> QED
    BY <1>1, <1>2

LEMMA RewriteKeeps ==
    ASSUME CompactionInv, NEW p \in Periods, Rewrite(p)
    PROVE  CompactionInv'
<1> USE DEF CompactionInv
<1>1. TypeOK'
    BY TypeInductive DEF Next, Step
<1>2. /\ pc = "next" /\ pc' = "delete" /\ ~ Swapping /\ Swapping'
      /\ period' = p /\ todo' = todo \ {p}
      /\ UNCHANGED <<delta, runs, base, manifest, drop, stale, crashes>>
    BY DEF Rewrite, Swapping
<1>3. PICK rows \in Rows :
        /\ \A k \in Keys : rows[k] \in Kept(p, k)
        /\ \E c \in Keys : staged' = Split(rows, c)
    BY DEF Rewrite
<1>4. /\ \A n \in Names, k \in Keys : staged'[n][k] # NoRow =>
            /\ staged'[n][k] = rows[k]
            /\ \A m \in Names : staged'[m][k] # NoRow => m = n
      /\ \A k \in Keys : \E n \in Names : staged'[n][k] = rows[k]
  <2>1. PICK c \in Keys : staged' = Split(rows, c)
    BY <1>3
  <2> DEFINE new == Split(rows, c)
  <2>2. /\ \A n \in Names, k \in Keys : new[n][k] # NoRow =>
              /\ new[n][k] = rows[k]
              /\ \A m \in Names : new[m][k] # NoRow => m = n
        /\ \A k \in Keys : \E n \in Names : new[n][k] = rows[k]
    BY SplitFacts
  <2> HIDE DEF new
  <2>3. staged' = new
    BY <2>1 DEF new
  <2> QED
    BY <2>2, <2>3
<1>5. Numbered'
  <2>1. \A k \in Keys : rows[k] <= runs
    BY <1>3, KeptFacts
  <2>2. NoRow <= runs
    BY CompactionAssumption DEF NoRow, TypeOK
  <2>3. \A n \in Names, k \in Keys : staged'[n][k] <= runs
    BY <1>4, <2>1, <2>2
  <2> QED
    BY <1>2, <2>3 DEF Numbered
<1>6. Homed' /\ Control'
    BY <1>2, CompactionAssumption DEF Homed, Control
<1>7. StagedOnce'
  <2>1. \A k \in Keys : rows[k] # NoRow =>
            PeriodOf[k] = p /\ (Staging(k) # {} => rows[k] = Newest(k))
    BY <1>3, KeptFacts
  <2> QED
    BY <1>2, <1>4, <2>1, SameDeltas DEF StagedOnce
<1>8. Deleting'
  <2>1. \A n \in Names, k \in Keys :
            base[p][n][k] # NoRow /\ Staging(k) = {} => rows[k] = base[p][n][k]
    BY <1>3, KeptFacts
  <2> QED
    BY <1>2, <1>4, <2>1, SameDeltas DEF Deleting
<1>9. Rewritten'
  <2>1. \A k \in Keys : PeriodOf[k] = p /\ Staging(k) # {} => rows[k] = Newest(k)
    BY <1>3, KeptFacts
  <2> QED
    BY <1>2, <1>4, <2>1, SameDeltas DEF Rewritten
<1>10. Folding'
  <2>1. \A k \in Keys : PeriodOf[k] # period
    BY <1>2, CompactionAssumption DEF Control
  <2> QED
    BY <1>2, <2>1, SameDeltas, SameFiles DEF Folding
<1>11. Moving' /\ Clearing' /\ ClearingInOrder' /\ Cataloged'
    BY <1>2 DEF Moving, Clearing, ClearingInOrder, Cataloged
<1> QED
    BY <1>1, <1>5, <1>6, <1>7, <1>8, <1>9, <1>10, <1>11

LEMMA SkipKeeps ==
    ASSUME CompactionInv, NEW p \in Periods, SkipPeriod(p)
    PROVE  CompactionInv'
<1> USE DEF CompactionInv
<1>1. TypeOK'
    BY TypeInductive DEF Next, Step
<1>2. /\ pc = "next" /\ pc' = "next" /\ ~ Swapping /\ ~ Swapping'
      /\ todo' = todo \ {p}
      /\ UNCHANGED <<delta, runs, base, manifest, drop, period, staged, stale>>
    BY DEF SkipPeriod, Swapping
<1>3. Folding'
  <2>1. \A k \in Keys : PeriodOf[k] = p => Staging(k) = {}
    BY NewestIsARun DEF SkipPeriod, Kept
  <2> QED
    BY <1>2, <2>1, SameDeltas, SameFiles DEF Folding
<1>4. StagedOnce' /\ Rewritten'
    BY <1>2, SameDeltas DEF StagedOnce, Rewritten
<1> QED
    BY <1>1, <1>2, <1>3, <1>4
    DEF Numbered, Homed, Control, Deleting, Moving, Clearing, ClearingInOrder,
        Cataloged

LEMMA DeleteFileKeeps ==
    ASSUME CompactionInv, NEW f \in Names, DeleteFile(f)
    PROVE  CompactionInv'
<1> USE DEF CompactionInv
<1>1. TypeOK'
    BY TypeInductive DEF Next, Step
<1>2. /\ pc = "delete" /\ pc' = "delete" /\ Swapping /\ Swapping'
      /\ UNCHANGED <<delta, runs, manifest, drop, todo, period, staged, stale>>
      /\ period \in Periods
    BY DEF DeleteFile, Swapping, Control, TypeOK
<1>3. /\ \A p \in Periods, n \in Names, k \in Keys :
            base'[p][n][k] = base[p][n][k] \/ base'[p][n][k] = NoRow
      /\ \A p \in Periods : p # period => base'[p] = base[p]
    BY <1>2 DEF DeleteFile, TypeOK, EmptyFile
<1>4. Numbered'
  <2>1. NoRow <= runs
    BY CompactionAssumption DEF NoRow, TypeOK
  <2>2. \A p \in Periods, n \in Names, k \in Keys : base'[p][n][k] <= runs
    BY <1>3, <2>1 DEF Numbered
  <2> QED
    BY <1>2, <2>2 DEF Numbered
<1>5. Homed' /\ Control'
    BY <1>2, <1>3 DEF Homed, Control
<1>6. StagedOnce'
    BY <1>2, SameDeltas DEF StagedOnce
<1>7. Deleting'
    BY <1>2, <1>3, SameDeltas DEF Deleting
<1>8. Rewritten'
    BY <1>2, SameDeltas DEF Rewritten
<1>9. Folding'
  <2>1. \A k \in Keys : Settled(k) /\ PeriodOf[k] # period => Settled(k)'
    BY <1>2, <1>3, SameDeltas, CompactionAssumption DEF Settled
  <2> QED
    BY <1>2, <2>1, SameDeltas DEF Folding
<1> QED
    BY <1>1, <1>2, <1>4, <1>5, <1>6, <1>7, <1>8, <1>9
    DEF Moving, Clearing, ClearingInOrder, Cataloged

LEMMA DeleteDoneKeeps ==
    ASSUME CompactionInv, DeleteDone
    PROVE  CompactionInv'
<1> USE DEF CompactionInv
<1>1. TypeOK'
    BY TypeInductive DEF Next, Step
<1>2. /\ pc = "delete" /\ pc' = "move" /\ Swapping /\ Swapping'
      /\ UNCHANGED <<delta, runs, base, manifest, drop, todo, period, staged,
                     stale>>
    BY DEF DeleteDone, Swapping
<1>3. Moving'
    BY <1>2 DEF DeleteDone, HasRows, Moving
<1>4. StagedOnce' /\ Rewritten' /\ Folding'
    BY <1>2, SameDeltas, SameFiles DEF StagedOnce, Rewritten, Folding
<1> QED
    BY <1>1, <1>2, <1>3, <1>4
    DEF Numbered, Homed, Control, Deleting, Clearing, ClearingInOrder, Cataloged

LEMMA MoveFileKeeps ==
    ASSUME CompactionInv, NEW f \in Names, MoveFile(f)
    PROVE  CompactionInv'
<1> USE DEF CompactionInv
<1>1. TypeOK'
    BY TypeInductive DEF Next, Step
<1>2. /\ pc = "move" /\ pc' = "move" /\ Swapping /\ Swapping'
      /\ UNCHANGED <<delta, runs, manifest, drop, todo, period, stale>>
      /\ period \in Periods
    BY DEF MoveFile, Swapping, Control, TypeOK
<1>3. /\ \A p \in Periods, n \in Names : p # period \/ n # f =>
            base'[p][n] = base[p][n]
      /\ base'[period][f] = staged[f]
    BY <1>2 DEF MoveFile, TypeOK
<1>4. /\ \A n \in Names : n # f => staged'[n] = staged[n]
      /\ \A k \in Keys : staged'[f][k] = NoRow
    BY DEF MoveFile, TypeOK, EmptyFile
<1>5. \A k \in Keys : base[period][f][k] = NoRow
    BY <1>2 DEF MoveFile, Moving
<1>6. Numbered'
  <2>1. NoRow <= runs
    BY CompactionAssumption DEF NoRow, TypeOK
  <2>2. \A p \in Periods, n \in Names, k \in Keys : base'[p][n][k] <= runs
    BY <1>3 DEF Numbered
  <2>3. \A n \in Names, k \in Keys : staged'[n][k] <= runs
    BY <1>4, <2>1 DEF Numbered
  <2> QED
    BY <1>2, <2>2, <2>3 DEF Numbered
<1>7. Homed'
  <2> SUFFICES ASSUME NEW p \in Periods, NEW n \in Names, NEW k \in Keys,
                      base'[p][n][k] # NoRow
               PROVE  /\ PeriodOf[k] = p
                      /\ \A m \in Names : base'[p][m][k] # NoRow => m = n
    BY DEF Homed
  <2>1. CASE p # period
    BY <1>3, <2>1 DEF Homed
  <2>2. CASE p = period /\ n = f
    <3>1. staged[f][k] # NoRow
      BY <1>3, <2>2
    <3>2. \A m \in Names : base[period][m][k] = NoRow
      BY <1>2, <3>1 DEF Moving
    <3> QED
      BY <1>3, <2>2, <3>1, <3>2 DEF StagedOnce
  <2>3. CASE p = period /\ n # f
    <3>1. base[period][n][k] # NoRow
      BY <1>3, <2>3
    <3>2. staged[f][k] = NoRow
      BY <1>2, <3>1 DEF Moving
    <3> QED
      BY <1>2, <1>3, <2>3, <3>1, <3>2 DEF Homed
  <2> QED
    BY <2>1, <2>2, <2>3
<1>8. Control'
    BY <1>2 DEF Control
<1>9. StagedOnce'
    BY <1>2, <1>4, SameDeltas DEF StagedOnce
<1>10. Moving'
  <2>1. \A n \in Names, k \in Keys : staged'[n][k] # NoRow =>
            /\ n # f /\ staged[n][k] # NoRow
            /\ staged[f][k] = NoRow
    BY <1>4 DEF StagedOnce
  <2>2. \A n \in Names, k \in Keys : staged'[n][k] # NoRow =>
            \A m \in Names : base'[period][m][k] = NoRow
    BY <1>2, <1>3, <2>1 DEF Moving
  <2>3. \A n \in Names : HasRows(staged'[n]) => n # f /\ HasRows(staged[n])
    BY <2>1 DEF HasRows
  <2>4. \A n \in Names, k \in Keys : HasRows(staged'[n]) => base'[period][n][k] = NoRow
    BY <1>2, <1>3, <2>3 DEF Moving
  <2> QED
    BY <1>2, <2>2, <2>4 DEF Moving, HasRows
<1>11. \A k \in Keys : Staging(k) # {} /\ Settled(k) => Settled(k)'
  <2> SUFFICES ASSUME NEW k \in Keys, Staging(k) # {}, NEW n \in Names,
                      base[PeriodOf[k]][n][k] = Newest(k)
               PROVE  Settled(k)'
    BY DEF Settled
  <2>1. PeriodOf[k] \in Periods
    BY CompactionAssumption
  <2>2. CASE PeriodOf[k] # period \/ n # f
    BY <1>2, <1>3, <2>1, <2>2, SameDeltas DEF Settled
  <2>3. CASE PeriodOf[k] = period /\ n = f
    BY <1>5, <2>3, NewestIsARun
  <2> QED
    BY <2>2, <2>3
<1>12. Rewritten'
  <2> SUFFICES ASSUME NEW k \in Keys, PeriodOf[k] = period, Staging(k) # {}
               PROVE  (\E n \in Names : staged'[n][k] = Newest(k)) \/ Settled(k)'
    BY <1>2, SameDeltas DEF Rewritten
  <2>1. CASE Settled(k)
    BY <1>11, <2>1
  <2>2. CASE ~ Settled(k)
    <3>1. PICK n \in Names : staged[n][k] = Newest(k)
      BY <1>2, <2>2 DEF Rewritten
    <3>2. CASE n = f
      BY <1>2, <1>3, <3>1, <3>2, SameDeltas DEF Settled
    <3>3. CASE n # f
      BY <1>4, <3>1, <3>3
    <3> QED
      BY <3>2, <3>3
  <2> QED
    BY <2>1, <2>2
<1>13. Folding'
    BY <1>2, <1>11, SameDeltas DEF Folding
<1> QED
    BY <1>1, <1>2, <1>6, <1>7, <1>8, <1>9, <1>10, <1>12, <1>13
    DEF Deleting, Clearing, ClearingInOrder, Cataloged

LEMMA MoveDoneKeeps ==
    ASSUME CompactionInv, MoveDone
    PROVE  CompactionInv'
<1> USE DEF CompactionInv
<1>1. TypeOK'
    BY TypeInductive DEF Next, Step
<1>2. /\ pc = "move" /\ pc' = "next" /\ Swapping /\ ~ Swapping'
      /\ staged = NoFiles /\ period' = NoPeriod
      /\ UNCHANGED <<delta, runs, base, manifest, drop, todo, staged, stale>>
    BY DEF MoveDone, Swapping
<1>3. Folding'
  <2>1. \A k \in Keys : PeriodOf[k] = period /\ Staging(k) # {} => Settled(k)
    BY <1>2, NoFilesAreEmpty, NewestIsARun DEF Rewritten
  <2> QED
    BY <1>2, <2>1, SameDeltas, SameFiles DEF Folding
<1>4. StagedOnce' /\ Rewritten'
    BY <1>2, NoFilesAreEmpty DEF StagedOnce, Rewritten
<1> QED
    BY <1>1, <1>2, <1>3, <1>4
    DEF Numbered, Homed, Control, Deleting, Moving, Clearing, ClearingInOrder,
        Cataloged

(* Only a run that drops deltas gets to "clear", and then every staged row  *)
(* is settled.                                                              *)
LEMMA FoldedKeeps ==
    ASSUME CompactionInv, Folded
    PROVE  CompactionInv'
<1> USE DEF CompactionInv
<1>1. TypeOK'
    BY TypeInductive DEF Next, Step
<1>2. /\ pc = "next" /\ todo = {} /\ ~ Swapping /\ ~ Swapping' /\ ~ drop'
      /\ pc' \in {"clear", "refresh"} /\ (pc' = "clear" => drop)
      /\ UNCHANGED <<delta, runs, base, manifest, period, staged, stale>>
    BY DEF Folded, Swapping
<1>3. drop => \A k \in Keys : Staging(k) # {} => Settled(k)
    BY <1>2, CompactionAssumption DEF Folding, Control
<1>4. Clearing' /\ ClearingInOrder'
  <2> SUFFICES ASSUME drop PROVE Clearing' /\ ClearingInOrder'
    BY <1>2 DEF Clearing, ClearingInOrder
  <2>1. ASSUME NEW r \in Runs, NEW k \in delta[r]
        PROVE  \E n \in Names : base[PeriodOf[k]][n][k] >= r
    <3>1. k \in Keys /\ Staging(k) # {}
      BY <2>1 DEF TypeOK, Staging
    <3>2. PICK n \in Names : base[PeriodOf[k]][n][k] = Newest(k)
      BY <1>3, <3>1 DEF Settled
    <3>3. Newest(k) \in Runs /\ r <= Newest(k)
      BY <2>1, <3>1, NewestIsNewest
    <3>4. base[PeriodOf[k]][n][k] >= r
      BY <3>2, <3>3, CompactionAssumption DEF Runs
    <3> QED
      BY <3>4
  <2> QED
    BY <1>2, <1>3, <2>1, SameDeltas, SameFiles DEF Clearing, ClearingInOrder
<1>5. StagedOnce' /\ Rewritten' /\ Folding'
    BY <1>2, SameDeltas DEF StagedOnce, Rewritten, Folding
<1> QED
    BY <1>1, <1>2, <1>4, <1>5
    DEF Numbered, Homed, Control, Deleting, Moving, Cataloged

(* When the oldest delta goes first, what is still staged of a row has the  *)
(* same newest delta.                                                       *)
LEMMA NewestStays ==
    ASSUME TypeOK, NEW r \in Runs, ClearDelta(r),
           SortedListing, NEW k \in Keys, Staging(k)' # {}
    PROVE  Staging(k) # {} /\ Newest(k)' = Newest(k)
<1>1. \A q \in Runs : delta'[q] = IF q = r THEN {} ELSE delta[q]
    BY DEF ClearDelta, TypeOK
<1>2. PICK s \in Runs : k \in delta'[s]
    BY DEF Staging
<1>3. s # r /\ k \in delta[s] /\ Staging(k) # {}
    BY <1>1, <1>2 DEF Staging
<1>4. r <= s
    BY <1>3, CompactionAssumption DEF ClearDelta, Runs
<1>5. /\ Newest(k) \in Runs /\ k \in delta[Newest(k)]
      /\ \A q \in Runs : k \in delta[q] => q <= Newest(k)
    BY <1>3, NewestIsNewest
<1>6. Newest(k) # r
    BY <1>3, <1>4, <1>5, CompactionAssumption DEF Runs
<1>7. /\ k \in delta'[Newest(k)]
      /\ \A q \in Runs : k \in delta'[q] => q <= Newest(k)
    BY <1>1, <1>5, <1>6
<1>8. Staging(k)' = {q \in Runs : k \in delta'[q]}
    BY DEF Staging
<1>9. Newest(k)' \in Staging(k)' /\ \A q \in Staging(k)' : Newest(k)' >= q
  <2>1. \A q \in Staging(k)' : Newest(k) >= q
    BY <1>7, <1>8, CompactionAssumption DEF Runs
  <2> QED
    BY <1>5, <1>7, <1>8, <2>1 DEF Newest
<1>10. Newest(k)' >= Newest(k) /\ Newest(k)' \in Runs /\ Newest(k)' <= Newest(k)
    BY <1>5, <1>7, <1>8, <1>9
<1> QED
    BY <1>3, <1>5, <1>10, CompactionAssumption DEF Runs

LEMMA ClearDeltaKeeps ==
    ASSUME CompactionInv, NEW r \in Runs, ClearDelta(r)
    PROVE  CompactionInv'
<1> USE DEF CompactionInv
<1>1. TypeOK'
    BY TypeInductive DEF Next, Step
<1>2. /\ pc = "clear" /\ pc' = "clear" /\ ~ Swapping /\ ~ Swapping'
      /\ ~ drop /\ staged = NoFiles
      /\ UNCHANGED <<runs, base, manifest, drop, todo, period, staged, stale>>
    BY DEF ClearDelta, Swapping, Control
<1>3. \A q \in Runs : delta'[q] = IF q = r THEN {} ELSE delta[q]
    BY DEF ClearDelta, TypeOK
<1>4. Numbered'
    BY <1>2, <1>3 DEF Numbered
<1>5. Clearing'
    BY <1>2, <1>3 DEF Clearing
<1>6. ClearingInOrder'
    BY <1>2, NewestStays DEF ClearingInOrder, Settled
<1>7. StagedOnce' /\ Rewritten' /\ Folding'
    BY <1>2, NoFilesAreEmpty DEF StagedOnce, Rewritten, Folding
<1> QED
    BY <1>1, <1>2, <1>4, <1>5, <1>6, <1>7
    DEF Homed, Control, Deleting, Moving, Cataloged

LEMMA EndsKeep ==
    ASSUME CompactionInv, ClearDone \/ Refresh \/ Catalog \/ Crash
    PROVE  CompactionInv'
<1> USE DEF CompactionInv
<1>1. TypeOK'
    BY TypeInductive DEF Next, Step
<1>2. /\ pc' \in {"idle", "refresh"} /\ ~ Swapping' /\ ~ drop'
      /\ staged' = NoFiles /\ period' = NoPeriod
      /\ UNCHANGED <<delta, runs, base>>
    BY DEF ClearDone, Refresh, Catalog, Crash, Swapping, Control
<1>3. Numbered'
  <2>1. NoRow <= runs
    BY CompactionAssumption DEF NoRow, TypeOK
  <2> QED
    BY <1>2, <2>1, NoFilesAreEmpty DEF Numbered
<1>4. StagedOnce' /\ Deleting' /\ Moving' /\ Rewritten' /\ Folding'
    BY <1>2, NoFilesAreEmpty DEF StagedOnce, Deleting, Moving, Rewritten, Folding
<1>5. Cataloged'
    BY DEF ClearDone, Refresh, Catalog, Crash, Cataloged
<1> QED
    BY <1>1, <1>2, <1>3, <1>4, <1>5
    DEF Homed, Control, Clearing, ClearingInOrder

LEMMA StutterKeeps ==
    ASSUME CompactionInv, UNCHANGED vars
    PROVE  CompactionInv'
<1>1. TypeOK'
    BY TypeInductive DEF CompactionInv
<1>2. UNCHANGED <<delta, runs, base, manifest, pc, drop, todo, period, staged,
                  stale>>
    BY DEF vars
<1>3. StagedOnce' /\ Rewritten' /\ Folding' /\ ClearingInOrder' /\ Deleting'
    BY <1>2, SameDeltas, SameFiles
    DEF CompactionInv, StagedOnce, Rewritten, Folding, ClearingInOrder, Deleting,
        Swapping
<1> QED
    BY <1>1, <1>2, <1>3
    DEF CompactionInv, Numbered, Homed, Control, Moving, Clearing, Cataloged,
        Swapping

LEMMA CompactionInductive == CompactionInv /\ [Next]_vars => CompactionInv'
<1> SUFFICES ASSUME CompactionInv, [Next]_vars PROVE CompactionInv'
    OBVIOUS
<1> QED
    BY AppendKeeps, StartKeeps, RewriteKeeps, SkipKeeps, DeleteFileKeeps,
       DeleteDoneKeeps, MoveFileKeeps, MoveDoneKeeps, FoldedKeeps,
       ClearDeltaKeeps, EndsKeep, StutterKeeps
    DEF Next, Step

LEMMA CompactionInvariant == Spec => []CompactionInv
<1>1. Init => CompactionInv
  <2> SUFFICES ASSUME Init PROVE CompactionInv
    OBVIOUS
  <2>1. \A p \in Periods, n \in Names, k \in Keys :
            base[p][n][k] = IF PeriodOf[k] = p /\ WrittenBy[k] = n THEN 0 ELSE NoRow
    BY DEF Init
  <2>2. TypeOK
    <3>1. base \in [Periods -> [Names -> Rows]]
      <4>1. 0 \in Versions \cup {NoRow} /\ NoRow \in Versions \cup {NoRow}
        BY CompactionAssumption DEF Versions
      <4> QED
        BY <4>1 DEF Init, Rows
    <3>2. runs \in 0 .. MaxRuns /\ crashes \in 0 .. MaxCrashes
      BY CompactionAssumption DEF Init
    <3>3. manifest = NoManifest \/ manifest \in [Periods -> [Names -> Rows]]
      BY <3>1 DEF Init
    <3>4. staged \in [Names -> Rows] /\ delta \in [Runs -> SUBSET Keys]
      BY RowTypes DEF Init
    <3> QED
      BY <3>1, <3>2, <3>3, <3>4 DEF Init, TypeOK
  <2>3. Numbered
    BY <2>1, NoFilesAreEmpty DEF Init, Numbered, NoRow
  <2>4. Homed
    BY <2>1 DEF Homed
  <2> QED
    BY <2>2, <2>3, <2>4, NoFilesAreEmpty
    DEF Init, CompactionInv, Control, StagedOnce, Deleting, Moving, Rewritten,
        Folding, Clearing, ClearingInOrder, Cataloged, Swapping
<1> QED
    BY <1>1, CompactionInductive, PTL DEF Spec

-------------------------------------------------------------------------------
(* No row is in two files or two partitions, however often a run died       *)
(* between a delete and a move (cli.py duplicate_keys looks for it).        *)
THEOREM NoRowIsStoredTwice == Spec => []NoDuplicateRows
<1>1. CompactionInv => NoDuplicateRows
    BY DEF CompactionInv, Homed, NoDuplicateRows
<1> QED
    BY <1>1, CompactionInvariant, PTL

(* Between runs the manifest names only files that are there, with the rows *)
(* that are in them (cli.py:486-491).                                       *)
THEOREM ManifestNamesWhatIsThere == Spec => []ManifestAtRest
<1>1. CompactionInv => ManifestAtRest
    BY DEF CompactionInv, Cataloged, ManifestAtRest
<1> QED
    BY <1>1, CompactionInvariant, PTL

(* What readers find under a key is the one row stored under it.            *)
LEMMA PublishedIsStored ==
    ASSUME CompactionInv, NEW k \in Keys
    PROVE  /\ \A n \in Names : base[PeriodOf[k]][n][k] # NoRow =>
                 Published(k) = base[PeriodOf[k]][n][k]
           /\ (\A n \in Names : base[PeriodOf[k]][n][k] = NoRow) =>
                 Published(k) = NoRow
           /\ Published(k) # NoRow =>
                 \E n \in Names : Published(k) = base[PeriodOf[k]][n][k]
<1>1. PeriodOf[k] \in Periods
    BY CompactionAssumption
<1>2. ASSUME NEW n \in Names, base[PeriodOf[k]][n][k] # NoRow
      PROVE  Published(k) = base[PeriodOf[k]][n][k]
  <2> DEFINE v == base[PeriodOf[k]][n][k]
  <2>1. \E p \in Periods : Present(p, k)
    BY <1>1, <1>2 DEF Present
  <2>2. v \in UNION {Stored(p, k) : p \in Periods}
    BY <1>1, <1>2 DEF Stored
  <2>3. \A p \in Periods : \A w \in Stored(p, k) : w = v
    <3> SUFFICES ASSUME NEW p \in Periods, NEW m \in Names, base[p][m][k] # NoRow
                 PROVE  base[p][m][k] = v
      BY DEF Stored
    <3> QED
      BY <1>1, <1>2 DEF CompactionInv, Homed
  <2>4. Published(k) \in UNION {Stored(p, k) : p \in Periods}
    BY <2>1, <2>2 DEF Published
  <2> QED
    BY <2>3, <2>4
<1>3. ASSUME \A n \in Names : base[PeriodOf[k]][n][k] = NoRow
      PROVE  Published(k) = NoRow
  <2>1. \A p \in Periods : ~ Present(p, k)
    BY <1>3 DEF CompactionInv, Homed, Present
  <2> QED
    BY <2>1 DEF Published
<1> QED
    BY <1>2, <1>3

(* What the drop of a delta leaves readable of its rows is no older than    *)
(* the delta, in whatever order deltas are dropped and whenever the run     *)
(* dies (cli.py:445-449, 475-491).                                          *)
THEOREM DroppedDeltasArePublished == Spec => DroppedWasPublished
<1>1. CompactionInv /\ [Next]_vars =>
        [\A r \in Runs : delta'[r] # delta[r] =>
             \A k \in delta[r] : Published(k) >= r]_<<delta>>
  <2> SUFFICES ASSUME CompactionInv, [Next]_vars, NEW r \in Runs,
                      delta'[r] # delta[r], NEW k \in delta[r]
               PROVE  Published(k) >= r
    OBVIOUS
  <2>1. CASE \E K \in SUBSET Keys : Append(K)
    <3>1. r = runs + 1
      BY <2>1 DEF Append, CompactionInv, TypeOK
    <3>2. r <= runs
      BY DEF CompactionInv, Numbered
    <3> QED
      BY <3>1, <3>2, CompactionAssumption DEF CompactionInv, TypeOK
  <2>2. CASE \E q \in Runs : ClearDelta(q)
    <3>1. PICK n \in Names : base[PeriodOf[k]][n][k] >= r
      BY <2>2 DEF ClearDelta, CompactionInv, Clearing
    <3>2. k \in Keys /\ base[PeriodOf[k]][n][k] # NoRow
      BY <3>1, RowTypes, CompactionAssumption
      DEF CompactionInv, TypeOK, NoRow, Runs
    <3> QED
      BY <3>1, <3>2, PublishedIsStored
  <2>3. CASE UNCHANGED delta
    BY <2>3
  <2> QED
    BY <2>1, <2>2, <2>3
    DEF Next, Step, StartAuto, StartTargeted, Rewrite, SkipPeriod, DeleteFile,
        DeleteDone, MoveFile, MoveDone, Folded, ClearDone, Refresh, Catalog,
        Crash, vars
<1> QED
    BY <1>1, CompactionInvariant, PTL DEF Spec, DroppedWasPublished

-------------------------------------------------------------------------------
(* What a row's published version and its content are, case by case, so     *)
(* that a step's effect on both can be read off the files.                  *)
At(k, n) == base[PeriodOf[k]][n][k]

Readable ==
    \A k \in Keys :
        /\ \A n \in Names : At(k, n) # NoRow => Published(k) = At(k, n)
        /\ Published(k) # NoRow => \E n \in Names : Published(k) = At(k, n)
        /\ Staging(k) # {} => /\ Content(k) = Newest(k)
                              /\ Newest(k) # NoRow
        /\ Staging(k) = {} /\ Published(k) # NoRow => Content(k) = Published(k)
        /\ Staging(k) = {} /\ Published(k) = NoRow =>
              /\ \A n \in Names : staged[n][k] # NoRow => Content(k) = staged[n][k]
              /\ Content(k) # NoRow => \E n \in Names : Content(k) = staged[n][k]

LEMMA ReadableHolds == CompactionInv => Readable
<1> SUFFICES ASSUME CompactionInv, NEW k \in Keys
             PROVE  /\ \A n \in Names : At(k, n) # NoRow => Published(k) = At(k, n)
                    /\ Published(k) # NoRow => \E n \in Names : Published(k) = At(k, n)
                    /\ Staging(k) # {} => /\ Content(k) = Newest(k)
                                          /\ Newest(k) # NoRow
                    /\ Staging(k) = {} /\ Published(k) # NoRow => Content(k) = Published(k)
                    /\ Staging(k) = {} /\ Published(k) = NoRow =>
                          /\ \A n \in Names :
                                staged[n][k] # NoRow => Content(k) = staged[n][k]
                          /\ Content(k) # NoRow =>
                                \E n \in Names : Content(k) = staged[n][k]
    BY DEF Readable
<1>1. /\ \A n \in Names : At(k, n) # NoRow => Published(k) = At(k, n)
      /\ Published(k) # NoRow => \E n \in Names : Published(k) = At(k, n)
    BY PublishedIsStored DEF At
<1>2. Staging(k) # {} => Content(k) = Newest(k) /\ Newest(k) # NoRow
    BY NewestIsARun DEF Content, CompactionInv
<1>3. Staging(k) = {} /\ Published(k) # NoRow => Content(k) = Published(k)
    BY DEF Content
<1>4. ASSUME Staging(k) = {}, Published(k) = NoRow
      PROVE  /\ \A n \in Names : staged[n][k] # NoRow => Content(k) = staged[n][k]
             /\ Content(k) # NoRow => \E n \in Names : Content(k) = staged[n][k]
  <2>1. CASE \E n \in Names : staged[n][k] # NoRow
    <3>1. PICK n \in Names : staged[n][k] # NoRow
      BY <2>1
    <3>2. Swapping
      BY <3>1, NoFilesAreEmpty DEF CompactionInv, Control
    <3>3. \A m \in Names : staged[m][k] # NoRow => m = n
      BY <3>1 DEF CompactionInv, StagedOnce
    <3>4. Content(k) = CHOOSE v \in {staged[m][k] : m \in Names} : v # NoRow
      BY <1>4, <3>1, <3>2 DEF Content
    <3>5. Content(k) \in {staged[m][k] : m \in Names} /\ Content(k) # NoRow
      BY <3>1, <3>4
    <3> QED
      BY <3>1, <3>3, <3>5
  <2>2. CASE \A n \in Names : staged[n][k] = NoRow
    <3>1. Content(k) = NoRow
      BY <1>4, <2>2 DEF Content
    <3> QED
      BY <2>2, <3>1
  <2> QED
    BY <2>1, <2>2
<1> QED
    BY <1>1, <1>2, <1>3, <1>4

LEMMA ReadableHoldsNext == CompactionInv' => Readable'
BY ReadableHolds, PTL

Newests ==
    \A k \in Keys : Staging(k) # {} =>
        /\ Newest(k) \in Runs
        /\ k \in delta[Newest(k)]
        /\ \A r \in Runs : k \in delta[r] => r <= Newest(k)

LEMMA NewestsHold == Newests
BY NewestIsNewest DEF Newests

LEMMA NewestsHoldNext == Newests'
BY NewestsHold, PTL

(* What readers see depends on the files alone.                             *)
LEMMA SamePublished ==
    ASSUME UNCHANGED base
    PROVE  \A k \in Keys : Published(k)' = Published(k)
BY DEF Published, Present, Stored

(* An append gives its rows the newest version there is.                    *)
LEMMA AppendShows ==
    ASSUME CompactionInv, CompactionInv', NEW K \in SUBSET Keys, Append(K),
           NEW k \in Keys
    PROVE  /\ Published(k)' = Published(k)
           /\ Content(k)' = IF k \in K THEN runs' ELSE Content(k)
           /\ Content(k) < runs'
           /\ runs' \in Versions
<1>1. /\ \A r \in Runs : delta'[r] = IF r = runs + 1 THEN K ELSE delta[r]
      /\ runs + 1 \in Runs /\ runs \in Int /\ runs' = runs + 1
      /\ \A r \in Runs : r \in Int
    BY CompactionAssumption DEF Append, CompactionInv, TypeOK, Runs
<1>2. UNCHANGED <<base, staged, pc>> /\ staged = NoFiles
    BY DEF Append, CompactionInv, Control, Swapping
<1>3. Published(k)' = Published(k)
    BY <1>2, SamePublished
<1>4. Content(k) < runs'
  <2>1. Content(k) = NoRow \/ (Content(k) \in Int /\ Content(k) <= runs)
    <3>1. CASE Staging(k) # {}
      BY <1>1, <3>1, ReadableHolds, NewestIsARun DEF Readable, CompactionInv
    <3>2. CASE Staging(k) = {} /\ Published(k) # NoRow
      <4>1. PICK n \in Names : Content(k) = base[PeriodOf[k]][n][k]
        BY <3>2, ReadableHolds DEF Readable, At
      <4>2. base[PeriodOf[k]][n][k] \in Int
        BY RowTypes, CompactionAssumption DEF CompactionInv, TypeOK, Rows
      <4> QED
        BY <4>1, <4>2, CompactionAssumption DEF CompactionInv, Numbered
    <3>3. CASE Staging(k) = {} /\ Published(k) = NoRow
      BY <1>2, <3>3, ReadableHolds, NoFilesAreEmpty DEF Readable
    <3> QED
      BY <3>1, <3>2, <3>3
  <2>2. NoRow < runs'
    BY <1>1, CompactionAssumption DEF NoRow, Runs
  <2> QED
    BY <1>1, <2>1, <2>2
<1>5. ASSUME k \in K PROVE Content(k)' = runs'
  <2>1. runs + 1 \in Staging(k)'
    BY <1>1, <1>5 DEF Staging
  <2>2. /\ Newest(k)' \in Runs /\ k \in delta'[Newest(k)']
        /\ runs + 1 <= Newest(k)'
    BY <1>1, <1>5, <2>1, NewestsHoldNext DEF Newests
  <2>3. Newest(k)' # runs + 1 => Newest(k)' <= runs
    BY <1>1, <2>2 DEF CompactionInv, Numbered
  <2>4. Newest(k)' = runs + 1
    BY <1>1, <2>2, <2>3
  <2> QED
    BY <1>1, <2>1, <2>4, ReadableHoldsNext DEF Readable
<1>6. ASSUME k \notin K PROVE Content(k)' = Content(k)
  <2>1. delta[runs + 1] = {}
    BY <1>1 DEF CompactionInv, Numbered
  <2>2. Staging(k)' = Staging(k)
    BY <1>1, <1>6, <2>1 DEF Staging
  <2>3. Newest(k)' = Newest(k)
    BY <2>2 DEF Newest
  <2> QED
    BY <1>2, <1>3, <2>2, <2>3 DEF Content, Swapping
<1>7. runs' \in Versions
    BY <1>1, RowTypes
<1> QED
    BY <1>3, <1>4, <1>5, <1>6, <1>7

(* The steps of a rewrite leave the content alone; deleting an old file     *)
(* hides rows, moving a new one in shows the content of its rows.           *)
LEMMA DeleteFileShows ==
    ASSUME CompactionInv, CompactionInv', NEW f \in Names, DeleteFile(f),
           NEW k \in Keys
    PROVE  /\ Content(k)' = Content(k)
           /\ Published(k)' = Published(k) \/ Published(k)' = NoRow
<1> USE DEF At
<1>1. UNCHANGED <<delta, staged, pc, period>> /\ pc = "delete"
    BY DEF DeleteFile
<1>2. \A n \in Names : At(k, n)' = At(k, n) \/ At(k, n)' = NoRow
  <2>1. PeriodOf[k] \in Periods
    BY CompactionAssumption
  <2> QED
    BY <2>1 DEF DeleteFile, CompactionInv, TypeOK, EmptyFile
<1>3. Published(k)' = Published(k) \/ Published(k)' = NoRow
    BY <1>2, ReadableHolds, ReadableHoldsNext DEF Readable
<1>4. CASE Staging(k) # {}
    BY <1>1, <1>3, <1>4, SameDeltas, ReadableHolds, ReadableHoldsNext DEF Readable
<1>5. CASE Staging(k) = {} /\ Published(k)' # NoRow
    BY <1>1, <1>3, <1>5, SameDeltas, ReadableHolds, ReadableHoldsNext DEF Readable
<1>6. CASE Staging(k) = {} /\ Published(k)' = NoRow /\ Published(k) # NoRow
  <2>1. PICK n \in Names : Published(k) = At(k, n)
    BY <1>6, ReadableHolds DEF Readable
  <2>2. PeriodOf[k] = period
    <3>1. PeriodOf[k] \in Periods
      BY CompactionAssumption
    <3>2. PeriodOf[k] # period => At(k, n)' = At(k, n)
      BY <3>1 DEF DeleteFile, CompactionInv, TypeOK
    <3> QED
      BY <1>6, <2>1, <3>2, ReadableHoldsNext DEF Readable
  <2>3. PICK m \in Names : staged[m][k] = At(k, n)
    BY <1>1, <1>6, <2>1, <2>2 DEF CompactionInv, Deleting
  <2>4. staged'[m][k] # NoRow /\ Staging(k)' = {}
    BY <1>1, <1>6, <2>1, <2>3, SameDeltas
  <2>5. Content(k)' = staged'[m][k]
    BY <1>6, <2>4, ReadableHoldsNext DEF Readable
  <2> QED
    BY <1>1, <1>6, <2>1, <2>3, <2>5, ReadableHolds DEF Readable
<1>7. CASE Staging(k) = {} /\ Published(k)' = NoRow /\ Published(k) = NoRow
    BY <1>1, <1>7, SameDeltas DEF Content, Swapping
<1> QED
    BY <1>3, <1>4, <1>5, <1>6, <1>7

LEMMA MoveFileShows ==
    ASSUME CompactionInv, CompactionInv', NEW f \in Names, MoveFile(f),
           NEW k \in Keys
    PROVE  /\ Content(k)' = Content(k)
           /\ Published(k)' = Published(k) \/ Published(k)' = Content(k)
<1> USE DEF At
<1>1. UNCHANGED <<delta, pc, period>> /\ pc = "move" /\ HasRows(staged[f])
    BY DEF MoveFile
<1>2. PeriodOf[k] \in Periods
    BY CompactionAssumption
<1>3. /\ \A n \in Names : staged'[n][k] = IF n = f THEN NoRow ELSE staged[n][k]
      /\ \A n \in Names : At(k, n)' = IF PeriodOf[k] = period /\ n = f
                                      THEN staged[f][k] ELSE At(k, n)
    BY <1>2 DEF MoveFile, CompactionInv, TypeOK, EmptyFile
<1>4. CASE staged[f][k] # NoRow
  <2>1. PeriodOf[k] = period /\ (Staging(k) # {} => staged[f][k] = Newest(k))
    BY <1>4 DEF CompactionInv, StagedOnce
  <2>2. Published(k) = NoRow
    BY <1>1, <1>4, <2>1, ReadableHolds DEF Readable, CompactionInv, Moving
  <2>3. Content(k) = staged[f][k]
    BY <1>4, <2>1, <2>2, ReadableHolds DEF Readable
  <2>4. Published(k)' = staged[f][k]
    BY <1>3, <1>4, <2>1, ReadableHoldsNext DEF Readable
  <2>5. Content(k)' = staged[f][k]
    BY <1>1, <1>4, <2>1, <2>4, SameDeltas, ReadableHoldsNext DEF Readable
  <2> QED
    BY <2>3, <2>4, <2>5
<1>5. CASE staged[f][k] = NoRow
  <2>1. \A n \in Names : staged'[n][k] = staged[n][k]
    BY <1>3, <1>5
  <2>2. \A n \in Names : At(k, n)' = At(k, n)
    BY <1>1, <1>3, <1>5 DEF CompactionInv, Moving
  <2>3. Published(k)' = Published(k)
    BY <2>2, ReadableHolds, ReadableHoldsNext DEF Readable
  <2>4. Staging(k)' = Staging(k) /\ Newest(k)' = Newest(k)
    BY <1>1, SameDeltas
  <2>5. Content(k)' = Content(k)
    BY <2>1, <2>3, <2>4, ReadableHolds, ReadableHoldsNext DEF Readable
  <2> QED
    BY <2>3, <2>5
<1> QED
    BY <1>4, <1>5

(* A step that leaves files and deltas alone changes the content only by    *)
(* what it does to new files no one else has.                               *)
LEMMA QuietlyShows ==
    ASSUME CompactionInv, CompactionInv', UNCHANGED <<base, delta>>, NEW k \in Keys,
           Staging(k) = {} /\ Published(k) = NoRow =>
               \A n \in Names : staged'[n][k] = staged[n][k]
    PROVE  Content(k)' = Content(k) /\ Published(k)' = Published(k)
<1>1. Published(k)' = Published(k)
    BY SamePublished
<1>2. Staging(k)' = Staging(k) /\ Newest(k)' = Newest(k)
    BY SameDeltas
<1>3. CASE Staging(k) = {} /\ Published(k) = NoRow
    BY <1>1, <1>2, <1>3, ReadableHolds, ReadableHoldsNext DEF Readable
<1>4. CASE ~ (Staging(k) = {} /\ Published(k) = NoRow)
    BY <1>1, <1>2, <1>4, ReadableHolds, ReadableHoldsNext DEF Readable
<1> QED
    BY <1>1, <1>3, <1>4

(* What is written new is what was stored or staged.                        *)
LEMMA RewriteShows ==
    ASSUME CompactionInv, CompactionInv', NEW p \in Periods, Rewrite(p),
           NEW k \in Keys
    PROVE  Content(k)' = Content(k) /\ Published(k)' = Published(k)
<1>1. UNCHANGED <<base, delta>> /\ staged = NoFiles
    BY DEF Rewrite, CompactionInv, Control, Swapping
<1>2. PICK rows \in Rows :
        /\ \A j \in Keys : rows[j] \in Kept(p, j)
        /\ \E c \in Keys : staged' = Split(rows, c)
    BY DEF Rewrite
<1>3. ASSUME Staging(k) = {}, Published(k) = NoRow, NEW n \in Names
      PROVE  staged'[n][k] = staged[n][k]
  <2>1. Stored(p, k) = {}
    <3> SUFFICES ASSUME NEW m \in Names, base[p][m][k] # NoRow PROVE FALSE
      BY DEF Stored
    <3>1. PeriodOf[k] = p
      BY DEF CompactionInv, Homed
    <3> QED
      BY <1>3, <3>1, PublishedIsStored
  <2>2. rows[k] = NoRow
    BY <1>2, <1>3, <2>1 DEF Kept
  <2>3. staged'[n][k] = NoRow
    <3>1. PICK c \in Keys : staged' = Split(rows, c)
      BY <1>2
    <3> DEFINE new == Split(rows, c)
    <3>2. new[n][k] # NoRow => new[n][k] = rows[k]
      BY SplitFacts
    <3> HIDE DEF new
    <3>3. staged' = new
      BY <3>1 DEF new
    <3> QED
      BY <2>2, <3>2, <3>3
  <2> QED
    BY <1>1, <2>3, NoFilesAreEmpty
<1> QED
    BY <1>1, <1>3, QuietlyShows

(* Dropped oldest first, deltas leave readable what they held.              *)
LEMMA ClearDeltaShows ==
    ASSUME CompactionInv, CompactionInv', SortedListing, NEW r \in Runs,
           ClearDelta(r), NEW k \in Keys
    PROVE  Content(k)' = Content(k) /\ Published(k)' = Published(k)
<1>1. UNCHANGED <<base, staged, pc>> /\ pc = "clear"
    BY DEF ClearDelta
<1>2. Published(k)' = Published(k)
    BY <1>1, SamePublished
<1>3. CASE Staging(k)' # {}
  <2>1. Staging(k) # {} /\ Newest(k)' = Newest(k)
    BY <1>3, NewestStays DEF CompactionInv
  <2> QED
    BY <1>2, <1>3, <2>1, ReadableHolds, ReadableHoldsNext DEF Readable
<1>4. CASE Staging(k)' = {} /\ Staging(k) # {}
  <2>1. Settled(k) /\ Newest(k) # NoRow
    BY <1>1, <1>4, ReadableHolds DEF Readable, CompactionInv, ClearingInOrder
  <2>2. Published(k) = Newest(k)
    BY <2>1, ReadableHolds DEF Readable, Settled, At
  <2> QED
    BY <1>2, <1>4, <2>1, <2>2, ReadableHolds, ReadableHoldsNext DEF Readable
<1>5. CASE Staging(k)' = {} /\ Staging(k) = {}
    BY <1>1, <1>2, <1>5 DEF Content, Swapping
<1> QED
    BY <1>2, <1>3, <1>4, <1>5

(* A step that is neither an append nor a step of the swap shows nothing    *)
(* new, unless the run dies between the delete and the last move.           *)
LEMMA OtherwiseNothingShows ==
    ASSUME CompactionInv, CompactionInv', SortedListing, [Next]_vars,
           \A K \in SUBSET Keys : ~ Append(K),
           \A n \in Names : ~ DeleteFile(n) /\ ~ MoveFile(n),
           ~ TornSwap, NEW k \in Keys
    PROVE  Content(k)' = Content(k) /\ Published(k)' = Published(k)
<1>1. CASE \E p \in Periods : Rewrite(p)
    BY <1>1, RewriteShows
<1>2. CASE \E r \in Runs : ClearDelta(r)
    BY <1>2, ClearDeltaShows
<1>3. CASE Crash
  <2>1. UNCHANGED <<base, delta>> /\ staged' = NoFiles /\ staged = NoFiles
    BY <1>3 DEF Crash, TornSwap, CompactionInv, Control
  <2> QED
    BY <2>1, QuietlyShows
<1>4. CASE MoveDone
  <2>1. UNCHANGED <<base, delta, staged>>
    BY <1>4 DEF MoveDone
  <2> QED
    BY <2>1, QuietlyShows
<1>5. CASE UNCHANGED <<base, delta, staged>>
    BY <1>5, QuietlyShows
<1> QED
    BY <1>1, <1>2, <1>3, <1>4, <1>5
    DEF Next, Step, StartAuto, StartTargeted, SkipPeriod, DeleteDone, Folded,
        ClearDone, Refresh, Catalog, vars

(* What a death inside a swap takes is of the partition being swapped, and  *)
(* no delta holds it.                                                       *)
LEMMA TornSwapShows ==
    ASSUME CompactionInv, CompactionInv', TornSwap, NEW k \in Keys
    PROVE  Content(k)' # Content(k) => PeriodOf[k] = period /\ Staging(k) = {}
<1>1. UNCHANGED <<base, delta>> /\ staged' = NoFiles
    BY DEF TornSwap, Crash
<1>2. CASE \A n \in Names : staged[n][k] = NoRow
    BY <1>1, <1>2, NoFilesAreEmpty, QuietlyShows
<1>3. CASE \E n \in Names : staged[n][k] # NoRow
  <2>1. PeriodOf[k] = period
    BY <1>3 DEF CompactionInv, StagedOnce
  <2>2. Staging(k) # {} => Content(k)' = Content(k)
    BY <1>1, QuietlyShows
  <2> QED
    BY <2>1, <2>2
<1> QED
    BY <1>2, <1>3

(* Where objects are listed by name, so that the oldest delta is dropped    *)
(* first, no step of a compaction loses a row the archive holds, except a   *)
(* death between the delete and the last move, which can only take rows of  *)
(* the partition being swapped that no staged delta holds any more          *)
(* (compact.py:135-152; README, Known gaps).                                *)
THEOREM LossIsConfined == SortedListing => (Spec => LossConfinedToSwap)
<1> SUFFICES ASSUME SortedListing PROVE Spec => LossConfinedToSwap
    OBVIOUS
<1> DEFINE Confined == \A k \in Keys : Content(k) # NoRow /\ Content(k)' # Content(k) =>
                          \/ Content(k)' = runs'
                          \/ Swapping /\ PeriodOf[k] = period /\ Staging(k) = {}
<1>1. CompactionInv /\ CompactionInv' /\ [Next]_vars => Confined
  <2> SUFFICES ASSUME CompactionInv, CompactionInv', [Next]_vars,
                      NEW k \in Keys, Content(k)' # Content(k)
               PROVE  \/ Content(k)' = runs'
                      \/ Swapping /\ PeriodOf[k] = period /\ Staging(k) = {}
    OBVIOUS
  <2>1. CASE \E K \in SUBSET Keys : Append(K)
    BY <2>1, AppendShows
  <2>2. CASE \E n \in Names : DeleteFile(n) \/ MoveFile(n)
    BY <2>2, DeleteFileShows, MoveFileShows
  <2>3. CASE TornSwap
    BY <2>3, TornSwapShows DEF TornSwap
  <2> QED
    BY <2>1, <2>2, <2>3, OtherwiseNothingShows
<1> QED
    BY <1>1, CompactionInvariant, PTL DEF Spec, LossConfinedToSwap

-------------------------------------------------------------------------------
(* The archive's variables, as the files determine them.                    *)
Contents == [k \in Keys |-> Content(k)]
Publisheds == [k \in Keys |-> Published(k)]

LEMMA InitIsArchiveInit == CompactionInv /\ Init => archive!Init
<1> SUFFICES ASSUME CompactionInv, Init PROVE archive!Init
    OBVIOUS
<1>1. ASSUME NEW k \in Keys
      PROVE  Content(k) = Published(k) /\ Published(k) \in Versions \cup {NoRow}
  <2>1. Staging(k) = {} /\ ~ Swapping
    BY DEF Init, Staging, Swapping
  <2>2. Content(k) = Published(k)
    BY <2>1 DEF Content
  <2>3. Published(k) # NoRow =>
            \E n \in Names : Published(k) = base[PeriodOf[k]][n][k]
    BY PublishedIsStored
  <2>4. \A n \in Names : base[PeriodOf[k]][n][k] \in Versions \cup {NoRow}
    BY CompactionAssumption DEF CompactionInv, TypeOK, Rows
  <2> QED
    BY <2>2, <2>3, <2>4
<1> QED
    BY <1>1 DEF archive!Init

(* Every step of the files is a step of the archive or none: an append      *)
(* ingests, deleting an old file hides, moving a new one in publishes.      *)
LEMMA StepIsArchiveStep ==
    ASSUME CompactionInv, CompactionInv', SortedListing, [Next]_vars
    PROVE  [archive!Next \/ TornSwap]_(archive!avars)
<1> DEFINE moved == {k \in Keys : Published(k)' # Published(k)}
<1>1. ASSUME NEW K \in SUBSET Keys, Append(K) PROVE archive!Next
  <2>1. PICK v \in Versions : v = runs'
    <3>1. runs' \in Versions
      BY <1>1, CompactionAssumption
      DEF Append, CompactionInv, TypeOK, Versions
    <3> QED
      BY <3>1
  <2>2. \A k \in Keys : /\ Published(k)' = Published(k)
                        /\ Content(k)' = IF k \in K THEN v ELSE Content(k)
                        /\ Content(k) < v
    BY <1>1, <2>1, AppendShows
  <2>3. \A k \in K : v > Contents[k]
    BY <2>1, <2>2, CompactionAssumption DEF Contents
  <2>4. Contents' = [k \in Keys |-> IF k \in K THEN v ELSE Contents[k]]
    BY <2>2 DEF Contents
  <2>5. Publisheds' = Publisheds
    BY <2>2 DEF Publisheds
  <2>6. archive!Ingest(K, v)
    BY <2>3, <2>4, <2>5 DEF archive!Ingest, Contents, Publisheds
  <2> QED
    BY <2>6 DEF archive!Next
<1>2. ASSUME NEW n \in Names, DeleteFile(n) PROVE archive!Next
  <2>1. \A k \in Keys : /\ Content(k)' = Content(k)
                        /\ Published(k)' = Published(k) \/ Published(k)' = NoRow
    BY <1>2, DeleteFileShows
  <2>2. Contents' = Contents
    BY <2>1 DEF Contents
  <2>3. Publisheds' = [k \in Keys |-> IF k \in moved THEN NoRow ELSE Publisheds[k]]
    BY <2>1 DEF Publisheds
  <2>4. archive!Hide(moved)
    BY <2>2, <2>3 DEF archive!Hide, Contents, Publisheds
  <2> QED
    BY <2>4 DEF archive!Next
<1>3. ASSUME NEW n \in Names, MoveFile(n) PROVE archive!Next
  <2>1. \A k \in Keys : /\ Content(k)' = Content(k)
                        /\ Published(k)' = Published(k) \/ Published(k)' = Content(k)
    BY <1>3, MoveFileShows
  <2>2. Contents' = Contents
    BY <2>1 DEF Contents
  <2>3. Publisheds' = [k \in Keys |->
                          IF k \in moved THEN Contents[k] ELSE Publisheds[k]]
    BY <2>1 DEF Publisheds, Contents
  <2>4. archive!Publish(moved)
    BY <2>2, <2>3 DEF archive!Publish, Contents, Publisheds
  <2> QED
    BY <2>4 DEF archive!Next
<1>4. ASSUME \A K \in SUBSET Keys : ~ Append(K),
             \A n \in Names : ~ DeleteFile(n) /\ ~ MoveFile(n),
             ~ TornSwap
      PROVE  UNCHANGED archive!avars
  <2>1. \A k \in Keys : Content(k)' = Content(k) /\ Published(k)' = Published(k)
    BY <1>4, OtherwiseNothingShows
  <2>2. Contents' = Contents /\ Publisheds' = Publisheds
    BY <2>1 DEF Contents, Publisheds
  <2> QED
    BY <2>2 DEF archive!avars, Contents, Publisheds
<1> QED
    BY <1>1, <1>2, <1>3, <1>4

(* `append` and `compact` implement the archive: only an append changes     *)
(* what it answers for a key, readers never see a version older than they   *)
(* saw before, and nothing else a run does can be told from doing nothing,  *)
(* up to deaths inside a swap.  The oldest delta must be dropped first,     *)
(* which a listing by name gives and a local root does not promise          *)
(* (compact.py:91-152; cli.py:475-485).                                     *)
THEOREM CompactionImplementsArchive == SortedListing => (Spec => ImplementsArchive)
<1> SUFFICES ASSUME SortedListing PROVE Spec => ImplementsArchive
    OBVIOUS
<1>1. CompactionInv /\ Init => archive!Init
    BY InitIsArchiveInit
<1>2. CompactionInv /\ CompactionInv' /\ [Next]_vars =>
          [archive!Next \/ TornSwap]_(archive!avars)
    BY StepIsArchiveStep
<1> QED
    BY <1>1, <1>2, CompactionInvariant, PTL DEF Spec, ImplementsArchive
===============================================================================
