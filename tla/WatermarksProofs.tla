--------------------------- MODULE WatermarksProofs ---------------------------
(***************************************************************************)
(* Proofs about Watermarks, for every set of stations and writers.         *)
(*                                                                         *)
(* LoadIsFresh is not inductive: a load that is half way through knows     *)
(* nothing about the objects it has not read.  LoadInv says what it knows: *)
(* every object is at least as late as when the load listed it, the merge  *)
(* is at least as late as every object already read was then, and nobody   *)
(* but its writer replaces an object.  The last conjunct is what makes a   *)
(* save an advance of the object it overwrites.                            *)
(***************************************************************************)
EXTENDS Watermarks, TLAPS

LoadInv ==
    \A w \in Writers :
        /\ phase[w] # "idle" =>
            /\ snap[w][w] = files[w]
            /\ \A f \in Writers, s \in Stations :
                /\ WatermarkOf(files[f][s]) >= WatermarkOf(snap[w][f][s])
                /\ f \notin unread[w] =>
                     WatermarkOf(rows[w][s]) >= WatermarkOf(snap[w][f][s])
        /\ phase[w] = "running" => unread[w] = {}

-------------------------------------------------------------------------------
(* What the helpers return, and how each moves the watermark of a row.      *)

LEMMA WatermarkType ==
    ASSUME NEW row \in Row \cup {NoRow}
    PROVE  WatermarkOf(row) \in Times
  BY WatermarksAssumption, NoRowAssumption DEF WatermarkOf, Row, Times, NoTime

LEMMA MergeAdvances ==
    ASSUME NEW a \in Row \cup {NoRow}, NEW b \in Row \cup {NoRow}
    PROVE  /\ Merge(a, b) \in Row \cup {NoRow}
           /\ WatermarkOf(Merge(a, b)) >= WatermarkOf(a)
           /\ WatermarkOf(Merge(a, b)) >= WatermarkOf(b)
  BY WatermarksAssumption, NoRowAssumption
  DEF Merge, WatermarkOf, Row, Times, NoTime

LEMMA SucceededAdvances ==
    ASSUME NEW row \in Row \cup {NoRow}, NEW t \in Times
    PROVE  /\ Succeeded(row, t) \in Row
           /\ WatermarkOf(Succeeded(row, t)) >= WatermarkOf(row)
  BY WatermarksAssumption, NoRowAssumption
  DEF Succeeded, Ensure, Later, WatermarkOf, Row, Times, NoTime

LEMMA FailedKeeps ==
    ASSUME NEW row \in Row \cup {NoRow},
           Ensure(row).consecutive_failures < MaxFailures
    PROVE  /\ Failed(row) \in Row
           /\ WatermarkOf(Failed(row)) >= WatermarkOf(row)
<1>1. Ensure(row) \in Row /\ Ensure(row).watermark = WatermarkOf(row)
  BY WatermarksAssumption DEF Ensure, WatermarkOf, Row, Times, NoTime
<1>2. Failed(row) = [Ensure(row) EXCEPT !.consecutive_failures =
                        Ensure(row).consecutive_failures + 1]
  BY DEF Failed
<1>3. /\ Failed(row) \in Row
      /\ Failed(row).watermark = Ensure(row).watermark
  BY <1>1, <1>2, WatermarksAssumption DEF Row, Times
<1> QED BY <1>1, <1>3, WatermarksAssumption, NoRowAssumption
        DEF WatermarkOf, Row, Times

-------------------------------------------------------------------------------
(* Every step keeps every variable within its type: no save, crash or load  *)
(* leaves a row no reader of `_state/` could interpret (state.py).          *)
THEOREM WatermarksTypeOK == Spec => []TypeOK
<1>1. Init => TypeOK
  BY DEF Init, TypeOK, Rows, NoRows
<1>2. TypeOK /\ [Next]_vars => TypeOK'
  <2> SUFFICES ASSUME TypeOK, [Next]_vars PROVE TypeOK'
    OBVIOUS
  <2>1. CASE UNCHANGED vars
    BY <2>1 DEF TypeOK, vars
  <2>2. ASSUME NEW w \in Writers, List(w) PROVE TypeOK'
    BY <2>2 DEF TypeOK, List
  <2>3. ASSUME NEW w \in Writers, NEW f \in Writers, Read(w, f) PROVE TypeOK'
    <3>1. \A s \in Stations : Merge(rows[w][s], files[f][s]) \in Row \cup {NoRow}
      BY MergeAdvances DEF TypeOK, Rows
    <3>2. [s \in Stations |-> Merge(rows[w][s], files[f][s])] \in Rows
      BY <3>1 DEF Rows
    <3>3. rows \in [Writers -> Rows]
          /\ rows' = [rows EXCEPT ![w] =
                        [s \in Stations |-> Merge(rows[w][s], files[f][s])]]
      BY <2>3 DEF TypeOK, Read
    <3>4. rows' \in [Writers -> Rows]
      BY <3>2, <3>3
    <3> QED BY <2>3, <3>4 DEF TypeOK, Read
  <2>4. ASSUME NEW w \in Writers, Start(w) PROVE TypeOK'
    BY <2>4 DEF TypeOK, Start, Eligible
  <2>5. ASSUME NEW w \in Writers, NEW s \in Stations, NEW t \in Times,
               RecordSuccess(w, s, t)
        PROVE  TypeOK'
    <3>1. Succeeded(rows[w][s], t) \in Row
      BY SucceededAdvances DEF TypeOK, Rows
    <3> QED BY <2>5, <3>1 DEF TypeOK, RecordSuccess, Rows
  <2>6. ASSUME NEW w \in Writers, NEW s \in Stations, RecordFailure(w, s)
        PROVE  TypeOK'
    <3>1. Failed(rows[w][s]) \in Row
      BY <2>6, FailedKeeps DEF TypeOK, Rows, RecordFailure
    <3> QED BY <2>6, <3>1 DEF TypeOK, RecordFailure, Rows
  <2>7. ASSUME NEW w \in Writers, Save(w) PROVE TypeOK'
    BY <2>7 DEF TypeOK, Save, Rows, NoRows
  <2>8. ASSUME NEW w \in Writers, Crash(w) PROVE TypeOK'
    BY <2>8 DEF TypeOK, Crash, Rows, NoRows
  <2> QED BY <2>1, <2>2, <2>3, <2>4, <2>5, <2>6, <2>7, <2>8 DEF Next
<1> QED BY <1>1, <1>2, PTL DEF Spec

-------------------------------------------------------------------------------
(* A step that only moves w's in-memory watermarks forward keeps LoadInv.   *)
LEMMA RowsAdvance ==
    ASSUME TypeOK, LoadInv, NEW w \in Writers,
           rows' \in [Writers -> Rows],
           \A v \in Writers \ {w} : rows'[v] = rows[v],
           \A s \in Stations : WatermarkOf(rows'[w][s]) >= WatermarkOf(rows[w][s]),
           UNCHANGED <<files, phase, unread, snap>>
    PROVE  LoadInv'
<1>1. \A v, f \in Writers, s \in Stations :
         /\ WatermarkOf(rows[v][s]) \in Int
         /\ WatermarkOf(rows'[v][s]) \in Int
         /\ WatermarkOf(snap[v][f][s]) \in Int
  BY WatermarkType, WatermarksAssumption DEF TypeOK, Rows, Times
<1>2. \A v, f \in Writers, s \in Stations :
         phase[v] # "idle" /\ f \notin unread[v] =>
             WatermarkOf(rows'[v][s]) >= WatermarkOf(snap[v][f][s])
  BY <1>1 DEF LoadInv
<1>3. \A v, f \in Writers, s \in Stations :
         phase[v] # "idle" =>
             /\ snap[v][v] = files[v]
             /\ WatermarkOf(files[f][s]) >= WatermarkOf(snap[v][f][s])
  BY DEF LoadInv
<1>4. \A v \in Writers : phase[v] = "running" => unread[v] = {}
  BY DEF LoadInv
<1> QED BY <1>2, <1>3, <1>4 DEF LoadInv

(* The same for a step that replaces one row by a later one.                *)
LEMMA RowAdvances ==
    ASSUME TypeOK, LoadInv, NEW w \in Writers, NEW s \in Stations,
           NEW new \in Row, WatermarkOf(new) >= WatermarkOf(rows[w][s]),
           rows' = [rows EXCEPT ![w][s] = new],
           UNCHANGED <<files, phase, unread, snap>>
    PROVE  LoadInv'
<1>1. rows' \in [Writers -> Rows]
  BY DEF TypeOK, Rows
<1>2. \A u \in Stations : WatermarkOf(rows[w][u]) \in Int
  BY WatermarkType, WatermarksAssumption DEF TypeOK, Rows, Times
<1>3. \A u \in Stations : WatermarkOf(rows'[w][u]) >= WatermarkOf(rows[w][u])
  BY <1>2 DEF TypeOK, Rows
<1>4. \A v \in Writers \ {w} : rows'[v] = rows[v]
  BY DEF TypeOK
<1> QED BY <1>1, <1>3, <1>4, RowsAdvance

(* What w saves is at least as late as the object it overwrites: that is    *)
(* still the one its load saw, because nobody else writes it.               *)
LEMMA SaveAdvances ==
    ASSUME TypeOK, LoadInv, NEW w \in Writers, Save(w), NEW s \in Stations
    PROVE  WatermarkOf(rows[w][s]) >= WatermarkOf(files[w][s])
  BY DEF LoadInv, Save, TypeOK

LEMMA LoadInvStep == TypeOK /\ LoadInv /\ [Next]_vars => LoadInv'
<1> SUFFICES ASSUME TypeOK, LoadInv, [Next]_vars PROVE LoadInv'
  OBVIOUS
<1>1. CASE UNCHANGED vars
  BY <1>1 DEF LoadInv, vars
<1>2. ASSUME NEW w \in Writers, List(w) PROVE LoadInv'
  <2>1. \A f \in Writers, s \in Stations :
           WatermarkOf(files[f][s]) >= WatermarkOf(files[f][s])
    <3>1. \A f \in Writers, s \in Stations : WatermarkOf(files[f][s]) \in Int
      BY WatermarkType, WatermarksAssumption DEF TypeOK, Rows, Times
    <3> QED BY <3>1
  <2>2. \A f \in Writers, s \in Stations :
           ~ Exists(f) => WatermarkOf(files[f][s]) = NoTime
    BY DEF Exists, WatermarkOf
  <2>3. \A s \in Stations : WatermarkOf(rows[w][s]) >= NoTime
    BY WatermarkType, WatermarksAssumption DEF TypeOK, Rows, Times, NoTime
  <2> QED BY <1>2, <2>1, <2>2, <2>3 DEF LoadInv, List, TypeOK
<1>3. ASSUME NEW w \in Writers, NEW f \in Writers, Read(w, f) PROVE LoadInv'
  <2>1. \A s \in Stations :
           /\ rows'[w][s] \in Row \cup {NoRow}
           /\ WatermarkOf(rows'[w][s]) >= WatermarkOf(rows[w][s])
           /\ WatermarkOf(rows'[w][s]) >= WatermarkOf(files[f][s])
    <3>1. \A s \in Stations :
             /\ rows[w][s] \in Row \cup {NoRow}
             /\ files[f][s] \in Row \cup {NoRow}
      BY DEF TypeOK, Rows
    <3>2. \A s \in Stations : rows'[w][s] = Merge(rows[w][s], files[f][s])
      BY <1>3 DEF Read, TypeOK
    <3> QED BY <3>1, <3>2, MergeAdvances
  <2>2. \A v, g \in Writers, s \in Stations :
           /\ WatermarkOf(rows[v][s]) \in Int
           /\ WatermarkOf(rows'[w][s]) \in Int
           /\ WatermarkOf(files[g][s]) \in Int
           /\ WatermarkOf(snap[v][g][s]) \in Int
    BY <2>1, WatermarkType, WatermarksAssumption DEF TypeOK, Rows, Times
  <2>3. \A g \in Writers, s \in Stations :
           g \notin unread'[w] => WatermarkOf(rows'[w][s]) >= WatermarkOf(snap[w][g][s])
    <3> SUFFICES ASSUME NEW g \in Writers, NEW s \in Stations, g \notin unread'[w]
                 PROVE  WatermarkOf(rows'[w][s]) >= WatermarkOf(snap[w][g][s])
      OBVIOUS
    <3>1. CASE g = f
      <4>1. WatermarkOf(files[f][s]) >= WatermarkOf(snap[w][f][s])
        BY <1>3 DEF Read, LoadInv
      <4> QED BY <2>1, <2>2, <3>1, <4>1
    <3>2. CASE g # f
      <4>1. WatermarkOf(rows[w][s]) >= WatermarkOf(snap[w][g][s])
        BY <1>3, <3>2 DEF Read, LoadInv, TypeOK
      <4> QED BY <2>1, <2>2, <4>1
    <3> QED BY <3>1, <3>2
  <2> QED BY <1>3, <2>3 DEF LoadInv, Read, TypeOK
<1>4. ASSUME NEW w \in Writers, Start(w) PROVE LoadInv'
  BY <1>4 DEF LoadInv, Start, TypeOK
<1>5. ASSUME NEW w \in Writers, NEW s \in Stations, NEW t \in Times,
             RecordSuccess(w, s, t)
      PROVE  LoadInv'
  <2>1. rows[w][s] \in Row \cup {NoRow}
    BY DEF TypeOK, Rows
  <2>2. PICK new \in Row :
           /\ WatermarkOf(new) >= WatermarkOf(rows[w][s])
           /\ rows' = [rows EXCEPT ![w][s] = new]
    BY <1>5, <2>1, SucceededAdvances, Zenon DEF RecordSuccess
  <2> QED BY <1>5, <2>2, RowAdvances DEF RecordSuccess
<1>6. ASSUME NEW w \in Writers, NEW s \in Stations, RecordFailure(w, s)
      PROVE  LoadInv'
  <2>1. rows[w][s] \in Row \cup {NoRow}
    BY DEF TypeOK, Rows
  <2>2. PICK new \in Row :
           /\ WatermarkOf(new) >= WatermarkOf(rows[w][s])
           /\ rows' = [rows EXCEPT ![w][s] = new]
    BY <1>6, <2>1, FailedKeeps, Zenon DEF RecordFailure
  <2> QED BY <1>6, <2>2, RowAdvances DEF RecordFailure
<1>7. ASSUME NEW w \in Writers, Save(w) PROVE LoadInv'
  <2>1. \A s \in Stations : WatermarkOf(rows[w][s]) >= WatermarkOf(files[w][s])
    BY <1>7, SaveAdvances
  <2>2. \A v, f \in Writers, s \in Stations :
           /\ WatermarkOf(files[f][s]) \in Int
           /\ WatermarkOf(rows[v][s]) \in Int
           /\ WatermarkOf(snap[v][f][s]) \in Int
    BY WatermarkType, WatermarksAssumption DEF TypeOK, Rows, Times
  <2>3. ASSUME NEW v \in Writers, v # w, phase[v] # "idle",
               NEW f \in Writers, NEW s \in Stations
        PROVE  WatermarkOf(files'[f][s]) >= WatermarkOf(snap[v][f][s])
    <3>1. WatermarkOf(files'[f][s]) >= WatermarkOf(files[f][s])
      BY <1>7, <2>1, <2>2 DEF Save, TypeOK
    <3>2. files' \in [Writers -> Rows]
      BY <1>7 DEF Save, TypeOK
    <3>3. WatermarkOf(files'[f][s]) \in Int
      BY <3>2, WatermarkType, WatermarksAssumption DEF Rows, Times
    <3> QED BY <2>2, <2>3, <3>1, <3>3 DEF LoadInv
  <2> QED BY <1>7, <2>3 DEF LoadInv, Save, TypeOK
<1>8. ASSUME NEW w \in Writers, Crash(w) PROVE LoadInv'
  BY <1>8 DEF LoadInv, Crash, TypeOK
<1> QED BY <1>1, <1>2, <1>3, <1>4, <1>5, <1>6, <1>7, <1>8 DEF Next

LEMMA LoadInvariant == Spec => []LoadInv
<1>1. Init => LoadInv
  BY DEF Init, LoadInv
<1> QED BY <1>1, LoadInvStep, WatermarksTypeOK, PTL DEF Spec

(* A job starts from watermarks at least as late as everything saved before *)
(* it listed the prefix (Watermarks.load, state.py:51-61).                  *)
THEOREM LoadsAreFresh == Spec => []LoadIsFresh
<1>1. LoadInv => LoadIsFresh
  BY DEF LoadInv, LoadIsFresh
<1> QED BY <1>1, LoadInvariant, PTL

(* Watermarks never go back, whoever saves over whichever object, with any  *)
(* number of shards running, loading, saving and crashing at once           *)
(* (Watermarks.save, state.py:63-82).                                       *)
THEOREM WatermarksNeverRegress == Spec => MergedNeverRegresses
<1>1. TypeOK /\ TypeOK' /\ LoadInv /\ [Next]_vars =>
        [\A s \in Stations, t \in Times : Vouched(s, t) => Vouched(s, t)']_vars
  <2> SUFFICES ASSUME TypeOK, TypeOK', LoadInv, [Next]_vars,
                      NEW s \in Stations, NEW t \in Times, Vouched(s, t)
               PROVE  Vouched(s, t)'
    OBVIOUS
  <2>1. PICK f \in Writers : WatermarkOf(files[f][s]) >= t
    BY DEF Vouched
  <2>2. /\ WatermarkOf(files[f][s]) \in Int
        /\ WatermarkOf(files'[f][s]) \in Int
        /\ t \in Int
    BY WatermarkType, WatermarksAssumption DEF TypeOK, Rows, Times
  <2>3. CASE UNCHANGED files
    BY <2>1, <2>3 DEF Vouched
  <2>4. CASE \E w \in Writers : Save(w)
    <3>1. PICK w \in Writers : Save(w)
      BY <2>4
    <3>2. WatermarkOf(rows[w][s]) >= WatermarkOf(files[w][s])
      BY <3>1, SaveAdvances
    <3>3. WatermarkOf(files'[f][s]) >= WatermarkOf(files[f][s])
      BY <2>2, <3>1, <3>2 DEF Save, TypeOK
    <3> QED BY <2>1, <2>2, <3>3 DEF Vouched
  <2> QED
    BY <2>3, <2>4
    DEF Next, vars, List, Read, Start, RecordSuccess, RecordFailure, Crash
<1> QED BY <1>1, WatermarksTypeOK, LoadInvariant, PTL
        DEF Spec, MergedNeverRegresses
===============================================================================
