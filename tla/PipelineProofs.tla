---------------------------- MODULE PipelineProofs ----------------------------
(***************************************************************************)
(* Proofs about Pipeline, for every set of stations, layout, window,       *)
(* threshold and bound.                                                    *)
(*                                                                         *)
(* NoSilentGap speaks of the saved watermarks only, so it says nothing of  *)
(* a run that is about to save others.  PipelineInv adds what holds in     *)
(* between: times are not ahead of the clock (so that what the service may *)
(* still report is inside every window), the watermarks in memory are      *)
(* backed by what is stored together with what was fetched, and at each    *)
(* step of a compaction the rows it is taking from one place are in        *)
(* another: in a delta, in the partition or in the files it is moving in.  *)
(* Only a death between the deletes and the moves breaks that, and then    *)
(* the rows are in `lost`.                                                 *)
(*                                                                         *)
(* That a half-cleared staging area still has the newest of its deltas     *)
(* needs them dropped oldest first: the invariant is proved where listings *)
(* are sorted, as those of an object store are.                            *)
(***************************************************************************)
EXTENDS Pipeline, TLAPS, NaturalsInduction, WellFoundedInduction,
        SequenceTheorems

(* The mirror once the results of the running append are in it.             *)
Pending ==
    [s \in Stations |-> [t \in Times |->
        IF fetched[s][t] # None THEN fetched[s][t] ELSE Stored[s][t]]]

(* The service's data and the watermarks lie in the past.                   *)
InThePast ==
    /\ \A s \in Stations, t \in Times : upstream[s][t] # None => t <= now
    /\ \A s \in Stations : marks[s].watermark <= now
    /\ job \in {"poll", "save"} => \A s \in Stations : mem[s].watermark <= now

(* The mirror never runs ahead of the service, nor a result behind it.      *)
Versioned ==
    \A s \in Stations, t \in Times :
        /\ Stored[s][t] <= upstream[s][t]
        /\ fetched[s][t] <= upstream[s][t]
        /\ fetched[s][t] # None => Stored[s][t] <= fetched[s][t]

(* A running append: what it is about to save is as well backed as what is  *)
(* saved, once its results are counted in, and it asked for nothing behind  *)
(* the saved watermarks' windows.                                           *)
Missing(s, t) == Lost(s, t) /\ fetched[s][t] = None

RunBacked ==
    job \in {"poll", "save"} =>
        \A s \in Stations :
            /\ s \in todo => mem[s].watermark = marks[s].watermark
            /\ mem[s].watermark # NoTime =>
                  \/ Pending[s][mem[s].watermark] # None
                  \/ Missing(s, mem[s].watermark)
            /\ \A t \in Times :
                  /\ upstream[s][t] # None /\ t <= mem[s].watermark - Window =>
                        Pending[s][t] = upstream[s][t] \/ Missing(s, t)
                  /\ fetched[s][t] # None => t > marks[s].watermark - Window

RunPhase ==
    /\ job \notin {"poll", "save"} => fetched = NoData
    /\ job = "save" => fetched = NoData /\ todo = {}

(* Where the rows of a compaction are.                                      *)
Swapping == job \in {"delete", "move"}

InMotion ==
    \A s \in Stations, t \in Times :
        /\ moving[s][t] # None => Swapping /\ PeriodOf[t] = period
        /\ Swapping /\ PeriodOf[t] = period =>
              /\ Staged(s, t) # None => moving[s][t] = Staged(s, t)
              /\ base[s][t] # None /\ Staged(s, t) = None => moving[s][t] = base[s][t]
        /\ job = "move" /\ base[s][t] # None /\ PeriodOf[t] = period =>
              base[s][t] = moving[s][t]

(* What has been folded is in its partition as long as its delta is there.  *)
FoldedIsBase ==
    /\ job \in {"none", "poll", "save", "clear"} => periods = {}
    /\ job \in {"fold", "delete", "move", "clear"} =>
          \A s \in Stations, t \in Times :
              Staged(s, t) # None =>
                  \/ base[s][t] = Staged(s, t)
                  \/ PeriodOf[t] \in periods
                  \/ Swapping /\ PeriodOf[t] = period

PipelineInv ==
    /\ InThePast
    /\ Versioned
    /\ RunBacked
    /\ RunPhase
    /\ InMotion
    /\ FoldedIsBase
    /\ NoSilentGap
    /\ WatermarkIsStored

-------------------------------------------------------------------------------
(* What the helpers return.                                                 *)

LEMMA NoDataAt ==
    /\ NoData \in Data
    /\ \A s \in Stations, t \in Times : NoData[s][t] = None
  BY PipelineAssumption DEF NoData, Data, None

LEMMA DataAt ==
    ASSUME NEW d \in Data, NEW s \in Stations, NEW t \in Times
    PROVE  d[s][t] \in Nat /\ d[s][t] \in 0 .. MaxVersion
  BY PipelineAssumption DEF Data

LEMMA MarkType ==
    ASSUME NEW m \in Marks, NEW s \in Stations
    PROVE  /\ m[s].watermark \in 0 .. MaxTime
           /\ m[s].consecutive_failures \in 0 .. Threshold
  BY DEF Marks

LEMMA LatestNumber ==
    ASSUME NEW n \in Nat, NEW S \in SUBSET (1 .. n), S # {}
    PROVE  \E m \in S : \A q \in S : q <= m
<1> DEFINE Less == OpToRel(<, Nat)
           T == {n - q : q \in S}
<1>1. IsWellFoundedOn(Less, Nat)
  BY NatLessThanWellFounded
<1>2. \A i, j \in Nat : i < j => <<i, j>> \in Less
  BY Zenon DEF OpToRel
<1> HIDE DEF Less
<1>3. T \subseteq Nat /\ T # {}
  <2>1. \A q \in S : n - q \in Nat
    OBVIOUS
  <2> QED BY <2>1
<1>4. PICK i \in T : \A j \in T : ~ (<<j, i>> \in Less)
  <2> HIDE DEF T
  <2> QED BY <1>1, <1>3, WFMin
<1>5. \A j \in T : j \in Nat /\ ~ (j < i)
  <2> HIDE DEF T
  <2> QED BY <1>2, <1>3, <1>4, Zenon
<1>6. PICK m \in S : i = n - m
  OBVIOUS
<1>7. \A q \in S : ~ (n - q < n - m)
  BY <1>5, <1>6
<1> QED BY <1>7

(* The newest of the deltas that have a row is the one it is staged in.     *)
Newests ==
    \A s \in Stations, t \in Times :
        \/ /\ Staged(s, t) = None
           /\ \A d \in 1 .. Len(delta) : delta[d][s][t] = None
        \/ \E d \in 1 .. Len(delta) :
              /\ delta[d][s][t] # None
              /\ Staged(s, t) = delta[d][s][t]
              /\ \A q \in 1 .. Len(delta) : delta[q][s][t] # None => q <= d

LEMMA NewestsHold == delta \in Seq(Data) => Newests
<1> SUFFICES ASSUME delta \in Seq(Data), NEW s \in Stations, NEW t \in Times,
                    Holding(s, t) # {}
             PROVE  \E d \in 1 .. Len(delta) :
                       /\ delta[d][s][t] # None
                       /\ Staged(s, t) = delta[d][s][t]
                       /\ \A q \in 1 .. Len(delta) : delta[q][s][t] # None => q <= d
  BY DEF Newests, Staged, Holding
<1>1. Len(delta) \in Nat /\ Holding(s, t) \in SUBSET (1 .. Len(delta))
  BY DEF Holding
<1>2. \E m \in Holding(s, t) : \A q \in Holding(s, t) : q <= m
  BY <1>1, LatestNumber
<1>3. /\ Newest(s, t) \in Holding(s, t)
      /\ \A q \in Holding(s, t) : q <= Newest(s, t)
  BY <1>2 DEF Newest
<1> QED BY <1>1, <1>3 DEF Staged, Holding

(* A delta staged last wins ...                                             *)
LEMMA StagedLast ==
    ASSUME delta \in Seq(Data), NEW d \in Data, delta' = Append(delta, d),
           NEW s \in Stations, NEW t \in Times
    PROVE  Staged(s, t)' = IF d[s][t] # None THEN d[s][t] ELSE Staged(s, t)
<1>1. delta' \in Seq(Data)
  OBVIOUS
<1>2. Newests /\ Newests'
  <2>1. (delta \in Seq(Data) => Newests)'
    BY NewestsHold, PTL
  <2> QED BY <1>1, <2>1, NewestsHold
<1>3. /\ Len(delta') = Len(delta) + 1 /\ Len(delta) \in Nat
      /\ delta'[Len(delta) + 1] = d
      /\ \A i \in 1 .. Len(delta) : delta'[i] = delta[i]
  OBVIOUS
<1>4. CASE d[s][t] # None
  BY <1>2, <1>3, <1>4 DEF Newests
<1>5. CASE d[s][t] = None
  BY <1>2, <1>3, <1>5 DEF Newests
<1> QED BY <1>4, <1>5

LEMMA Removed ==
    ASSUME NEW D, NEW q \in Seq(D), NEW d \in 1 .. Len(q)
    PROVE  /\ RemoveAt(q, d) \in Seq(D)
           /\ Len(RemoveAt(q, d)) = Len(q) - 1
           /\ \A i \in 1 .. Len(q) - 1 :
                 RemoveAt(q, d)[i] = q[IF i < d THEN i ELSE i + 1]
<1> DEFINE a == SubSeq(q, 1, d - 1)
           b == SubSeq(q, d + 1, Len(q))
<1>1. /\ Len(q) \in Nat /\ d \in Nat /\ d >= 1 /\ d <= Len(q)
      /\ \A i \in 1 .. Len(q) : q[i] \in D
  OBVIOUS
<1>2. /\ a \in Seq(D) /\ Len(a) = d - 1
      /\ \A i \in 1 .. d - 1 : a[i] = q[i]
  <2>1. 1 \in Int /\ d - 1 \in Int /\ \A i \in 1 .. d - 1 : q[i] \in D
    BY <1>1
  <2>2. /\ a \in Seq(D)
        /\ Len(a) = IF 1 <= d - 1 THEN (d - 1) - 1 + 1 ELSE 0
        /\ \A i \in 1 .. (d - 1) - 1 + 1 : a[i] = q[1 + i - 1]
    BY <2>1, SubSeqProperties
  <2> HIDE DEF a
  <2> QED BY <1>1, <2>2
<1>3. /\ b \in Seq(D) /\ Len(b) = Len(q) - d
      /\ \A i \in 1 .. Len(q) - d : b[i] = q[d + i]
  <2>1. d + 1 \in Int /\ Len(q) \in Int /\ \A i \in d + 1 .. Len(q) : q[i] \in D
    BY <1>1
  <2>2. /\ b \in Seq(D)
        /\ Len(b) = IF d + 1 <= Len(q) THEN Len(q) - (d + 1) + 1 ELSE 0
        /\ \A i \in 1 .. Len(q) - (d + 1) + 1 : b[i] = q[(d + 1) + i - 1]
    BY <2>1, SubSeqProperties
  <2> HIDE DEF b
  <2> QED BY <1>1, <2>2
<1>4. RemoveAt(q, d) = a \o b
  BY DEF RemoveAt
<1> HIDE DEF a, b
<1>5. /\ a \o b \in Seq(D)
      /\ Len(a \o b) = Len(a) + Len(b)
      /\ \A i \in 1 .. Len(a) + Len(b) :
            (a \o b)[i] = IF i <= Len(a) THEN a[i] ELSE b[i - Len(a)]
  BY <1>2, <1>3, ConcatProperties
<1>6. ASSUME NEW i \in 1 .. Len(q) - 1
      PROVE  (a \o b)[i] = q[IF i < d THEN i ELSE i + 1]
  BY <1>1, <1>2, <1>3, <1>5
<1>7. Len(a \o b) = Len(q) - 1
  BY <1>1, <1>2, <1>3, <1>5
<1> QED BY <1>4, <1>5, <1>6, <1>7

(* ... and the one dropped first takes no newer version with it.            *)
LEMMA StagedFirst ==
    ASSUME delta \in Seq(Data), delta # <<>>, delta' = RemoveAt(delta, 1),
           NEW s \in Stations, NEW t \in Times
    PROVE  Staged(s, t)' \in {Staged(s, t), None}
<1>1. /\ delta' \in Seq(Data) /\ Len(delta) \in Nat
      /\ Len(delta') = Len(delta) - 1
      /\ \A i \in 1 .. Len(delta') : delta'[i] = delta[i + 1]
  <2>1. Len(delta) \in Nat \ {0} /\ 1 \in 1 .. Len(delta)
    OBVIOUS
  <2>2. /\ RemoveAt(delta, 1) \in Seq(Data)
        /\ Len(RemoveAt(delta, 1)) = Len(delta) - 1
        /\ \A i \in 1 .. Len(delta) - 1 :
              RemoveAt(delta, 1)[i] = delta[IF i < 1 THEN i ELSE i + 1]
    BY <2>1, Removed
  <2> QED BY <2>1, <2>2
<1>2. Newests /\ Newests'
  <2>1. (delta \in Seq(Data) => Newests)'
    BY NewestsHold, PTL
  <2> QED BY <1>1, <2>1, NewestsHold
<1>3. ASSUME NEW d \in 1 .. Len(delta'), delta'[d][s][t] # None,
             Staged(s, t)' = delta'[d][s][t],
             \A q \in 1 .. Len(delta') : delta'[q][s][t] # None => q <= d
      PROVE  Staged(s, t)' = Staged(s, t)
  <2>1. d + 1 \in 1 .. Len(delta) /\ delta[d + 1][s][t] # None
    BY <1>1, <1>3
  <2>2. \A q \in 1 .. Len(delta) : delta[q][s][t] # None => q <= d + 1
    <3> SUFFICES ASSUME NEW q \in 2 .. Len(delta), delta[q][s][t] # None
                 PROVE  q <= d + 1
      BY <1>1
    <3>1. q - 1 \in 1 .. Len(delta') /\ delta'[q - 1] = delta[q]
      BY <1>1
    <3> QED BY <1>3, <3>1
  <2>3. PICK e \in 1 .. Len(delta) :
           /\ delta[e][s][t] # None
           /\ Staged(s, t) = delta[e][s][t]
           /\ \A q \in 1 .. Len(delta) : delta[q][s][t] # None => q <= e
    BY <1>2, <2>1 DEF Newests
  <2>4. e = d + 1
    BY <1>1, <2>1, <2>2, <2>3
  <2> QED BY <1>1, <1>3, <2>3, <2>4
<1> QED BY <1>2, <1>3 DEF Newests

LEMMA OverlaidAt ==
    ASSUME NEW d, NEW R, NEW new, NEW s \in Stations, NEW t \in Times
    PROVE  Overlaid(d, R, new)[s][t] =
             IF <<s, t>> \in R THEN new[s][t] ELSE d[s][t]
  BY DEF Overlaid

LEMMA OverlaidType ==
    ASSUME NEW d \in Data, NEW R, NEW new \in Data
    PROVE  Overlaid(d, R, new) \in Data
  BY DEF Overlaid, Data

-------------------------------------------------------------------------------
(* The failure counter of a station that is still to be polled is below the *)
(* threshold, since quarantined stations are not selected: recording one    *)
(* more failure stays within the type.  A run that polls has room to stage. *)
TodoCanFail ==
    job = "poll" =>
        /\ \A s \in todo : mem[s].consecutive_failures < Threshold
        /\ Len(delta) < MaxDeltas

LEMMA TypeInvariant == Spec => [](TypeOK /\ TodoCanFail)
<1>1. Init => TypeOK /\ TodoCanFail
  BY NoDataAt, PipelineAssumption
  DEF Init, TypeOK, TodoCanFail, Marks, NoTime, NoPeriod
<1>2. TypeOK /\ TodoCanFail /\ [Next]_vars => (TypeOK /\ TodoCanFail)'
  <2> SUFFICES ASSUME TypeOK, TodoCanFail, [Next]_vars
               PROVE  (TypeOK /\ TodoCanFail)'
    OBVIOUS
  <2>1. CASE UNCHANGED vars
    BY <2>1 DEF TypeOK, TodoCanFail, vars
  <2>2. CASE Tick
    BY <2>2, PipelineAssumption DEF TypeOK, TodoCanFail, Tick, run, swap
  <2>3. ASSUME NEW s \in Stations, NEW t \in Times, Report(s, t)
        PROVE  (TypeOK /\ TodoCanFail)'
    <3>1. upstream' \in Data
      BY <2>3, PipelineAssumption DEF TypeOK, Report, Data
    <3> QED BY <2>3, <3>1 DEF TypeOK, TodoCanFail, Report, run, swap
  <2>4. CASE Refresh
    <3>1. known' \in [Stations -> 0 .. MaxTime]
      <4>1. PICK last \in [Stations -> 0 .. now] : known' = last
        BY <2>4 DEF Refresh
      <4>2. 0 .. now \subseteq 0 .. MaxTime
        BY PipelineAssumption DEF TypeOK
      <4> QED BY <4>1, <4>2
    <3> QED BY <2>4, <3>1 DEF TypeOK, TodoCanFail, Refresh, service, run, swap
  <2>5. CASE StartAppend
    <3>1. \A s \in Stations :
             Selected(s) => marks[s].consecutive_failures < Threshold
      BY MarkType, PipelineAssumption DEF TypeOK, Selected, Quarantined
    <3> QED BY <2>5, <3>1, NoDataAt
            DEF TypeOK, TodoCanFail, StartAppend, service, swap
  <2>6. ASSUME NEW s \in Stations, PollRows(s) PROVE (TypeOK /\ TodoCanFail)'
    <3>1. PICK last \in Times :
             mem' = [mem EXCEPT ![s] =
                       [watermark |-> Later(mem[s].watermark, last),
                        consecutive_failures |-> 0]]
      BY <2>6 DEF PollRows, Answer
    <3>2. Later(mem[s].watermark, last) \in 0 .. MaxTime
      BY MarkType, PipelineAssumption DEF TypeOK, Later, Times
    <3>3. mem' \in Marks
      BY <3>1, <3>2, PipelineAssumption DEF TypeOK, Marks
    <3>4. fetched' \in Data
      BY <2>6, PipelineAssumption DEF TypeOK, PollRows, Data, None
    <3>5. \A u \in todo' : mem'[u] = mem[u]
      BY <2>6, <3>1 DEF TypeOK, PollRows
    <3> QED BY <2>6, <3>3, <3>4, <3>5
            DEF TypeOK, TodoCanFail, PollRows, service, swap
  <2>7. ASSUME NEW s \in Stations, PollNothing(s)
        PROVE  (TypeOK /\ TodoCanFail)'
    <3>1. mem' \in Marks
      <4>1. 0 \in 0 .. Threshold
        BY PipelineAssumption
      <4> QED BY <2>7, <4>1 DEF TypeOK, PollNothing, Marks
    <3>2. \A u \in todo' : mem'[u] = mem[u]
      BY <2>7 DEF TypeOK, PollNothing
    <3> QED BY <2>7, <3>1, <3>2
            DEF TypeOK, TodoCanFail, PollNothing, service, swap
  <2>8. ASSUME NEW s \in Stations, PollError(s)
        PROVE  (TypeOK /\ TodoCanFail)'
    <3>1. mem[s].consecutive_failures + 1 \in 0 .. Threshold
      <4>1. job = "poll" /\ s \in todo /\ mem \in Marks
        BY <2>8 DEF TypeOK, PollError
      <4>2. mem[s].consecutive_failures \in 0 .. Threshold
        BY <4>1, MarkType
      <4>3. mem[s].consecutive_failures < Threshold
        BY <4>1 DEF TodoCanFail
      <4> QED BY <4>2, <4>3, PipelineAssumption
    <3>2. mem' \in Marks
      <4>1. /\ mem' = [mem EXCEPT ![s] = [mem[s] EXCEPT !.consecutive_failures = @ + 1]]
            /\ mem \in Marks
        BY <2>8 DEF TypeOK, PollError
      <4> QED BY <3>1, <4>1 DEF Marks
    <3>3. \A u \in todo' : mem'[u] = mem[u]
      BY <2>8 DEF TypeOK, PollError
    <3> QED BY <2>8, <3>2, <3>3
            DEF TypeOK, TodoCanFail, PollError, service, swap
  <2>9. CASE WriteDelta
    <3>1. delta' \in Seq(Data) /\ Len(delta') <= MaxDeltas
      <4>1. /\ delta \in Seq(Data) /\ fetched \in Data
            /\ Len(delta) \in Nat /\ Len(delta) < MaxDeltas
            /\ delta' = delta \/ delta' = Append(delta, fetched)
        BY <2>9 DEF TypeOK, TodoCanFail, WriteDelta
      <4>2. /\ Append(delta, fetched) \in Seq(Data)
            /\ Len(Append(delta, fetched)) = Len(delta) + 1
        BY <4>1, AppendProperties
      <4>3. CASE delta' = delta
        BY <4>1, <4>3, PipelineAssumption
      <4>4. CASE delta' = Append(delta, fetched)
        <5>1. Len(delta) + 1 <= MaxDeltas
          BY <4>1, PipelineAssumption
        <5> QED BY <4>2, <4>4, <5>1
      <4> QED BY <4>1, <4>3, <4>4
    <3> QED BY <2>9, <3>1, NoDataAt DEF TypeOK, TodoCanFail, WriteDelta, service, swap
  <2>10. CASE SaveMarks
    BY <2>10 DEF TypeOK, TodoCanFail, SaveMarks, service, run, swap
  <2>11. CASE StartFold
    <3>1. periods' \subseteq Nat \ {0}
      BY <2>11, PipelineAssumption DEF StartFold, Times
    <3> QED BY <2>11, <3>1 DEF TypeOK, TodoCanFail, StartFold, service, run
  <2>12. ASSUME NEW p \in periods, Rewrite(p) PROVE (TypeOK /\ TodoCanFail)'
    <3>1. \A s \in Stations, t \in Times : Deduped(s, t) \in 0 .. MaxVersion
      <4> SUFFICES ASSUME NEW s \in Stations, NEW t \in Times
                   PROVE  Deduped(s, t) \in 0 .. MaxVersion
        OBVIOUS
      <4>1. base[s][t] \in 0 .. MaxVersion
        BY DataAt DEF TypeOK
      <4>2. \A d \in 1 .. Len(delta) : delta[d][s][t] \in 0 .. MaxVersion
        <5>1. \A d \in 1 .. Len(delta) : delta[d] \in Data
          BY DEF TypeOK
        <5> QED BY <5>1, DataAt
      <4> QED BY <4>1, <4>2, NewestsHold, PipelineAssumption
              DEF TypeOK, Deduped, Newests, None
    <3>2. moving' \in Data
      BY <2>12, <3>1, PipelineAssumption DEF Rewrite, Data, None
    <3> QED BY <2>12, <3>2 DEF TypeOK, TodoCanFail, Rewrite, service, run
  <2>13. ASSUME NEW R, DeleteFile(R) PROVE (TypeOK /\ TodoCanFail)'
    <3>1. base' \in Data
      BY <2>13, OverlaidType, NoDataAt DEF TypeOK, DeleteFile
    <3> QED BY <2>13, <3>1 DEF TypeOK, TodoCanFail, DeleteFile, service, run, swap
  <2>14. CASE DeleteDone
    BY <2>14 DEF TypeOK, TodoCanFail, DeleteDone, service, run, swap
  <2>15. ASSUME NEW R, MoveFile(R) PROVE (TypeOK /\ TodoCanFail)'
    <3>1. base' \in Data
      BY <2>15, OverlaidType DEF TypeOK, MoveFile
    <3> QED BY <2>15, <3>1 DEF TypeOK, TodoCanFail, MoveFile, service, run, swap
  <2>16. CASE MoveDone
    BY <2>16, NoDataAt DEF TypeOK, TodoCanFail, MoveDone, service, run, NoPeriod
  <2>17. CASE Folded
    BY <2>17 DEF TypeOK, TodoCanFail, Folded, service, run, swap
  <2>18. ASSUME NEW d \in DOMAIN delta, ClearDelta(d)
         PROVE  (TypeOK /\ TodoCanFail)'
    <3>1. delta' \in Seq(Data) /\ Len(delta') <= MaxDeltas
      <4>1. /\ delta \in Seq(Data) /\ d \in 1 .. Len(delta)
            /\ Len(delta) \in Nat /\ Len(delta) <= MaxDeltas
            /\ delta' = RemoveAt(delta, d)
        BY <2>18 DEF TypeOK, ClearDelta
      <4>2. RemoveAt(delta, d) \in Seq(Data) /\ Len(RemoveAt(delta, d)) = Len(delta) - 1
        BY <4>1, Removed
      <4> HIDE DEF Data
      <4> QED BY <4>1, <4>2, PipelineAssumption
    <3> QED BY <2>18, <3>1 DEF TypeOK, TodoCanFail, ClearDelta, service, run, swap
  <2>19. CASE ClearDone
    BY <2>19 DEF TypeOK, TodoCanFail, ClearDone, service, run, swap
  <2>20. CASE Crash
    <3>1. lost' \subseteq Stations \X Times
      BY <2>20 DEF TypeOK, Crash, OnlyMoving, RowsOf
    <3> QED BY <2>20, <3>1, NoDataAt, PipelineAssumption
            DEF TypeOK, TodoCanFail, Crash, service, NoPeriod
  <2> QED BY <2>1, <2>2, <2>3, <2>4, <2>5, <2>6, <2>7, <2>8, <2>9, <2>10,
             <2>11, <2>12, <2>13, <2>14, <2>15, <2>16, <2>17, <2>18, <2>19, <2>20
          DEF Next, JobStep
<1> QED BY <1>1, <1>2, PTL DEF Spec

(* Every variable keeps its type: in particular no run counts a failure of  *)
(* a quarantined station (cli.py:379-380).                                  *)
THEOREM PipelineTypeOK == Spec => []TypeOK
BY TypeInvariant, PTL

-------------------------------------------------------------------------------
(* The layers of the mirror, looked up.                                     *)

Layers ==
    \A s \in Stations, t \in Times :
        /\ Stored[s][t] = IF Staged(s, t) # None THEN Staged(s, t)
                          ELSE IF base[s][t] # None THEN base[s][t]
                          ELSE moving[s][t]
        /\ Pending[s][t] = IF fetched[s][t] # None THEN fetched[s][t]
                           ELSE Stored[s][t]

LEMMA LayersHold == Layers
  BY DEF Layers, Stored, Pending

LEMMA LayersHoldNext == Layers'
  BY DEF Layers, Stored, Pending

Numbers ==
    /\ now \in Nat
    /\ \A t \in Times : t \in Nat \ {0}
    /\ \A s \in Stations :
        /\ marks[s].watermark \in 0 .. MaxTime
        /\ mem[s].watermark \in 0 .. MaxTime
        /\ \A t \in Times :
            /\ upstream[s][t] \in Nat
            /\ base[s][t] \in Nat
            /\ Staged(s, t) \in Nat
            /\ moving[s][t] \in Nat
            /\ Stored[s][t] \in Nat
            /\ fetched[s][t] \in Nat

LEMMA NumbersHold == TypeOK => Numbers
<1> SUFFICES ASSUME TypeOK PROVE Numbers
  OBVIOUS
<1>1. ASSUME NEW s \in Stations, NEW t \in Times
      PROVE  Staged(s, t) \in Nat
  <2>1. \A d \in 1 .. Len(delta) : delta[d] \in Data
    BY DEF TypeOK
  <2>2. \A d \in 1 .. Len(delta) : delta[d][s][t] \in Nat
    BY <2>1, DataAt
  <2> QED BY <2>2, NewestsHold DEF TypeOK, Newests, None
<1>2. \A s \in Stations, t \in Times :
         /\ upstream[s][t] \in Nat
         /\ base[s][t] \in Nat
         /\ moving[s][t] \in Nat
         /\ fetched[s][t] \in Nat
  BY DataAt DEF TypeOK
<1>3. \A s \in Stations, t \in Times : Stored[s][t] \in Nat
  BY <1>1, <1>2, LayersHold DEF Layers
<1>4. \A s \in Stations :
         marks[s].watermark \in 0 .. MaxTime /\ mem[s].watermark \in 0 .. MaxTime
  BY MarkType DEF TypeOK
<1>5. now \in Nat /\ \A t \in Times : t \in Nat \ {0}
  BY PipelineAssumption DEF TypeOK, Times
<1> QED BY <1>1, <1>2, <1>3, <1>4, <1>5 DEF Numbers

LEMMA StagedSame ==
    ASSUME delta' = delta
    PROVE  \A s \in Stations, t \in Times : Staged(s, t)' = Staged(s, t)
  BY DEF Staged, Newest, Holding

(* A step of the service or of an append that stages nothing.               *)
LEMMA SwapKept ==
    ASSUME PipelineInv, UNCHANGED <<delta, base, periods, period, moving>>,
           job' = job \/ {job, job'} \subseteq {"none", "poll", "save"}
    PROVE  /\ Stored' = Stored
           /\ InMotion'
           /\ FoldedIsBase'
<1>1. \A s \in Stations, t \in Times : Staged(s, t)' = Staged(s, t)
  BY StagedSame
<1>2. Stored' = Stored
  BY <1>1 DEF Stored
<1>3. InMotion'
  BY <1>1 DEF PipelineInv, InMotion, Swapping
<1>4. FoldedIsBase'
  BY <1>1 DEF PipelineInv, FoldedIsBase, Swapping
<1> QED BY <1>2, <1>3, <1>4

(* A step that ends or belongs to no append run: what it takes from the     *)
(* mirror is recorded as lost.                                              *)
LEMMA NothingNewStored ==
    ASSUME TypeOK, TypeOK', PipelineInv, Numbers, Numbers',
           InMotion', FoldedIsBase',
           job' \notin {"poll", "save"}, fetched' = NoData, lost \subseteq lost',
           UNCHANGED <<now, upstream, marks>>,
           \A s \in Stations, t \in Times :
               \/ Stored'[s][t] = Stored[s][t]
               \/ Stored'[s][t] = None /\ <<s, t>> \in lost'
    PROVE  PipelineInv'
<1>1. Versioned'
  <2>1. \A s \in Stations, t \in Times : fetched'[s][t] = None
    BY NoDataAt
  <2>2. \A s \in Stations, t \in Times :
           Stored'[s][t] <= upstream[s][t] /\ upstream[s][t] \in Nat
    <3>1. \A s \in Stations, t \in Times : upstream[s][t] \in Nat
      BY DEF Numbers
    <3>2. \A s \in Stations, t \in Times : Stored[s][t] <= upstream[s][t]
      BY DEF PipelineInv, Versioned
    <3> SUFFICES ASSUME NEW s \in Stations, NEW t \in Times
                 PROVE  Stored'[s][t] <= upstream[s][t]
      BY <3>1
    <3>3. CASE Stored'[s][t] = Stored[s][t]
      BY <3>2, <3>3
    <3>4. CASE Stored'[s][t] = None
      BY <3>1, <3>4 DEF None
    <3> QED BY <3>3, <3>4
  <2> QED BY <2>1, <2>2 DEF Versioned, None
<1>2. WatermarkIsStored'
  <2>1. \A s \in Stations :
           marks[s].watermark # NoTime => marks[s].watermark \in Times
    BY DEF Numbers, Times, NoTime
  <2> QED BY <2>1 DEF PipelineInv, WatermarkIsStored, Lost
<1>3. NoSilentGap'
  BY DEF PipelineInv, NoSilentGap, Lost
<1>4. InThePast' /\ RunBacked' /\ RunPhase'
  BY DEF PipelineInv, InThePast, RunBacked, RunPhase
<1> QED BY <1>1, <1>2, <1>3, <1>4 DEF PipelineInv

(* The steps of a compaction that runs: whatever they rewrite, delete, move *)
(* or drop, the mirror holds what it held.                                  *)
CompactStep ==
    \/ StartFold
    \/ \E p \in periods : Rewrite(p)
    \/ \E R \in SUBSET RowsOf(base) : DeleteFile(R)
    \/ DeleteDone
    \/ \E R \in SUBSET (RowsOf(moving) \ RowsOf(base)) : MoveFile(R)
    \/ MoveDone
    \/ Folded
    \/ \E d \in DOMAIN delta : ClearDelta(d)
    \/ ClearDone

LEMMA CompactionKeeps ==
    ASSUME SortedListing, TypeOK, PipelineInv, CompactStep
    PROVE  /\ UNCHANGED <<now, upstream, marks, lost>>
           /\ job' \notin {"poll", "save"} /\ fetched' = NoData
           /\ InMotion' /\ FoldedIsBase'
           /\ \A s \in Stations, t \in Times : Stored'[s][t] = Stored[s][t]
<1> DEFINE Compacted ==
        /\ UNCHANGED <<now, upstream, marks, lost>>
        /\ job' \notin {"poll", "save"} /\ fetched' = NoData
        /\ InMotion' /\ FoldedIsBase'
        /\ \A s \in Stations, t \in Times : Stored'[s][t] = Stored[s][t]
<1> USE LayersHold, LayersHoldNext, PipelineAssumption
<1>1. ASSUME StartFold PROVE Compacted
  <2>0. /\ UNCHANGED <<now, upstream, base, delta, marks, fetched, period, moving, lost>>
        /\ job = "none" /\ job' = "fold"
        /\ periods' = {PeriodOf[t] : t \in {u \in Times :
                          \E s \in Stations : Staged(s, u) # None}}
    BY <1>1 DEF StartFold, service, run
  <2>1. \A s \in Stations, t \in Times : Staged(s, t)' = Staged(s, t)
    BY <2>0, StagedSame
  <2>2. InMotion'
    BY <2>0, <2>1 DEF PipelineInv, InMotion, Swapping
  <2>3. FoldedIsBase'
    BY <2>0, <2>1 DEF FoldedIsBase
  <2>4. \A s \in Stations, t \in Times : Stored'[s][t] = Stored[s][t]
    BY <2>0, <2>1 DEF Layers
  <2>5. job' \notin {"poll", "save"} /\ fetched' = NoData
    BY <2>0 DEF PipelineInv, RunPhase
  <2> QED BY <2>0, <2>2, <2>3, <2>4, <2>5
<1>2. ASSUME NEW p \in periods, Rewrite(p) PROVE Compacted
  <2>0. /\ UNCHANGED <<now, upstream, base, delta, marks, fetched, lost>>
        /\ job = "fold" /\ job' = "delete"
        /\ periods' = periods \ {p} /\ period' = p
    BY <1>2 DEF Rewrite, service, run
  <2>1. \A s \in Stations, t \in Times : Staged(s, t)' = Staged(s, t)
    BY <2>0, StagedSame
  <2>m. \A s \in Stations, t \in Times :
           /\ moving[s][t] = None
           /\ moving'[s][t] = IF PeriodOf[t] # p THEN None
                              ELSE IF Staged(s, t) # None THEN Staged(s, t)
                              ELSE base[s][t]
    BY <1>2, <2>0 DEF Rewrite, Deduped, PipelineInv, InMotion, Swapping
  <2>2. InMotion'
    BY <2>0, <2>1, <2>m DEF InMotion, Swapping
  <2>3. FoldedIsBase'
    BY <2>0, <2>1 DEF PipelineInv, FoldedIsBase, Swapping
  <2>4. \A s \in Stations, t \in Times : Stored'[s][t] = Stored[s][t]
    BY <2>0, <2>1, <2>m DEF Layers
  <2>5. job' \notin {"poll", "save"} /\ fetched' = NoData
    BY <2>0 DEF PipelineInv, RunPhase
  <2> QED BY <2>0, <2>2, <2>3, <2>4, <2>5
<1>3. ASSUME NEW R \in SUBSET RowsOf(base), DeleteFile(R) PROVE Compacted
  <2>0. /\ UNCHANGED <<now, upstream, delta, marks, fetched, lost, job>>
        /\ UNCHANGED <<periods, period, moving>>
        /\ job = "delete"
    BY <1>3 DEF DeleteFile, service, run, swap
  <2>1. \A s \in Stations, t \in Times : Staged(s, t)' = Staged(s, t)
    BY <2>0, StagedSame
  <2>m. \A s \in Stations, t \in Times :
           \/ base'[s][t] = base[s][t]
           \/ base'[s][t] = None /\ PeriodOf[t] = period
    <3> SUFFICES ASSUME NEW s \in Stations, NEW t \in Times,
                        base'[s][t] # base[s][t]
                 PROVE  base'[s][t] = None /\ PeriodOf[t] = period
      OBVIOUS
    <3>1. base'[s][t] = IF <<s, t>> \in R THEN NoData[s][t] ELSE base[s][t]
      BY <1>3, OverlaidAt DEF DeleteFile
    <3>2. <<s, t>> \in R
      BY <3>1
    <3>3. PeriodOf[<<s, t>>[2]] = period
      BY <1>3, <3>2 DEF DeleteFile
    <3> QED BY <3>1, <3>2, <3>3, NoDataAt
  <2>2. InMotion'
    BY <2>0, <2>1, <2>m DEF PipelineInv, InMotion, Swapping
  <2>3. FoldedIsBase'
    BY <2>0, <2>1, <2>m DEF PipelineInv, FoldedIsBase, Swapping
  <2>4. \A s \in Stations, t \in Times : Stored'[s][t] = Stored[s][t]
    BY <2>0, <2>1, <2>m DEF Layers, PipelineInv, InMotion, Swapping
  <2>5. job' \notin {"poll", "save"} /\ fetched' = NoData
    BY <2>0 DEF PipelineInv, RunPhase
  <2> QED BY <2>0, <2>2, <2>3, <2>4, <2>5
<1>4. ASSUME DeleteDone PROVE Compacted
  <2>0. /\ UNCHANGED <<now, upstream, base, delta, marks, fetched, lost>>
        /\ UNCHANGED <<periods, period, moving>>
        /\ job = "delete" /\ job' = "move"
        /\ \A r \in RowsOf(base) : PeriodOf[r[2]] # period
    BY <1>4 DEF DeleteDone, service, run, swap
  <2>1. \A s \in Stations, t \in Times : Staged(s, t)' = Staged(s, t)
    BY <2>0, StagedSame
  <2>m. \A s \in Stations, t \in Times :
           PeriodOf[t] = period => base[s][t] = None
    <3> SUFFICES ASSUME NEW s \in Stations, NEW t \in Times, base[s][t] # None
                 PROVE  PeriodOf[t] # period
      OBVIOUS
    <3>1. <<s, t>> \in RowsOf(base)
      BY DEF RowsOf
    <3> QED BY <2>0, <3>1
  <2>2. InMotion'
    BY <2>0, <2>1, <2>m DEF PipelineInv, InMotion, Swapping
  <2>3. FoldedIsBase'
    BY <2>0, <2>1 DEF PipelineInv, FoldedIsBase, Swapping
  <2>4. \A s \in Stations, t \in Times : Stored'[s][t] = Stored[s][t]
    BY <2>0, <2>1 DEF Layers
  <2>5. job' \notin {"poll", "save"} /\ fetched' = NoData
    BY <2>0 DEF PipelineInv, RunPhase
  <2> QED BY <2>0, <2>2, <2>3, <2>4, <2>5
<1>5. ASSUME NEW R \in SUBSET (RowsOf(moving) \ RowsOf(base)), MoveFile(R)
       PROVE  Compacted
  <2>0. /\ UNCHANGED <<now, upstream, delta, marks, fetched, lost, job>>
        /\ UNCHANGED <<periods, period, moving>>
        /\ job = "move"
    BY <1>5 DEF MoveFile, service, run, swap
  <2>1. \A s \in Stations, t \in Times : Staged(s, t)' = Staged(s, t)
    BY <2>0, StagedSame
  <2>m. \A s \in Stations, t \in Times :
           \/ base'[s][t] = base[s][t]
           \/ /\ base[s][t] = None /\ moving[s][t] # None
              /\ base'[s][t] = moving[s][t] /\ PeriodOf[t] = period
    <3>a. \A s \in Stations, t \in Times :
             base'[s][t] = IF <<s, t>> \in R THEN moving[s][t] ELSE base[s][t]
      <4>1. base' = Overlaid(base, R, moving)
        BY <1>5 DEF MoveFile
      <4> QED BY <4>1 DEF Overlaid
    <3> SUFFICES ASSUME NEW s \in Stations, NEW t \in Times, <<s, t>> \in R
                 PROVE  /\ base[s][t] = None /\ moving[s][t] # None
                        /\ base'[s][t] = moving[s][t] /\ PeriodOf[t] = period
      BY <3>a
    <3>1. <<s, t>> \in RowsOf(moving) /\ <<s, t>> \notin RowsOf(base)
      OBVIOUS
    <3>2. moving[s][t] # None /\ base[s][t] = None
      BY <3>1 DEF RowsOf
    <3>3. base'[s][t] = moving[s][t]
      BY <3>a
    <3> QED BY <3>2, <3>3 DEF PipelineInv, InMotion
  <2>2. InMotion'
    BY <2>0, <2>1, <2>m DEF PipelineInv, InMotion, Swapping
  <2>3. FoldedIsBase'
    BY <2>0, <2>1, <2>m DEF PipelineInv, FoldedIsBase, Swapping
  <2>4. \A s \in Stations, t \in Times : Stored'[s][t] = Stored[s][t]
    BY <2>0, <2>1, <2>m DEF Layers
  <2>5. job' \notin {"poll", "save"} /\ fetched' = NoData
    BY <2>0 DEF PipelineInv, RunPhase
  <2> QED BY <2>0, <2>2, <2>3, <2>4, <2>5
<1>6. ASSUME MoveDone PROVE Compacted
  <2>0. /\ UNCHANGED <<now, upstream, base, delta, marks, fetched, lost, periods>>
        /\ job = "move" /\ job' = "fold" /\ moving' = NoData
        /\ RowsOf(moving) \subseteq RowsOf(base)
    BY <1>6 DEF MoveDone, service, run
  <2>1. \A s \in Stations, t \in Times : Staged(s, t)' = Staged(s, t)
    BY <2>0, StagedSame
  <2>m. \A s \in Stations, t \in Times :
           /\ moving'[s][t] = None
           /\ moving[s][t] # None => base[s][t] = moving[s][t]
    <3>1. \A s \in Stations, t \in Times :
             moving[s][t] # None => base[s][t] # None /\ PeriodOf[t] = period
      <4> SUFFICES ASSUME NEW s \in Stations, NEW t \in Times, moving[s][t] # None
                   PROVE  base[s][t] # None /\ PeriodOf[t] = period
        OBVIOUS
      <4>1. <<s, t>> \in RowsOf(base)
        BY <2>0 DEF RowsOf
      <4> QED BY <4>1 DEF RowsOf, PipelineInv, InMotion
    <3> QED BY <2>0, <3>1, NoDataAt DEF PipelineInv, InMotion
  <2>2. InMotion'
    BY <2>0, <2>m DEF InMotion, Swapping
  <2>3. FoldedIsBase'
    BY <2>0, <2>1, <2>m DEF PipelineInv, FoldedIsBase, InMotion, Swapping
  <2>4. \A s \in Stations, t \in Times : Stored'[s][t] = Stored[s][t]
    BY <2>0, <2>1, <2>m DEF Layers
  <2>5. job' \notin {"poll", "save"} /\ fetched' = NoData
    BY <2>0 DEF PipelineInv, RunPhase
  <2> QED BY <2>0, <2>2, <2>3, <2>4, <2>5
<1>7. ASSUME Folded PROVE Compacted
  <2>0. /\ UNCHANGED <<now, upstream, base, delta, marks, fetched, lost>>
        /\ UNCHANGED <<periods, period, moving>>
        /\ job = "fold" /\ job' = "clear" /\ periods = {}
    BY <1>7 DEF Folded, service, run, swap
  <2>1. \A s \in Stations, t \in Times : Staged(s, t)' = Staged(s, t)
    BY <2>0, StagedSame
  <2>2. InMotion'
    BY <2>0, <2>1 DEF PipelineInv, InMotion, Swapping
  <2>3. FoldedIsBase'
    BY <2>0, <2>1 DEF PipelineInv, FoldedIsBase, Swapping
  <2>4. \A s \in Stations, t \in Times : Stored'[s][t] = Stored[s][t]
    BY <2>0, <2>1 DEF Layers
  <2>5. job' \notin {"poll", "save"} /\ fetched' = NoData
    BY <2>0 DEF PipelineInv, RunPhase
  <2> QED BY <2>0, <2>2, <2>3, <2>4, <2>5
<1>8. ASSUME NEW d \in DOMAIN delta, ClearDelta(d) PROVE Compacted
  <2>0. /\ UNCHANGED <<now, upstream, base, marks, fetched, lost, job>>
        /\ UNCHANGED <<periods, period, moving>>
        /\ job = "clear" /\ d = 1 /\ delta' = RemoveAt(delta, 1)
    BY <1>8 DEF ClearDelta, service, run, swap
  <2>1. \A s \in Stations, t \in Times : Staged(s, t)' \in {Staged(s, t), None}
    <3>1. delta \in Seq(Data)
      BY DEF TypeOK
    <3>2. delta # <<>>
      BY <2>0, <3>1
    <3> QED BY <2>0, <3>1, <3>2, StagedFirst
  <2>m. \A s \in Stations, t \in Times :
           /\ moving[s][t] = None
           /\ Staged(s, t) # None => base[s][t] = Staged(s, t)
    BY <2>0 DEF PipelineInv, InMotion, FoldedIsBase, Swapping
  <2>2. InMotion'
    BY <2>0, <2>m DEF InMotion, Swapping
  <2>3. FoldedIsBase'
    BY <2>0, <2>1, <2>m DEF PipelineInv, FoldedIsBase, Swapping
  <2>4. \A s \in Stations, t \in Times : Stored'[s][t] = Stored[s][t]
    BY <2>0, <2>1, <2>m DEF Layers
  <2>5. job' \notin {"poll", "save"} /\ fetched' = NoData
    BY <2>0 DEF PipelineInv, RunPhase
  <2> QED BY <2>0, <2>2, <2>3, <2>4, <2>5
<1>9. ASSUME ClearDone PROVE Compacted
  <2>0. /\ UNCHANGED <<now, upstream, base, delta, marks, fetched, lost>>
        /\ UNCHANGED <<periods, period, moving>>
        /\ job = "clear" /\ job' = "none"
    BY <1>9 DEF ClearDone, service, run, swap
  <2>1. \A s \in Stations, t \in Times : Staged(s, t)' = Staged(s, t)
    BY <2>0, StagedSame
  <2>2. InMotion'
    BY <2>0, <2>1 DEF PipelineInv, InMotion, Swapping
  <2>3. FoldedIsBase'
    BY <2>0 DEF PipelineInv, FoldedIsBase
  <2>4. \A s \in Stations, t \in Times : Stored'[s][t] = Stored[s][t]
    BY <2>0, <2>1 DEF Layers
  <2>5. job' \notin {"poll", "save"} /\ fetched' = NoData
    BY <2>0 DEF PipelineInv, RunPhase
  <2> QED BY <2>0, <2>2, <2>3, <2>4, <2>5
<1> QED BY <1>1, <1>2, <1>3, <1>4, <1>5, <1>6, <1>7, <1>8, <1>9 DEF CompactStep

(* A death takes only what the files under _staging/compact alone hold.      *)
LEMMA CrashLoses ==
    ASSUME TypeOK, Crash
    PROVE  /\ InMotion' /\ FoldedIsBase'
           /\ \A s \in Stations, t \in Times :
                 \/ Stored'[s][t] = Stored[s][t]
                 \/ Stored'[s][t] = None /\ <<s, t>> \in OnlyMoving
<1> USE LayersHold, LayersHoldNext
<1>0. /\ UNCHANGED <<now, upstream, base, delta, marks>>
      /\ job' = "none" /\ periods' = {} /\ moving' = NoData
      /\ fetched' = NoData /\ lost' = lost \cup OnlyMoving
  BY DEF Crash, service
<1>1. \A s \in Stations, t \in Times :
         Staged(s, t)' = Staged(s, t) /\ moving'[s][t] = None
  BY <1>0, StagedSame, NoDataAt
<1>2. InMotion'
  BY <1>0, <1>1 DEF InMotion, Swapping
<1>3. FoldedIsBase'
  BY <1>0 DEF FoldedIsBase
<1>4. \A s \in Stations, t \in Times :
         \/ Stored'[s][t] = Stored[s][t]
         \/ Stored'[s][t] = None /\ <<s, t>> \in OnlyMoving
  <2> SUFFICES ASSUME NEW s \in Stations, NEW t \in Times,
                      Stored'[s][t] # Stored[s][t]
               PROVE  Stored'[s][t] = None /\ <<s, t>> \in OnlyMoving
    OBVIOUS
  <2>1. /\ Staged(s, t) = None /\ base[s][t] = None /\ moving[s][t] # None
        /\ Stored'[s][t] = None
    BY <1>0, <1>1 DEF Layers
  <2> QED BY <2>1 DEF OnlyMoving, RowsOf
<1> QED BY <1>2, <1>3, <1>4

LEMMA PipelineInvStep ==
    ASSUME SortedListing, TypeOK, TypeOK', PipelineInv, [Next]_vars
    PROVE  PipelineInv'
<1> USE LayersHold, LayersHoldNext, PipelineAssumption
<1>n. Numbers /\ Numbers'
  <2>1. TypeOK' => Numbers'
    BY NumbersHold, PTL
  <2> QED BY <2>1, NumbersHold
<1>v. /\ Versioned
      /\ \A s \in Stations, t \in Times :
            /\ upstream[s][t] \in Nat
            /\ Stored[s][t] \in Nat
            /\ fetched[s][t] \in Nat
  BY <1>n DEF PipelineInv, Numbers
<1>1. CASE UNCHANGED vars
  <2>1. Stored' = Stored /\ InMotion' /\ FoldedIsBase'
    BY <1>1, SwapKept DEF vars
  <2> QED BY <1>1, <2>1
          DEF PipelineInv, InThePast, Versioned, RunBacked, RunPhase,
              NoSilentGap, WatermarkIsStored, Missing, Lost, Pending, vars
<1>2. CASE Tick
  <2>1. Stored' = Stored /\ InMotion' /\ FoldedIsBase'
    BY <1>2, SwapKept DEF Tick, swap
  <2> QED BY <1>2, <1>n, <2>1
          DEF PipelineInv, InThePast, Versioned, RunBacked, RunPhase, NoSilentGap,
              WatermarkIsStored, Missing, Lost, Pending, Tick, run, Numbers
<1>3. ASSUME NEW s \in Stations, NEW t \in Times, Report(s, t)
      PROVE  PipelineInv'
  <2>1. \A u \in Stations, v \in Times :
           upstream'[u][v] = IF u = s /\ v = t THEN upstream[s][t] + 1
                             ELSE upstream[u][v]
    BY <1>3 DEF Report, TypeOK, Data
  <2>2. /\ Stored' = Stored /\ InMotion' /\ FoldedIsBase'
        /\ Pending' = Pending
    BY <1>3, SwapKept DEF Report, run, swap, Pending
  <2>u. UNCHANGED <<now, marks, job, todo, fetched, mem, lost>>
    BY <1>3 DEF Report, run
  <2>3. InThePast'
    <3>1. t <= now /\ \A u \in Stations, v \in Times : upstream[u][v] # None => v <= now
      BY <1>3 DEF Report, PipelineInv, InThePast
    <3>2. \A u \in Stations, v \in Times : upstream'[u][v] # None => v <= now
      BY <2>1, <3>1
    <3> QED BY <2>u, <3>2 DEF PipelineInv, InThePast
  <2>4. Versioned'
    <3>1. \A u \in Stations, v \in Times :
             upstream'[u][v] \in Nat /\ upstream[u][v] <= upstream'[u][v]
      BY <1>v, <2>1
    <3> HIDE <2>1
    <3> QED BY <1>v, <2>2, <2>u, <3>1 DEF Versioned
  <2>5. t > now - Window /\ t \in Nat
    BY <1>3, <1>n DEF Report, Numbers
  <2>6. RunBacked'
    <3> SUFFICES ASSUME job \in {"poll", "save"}
                 PROVE  RunBacked'
      BY <2>u DEF RunBacked
    <3>1. \A u \in Stations : mem[u].watermark <= now
      BY DEF PipelineInv, InThePast
    <3>2. \A u \in Stations, v \in Times :
             v <= mem[u].watermark - Window => upstream'[u][v] = upstream[u][v]
      BY <1>n, <2>1, <2>5, <3>1 DEF Numbers
    <3> QED BY <2>2, <2>u, <3>2 DEF PipelineInv, RunBacked, Missing, Lost
  <2>7. NoSilentGap'
    <3>1. \A u \in Stations, v \in Times :
             v <= marks[u].watermark - Window => upstream'[u][v] = upstream[u][v]
      BY <1>n, <2>1, <2>5 DEF PipelineInv, InThePast, Numbers
    <3> QED BY <2>2, <2>u, <3>1 DEF PipelineInv, NoSilentGap, Lost
  <2>8. WatermarkIsStored' /\ RunPhase'
    BY <2>2, <2>u DEF PipelineInv, WatermarkIsStored, RunPhase, Lost
  <2> QED BY <2>2, <2>3, <2>4, <2>6, <2>7, <2>8 DEF PipelineInv
<1>4. CASE Refresh
  <2>1. Stored' = Stored /\ InMotion' /\ FoldedIsBase'
    BY <1>4, SwapKept DEF Refresh, swap
  <2> QED BY <1>4, <2>1
          DEF PipelineInv, InThePast, Versioned, RunBacked, RunPhase, NoSilentGap,
              WatermarkIsStored, Missing, Lost, Pending, Refresh, service, run
<1>5. CASE StartAppend
  <2>1. Stored' = Stored /\ InMotion' /\ FoldedIsBase'
    BY <1>5, SwapKept DEF StartAppend, swap
  <2>2. \A s \in Stations, t \in Times :
           fetched'[s][t] = None /\ Pending'[s][t] = Stored[s][t]
    BY <1>5, <2>1, NoDataAt DEF StartAppend, Layers
  <2>4. /\ mem' = marks /\ job' = "poll"
        /\ UNCHANGED <<now, upstream, marks, lost>>
    BY <1>5 DEF StartAppend, service
  <2>3. Versioned'
    BY <1>n, <2>1, <2>2, <2>4 DEF PipelineInv, Versioned, Numbers, None
  <2>5. \A s \in Stations :
           marks[s].watermark # NoTime =>
               \/ Pending'[s][marks[s].watermark] # None
               \/ Missing(s, marks[s].watermark)'
    <3>1. \A s \in Stations :
             marks[s].watermark # NoTime => marks[s].watermark \in Times
      BY <1>n DEF Numbers, Times, NoTime
    <3> QED BY <2>2, <2>4, <3>1 DEF PipelineInv, WatermarkIsStored, Missing, Lost
  <2>6. RunBacked'
    BY <2>2, <2>4, <2>5 DEF PipelineInv, NoSilentGap, RunBacked, Missing, Lost
  <2>7. NoSilentGap' /\ WatermarkIsStored' /\ RunPhase' /\ InThePast'
    BY <2>1, <2>4
    DEF PipelineInv, InThePast, NoSilentGap, WatermarkIsStored, RunPhase, Lost
  <2> QED BY <2>1, <2>3, <2>6, <2>7 DEF PipelineInv
<1>6. ASSUME NEW s \in Stations, PollRows(s) PROVE PipelineInv'
  <2>1. PICK last \in Answer(s) :
           /\ \A t \in Answer(s) : t <= last
           /\ mem' = [mem EXCEPT ![s] =
                         [watermark |-> Later(mem[s].watermark, last),
                          consecutive_failures |-> 0]]
    BY <1>6 DEF PollRows
  <2>2. /\ UNCHANGED <<upstream, marks, now, job, base, delta, lost>>
        /\ job = "poll" /\ s \in todo
        /\ todo' = todo \ {s}
    BY <1>6 DEF PollRows, service
  <2>a. Stored' = Stored /\ InMotion' /\ FoldedIsBase'
    BY <1>6, SwapKept DEF PollRows, swap
  <2>3. \A u \in Stations, t \in Times :
           fetched'[u][t] = IF u # s THEN fetched[u][t]
                            ELSE IF t \in Answer(s) THEN upstream[s][t]
                            ELSE None
    BY <1>6 DEF PollRows, TypeOK, Data
  <2>4. /\ mem'[s].watermark = Later(mem[s].watermark, last)
        /\ \A u \in Stations \ {s} : mem'[u] = mem[u]
    BY <2>1 DEF TypeOK, Marks
  <2>5. \A t \in Answer(s) : t \in Times /\ upstream[s][t] # None
    BY DEF Answer
  <2>6. InThePast'
    <3>1. last <= now
      BY <2>5 DEF PipelineInv, InThePast
    <3>2. mem'[s].watermark <= now
      BY <2>2, <2>4, <3>1 DEF PipelineInv, InThePast, Later
    <3> QED BY <2>2, <2>4, <3>2 DEF PipelineInv, InThePast
  <2>7. Versioned'
    BY <1>v, <2>2, <2>3, <2>a DEF Versioned, None
  <2>8. \A t \in Times :
           Pending'[s][t] = IF t \in Answer(s) THEN upstream[s][t]
                            ELSE Stored[s][t]
    BY <2>2, <2>3, <2>5, <2>a DEF Layers
  <2>9. \A u \in Stations \ {s}, t \in Times :
           Pending'[u][t] = Pending[u][t] /\ Missing(u, t)' = Missing(u, t)
    BY <2>2, <2>3, <2>a DEF Layers, Missing, Lost
  <2>b. \A t \in Times \ Answer(s) : Missing(s, t)' = Lost(s, t)
    BY <2>2, <2>3 DEF Missing, Lost
  <2>10. mem'[s].watermark # NoTime =>
            \/ Pending'[s][mem'[s].watermark] # None
            \/ Missing(s, mem[s].watermark)' /\ mem'[s].watermark = mem[s].watermark
    <3>1. CASE mem'[s].watermark = last
      BY <2>5, <2>8, <3>1
    <3>2. CASE mem'[s].watermark = marks[s].watermark /\ mem[s].watermark = marks[s].watermark
      <4>1. mem'[s].watermark # NoTime => mem'[s].watermark \in Times
        BY <1>n, <2>4 DEF Numbers, Times, NoTime
      <4> QED BY <2>5, <2>8, <2>b, <3>2, <4>1 DEF PipelineInv, WatermarkIsStored
    <3> QED BY <2>2, <2>4, <3>1, <3>2 DEF PipelineInv, RunBacked, Later
  <2>11. \A t \in Times :
            upstream[s][t] # None /\ t <= mem'[s].watermark - Window =>
                Pending'[s][t] = upstream[s][t] \/ Missing(s, t)'
    <3> SUFFICES ASSUME NEW t \in Times, upstream[s][t] # None
                 PROVE  Pending'[s][t] = upstream[s][t] \/ Missing(s, t)'
      OBVIOUS
    <3>1. CASE InWindow(s, t)
      BY <2>8, <3>1 DEF Answer
    <3>2. CASE ~ InWindow(s, t)
      <4>1. t <= marks[s].watermark - Window /\ t \notin Answer(s)
        BY <1>n, <3>2 DEF InWindow, Answer, Numbers
      <4> QED BY <2>8, <2>b, <4>1 DEF PipelineInv, NoSilentGap
    <3> QED BY <3>1, <3>2
  <2>c. \A t \in Times :
            fetched'[s][t] # None => t > marks[s].watermark - Window
    <3> SUFFICES ASSUME NEW t \in Answer(s), t \in Times
                 PROVE  t > marks[s].watermark - Window
      BY <2>3
    <3>1. t \in Nat \ {0} /\ marks[s].watermark \in Nat /\ Window \in Nat
      BY <1>n DEF Numbers
    <3> QED BY <3>1 DEF Answer, InWindow, NoTime
  <2>12. RunBacked'
    <3>1. ASSUME NEW u \in Stations, u # s
          PROVE  /\ u \in todo' => mem'[u].watermark = marks'[u].watermark
                 /\ mem'[u].watermark # NoTime =>
                       \/ Pending'[u][mem'[u].watermark] # None
                       \/ Missing(u, mem[u].watermark)' /\ mem'[u] = mem[u]
                 /\ \A t \in Times :
                       /\ upstream'[u][t] # None
                            /\ t <= mem'[u].watermark - Window
                          => Pending'[u][t] = upstream'[u][t] \/ Missing(u, t)'
                       /\ fetched'[u][t] # None => t > marks'[u].watermark - Window
      <4>1. mem[u].watermark # NoTime => mem[u].watermark \in Times
        BY <1>n DEF Numbers, Times, NoTime
      <4> QED BY <2>2, <2>3, <2>4, <2>9, <3>1, <4>1 DEF PipelineInv, RunBacked
    <3> QED BY <2>2, <2>10, <2>11, <2>c, <3>1 DEF RunBacked, Missing, Lost
  <2>13. NoSilentGap' /\ WatermarkIsStored' /\ RunPhase'
    BY <2>2, <2>a DEF PipelineInv, NoSilentGap, WatermarkIsStored, RunPhase, Lost
  <2> QED BY <2>6, <2>7, <2>12, <2>13, <2>a DEF PipelineInv
<1>7. ASSUME NEW s \in Stations, PollNothing(s) \/ PollError(s)
      PROVE  PipelineInv'
  <2>1. /\ Stored' = Stored /\ InMotion' /\ FoldedIsBase'
        /\ Pending' = Pending
    BY <1>7, SwapKept DEF PollNothing, PollError, Pending, swap
  <2>2. \A u \in Stations : mem'[u].watermark = mem[u].watermark
    <3>1. CASE PollNothing(s)
      BY <3>1 DEF PollNothing, TypeOK, Marks
    <3>2. CASE PollError(s)
      BY <3>2 DEF PollError, TypeOK, Marks
    <3> QED BY <1>7, <3>1, <3>2
  <2>3. todo' \subseteq todo
    BY <1>7 DEF PollNothing, PollError
  <2>4. job = "poll" /\ UNCHANGED <<now, upstream, marks, job, fetched, lost>>
    BY <1>7 DEF PollNothing, PollError, service
  <2> QED BY <2>1, <2>2, <2>3, <2>4
          DEF PipelineInv, InThePast, Versioned, RunBacked, RunPhase,
              NoSilentGap, WatermarkIsStored, Missing, Lost
<1>8. CASE WriteDelta
  <2>0. /\ UNCHANGED <<now, upstream, base, marks, todo, mem, periods, period, moving>>
        /\ job = "poll" /\ job' = "save" /\ todo = {}
        /\ lost' = {r \in lost : fetched[r[1]][r[2]] = None}
        /\ fetched' = NoData
    BY <1>8 DEF WriteDelta, service, swap
  <2>1. \A s \in Stations, t \in Times :
           /\ Staged(s, t)' = IF fetched[s][t] # None THEN fetched[s][t]
                              ELSE Staged(s, t)
           /\ fetched'[s][t] = None
    <3>1. \A s \in Stations, t \in Times : fetched'[s][t] = None
      BY <2>0, NoDataAt
    <3>2. CASE fetched = NoData
      <4>1. delta' = delta
        BY <1>8, <3>2 DEF WriteDelta
      <4> QED BY <3>1, <3>2, <4>1, NoDataAt, StagedSame
    <3>3. CASE fetched # NoData
      <4>1. delta' = Append(delta, fetched) /\ delta \in Seq(Data) /\ fetched \in Data
        BY <1>8, <3>3 DEF WriteDelta, TypeOK
      <4> QED BY <3>1, <4>1, StagedLast
    <3> QED BY <3>2, <3>3
  <2>2. \A s \in Stations, t \in Times :
           /\ Stored'[s][t] = Pending[s][t]
           /\ Pending'[s][t] = Pending[s][t]
    BY <2>0, <2>1 DEF Layers
  <2>l. \A s \in Stations, t \in Times :
           Missing(s, t)' = Missing(s, t) /\ Lost(s, t)' = Missing(s, t)
    BY <2>0, <2>1 DEF Missing, Lost
  <2>3. Versioned'
    BY <1>n, <2>0, <2>1, <2>2
    DEF PipelineInv, Versioned, Layers, Numbers, None
  <2>4. \A s \in Stations :
           /\ mem[s].watermark # NoTime => mem[s].watermark \in Times
           /\ marks[s].watermark # NoTime => marks[s].watermark \in Times
    BY <1>n DEF Numbers, Times, NoTime
  <2>5. RunBacked'
    BY <2>0, <2>1, <2>2, <2>4, <2>l DEF PipelineInv, RunBacked
  <2>6. RunPhase' /\ InThePast'
    BY <2>0 DEF PipelineInv, InThePast, RunPhase
  <2>7. InMotion' /\ FoldedIsBase'
    BY <2>0 DEF PipelineInv, InMotion, FoldedIsBase, Swapping
  <2>8. NoSilentGap'
    <3> SUFFICES ASSUME NEW s \in Stations, NEW t \in Times,
                        upstream[s][t] # None, t <= marks[s].watermark - Window
                 PROVE  Stored'[s][t] = upstream[s][t] \/ Lost(s, t)'
      BY <2>0 DEF NoSilentGap
    <3>1. fetched[s][t] = None
      <4>1. t \in Nat /\ marks[s].watermark \in Nat
        BY <1>n DEF Numbers
      <4> QED BY <2>0, <4>1 DEF PipelineInv, RunBacked
    <3> QED BY <2>2, <2>l, <3>1 DEF Layers, PipelineInv, NoSilentGap, Missing
  <2>9. WatermarkIsStored'
    BY <2>0, <2>2, <2>4, <2>l
    DEF PipelineInv, WatermarkIsStored, Layers, Missing
  <2> QED BY <2>3, <2>5, <2>6, <2>7, <2>8, <2>9 DEF PipelineInv
<1>9. CASE SaveMarks
  <2>1. /\ Stored' = Stored /\ InMotion' /\ FoldedIsBase'
        /\ Pending' = Pending
    BY <1>9, SwapKept DEF SaveMarks, run, Pending, swap
  <2>2. \A s \in Stations, t \in Times :
           Pending[s][t] = Stored[s][t] /\ fetched[s][t] = None
    BY <1>9, NoDataAt DEF SaveMarks, PipelineInv, RunPhase, Layers
  <2>3. \A s \in Stations :
           mem[s].watermark # NoTime => mem[s].watermark \in Times
    BY <1>n DEF Numbers, Times, NoTime
  <2>0. /\ job = "save" /\ job' = "none" /\ marks' = mem
        /\ UNCHANGED <<now, upstream, todo, fetched, mem, lost>>
    BY <1>9 DEF SaveMarks, service, run
  <2>4. NoSilentGap'
    BY <2>0, <2>1, <2>2
    DEF PipelineInv, RunBacked, NoSilentGap, Missing, Lost
  <2>5. WatermarkIsStored'
    BY <2>0, <2>1, <2>2, <2>3
    DEF PipelineInv, RunBacked, WatermarkIsStored, Missing, Lost
  <2> QED BY <2>0, <2>1, <2>4, <2>5
          DEF PipelineInv, InThePast, Versioned, RunBacked, RunPhase
<1>10. CASE CompactStep
  <2>1. CompactStep /\ lost \subseteq lost'
    BY <1>10, CompactionKeeps
  <2> QED BY <1>n, <1>10, <2>1, CompactionKeeps, NothingNewStored
<1>11. CASE Crash
  <2>1. /\ UNCHANGED <<now, upstream, marks>>
        /\ job' = "none" /\ fetched' = NoData
        /\ lost' = lost \cup OnlyMoving
    BY <1>11 DEF Crash, service
  <2>2. \A s \in Stations, t \in Times :
           \/ Stored'[s][t] = Stored[s][t]
           \/ Stored'[s][t] = None /\ <<s, t>> \in lost'
    BY <1>11, <2>1, CrashLoses
  <2>3. InMotion' /\ FoldedIsBase' /\ lost \subseteq lost'
    BY <1>11, <2>1, CrashLoses
  <2>4. job' \notin {"poll", "save"}
    BY <2>1
  <2> QED BY <1>n, <2>1, <2>2, <2>3, <2>4, NothingNewStored
<1> QED BY <1>1, <1>2, <1>3, <1>4, <1>5, <1>6, <1>7, <1>8, <1>9, <1>10, <1>11
        DEF Next, JobStep, CompactStep

LEMMA PipelineInvariant == SortedListing => (Spec => []PipelineInv)
<1> SUFFICES ASSUME SortedListing PROVE Spec => []PipelineInv
  OBVIOUS
<1>1. Init => PipelineInv
  <2> SUFFICES ASSUME Init PROVE PipelineInv
    OBVIOUS
  <2>0. \A s \in Stations, t \in Times : Staged(s, t) = None
    BY DEF Init, Staged, Holding
  <2>1. \A s \in Stations, t \in Times :
           /\ Stored[s][t] = None /\ fetched[s][t] = None
           /\ moving[s][t] = None /\ base[s][t] = None
           /\ upstream[s][t] = None
    BY <2>0, LayersHold, NoDataAt DEF Init, Layers
  <2> QED BY <2>0, <2>1, PipelineAssumption
          DEF Init, PipelineInv, InThePast, Versioned, RunBacked, RunPhase,
              InMotion, FoldedIsBase, Swapping, NoSilentGap, WatermarkIsStored,
              None, NoTime
<1>2. TypeOK /\ TypeOK' /\ PipelineInv /\ [Next]_vars => PipelineInv'
  BY PipelineInvStep
<1> QED BY <1>1, <1>2, PipelineTypeOK, PTL DEF Spec

(* Whatever lies behind a saved watermark by more than the revision window  *)
(* is in the mirror in the service's latest version, or was taken by a      *)
(* death inside a swap (compact.py:140-150) and not fetched again since:    *)
(* for any number of stations, layout, window and schedule of polls,        *)
(* errors, crashes between any two steps and compactions, where deltas are  *)
(* dropped oldest first (append and compact, cli.py:349-484).               *)
THEOREM NothingIsSkipped == SortedListing => (Spec => []NoSilentGap)
<1> SUFFICES ASSUME SortedListing PROVE Spec => []NoSilentGap
  OBVIOUS
<1>1. PipelineInv => NoSilentGap
  BY DEF PipelineInv
<1> QED BY <1>1, PipelineInvariant, PTL

(* A saved watermark names an observation the mirror holds, or one a death  *)
(* inside a swap took: write_delta comes before marks.save, no crash        *)
(* between them undoes it, and a row whose delta is long dropped is in its  *)
(* partition or in the files being moved there.                             *)
THEOREM WatermarksAreBacked == SortedListing => (Spec => []WatermarkIsStored)
<1> SUFFICES ASSUME SortedListing PROVE Spec => []WatermarkIsStored
  OBVIOUS
<1>1. PipelineInv => WatermarkIsStored
  BY DEF PipelineInv
<1> QED BY <1>1, PipelineInvariant, PTL

(* No step of append or compact replaces a stored row by an older version   *)
(* or loses one, be it the re-read of the window, a delete or a move of the *)
(* swap, or the drop of one delta among several, but for a death inside the *)
(* swap of the row's own period, which takes rows no delta has any more.    *)
THEOREM MirrorNeverGoesBack == SortedListing => (Spec => NeverOlder)
<1> SUFFICES ASSUME SortedListing PROVE Spec => NeverOlder
  OBVIOUS
<1>1. TypeOK /\ TypeOK' /\ PipelineInv /\ PipelineInv' /\ [Next]_vars =>
        [\A s \in Stations, t \in Times :
            Stored'[s][t] >= Stored[s][t] \/ TornSwap(s, t)]_vars
  <2> SUFFICES ASSUME TypeOK, TypeOK', PipelineInv, PipelineInv', [Next]_vars,
                      NEW s \in Stations, NEW t \in Times
               PROVE  Stored'[s][t] >= Stored[s][t] \/ TornSwap(s, t)
    OBVIOUS
  <2>n. Numbers /\ Numbers'
    <3>1. TypeOK' => Numbers'
      BY NumbersHold, PTL
    <3> QED BY <3>1, NumbersHold
  <2>0. Stored[s][t] \in Nat
    BY <2>n DEF Numbers
  <2> USE LayersHold, LayersHoldNext
  <2>1. CASE UNCHANGED <<base, delta, moving>>
    <3>1. Stored'[s][t] = Stored[s][t]
      BY <2>1, StagedSame DEF Layers
    <3> QED BY <2>0, <3>1
  <2>2. CASE WriteDelta
    <3>1. CASE fetched = NoData
      <4>1. UNCHANGED <<base, delta, moving>>
        BY <2>2, <3>1 DEF WriteDelta, swap
      <4> QED BY <2>1, <4>1
    <3>2. CASE fetched # NoData
      <4>1. /\ delta' = Append(delta, fetched) /\ UNCHANGED <<base, moving>>
            /\ delta \in Seq(Data) /\ fetched \in Data
        BY <2>2, <3>2 DEF WriteDelta, TypeOK, swap
      <4>2. Staged(s, t)' = IF fetched[s][t] # None THEN fetched[s][t]
                            ELSE Staged(s, t)
        BY <4>1, StagedLast
      <4>3. Stored'[s][t] = Pending[s][t]
        BY <4>1, <4>2 DEF Layers
      <4>4. /\ Pending[s][t] = IF fetched[s][t] # None THEN fetched[s][t]
                               ELSE Stored[s][t]
            /\ fetched[s][t] # None => Stored[s][t] <= fetched[s][t]
            /\ fetched[s][t] \in Nat
        BY <2>n DEF Layers, PipelineInv, Versioned, Numbers
      <4> QED BY <2>0, <4>3, <4>4
    <3> QED BY <3>1, <3>2
  <2>3. CASE CompactStep
    <3>1. Stored'[s][t] = Stored[s][t]
      BY <2>3, CompactionKeeps
    <3> QED BY <2>0, <3>1
  <2>4. CASE Crash
    <3>1. CASE Stored'[s][t] = Stored[s][t]
      BY <2>0, <3>1
    <3>2. CASE <<s, t>> \in OnlyMoving
      <4>1. moving[s][t] # None /\ Staged(s, t) = None
        BY <3>2 DEF OnlyMoving, RowsOf
      <4> QED BY <2>4, <4>1 DEF PipelineInv, InMotion, Swapping, TornSwap
    <3> QED BY <2>4, <3>1, <3>2, CrashLoses
  <2> QED
    BY <2>1, <2>2, <2>3, <2>4
    DEF Next, JobStep, CompactStep, vars, swap, Tick, Report, Refresh,
        StartAppend, PollRows, PollNothing, PollError, SaveMarks
<1> QED BY <1>1, PipelineTypeOK, PipelineInvariant, PTL DEF Spec, NeverOlder
===============================================================================
