----------------------------- MODULE FetchProofs ------------------------------
(***************************************************************************)
(* Requests: what the pool of threads keeps of the rate limit and of the   *)
(* failures, for any number of threads, stations and windows, and what the *)
(* windows of one station return, for any range and length of the chunks.  *)
(* ChunkedFetch has names of its own, so both can be extended here.        *)
(***************************************************************************)
EXTENDS Fetch, ChunkedFetch, FiniteSetTheorems, TLAPS

-------------------------------------------------------------------------------
(* The rate.  Each reserved slot moves `next` by an interval and each       *)
(* request fills the bucket by one, so bucket and reservations together     *)
(* stay within an interval a thread of `next` (Backlog).  And `next` cannot *)
(* run ahead of the reservations: counting back from it in intervals, every *)
(* slot that is not due yet has a thread asleep for it (Spaced).            *)

Pending == {w \in Workers : phase[w] = "slot"}

Backlog ==
    burst + Interval * Cardinality(Pending)
        <= next + Interval * Cardinality(Workers)

Spaced ==
    \A j \in Nat \ {0} :
        next - j * Interval > 0 =>
            \E w \in Pending : timer[w] = next - j * Interval

(* A thread that is not idle has a station and one of its windows.          *)
Busy ==
    \A w \in Workers :
        phase[w] # "idle" => on[w] \in Targets /\ on[w] \notin queue

RateInv == TypeOK /\ Busy /\ Backlog /\ Spaced

-------------------------------------------------------------------------------
LEMMA PendingFinite == IsFiniteSet(Pending) /\ Cardinality(Pending) \in Nat
BY FetchAssumption, FS_Subset, FS_CardinalityType DEF Pending

LEMMA FewAhead ==
    ASSUME TypeOK, Spaced
    PROVE  next <= Interval * (Cardinality(Pending) + 1)
<1> DEFINE n == Cardinality(Pending) + 1
           ahead == [j \in 1 .. n |->
                        CHOOSE w \in Pending : timer[w] = next - j * Interval]
<1>1. n \in Nat /\ Interval \in Nat /\ next \in Nat
    BY PendingFinite, FetchAssumption DEF TypeOK
<1> SUFFICES ASSUME n * Interval < next PROVE FALSE
    BY <1>1
<1>2. ASSUME NEW j \in 1 .. n
      PROVE  ahead[j] \in Pending /\ timer[ahead[j]] = next - j * Interval
  <2>1. j * Interval <= n * Interval
    BY <1>1
  <2>2. next - j * Interval > 0
    BY <1>1, <2>1
  <2> QED
    BY <2>2 DEF Spaced
<1>3. ahead \in Injection(1 .. n, Pending)
  <2>1. ASSUME NEW i \in 1 .. n, NEW j \in 1 .. n, ahead[i] = ahead[j]
        PROVE  i = j
    <3>1. next - i * Interval = next - j * Interval
      BY <1>2, <2>1
    <3>2. i * Interval = j * Interval
      BY <3>1, <1>1
    <3> QED
      BY <3>2, FetchAssumption
  <2> QED
    BY <1>2, <2>1 DEF Injection, IsInjective
<1>4. IsFiniteSet(1 .. n) /\ Cardinality(1 .. n) = n
    BY <1>1, FS_Interval
<1>5. n <= Cardinality(Pending)
    BY <1>3, <1>4, PendingFinite, FS_Injection
<1> QED
    BY <1>5, PendingFinite

-------------------------------------------------------------------------------
LEMMA TypeAndBusy == TypeOK /\ Busy /\ [Next]_vars => TypeOK' /\ Busy'
<1> SUFFICES ASSUME TypeOK, Busy, [Next]_vars PROVE TypeOK' /\ Busy'
    OBVIOUS
<1> USE FetchAssumption DEF TypeOK, Busy
<1>1. CASE Tick
    BY <1>1 DEF Tick, Down
<1>2. ASSUME NEW w \in Workers, NEW t \in Targets, Take(w, t)
      PROVE  TypeOK' /\ Busy'
    BY <1>2 DEF Take
<1>3. ASSUME NEW w \in Workers, Acquire(w) \/ Send(w) \/ Wake(w)
      PROVE  TypeOK' /\ Busy'
    BY <1>3 DEF Acquire, Send, Wake
<1>4. ASSUME NEW w \in Workers, NEW down \in BOOLEAN, Finished(w, down),
             phase[w] = "request", UNCHANGED <<queue, timer, next, burst>>
      PROVE  TypeOK' /\ Busy'
  <2>1. on[w] \in Targets /\ errors' \in [Targets -> SUBSET Nat]
    BY <1>4 DEF Finished
  <2>2. /\ landed' \in [Targets -> {"no", "ok", "error"}]
        /\ window' \in [Workers -> Nat]
    BY <1>4, <2>1 DEF Finished
  <2>3. /\ phase' \in [Workers -> {"idle", "call", "slot", "request", "backoff"}]
        /\ on' \in [Workers -> Targets \cup {NoTarget}]
        /\ attempt' \in [Workers -> 0 .. MaxRetries]
        /\ fails500' \in [Workers -> Nat]
    BY <1>4, <2>1 DEF Finished
  <2>4. Busy'
    BY <1>4, <2>1 DEF Finished
  <2> QED
    BY <1>4, <2>1, <2>2, <2>3, <2>4
<1>5. ASSUME NEW w \in Workers, NEW is500 \in BOOLEAN, Retry(w, is500)
      PROVE  TypeOK' /\ Busy'
    BY <1>5 DEF Retry, Exhausted, Limit, MaxAttempts500
<1>6. CASE UNCHANGED vars
    BY <1>6 DEF vars
<1> QED
    BY <1>1, <1>2, <1>3, <1>4, <1>5, <1>6 DEF Next, Thread, Answer, GiveUp

LEMMA RateInductive == RateInv /\ [Next]_vars => Backlog' /\ Spaced'
<1> SUFFICES ASSUME RateInv, [Next]_vars PROVE Backlog' /\ Spaced'
    OBVIOUS
<1> DEFINE P == Cardinality(Pending)
           W == Cardinality(Workers)
<1>1. /\ next \in Nat /\ burst \in Nat /\ Interval \in Nat /\ Interval > 0
      /\ timer \in [Workers -> Nat] /\ P \in Nat /\ W \in Nat
    BY FetchAssumption, PendingFinite, FS_CardinalityType DEF RateInv, TypeOK
<1>2. CASE Tick
  <2>1. Pending' = Pending
    BY <1>2 DEF Tick, Pending
  <2>2. Backlog'
    <3>1. Interval * P <= Interval * W
      <4>1. P <= W
        BY FetchAssumption, FS_Subset DEF Pending
      <4> QED
        BY <1>1, <4>1
    <3>2. /\ burst' \in Nat /\ next' \in Nat
          /\ burst' = 0 \/ burst' = burst - 1
          /\ next' = (IF next = 0 THEN 0 ELSE next - 1)
          /\ burst' = (IF burst = 0 THEN 0 ELSE burst - 1)
      BY <1>1, <1>2 DEF Tick, Down
    <3>3. Interval * P \in Nat /\ Interval * W \in Nat
      BY <1>1
    <3>4. burst + Interval * P <= next + Interval * W
      BY DEF RateInv, Backlog
    <3>5. burst' + Interval * P <= next' + Interval * W
      BY <1>1, <3>1, <3>2, <3>3, <3>4
    <3> QED
      BY <2>1, <3>5 DEF Backlog
  <2>3. Spaced'
    <3> SUFFICES ASSUME NEW j \in Nat \ {0}, next' - j * Interval > 0
                 PROVE  \E w \in Pending : timer'[w] = next' - j * Interval
      BY <2>1 DEF Spaced
    <3>1. j * Interval \in Nat
      BY <1>1
    <3>2. next' = next - 1 /\ next - j * Interval > 1
      BY <1>1, <1>2, <3>1 DEF Tick, Down
    <3>3. PICK w \in Pending : timer[w] = next - j * Interval
      BY <1>1, <3>1, <3>2 DEF RateInv, Spaced
    <3>4. timer'[w] = timer[w] - 1
      BY <1>1, <1>2, <3>1, <3>2, <3>3 DEF Tick, Down, Pending
    <3> QED
      BY <1>1, <3>1, <3>2, <3>3, <3>4
  <2> QED
    BY <2>2, <2>3
<1>3. ASSUME NEW v \in Workers, Acquire(v) PROVE Backlog' /\ Spaced'
  <2>1. /\ phase[v] = "call" /\ next' = next + Interval /\ burst' = burst
        /\ timer' = [timer EXCEPT ![v] = next]
        /\ phase' = [phase EXCEPT ![v] = "slot"]
    BY <1>3 DEF Acquire
  <2>2. Pending' = Pending \cup {v} /\ v \notin Pending
    BY <2>1 DEF Pending, RateInv, TypeOK
  <2>3. Cardinality(Pending') = P + 1
    BY <2>2, PendingFinite, FS_AddElement
  <2>4. Interval * (P + 1) = Interval * P + Interval
    BY <1>1
  <2>5. Backlog'
    <3>1. Interval * P \in Nat /\ Interval * W \in Nat
      BY <1>1
    <3>2. burst + Interval * P <= next + Interval * W
      BY DEF RateInv, Backlog
    <3>3. burst' + Interval * (P + 1) <= next' + Interval * W
      BY <1>1, <2>1, <2>4, <3>1, <3>2
    <3> QED
      BY <2>3, <3>3 DEF Backlog
  <2>6. Spaced'
    <3> SUFFICES ASSUME NEW j \in Nat \ {0}, next' - j * Interval > 0
                 PROVE  \E w \in Pending' : timer'[w] = next' - j * Interval
      BY DEF Spaced
    <3>1. CASE j = 1
      BY <1>1, <2>1, <2>2, <3>1
    <3>2. CASE j # 1
      <4>1. /\ j - 1 \in Nat \ {0}
            /\ (j - 1) * Interval = j * Interval - Interval
            /\ j * Interval \in Nat
        BY <1>1, <3>2
      <4>2. /\ next - (j - 1) * Interval > 0
            /\ next - (j - 1) * Interval = next' - j * Interval
        BY <1>1, <2>1, <4>1
      <4>3. PICK w \in Pending : timer[w] = next - (j - 1) * Interval
        BY <4>1, <4>2 DEF RateInv, Spaced
      <4>4. w # v /\ timer'[w] = timer[w]
        BY <1>1, <2>1, <2>2 DEF Pending
      <4> QED
        BY <2>2, <4>2, <4>3, <4>4
    <3> QED
      BY <3>1, <3>2
  <2> QED
    BY <2>5, <2>6
<1>4. ASSUME NEW v \in Workers, Send(v) PROVE Backlog' /\ Spaced'
  <2>1. /\ phase[v] = "slot" /\ timer[v] = 0 /\ burst' = burst + Interval
        /\ phase' = [phase EXCEPT ![v] = "request"]
        /\ UNCHANGED <<timer, next>>
    BY <1>4 DEF Send
  <2>2. Pending' = Pending \ {v} /\ v \in Pending
    BY <2>1 DEF Pending, RateInv, TypeOK
  <2>3. Cardinality(Pending') = P - 1
    BY <2>2, PendingFinite, FS_RemoveElement
  <2>4. Interval * (P - 1) = Interval * P - Interval
    BY <1>1
  <2>5. Backlog'
    <3>1. Interval * P \in Nat /\ Interval * W \in Nat
      BY <1>1
    <3>2. burst + Interval * P <= next + Interval * W
      BY DEF RateInv, Backlog
    <3>3. burst' + Interval * (P - 1) <= next' + Interval * W
      BY <1>1, <2>1, <2>4, <3>1, <3>2
    <3> QED
      BY <2>3, <3>3 DEF Backlog
  <2>6. Spaced'
    <3> SUFFICES ASSUME NEW j \in Nat \ {0}, next - j * Interval > 0
                 PROVE  \E w \in Pending' : timer[w] = next - j * Interval
      BY <2>1 DEF Spaced
    <3>1. PICK w \in Pending : timer[w] = next - j * Interval
      BY DEF RateInv, Spaced
    <3> QED
      BY <1>1, <2>1, <2>2, <3>1
  <2> QED
    BY <2>5, <2>6
<1>5. ASSUME Pending' = Pending, \A w \in Pending : timer'[w] = timer[w],
             UNCHANGED <<next, burst>>
      PROVE  Backlog' /\ Spaced'
    BY <1>5 DEF RateInv, Backlog, Spaced
<1>6. ASSUME NEW v \in Workers, NEW t \in Targets, Take(v, t)
      PROVE  Backlog' /\ Spaced'
    BY <1>5, <1>6 DEF Take, Pending, RateInv, TypeOK
<1>7. ASSUME NEW v \in Workers, NEW down \in BOOLEAN, phase[v] = "request",
             Finished(v, down), UNCHANGED <<queue, timer, next, burst>>
      PROVE  Backlog' /\ Spaced'
    BY <1>5, <1>7 DEF Finished, Pending, RateInv, TypeOK
<1>8. ASSUME NEW v \in Workers, NEW is500 \in BOOLEAN, Retry(v, is500)
      PROVE  Backlog' /\ Spaced'
    BY <1>5, <1>8 DEF Retry, Pending, RateInv, TypeOK
<1>9. ASSUME NEW v \in Workers, Wake(v) PROVE Backlog' /\ Spaced'
    BY <1>5, <1>9 DEF Wake, Pending, RateInv, TypeOK
<1>10. CASE UNCHANGED vars
    BY <1>5, <1>10 DEF vars, Pending
<1> QED
    BY <1>2, <1>3, <1>4, <1>6, <1>7, <1>8, <1>9, <1>10
    DEF Next, Thread, Answer, GiveUp

(* Whatever the service answers and however late threads wake, requests     *)
(* run ahead of the rate by at most one interval a thread and one more      *)
(* (ingest.py:51-68, 84-103).                                               *)
THEOREM RateIsKept == Spec => [](TypeOK /\ PoliteInBursts)
<1>1. Init => RateInv
  <2> SUFFICES ASSUME Init PROVE RateInv
    OBVIOUS
  <2>1. TypeOK /\ Busy
    BY FetchAssumption DEF Init, TypeOK, Busy
  <2>2. Pending = {}
    BY DEF Init, Pending
  <2>3. Cardinality(Pending) = 0 /\ Cardinality(Workers) \in Nat
    BY <2>2, FetchAssumption, FS_EmptySet, FS_CardinalityType
  <2>4. Backlog
    BY <2>3, FetchAssumption DEF Init, Backlog
  <2>5. Spaced
    BY FetchAssumption DEF Init, Spaced
  <2> QED
    BY <2>1, <2>4, <2>5 DEF RateInv
<1>2. RateInv /\ [Next]_vars => RateInv'
    BY TypeAndBusy, RateInductive DEF RateInv
<1>3. RateInv => TypeOK /\ PoliteInBursts
  <2> SUFFICES ASSUME RateInv PROVE PoliteInBursts
    BY DEF RateInv
  <2> DEFINE P == Cardinality(Pending)
             W == Cardinality(Workers)
  <2>1. /\ P \in Nat /\ W \in Nat /\ Interval \in Nat
        /\ burst \in Nat /\ next \in Nat
    BY FetchAssumption, PendingFinite, FS_CardinalityType DEF RateInv, TypeOK
  <2>2. next <= Interval * (P + 1)
    BY FewAhead DEF RateInv
  <2>3. burst + Interval * P <= next + Interval * W
    BY DEF RateInv, Backlog
  <2>4. /\ Interval * (P + 1) = Interval * P + Interval
        /\ (W + 1) * Interval = Interval * W + Interval
        /\ Interval * P \in Nat /\ Interval * W \in Nat
    BY <2>1
  <2> QED
    BY <2>1, <2>2, <2>3, <2>4 DEF PoliteInBursts
<1> QED
    BY <1>1, <1>2, <1>3, PTL DEF Spec

-------------------------------------------------------------------------------
(* A station belongs to the queue, to one thread, or to the results.        *)
Owned ==
    /\ \A v, w \in Workers :
        phase[v] # "idle" /\ phase[w] # "idle" /\ on[v] = on[w] => v = w
    /\ \A t \in Targets : landed[t] # "no" =>
        t \notin queue /\ \A w \in Workers : phase[w] # "idle" => on[w] # t

FewFails ==
    \A w \in Workers : fails500[w] <= attempt[w] /\ fails500[w] <= 1

ResultInv == TypeOK /\ Busy /\ Owned /\ ErrorsSurface /\ FewFails

LEMMA ResultInductive ==
    ResultInv /\ [Next]_vars => Owned' /\ ErrorsSurface' /\ FewFails'
<1> SUFFICES ASSUME ResultInv, [Next]_vars
             PROVE  Owned' /\ ErrorsSurface' /\ FewFails'
    OBVIOUS
<1> USE DEF ResultInv
<1>1. ASSUME NEW v \in Workers, NEW t \in Targets, Take(v, t)
      PROVE  Owned' /\ ErrorsSurface' /\ FewFails'
    BY <1>1 DEF Take, TypeOK, Busy, Owned, ErrorsSurface, FewFails
<1>2. ASSUME NEW v \in Workers, NEW down \in BOOLEAN, phase[v] = "request",
             Finished(v, down), UNCHANGED <<queue, timer, next, burst>>
      PROVE  Owned' /\ ErrorsSurface' /\ FewFails'
  <2>1. /\ on[v] \in Targets /\ on[v] \notin queue
        /\ \A t \in Targets : t # on[v] =>
                landed'[t] = landed[t] /\ errors'[t] = errors[t]
        /\ \A w \in Workers : w # v =>
                phase'[w] = phase[w] /\ on'[w] = on[w]
        /\ attempt'[v] = 0 /\ fails500'[v] = 0
        /\ \A w \in Workers : w # v =>
                attempt'[w] = attempt[w] /\ fails500'[w] = fails500[w]
    BY <1>2 DEF Finished, TypeOK, Busy
  <2>2. CASE landed' = landed /\ on' = on /\ phase' = [phase EXCEPT ![v] = "call"]
    <3>1. landed[on[v]] = "no"
      BY <1>2 DEF Owned, TypeOK, Busy
    <3> QED
      BY <1>2, <2>1, <2>2, <3>1 DEF TypeOK, Owned, ErrorsSurface, FewFails
  <2>3. CASE /\ landed'[on[v]] = (IF errors'[on[v]] # {} THEN "error" ELSE "ok")
             /\ phase'[v] = "idle"
    <3>1. \A w \in Workers : phase'[w] # "idle" => on'[w] # on[v]
      BY <1>2, <2>1, <2>3 DEF Owned
    <3> QED
      BY <1>2, <2>1, <2>3, <3>1 DEF TypeOK, Owned, ErrorsSurface, FewFails
  <2> QED
    BY <1>2, <2>1, <2>2, <2>3 DEF Finished, TypeOK
<1>3. ASSUME NEW v \in Workers, NEW is500 \in BOOLEAN, Retry(v, is500)
      PROVE  Owned' /\ ErrorsSurface' /\ FewFails'
  <2>1. Owned' /\ ErrorsSurface'
    BY <1>3 DEF Retry, TypeOK, Owned, ErrorsSurface
  <2>2. is500 => attempt[v] = 0
    BY <1>3, FetchAssumption DEF Retry, Exhausted, Limit, MaxAttempts500, TypeOK
  <2>3. FewFails'
    BY <1>3, <2>2 DEF Retry, TypeOK, FewFails
  <2> QED
    BY <2>1, <2>3
<1>4. ASSUME NEW v \in Workers, Acquire(v) \/ Send(v) \/ Wake(v)
      PROVE  Owned' /\ ErrorsSurface' /\ FewFails'
    BY <1>4 DEF Acquire, Send, Wake, TypeOK, Owned, ErrorsSurface, FewFails
<1>5. CASE Tick \/ UNCHANGED vars
    BY <1>5 DEF Tick, vars, Owned, ErrorsSurface, FewFails
<1> QED
    BY <1>1, <1>2, <1>3, <1>4, <1>5 DEF Next, Thread, Answer, GiveUp

LEMMA ResultInvariant == Spec => []ResultInv
<1>1. Init => ResultInv
    BY FetchAssumption
    DEF Init, ResultInv, TypeOK, Busy, Owned, ErrorsSurface, FewFails
<1>2. ResultInv /\ [Next]_vars => ResultInv'
    BY TypeAndBusy, ResultInductive DEF ResultInv
<1> QED
    BY <1>1, <1>2, PTL DEF Spec

(* A station whose window failed for good is never reported as complete,    *)
(* although later windows of it succeed (ingest.py:203-225).                *)
THEOREM ResultsAreHonest == Spec => []ErrorsSurface
<1>1. ResultInv => ErrorsSurface
    BY DEF ResultInv
<1> QED
    BY <1>1, ResultInvariant, PTL

(* A 500 that repeats costs two requests, whatever other failures the       *)
(* request meets in between (ingest.py:73-77, 94-104).                      *)
THEOREM FiveHundredsAreRetriedOnce == Spec => []ReproducibleNotHammered
<1>1. ResultInv => ReproducibleNotHammered
    BY DEF ResultInv, TypeOK, FewFails, ReproducibleNotHammered, MaxAttempts500
<1> QED
    BY <1>1, ResultInvariant, PTL

-------------------------------------------------------------------------------
(* The windows of one station's backfill: nothing outside the range comes   *)
(* back, and everything in it but failed windows and seams does.            *)

(* What the walk has dealt with lies before `lo`, which the first window    *)
(* alone may include and which is a seam from then on.                      *)
WalkInv ==
    /\ lo \in Int
    /\ lo >= Start
    /\ first => lo = Start
    /\ ~ first => lo >= End \/ IsSeam(lo)
    /\ rows \subseteq obs
    /\ \A t \in rows : Start <= t /\ t < End
    /\ \A t \in obs : Start <= t /\ t < lo =>
          t \in rows \/ InFailed(t) \/ IsSeam(t)

Given ==
    /\ obs \subseteq Times
    /\ asked \in [from : Bounds, to : Bounds]
    /\ span \in [min : Times, max : Times]

LEMMA GivenStays == ChunkSpec => []Given
<1>1. ChunkInit => Given
  BY DEF ChunkInit, Given
<1>2. Given /\ [ChunkNext]_chunkVars => Given'
  BY DEF Given, ChunkNext, FetchWindow, FailWindow, Advance, chunkVars, given
<1> QED BY <1>1, <1>2, PTL DEF ChunkSpec

LEMMA RangeFacts ==
    ASSUME Given
    PROVE  /\ Start \in Int /\ End \in Int
           /\ Start >= asked.from /\ Start >= span.min
           /\ End <= asked.to /\ End <= span.max + 1
           /\ \A t \in Int : Requested(t) => Start <= t /\ t < End
  BY ChunkAssumption
  DEF Given, Start, End, ClipStart, ClipEnd, Lesser, Greater, Requested,
      Times, Bounds

LEMMA SeamFacts ==
    ASSUME NEW t \in Nat
    PROVE  NextSeam(t) \in Int /\ NextSeam(t) > t
  BY ChunkAssumption DEF NextSeam

(* One window: whatever it fetched or failed to fetch, and the seam before  *)
(* it, is all that lay between its bounds.                                  *)
LEMMA WindowStep ==
    ASSUME Given, WalkInv, Advance, FetchWindow \/ FailWindow
    PROVE  WalkInv'
<1>1. /\ Given' /\ Start' = Start /\ End' = End
      /\ \A t : IsSeam(t)' = IsSeam(t)
  BY DEF Advance, Given, given, Start, End, ClipStart, ClipEnd, IsSeam
<1>2. /\ lo \in Nat /\ lo < End /\ lo \in Times
      /\ NextSeam(lo) \in Int /\ NextSeam(lo) > lo
  <2>1. lo \in Nat /\ lo < End
    BY RangeFacts DEF WalkInv, Advance, Given, Times, Bounds
  <2>2. lo \in Times
    BY <2>1, RangeFacts, ChunkAssumption DEF Given, Times
  <2> QED BY <2>1, <2>2, SeamFacts
<1>3. /\ lo' \in Int /\ lo < lo' /\ lo' <= End
      /\ lo' = ChunkEnd(lo)
      /\ lo' >= End \/ IsSeam(lo')
  <2>1. lo' = Lesser(End, NextSeam(lo))
    BY DEF Advance, ChunkEnd
  <2> QED BY <1>2, <2>1, RangeFacts DEF Lesser, IsSeam, ChunkEnd
<1>4. \A t \in Times : lo < t /\ t < lo' => InWindow(t)
  BY <1>2, <1>3 DEF InWindow, Times
<1>5. first => \A t \in Times : lo <= t /\ t < lo' => InWindow(t)
  BY <1>2, <1>3 DEF InWindow, Times
<1>6. \A t \in Times : InWindow(t) => Start <= t /\ t < End
  BY <1>2, <1>3, RangeFacts DEF InWindow, WalkInv, Times
<1>7. \A t \in obs : lo <= t /\ t < lo' =>
         \/ t \in rows'
         \/ InFailed(t)'
         \/ IsSeam(t)
  <2> SUFFICES ASSUME NEW t \in obs, lo <= t, t < lo', ~ IsSeam(t)
               PROVE  t \in rows' \/ InFailed(t)'
    OBVIOUS
  <2>1. t \in Times /\ InWindow(t)
    <3>1. t \in Times /\ t \in Int /\ lo \in Int
      BY <1>2 DEF Given, Times
    <3>2. CASE t = lo
      <4>1. first
        <5>1. ~ IsSeam(lo)
          BY <3>2 DEF IsSeam
        <5>2. ~ (lo >= End)
          BY <1>2, RangeFacts
        <5> QED BY <5>1, <5>2 DEF WalkInv
      <4> QED BY <3>1, <4>1, <1>5
    <3>3. CASE t # lo
      BY <3>1, <3>3, <1>4
    <3> QED BY <3>1, <3>2, <3>3
  <2>2. CASE FetchWindow
    BY <2>1, <2>2 DEF FetchWindow
  <2>3. CASE FailWindow
    <3>1. <<lo, lo'>> \in failed'
      BY <1>3, <2>3 DEF FailWindow
    <3>2. <<lo, lo'>>[1] <= t /\ t < <<lo, lo'>>[2]
      OBVIOUS
    <3> QED BY <3>1, <3>2 DEF InFailed
  <2> QED BY <2>2, <2>3
<1>8. rows \subseteq rows' /\ failed \subseteq failed'
  BY DEF FetchWindow, FailWindow
<1>9. \A t \in obs : InFailed(t) => InFailed(t)'
  BY <1>8 DEF InFailed
<1>10. /\ rows' \subseteq obs'
       /\ \A t \in rows' : Start <= t /\ t < End
  <2>1. \A t \in rows' : t \in rows \/ (t \in obs /\ InWindow(t))
    BY DEF FetchWindow, FailWindow
  <2>2. obs' = obs
    BY DEF Advance, given
  <2> QED BY <1>6, <2>1, <2>2 DEF WalkInv, Given
<1>11. \A t \in obs : Start <= t /\ t < lo' =>
          t \in rows' \/ InFailed(t)' \/ IsSeam(t)
  <2> SUFFICES ASSUME NEW t \in obs, Start <= t, t < lo'
               PROVE  t \in rows' \/ InFailed(t)' \/ IsSeam(t)
    OBVIOUS
  <2>1. CASE t < lo
    BY <2>1, <1>8, <1>9 DEF WalkInv
  <2>2. CASE lo <= t
    BY <2>2, <1>7
  <2>3. t \in Int
    BY DEF Given, Times
  <2> QED BY <1>2, <2>1, <2>2, <2>3
<1>12. obs' = obs /\ ~ first'
  BY DEF Advance, given
<1>13. lo' >= Start
  BY <1>2, <1>3, RangeFacts DEF WalkInv
<1> QED BY <1>1, <1>3, <1>10, <1>11, <1>12, <1>13 DEF WalkInv

LEMMA WalkInvariant == ChunkSpec => [](Given /\ WalkInv)
<1>1. ChunkInit => Given /\ WalkInv
  <2> SUFFICES ASSUME ChunkInit PROVE Given /\ WalkInv
    OBVIOUS
  <2>1. Given
    BY DEF ChunkInit, Given
  <2>2. /\ lo = Start /\ first /\ rows = {}
        /\ Start \in Int
        /\ \A t \in obs : t \in Int
    BY <2>1, RangeFacts DEF ChunkInit, Given, Times
  <2> QED BY <2>1, <2>2 DEF WalkInv
<1>2. Given /\ WalkInv /\ [ChunkNext]_chunkVars => (Given /\ WalkInv)'
  <2> SUFFICES ASSUME Given, WalkInv, [ChunkNext]_chunkVars
               PROVE  (Given /\ WalkInv)'
    OBVIOUS
  <2>1. CASE UNCHANGED chunkVars
    BY <2>1 DEF chunkVars, Given, WalkInv, Start, End, ClipStart, ClipEnd,
                InFailed, IsSeam
  <2>2. CASE ChunkNext
    <3>1. Advance /\ (FetchWindow \/ FailWindow)
      BY <2>2 DEF ChunkNext, FetchWindow, FailWindow
    <3>2. Given'
      BY <3>1 DEF Advance, Given, given
    <3> QED BY <3>1, <3>2, WindowStep
  <2> QED BY <2>1, <2>2
<1> QED BY <1>1, <1>2, PTL DEF ChunkSpec

(* No row outside the requested range is ever fetched (ingest.py:121-142).  *)
THEOREM NothingOutsideRange == ChunkSpec => []StaysInRange
<1>1. Given /\ WalkInv => StaysInRange
  <2> SUFFICES ASSUME Given, WalkInv, NEW t \in rows
               PROVE  asked.from <= t /\ t < asked.to
    BY DEF StaysInRange
  <2>1. Start <= t /\ t < End /\ t \in Int
    BY DEF WalkInv, Given, Times
  <2>2. asked.from \in Int /\ asked.to \in Int
    BY DEF Given, Bounds
  <2> QED BY <2>1, <2>2, RangeFacts
<1> QED BY <1>1, WalkInvariant, PTL

(* A finished walk has every row of the range but those of windows it       *)
(* reports as failed and those on a seam (ingest.py:207-225).               *)
THEOREM OnlySeamsAreMissed == ChunkSpec => []OnlySeamsMissed
<1>1. Given /\ WalkInv => OnlySeamsMissed
  <2> SUFFICES ASSUME Given, WalkInv, Done, NEW t \in obs, Requested(t)
               PROVE  t \in rows \/ InFailed(t) \/ IsSeam(t)
    BY DEF OnlySeamsMissed
  <2>1. t \in Int /\ lo \in Int /\ lo >= End
    BY DEF WalkInv, Given, Times, Done
  <2>2. Start <= t /\ t < End
    BY <2>1, RangeFacts
  <2>3. t < lo
    BY <2>1, <2>2, RangeFacts
  <2> QED BY <2>2, <2>3 DEF WalkInv
<1> QED BY <1>1, WalkInvariant, PTL
===============================================================================
