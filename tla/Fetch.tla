-------------------------------- MODULE Fetch ---------------------------------
(***************************************************************************)
(* `fetch_many` (src/pcds/ingest.py): a pool of threads takes stations     *)
(* from a queue and requests their windows one after another, each request *)
(* behind a limiter all threads share and inside a retry loop of its own.  *)
(*                                                                         *)
(* Time is counted in ticks and kept relative to now: a timer is what is   *)
(* left of a sleep, `next` is `_next - now`.  A thread may wake any time   *)
(* after its timer has run out, since nothing holds back a tick.           *)
(***************************************************************************)
EXTENDS Integers, FiniteSets

CONSTANTS
    Workers,     \* settings.concurrency threads
    Targets,
    Windows,     \* Windows[t]: how many requests station t takes
    MaxRetries,
    Interval,    \* ticks between two slots: 1 / max_rps
    MaxBackoff,  \* bound: ticks of the longest sleep between two attempts
    NoTarget

MaxAttempts500 == 2

ASSUME FetchAssumption ==
    /\ IsFiniteSet(Workers)
    /\ Windows \in [Targets -> Nat \ {0}]
    /\ MaxRetries \in Nat \ {0}
    /\ Interval \in Nat \ {0}     \* max_rps > 0; without it nothing waits
    /\ MaxBackoff \in Nat
    /\ NoTarget \notin Targets

VARIABLES
    queue,     \* stations no thread has taken
    phase,     \* where a thread is: idle, call, slot, request, backoff
    on,        \* the station it works on
    window,    \* which of its windows it requests
    attempt,   \* attempts of that request that have failed
    timer,     \* what is left of its sleep
    next,      \* limiter: when the next free slot is
    errors,    \* errors[t]: windows whose request failed for good
    landed,    \* stations whose result is there, with an error or not
    fails500,  \* history: 500s the request has met
    burst      \* history: a bucket each request fills by Interval, draining
               \*   one a tick

vars == <<queue, phase, on, window, attempt, timer, next, errors, landed,
          fails500, burst>>

TypeOK ==
    /\ queue \in SUBSET Targets
    /\ phase \in [Workers -> {"idle", "call", "slot", "request", "backoff"}]
    /\ on \in [Workers -> Targets \cup {NoTarget}]
    /\ window \in [Workers -> Nat]
    /\ attempt \in [Workers -> 0 .. MaxRetries]
    /\ timer \in [Workers -> Nat]
    /\ next \in Nat
    /\ errors \in [Targets -> SUBSET Nat]
    /\ landed \in [Targets -> {"no", "ok", "error"}]
    /\ fails500 \in [Workers -> Nat]
    /\ burst \in Nat

Init ==
    /\ queue = Targets
    /\ phase = [w \in Workers |-> "idle"]
    /\ on = [w \in Workers |-> NoTarget]
    /\ window = [w \in Workers |-> 1]
    /\ attempt = [w \in Workers |-> 0]
    /\ timer = [w \in Workers |-> 0]
    /\ next = 0
    /\ errors = [t \in Targets |-> {}]
    /\ landed = [t \in Targets |-> "no"]
    /\ fails500 = [w \in Workers |-> 0]
    /\ burst = 0

-------------------------------------------------------------------------------
(* An idle thread takes a station; the pool is first in, first out, over a  *)
(* list in no particular order.                                             *)
Take(w, t) ==
    /\ phase[w] = "idle"
    /\ t \in queue
    /\ queue' = queue \ {t}
    /\ on' = [on EXCEPT ![w] = t]
    /\ window' = [window EXCEPT ![w] = 1]
    /\ phase' = [phase EXCEPT ![w] = "call"]
    /\ attempt' = [attempt EXCEPT ![w] = 0]
    /\ fails500' = [fails500 EXCEPT ![w] = 0]
    /\ UNCHANGED <<timer, next, errors, landed, burst>>

(* Mutant of Acquire: only the first attempt of a request waits for a slot. *)
AcquireFirst(w) ==
    /\ phase[w] = "call"
    /\ timer' = [timer EXCEPT ![w] = IF attempt[w] = 0 THEN next ELSE 0]
    /\ next' = IF attempt[w] = 0 THEN next + Interval ELSE next
    /\ phase' = [phase EXCEPT ![w] = "slot"]
    /\ UNCHANGED <<queue, on, window, attempt, errors, landed, fails500, burst>>

(* RateLimiter.acquire: the slot is reserved under the lock and slept for   *)
(* outside of it.                                                           *)
Acquire(w) ==
    /\ phase[w] = "call"
    /\ timer' = [timer EXCEPT ![w] = next]
    /\ next' = next + Interval
    /\ phase' = [phase EXCEPT ![w] = "slot"]
    /\ UNCHANGED <<queue, on, window, attempt, errors, landed, fails500, burst>>

Send(w) ==
    /\ phase[w] = "slot"
    /\ timer[w] = 0
    /\ phase' = [phase EXCEPT ![w] = "request"]
    /\ burst' = burst + Interval
    /\ UNCHANGED <<queue, on, window, attempt, timer, next, errors, landed,
                   fails500>>

(* Mutant of Finished: the errors of the last window stand for the result.  *)
FinishedLast(w, failed) ==
    /\ errors' = [errors EXCEPT ![on[w]] =
                    IF failed THEN @ \cup {window[w]} ELSE @]
    /\ \/ /\ window[w] < Windows[on[w]]
          /\ window' = [window EXCEPT ![w] = @ + 1]
          /\ phase' = [phase EXCEPT ![w] = "call"]
          /\ UNCHANGED <<on, landed>>
       \/ /\ window[w] = Windows[on[w]]
          /\ landed' = [landed EXCEPT ![on[w]] =
                            IF failed THEN "error" ELSE "ok"]
          /\ on' = [on EXCEPT ![w] = NoTarget]
          /\ phase' = [phase EXCEPT ![w] = "idle"]
          /\ UNCHANGED window
    /\ attempt' = [attempt EXCEPT ![w] = 0]
    /\ fails500' = [fails500 EXCEPT ![w] = 0]

(* fetch_station: the window is done, with rows or with an error; the next  *)
(* one follows, and after the last the station's result lands.              *)
Finished(w, failed) ==
    /\ errors' = [errors EXCEPT ![on[w]] =
                    IF failed THEN @ \cup {window[w]} ELSE @]
    /\ \/ /\ window[w] < Windows[on[w]]
          /\ window' = [window EXCEPT ![w] = @ + 1]
          /\ phase' = [phase EXCEPT ![w] = "call"]
          /\ UNCHANGED <<on, landed>>
       \/ /\ window[w] = Windows[on[w]]
          /\ landed' = [landed EXCEPT ![on[w]] =
                            IF errors'[on[w]] # {} THEN "error" ELSE "ok"]
          /\ on' = [on EXCEPT ![w] = NoTarget]
          /\ phase' = [phase EXCEPT ![w] = "idle"]
          /\ UNCHANGED window
    /\ attempt' = [attempt EXCEPT ![w] = 0]
    /\ fails500' = [fails500 EXCEPT ![w] = 0]

(* An answer that is not retried: rows or none, or a status out of          *)
(* RETRY_STATUS, or a body that does not parse.                             *)
Answer(w, failed) ==
    /\ phase[w] = "request"
    /\ Finished(w, failed)
    /\ UNCHANGED <<queue, timer, next, burst>>

(* Mutant of Limit: a 500 is retried like every other status.               *)
LimitAlike(is500) == MaxRetries

Limit(is500) == IF is500 THEN MaxAttempts500 ELSE MaxRetries

(* The loop itself ends after max_retries attempts, whatever the limit.     *)
Exhausted(w, is500) ==
    attempt[w] + 1 >= Limit(is500) \/ attempt[w] + 1 = MaxRetries

(* A status of RETRY_STATUS or no answer at all: another attempt, after a   *)
(* sleep, or the end of the request.                                        *)
GiveUp(w, is500) ==
    /\ phase[w] = "request"
    /\ Exhausted(w, is500)
    /\ Finished(w, TRUE)
    /\ UNCHANGED <<queue, timer, next, burst>>

(* Mutant of Retry: the attempt is not counted.                             *)
RetryUncounted(w, is500) ==
    /\ phase[w] = "request"
    /\ ~ Exhausted(w, is500)
    /\ fails500' = [fails500 EXCEPT ![w] = IF is500 THEN @ + 1 ELSE @]
    /\ phase' = [phase EXCEPT ![w] = "backoff"]
    /\ \E sleep \in 0 .. MaxBackoff : timer' = [timer EXCEPT ![w] = sleep]
    /\ UNCHANGED <<queue, on, window, attempt, next, errors, landed, burst>>

Retry(w, is500) ==
    /\ phase[w] = "request"
    /\ ~ Exhausted(w, is500)
    /\ attempt' = [attempt EXCEPT ![w] = @ + 1]
    /\ fails500' = [fails500 EXCEPT ![w] = IF is500 THEN @ + 1 ELSE @]
    /\ phase' = [phase EXCEPT ![w] = "backoff"]
    /\ \E sleep \in 0 .. MaxBackoff : timer' = [timer EXCEPT ![w] = sleep]
    /\ UNCHANGED <<queue, on, window, next, errors, landed, burst>>

Wake(w) ==
    /\ phase[w] = "backoff"
    /\ timer[w] = 0
    /\ phase' = [phase EXCEPT ![w] = "call"]
    /\ UNCHANGED <<queue, on, window, attempt, timer, next, errors, landed,
                   fails500, burst>>

Down(n) == IF n = 0 THEN 0 ELSE n - 1

Tick ==
    /\ timer' = [w \in Workers |-> Down(timer[w])]
    /\ next' = Down(next)
    /\ burst' = Down(burst)
    /\ UNCHANGED <<queue, phase, on, window, attempt, errors, landed, fails500>>

Thread(w) ==
    \/ \E t \in Targets : Take(w, t)
    \/ Acquire(w)
    \/ Send(w)
    \/ \E failed \in BOOLEAN : Answer(w, failed)
    \/ \E is500 \in BOOLEAN : GiveUp(w, is500) \/ Retry(w, is500)
    \/ Wake(w)

Next == Tick \/ \E w \in Workers : Thread(w)

Spec == Init /\ [][Next]_vars

(* A request has a timeout, a sleep ends, and no thread is starved.         *)
FairSpec == Spec /\ WF_vars(Tick) /\ \A w \in Workers : WF_vars(Thread(w))

-------------------------------------------------------------------------------
(* Threads that sleep for their slot outside the lock and wake late may     *)
(* fire together, but never more than the threads there are on top of the   *)
(* rate: in any L ticks at most L / Interval + |Workers| + 1 requests       *)
(* leave, retries included (ingest.py:60-68, 85).                           *)
PoliteInBursts == burst <= (Cardinality(Workers) + 1) * Interval

(* No station's result is reported as complete when a window of it failed,  *)
(* whatever was retried in between (ingest.py:203-225).                     *)
ErrorsSurface ==
    \A t \in Targets : landed[t] = "ok" => errors[t] = {}

(* One retry, and no more, after a 500 (ingest.py:73-77): a request that    *)
(* has met two is not sent again.                                           *)
ReproducibleNotHammered ==
    \A w \in Workers : phase[w] # "idle" => fails500[w] < MaxAttempts500

(* Every station lands, whatever the service answers.                       *)
EveryStationLands == \A t \in Targets : <>(landed[t] # "no")
===============================================================================
