----------------------------- MODULE ChunkedFetch -----------------------------
(***************************************************************************)
(* One station of a backfill: `clip_window` narrows the requested range to *)
(* the span its metadata gives, `fetch_station` walks what is left in      *)
(* windows aligned to calendar years and asks for one at a time, carrying  *)
(* on after a window that fails (src/pcds/ingest.py:107-225).  The service *)
(* compares times with strict < and > only (src/pcds/opendap.py:54-74).    *)
(***************************************************************************)
EXTENDS Integers

CONSTANTS
    MaxTime,    \* bound: the last second
    ChunkLength \* PCDS_BACKFILL_CHUNK_YEARS, in seconds

ASSUME ChunkAssumption ==
    /\ MaxTime \in Nat
    /\ ChunkLength \in Nat \ {0}

Times == 0 .. MaxTime
Bounds == 0 .. MaxTime + 1

VARIABLES
    obs,      \* when the service has rows of the station
    asked,    \* the range backfill was called with: [from, to)
    span,     \* metadata's min_obs_time and max_obs_time
    lo,       \* where the next window begins
    first,    \* no window has been requested yet
    rows,     \* times of the rows fetched
    failed    \* windows whose request failed: the result's `error`

chunkVars == <<obs, asked, span, lo, first, rows, failed>>
given == <<obs, asked, span>>

ChunkTypeOK ==
    /\ obs \in SUBSET Times
    /\ asked \in [from : Bounds, to : Bounds]
    /\ span \in [min : Times, max : Times]
    /\ lo \in Bounds
    /\ first \in BOOLEAN
    /\ rows \in SUBSET Times
    /\ failed \in SUBSET (Bounds \X Bounds)

-------------------------------------------------------------------------------
Lesser(a, b) == IF a <= b THEN a ELSE b
Greater(a, b) == IF a >= b THEN a ELSE b

(* Mutant of ClipEnd: the range ends at the last observation.               *)
ClipEndShort(a, sp) == Lesser(a.to, sp.max)

(* clip_window: one second past the last observation, to keep it.           *)
ClipStart(a, sp) == Greater(a.from, sp.min)
ClipEnd(a, sp) == Lesser(a.to, sp.max + 1)

Start == ClipStart(asked, span)
End == ClipEnd(asked, span)

(* chunk_ranges: a window ends at the next multiple of the chunk's years.   *)
NextSeam(t) == (t \div ChunkLength + 1) * ChunkLength

(* Mutant of ChunkEnd: the last window runs to the end of its years.        *)
ChunkEndUnclipped(t) == NextSeam(t)

ChunkEnd(t) == Lesser(End, NextSeam(t))

(* time_constraints: `>` start, or start less one second when inclusive,    *)
(* and `<` end.  Only the first window of a station is inclusive.           *)
InWindow(t) ==
    /\ t > IF first THEN lo - 1 ELSE lo
    /\ t < ChunkEnd(lo)

-------------------------------------------------------------------------------
(* The metadata is about the station as it was when it was refreshed, so    *)
(* its span may fall short of what the service has by now.                  *)
ChunkInit ==
    /\ obs \in SUBSET Times
    /\ asked \in {r \in [from : Bounds, to : Bounds] : r.from < r.to}
    /\ span \in {p \in [min : Times, max : Times] :
                    /\ p.min <= p.max
                    /\ p.max >= asked.from
                    /\ p.min < asked.to}
    /\ lo = Start
    /\ first = TRUE
    /\ rows = {}
    /\ failed = {}

Advance ==
    /\ lo < End
    /\ lo' = ChunkEnd(lo)
    /\ first' = FALSE
    /\ UNCHANGED given

FetchWindow ==
    /\ Advance
    /\ rows' = rows \cup {t \in obs : InWindow(t)}
    /\ UNCHANGED failed

FailWindow ==
    /\ Advance
    /\ failed' = failed \cup {<<lo, ChunkEnd(lo)>>}
    /\ UNCHANGED rows

ChunkNext == FetchWindow \/ FailWindow

ChunkSpec == ChunkInit /\ [][ChunkNext]_chunkVars

-------------------------------------------------------------------------------
Done == lo >= End

Requested(t) ==
    /\ asked.from <= t
    /\ t < asked.to
    /\ span.min <= t
    /\ t <= span.max

IsSeam(t) == \E u \in Times : t = NextSeam(u)

InFailed(t) == \E w \in failed : w[1] <= t /\ t < w[2]

(* Nothing outside the requested range comes back: a backfill names its     *)
(* output after the shard alone, so a row of another period would overwrite *)
(* that period's file (scripts/walk.sh:4-8).                                *)
StaysInRange == \A t \in rows : asked.from <= t /\ t < asked.to

(* A row of the range is missing from a finished result only if the result  *)
(* carries an error for its window, which keeps the watermark from moving   *)
(* (cli.py:328), or if it lies on the seam of two windows.                  *)
OnlySeamsMissed ==
    Done => \A t \in obs :
        Requested(t) => t \in rows \/ InFailed(t) \/ IsSeam(t)

(* ingest.py:194 says "Fetch a station over [start, end), chunked to keep   *)
(* single requests small."  A row at the first second of a window but the   *)
(* first belongs to neither window beside it: each bound is strict.         *)
FetchesWholeRange ==
    Done /\ failed = {} => \A t \in obs : Requested(t) => t \in rows
===============================================================================
