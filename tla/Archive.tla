-------------------------------- MODULE Archive --------------------------------
(***************************************************************************)
(* What the mirror promises of the observations it holds, whatever files   *)
(* it keeps them in.                                                       *)
(*                                                                         *)
(* An observation is known by its key (station_id, variable_id, obs_time). *)
(* `content` is the archive's answer for a key: the version of the last    *)
(* ingest that carried it.  Only an ingest changes it.  `published` is     *)
(* what a reader of `observations/` finds.  It runs behind `content` and   *)
(* may miss rows while a partition is rewritten, but what it shows next    *)
(* for a key is never older than what it showed before.                    *)
(***************************************************************************)
EXTENDS Integers

CONSTANTS
    Keys,       \* observation keys
    Versions,   \* versions of an observation, integers in the order of ingestion
    NoRow       \* no observation under this key, an integer below every version

VARIABLES content, published

avars == <<content, published>>

Init ==
    /\ content \in [Keys -> Versions \cup {NoRow}]
    /\ published = content

(* One ingest run: the rows of K, all with the run's version, newer than    *)
(* any the archive holds of them.                                           *)
Ingest(K, v) ==
    /\ \A k \in K : v > content[k]
    /\ content' = [k \in Keys |-> IF k \in K THEN v ELSE content[k]]
    /\ UNCHANGED published

(* The rows of K become readable in their latest version.                  *)
Publish(K) ==
    /\ published' = [k \in Keys |-> IF k \in K THEN content[k] ELSE published[k]]
    /\ UNCHANGED content

(* A rewrite takes the rows of K out of sight.                              *)
Hide(K) ==
    /\ published' = [k \in Keys |-> IF k \in K THEN NoRow ELSE published[k]]
    /\ UNCHANGED content

Next ==
    \E K \in SUBSET Keys :
        \/ \E v \in Versions : Ingest(K, v)
        \/ Publish(K)
        \/ Hide(K)

Spec == Init /\ [][Next]_avars
===============================================================================
