-------------------------------- MODULE Listing --------------------------------
(******************************************************************************)
(* ListObjectsV2 of the local bucket server (scripts/serve.py, _list), and a *)
(* client that follows continuation tokens to the end while jobs add and     *)
(* delete objects.                                                           *)
(*                                                                           *)
(* The keys are those under the request's prefix, numbered as strings sort.  *)
(* The server walks them in another order, that of sorted(rglob("*")), which *)
(* compares paths component by component: the two differ where the name of a *)
(* directory is the beginning of another's, as period=1990 is of             *)
(* period=1990-1995.                                                         *)
(******************************************************************************)
EXTENDS Naturals, FiniteSets

CONSTANTS
    NumKeys,     \* keys 1 .. NumKeys, in the order of their strings
    Prefixes,    \* common prefixes up to the delimiter
    NoPrefix,
    Requests     \* what may be asked for: of[k], the prefix key k is rolled up
                 \*   into, or NoPrefix; walk[k], the key's place in the walk;
                 \*   max, the max-keys

Keys == 1 .. NumKeys

ASSUME ListingAssumption ==
    /\ NumKeys \in Nat
    /\ NoPrefix \notin Prefixes
    /\ \A r \in Requests :
         /\ r.of \in [Keys -> Prefixes \cup {NoPrefix}]
         /\ r.walk \in [Keys -> Keys] /\ {r.walk[k] : k \in Keys} = Keys
         /\ r.max \in Nat \ {0}
         \* Keys with the same prefix are neighbours as strings.
         /\ \A i, j, k \in Keys :
              i < j /\ j < k /\ r.of[i] = r.of[k] /\ r.of[i] # NoPrefix
              => r.of[j] = r.of[i]

VARIABLES
    request,   \* what the client asks for, page by page
    present,   \* keys of the objects that exist
    after,     \* the client's continuation token, 0 at first
    done,      \* the last page said it was not truncated
    contents,  \* contents[k]: how often the client was given the key
    common,    \* common[p]: how often it was given the prefix
    stayed     \* history: keys that existed all the time

listingVars == <<request, present, after, done, contents, common, stayed>>

ListingTypeOK ==
    /\ request \in Requests
    /\ present \subseteq Keys /\ stayed \subseteq present
    /\ after \in 0 .. NumKeys
    /\ done \in BOOLEAN
    /\ contents \in [Keys -> 0 .. 2] /\ common \in [Prefixes -> 0 .. 2]

--------------------------------------------------------------------------------
\* Mutant of Candidates: the token's own key is listed again.
CandidatesFrom == {k \in present : k >= after}

\* Keys the server keeps for this page.
Candidates == {k \in present : k > after}

\* Those of them that are listed themselves, up to the limit.
Page ==
    LET plain == {k \in Candidates : request.of[k] = NoPrefix}
    IN  {k \in plain : Cardinality({j \in plain : request.walk[j] < request.walk[k]}) < request.max}

Truncated == Cardinality(Page) >= request.max

Last == CHOOSE k \in Page : \A j \in Page : request.walk[j] <= request.walk[k]

\* Mutant of Walked: the walk does not stop at the limit.
WalkedOn == Candidates

\* The loop breaks at the last key that fits.
Walked == {k \in Candidates : Truncated => request.walk[k] <= request.walk[Last]}

Again(n) == IF n < 2 THEN n + 1 ELSE 2   \* 2 stands for every number above

GetPage ==
    /\ ~done
    /\ contents' = [k \in Keys |-> IF k \in Page THEN Again(contents[k]) ELSE contents[k]]
    /\ common' = [p \in Prefixes |-> IF \E k \in Walked : request.of[k] = p
                                     THEN Again(common[p]) ELSE common[p]]
    /\ after' = IF Truncated THEN Last ELSE after
    /\ done' = ~Truncated
    /\ UNCHANGED <<request, present, stayed>>

\* A job of the pipeline puts an object while the client is at it.
Add(k) ==
    /\ ~done
    /\ k \notin present
    /\ present' = present \cup {k}
    /\ UNCHANGED <<request, after, done, contents, common, stayed>>

Delete(k) ==
    /\ ~done
    /\ k \in present
    /\ present' = present \ {k}
    /\ stayed' = stayed \ {k}
    /\ UNCHANGED <<request, after, done, contents, common>>

ListingInit ==
    /\ request \in Requests
    /\ present \in SUBSET Keys
    /\ after = 0
    /\ done = FALSE
    /\ contents = [k \in Keys |-> 0]
    /\ common = [p \in Prefixes |-> 0]
    /\ stayed = present

ListingNext == GetPage \/ \E k \in Keys : Add(k) \/ Delete(k)

ListingSpec == ListingInit /\ [][ListingNext]_listingVars

\* The client asks for the next page in the end, whatever the jobs do.
ListingFairSpec == ListingSpec /\ WF_listingVars(GetPage)

--------------------------------------------------------------------------------
\* The walk and the comparison with the token go the same way.
OrdersAgree == \A j, k \in Keys : j < k <=> request.walk[j] < request.walk[k]

\* Where the two orders agree, an object that was there all the time is in the
\* listing exactly once, itself or as part of its prefix, and no prefix comes
\* twice, however many objects came and went between the pages and wherever a
\* page ended (serve.py:249, 253-269, 287).
ListedOnce ==
    done /\ OrdersAgree =>
        /\ \A k \in stayed : IF request.of[k] = NoPrefix THEN contents[k] = 1
                             ELSE common[request.of[k]] = 1
        /\ \A k \in Keys : contents[k] <= 1
        /\ \A p \in Prefixes : common[p] <= 1

\* Every listing ends, in either order, with jobs that never stop adding and
\* deleting objects: each page moves the token up (serve.py:249, 268, 287).
EveryListingEnds == <>done

================================================================================
