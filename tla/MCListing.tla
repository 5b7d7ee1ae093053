------------------------------ MODULE MCListing -------------------------------
EXTENDS Listing

CONSTANTS manifest, histories

AsStrings == [k \in Keys |-> k]

\* The root with a delimiter: documents 1, 4 and 6, directories in between.
Root == [k \in Keys |-> IF k \in {2, 3} THEN manifest
                       ELSE IF k = 5 THEN histories ELSE NoPrefix]

\* The files of period=1990-1995 and of period=1990: the walk takes those of the
\* second first.
Flat == [k \in Keys |-> NoPrefix]
Swapped == [k \in Keys |-> CASE k = 3 -> 4 [] k = 4 -> 3 [] OTHER -> k]

MCRequests == {[of |-> Root, walk |-> AsStrings, max |-> m] : m \in 1 .. 2}
              \cup {[of |-> Flat, walk |-> w, max |-> m] :
                       w \in {AsStrings, Swapped}, m \in 1 .. 2}
===============================================================================
