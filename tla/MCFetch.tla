------------------------------- MODULE MCFetch --------------------------------
EXTENDS Fetch

CONSTANTS a, b

MCWindows == [t \in Targets |-> IF t = a THEN 2 ELSE 1]
===============================================================================
