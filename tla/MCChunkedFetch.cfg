\* Seven seconds, chunks of three: up to three windows, the first and the last
\* of them cut short, with every set of rows and every span.
SPECIFICATION ChunkSpec
CONSTANTS
    MaxTime = 6
    ChunkLength = 3
INVARIANTS StaysInRange OnlySeamsMissed
CHECK_DEADLOCK FALSE
