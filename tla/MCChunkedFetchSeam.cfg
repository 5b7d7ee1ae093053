\* A row on the seam of two windows is in neither.
SPECIFICATION ChunkSpec
CONSTANTS
    MaxTime = 6
    ChunkLength = 3
INVARIANT FetchesWholeRange
CHECK_DEADLOCK FALSE
