\* Crashes anywhere, inside a swap too: what the files implement, what a crash
\* can lose and what it cannot, and that every staged row is published.
SPECIFICATION FairSpec
CONSTANTS
    early = early
    late = late
    shard = shard
    Keys <- MCKeys
    Periods <- MCPeriods
    PeriodOf <- MCPeriodOf
    WrittenBy <- MCWrittenBy
    NoPeriod = NoPeriod
    NoManifest = NoManifest
    ShardNames <- MCShardNames
    MaxRuns = 2
    MaxCrashes = 1
    CrashInSwap = TRUE
    SortedListing = TRUE
INVARIANTS ManifestAtRest NoDuplicateRows
PROPERTIES ImplementsArchive DroppedWasPublished LossConfinedToSwap StagedGetsPublished
