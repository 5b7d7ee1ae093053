SPECIFICATION Spec
CONSTANTS
    FirstYear = 1
    LastYear = 4
    Floor = 2
    Keys = {1, 2, 3}
    YearOf <- MCYearOf
    ShardOf <- MCShardOf
    Estimate <- MCEstimate
    BytesPerRow = 1
    FileRows = 2
    MaxPlans = 2
    MaxIngests = 1
    MaxCrashes = 1
INVARIANTS
    RerunLosesNothing
