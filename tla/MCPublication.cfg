SPECIFICATION FairSpec
CONSTANTS
    MaxUpstream = 2
    MaxObs = 2
    MaxFailures = 1
    MaxCancels = 1
INVARIANTS
    HistoriesHaveStations
    DocAgreesWithItself
PROPERTIES
    ChainPublishes
    ComesToDescribe
