SPECIFICATION FairSpec
CONSTANTS
    Workers = {w1, w2}
    a = a
    b = b
    Targets = {a, b}
    Windows <- MCWindows
    MaxRetries = 3
    Interval = 2
    MaxBackoff = 2
    NoTarget = NoTarget
INVARIANTS
    PoliteInBursts
    ErrorsSurface
    ReproducibleNotHammered
PROPERTIES
    EveryStationLands
