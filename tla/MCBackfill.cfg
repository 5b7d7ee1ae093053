\* An object store: whole-archive dispatches, the walk and append runs between.
SPECIFICATION FairSpec
CONSTANTS
    Stations = {1, 2, 3}
    Years = {1, 2, 3}
    Periods = {1, 2}
    PeriodOf <- TwoPeriods
    Reported <- History
    FailureShare = 3
    Flaky = {2, 3}
    Dispatched <- AllYears
    Appended = {3}
    LocalRoot = FALSE
    MaxFiles = 1
    MaxFaults = 1
INVARIANTS FilesSorted FetchedIsHeld
PROPERTIES SavedIsComplete LossConfined WalkCompletes
