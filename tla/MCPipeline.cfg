\* One station over three days, the first two in one period, two versions of
\* each day, late reports within a window of two days, with failures,
\* quarantine, inactivity and a death of either job anywhere.
SPECIFICATION FairSpec
CONSTANTS
    s1 = s1
    Stations <- OneStation
    Window = 2
    ActiveDays = 1
    Threshold = 2
    PeriodOf <- TwoPeriods
    SortedListing = TRUE
    MaxTime = 3
    MaxVersion = 2
    MaxDeltas = 2
    MaxCrashes = 1
INVARIANTS NoSilentGap WatermarkIsStored
PROPERTIES NeverOlder EventuallyMirrored
