SPECIFICATION ListingFairSpec
CONSTANTS
    NumKeys = 6
    manifest = manifest
    histories = histories
    Prefixes = {manifest, histories}
    NoPrefix = NoPrefix
    Requests <- MCRequests
INVARIANTS
    ListedOnce
PROPERTIES
    EveryListingEnds
CHECK_DEADLOCK FALSE
