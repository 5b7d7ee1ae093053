\* A shard and the unsharded job: loads, saves and crashes interleave freely.
SPECIFICATION Spec
CONSTANTS
    main = main
    s000 = s000
    station = station
    NoRow = NoRow
    Stations <- MCStations
    Writers <- MCWriters
    Main = main
    Owner <- MCOwner
    MaxTime = 2
    MaxFailures = 1
INVARIANTS LoadIsFresh
PROPERTY MergedNeverRegresses
