\* Room for a row group over target and floor: rolls, tails and merges.
SPECIFICATION Spec
CONSTANTS
    Target = 5
    Floor = 3
    Ceiling = 10
    MaxGroup = 4
    MaxGroups = 6
    NoFile = NoFile
INVARIANTS SizeBand GroupsInOrder
PROPERTY NothingVanishes
CHECK_DEADLOCK FALSE
