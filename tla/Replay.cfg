\* Three appends of one key, cut anywhere, with two restarts.
SPECIFICATION LogSpec
CONSTANTS
    Keys = {1}
    Values = {a, b}
    Tombstone = Tombstone
    MemtableSizeBytes = 2
    L0CompactionTrigger = 2
    LevelSizeMultiplier = 2
    MaxSize = 2
    MaxAppends = 3
    MaxCrashes = 2
SYMMETRY ValueSymmetry
PROPERTIES
    ImplementsWal
    ReplayExact
CHECK_DEADLOCK FALSE
