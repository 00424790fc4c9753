SPECIFICATION Spec
CONSTANTS
    Keys = {1, 2}
    Values = {a, b}
    Tombstone = Tombstone
    MemtableSizeBytes = 3
    L0CompactionTrigger = 9
    LevelSizeMultiplier = 2
    MaxLevelsChoices = {3}
    Faults = {"kill", "power", "wal_append", "wal_truncate"}
    MaxCalls = 4
    MaxOpens = 3
    MaxFaults = 1
    UserCompacts = FALSE
SYMMETRY ValueSymmetry
PROPERTY
    ImplementsKVStore
CHECK_DEADLOCK FALSE
