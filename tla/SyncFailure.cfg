SPECIFICATION Spec
CONSTANTS
    Keys = {1}
    Values = {a}
    Tombstone = Tombstone
    MemtableSizeBytes = 3
    L0CompactionTrigger = 9
    LevelSizeMultiplier = 1
    MaxLevelsChoices = {3}
    Faults = {"kill", "wal_sync"}
    MaxCalls = 2
    MaxOpens = 2
    MaxFaults = 1
    UserCompacts = FALSE
INVARIANT CallerReadsLatest
CHECK_DEADLOCK FALSE
