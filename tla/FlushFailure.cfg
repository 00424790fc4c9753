SPECIFICATION Spec
CONSTANTS
    Keys = {1, 2}
    Values = {a}
    Tombstone = Tombstone
    MemtableSizeBytes = 2
    L0CompactionTrigger = 9
    LevelSizeMultiplier = 1
    MaxLevelsChoices = {3}
    Faults = {"flush_create"}
    MaxCalls = 4
    MaxOpens = 1
    MaxFaults = 1
    UserCompacts = FALSE
INVARIANT CallerReadsLatest
CHECK_DEADLOCK FALSE
