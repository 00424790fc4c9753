SPECIFICATION Spec
CONSTANTS
    Keys = {1}
    Values = {a, b}
    Tombstone = Tombstone
    MemtableSizeBytes = 2
    L0CompactionTrigger = 2
    LevelSizeMultiplier = 1
    MaxLevelsChoices = {3}
    Faults = {"kill", "install"}
    MaxCalls = 3
    MaxOpens = 2
    MaxFaults = 0
    UserCompacts = FALSE
INVARIANT CallerReadsLatest
CHECK_DEADLOCK FALSE
