\* One iterator, made at any moment, while the engine goes on.
SPECIFICATION ScanSpec
CONSTANTS
    Keys = {1, 2}
    Values = {a}
    Tombstone = Tombstone
    MemtableSizeBytes = 2
    L0CompactionTrigger = 2
    LevelSizeMultiplier = 1
    MaxLevelsChoices = {3}
    Faults = {}
    MaxCalls = 3
    MaxOpens = 2
    MaxFaults = 0
    UserCompacts = FALSE
    ScanReadsFail = TRUE
INVARIANTS
    ScanExact
    ScanFilesExist
CHECK_DEADLOCK FALSE
