SPECIFICATION Spec
CONSTANTS
    Keys = {1, 2}
    Values = {a}
    Tombstone = Tombstone
    MemtableSizeBytes = 1
    L0CompactionTrigger = 1
    LevelSizeMultiplier = 1
    MaxLevelsChoices = {3}
    Faults = {"power", "tear"}
    MaxCalls = 3
    MaxOpens = 2
    MaxFaults = 0
    UserCompacts = FALSE
INVARIANTS
    RestartAgrees
    ReadsLatest
    LevelsDisjoint
PROPERTY
    ImplementsKVStore
CHECK_DEADLOCK FALSE
