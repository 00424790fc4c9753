SPECIFICATION Spec
CONSTANTS
    Keys = {1}
    Values = {a}
    Tombstone = Tombstone
    MemtableSizeBytes = 2
    L0CompactionTrigger = 9
    LevelSizeMultiplier = 1
    MaxLevelsChoices = {3}
    Faults = {"power", "tear"}
    MaxCalls = 2
    MaxOpens = 3
    MaxFaults = 0
    UserCompacts = FALSE
INVARIANT ManifestReopens
CHECK_DEADLOCK FALSE
