SPECIFICATION FairSpec
CONSTANTS
    Keys = {1}
    Values = {a}
    Tombstone = Tombstone
    MemtableSizeBytes = 2
    L0CompactionTrigger = 2
    LevelSizeMultiplier = 1
    MaxLevelsChoices = {1, 3}
    Faults = {"kill", "power", "install", "tear", "dirty", "wal_append", "wal_sync",
              "wal_truncate", "flush_id", "flush_create", "flush_add",
              "compact_id", "compact_create", "compact_add", "compact_remove"}
    MaxCalls = 3
    MaxOpens = 2
    MaxFaults = 1
    UserCompacts = TRUE
INVARIANTS
    TypeOK
    LiveFilesExist
    FirstReopenSucceeds
PROPERTIES
    FilesImmutable
    CallsReturn
    L0Drains
CHECK_DEADLOCK FALSE
