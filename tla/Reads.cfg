\* Two readers, a cache of three bytes, two tables of any layout.
SPECIFICATION ReadSpec
CONSTANTS
    Keys = {1, 3}
    Values = {a}
    Tombstone = Tombstone
    MemtableSizeBytes = 2
    L0CompactionTrigger = 2
    LevelSizeMultiplier = 2
    MaxBytes = 3
    Readers = {r1, r2}
    Lookups = {1, 2, 3}
    MaxTables = 2
    MaxReads = 4
SYMMETRY ReaderSymmetry
INVARIANTS
    ReadExact
    CacheSound
    CacheAccounts
PROPERTY
    EvictsLeastRecent
CHECK_DEADLOCK FALSE
