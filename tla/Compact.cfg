\* Every merge of up to three tables over three keys, written to a file.
SPECIFICATION CompactSpec
CONSTANTS
    Keys = {1, 2, 3}
    Values = {a}
    Tombstone = Tombstone
    MemtableSizeBytes = 2
    L0CompactionTrigger = 2
    LevelSizeMultiplier = 2
    Hash1 <- MCHash1
    Hash2 <- MCHash2
    WordSize = 256
    FilterBytes = 8
    HashCount = 2
    BlockSize = 11
    MaxInputs = 3
INVARIANTS
    MergeExact
    PublishedExact
    CompactExact
CHECK_DEADLOCK FALSE
