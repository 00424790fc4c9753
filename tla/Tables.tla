------------------------------- MODULE Tables -------------------------------
(***************************************************************************)
(* The data of the store and the pure functions over it: memtables, table  *)
(* handles, the order in which a version is searched, the newest-wins      *)
(* merge and the choice of a compaction.                                   *)
(*                                                                         *)
(* A memtable and the content of an SSTable are both finite maps from keys *)
(* to entries.  Keys are positive naturals, whose order stands for the     *)
(* byte order of the code; EmptyKey stands for the empty byte string,      *)
(* which no stored key equals and which an empty table reports as its      *)
(* smallest and largest key.                                               *)
(***************************************************************************)
EXTENDS Integers, FiniteSets, FiniteSetsExt

CONSTANTS
    Keys,                  \* the keys a caller may use
    Values,                \* the values a caller may store
    Tombstone,             \* Entry::Tombstone
    MemtableSizeBytes,     \* Options::memtable_size_bytes
    L0CompactionTrigger,   \* Options::l0_compaction_trigger
    LevelSizeMultiplier    \* Options::level_size_multiplier

ASSUME KeysAssumption == Keys \subseteq Nat \ {0} /\ IsFiniteSet(Keys)
ASSUME TombstoneAssumption == Tombstone \notin Values
ASSUME OptionsAssumption ==
    /\ MemtableSizeBytes \in Nat \ {0}
    /\ L0CompactionTrigger \in Nat \ {0}
    /\ LevelSizeMultiplier \in Nat \ {0}

EmptyKey == 0
Entry == Values \union {Tombstone}

-----------------------------------------------------------------------------
(* Memtables and table contents: BTreeMap<Vec<u8>, Entry>.                 *)

Table == UNION {[S -> Entry] : S \in SUBSET Keys}
EmptyTable == [k \in {} |-> Tombstone]

Insert(m, k, e) == [x \in DOMAIN m \union {k} |-> IF x = k THEN e ELSE m[x]]

(* A key counts one byte and a value one byte; a tombstone has no value.   *)
ApproximateSize(m) ==
    Cardinality(DOMAIN m) + Cardinality({k \in DOMAIN m : m[k] # Tombstone})

Smallest(t) == IF DOMAIN t = {} THEN EmptyKey ELSE Min(DOMAIN t)
Largest(t) == IF DOMAIN t = {} THEN EmptyKey ELSE Max(DOMAIN t)

-----------------------------------------------------------------------------
(* Handles: Arc<SsTable>.  A version is a set of handles; the vectors of   *)
(* the code are recovered from `level' and `stamp', the position within    *)
(* the level: in L0 a larger stamp is nearer the front, and in the other   *)
(* levels the stamp orders tables that a stable sort by smallest key       *)
(* leaves in their previous order.                                         *)

Handle == [id : Nat, small : Nat, large : Nat, size : Nat,
           level : Nat, stamp : Int]

(* The file holds one byte of footer besides its entries.                  *)
HandleOf(id, t, level, stamp) ==
    [id |-> id, small |-> Smallest(t), large |-> Largest(t),
     size |-> 1 + ApproximateSize(t), level |-> level, stamp |-> stamp]

Ids(V) == {h.id : h \in V}
Level(V, l) == {h \in V : h.level = l}

(* Version::tables_newest_first: L0 from the newest, then each level in    *)
(* the order of its vector.                                                *)
Before(a, b) ==
    \/ a.level < b.level
    \/ a.level = b.level /\ a.level = 0 /\ a.stamp > b.stamp
    \/ a.level = b.level /\ a.level > 0
          /\ (a.small < b.small \/ (a.small = b.small /\ a.stamp < b.stamp))

(* The table of V that is searched first.                                  *)
First(V) == CHOOSE h \in V : \A g \in V : ~ Before(g, h)

(* insert(0, table): the new table is searched before the rest of L0.      *)
FrontStamp_Push(V) == IF Level(V, 0) = {} THEN 1
                      ELSE Min({h.stamp : h \in Level(V, 0)}) - 1
FrontStamp(V) == IF Level(V, 0) = {} THEN 1
                 ELSE 1 + Max({h.stamp : h \in Level(V, 0)})
(* push(table): the new table goes behind the rest of its level.           *)
BackStamp(V, l) ==
    IF Level(V, l) = {} THEN 1
    ELSE IF l = 0 THEN Min({h.stamp : h \in Level(V, l)}) - 1
    ELSE Max({h.stamp : h \in Level(V, l)}) + 1

(* The first table that has an entry for k decides; fs maps a table id to  *)
(* the content of its file.                                                *)
ContainsRange(h, k) == h.small <= k /\ k <= h.large
Hits(V, fs, k) == {h \in V : ContainsRange(h, k) /\ k \in DOMAIN fs[h.id]}
Find(V, fs, k) ==
    IF Hits(V, fs, k) = {} THEN Tombstone ELSE fs[First(Hits(V, fs, k)).id][k]

Overlaps(h, small, large) ==
    /\ ~(h.small = EmptyKey /\ h.large = EmptyKey)
    /\ h.small <= large
    /\ small <= h.large

-----------------------------------------------------------------------------
(* compact and merge_tables: the newest entry of every key, without the    *)
(* tombstones when dropTombstones.                                         *)
Merge_LowestId(inputs, fs, dropTombstones) ==
    LET keys == UNION {DOMAIN fs[h.id] : h \in inputs}
        found == [k \in keys |->
                    fs[Min({h.id : h \in {g \in inputs : k \in DOMAIN fs[g.id]}})][k]]
    IN  [k \in {j \in keys : dropTombstones => found[j] # Tombstone} |-> found[k]]
Merge(inputs, fs, dropTombstones) ==
    LET keys == UNION {DOMAIN fs[h.id] : h \in inputs}
        newest == [k \in keys |->
                     fs[First({h \in inputs : k \in DOMAIN fs[h.id]}).id][k]]
    IN  [k \in {j \in keys : dropTombstones => newest[j] # Tombstone} |-> newest[k]]

(* A tombstone may go only when no deeper level of the snapshot holds a    *)
(* table that overlaps an input.                                           *)
DropTombstones_Always(snapshot, inputs, outputLevel, maxLevels) == TRUE
DropTombstones(snapshot, inputs, outputLevel, maxLevels) ==
    \/ outputLevel + 1 >= maxLevels
    \/ ~ \E h \in snapshot : /\ h.level > outputLevel
                             /\ \E i \in inputs : Overlaps(h, i.small, i.large)

LevelSize(V, l) == LET size(h) == h.size IN MapThenSumSet(size, Level(V, l))
LevelLimit(l) ==
    MemtableSizeBytes * L0CompactionTrigger * LevelSizeMultiplier ^ (l - 1)

(* The tables of level l that a merge of tables `top' must also take.      *)
WithOverlapping_TopOnly(V, top, l) == top
WithOverlapping(V, top, l) ==
    LET small == Min({h.small : h \in top})
        large == Max({h.large : h \in top})
    IN  top \union {h \in Level(V, l) : Overlaps(h, small, large)}

NoCompaction == [inputs |-> {}, level |-> 0]

OverfullLevels(V, maxLevels) ==
    {l \in 1 .. maxLevels - 2 :
        Level(V, l) # {} /\ LevelSize(V, l) > LevelLimit(l)}

(* L0 as a whole once it has reached the trigger, otherwise the first      *)
(* table of the first level above its size limit.                          *)
PickCompaction(V, maxLevels) ==
    IF Cardinality(Level(V, 0)) >= L0CompactionTrigger
    THEN [inputs |-> WithOverlapping(V, Level(V, 0), 1),
          level |-> Min({1, maxLevels - 1})]
    ELSE IF OverfullLevels(V, maxLevels) = {}
    THEN NoCompaction
    ELSE LET l == Min(OverfullLevels(V, maxLevels))
         IN  [inputs |-> WithOverlapping(V, {First(Level(V, l))}, l + 1),
              level |-> l + 1]
=============================================================================
