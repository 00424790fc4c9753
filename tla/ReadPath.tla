------------------------------ MODULE ReadPath ------------------------------
(***************************************************************************)
(* get_from_tables and SsTable::get, run by several threads at once, with  *)
(* the block cache they share and the flushes and compactions that change  *)
(* the version meanwhile.  A reader holds the read lock of the version     *)
(* from the first table to its return; the lock of the cache only for one  *)
(* get or insert, so a block can be loaded twice.                          *)
(*                                                                         *)
(* A file is its entries and the keys at which its blocks start, which any *)
(* block size may produce.  The filter never misses a key of the table     *)
(* and answers as it likes for the others.                                 *)
(***************************************************************************)
EXTENDS BlockCache

CONSTANTS
    Readers,       \* the threads that call get
    Lookups,       \* the keys they look up, stored or not
    MaxTables,     \* bound: tables written
    MaxReads       \* bound: calls of get

ASSUME ReadBoundsAssumption ==
    Lookups \subseteq Nat \ {0} /\ MaxTables \in Nat /\ MaxReads \in Nat

VARIABLES
    files,      \* table id -> file
    version,    \* the ids of the live tables, in search order
    cache,
    rd,         \* the locals of each reader
    used,       \* history: the blocks ever used, the latest at the end
    reads       \* bounded counter

readVars == <<files, version, cache, rd, used, reads>>

File == {f \in [content : Table, starts : SUBSET Keys] :
            /\ f.starts \subseteq DOMAIN f.content
            /\ DOMAIN f.content # {} => Smallest(f.content) \in f.starts}

(* block_for_key: the start of the block whose range has k; none when k    *)
(* lies outside the table or between two blocks.                           *)
StartBefore(f, k) == Max({s \in f.starts : s <= k})
BlockKeys(f, s) ==
    {k \in DOMAIN f.content : s <= k /\ StartBefore(f, k) = s}
BlockFor(f, k) ==
    {s \in f.starts : s <= k /\ \E l \in BlockKeys(f, s) : k <= l}

(* read_data_block.                                                        *)
BlockAt(f, s) == [k \in BlockKeys(f, s) |-> f.content[k]]

(* The key of a cached block: the table and the offset, given here by the  *)
(* first key of the block.                                                 *)
BlockKey_OffsetOnly(id, s) == <<0, s>>
BlockKey(id, s) == <<id, s>>

(* The entry a search of these tables should find, Tombstone for none.     *)
Holding(tables, k) == {i \in DOMAIN tables : k \in DOMAIN files[tables[i]].content}
Newest(tables, k) ==
    IF Holding(tables, k) = {} THEN Tombstone
    ELSE files[tables[Min(Holding(tables, k))]].content[k]

NoRead == [pc |-> "idle", key |-> EmptyKey, rest |-> <<>>, start |-> EmptyKey,
           block |-> EmptyTable, expect |-> Tombstone, got |-> Tombstone]

ReadInit ==
    /\ files = [i \in {} |-> NoRead] /\ version = <<>>
    /\ cache = NewCache
    /\ rd = [r \in Readers |-> NoRead]
    /\ used = <<>> /\ reads = 0

Reading(r) == rd[r].pc \in {"table", "cache", "load", "insert"}

-----------------------------------------------------------------------------
(* retain: the one sequence of the ids of v that are not in `drop'.        *)
Retained(v, drop) ==
    LET keep == {i \in DOMAIN v : v[i] \notin drop}
        ascending == {g \in [1 .. Cardinality(keep) -> keep] :
                        \A a, b \in DOMAIN g : a < b => g[a] < g[b]}
    IN  {[n \in DOMAIN g |-> v[g[n]]] : g \in ascending}

(* A flush, or the end of a compaction: under the write lock a new table   *)
(* enters the version and the tables of `drop' leave it.                   *)
Install ==
    /\ Cardinality(DOMAIN files) < MaxTables
    /\ \A r \in Readers : ~ Reading(r)
    /\ \E f \in File, drop \in SUBSET DOMAIN files :
          LET id == Cardinality(DOMAIN files) + 1
          IN  /\ files' = [i \in DOMAIN files \union {id} |-> IF i = id THEN f ELSE files[i]]
              /\ \E kept \in Retained(version, drop) : \E p \in 0 .. Len(kept) :
                    version' = SubSeq(kept, 1, p) \o <<id>> \o SubSeq(kept, p + 1, Len(kept))
    /\ UNCHANGED <<cache, rd, used, reads>>

(* get_from_tables takes the read lock.                                    *)
StartRead(r, k) ==
    /\ ~ Reading(r) /\ reads < MaxReads
    /\ reads' = reads + 1
    /\ rd' = [rd EXCEPT ![r] = [NoRead EXCEPT !.pc = "table", !.key = k,
                                   !.rest = version, !.expect = Newest(version, k)]]
    /\ UNCHANGED <<files, version, cache, used>>

(* The next table, or the end of the tables.                               *)
EndOfTables(r) ==
    /\ rd[r].pc = "table" /\ rd[r].rest = <<>>
    /\ rd' = [rd EXCEPT ![r].pc = "returned", ![r].got = Tombstone]
    /\ UNCHANGED <<files, version, cache, used, reads>>

Current(r) == files[Head(rd[r].rest)]

(* contains_range, the filter or block_for_key rule the table out.         *)
SkipTable(r) ==
    /\ rd[r].pc = "table" /\ rd[r].rest # <<>>
    /\ rd[r].key \notin DOMAIN Current(r).content
    /\ rd' = [rd EXCEPT ![r].rest = Tail(@)]
    /\ UNCHANGED <<files, version, cache, used, reads>>

SearchTable(r) ==
    /\ rd[r].pc = "table" /\ rd[r].rest # <<>>
    /\ \E s \in BlockFor(Current(r), rd[r].key) :
          rd' = [rd EXCEPT ![r].pc = "cache", ![r].start = s]
    /\ UNCHANGED <<files, version, cache, used, reads>>

(* search_block, and what get_from_tables does with its result.            *)
Search_IgnoreTombstone(r, block) ==
    rd' = IF rd[r].key \in DOMAIN block /\ block[rd[r].key] # Tombstone
          THEN [rd EXCEPT ![r].pc = "returned", ![r].got = block[rd[r].key]]
          ELSE [rd EXCEPT ![r].pc = "table", ![r].rest = Tail(@)]
Search(r, block) ==
    rd' = IF rd[r].key \in DOMAIN block
          THEN [rd EXCEPT ![r].pc = "returned", ![r].got = block[rd[r].key]]
          ELSE [rd EXCEPT ![r].pc = "table", ![r].rest = Tail(@)]

WantedBlock(r) == BlockKey(Head(rd[r].rest), rd[r].start)

FindCached(r) ==
    /\ rd[r].pc = "cache" /\ Cached(cache, WantedBlock(r))
    /\ cache' = CacheHit(cache, WantedBlock(r))
    /\ used' = Append(RemoveFirst(used, WantedBlock(r)), WantedBlock(r))
    /\ Search(r, cache.map[WantedBlock(r)])
    /\ UNCHANGED <<files, version, reads>>

MissCached(r) ==
    /\ rd[r].pc = "cache" /\ ~ Cached(cache, WantedBlock(r))
    /\ rd' = [rd EXCEPT ![r].pc = "load"]
    /\ UNCHANGED <<files, version, cache, used, reads>>

LoadBlock(r) ==
    /\ rd[r].pc = "load"
    /\ rd' = [rd EXCEPT ![r].pc = "insert", ![r].block = BlockAt(Current(r), rd[r].start)]
    /\ UNCHANGED <<files, version, cache, used, reads>>

(* The file cannot be opened or read, or a checksum is wrong.              *)
LoadFails(r) ==
    /\ rd[r].pc = "load"
    /\ rd' = [rd EXCEPT ![r].pc = "failed"]
    /\ UNCHANGED <<files, version, cache, used, reads>>

InsertBlock(r) ==
    /\ rd[r].pc = "insert"
    /\ cache' = CacheInsert(cache, WantedBlock(r), rd[r].block)
    /\ used' = Append(RemoveFirst(used, WantedBlock(r)), WantedBlock(r))
    /\ Search(r, rd[r].block)
    /\ UNCHANGED <<files, version, reads>>

ReaderSteps(r) ==
    \/ EndOfTables(r) \/ SkipTable(r) \/ SearchTable(r) \/ FindCached(r)
    \/ MissCached(r) \/ LoadBlock(r) \/ LoadFails(r) \/ InsertBlock(r)

ReadNext ==
    \/ Install
    \/ \E r \in Readers : (\E k \in Lookups : StartRead(r, k)) \/ ReaderSteps(r)

ReadSpec == ReadInit /\ [][ReadNext]_readVars

-----------------------------------------------------------------------------
(* Whatever the other readers do to the cache in between, get returns the  *)
(* newest entry of the version it locked (get_from_tables, load_block).    *)
ReadExact ==
    \A r \in Readers : rd[r].pc = "returned" => rd[r].got = rd[r].expect

(* A cached block is the block of the file its key names, also for tables  *)
(* that have left the version: a block of one table is never taken for one *)
(* of another (BlockKey, BlockCache::insert).                              *)
CacheSound ==
    \A b \in DOMAIN cache.map :
        b[1] \in DOMAIN files /\ cache.map[b] = BlockAt(files[b[1]], b[2])

(* The list, the map and the byte count agree and the bound holds, also    *)
(* after two readers have inserted the same block (BlockCache::insert,     *)
(* touch, evict_to_fit).                                                   *)
CacheAccounts ==
    /\ {cache.order[i] : i \in DOMAIN cache.order} = DOMAIN cache.map
    /\ Len(cache.order) = Cardinality(DOMAIN cache.map)
    /\ cache.bytes = BytesOf(cache, DOMAIN cache.map)
    /\ cache.bytes <= MaxBytes

(* An insert evicts the least recently used blocks and no more of them     *)
(* than it must: every block it evicts was last used before every block it *)
(* keeps, and with the latest of them kept the cache would be too large    *)
(* (evict_to_fit, and touch in get).                                       *)
LastUse(order, b) == Max({0} \union {i \in DOMAIN order : order[i] = b})
EvictsLeastRecent ==
    [][LET evicted == DOMAIN cache.map \ DOMAIN cache'.map
           kept == DOMAIN cache'.map
       IN  evicted # {} =>
             /\ \A e \in evicted, b \in kept : LastUse(used', e) < LastUse(used', b)
             /\ \A e \in evicted :
                   \/ kept = {}
                   \/ \E g \in evicted : LastUse(used', e) < LastUse(used', g)
                   \/ cache'.bytes + BlockBytes(cache.map[e]) > MaxBytes]_readVars
=============================================================================
