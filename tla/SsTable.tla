------------------------------ MODULE SsTable -------------------------------
(***************************************************************************)
(* The file of a table: SsTable::create writes data blocks, the index, the *)
(* Bloom filter and the footer to a .tmp file, syncs it and renames it;    *)
(* open, get and the iterator find their way through it again.             *)
(*                                                                         *)
(* A file is the set of parts written to it, each with the position it was *)
(* written to and its length.  A read at a position and a length finds the *)
(* part written there, or nothing: the checksum of a part does not match   *)
(* any other range of the file.  A decoded block, a sorted vector without  *)
(* repetitions, is the map from its keys to its entries.                   *)
(***************************************************************************)
EXTENDS Bloom, Sequences

CONSTANT BlockSize      \* Options::block_size

ASSUME BlockSizeAssumption == BlockSize \in Nat

VARIABLES
    source,      \* collected: the entries to write
    todo,        \* the keys of source the loop has yet to come to
    block,       \* block_buf: the entries of the block under construction
    bufLen,      \* block_buf.len()
    first,       \* block_first, EmptyKey for None
    last,        \* block_last
    index,       \* the index in memory
    offset,      \* where the writer believes the next block starts
    file,        \* the file itself, under its .tmp or its final name
    durable,     \* everything in the file has been synced
    published,   \* the file has its final name
    bpc          \* "idle", "entries", "tail", "sync", "rename", "dir",
                 \* "done", "failed", "crashed"

ssVars == <<source, todo, block, bufLen, first, last, index, offset, file,
            durable, published, bpc>>

IndexEntry == [first : Nat, last : Nat, offset : Nat, length : Nat]
EmptyFile == [len |-> 0, blocks |-> {}, indexes |-> {}, filters |-> {}, footers |-> {}]
FooterLen == 48

(* encode_entry: a type byte, two lengths, a key of one byte and a value   *)
(* of one byte.                                                            *)
EntryLen(e) == IF e = Tombstone THEN 10 ELSE 11
(* encode_index, and encode of the filter, with their checksums.           *)
IndexLen(ix) == 8 + 22 * Len(ix)
FilterLen(f) == 12 + f.bytes

-----------------------------------------------------------------------------
(* SsTable::create.                                                        *)

CreateInit ==
    /\ source = EmptyTable /\ todo = {} /\ block = EmptyTable /\ bufLen = 0
    /\ first = EmptyKey /\ last = EmptyKey /\ index = <<>> /\ offset = 0
    /\ file = EmptyFile /\ durable = FALSE /\ published = FALSE /\ bpc = "idle"

CreateStart(entries) ==
    /\ bpc = "idle"
    /\ source' = entries
    /\ todo' = DOMAIN entries
    /\ bpc' = "entries"
    /\ UNCHANGED <<block, bufLen, first, last, index, offset, file, durable, published>>

(* flush_data_block and the index row for it: a count, the entries and a   *)
(* checksum.                                                               *)
FlushBlock(b, len, fst, lst) ==
    LET length == 8 + len
    IN  /\ file' = [file EXCEPT
                      !.len = @ + length,
                      !.blocks = @ \union {[at |-> file.len, length |-> length, entries |-> b]}]
        /\ index' = Append(index, [first |-> fst, last |-> lst,
                                   offset |-> offset, length |-> length])
        /\ offset' = offset + length
        /\ block' = EmptyTable /\ bufLen' = 0
        /\ first' = EmptyKey /\ last' = EmptyKey

(* One turn of the loop: the next entry enters the block, which is written *)
(* once it has reached its size.                                           *)
AddEntry ==
    /\ bpc = "entries" /\ todo # {}
    /\ LET k   == Min(todo)
           b   == Insert(block, k, source[k])
           len == bufLen + EntryLen(source[k])
           fst == IF first = EmptyKey THEN k ELSE first
       IN  /\ todo' = todo \ {k}
           /\ IF len >= BlockSize
              THEN FlushBlock(b, len, fst, k)
              ELSE /\ block' = b /\ bufLen' = len /\ first' = fst /\ last' = k
                   /\ UNCHANGED <<index, offset, file>>
    /\ UNCHANGED <<source, durable, published, bpc>>

(* The last block, which a table without entries has as well.              *)
FinishBlocks ==
    /\ bpc = "entries" /\ todo = {}
    /\ bpc' = "tail"
    /\ IF DOMAIN block # {} \/ index = <<>>
       THEN FlushBlock(block, bufLen, first, last)
       ELSE UNCHANGED <<block, bufLen, first, last, index, offset, file>>
    /\ UNCHANGED <<source, todo, durable, published>>

(* The index, the filter and the footer that says where they are.          *)
WriteTail ==
    /\ bpc = "tail"
    /\ bpc' = "sync"
    /\ LET f  == FilterOf(DOMAIN source)
           il == IndexLen(index)
           fl == FilterLen(f)
       IN  file' = [file EXCEPT
             !.len = @ + il + fl + FooterLen,
             !.indexes = @ \union {[at |-> file.len, length |-> il, index |-> index]},
             !.filters = @ \union {[at |-> file.len + il, length |-> fl, filter |-> f]},
             !.footers = @ \union {[at |-> file.len + il + fl,
                                    indexAt |-> offset, indexLen |-> il,
                                    filterAt |-> offset + il, filterLen |-> fl]}]
    /\ UNCHANGED <<source, todo, block, bufLen, first, last, index, offset,
                   durable, published>>

SyncFile_Skip ==
    /\ bpc = "sync"
    /\ bpc' = "rename"
    /\ UNCHANGED <<source, todo, block, bufLen, first, last, index, offset, file,
                   durable, published>>
SyncFile ==
    /\ bpc = "sync"
    /\ durable' = TRUE
    /\ bpc' = "rename"
    /\ UNCHANGED <<source, todo, block, bufLen, first, last, index, offset, file,
                   published>>

Rename ==
    /\ bpc = "rename"
    /\ published' = TRUE
    /\ bpc' = "dir"
    /\ UNCHANGED <<source, todo, block, bufLen, first, last, index, offset, file,
                   durable>>

(* sync_dir, whose errors are ignored, and the size of the file.           *)
CreateReturns ==
    /\ bpc = "dir"
    /\ bpc' = "done"
    /\ UNCHANGED <<source, todo, block, bufLen, first, last, index, offset, file,
                   durable, published>>

(* A write, the sync, the rename or the final metadata call fails; what    *)
(* was written stays where it is.                                          *)
CreateFails ==
    /\ bpc \in {"entries", "tail", "sync", "rename", "dir"}
    /\ bpc' = "failed"
    /\ UNCHANGED <<source, todo, block, bufLen, first, last, index, offset, file,
                   durable, published>>

(* A power loss: of a file that was not synced any part may be missing.    *)
(* The rename may be undone, for whether the sync of the directory worked  *)
(* is not looked at.                                                       *)
CrashImages ==
    IF durable THEN {file}
    ELSE {EmptyFile} \union
         [len : {file.len}, blocks : SUBSET file.blocks, indexes : SUBSET file.indexes,
          filters : SUBSET file.filters, footers : SUBSET file.footers]
PowerLoss ==
    /\ bpc \notin {"idle", "crashed"}
    /\ file' \in CrashImages
    /\ published' \in {published, FALSE}
    /\ bpc' = "crashed"
    /\ UNCHANGED <<source, todo, block, bufLen, first, last, index, offset, durable>>

BuildNext ==
    \/ AddEntry \/ FinishBlocks \/ WriteTail \/ SyncFile \/ Rename
    \/ CreateReturns \/ CreateFails \/ PowerLoss

SsTableSpec ==
    /\ CreateInit
    /\ [][(\E t \in Table : CreateStart(t)) \/ BuildNext]_ssVars

-----------------------------------------------------------------------------
(* Reading a table.  An Option is the empty set or a set of one element.   *)

(* What create returns.                                                    *)
CreatedTable == [index |-> index, filter |-> FilterOf(DOMAIN source),
                 small |-> Smallest(source), large |-> Largest(source)]

(* SsTable::open: the tables a file can be opened as; none if the footer,  *)
(* the index or the filter are not where they should be.                   *)
Footers(f) == {x \in f.footers : x.at + FooterLen = f.len}
(* decode_index and the decode of the filter: what was written there.      *)
IndexesAt(f, x) == {i \in f.indexes : i.at = x.indexAt /\ i.length = x.indexLen}
FiltersAt(f, x) == {y \in f.filters : y.at = x.filterAt /\ y.length = x.filterLen
                                         /\ Decodable(y.filter)}
OpenedTables(f) ==
    UNION {{[index |-> i.index, filter |-> y.filter,
             small |-> i.index[1].first, large |-> i.index[Len(i.index)].last] :
               i \in IndexesAt(f, x), y \in FiltersAt(f, x)} :
           x \in Footers(f)}

InRange(t, k) ==
    /\ ~(t.small = EmptyKey /\ t.large = EmptyKey /\ Len(t.index) = 1)
    /\ t.small <= k /\ k <= t.large

(* block_for_key: the rows whose range has the key.  The binary search is  *)
(* right when the rows are in ascending order.                             *)
BlocksFor(t, k) == {i \in DOMAIN t.index : t.index[i].first <= k /\ k <= t.index[i].last}
Ascending(t) ==
    \A i, j \in DOMAIN t.index : i < j => t.index[i].last < t.index[j].first

(* read_data_block.                                                        *)
ReadBlock(f, row) ==
    {b.entries : b \in {c \in f.blocks : c.at = row.offset /\ c.length = row.length}}

(* SsTable::get: the entries found, and whether a block cannot be read.    *)
SsGet(t, f, k) ==
    IF InRange(t, k) /\ MightContain(t.filter, k)
    THEN {b[k] : b \in {c \in UNION {ReadBlock(f, t.index[i]) : i \in BlocksFor(t, k)} :
                            k \in DOMAIN c}}
    ELSE {}

-----------------------------------------------------------------------------
(* Whenever a file has its final name, even after an error or a power      *)
(* loss, open finds the table that create returned, its index can be       *)
(* searched by bisection, get returns the entry of every key and nothing   *)
(* for the other keys, and the iterator walks over all the entries once,   *)
(* in key order.                                                           *)
PublishedExact ==
    published =>
        /\ OpenedTables(file) = {CreatedTable}
        /\ Ascending(CreatedTable)
        /\ \A k \in Keys : SsGet(CreatedTable, file, k) =
                             IF k \in DOMAIN source THEN {source[k]} ELSE {}
        /\ \A i \in DOMAIN index :
              ReadBlock(file, index[i]) =
                {[k \in {j \in DOMAIN source : index[i].first <= j /\ j <= index[i].last}
                    |-> source[k]]}
        /\ \A k \in DOMAIN source : \E i \in DOMAIN index :
              index[i].first <= k /\ k <= index[i].last
=============================================================================
