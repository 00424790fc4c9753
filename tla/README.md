# Verification of the LSM storage engine

TLA+ modules that model the engine of this repository, TLC runs over small
instances of them, and theorems that TLAPS checks for every value of the
constants. Paths such as `engine.rs:259` are relative to `src/src/`.

## The system

One thread owns an `Engine` and calls `put`, `delete`, `get`, `flush`,
`compact`, `scan` and `close`; Rust's borrow rules keep those calls one after
the other. A second thread, the compaction worker, takes messages from a
channel and runs `compact_once`. They share the version (the tables of each
level, under a `RwLock`), the manifest (under a `Mutex`) and the block cache.

| Part | Source | What it does | Module |
|---|---|---|---|
| Engine | `engine.rs` | write path, flush, open, close, reads | `Engine`, `KVStore`, `EngineStore` |
| Compaction | `engine.rs`, `compaction.rs` | picks tables, merges them, installs the output | `Tables`, `Engine`, `MergeTables`, `CompactTables` |
| Worker | `compaction.rs` | thread, channel, shutdown, error slot | `Engine` |
| Write-ahead log | `wal.rs` | append, fsync, truncate, replay | `Wal`, `WalFields` |
| Record codec | `record.rs` | layout and checks of a log record | `WalFields` |
| Manifest | `manifest.rs` | append-only log of live tables and the next id | `Manifest` |
| Memtable | `memtable.rs` | sorted map, size estimate | `Tables` |
| SSTable | `sstable.rs` | immutable file: blocks, index, filter, footer | `SsTable`, `ReadPath`; `Tables` (by result) |
| Bloom filter | `bloom.rs` | skips negative lookups | `Bloom` |
| Block cache | `cache.rs` | LRU over decoded blocks | `BlockCache`, `ReadPath` |
| Range scan | `engine.rs` (`EngineIterator`) | merged iterator over all layers | `EngineScan` |
| Options, errors | `options.rs`, `error.rs` | parameters, error type | constants, early returns |
| Workload generator, benches | `bin/`, `benches/` | drivers | not modelled |

`PROJECT.json` lists the parts, the line each definition stands for and the
hazards of the code, each with the properties that would catch it.

## Modules

`Tables` holds the data and the pure functions. A memtable and the content of
an SSTable are finite maps from keys to entries. A version is a set of handles;
`level` and `stamp` say where in which vector of `Version::levels` a handle is,
and `Before` is the order of `tables_newest_first`. `Find` is the lookup over
the tables, `Merge` the newest-wins merge, `DropTombstones` the rule for
discarding deletions, `PickCompaction` the choice of a job. Sizes count one byte
for a key, one for a value and one for the rest of a file: only comparisons with
the limits matter.

`Wal` is the log file as a sequence of records and fragments, with the part of
it that an fsync made durable. A power loss leaves the durable part and some
records after it, the last of them possibly cut short.

`Manifest` is the manifest file in the same manner, with the memory image
(`nextTableId`, `manTables`) that `recover` rebuilds from it. A failed append
leaves nothing, a fragment or the whole record in the file. A whole record
behind a fragment makes the file unreadable; several fragments at the end may or
may not, as they are shorter or longer than a record together.

`Engine` composes them. The writer's program counter `wpc` and the compactors'
`cpc` cut each call into steps at the points where the other thread or a crash
can come in between: one file-system effect or one critical section per step.

| Code | Actions |
|---|---|
| `open_with` | `Open`, `OpenFails` |
| `put`, `delete`, `write` | `Write`, `SyncWrite`, then the flush when the memtable is full |
| `flush`, `flush_memtable` | `Flush`, `FlushAlloc`, `FlushCreate`, `FlushAdd`, `FlushInstall`, `FlushTruncate` (which also requests the compaction) |
| `compact`, `compact_once` | `Compact` or `WorkerTakes`, then `CompactAlloc`, `CompactMerge`, `CompactAdd`, `CompactRemove` (once per input, manifest locked), `CompactApply`, `CompactDelete` |
| worker loop, shutdown | `WorkerTakes`, `WorkerStops`, `Close`, `CloseReturns` |
| every `?` | an action with the suffix `Fails`, which returns and leaves the rest as it is |
| environment | `Kill`, `PowerLoss` |

`get` changes nothing and reads one state (it holds the read lock of the
version), so it is the operator `Get` that the properties apply to every state.
The history variables `acked` and `maybe` record what the caller knows: the
newest entry it was told is stored, and the entries of later writes whose outcome
it cannot know, because a crash cut them off or because the error they returned
is that of the flush they had set off, after their own sync. A write whose append
or sync failed is in neither: the repository's README says that it is not visible
after a restart.

`KVStore` is what the engine promises: a map that a single caller changes, one
write at a time, with an instant at which each write takes effect, and restarts
that keep what was acknowledged. A write fails before that instant, and nothing
is ever seen of it (`Fail`), or after it, and a restart may keep it or not
(`FailLate`). `EngineStore` maps the engine to it (`visible`
is what `Get` returns) and states that the engine implements it.

The parts that `Engine` takes as one step each have a module of their own, which
shows that the step is right:

| Module | Code | In `Engine` it is |
|---|---|---|
| `MergeTables` | `merge_tables`: heads, heap, winner, advance; a failing read | the operator `Merge` |
| `SsTable`, `Bloom` | `SsTable::create` entry by entry and block by block, with the index, filter, footer, sync and rename; `open`, `get` | a file that appears at once, with a content |
| `CompactTables` | `compact`: the merge, then the creation of its output | the action `CompactMerge` |
| `ReadPath`, `BlockCache` | `get_from_tables`, `SsTable::get`, `load_block`, by several threads; `BlockCache::get`, `insert`, `touch`, `evict_to_fit` | the operator `Find` |
| `WalFields` | `encode`, `decode`, `append`, and `WalIterator::next` over a file cut anywhere | records and fragments of `Wal` |

In `SsTable` a file is the set of parts written to it, each with its position and
length; a read finds a part only at exactly its position and length, as the
checksums see to. The writer's `offset` and the length of the file are separate
variables, so that the footer and the index say where the writer *believes* the
parts to be. In `ReadPath` any version change that a flush or a compaction can
make is one action, `Install`, and a filter may answer anything for a key that is
not in its table.

`EngineScan` composes the iterator with the whole of `Engine`: each of its turns
can be separated by any steps of the writer, the worker and a reopen.

| Code | Actions of `EngineScan` |
|---|---|
| `scan`, `EngineIterator::new` | `Scan` |
| `next`: one turn of its loop, the end, an error | `ScanTurn`, `ScanEnds`, `ScanTurnFails` |

`MCEngine`, `MCCompact`, `MCReads` and `MCReplay` are the instances for TLC. The
proofs are in eight modules: `TableProofs` (operators on tables), `LogProofs`
(steps of the manifest), `WriterProofs` (calls and flushes), `CompactionProofs`
(`compact_once` and the worker), `EngineTheorems` (open, crash, the end of a
compaction, and the engine's theorems), `MergeProofs`, `SsTableProofs` and
`ReadProofs`.

## Runs

Every bound (`MaxCalls`, `MaxOpens`, `MaxFaults`, `MaxInputs`, `MaxTables`,
`MaxReads`, `MaxAppends`, `MaxCrashes`) is a constant; because calls are bounded
the system may stop, so deadlock is not checked.

Runs that pass:

| Run | Checks | Instance and why it is enough |
|---|---|---|
| `crash` (`EngineCrash.cfg`) | `ImplementsKVStore` | Two keys, two values, a memtable of three bytes, so that some puts flush and some do not. Four calls, three opens: two crashes at any steps, with a failing append or truncation of the log before, between or after them. |
| `compaction` (`EngineCompaction.cfg`) | `RestartAgrees`, `ReadsLatest`, `LevelsDisjoint`, `ImplementsKVStore` | A memtable of one byte, a trigger and a multiplier of one: each of three writes of two keys is flushed and compacted, L1 goes over its limit into L2, and flushes add tables while the worker compacts. One power loss at any step outside the manifest's critical section, which may cut a record of either log short. |
| `faults` (`EngineFaults.cfg`) | `TypeOK`, `LiveFilesExist`, `FirstReopenSucceeds`, `FilesImmutable`, `CallsReturn`, `L0Drains` | Every fault, crashes at every step, both compactors, one or three levels, two opens. Both compactors and the flush compete for the manifest and `close` joins the worker. A trigger of two and three calls, so that a third flush or the caller's `compact` runs beside the worker. |
| `compact` (`Compact.cfg`) | `MergeExact`, `PublishedExact`, `CompactExact` | All inputs of up to three tables over three keys, with values and tombstones. Blocks close after one value or two tombstones, so that tables have no, one or several blocks and partial last ones; two keys share their filter bits, which gives a false positive. |
| `reads` (`Reads.cfg`) | `ReadExact`, `CacheSound`, `CacheAccounts`, `EvictsLeastRecent` | Two readers, four lookups, two tables with any layout of blocks, a cache of three bytes: too small for all blocks, and some blocks do not fit beside another. Lookups include a key between two blocks. |
| `scan` (`Scan.cfg`) | `ScanExact`, `ScanFilesExist` | Two keys, any bounds, three calls and a second open around one iterator; any read of it may fail. |
| `replay` (`Replay.cfg`) | `ImplementsWal`, `ReplayExact` | Three appends, each whole or cut after any field, syncs and truncations, two restarts by kill or power loss: fragments with records and further fragments behind them. |

Instances larger than those of the runs were checked once: `EngineFaults` with
four calls (2.0 million states), so that L0 fills again beside a compaction;
`EngineCompaction` with a memtable of two bytes and four calls (11.5 million);
`Reads` with three keys and three lookups (22.7 million), `Replay` with two keys,
and with four appends of one key.

Fairness (`FairSpec`): each of the two threads keeps taking steps while it can,
which is what the operating system's scheduler gives a runnable thread. A wait
for the manifest's mutex ends because each holder releases it after finitely
many steps and the instance has at most two other contenders. Nothing is assumed
of the caller, who may stop calling, or of the faults, which need not happen.

Where the code disagrees with what the repository says of it, a run exhibits the
disagreement. Each of them checks one property and TLC reports its violation:

| Run | Property | What happens |
|---|---|---|
| `flush_failure` | `CallerReadsLatest` | After a failed flush the next one overwrites the immutable memtable and truncates the log: acknowledged writes are lost (`engine.rs:259`, `engine.rs:296`). |
| `torn_log` | `CallerReadsLatest` | A skipped torn tail stays in the log and hides what is appended behind it (`wal.rs:77`). |
| `install_crash` | `CallerReadsLatest` | A crash between the manifest records of one compaction leaves an older input in front of the output (`engine.rs:428`). |
| `sync_failure` | `CallerReadsLatest` | A put whose sync failed is in the file and is read after a restart (`engine.rs:239`), although the repository's README says it is not visible. |
| `torn_manifest` | `ManifestReopens` | `recover` leaves a torn tail in the manifest and `append` writes behind it (`manifest.rs:145`): the open after the tear succeeds, the one after the append is refused. |

The passing runs about reads exclude the circumstances of these: `crash` has no
torn records, no failing sync and no failing table or manifest operation,
`compaction` has one crash and no failing operation, and the `install` fault (a
crash while a compaction rewrites the manifest) and the caller's `compact` appear
only in `faults`, whose properties are not about reads. `FirstReopenSucceeds` is
limited to the first reopen and to crashes alone: a failed append may leave a
fragment behind which the same process goes on to append.

More limits of what is claimed, met while modelling:

- An unsynced record that an open replayed is visible although a power loss after
  that may take it back. `KVStore` allows this, as the write was cut off and
  never acknowledged.
- `compact` beside the worker may merge overlapping inputs (`engine.rs:208`).
  Both outputs land in L1, and the older one can be searched first. The runs
  about reads leave `UserCompacts` off.
- After `next` of an iterator has returned an error the newer sources on that key
  have moved on and the older have not (`engine.rs:684`), so a caller that goes
  on gets an overwritten entry or a deleted key. `ScanExact` then claims the
  order of the keys only.
- Source files of a compaction are never removed: the clone of the version at
  `engine.rs:387` is in scope until the end, so the reference count at
  `engine.rs:438` is at least two. The theorem `SourcesNeverDeleted` proves it.
  `ScanFilesExist` rests on it, since an iterator does not hold its tables.
- `maybe_request_compaction` looks at L0 only (`engine.rs:308`), so `L0Drains`
  has no counterpart for the other levels: one that a compaction has pushed
  above its limit stays there until later flushes cause another pass. Nor is a
  request sent by an open that finds L0 full, or by a flush whose truncation
  fails; `L0Drains` speaks of flushes that succeed. With `max_levels = 1` outputs
  stay in L0, and when `compact` and the worker merge the same tables each leaves
  one there, so that L0 may stay at its trigger; `L0Drains` needs more levels.
- `LevelsDisjoint` needs the same `max_levels` at every open; a smaller one puts
  the tables of two levels into one (`engine.rs:116`).
- `RestartAgrees` needs more than one level. With `max_levels = 1` the output of
  a compaction is pushed behind a table flushed meanwhile (`engine.rs:519`),
  and a reopen searches it first.

## Proofs

`EngineTheorems` proves for all keys, values, options, faults and bounds:

- `TypeCorrect`: `TypeOK` is an invariant.
- `FilesExist`: `LiveFilesExist` is an invariant. A table is named by the
  manifest, by the version or by a compaction only once its file exists, and no
  named file is deleted.
- `FilesNeverRewritten`: `FilesImmutable`. An id is used for one file, whatever
  crashes and failed allocations do to the manifest. The block cache, which is
  keyed by table id, depends on it.
- `SourcesNeverDeleted`: the test of the reference count at the end of
  `compact_once` fails for every input in every reachable state.

They follow from `Invariance`, the inductive invariant `Inv`. None of the
properties is inductive by itself. That ids are not reused rests on what
recovery will find, so `Inv` speaks of the manifest's file: every id that has a
file, or is about to get one, is `Reserved`, which means that a *durable* record
has moved the next id past it. `LogInv` adds that the next ids in the file never
decrease and that the memory is not behind them, so any prefix that a power loss
leaves still recovers to an id above all files. `IdInv` keeps the ids in the
hands of the writer and of the two compactors apart. `FileInv` follows a table
from the creation of its file to the manifest and to the version. `PcInv` ties
the program counters to the data. There is one lemma per action.

`MergeProofs`, `SsTableProofs` and `ReadProofs` prove for all keys, values and
bounds:

- `MergeCorrect`: `MergeExact`, for any number of inputs. The invariant says that
  each input's keys are those already output or dropped, its head and its rest,
  in this order, and that the heap holds exactly the heads. The smallest key of
  the heap is then below all that is left, and the first input on it is the
  newest that has it.
- `PublishedCorrect`: `PublishedExact`, for any entries, block size, filter size
  and hashes. The invariant `SsInv` says which keys each row of the index stands
  for, that rows ascend, that the block of a row is where the row says, and that
  `offset` is the length of the file while blocks are written. A file has its
  final name only when it is whole and synced.
- `CompactCorrect`: `CompactExact`, from the two: what is merged is what is
  written, and what is written is what is found.
- `ReadsCorrect`: `ReadExact` and `CacheSound`, for any readers, tables, layouts
  and cache size. The invariant `ReadInv` says that the tables a reader has left
  decide as the whole version did, that the block it holds is that of its table,
  and that cached blocks are those of their files. `Install` gives every table a
  new id; that the engine does so is `FilesNeverRewritten`.

The assumptions are those on the constants: keys are a finite set of positive
naturals, `Tombstone` is not a value, the options are positive (a block size may
be zero), the bounds are naturals, `max_levels` is at least one, a filter has at
least eight bytes and between one and sixteen hashes, to which `BloomFilter::new`
clamps them. `TableProofs` has the facts about the operators of `Tables` (types
of merges, handles and choices of compactions).

Model-checked only: that the engine implements `KVStore`, the disjointness of
levels and the agreement after a restart, which need an invariant relating every
layer's entries to the history; the accounts and the eviction order of the cache;
scans; the refinement of `Wal` by `WalFields`; and liveness, which is beyond the
prover (fairness, `ENABLED`), as is induction over recursive definitions.

## Not modelled

- Bytes below fields and parts: the encoding of integers, and the manifest's
  17-byte records. A checksum is assumed to detect a cut or shifted record or
  part. The sizes of keys and values, and so the limits on them.
- The formulas for the size of a Bloom filter, which use floating-point
  logarithms, and its hash functions: constants, arbitrary in the proofs.
- Errors of the directory sync, which `sync_dir` ignores (`sstable.rs:572`). In
  `Engine` every created table file survives a power loss; `SsTable` lets a power
  loss before the sync undo the rename. With a sync that failed silently the
  manifest could name a table that is not there.
- The directory entry of `wal.log`, which no call makes durable for a new
  database, and file systems that drop dirty pages after a failed fsync.
- Options of zero, which the code does not refuse.
- Panics: a poisoned lock ends the process.
- Read-only accessors, statistics counters, the workload generator, benches.
