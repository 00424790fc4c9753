------------------------------- MODULE Engine -------------------------------
(***************************************************************************)
(* The storage engine: one thread that owns the Engine handle (the writer),*)
(* the background compaction worker, the write-ahead log, the manifest and *)
(* the SSTable files, with I/O failures, process kills and power losses.   *)
(*                                                                         *)
(* A step is what the code does between two points where another thread or *)
(* a crash can intervene: one file-system effect or one critical section.  *)
(***************************************************************************)
EXTENDS Wal, Manifest

CONSTANTS
    MaxLevelsChoices,   \* values of Options::max_levels an open may use
    Faults,             \* the environment's faults (see FaultKinds)
    MaxCalls,           \* bound: put, delete, flush, compact and close calls
    MaxOpens,           \* bound: opens of the database
    MaxFaults,          \* bound: failing I/O operations
    UserCompacts        \* whether the caller also uses Engine::compact

(* kill, power: the process is killed, the machine loses power.            *)
(* install: they may also strike while a compaction rewrites the manifest. *)
(* tear: an interrupted or failed write may leave part of a record.        *)
(* dirty: a failed manifest append may have reached the file.              *)
(* The others name the operation that may return an error.                 *)
FaultKinds ==
    {"kill", "power", "install", "tear", "dirty",
     "wal_append", "wal_sync", "wal_truncate",
     "flush_id", "flush_create", "flush_add",
     "compact_id", "compact_create", "compact_add", "compact_remove"}

ASSUME BoundsAssumption ==
    /\ MaxLevelsChoices \subseteq Nat \ {0}
    /\ Faults \subseteq FaultKinds
    /\ MaxCalls \in Nat /\ MaxOpens \in Nat /\ MaxFaults \in Nat
    /\ UserCompacts \in BOOLEAN

VARIABLES
    files,        \* the SSTable files: table id -> content
    status,       \* "down", "up", or "broken" when an open failed
    maxLevels,    \* Options::max_levels of the running engine
    mem,          \* Engine::memtable
    imm,          \* Engine::immutable, EmptyTable for None
    version,      \* SharedState::version
    manLock,      \* the holder of SharedState::manifest across several steps
    queue,        \* the channel to the compaction worker
    workerUp,     \* whether the worker thread is in its loop
    lastError,    \* whether SharedState::last_error is set
    wpc,          \* where the writer is
    pending,      \* the operation Engine::write is working on
    flushId,      \* the id of the table being flushed
    cpc,          \* where each compactor is
    job,          \* the locals of each compactor's compact_once
    acked,        \* history: the newest acknowledged entry of each key
    maybe,        \* history: entries of later writes with an unknown outcome
    calls, opens, faults   \* bounded counters

memVars == <<status, maxLevels, mem, imm, version, manLock, queue, workerUp,
             lastError, wpc, pending, flushId, cpc, job>>
diskVars == <<files, walVars, manFile, manSynced>>
historyVars == <<acked, maybe>>
counters == <<calls, opens, faults>>
vars == <<memVars, nextTableId, manTables, diskVars, historyVars, counters>>

Compactors == {"worker", "caller"}
NoOperation == [kind |-> "none", key |-> EmptyKey, entry |-> Tombstone]
NoJob == [inputs |-> {}, snapshot |-> {}, level |-> 0, id |-> 0, todo |-> {}]

WriterPc == {"idle", "sync", "alloc", "create", "add", "install", "truncate",
             "compact", "closing"}
CompactorPc == {"idle", "alloc", "merge", "add", "remove", "apply", "delete"}

(* The state is well formed: in particular the maps of the files and the   *)
(* memtables hold only keys and entries a caller wrote, and a compactor's  *)
(* locals are handles.                                                     *)
TypeOK ==
    /\ WalTypeOK
    /\ ManifestTypeOK
    /\ DOMAIN files \subseteq Nat /\ \A i \in DOMAIN files : files[i] \in Table
    /\ status \in {"down", "up", "broken"}
    /\ maxLevels \in Nat \ {0}
    /\ mem \in Table /\ imm \in Table
    /\ version \subseteq Handle /\ IsFiniteSet(version)
    /\ manLock \in Compactors \union {"none"}
    /\ queue \in Seq({"Compact", "Shutdown"})
    /\ workerUp \in BOOLEAN /\ lastError \in BOOLEAN
    /\ wpc \in WriterPc
    /\ pending \in Operation \union {NoOperation}
    /\ flushId \in Nat
    /\ cpc \in [Compactors -> CompactorPc]
    /\ job \in [Compactors -> [inputs : SUBSET Handle, snapshot : SUBSET Handle,
                               level : Nat, id : Nat, todo : SUBSET Handle]]
    /\ \A c \in Compactors : IsFiniteSet(job[c].inputs)
    /\ acked \in [Keys -> Entry] /\ maybe \in [Keys -> SUBSET Entry]
    /\ calls \in Nat /\ opens \in Nat /\ faults \in Nat

Init ==
    /\ WalInit /\ ManifestInit
    /\ files = [i \in {} |-> EmptyTable]
    /\ status = "down" /\ maxLevels = 1
    /\ mem = EmptyTable /\ imm = EmptyTable /\ version = {}
    /\ manLock = "none" /\ queue = <<>> /\ workerUp = FALSE /\ lastError = FALSE
    /\ wpc = "idle" /\ pending = NoOperation /\ flushId = 0
    /\ cpc = [c \in Compactors |-> "idle"] /\ job = [c \in Compactors |-> NoJob]
    /\ acked = [k \in Keys |-> Tombstone] /\ maybe = [k \in Keys |-> {}]
    /\ calls = 0 /\ opens = 0 /\ faults = 0

-----------------------------------------------------------------------------
(* Open, close and crash *)

(* A call of the user, and a failing I/O operation, within their bounds.   *)
Call == calls < MaxCalls /\ calls' = calls + 1
Fails(kind) == kind \in Faults /\ faults < MaxFaults /\ faults' = faults + 1

(* The tables the manifest names, clamped to the levels there are.  L0 is  *)
(* reversed, so a later add is searched first.                             *)
OpenedVersion_OffByOne(m) ==
    {HandleOf(t.id, files[t.id], Min({t.level, m - 2}), t.pos) :
        t \in RecoveredTables(manFile)}
OpenedVersion(m) ==
    {HandleOf(t.id, files[t.id], Min({t.level, m - 1}), t.pos) :
        t \in RecoveredTables(manFile)}

Openable ==
    /\ ManifestReadable(manFile)
    /\ \A t \in RecoveredTables(manFile) : t.id \in DOMAIN files

Open(m) ==
    /\ status = "down" /\ opens < MaxOpens
    /\ Openable
    /\ Recover
    /\ status' = "up" /\ maxLevels' = m /\ version' = OpenedVersion(m)
    /\ mem' = ReplayMemtable(walFile) /\ imm' = EmptyTable
    /\ workerUp' = TRUE
    /\ opens' = opens + 1
    /\ UNCHANGED <<files, walVars, manLock, queue, lastError, wpc, pending, flushId,
                   cpc, job, historyVars, calls, faults>>

OpenFails ==
    /\ status = "down" /\ opens < MaxOpens
    /\ Openable => ManifestMayFail(manFile) \/ ReplayMayFail(walFile)
    /\ status' = "broken"
    /\ opens' = opens + 1
    /\ UNCHANGED <<maxLevels, mem, imm, version, manLock, queue, workerUp, lastError,
                   wpc, pending, flushId, cpc, job, nextTableId, manTables,
                   diskVars, historyVars, calls, faults>>

(* Everything in memory is gone.                                           *)
StopProcess ==
    /\ status' = "down" /\ maxLevels' = 1
    /\ mem' = EmptyTable /\ imm' = EmptyTable /\ version' = {}
    /\ nextTableId' = 1 /\ manTables' = {}
    /\ manLock' = "none" /\ queue' = <<>> /\ workerUp' = FALSE /\ lastError' = FALSE
    /\ wpc' = "idle" /\ pending' = NoOperation /\ flushId' = 0
    /\ cpc' = [c \in Compactors |-> "idle"] /\ job' = [c \in Compactors |-> NoJob]
    /\ UNCHANGED <<files, counters>>

(* The caller learns that op succeeded; or cannot tell, because the call   *)
(* was cut off or the error it got may be that of the flush behind op.     *)
Acknowledge(op) ==
    /\ acked' = [k \in Keys |-> IF k = op.key THEN op.entry ELSE acked[k]]
    /\ maybe' = [k \in Keys |-> IF k = op.key THEN {} ELSE maybe[k]]
Doubt(op) ==
    /\ maybe' = [k \in Keys |-> IF k = op.key THEN maybe[k] \union {op.entry}
                                               ELSE maybe[k]]
    /\ UNCHANGED acked

MayCrash == status = "up" /\ (manLock # "none" => "install" \in Faults)

Kill ==
    /\ "kill" \in Faults /\ MayCrash
    /\ StopProcess /\ Doubt(pending)
    /\ UNCHANGED <<walVars, manFile, manSynced>>

ManifestAppendPending ==
    \/ wpc \in {"alloc", "add"} /\ manLock = "none"
    \/ \E c \in Compactors : cpc[c] \in {"alloc", "add", "remove"}
                               /\ manLock \in {"none", c}

PowerLoss ==
    /\ "power" \in Faults /\ MayCrash
    /\ StopProcess /\ Doubt(pending)
    /\ walFile' \in WalImages("tear" \in Faults)
    /\ walDurable' = walFile'
    /\ manFile' \in ManifestImages(ManifestAppendPending, "tear" \in Faults)
    /\ manSynced' = Len(manFile')

(* close, or drop without close: the worker is told to stop and joined.    *)
(* close then syncs the log, which may fail; drop does not.                *)
Close ==
    /\ status = "up" /\ wpc = "idle" /\ Call
    /\ queue' = Append(queue, "Shutdown") /\ wpc' = "closing"
    /\ UNCHANGED <<status, maxLevels, mem, imm, version, manLock, workerUp, lastError,
                   pending, flushId, cpc, job, nextTableId, manTables,
                   diskVars, historyVars, opens, faults>>
CloseReturns ==
    /\ wpc = "closing" /\ ~ workerUp
    /\ StopProcess
    /\ walDurable' \in {walFile, walDurable}
    /\ UNCHANGED <<walFile, manFile, manSynced, historyVars>>

-----------------------------------------------------------------------------
(* The writer: Engine::put, delete and flush.  An operation that fails     *)
(* returns at once (the `?' of the code) and leaves the rest as it is; in  *)
(* particular a failed flush leaves the frozen memtable in `imm'.          *)

(* What a failed manifest append of `record' may leave in the file.        *)
Residues(record) ==
    {<<>>} \union (IF "dirty" \in Faults THEN {<<record>>} ELSE {})
           \union (IF "tear" \in Faults THEN {<<TornRecord>>} ELSE {})

Write(op) ==
    /\ status = "up" /\ wpc = "idle" /\ Call
    /\ WalAppend(<<op>>)
    /\ pending' = op /\ wpc' = "sync"
    /\ UNCHANGED <<status, maxLevels, mem, imm, version, manLock, queue, workerUp,
                   lastError, flushId, cpc, job, manVars, files, historyVars,
                   opens, faults>>

(* A failed append is not visible after a restart (README.md), so it       *)
(* leaves no doubt.                                                        *)
WriteFails(op) ==
    /\ status = "up" /\ wpc = "idle" /\ Call /\ Fails("wal_append")
    /\ \E left \in {<<>>} \union (IF "tear" \in Faults THEN {<<TornWrite>>} ELSE {}) :
          WalAppend(left)
    /\ UNCHANGED <<memVars, manVars, files, historyVars, opens>>

(* The call in progress returns; the writer is free again.  An error that  *)
(* comes from the flush behind a write leaves its outcome open.            *)
Return == wpc' = "idle" /\ pending' = NoOperation
ReturnOk == Return /\ Acknowledge(pending) /\ UNCHANGED faults
ReturnErr == Return /\ Doubt(pending)

(* wal.sync, apply, and on to the flush when the memtable is full.         *)
SyncWrite ==
    /\ wpc = "sync"
    /\ WalSync
    /\ mem' = Insert(mem, pending.key, pending.entry)
    /\ IF ApproximateSize(mem') >= MemtableSizeBytes
       THEN wpc' = "alloc" /\ UNCHANGED <<pending, historyVars, faults>>
       ELSE ReturnOk
    /\ UNCHANGED <<status, maxLevels, imm, version, manLock, queue, workerUp, lastError,
                   flushId, cpc, job, manVars, files, calls, opens>>

(* Nor does a failed sync, although the record stays in the file.          *)
SyncWriteFails ==
    /\ wpc = "sync" /\ Fails("wal_sync")
    /\ Return
    /\ UNCHANGED <<status, maxLevels, mem, imm, version, manLock, queue, workerUp,
                   lastError, flushId, cpc, job, manVars, walVars, files, historyVars,
                   calls, opens>>

(* maybe_request_compaction *)
RequestCompaction_OffByOne ==
    queue' = IF Cardinality(Level(version, 0)) > L0CompactionTrigger
             THEN Append(queue, "Compact") ELSE queue
RequestCompaction ==
    queue' = IF Cardinality(Level(version, 0)) >= L0CompactionTrigger
             THEN Append(queue, "Compact") ELSE queue

(* Engine::flush called by the user.                                       *)
Flush ==
    /\ status = "up" /\ wpc = "idle" /\ Call
    /\ IF DOMAIN mem = {}
       THEN WalSync /\ RequestCompaction /\ UNCHANGED wpc
       ELSE wpc' = "alloc" /\ UNCHANGED <<walVars, queue>>
    /\ UNCHANGED <<status, maxLevels, mem, imm, version, manLock, workerUp, lastError,
                   pending, flushId, cpc, job, manVars, files, historyVars,
                   opens, faults>>

(* With nothing to flush, its only failure is that of the sync.            *)
FlushSyncFails ==
    /\ status = "up" /\ wpc = "idle" /\ Call /\ Fails("wal_sync")
    /\ DOMAIN mem = {}
    /\ UNCHANGED <<memVars, manVars, walVars, files, historyVars, opens>>

(* The memtable is frozen, whatever the immutable slot held before.        *)
Freeze == imm' = mem /\ mem' = EmptyTable

FlushAlloc ==
    /\ wpc = "alloc" /\ manLock = "none"
    /\ Freeze
    /\ NextTableId
    /\ flushId' = nextTableId /\ wpc' = "create"
    /\ UNCHANGED <<status, maxLevels, version, manLock, queue, workerUp, lastError,
                   pending, cpc, job, walVars, files, historyVars, counters>>

FlushAllocFails ==
    /\ wpc = "alloc" /\ manLock = "none" /\ Fails("flush_id")
    /\ Freeze
    /\ \E left \in Residues(SetNextTableId(nextTableId + 1)) : NextTableIdFails(left)
    /\ ReturnErr
    /\ UNCHANGED <<status, maxLevels, version, manLock, queue, workerUp, lastError,
                   flushId, cpc, job, walVars, files, calls, opens>>

(* SsTable::create: temporary file, fsync, rename, fsync of the directory. *)
(* The error of the last one is ignored; it is taken to succeed.           *)
CreateFile(id, t) ==
    files' = [i \in DOMAIN files \union {id} |-> IF i = id THEN t ELSE files[i]]

FlushCreate ==
    /\ wpc = "create"
    /\ CreateFile(flushId, imm)
    /\ wpc' = "add"
    /\ UNCHANGED <<status, maxLevels, mem, imm, version, manLock, queue, workerUp,
                   lastError, pending, flushId, cpc, job, manVars, walVars,
                   historyVars, counters>>

(* The file is there already when the error is that of its metadata, which *)
(* are read after the rename.                                              *)
FlushCreateFails ==
    /\ wpc = "create" /\ Fails("flush_create")
    /\ \E renamed \in BOOLEAN :
          IF renamed THEN CreateFile(flushId, imm) ELSE UNCHANGED files
    /\ ReturnErr
    /\ UNCHANGED <<status, maxLevels, mem, imm, version, manLock, queue, workerUp,
                   lastError, flushId, cpc, job, manVars, walVars, calls, opens>>

FlushAdd ==
    /\ wpc = "add" /\ manLock = "none"
    /\ AddActive(flushId, 0)
    /\ wpc' = "install"
    /\ UNCHANGED <<status, maxLevels, mem, imm, version, manLock, queue, workerUp,
                   lastError, pending, flushId, cpc, job, walVars, files,
                   historyVars, counters>>

FlushAddFails ==
    /\ wpc = "add" /\ manLock = "none" /\ Fails("flush_add")
    /\ \E left \in Residues(AddTable(flushId, 0)) : ChangeFails(left)
    /\ ReturnErr
    /\ UNCHANGED <<status, maxLevels, mem, imm, version, manLock, queue, workerUp,
                   lastError, flushId, cpc, job, walVars, files, calls, opens>>

FlushInstall ==
    /\ wpc = "install"
    /\ version' = version \union
                    {HandleOf(flushId, files[flushId], 0, FrontStamp(version))}
    /\ wpc' = "truncate"
    /\ UNCHANGED <<status, maxLevels, mem, imm, manLock, queue, workerUp, lastError,
                   pending, flushId, cpc, job, manVars, walVars, files,
                   historyVars, counters>>

FlushTruncate ==
    /\ wpc = "truncate"
    /\ WalTruncate
    /\ imm' = EmptyTable
    /\ RequestCompaction
    /\ ReturnOk
    /\ UNCHANGED <<status, maxLevels, mem, version, manLock, workerUp, lastError,
                   flushId, cpc, job, manVars, files, calls, opens>>

FlushTruncateFails ==
    /\ wpc = "truncate" /\ Fails("wal_truncate")
    /\ \E cut \in BOOLEAN : IF cut THEN WalTruncateUnsynced ELSE UNCHANGED walVars
    /\ ReturnErr
    /\ UNCHANGED <<status, maxLevels, mem, imm, version, manLock, queue, workerUp,
                   lastError, flushId, cpc, job, manVars, files, calls, opens>>

-----------------------------------------------------------------------------
(* Compaction: compact_once, run by the worker for every Compact message   *)
(* and by the caller in Engine::compact.  Nothing keeps the two apart but  *)
(* the locks taken inside.                                                 *)

StartJob(c) ==
    LET pick == PickCompaction(version, maxLevels)
    IN  IF pick.inputs = {}
        THEN UNCHANGED <<cpc, job>>
        ELSE /\ cpc' = [cpc EXCEPT ![c] = "alloc"]
             /\ job' = [job EXCEPT ![c] =
                          [inputs |-> pick.inputs, snapshot |-> version,
                           level |-> pick.level, id |-> 0, todo |-> pick.inputs]]

WorkerTakes ==
    /\ workerUp /\ cpc["worker"] = "idle"
    /\ queue # <<>> /\ Head(queue) = "Compact"
    /\ queue' = Tail(queue)
    /\ StartJob("worker")
    /\ UNCHANGED <<status, maxLevels, mem, imm, version, manLock, workerUp, lastError,
                   wpc, pending, flushId, manVars, walVars, files, historyVars, counters>>

WorkerStops ==
    /\ workerUp /\ cpc["worker"] = "idle"
    /\ queue # <<>> /\ Head(queue) = "Shutdown"
    /\ queue' = Tail(queue) /\ workerUp' = FALSE
    /\ UNCHANGED <<status, maxLevels, mem, imm, version, manLock, lastError, wpc,
                   pending, flushId, cpc, job, manVars, walVars, files,
                   historyVars, counters>>

Compact ==
    /\ UserCompacts /\ status = "up" /\ wpc = "idle" /\ Call
    /\ StartJob("caller")
    /\ wpc' = IF cpc'["caller"] = "idle" THEN "idle" ELSE "compact"
    /\ UNCHANGED <<status, maxLevels, mem, imm, version, manLock, queue, workerUp,
                   lastError, pending, flushId, manVars, walVars, files,
                   historyVars, opens, faults>>

(* compact_once returns: the worker takes its next message and records an  *)
(* error, the caller's Engine::compact returns.                            *)
Finish(c, failed) ==
    /\ cpc' = [cpc EXCEPT ![c] = "idle"]
    /\ job' = [job EXCEPT ![c] = NoJob]
    /\ wpc' = IF c = "caller" THEN "idle" ELSE wpc
    /\ lastError' = (lastError \/ (failed /\ c = "worker"))

CompactAlloc(c) ==
    /\ cpc[c] = "alloc" /\ manLock = "none"
    /\ NextTableId
    /\ job' = [job EXCEPT ![c].id = nextTableId]
    /\ cpc' = [cpc EXCEPT ![c] = "merge"]
    /\ UNCHANGED <<status, maxLevels, mem, imm, version, manLock, queue, workerUp,
                   lastError, wpc, pending, flushId, walVars, files, historyVars,
                   counters>>

CompactAllocFails(c) ==
    /\ cpc[c] = "alloc" /\ manLock = "none" /\ Fails("compact_id")
    /\ \E left \in Residues(SetNextTableId(nextTableId + 1)) : NextTableIdFails(left)
    /\ Finish(c, TRUE)
    /\ UNCHANGED <<status, maxLevels, mem, imm, version, manLock, queue, workerUp,
                   pending, flushId, walVars, files, historyVars, calls, opens>>

(* The content of the output: the inputs are read and merged.              *)
Output(c) ==
    Merge(job[c].inputs, files,
          DropTombstones(job[c].snapshot, job[c].inputs, job[c].level, maxLevels))

CompactMerge(c) ==
    /\ cpc[c] = "merge"
    /\ CreateFile(job[c].id, Output(c))
    /\ cpc' = [cpc EXCEPT ![c] = "add"]
    /\ UNCHANGED <<status, maxLevels, mem, imm, version, manLock, queue, workerUp,
                   lastError, wpc, pending, flushId, job, manVars, walVars,
                   historyVars, counters>>

CompactMergeFails(c) ==
    /\ cpc[c] = "merge" /\ Fails("compact_create")
    /\ \E renamed \in BOOLEAN :
          IF renamed THEN CreateFile(job[c].id, Output(c)) ELSE UNCHANGED files
    /\ Finish(c, TRUE)
    /\ UNCHANGED <<status, maxLevels, mem, imm, version, manLock, queue, workerUp,
                   pending, flushId, manVars, walVars, historyVars, calls, opens>>

(* The output is added and the inputs removed one after the other under    *)
(* one lock of the manifest, which is held until the last removal.         *)
CompactAdd(c) ==
    /\ cpc[c] = "add" /\ manLock = "none"
    /\ AddActive(job[c].id, job[c].level)
    /\ manLock' = c
    /\ cpc' = [cpc EXCEPT ![c] = "remove"]
    /\ UNCHANGED <<status, maxLevels, mem, imm, version, queue, workerUp, lastError,
                   wpc, pending, flushId, job, walVars, files, historyVars, counters>>

CompactAddFails(c) ==
    /\ cpc[c] = "add" /\ manLock = "none" /\ Fails("compact_add")
    /\ \E left \in Residues(AddTable(job[c].id, job[c].level)) : ChangeFails(left)
    /\ Finish(c, TRUE)
    /\ UNCHANGED <<status, maxLevels, mem, imm, version, manLock, queue, workerUp,
                   pending, flushId, walVars, files, historyVars, calls, opens>>

(* The guard of the manifest goes out of scope.                            *)
Unlock_Forgotten == UNCHANGED manLock
Unlock == manLock' = "none"

CompactRemove(c) ==
    /\ cpc[c] = "remove"
    /\ LET h == First(job[c].todo)
           rest == job[c].todo \ {h}
       IN  /\ RemoveActive(h.id)
           /\ job' = [job EXCEPT ![c].todo = rest]
           /\ IF rest = {} THEN Unlock ELSE UNCHANGED manLock
           /\ cpc' = [cpc EXCEPT ![c] = IF rest = {} THEN "apply" ELSE "remove"]
    /\ UNCHANGED <<status, maxLevels, mem, imm, version, queue, workerUp, lastError,
                   wpc, pending, flushId, walVars, files, historyVars, counters>>

CompactRemoveFails(c) ==
    /\ cpc[c] = "remove" /\ Fails("compact_remove")
    /\ \E left \in Residues(RemoveTable(First(job[c].todo).id)) : ChangeFails(left)
    /\ Unlock
    /\ Finish(c, TRUE)
    /\ UNCHANGED <<status, maxLevels, mem, imm, version, queue, workerUp, pending,
                   flushId, walVars, files, historyVars, calls, opens>>

(* apply_compaction on the version as it is now, which a flush may have    *)
(* changed since the snapshot.                                             *)
InstallOutput(c) ==
    LET kept == {h \in version : h.id \notin Ids(job[c].inputs)}
    IN  kept \union {HandleOf(job[c].id, files[job[c].id], job[c].level,
                              BackStamp(kept, job[c].level))}

CompactApply(c) ==
    /\ cpc[c] = "apply"
    /\ version' = InstallOutput(c)
    /\ cpc' = [cpc EXCEPT ![c] = "delete"]
    /\ UNCHANGED <<status, maxLevels, mem, imm, manLock, queue, workerUp, lastError,
                   wpc, pending, flushId, job, manVars, walVars, files,
                   historyVars, counters>>

(* Arc::strong_count: the version, and for every running compaction its    *)
(* inputs and the clone of the version it started from.                    *)
StrongCount(id) ==
    Cardinality({v \in {"version"} : id \in Ids(version)})
      + Cardinality({d \in Compactors : id \in Ids(job[d].inputs)})
      + Cardinality({d \in Compactors : id \in Ids(job[d].snapshot)})

Deletable_AllInputs(c) == Ids(job[c].inputs)
Deletable(c) == {i \in Ids(job[c].inputs) : StrongCount(i) = 1}

CompactDelete(c) ==
    /\ cpc[c] = "delete"
    /\ files' = [i \in DOMAIN files \ Deletable(c) |-> files[i]]
    /\ Finish(c, FALSE)
    /\ UNCHANGED <<status, maxLevels, mem, imm, version, manLock, queue, workerUp,
                   pending, flushId, manVars, walVars, historyVars, counters>>

-----------------------------------------------------------------------------
(* Steps the process takes by itself once a call or a message has started  *)
(* them, calls of the user, and what the environment does.                 *)

WriterSteps ==
    \/ SyncWrite \/ FlushAlloc \/ FlushCreate \/ FlushAdd \/ FlushInstall
    \/ FlushTruncate \/ CloseReturns

CompactorSteps(c) ==
    \/ CompactAlloc(c) \/ CompactMerge(c) \/ CompactAdd(c) \/ CompactRemove(c)
    \/ CompactApply(c) \/ CompactDelete(c)

UserCalls ==
    \/ \E m \in MaxLevelsChoices : Open(m)
    \/ \E op \in Operation : Write(op)
    \/ Flush \/ Compact \/ Close

FailingSteps ==
    \/ OpenFails
    \/ \E op \in Operation : WriteFails(op)
    \/ SyncWriteFails \/ FlushSyncFails \/ FlushAllocFails \/ FlushCreateFails
    \/ FlushAddFails \/ FlushTruncateFails
    \/ \E c \in Compactors : \/ CompactAllocFails(c) \/ CompactMergeFails(c)
                             \/ CompactAddFails(c) \/ CompactRemoveFails(c)

Next ==
    \/ WriterSteps \/ UserCalls
    \/ WorkerTakes \/ WorkerStops
    \/ \E c \in Compactors : CompactorSteps(c)
    \/ FailingSteps
    \/ Kill \/ PowerLoss

Spec == Init /\ [][Next]_vars

(* The two threads keep running; the user owes nothing and may stop        *)
(* calling.  std's Mutex hands the manifest over in the end because every  *)
(* holder releases it after finitely many steps.                           *)
FairSpec ==
    /\ Spec
    /\ WF_vars(WriterSteps)
    /\ WF_vars(CompactorSteps("caller"))
    /\ WF_vars(WorkerTakes \/ WorkerStops \/ CompactorSteps("worker"))

-----------------------------------------------------------------------------
(* Reads *)

(* Engine::get, Tombstone for None.  It runs to its end under the read     *)
(* lock of the version, so it sees one state.                              *)
Get(k) ==
    IF k \in DOMAIN mem THEN mem[k]
    ELSE IF k \in DOMAIN imm THEN imm[k]
    ELSE Find(version, files, k)

-----------------------------------------------------------------------------
(* Safety *)

(* Reads are linearizable and acknowledged writes durable: whatever the    *)
(* flush and the compaction are doing, and after every restart, get(k)     *)
(* returns the entry of the newest acknowledged write of k, or that of a   *)
(* later write that is under way, was cut off or was answered with the     *)
(* error of a flush.  A write whose append or sync failed is not among     *)
(* them (Engine::write, flush_memtable, open_with, compact_once).          *)
ReadsLatest ==
    status = "up" =>
        \A k \in Keys :
            Get(k) \in {acked[k]} \union maybe[k]
                         \union (IF pending.key = k THEN {pending.entry} ELSE {})

(* The same where a caller can look: get borrows the engine, so it runs    *)
(* only between the other calls.                                           *)
CallerReadsLatest ==
    (status = "up" /\ wpc = "idle") =>
        \A k \in Keys : Get(k) \in {acked[k]} \union maybe[k]

(* A crash never leaves a manifest that open_with refuses: "a truncated    *)
(* final record is dropped.  After a crash the engine reopens", README.md  *)
(* says of Manifest::append and recover.                                   *)
ManifestReopens == status = "broken" => ManifestReadable(manFile)

(* The engine opens again after its first crash or close, which may have   *)
(* cut the last record of either log short, if no append to them failed    *)
(* before (Manifest::recover, WalIterator::next, open_with).               *)
FirstReopenSucceeds == (opens <= 2 /\ faults = 0) => status # "broken"

(* Below L0 the key ranges of a level are disjoint, so at most one table   *)
(* of a level can hold a key and the order within the level is irrelevant  *)
(* (Version::levels, pick_compaction, apply_compaction).                   *)
LevelsDisjoint ==
    \A g, h \in version :
        (g # h /\ g.level = h.level /\ g.level > 0) => ~ Overlaps(g, h.small, h.large)

NoChangeUnderWay ==
    /\ status = "up" /\ wpc # "install"
    /\ \A c \in Compactors : cpc[c] \notin {"remove", "apply"}

(* When no change of the table set is under way, a reopen would load       *)
(* exactly the version that is in memory, in the same search order, and    *)
(* the manifest's memory agrees with its file (Manifest::recover against   *)
(* add_table, remove_tables and apply_compaction).                         *)
RestartAgrees ==
    NoChangeUnderWay =>
        /\ manTables = RecoveredTables(manFile)
        /\ LET opened == OpenedVersion(maxLevels)
               Reopened(h) == CHOOSE g \in opened : g.id = h.id
           IN  /\ {<<h.id, h.level>> : h \in version} = {<<h.id, h.level>> : h \in opened}
               /\ \A g, h \in version : Before(g, h) <=> Before(Reopened(g), Reopened(h))

(* The file of a table is there as long as anybody can still ask for it:   *)
(* a restart, a read, or a compaction that has yet to merge it             *)
(* (the removal of source files at the end of compact_once).               *)
LiveFilesExist ==
    /\ \A t \in RecoveredTables(manFile) : t.id \in DOMAIN files
    /\ Ids(version) \subseteq DOMAIN files
    /\ \A c \in Compactors : cpc[c] = "merge" => Ids(job[c].inputs) \subseteq DOMAIN files

(* A table file is never rewritten: an id is not used for a second file,   *)
(* not even after crashes and failed id allocations.  Every handle, and    *)
(* every block cached under its table id, relies on it                     *)
(* (Manifest::next_table_id, BlockCache).                                  *)
FilesImmutable ==
    [][\A i \in DOMAIN files \intersect DOMAIN files' : files'[i] = files[i]]_vars

-----------------------------------------------------------------------------
(* Liveness *)

(* Every call returns: neither thread waits for the other for ever, on the *)
(* manifest lock or in the join of close.                                  *)
CallsReturn == (wpc # "idle") ~> (wpc = "idle")

(* A flush that brings L0 to its trigger is followed by a compaction,      *)
(* although the worker takes one snapshot per message, flushes go on       *)
(* meanwhile and the caller may be compacting too, unless the worker has   *)
(* recorded an error or a flush has failed and left its memtable in the    *)
(* immutable slot.  With a single level the outputs stay in L0, and two    *)
(* compactions of the same tables may leave it as full as it was           *)
(* (maybe_request_compaction, worker_loop).                                *)
L0Full == status = "up" /\ Cardinality(Level(version, 0)) >= L0CompactionTrigger
L0Drains ==
    (L0Full /\ maxLevels > 1 /\ wpc = "truncate")
      ~> (~ L0Full \/ lastError \/ (wpc = "idle" /\ imm # EmptyTable))

-----------------------------------------------------------------------------
(* The inductive invariant behind FilesImmutable and LiveFilesExist.  Its  *)
(* heart is Reserved: a table id is used for a file only after a durable   *)
(* manifest record has moved the next id past it, so no recovery, from     *)
(* whatever a crash left of the log, can hand it out again.                *)

IsNextId(i) == manFile[i].kind = "next"
Reserved(x) == \E i \in 1 .. manSynced : IsNextId(i) /\ x < manFile[i].id

(* The next ids in the log only grow, and the memory is never behind them. *)
LogInv ==
    /\ manSynced <= Len(manFile)
    /\ \A i, j \in DOMAIN manFile :
          (i < j /\ IsNextId(i) /\ IsNextId(j)) => manFile[i].id <= manFile[j].id
    /\ status = "up" =>
          \A i \in DOMAIN manFile : IsNextId(i) => manFile[i].id <= nextTableId

(* A file that is about to be created has an id of its own.                *)
IdInv ==
    /\ \A x \in DOMAIN files : Reserved(x)
    /\ wpc = "create" => Reserved(flushId) /\ flushId \notin DOMAIN files
    /\ \A c \in Compactors :
          cpc[c] = "merge" => /\ Reserved(job[c].id)
                              /\ job[c].id \notin DOMAIN files
                              /\ wpc = "create" => flushId # job[c].id
    /\ \A c, d \in Compactors :
          (c # d /\ cpc[c] = "merge" /\ cpc[d] = "merge") => job[c].id # job[d].id

(* Whatever names a table names one whose file has been created.           *)
FileInv ==
    /\ \A i \in DOMAIN manFile : manFile[i].kind = "add" => manFile[i].id \in DOMAIN files
    /\ wpc \in {"add", "install"} => flushId \in DOMAIN files
    /\ Ids(version) \subseteq DOMAIN files
    /\ \A c \in Compactors :
          /\ cpc[c] \in {"add", "remove", "apply"} => job[c].id \in DOMAIN files
          /\ Ids(job[c].inputs) \subseteq DOMAIN files
          /\ job[c].inputs \subseteq job[c].snapshot

(* Where the threads are agrees with what they hold.                       *)
PcInv ==
    /\ workerUp => status = "up"
    /\ status # "up" => wpc = "idle" /\ \A c \in Compactors : cpc[c] = "idle"
    /\ wpc = "sync" => pending \in Operation
    /\ \A c \in Compactors :
          /\ job[c].todo \subseteq job[c].inputs
          /\ cpc[c] \in {"alloc", "merge", "add", "remove"} => job[c].todo # {}

Inv == TypeOK /\ PcInv /\ LogInv /\ IdInv /\ FileInv
=============================================================================
