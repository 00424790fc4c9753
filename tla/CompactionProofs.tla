-------------------------- MODULE CompactionProofs --------------------------
(***************************************************************************)
(* The steps of compact_once up to the update of the manifest preserve the *)
(* invariant, whoever runs it, and so does the loop of the worker.         *)
(***************************************************************************)
EXTENDS LogProofs

LEMMA WorkerStopsInv == ASSUME Inv, WorkerStops PROVE Inv'
<1> USE DEF WorkerStops, historyVars, counters, walVars
<1>1. queue' \in Seq({"Compact", "Shutdown"})
  BY QueueType DEF Inv, TypeOK
<1>2. TypeOK'
  BY <1>1, Kept DEF Inv, TypeOK, WalTypeOK
<1>3. PcInv'
  BY DEF Inv, PcInv
<1> QED BY <1>2, <1>3, Kept, IdsKept DEF Inv

(* The locals compact_once starts with.                                    *)
JobType == [inputs : SUBSET Handle, snapshot : SUBSET Handle, level : Nat, id : Nat,
            todo : SUBSET Handle]

LEMMA StartJobTypes ==
    ASSUME Inv, NEW c \in Compactors, StartJob(c), UNCHANGED <<files, version>>
    PROVE  /\ cpc' \in [Compactors -> CompactorPc] /\ job' \in [Compactors -> JobType]
           /\ \A d \in Compactors : d # c => cpc'[d] = cpc[d] /\ job'[d] = job[d]
           /\ cpc'[c] \in {cpc[c], "alloc"}
           /\ \/ cpc'[c] = cpc[c] /\ job'[c] = job[c]
              \/ /\ cpc'[c] = "alloc"
                 /\ IsFiniteSet(job'[c].inputs) /\ job'[c].inputs # {}
                 /\ job'[c].inputs \subseteq version /\ job'[c].snapshot = version
                 /\ job'[c].todo = job'[c].inputs
<1> DEFINE pick == PickCompaction(version, maxLevels)
           j == [inputs |-> pick.inputs, snapshot |-> version, level |-> pick.level,
                 id |-> 0, todo |-> pick.inputs]
<1>1. pick.inputs \in SUBSET version /\ pick.level \in Nat
  BY PickType DEF Inv, TypeOK
<1>2. IsFiniteSet(pick.inputs)
  BY <1>1, FS_Subset DEF Inv, TypeOK
<1>3. cpc \in [Compactors -> CompactorPc] /\ job \in [Compactors -> JobType]
  BY DEF Inv, TypeOK, JobType
<1>4. \/ cpc' = cpc /\ job' = job
      \/ /\ pick.inputs # {}
         /\ cpc' = [cpc EXCEPT ![c] = "alloc"] /\ job' = [job EXCEPT ![c] = j]
  BY DEF StartJob
<1>5. j \in JobType /\ j.inputs = pick.inputs /\ j.snapshot = version /\ j.todo = pick.inputs
  BY <1>1 DEF Inv, TypeOK, JobType
<1> HIDE DEF j, pick
<1> QED BY <1>1, <1>2, <1>3, <1>4, <1>5 DEF CompactorPc

LEMMA StartJobInv ==
    ASSUME Inv, NEW c \in Compactors, StartJob(c), status = "up",
           UNCHANGED <<manVars, files, status, version, flushId, workerUp, pending>>,
           wpc' = wpc \/ (wpc = "idle" /\ wpc' = "compact")
    PROVE  /\ PcInv' /\ IdInv' /\ FileInv'
           /\ cpc' \in [Compactors -> CompactorPc]
           /\ job' \in [Compactors -> JobType]
           /\ \A d \in Compactors : IsFiniteSet(job'[d].inputs)
<1>1. PcInv'
  BY StartJobTypes DEF Inv, PcInv
<1>2. IdInv'
  <2>1. LogKept({})
    BY LogUntouched DEF Inv, TypeOK, manVars
  <2>2. \A d \in Compactors : cpc'[d] = "merge" => cpc[d] = "merge" /\ job'[d].id = job[d].id
    BY StartJobTypes
  <2>3. wpc' = "create" => wpc = "create" /\ flushId' = flushId
    OBVIOUS
  <2> QED BY <2>1, <2>2, <2>3, IdStepNoFile
<1>3. FileInv'
  <2>1. \A d \in Compactors : d # c => cpc'[d] = cpc[d] /\ job'[d] = job[d]
    BY StartJobTypes
  <2>2. /\ cpc'[c] \in {"add", "remove", "apply"} => cpc'[c] = cpc[c] /\ job'[c] = job[c]
        /\ \/ job'[c] = job[c]
           \/ job'[c].inputs \subseteq version /\ job'[c].snapshot = version
    BY StartJobTypes
  <2>3. Ids(job'[c].inputs) \subseteq DOMAIN files /\ job'[c].inputs \subseteq job'[c].snapshot
    BY <2>2 DEF Inv, FileInv, Ids
  <2>4. \A d \in Compactors :
          /\ cpc'[d] \in {"add", "remove", "apply"} => job'[d].id \in DOMAIN files
          /\ Ids(job'[d].inputs) \subseteq DOMAIN files
          /\ job'[d].inputs \subseteq job'[d].snapshot
    BY <2>1, <2>2, <2>3 DEF Inv, FileInv
  <2> QED BY <2>4 DEF Inv, FileInv, Ids, manVars
<1>4. \A d \in Compactors : IsFiniteSet(job'[d].inputs)
  BY StartJobTypes DEF Inv, TypeOK
<1> QED BY <1>1, <1>2, <1>3, <1>4, StartJobTypes

LEMMA WorkerTakesInv == ASSUME Inv, WorkerTakes PROVE Inv'
<1> USE DEF WorkerTakes, historyVars, counters, walVars
<1>1. queue' \in Seq({"Compact", "Shutdown"})
  BY QueueType DEF Inv, TypeOK
<1>2. status = "up" /\ "worker" \in Compactors
  BY DEF Inv, PcInv, Compactors
<1>3. /\ PcInv' /\ IdInv' /\ FileInv'
      /\ cpc' \in [Compactors -> CompactorPc]
      /\ job' \in [Compactors -> JobType]
      /\ \A d \in Compactors : IsFiniteSet(job'[d].inputs)
  BY <1>2, StartJobInv
<1>4. TypeOK'
  BY <1>1, <1>3, Kept DEF Inv, TypeOK, WalTypeOK, JobType
<1> QED BY <1>3, <1>4, Kept DEF Inv

LEMMA CompactInv == ASSUME Inv, Compact PROVE Inv'
<1> USE DEF Compact, historyVars, Call, walVars
<1>1. "caller" \in Compactors
  BY DEF Compactors
<1>2. wpc' = wpc \/ (wpc = "idle" /\ wpc' = "compact")
  OBVIOUS
<1>3. /\ PcInv' /\ IdInv' /\ FileInv'
      /\ cpc' \in [Compactors -> CompactorPc]
      /\ job' \in [Compactors -> JobType]
      /\ \A d \in Compactors : IsFiniteSet(job'[d].inputs)
  BY <1>1, <1>2, StartJobInv
<1>4. wpc' \in WriterPc
  BY <1>2 DEF Inv, TypeOK, WriterPc
<1>5. ManifestTypeOK'
  BY Kept
<1>6. TypeOK'
  BY SMTT(30), <1>3, <1>4, <1>5 DEF Inv, TypeOK, WalTypeOK, JobType
<1> QED BY <1>3, <1>6, Kept DEF Inv

-----------------------------------------------------------------------------
(* Steps that write to the manifest or create the output                   *)

(* A compactor leaves compact_once.                                        *)
LEMMA FinishTypes ==
    ASSUME Inv, NEW c \in Compactors, NEW failed \in BOOLEAN, Finish(c, failed)
    PROVE  /\ cpc' \in [Compactors -> CompactorPc] /\ job' \in [Compactors -> JobType]
           /\ \A d \in Compactors : IsFiniteSet(job'[d].inputs)
           /\ wpc' \in {"idle", wpc} /\ wpc' \in WriterPc /\ lastError' \in BOOLEAN
           /\ cpc'[c] = "idle" /\ job'[c] = NoJob
           /\ \A d \in Compactors : d # c => cpc'[d] = cpc[d] /\ job'[d] = job[d]
<1>1. cpc \in [Compactors -> CompactorPc] /\ job \in [Compactors -> JobType]
  BY DEF Inv, TypeOK, JobType
<1>2. NoJob \in JobType /\ IsFiniteSet(NoJob.inputs)
  BY FS_EmptySet DEF NoJob, JobType
<1>3. cpc' \in [Compactors -> CompactorPc] /\ job' \in [Compactors -> JobType]
  BY <1>1, <1>2 DEF Finish, CompactorPc
<1>4. /\ cpc'[c] = "idle" /\ job'[c] = NoJob
      /\ \A d \in Compactors : d # c => cpc'[d] = cpc[d] /\ job'[d] = job[d]
  BY <1>1 DEF Finish
<1>5. wpc' \in {"idle", wpc} /\ wpc' \in WriterPc /\ lastError' \in BOOLEAN
  BY DEF Finish, Inv, TypeOK, WriterPc
<1>6. \A d \in Compactors : IsFiniteSet(job'[d].inputs)
  BY <1>2, <1>4 DEF Inv, TypeOK
<1> QED BY <1>3, <1>4, <1>5, <1>6

LEMMA FinishPc ==
    ASSUME Inv, NEW c \in Compactors, NEW failed \in BOOLEAN, Finish(c, failed),
           cpc[c] # "idle", UNCHANGED <<status, workerUp, pending>>
    PROVE  PcInv'
<1>1. NoJob.todo = {} /\ NoJob.inputs = {}
  BY DEF NoJob
<1> QED BY <1>1, FinishTypes DEF Inv, PcInv

LEMMA FinishTypeOK ==
    ASSUME Inv, NEW c \in Compactors, NEW failed \in BOOLEAN, Finish(c, failed), ManifestTypeOK',
           DOMAIN files' \subseteq Nat, \A i \in DOMAIN files' : files'[i] \in Table,
           manLock' \in Compactors \union {"none"}, faults' \in Nat,
           UNCHANGED <<status, maxLevels, mem, imm, version, queue, workerUp, pending, flushId,
                       walVars, historyVars, calls, opens>>
    PROVE  TypeOK'
<1>1. /\ cpc' \in [Compactors -> CompactorPc] /\ job' \in [Compactors -> JobType]
      /\ \A d \in Compactors : IsFiniteSet(job'[d].inputs)
      /\ wpc' \in WriterPc /\ lastError' \in BOOLEAN
  BY FinishTypes
<1> QED BY <1>1 DEF Inv, TypeOK, WalTypeOK, JobType, walVars, historyVars

(* What a failing compaction step does besides the manifest.               *)
LEMMA FinishInv ==
    ASSUME Inv, NEW c \in Compactors, NEW failed \in BOOLEAN, Finish(c, failed), cpc[c] # "idle",
           NEW new, LogKept(new), new \subseteq DOMAIN files,
           UNCHANGED <<status, files, version, flushId, workerUp, pending>>
    PROVE  PcInv' /\ IdInv' /\ FileInv'
<1>1. PcInv'
  BY FinishPc
<1>2. IdInv'
  <2>1. /\ wpc' = "create" => wpc = "create"
        /\ \A d \in Compactors :
              cpc'[d] = "merge" => cpc[d] = "merge" /\ job'[d].id = job[d].id
    BY FinishTypes
  <2>2. DOMAIN files' = DOMAIN files /\ flushId' = flushId
    OBVIOUS
  <2> QED BY <2>1, <2>2, IdStepNoFile
<1>3. NoJob.inputs = {} /\ NoJob.snapshot = {}
  BY DEF NoJob
<1>4. FileInv'
  BY <1>3, AddsHaveFiles, FinishTypes DEF Inv, FileInv, Ids
<1> QED BY <1>1, <1>2, <1>4

LEMMA CompactAllocInv == ASSUME Inv, NEW c \in Compactors, CompactAlloc(c) PROVE Inv'
<1> USE DEF CompactAlloc, walVars, historyVars, counters
<1>1. /\ LogKept({})
      /\ \E i \in 1 .. manSynced' : IsNextId(i)' /\ nextTableId < manFile'[i].id
  BY Running, NextTableIdStep
<1>2. nextTableId \in Nat
  BY Running DEF ManifestTypeOK
<1>3. cpc \in [Compactors -> CompactorPc] /\ job \in [Compactors -> JobType]
  BY DEF Inv, TypeOK, JobType
<1>4. /\ cpc' \in [Compactors -> CompactorPc] /\ job' \in [Compactors -> JobType]
      /\ cpc'[c] = "merge" /\ job'[c].id = nextTableId
      /\ job'[c].inputs = job[c].inputs /\ job'[c].snapshot = job[c].snapshot
      /\ job'[c].todo = job[c].todo
      /\ \A d \in Compactors : d # c => cpc'[d] = cpc[d] /\ job'[d] = job[d]
  BY <1>2, <1>3 DEF CompactorPc, JobType
<1>5. \A d \in Compactors : IsFiniteSet(job'[d].inputs)
  BY <1>4 DEF Inv, TypeOK
<1>6. TypeOK'
  BY <1>1, <1>4, <1>5 DEF Inv, TypeOK, WalTypeOK, LogKept, JobType
<1>7. PcInv'
  BY <1>4, Running DEF Inv, PcInv
<1>8. IdInv'
  <2>1. \A x : x = nextTableId => Reserved(x)'
    BY <1>1 DEF Reserved
  <2>2. status = "up"
    BY Running
  <2> QED BY <1>1, <1>4, <2>1, <2>2, StillReserved, FreshId DEF Inv, IdInv
<1>9. FileInv'
  BY <1>1, <1>4, AddsHaveFiles DEF Inv, FileInv
<1> QED BY <1>1, <1>6, <1>7, <1>8, <1>9 DEF Inv, LogKept

LEMMA CompactAllocFailsInv == ASSUME Inv, NEW c \in Compactors, CompactAllocFails(c) PROVE Inv'
<1> USE DEF CompactAllocFails, walVars, historyVars, Fails
<1>1. LogKept({})
  BY Running, NextTableIdFailsStep
<1>2. TypeOK'
  <2>1. faults' \in Nat /\ manLock' \in Compactors \union {"none"}
    BY SMTT(30) DEF Inv, TypeOK
  <2>2. DOMAIN files' \subseteq Nat /\ \A i \in DOMAIN files' : files'[i] \in Table
    BY DEF Inv, TypeOK
  <2>3. ManifestTypeOK'
    BY <1>1 DEF LogKept
  <2> QED BY <2>1, <2>2, <2>3, FinishTypeOK
<1>3. PcInv' /\ IdInv' /\ FileInv'
  BY <1>1, FinishInv
<1> QED BY <1>1, <1>2, <1>3 DEF Inv, LogKept

LEMMA CompactAddInv == ASSUME Inv, NEW c \in Compactors, CompactAdd(c) PROVE Inv'
<1> USE DEF CompactAdd, walVars, historyVars, counters
<1>1. job[c].id \in DOMAIN files /\ job[c].id \in Nat /\ job[c].level \in Nat
  BY DEF Inv, FileInv, TypeOK
<1>2. LogKept({job[c].id})
  BY <1>1, Running, AddActiveStep
<1>3. cpc \in [Compactors -> CompactorPc]
  BY DEF Inv, TypeOK
<1>4. /\ cpc' \in [Compactors -> CompactorPc] /\ cpc'[c] = "remove"
      /\ \A d \in Compactors : d # c => cpc'[d] = cpc[d]
  BY <1>3 DEF CompactorPc
<1>5. TypeOK'
  BY <1>2, <1>4 DEF Inv, TypeOK, WalTypeOK, LogKept
<1>6. PcInv'
  BY <1>4, Running DEF Inv, PcInv
<1>7. IdInv'
  BY <1>2, <1>4, StillReserved DEF Inv, IdInv
<1>8. FileInv'
  BY <1>1, <1>2, <1>4, AddsHaveFiles DEF Inv, FileInv
<1> QED BY <1>2, <1>5, <1>6, <1>7, <1>8 DEF Inv, LogKept

LEMMA CompactAddFailsInv == ASSUME Inv, NEW c \in Compactors, CompactAddFails(c) PROVE Inv'
<1> USE DEF CompactAddFails, walVars, historyVars, Fails
<1>1. job[c].id \in DOMAIN files /\ job[c].id \in Nat /\ job[c].level \in Nat
  BY DEF Inv, FileInv, TypeOK
<1>2. LogKept({job[c].id})
  <2> DEFINE r == AddTable(job[c].id, job[c].level)
  <2>1. r \in ManifestRecord /\ r.kind = "add" /\ r.id = job[c].id
    BY <1>1, RecordTypes DEF AddTable
  <2>2. PICK left \in Residues(r) : ChangeFails(left)
    OBVIOUS
  <2> HIDE DEF r
  <2> QED BY <2>1, <2>2, Running, ChangeFailsStep
<1>3. TypeOK'
  <2>1. faults' \in Nat /\ manLock' \in Compactors \union {"none"}
    BY SMTT(30) DEF Inv, TypeOK
  <2>2. DOMAIN files' \subseteq Nat /\ \A i \in DOMAIN files' : files'[i] \in Table
    BY DEF Inv, TypeOK
  <2>3. ManifestTypeOK'
    BY <1>2 DEF LogKept
  <2> QED BY <2>1, <2>2, <2>3, FinishTypeOK
<1>4. PcInv' /\ IdInv' /\ FileInv'
  BY <1>1, <1>2, FinishInv
<1> QED BY <1>2, <1>3, <1>4 DEF Inv, LogKept

(* The table that remove_tables removes next.                              *)
LEMMA NextRemoved ==
    ASSUME Inv, NEW c \in Compactors, cpc[c] = "remove"
    PROVE  First(job[c].todo) \in job[c].todo /\ First(job[c].todo).id \in Nat
<1>1. job[c].todo \in SUBSET Handle /\ job[c].todo # {} /\ job[c].todo \in SUBSET job[c].inputs
  BY DEF Inv, PcInv, TypeOK
<1>2. IsFiniteSet(job[c].todo)
  BY <1>1, FS_Subset DEF Inv, TypeOK
<1>3. First(job[c].todo) \in job[c].todo
  BY <1>1, <1>2, FirstExists
<1> QED BY <1>1, <1>3 DEF Handle

LEMMA CompactRemoveInv == ASSUME Inv, NEW c \in Compactors, CompactRemove(c) PROVE Inv'
<1> USE DEF walVars, historyVars, counters
<1> DEFINE h == First(job[c].todo)
           rest == job[c].todo \ {h}
<1>1. cpc[c] = "remove"
  BY DEF CompactRemove
<1>2. h.id \in Nat
  BY <1>1, NextRemoved
<1>3. /\ RemoveActive(h.id)
      /\ job' = [job EXCEPT ![c].todo = rest]
      /\ manLock' \in {"none", manLock}
      /\ cpc' = [cpc EXCEPT ![c] = IF rest = {} THEN "apply" ELSE "remove"]
      /\ UNCHANGED <<status, maxLevels, mem, imm, version, queue, workerUp, lastError,
                     wpc, pending, flushId, walVars, files, historyVars, counters>>
  BY DEF CompactRemove, Unlock
<1> HIDE DEF h
<1>4. LogKept({})
  BY <1>1, <1>2, <1>3, Running, RemoveActiveStep
<1>5. cpc \in [Compactors -> CompactorPc] /\ job \in [Compactors -> JobType]
  BY DEF Inv, TypeOK, JobType
<1>6. rest \subseteq job[c].todo /\ job[c].todo \in SUBSET Handle
  BY <1>5 DEF JobType
<1> HIDE DEF rest
<1>7. /\ cpc' \in [Compactors -> CompactorPc] /\ job' \in [Compactors -> JobType]
      /\ cpc'[c] = (IF rest = {} THEN "apply" ELSE "remove")
      /\ job'[c].id = job[c].id /\ job'[c].todo = rest
      /\ job'[c].inputs = job[c].inputs /\ job'[c].snapshot = job[c].snapshot
      /\ \A d \in Compactors : d # c => cpc'[d] = cpc[d] /\ job'[d] = job[d]
  BY <1>3, <1>5, <1>6 DEF CompactorPc, JobType
<1>8. \A d \in Compactors : IsFiniteSet(job'[d].inputs)
  BY <1>7 DEF Inv, TypeOK
<1>9. TypeOK'
  BY <1>3, <1>4, <1>7, <1>8 DEF Inv, TypeOK, WalTypeOK, LogKept, JobType
<1>10. PcInv'
  BY <1>1, <1>3, <1>6, <1>7, Running DEF Inv, PcInv
<1>11. IdInv'
  BY <1>1, <1>3, <1>4, <1>7, StillReserved DEF Inv, IdInv
<1>12. FileInv'
  BY <1>1, <1>3, <1>4, <1>7, AddsHaveFiles DEF Inv, FileInv
<1> QED BY <1>4, <1>9, <1>10, <1>11, <1>12 DEF Inv, LogKept

LEMMA CompactRemoveFailsInv == ASSUME Inv, NEW c \in Compactors, CompactRemoveFails(c) PROVE Inv'
<1> USE DEF CompactRemoveFails, walVars, historyVars, Fails, Unlock
<1>1. LogKept({})
  <2> DEFINE r == RemoveTable(First(job[c].todo).id)
  <2>1. r \in ManifestRecord /\ r.kind = "remove"
    BY NextRemoved, RecordTypes DEF RemoveTable
  <2>2. PICK left \in Residues(r) : ChangeFails(left)
    OBVIOUS
  <2> HIDE DEF r
  <2> QED BY <2>1, <2>2, Running, ChangeFailsStep
<1>2. TypeOK'
  <2>1. faults' \in Nat /\ manLock' \in Compactors \union {"none"}
    BY SMTT(30) DEF Inv, TypeOK
  <2>2. DOMAIN files' \subseteq Nat /\ \A i \in DOMAIN files' : files'[i] \in Table
    BY DEF Inv, TypeOK
  <2>3. ManifestTypeOK'
    BY <1>1 DEF LogKept
  <2> QED BY <2>1, <2>2, <2>3, FinishTypeOK
<1>3. PcInv' /\ IdInv' /\ FileInv'
  BY <1>1, FinishInv
<1> QED BY <1>1, <1>2, <1>3 DEF Inv, LogKept

(* compact writes a table of the entries of its inputs.                    *)
LEMMA OutputType ==
    ASSUME Inv, NEW c \in Compactors
    PROVE  Output(c) \in Table
<1>1. job[c].inputs \in SUBSET Handle /\ IsFiniteSet(job[c].inputs)
  BY DEF Inv, TypeOK
<1>2. \A h \in job[c].inputs : files[h.id] \in Table
  BY DEF Inv, FileInv, TypeOK, Ids
<1> QED BY <1>1, <1>2, MergeType DEF Output

LEMMA CompactMergeInv == ASSUME Inv, NEW c \in Compactors, CompactMerge(c) PROVE Inv'
<1> USE DEF CompactMerge, walVars, historyVars, counters
<1>1. job[c].id \in Nat /\ job[c].id \notin DOMAIN files /\ Reserved(job[c].id)
  BY DEF Inv, IdInv, TypeOK
<1>2. /\ DOMAIN files' = DOMAIN files \union {job[c].id}
      /\ DOMAIN files' \subseteq Nat /\ \A i \in DOMAIN files' : files'[i] \in Table
  BY <1>1, OutputType, CreateFileStep
<1>3. LogKept({})
  BY Running, LogUntouched DEF manVars
<1>4. cpc \in [Compactors -> CompactorPc]
  BY DEF Inv, TypeOK
<1>5. /\ cpc' \in [Compactors -> CompactorPc] /\ cpc'[c] = "add"
      /\ \A d \in Compactors : d # c => cpc'[d] = cpc[d]
  BY <1>4 DEF CompactorPc
<1>6. TypeOK'
  BY <1>2, <1>3, <1>5 DEF Inv, TypeOK, WalTypeOK, LogKept
<1>7. PcInv'
  BY <1>5, Running DEF Inv, PcInv
<1>8. IdInv'
  BY <1>1, <1>2, <1>3, <1>5, StillReserved DEF Inv, IdInv
<1>9. FileInv'
  BY <1>2, <1>3, <1>5, AddsHaveFiles DEF Inv, FileInv
<1> QED BY <1>3, <1>6, <1>7, <1>8, <1>9 DEF Inv, LogKept

LEMMA CompactMergeFailsInv == ASSUME Inv, NEW c \in Compactors, CompactMergeFails(c) PROVE Inv'
<1> USE DEF CompactMergeFails, walVars, historyVars, Fails
<1>1. job[c].id \in Nat /\ job[c].id \notin DOMAIN files /\ Reserved(job[c].id)
  BY DEF Inv, IdInv, TypeOK
<1>2. /\ DOMAIN files' \in {DOMAIN files, DOMAIN files \union {job[c].id}}
      /\ DOMAIN files' \subseteq Nat /\ \A i \in DOMAIN files' : files'[i] \in Table
  <2>1. CASE files' = files
    BY <2>1 DEF Inv, TypeOK
  <2>2. CASE CreateFile(job[c].id, Output(c))
    BY <1>1, <2>2, OutputType, CreateFileStep
  <2> QED BY <2>1, <2>2
<1>3. LogKept({})
  BY Running, LogUntouched DEF manVars
<1>4. TypeOK'
  <2>1. faults' \in Nat /\ manLock' \in Compactors \union {"none"}
    BY SMTT(30) DEF Inv, TypeOK
  <2>2. ManifestTypeOK'
    BY <1>3 DEF LogKept
  <2> QED BY <1>2, <2>1, <2>2, FinishTypeOK
<1>5. PcInv'
  BY FinishPc
<1>6. /\ cpc'[c] = "idle" /\ wpc' \in {"idle", wpc} /\ job'[c] = NoJob
      /\ \A d \in Compactors : d # c => cpc'[d] = cpc[d] /\ job'[d] = job[d]
  BY FinishTypes
<1>7. IdInv'
  <2>1. \A d \in Compactors :
          cpc'[d] = "merge" => /\ cpc[d] = "merge" /\ job'[d].id = job[d].id
                               /\ job[d].id # job[c].id
    BY <1>6 DEF Inv, IdInv
  <2>2. wpc' = "create" => wpc = "create" /\ flushId' = flushId /\ flushId # job[c].id
    BY <1>6 DEF Inv, IdInv
  <2> QED BY ZenonT(40), <1>1, <1>2, <1>3, <2>1, <2>2, IdStep
<1>8. NoJob.inputs = {} /\ NoJob.snapshot = {}
  BY DEF NoJob
<1>9. FileInv'
  BY <1>2, <1>3, <1>6, <1>8, AddsHaveFiles DEF Inv, FileInv, Ids
<1> QED BY <1>3, <1>4, <1>5, <1>7, <1>9 DEF Inv, LogKept
=============================================================================
