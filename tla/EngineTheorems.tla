--------------------------- MODULE EngineTheorems ---------------------------
(***************************************************************************)
(* The rest of the induction (the end of a compaction, opening, closing    *)
(* and crashing) and the theorems about the engine.                        *)
(***************************************************************************)
EXTENDS WriterProofs, CompactionProofs

-----------------------------------------------------------------------------
(* The end of a compaction *)

LEMMA CompactApplyInv == ASSUME Inv, NEW c \in Compactors, CompactApply(c) PROVE Inv'
<1> USE DEF CompactApply, walVars, historyVars, counters
<1> DEFINE kept == {h \in version : h.id \notin Ids(job[c].inputs)}
           out == HandleOf(job[c].id, files[job[c].id], job[c].level,
                           BackStamp(kept, job[c].level))
<1>1. job[c].id \in DOMAIN files /\ files[job[c].id] \in Table
  BY DEF Inv, FileInv, TypeOK
<1>2. job[c].id \in Nat /\ job[c].level \in Nat
  BY DEF Inv, TypeOK
<1>3. kept \in SUBSET version /\ kept \in SUBSET Handle
  BY DEF Inv, TypeOK
<1>4. version' = kept \union {out}
  BY DEF InstallOutput
<1> HIDE DEF kept
<1>5. IsFiniteSet(kept)
  BY <1>3, FS_Subset DEF Inv, TypeOK
<1>6. BackStamp(kept, job[c].level) \in Int
  BY <1>3, <1>5, StampTypes
<1>7. out \in Handle /\ out.id = job[c].id
  BY <1>1, <1>2, <1>6, HandleType DEF HandleOf
<1> HIDE DEF out
<1>8. IsFiniteSet(version')
  BY <1>4, <1>5, FS_AddElement
<1>9. version' \subseteq Handle /\ Ids(version') \subseteq DOMAIN files
  BY <1>1, <1>3, <1>4, <1>7 DEF Inv, FileInv, Ids
<1>10. cpc \in [Compactors -> CompactorPc]
  BY DEF Inv, TypeOK
<1>11. /\ cpc' \in [Compactors -> CompactorPc] /\ cpc'[c] = "delete"
       /\ \A d \in Compactors : d # c => cpc'[d] = cpc[d]
  BY <1>10 DEF CompactorPc
<1>12. ManifestTypeOK' /\ LogInv' /\ \A x : Reserved(x)' <=> Reserved(x)
  BY Kept
<1>13. TypeOK'
  BY <1>8, <1>9, <1>11, <1>12 DEF Inv, TypeOK, WalTypeOK
<1>14. PcInv'
  BY <1>11, Running DEF Inv, PcInv
<1>15. IdInv'
  BY <1>11, <1>12 DEF Inv, IdInv
<1>16. FileInv'
  BY <1>9, <1>11 DEF Inv, FileInv, manVars
<1> QED BY <1>12, <1>13, <1>14, <1>15, <1>16 DEF Inv

(* compact_once never deletes a source file: its own inputs and its clone  *)
(* of the version are two references to each of them.                      *)
LEMMA NothingDeletable == ASSUME Inv, NEW c \in Compactors PROVE Deletable(c) = {}
<1> SUFFICES ASSUME NEW i \in Ids(job[c].inputs), StrongCount(i) = 1 PROVE FALSE
  BY DEF Deletable
<1> DEFINE A == {v \in {"version"} : i \in Ids(version)}
           B == {d \in Compactors : i \in Ids(job[d].inputs)}
           C == {d \in Compactors : i \in Ids(job[d].snapshot)}
<1>1. i \in Ids(job[c].snapshot)
  BY DEF Inv, FileInv, Ids
<1>2. c \in B /\ c \in C
  BY <1>1
<1>3. A \in SUBSET {"version"} /\ B \in SUBSET Compactors /\ C \in SUBSET Compactors
  OBVIOUS
<1>4. StrongCount(i) = Cardinality(A) + Cardinality(B) + Cardinality(C)
  BY DEF StrongCount
<1> HIDE DEF A, B, C
<1>5. IsFiniteSet({"version"}) /\ IsFiniteSet({"worker"})
  BY FS_Singleton
<1>6. IsFiniteSet({"worker"} \cup {"caller"})
  BY <1>5, FS_AddElement
<1>7. IsFiniteSet(Compactors)
  BY <1>6 DEF Compactors
<1>8. IsFiniteSet(A) /\ IsFiniteSet(B) /\ IsFiniteSet(C)
  BY <1>3, <1>5, <1>7, FS_Subset
<1>9. Cardinality(A) \in Nat /\ Cardinality(B) \in Nat /\ Cardinality(C) \in Nat
  BY <1>8, FS_CardinalityType
<1>10. Cardinality(B) # 0 /\ Cardinality(C) # 0
  BY <1>2, <1>8, FS_EmptySet
<1> QED BY <1>4, <1>9, <1>10

LEMMA FilesStay ==
    ASSUME Inv, NEW c \in Compactors, CompactDelete(c)
    PROVE  DOMAIN files' = DOMAIN files /\ \A i \in DOMAIN files : files'[i] = files[i]
BY NothingDeletable DEF CompactDelete

LEMMA CompactDeleteInv == ASSUME Inv, NEW c \in Compactors, CompactDelete(c) PROVE Inv'
<1> USE DEF walVars, historyVars, counters
<1>1. /\ cpc[c] = "delete" /\ Finish(c, FALSE)
      /\ UNCHANGED <<status, maxLevels, mem, imm, version, manLock, queue, workerUp,
                     pending, flushId, manVars, walVars, historyVars, counters>>
  BY DEF CompactDelete
<1>2. DOMAIN files' = DOMAIN files /\ \A i \in DOMAIN files : files'[i] = files[i]
  BY FilesStay
<1>3. LogKept({})
  BY <1>1, Running, LogUntouched DEF manVars
<1>4. TypeOK'
  <2>1. faults' \in Nat /\ manLock' \in Compactors \union {"none"}
    BY <1>1 DEF Inv, TypeOK
  <2>2. DOMAIN files' \subseteq Nat /\ \A i \in DOMAIN files' : files'[i] \in Table
    BY <1>2 DEF Inv, TypeOK
  <2>3. ManifestTypeOK'
    BY <1>3 DEF LogKept
  <2> QED BY <1>1, <2>1, <2>2, <2>3, FinishTypeOK
<1>5. PcInv'
  BY <1>1, FinishPc
<1>6. /\ cpc'[c] = "idle" /\ wpc' \in {"idle", wpc} /\ job'[c] = NoJob
      /\ \A d \in Compactors : d # c => cpc'[d] = cpc[d] /\ job'[d] = job[d]
  BY <1>1, FinishTypes
<1>7. IdInv'
  <2>1. \A d \in Compactors :
          cpc'[d] = "merge" => cpc[d] = "merge" /\ job'[d].id = job[d].id
    BY <1>6
  <2>2. wpc' = "create" => wpc = "create" /\ flushId' = flushId
    BY <1>1, <1>6
  <2> QED BY <1>2, <1>3, <2>1, <2>2, IdStep
<1>8. NoJob.inputs = {} /\ NoJob.snapshot = {}
  BY DEF NoJob
<1>9. FileInv'
  BY <1>1, <1>2, <1>3, <1>6, <1>8, AddsHaveFiles DEF Inv, FileInv, Ids
<1> QED BY <1>3, <1>4, <1>5, <1>7, <1>9 DEF Inv, LogKept

-----------------------------------------------------------------------------
(* Crashes and close *)

LEMMA NoJobType == NoJob \in JobType /\ IsFiniteSet(NoJob.inputs) /\ NoJob.inputs = {}
                     /\ NoJob.todo = {} /\ NoJob.snapshot = {}
BY FS_EmptySet DEF NoJob, JobType

(* A stopped process has nothing under way; what remains is the log.       *)
LEMMA StopProcessInv ==
    ASSUME Inv, StopProcess, WalTypeOK', ManifestTypeOK',
           acked' \in [Keys -> Entry], maybe' \in [Keys -> SUBSET Entry], LogInv',
           \A x \in Nat : Reserved(x) => Reserved(x)',
           \A i \in DOMAIN manFile' : manFile'[i].kind = "add" =>
               \E j \in DOMAIN manFile : manFile[j].kind = "add" /\ manFile[j].id = manFile'[i].id
    PROVE  Inv'
<1> USE DEF StopProcess, counters
<1>1. /\ cpc' = [c \in Compactors |-> "idle"] /\ job' = [c \in Compactors |-> NoJob]
      /\ cpc' \in [Compactors -> CompactorPc] /\ job' \in [Compactors -> JobType]
      /\ \A c \in Compactors : IsFiniteSet(job'[c].inputs)
  BY NoJobType DEF CompactorPc
<1>2. version' = {} /\ version' \subseteq Handle /\ IsFiniteSet(version')
  BY FS_EmptySet
<1>3. TypeOK'
  <2>1. queue' \in Seq({"Compact", "Shutdown"})
    OBVIOUS
  <2>2. calls' \in Nat /\ opens' \in Nat /\ faults' \in Nat
    BY DEF Inv, TypeOK
  <2>3. DOMAIN files' \subseteq Nat /\ \A i \in DOMAIN files' : files'[i] \in Table
    BY DEF Inv, TypeOK
  <2>4. wpc' \in WriterPc /\ pending' \in Operation \union {NoOperation}
    BY DEF WriterPc
  <2>5. mem' \in Table /\ imm' \in Table
    BY EmptyTableType
  <2>6. /\ status' \in {"down", "up", "broken"} /\ maxLevels' \in Nat \ {0}
        /\ manLock' \in Compactors \union {"none"} /\ flushId' \in Nat
    OBVIOUS
  <2>7. workerUp' \in BOOLEAN /\ lastError' \in BOOLEAN
    BY Zenon
  <2> HIDE DEF StopProcess
  <2> QED BY <1>1, <1>2, <2>1, <2>2, <2>3, <2>4, <2>5, <2>6, <2>7 DEF TypeOK, JobType
<1>4. PcInv'
  BY <1>1, NoJobType DEF PcInv
<1>5. IdInv'
  <2>1. DOMAIN files \subseteq Nat
    BY DEF Inv, TypeOK
  <2> QED BY <1>1, <2>1 DEF Inv, IdInv
<1>6. FileInv'
  BY <1>1, <1>2, NoJobType DEF Inv, FileInv, Ids
<1> QED BY <1>3, <1>4, <1>5, <1>6 DEF Inv

LEMMA CloseReturnsInv == ASSUME Inv, CloseReturns PROVE Inv'
<1> USE DEF CloseReturns, historyVars
<1>1. WalTypeOK'
  BY DEF Inv, TypeOK, WalTypeOK
<1>2. ManifestTypeOK' /\ LogInv'
  BY DEF StopProcess, Inv, TypeOK, ManifestTypeOK, LogInv, IsNextId
<1>3. \A x \in Nat : Reserved(x) => Reserved(x)'
  BY DEF Reserved, IsNextId
<1>4. acked' \in [Keys -> Entry] /\ maybe' \in [Keys -> SUBSET Entry]
  BY DEF Inv, TypeOK
<1> QED BY <1>1, <1>2, <1>3, <1>4, StopProcessInv

LEMMA KillInv == ASSUME Inv, Kill PROVE Inv'
<1> USE DEF Kill, walVars
<1>1. WalTypeOK'
  BY DEF Inv, TypeOK, WalTypeOK
<1>2. ManifestTypeOK' /\ LogInv'
  BY DEF StopProcess, Inv, TypeOK, ManifestTypeOK, LogInv, IsNextId
<1>3. \A x \in Nat : Reserved(x) => Reserved(x)'
  BY DEF Reserved, IsNextId
<1>4. acked' \in [Keys -> Entry] /\ maybe' \in [Keys -> SUBSET Entry]
  BY DoubtType DEF Inv, TypeOK
<1> QED BY <1>1, <1>2, <1>3, <1>4, StopProcessInv

LEMMA Prefix ==
    ASSUME NEW S, NEW f \in Seq(S), NEW n \in 0 .. Len(f), NEW r \in S
    PROVE  /\ SubSeq(f, 1, n) \in Seq(S) /\ Len(SubSeq(f, 1, n)) = n
           /\ Append(SubSeq(f, 1, n), r) \in Seq(S)
           /\ Len(Append(SubSeq(f, 1, n), r)) = n + 1
           /\ \A i \in 1 .. n : SubSeq(f, 1, n)[i] = f[i] /\ Append(SubSeq(f, 1, n), r)[i] = f[i]
           /\ Append(SubSeq(f, 1, n), r)[n + 1] = r
<1>1. Len(f) \in Nat
  OBVIOUS
<1>2. SubSeq(f, 1, n) \in Seq(S) /\ Len(SubSeq(f, 1, n)) = n
      /\ \A i \in 1 .. n : SubSeq(f, 1, n)[i] = f[i]
  BY <1>1, SubSeqProperties
<1> DEFINE g == SubSeq(f, 1, n)
<1> HIDE DEF g
<1>3. g \in Seq(S) /\ Len(g) = n => /\ Append(g, r) \in Seq(S) /\ Len(Append(g, r)) = n + 1
                                   /\ \A i \in 1 .. n : Append(g, r)[i] = g[i]
                                   /\ Append(g, r)[n + 1] = r
  BY AppendProperties
<1> QED BY SMTT(30), <1>2, <1>3 DEF g

(* What a power loss leaves of the log of operations.                      *)
LEMMA WalImagesType == ASSUME WalTypeOK, NEW tear PROVE WalImages(tear) \subseteq Seq(WalRecord)
<1> SUFFICES ASSUME NEW f \in WalImages(tear) PROVE f \in Seq(WalRecord)
  OBVIOUS
<1>1. TornWrite \in WalRecord /\ walFile \in Seq(WalRecord) /\ walDurable \in Seq(WalRecord)
  BY DEF WalRecord, WalTypeOK
<1>2. Len(walDurable) \in Nat /\ Len(walFile) \in Nat
  BY <1>1
<1>s. SafeLen \in Nat
  BY <1>2 DEF SafeLen
<1>c. \/ f = walDurable
      \/ \E n \in SafeLen .. Len(walFile) : f = SubSeq(walFile, 1, n)
      \/ \E n \in SafeLen .. Len(walFile) - 1 : f = Append(SubSeq(walFile, 1, n), TornWrite)
  BY Zenon DEF WalImages
<1>3. \/ \E n \in 0 .. Len(walFile) :
            f = SubSeq(walFile, 1, n) \/ f = Append(SubSeq(walFile, 1, n), TornWrite)
      \/ f = walDurable
  BY SMTT(30), <1>2, <1>s, <1>c
<1>4. ASSUME NEW n \in 0 .. Len(walFile),
             f = SubSeq(walFile, 1, n) \/ f = Append(SubSeq(walFile, 1, n), TornWrite)
      PROVE  f \in Seq(WalRecord)
  <2>1. /\ SubSeq(walFile, 1, n) \in Seq(WalRecord)
        /\ Append(SubSeq(walFile, 1, n), TornWrite) \in Seq(WalRecord)
    BY <1>1, Prefix
  <2> QED BY <1>4, <2>1
<1> QED BY <1>1, <1>3, <1>4

(* What it leaves of the manifest: every synced record, some of the others *)
(* and perhaps a fragment.                                                 *)
LEMMA ManifestImagesType ==
    ASSUME ManifestTypeOK, LogInv, NEW pend, NEW tear, NEW f \in ManifestImages(pend, tear)
    PROVE  /\ f \in Seq(ManifestRecord) /\ Len(f) \in Nat /\ manSynced <= Len(f)
           /\ \A i \in 1 .. Len(f) : \/ i \in 1 .. Len(manFile) /\ f[i] = manFile[i]
                                     \/ f[i] = TornRecord
           /\ \A i \in 1 .. manSynced : f[i] = manFile[i]
<1>1. TornRecord \in ManifestRecord /\ manFile \in Seq(ManifestRecord) /\ manSynced \in Nat
  BY RecordTypes DEF ManifestTypeOK
<1>2. Len(manFile) \in Nat
  BY <1>1
<1>3. PICK n \in manSynced .. Len(manFile) :
         f = SubSeq(manFile, 1, n) \/ f = Append(SubSeq(manFile, 1, n), TornRecord)
  BY DEF ManifestImages
<1>4. n \in 0 .. Len(manFile) /\ manSynced <= n
  BY <1>1, <1>2
<1>5. CASE f = SubSeq(manFile, 1, n)
  <2>1. f \in Seq(ManifestRecord) /\ Len(f) = n /\ \A i \in 1 .. n : f[i] = manFile[i]
    BY <1>1, <1>4, <1>5, Prefix
  <2> QED BY <1>1, <1>2, <1>4, <2>1
<1>6. CASE f = Append(SubSeq(manFile, 1, n), TornRecord)
  <2>1. /\ f \in Seq(ManifestRecord) /\ Len(f) = n + 1
        /\ \A i \in 1 .. n : f[i] = manFile[i]
        /\ f[n + 1] = TornRecord
    BY <1>1, <1>4, <1>6, Prefix
  <2> QED BY <1>1, <1>2, <1>4, <2>1
<1> QED BY <1>3, <1>5, <1>6

LEMMA PowerLossInv == ASSUME Inv, PowerLoss PROVE Inv'
<1>1. /\ StopProcess /\ Doubt(pending)
      /\ walFile' \in WalImages("tear" \in Faults) /\ walDurable' = walFile'
      /\ manFile' \in ManifestImages(ManifestAppendPending, "tear" \in Faults)
      /\ manSynced' = Len(manFile')
  BY DEF PowerLoss
<1>2. WalTypeOK'
  <2>1. WalTypeOK
    BY DEF Inv, TypeOK
  <2>2. walFile' \in Seq(WalRecord)
    BY <1>1, <2>1, WalImagesType
  <2> QED BY <1>1, <2>2 DEF WalTypeOK
<1>3. /\ manFile' \in Seq(ManifestRecord) /\ Len(manFile') \in Nat /\ manSynced <= Len(manFile')
      /\ \A i \in 1 .. Len(manFile') :
            \/ i \in 1 .. Len(manFile) /\ manFile'[i] = manFile[i]
            \/ manFile'[i] = TornRecord
      /\ \A i \in 1 .. manSynced : manFile'[i] = manFile[i]
  <2>1. ManifestTypeOK /\ LogInv
    BY DEF Inv, TypeOK
  <2>2. manFile' \in ManifestImages(ManifestAppendPending, "tear" \in Faults)
    BY <1>1
  <2> QED BY <2>1, <2>2, ManifestImagesType, Zenon
<1>4. DOMAIN manFile' = 1 .. Len(manFile')
  BY <1>3
<1>5. Len(manFile) \in Nat /\ DOMAIN manFile = 1 .. Len(manFile) /\ manSynced \in Nat
  BY RecordsTyped DEF Inv, TypeOK, ManifestTypeOK
<1>6. TornRecord.kind = "torn"
  BY DEF TornRecord
<1>7. ManifestTypeOK'
  BY <1>1, <1>3 DEF ManifestTypeOK, StopProcess
<1>8. LogInv'
  <2>1. \A i, j \in DOMAIN manFile' :
          (i < j /\ IsNextId(i)' /\ IsNextId(j)') => manFile'[i].id <= manFile'[j].id
    BY <1>3, <1>4, <1>5, <1>6 DEF Inv, LogInv, IsNextId
  <2>2. status' # "up" /\ manSynced' <= Len(manFile')
    BY <1>1, <1>3 DEF StopProcess
  <2> QED BY <2>1, <2>2 DEF LogInv
<1>9. \A x \in Nat : Reserved(x) => Reserved(x)'
  <2> SUFFICES ASSUME NEW x \in Nat, Reserved(x) PROVE Reserved(x)'
    OBVIOUS
  <2>1. PICK i \in 1 .. manSynced : IsNextId(i) /\ x < manFile[i].id
    BY DEF Reserved
  <2>2. i \in 1 .. manSynced' /\ manFile'[i] = manFile[i]
    BY <1>1, <1>3, <1>5
  <2> QED BY <2>1, <2>2 DEF Reserved, IsNextId
<1>10. \A i \in DOMAIN manFile' : manFile'[i].kind = "add" =>
           \E j \in DOMAIN manFile : manFile[j].kind = "add" /\ manFile[j].id = manFile'[i].id
  BY <1>3, <1>4, <1>5, <1>6
<1>11. acked' \in [Keys -> Entry] /\ maybe' \in [Keys -> SUBSET Entry]
  BY <1>1, DoubtType DEF Inv, TypeOK
<1> QED BY <1>1, <1>2, <1>7, <1>8, <1>9, <1>10, <1>11, StopProcessInv

-----------------------------------------------------------------------------
(* Open *)

(* apply of every replayed record builds a memtable.                       *)
LEMMA ReplayType == ASSUME WalTypeOK PROVE ReplayMemtable(walFile) \in Table
<1> DEFINE R == Replayed(walFile)
           K == {walFile[i].key : i \in R}
           At(k) == {i \in R : walFile[i].key = k}
<1>1. walFile \in Seq(WalRecord) /\ Len(walFile) \in Nat /\ DOMAIN walFile = 1 .. Len(walFile)
  BY DEF WalTypeOK
<1>2. R \in SUBSET (1 .. Len(walFile)) /\ \A i \in R : walFile[i].kind # "torn"
  BY <1>1 DEF Replayed
<1>3. \A i \in R : walFile[i] \in WalRecord
  BY <1>1, <1>2
<1>4. TornWrite.kind = "torn"
  BY DEF TornWrite
<1>5. \A i \in R : walFile[i] \in Operation
  BY <1>2, <1>3, <1>4 DEF WalRecord
<1>6. \A op \in Operation : op.key \in Keys /\ op.entry \in Entry
  BY DEF Operation, Put, Delete, Entry
<1>7. \A i \in R : walFile[i].key \in Keys /\ walFile[i].entry \in Entry
  BY <1>5, <1>6
<1>8. IsFiniteSet(1 .. Len(walFile))
  BY <1>1, FS_Interval
<1>9. ReplayMemtable(walFile) = [k \in K |-> walFile[Max(At(k))].entry]
  BY DEF ReplayMemtable
<1> HIDE DEF R
<1>10. ASSUME NEW k \in K PROVE walFile[Max(At(k))].entry \in Entry
  <2>1. PICK i \in R : walFile[i].key = k
    OBVIOUS
  <2>2. i \in At(k) /\ At(k) \in SUBSET R
    BY <2>1
  <2>3. R \in SUBSET Int
    BY <1>1, <1>2
  <2> HIDE DEF At
  <2>4. /\ At(k) # {} /\ At(k) \in SUBSET R
        /\ At(k) \in SUBSET (1 .. Len(walFile)) /\ At(k) \in SUBSET Int
    BY <1>2, <2>2, <2>3
  <2>5. IsFiniteSet(At(k))
    BY <1>8, <2>4, FS_Subset
  <2>6. Max(At(k)) \in At(k)
    BY <2>4, <2>5, MaxInt
  <2> QED BY <1>7, <2>4, <2>6
<1>11. K \subseteq Keys
  BY <1>7
<1> HIDE DEF K, At
<1>12. [k \in K |-> walFile[Max(At(k))].entry] \in [K -> Entry]
  BY <1>10
<1> QED BY <1>9, <1>11, <1>12 DEF Table

LEMMA RecoveredFinite ==
    ASSUME ManifestTypeOK
    PROVE  RecoveredTables(manFile) \subseteq ActiveTable /\ IsFiniteSet(RecoveredTables(manFile))
<1> DEFINE A == {j \in DOMAIN manFile : Active(manFile, j)}
           T == RecoveredTables(manFile)
           f == [i \in A |-> [id |-> manFile[i].id, level |-> manFile[i].level, pos |-> i]]
<1>1. /\ DOMAIN manFile = 1 .. Len(manFile) /\ Len(manFile) \in Nat
      /\ \A i \in DOMAIN manFile : manFile[i].id \in Nat /\ manFile[i].level \in Nat
  BY RecordsTyped DEF ManifestRecord
<1>2. T \subseteq ActiveTable
  BY <1>1 DEF RecoveredTables, ActiveTable
<1>3. f \in Surjection(A, T)
  BY DEF Surjection, RecoveredTables
<1>4. IsFiniteSet(1 .. Len(manFile))
  BY <1>1, FS_Interval
<1>5. A \in SUBSET (1 .. Len(manFile))
  BY <1>1
<1> HIDE DEF A, f
<1>6. IsFiniteSet(A)
  BY <1>4, <1>5, FS_Subset
<1>7. IsFiniteSet(T)
  <2> HIDE DEF T
  <2> QED BY <1>3, <1>6, FS_Surjection
<1> QED BY <1>2, <1>7

LEMMA MinNat == ASSUME NEW a \in Nat, NEW b \in Nat PROVE Min({a, b}) \in Nat
<1>1. IsFiniteSet({a})
  BY FS_Singleton
<1>2. IsFiniteSet({a} \cup {b})
  BY <1>1, FS_AddElement
<1>3. {a} \cup {b} = {a, b}
  OBVIOUS
<1>4. {a, b} \in SUBSET Int /\ {a, b} # {} /\ IsFiniteSet({a, b})
  BY <1>2, <1>3
<1>5. Min({a, b}) \in {a, b}
  BY <1>4, MinInt
<1> QED BY <1>5

(* The version open_with builds.                                           *)
LEMMA OpenedVersionType ==
    ASSUME Inv, Openable, NEW m \in Nat \ {0}
    PROVE  /\ OpenedVersion(m) \subseteq Handle /\ IsFiniteSet(OpenedVersion(m))
           /\ Ids(OpenedVersion(m)) \subseteq DOMAIN files
<1> DEFINE T == RecoveredTables(manFile)
           H(t) == HandleOf(t.id, files[t.id], Min({t.level, m - 1}), t.pos)
           V == OpenedVersion(m)
           f == [t \in T |-> H(t)]
<1>1. T \subseteq ActiveTable /\ IsFiniteSet(T)
  BY RecoveredFinite DEF Inv, TypeOK
<1>2. V = {H(t) : t \in T}
  BY DEF OpenedVersion
<1>3. ASSUME NEW t \in T PROVE H(t) \in Handle /\ H(t).id \in DOMAIN files
  <2>1. t.id \in DOMAIN files
    BY DEF Openable
  <2>2. t.id \in Nat /\ t.level \in Nat /\ t.pos \in Int
    BY <1>1 DEF ActiveTable
  <2>3. files[t.id] \in Table
    BY <2>1 DEF Inv, TypeOK
  <2>4. Min({t.level, m - 1}) \in Nat
    BY <2>2, MinNat
  <2>5. H(t) \in Handle
    BY <2>2, <2>3, <2>4, HandleType
  <2>6. H(t).id = t.id
    BY DEF HandleOf
  <2> QED BY <2>1, <2>5, <2>6
<1> HIDE DEF H, T, V
<1>4. V \subseteq Handle /\ Ids(V) \subseteq DOMAIN files
  BY <1>2, <1>3 DEF Ids
<1>5. f \in Surjection(T, V)
  BY <1>2 DEF Surjection
<1> HIDE DEF f
<1>6. IsFiniteSet(V)
  BY <1>1, <1>5, FS_Surjection
<1> QED BY <1>4, <1>6 DEF V

(* Recovery takes the last next id of the log, which is the largest.       *)
LEMMA RecoverStep ==
    ASSUME ManifestTypeOK, LogInv, Recover
    PROVE  /\ ManifestTypeOK' /\ LogInv'
           /\ \A x : Reserved(x)' <=> Reserved(x)
<1> DEFINE N == {i \in DOMAIN manFile : manFile[i].kind = "next"}
<1>1. /\ DOMAIN manFile = 1 .. Len(manFile) /\ Len(manFile) \in Nat
      /\ \A i \in DOMAIN manFile : manFile[i].id \in Nat
  BY RecordsTyped
<1>2. IsFiniteSet(1 .. Len(manFile))
  BY <1>1, FS_Interval
<1>3. N \in SUBSET (1 .. Len(manFile)) /\ N \in SUBSET Int
  BY <1>1
<1>4. nextTableId' = IF N = {} THEN 1 ELSE manFile[Max(N)].id
  BY DEF Recover, RecoveredNextId
<1>5. N # {} => Max(N) \in N /\ \A i \in N : i <= Max(N)
  <2> HIDE DEF N
  <2>1. IsFiniteSet(N)
    BY <1>2, <1>3, FS_Subset
  <2> QED BY <1>3, <2>1, MaxInt
<1>6. nextTableId' \in Nat
  BY <1>1, <1>3, <1>4, <1>5
<1>7. \A i \in N : manFile[i].id <= nextTableId'
  <2> SUFFICES ASSUME NEW i \in N PROVE manFile[i].id <= nextTableId'
    OBVIOUS
  <2>1. nextTableId' = manFile[Max(N)].id /\ Max(N) \in N /\ i <= Max(N)
    BY <1>4, <1>5
  <2> DEFINE k == Max(N)
  <2> HIDE DEF k
  <2>2. nextTableId' = manFile[k].id /\ k \in N /\ i <= k
    BY <2>1 DEF k
  <2>3. CASE i = k
    BY <1>1, <2>2, <2>3
  <2>4. CASE i < k
    BY <2>2, <2>4 DEF LogInv, IsNextId
  <2> QED BY <1>1, <2>2, <2>3, <2>4
<1>8. UNCHANGED <<manFile, manSynced>> /\ manTables' = RecoveredTables(manFile)
  BY DEF Recover
<1>9. ManifestTypeOK'
  BY <1>6, <1>8, RecoveredFinite DEF ManifestTypeOK
<1>10. LogInv'
  BY <1>7, <1>8 DEF LogInv, IsNextId
<1>11. \A x : Reserved(x)' <=> Reserved(x)
  BY <1>8 DEF Reserved, IsNextId
<1> QED BY <1>9, <1>10, <1>11

LEMMA OpenInv == ASSUME Inv, NEW m \in MaxLevelsChoices, Open(m) PROVE Inv'
<1> USE DEF Open, walVars, historyVars
<1>1. m \in Nat \ {0}
  BY BoundsAssumption
<1>2. /\ version' \subseteq Handle /\ IsFiniteSet(version') /\ Ids(version') \subseteq DOMAIN files
  BY <1>1, OpenedVersionType
<1>3. mem' \in Table /\ imm' \in Table
  BY ReplayType, EmptyTableType DEF Inv, TypeOK
<1>4. ManifestTypeOK' /\ LogInv' /\ \A x : Reserved(x)' <=> Reserved(x)
  BY RecoverStep DEF Inv, TypeOK
<1>5. TypeOK'
  BY SMTT(60), <1>1, <1>2, <1>3, <1>4 DEF Inv, TypeOK, WalTypeOK
<1>6. PcInv'
  BY DEF Inv, PcInv
<1>7. IdInv'
  BY <1>4 DEF Inv, IdInv
<1>8. FileInv'
  BY <1>2 DEF Inv, FileInv, Recover
<1> QED BY <1>4, <1>5, <1>6, <1>7, <1>8 DEF Inv

-----------------------------------------------------------------------------
(* The theorems *)

LEMMA InitInv == Init => Inv
<1> SUFFICES ASSUME Init PROVE Inv
  OBVIOUS
<1> USE DEF Init, ManifestInit, WalInit
<1>1. /\ cpc = [c \in Compactors |-> "idle"] /\ job = [c \in Compactors |-> NoJob]
      /\ cpc \in [Compactors -> CompactorPc] /\ job \in [Compactors -> JobType]
      /\ \A c \in Compactors : IsFiniteSet(job[c].inputs)
  BY NoJobType DEF CompactorPc
<1>2. WalTypeOK /\ ManifestTypeOK /\ queue \in Seq({"Compact", "Shutdown"})
  BY DEF WalTypeOK, ManifestTypeOK
<1>3. version \subseteq Handle /\ IsFiniteSet(version) /\ mem \in Table /\ imm \in Table
  BY FS_EmptySet, EmptyTableType
<1>4. workerUp \in BOOLEAN /\ lastError \in BOOLEAN
  BY Zenon
<1>5. acked \in [Keys -> Entry] /\ maybe \in [Keys -> SUBSET Entry]
  BY DEF Entry
<1>6. /\ status \in {"down", "up", "broken"} /\ maxLevels \in Nat \ {0}
      /\ manLock \in Compactors \union {"none"} /\ flushId \in Nat
      /\ wpc \in WriterPc /\ pending \in Operation \union {NoOperation}
      /\ calls \in Nat /\ opens \in Nat /\ faults \in Nat
  BY DEF WriterPc
<1>7. DOMAIN files \subseteq Nat /\ \A i \in DOMAIN files : files[i] \in Table
  OBVIOUS
<1>8. TypeOK
  <2> HIDE DEF Init, ManifestInit, WalInit
  <2> QED BY <1>1, <1>2, <1>3, <1>4, <1>5, <1>6, <1>7 DEF TypeOK, JobType
<1>9. workerUp = FALSE /\ status = "down" /\ wpc = "idle" /\ version = {} /\ files = [i \in {} |-> EmptyTable]
  BY Zenon
<1>10. PcInv
  <2> HIDE DEF Init, ManifestInit, WalInit
  <2> QED BY <1>1, <1>9, NoJobType DEF PcInv
<1>11. LogInv
  BY DEF LogInv
<1>12. IdInv
  <2> HIDE DEF Init, ManifestInit, WalInit
  <2> QED BY <1>1, <1>9 DEF IdInv
<1>13. manFile = <<>>
  OBVIOUS
<1>14. FileInv
  <2> HIDE DEF Init, ManifestInit, WalInit
  <2> QED BY SMTT(30), <1>1, <1>9, <1>13, NoJobType DEF FileInv, Ids
<1> QED BY <1>8, <1>10, <1>11, <1>12, <1>14 DEF Inv

LEMMA StutterInv == ASSUME Inv, UNCHANGED vars PROVE Inv'
<1> USE DEF vars, memVars, diskVars, historyVars, counters, walVars
<1>1. TypeOK'
  BY DEF Inv, TypeOK, WalTypeOK, ManifestTypeOK
<1>2. PcInv'
  BY DEF Inv, PcInv
<1>3. LogInv'
  BY DEF Inv, LogInv, IsNextId
<1>4. IdInv'
  BY DEF Inv, IdInv, Reserved, IsNextId
<1>5. FileInv'
  BY DEF Inv, FileInv
<1> QED BY <1>1, <1>2, <1>3, <1>4, <1>5 DEF Inv

(* Inv is inductive: every step of the writer, of a compactor, of the user *)
(* and of the environment preserves it.                                    *)
LEMMA NextInv == ASSUME Inv, [Next]_vars PROVE Inv'
<1>1. CASE WriterSteps
  BY <1>1, SyncWriteInv, FlushAllocInv, FlushCreateInv, FlushAddInv, FlushInstallInv,
     FlushTruncateInv, CloseReturnsInv DEF WriterSteps
<1>2. CASE UserCalls
  BY <1>2, OpenInv, WriteInv, FlushInv, CompactInv, CloseInv DEF UserCalls
<1>3. CASE WorkerTakes \/ WorkerStops
  BY <1>3, WorkerTakesInv, WorkerStopsInv
<1>4. CASE \E c \in Compactors : CompactorSteps(c)
  BY <1>4, CompactAllocInv, CompactMergeInv, CompactAddInv, CompactRemoveInv,
     CompactApplyInv, CompactDeleteInv DEF CompactorSteps
<1>5. CASE FailingSteps
  BY <1>5, OpenFailsInv, WriteFailsInv, SyncWriteFailsInv, FlushSyncFailsInv, FlushAllocFailsInv,
     FlushCreateFailsInv, FlushAddFailsInv, FlushTruncateFailsInv, CompactAllocFailsInv,
     CompactMergeFailsInv, CompactAddFailsInv, CompactRemoveFailsInv DEF FailingSteps
<1>6. CASE Kill \/ PowerLoss
  BY <1>6, KillInv, PowerLossInv
<1>7. CASE UNCHANGED vars
  BY <1>7, StutterInv
<1> QED BY <1>1, <1>2, <1>3, <1>4, <1>5, <1>6, <1>7 DEF Next

(* The inductive invariant holds in every reachable state.                 *)
THEOREM Invariance == Spec => []Inv
<1> QED BY InitInv, NextInv, PTL DEF Spec

(* The state of the engine stays well formed, whatever fails: memtables,   *)
(* files and recovered tables hold only what callers wrote, every handle   *)
(* is a handle and every id and level a natural number.                    *)
THEOREM TypeCorrect == Spec => []TypeOK
<1>1. Inv => TypeOK
  BY DEF Inv
<1> QED BY <1>1, Invariance, PTL

(* No file that a restart, a read or a running merge needs is ever missing *)
(* (flush_memtable and compact_once add a table to the manifest only once  *)
(* its file exists, and delete none that is still named).                  *)
THEOREM FilesExist == Spec => []LiveFilesExist
<1>1. ASSUME Inv PROVE LiveFilesExist
  <2>1. \A t \in RecoveredTables(manFile) : t.id \in DOMAIN files
    BY SMTT(60), <1>1 DEF Inv, FileInv, RecoveredTables, Active
  <2>2. Ids(version) \subseteq DOMAIN files
    BY <1>1 DEF Inv, FileInv
  <2>3. \A c \in Compactors : cpc[c] = "merge" => Ids(job[c].inputs) \subseteq DOMAIN files
    BY <1>1 DEF Inv, FileInv
  <2> QED BY <2>1, <2>2, <2>3 DEF LiveFilesExist
<1> QED BY <1>1, Invariance, PTL

(* compact_once never deletes a source file, whatever the schedule: the    *)
(* test of the strong count at its end fails for every input, because the  *)
(* clone of the version it works from is still in scope.                   *)
THEOREM SourcesNeverDeleted == Spec => [](\A c \in Compactors : Deletable(c) = {})
<1>1. Inv => \A c \in Compactors : Deletable(c) = {}
  BY NothingDeletable
<1> QED BY <1>1, Invariance, PTL

(* The steps that create a file use an id that has none.                   *)
LEMMA NoFileRewritten ==
    ASSUME Inv, [Next]_vars
    PROVE  \A i \in DOMAIN files \intersect DOMAIN files' : files'[i] = files[i]
<1>1. CASE files' = files
  BY <1>1
<1>2. CASE CreateFile(flushId, imm) /\ wpc = "create"
  BY <1>2, CreateFileStep DEF Inv, IdInv, TypeOK
<1>3. ASSUME NEW c \in Compactors, CreateFile(job[c].id, Output(c)), cpc[c] = "merge"
      PROVE  \A i \in DOMAIN files \intersect DOMAIN files' : files'[i] = files[i]
  <2>1. job[c].id \in Nat /\ job[c].id \notin DOMAIN files /\ Output(c) \in Table
    BY <1>3, OutputType DEF Inv, IdInv, TypeOK
  <2> QED BY <1>3, <2>1, CreateFileStep
<1>4. ASSUME NEW c \in Compactors, CompactDelete(c)
      PROVE  \A i \in DOMAIN files \intersect DOMAIN files' : files'[i] = files[i]
  BY <1>4, FilesStay
<1>5. CASE WriterSteps
  BY <1>1, <1>2, <1>5 DEF WriterSteps, SyncWrite, FlushAlloc, FlushCreate, FlushAdd,
     FlushInstall, FlushTruncate, CloseReturns, StopProcess
<1>6. CASE UserCalls
  BY <1>1, <1>6 DEF UserCalls, Open, Write, Flush, Compact, Close, diskVars
<1>7. CASE WorkerTakes \/ WorkerStops
  BY <1>1, <1>7 DEF WorkerTakes, WorkerStops
<1>8. CASE \E c \in Compactors : CompactorSteps(c)
  <2> PICK c \in Compactors : CompactorSteps(c)
    BY <1>8
  <2>1. CASE CompactDelete(c)
    BY <1>4, <2>1
  <2>2. CASE CompactMerge(c)
    BY <1>3, <2>2 DEF CompactMerge
  <2>3. CASE ~ CompactDelete(c) /\ ~ CompactMerge(c)
    BY <1>1, <2>3 DEF CompactorSteps, CompactAlloc, CompactAdd, CompactRemove, CompactApply
  <2> QED BY <2>1, <2>2, <2>3
<1>9. CASE FailingSteps
  <2>1. CASE \E c \in Compactors : CompactMergeFails(c)
    BY <1>1, <1>3, <2>1 DEF CompactMergeFails
  <2>2. CASE FlushCreateFails
    BY <1>1, <1>2, <2>2 DEF FlushCreateFails
  <2>3. CASE ~ FlushCreateFails /\ ~ \E c \in Compactors : CompactMergeFails(c)
    <3>1. files' = files
      BY <1>9, <2>3 DEF FailingSteps, OpenFails, WriteFails, SyncWriteFails, FlushSyncFails,
         FlushAllocFails, FlushAddFails, FlushTruncateFails, CompactAllocFails, CompactAddFails,
         CompactRemoveFails, diskVars
    <3> QED BY <1>1, <3>1
  <2> QED BY <2>1, <2>2, <2>3
<1>10. CASE Kill \/ PowerLoss
  BY <1>1, <1>10 DEF Kill, PowerLoss, StopProcess
<1>11. CASE UNCHANGED vars
  BY <1>1, <1>11 DEF vars, diskVars
<1> QED BY <1>5, <1>6, <1>7, <1>8, <1>9, <1>10, <1>11 DEF Next

(* No table file is ever rewritten, through any crashes, lost log records  *)
(* and failed id allocations, so an open handle and a block cached under   *)
(* a table id never go stale (Manifest::next_table_id, BlockCache).        *)
THEOREM FilesNeverRewritten == Spec => FilesImmutable
<1>1. Inv /\ [Next]_vars =>
        [\A i \in DOMAIN files \intersect DOMAIN files' : files'[i] = files[i]]_vars
  BY NoFileRewritten
<1> QED BY <1>1, Invariance, PTL DEF Spec, FilesImmutable
=============================================================================
