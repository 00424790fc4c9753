----------------------------- MODULE LogProofs ------------------------------
(***************************************************************************)
(* What the steps of the manifest do to its log, to the ids that are       *)
(* reserved in it and to the files: the facts about the engine that the    *)
(* proofs of all its actions rest on.                                      *)
(***************************************************************************)
EXTENDS Engine, TableProofs, SequenceTheorems

(* What an append of one record does to the manifest file.                 *)
LEMMA Appended ==
    ASSUME NEW f \in Seq(ManifestRecord), NEW r \in ManifestRecord
    PROVE  /\ Append(f, r) \in Seq(ManifestRecord)
           /\ Len(Append(f, r)) = Len(f) + 1
           /\ DOMAIN Append(f, r) = 1 .. Len(f) + 1
           /\ DOMAIN f = 1 .. Len(f) /\ Len(f) \in Nat
           /\ \A i \in 1 .. Len(f) : Append(f, r)[i] = f[i]
           /\ Append(f, r)[Len(f) + 1] = r
BY AppendProperties

LEMMA RecordTypes ==
    ASSUME NEW i \in Nat, NEW l \in Nat
    PROVE  /\ AddTable(i, l) \in ManifestRecord
           /\ RemoveTable(i) \in ManifestRecord
           /\ SetNextTableId(i) \in ManifestRecord
           /\ TornRecord \in ManifestRecord
BY DEF AddTable, RemoveTable, SetNextTableId, TornRecord, ManifestRecord

(* A failed append leaves the file as it was or one record longer.         *)
LEMMA ResidueAppends ==
    ASSUME NEW f \in Seq(ManifestRecord), NEW r \in ManifestRecord,
           NEW left \in Residues(r)
    PROVE  \/ f \o left = f
           \/ f \o left = Append(f, r)
           \/ f \o left = Append(f, TornRecord)
<1>1. left = <<>> \/ left = <<r>> \/ left = <<TornRecord>>
  BY DEF Residues
<1>2. \A q \in ManifestRecord : f \o <<q>> = Append(f, q)
  BY AppendIsConcat
<1> QED BY <1>1, <1>2, ConcatEmptySeq, RecordTypes

LEMMA RecordsTyped ==
    ASSUME ManifestTypeOK
    PROVE  /\ Len(manFile) \in Nat /\ DOMAIN manFile = 1 .. Len(manFile)
           /\ \A i \in DOMAIN manFile : manFile[i] \in ManifestRecord /\ manFile[i].id \in Nat
<1>1. manFile \in Seq(ManifestRecord)
  BY DEF ManifestTypeOK
<1>2. \A i \in 1 .. Len(manFile) : manFile[i] \in ManifestRecord
  BY <1>1
<1>3. \A i \in 1 .. Len(manFile) : manFile[i].id \in Nat
  BY <1>2 DEF ManifestRecord
<1> QED BY <1>1, <1>2, <1>3

-----------------------------------------------------------------------------
(* Steps of the manifest                                                   *)

(* What every step of a running engine does to the log: reserved ids stay  *)
(* reserved, and an add record that was not there names a table of `new'.   *)
LogKept(new) ==
    /\ ManifestTypeOK'
    /\ LogInv'
    /\ \A x \in Nat : Reserved(x) => Reserved(x)'
    /\ \A i \in DOMAIN manFile' :
          manFile'[i].kind = "add" =>
              \/ manFile'[i].id \in new
              \/ \E j \in DOMAIN manFile : manFile[j].kind = "add" /\ manFile[j].id = manFile'[i].id

(* A reserved id is below the next id of a running engine.                 *)
LEMMA ReservedBelow ==
    ASSUME ManifestTypeOK, LogInv, status = "up", NEW x \in Nat, Reserved(x)
    PROVE  x < nextTableId
<1>1. PICK i \in 1 .. manSynced : IsNextId(i) /\ x < manFile[i].id
  BY DEF Reserved
<1>2. i \in DOMAIN manFile /\ manFile[i].id \in Nat
  BY <1>1, RecordsTyped DEF ManifestTypeOK, LogInv
<1> QED BY <1>1, <1>2 DEF LogInv, ManifestTypeOK

LEMMA LogUntouched ==
    ASSUME ManifestTypeOK, LogInv, NEW new,
           UNCHANGED <<manFile, manSynced, nextTableId, manTables, status>>
    PROVE  LogKept(new)
BY DEF LogKept, ManifestTypeOK, LogInv, Reserved, IsNextId

(* The log grows by one record.                                            *)
LEMMA LogAppend ==
    ASSUME ManifestTypeOK, LogInv, status = "up", status' = "up",
           NEW r \in ManifestRecord, NEW new,
           manFile' = Append(manFile, r),
           manSynced' \in {manSynced, Len(manFile) + 1},
           nextTableId' \in Nat, nextTableId <= nextTableId',
           manTables' \subseteq ActiveTable,
           r.kind = "next" => nextTableId <= r.id /\ r.id <= nextTableId',
           r.kind = "add" => r.id \in new
    PROVE  LogKept(new)
<1>1. /\ manFile' \in Seq(ManifestRecord)
      /\ Len(manFile') = Len(manFile) + 1
      /\ DOMAIN manFile' = 1 .. Len(manFile) + 1
      /\ DOMAIN manFile = 1 .. Len(manFile) /\ Len(manFile) \in Nat
      /\ \A i \in 1 .. Len(manFile) : manFile'[i] = manFile[i]
      /\ manFile'[Len(manFile) + 1] = r
  BY Appended DEF ManifestTypeOK
<1>2. \A i \in 1 .. Len(manFile) : manFile[i] \in ManifestRecord /\ manFile[i].id \in Nat
  BY RecordsTyped
<1>3. r.id \in Nat
  BY DEF ManifestRecord
<1>4. ManifestTypeOK'
  BY <1>1 DEF ManifestTypeOK
<1>5. LogInv'
  <2>1. (manSynced <= Len(manFile))'
    BY <1>1 DEF LogInv, ManifestTypeOK
  <2>2. \A i \in DOMAIN manFile' : IsNextId(i)' => manFile'[i].id <= nextTableId'
    BY <1>1, <1>2, <1>3 DEF LogInv, IsNextId, ManifestTypeOK
  <2>3. ASSUME NEW i \in DOMAIN manFile', NEW j \in DOMAIN manFile',
               i < j, IsNextId(i)', IsNextId(j)'
        PROVE  manFile'[i].id <= manFile'[j].id
    <3>1. i \in 1 .. Len(manFile) /\ i \in DOMAIN manFile /\ IsNextId(i)
      BY <1>1, <2>3 DEF IsNextId
    <3>2. CASE j \in 1 .. Len(manFile)
      BY <1>1, <2>3, <3>1, <3>2 DEF LogInv, IsNextId
    <3>3. CASE j = Len(manFile) + 1
      <4>1. r.kind = "next" /\ manFile'[j] = r
        BY <1>1, <2>3, <3>3 DEF IsNextId
      <4>2. manFile[i].id <= nextTableId
        BY <3>1 DEF LogInv
      <4>3. manFile[i].id \in Nat /\ nextTableId \in Nat
        BY <1>2, <3>1 DEF ManifestTypeOK
      <4> QED BY <1>1, <1>3, <3>1, <4>1, <4>2, <4>3
    <3> QED BY <1>1, <3>2, <3>3
  <2> QED BY <2>1, <2>2, <2>3 DEF LogInv
<1>6. \A x \in Nat : Reserved(x) => Reserved(x)'
  <2> SUFFICES ASSUME NEW x \in Nat, Reserved(x) PROVE Reserved(x)'
    OBVIOUS
  <2>1. PICK i \in 1 .. manSynced : IsNextId(i) /\ x < manFile[i].id
    BY DEF Reserved
  <2>2. i \in 1 .. Len(manFile) /\ i \in 1 .. manSynced'
    BY <1>1 DEF LogInv, ManifestTypeOK
  <2>3. manFile'[i] = manFile[i]
    BY <1>1, <2>2
  <2> QED BY <2>1, <2>2, <2>3 DEF Reserved, IsNextId
<1>7. \A i \in DOMAIN manFile' :
          manFile'[i].kind = "add" =>
              \/ manFile'[i].id \in new
              \/ \E j \in DOMAIN manFile : manFile[j].kind = "add" /\ manFile[j].id = manFile'[i].id
  BY <1>1
<1> QED BY <1>4, <1>5, <1>6, <1>7 DEF LogKept

(* next_table_id: the id it returns is reserved once it returns.           *)
LEMMA NextTableIdStep ==
    ASSUME ManifestTypeOK, LogInv, status = "up", status' = "up", NextTableId, NEW new
    PROVE  LogKept(new) /\ \E i \in 1 .. manSynced' : IsNextId(i)' /\ nextTableId < manFile'[i].id
<1> DEFINE r == SetNextTableId(nextTableId + 1)
<1>1. nextTableId \in Nat /\ r \in ManifestRecord /\ r.kind = "next" /\ r.id = nextTableId + 1
  BY RecordTypes DEF ManifestTypeOK, SetNextTableId, ManifestRecord
<1>2. /\ manFile' = Append(manFile, r) /\ manSynced' = Len(manFile) + 1
      /\ nextTableId' = nextTableId + 1 /\ manTables' = manTables
  BY DEF NextTableId, ManifestAppend
<1>3. LogKept(new)
  <2> HIDE DEF r
  <2> QED BY <1>1, <1>2, LogAppend DEF ManifestTypeOK
<1>4. \E i \in 1 .. manSynced' : IsNextId(i)' /\ nextTableId < manFile'[i].id
  <2>1. Len(manFile) \in Nat /\ manFile'[Len(manFile) + 1] = r
    BY <1>1, <1>2, Appended DEF ManifestTypeOK
  <2>2. Len(manFile) + 1 \in 1 .. manSynced'
    BY <1>2, <2>1
  <2>3. manFile'[Len(manFile) + 1].kind = "next" /\ manFile'[Len(manFile) + 1].id = nextTableId + 1
    BY <1>1, <2>1
  <2> QED BY <1>1, <2>2, <2>3 DEF IsNextId
<1> QED BY <1>3, <1>4

LEMMA NextTableIdFailsStep ==
    ASSUME ManifestTypeOK, LogInv, status = "up", status' = "up", NEW new,
           NEW left \in Residues(SetNextTableId(nextTableId + 1)), NextTableIdFails(left)
    PROVE  LogKept(new)
<1> DEFINE r == SetNextTableId(nextTableId + 1)
<1>1. nextTableId \in Nat /\ r \in ManifestRecord /\ r.kind = "next" /\ r.id = nextTableId + 1
  BY RecordTypes DEF ManifestTypeOK, SetNextTableId, ManifestRecord
<1>2. TornRecord \in ManifestRecord /\ TornRecord.kind = "torn"
  BY RecordTypes DEF TornRecord, ManifestRecord
<1>3. /\ manFile' = manFile \/ manFile' = Append(manFile, r) \/ manFile' = Append(manFile, TornRecord)
      /\ manSynced' = manSynced /\ nextTableId' = nextTableId + 1 /\ manTables' = manTables
  BY <1>1, ResidueAppends DEF NextTableIdFails, ManifestAppendFails, ManifestTypeOK
<1>4. CASE manFile' = manFile
  <2>1. \A i \in DOMAIN manFile : IsNextId(i) => manFile[i].id <= nextTableId + 1
    <3>1. \A i \in DOMAIN manFile : manFile[i].id \in Nat
      BY RecordsTyped
    <3> QED BY <1>1, <3>1 DEF LogInv
  <2>2. LogInv'
    BY <1>3, <1>4, <2>1 DEF LogInv, IsNextId
  <2> QED BY <1>1, <1>3, <1>4, <2>2 DEF LogKept, ManifestTypeOK, Reserved, IsNextId
<1>5. CASE manFile' = Append(manFile, r)
  <2> HIDE DEF r
  <2> QED BY <1>1, <1>3, <1>5, LogAppend DEF ManifestTypeOK
<1>6. CASE manFile' = Append(manFile, TornRecord)
  BY <1>1, <1>2, <1>3, <1>6, LogAppend DEF ManifestTypeOK
<1> QED BY <1>3, <1>4, <1>5, <1>6

LEMMA AddActiveStep ==
    ASSUME ManifestTypeOK, LogInv, status = "up", status' = "up",
           NEW id \in Nat, NEW level \in Nat, AddActive(id, level)
    PROVE  LogKept({id})
<1> DEFINE r == AddTable(id, level)
<1>1. r \in ManifestRecord /\ r.kind = "add" /\ r.id = id
  BY RecordTypes DEF AddTable
<1>2. Len(manFile) + 1 \in Nat
  BY RecordsTyped
<1>3. manTables' \subseteq ActiveTable
  BY <1>2 DEF AddActive, ActiveTable, ManifestTypeOK
<1>4. /\ manFile' = Append(manFile, r) /\ manSynced' = Len(manFile) + 1
      /\ nextTableId' = nextTableId
  BY DEF AddActive, ManifestAppend
<1> HIDE DEF r
<1> QED BY <1>1, <1>3, <1>4, LogAppend DEF ManifestTypeOK

LEMMA RemoveActiveStep ==
    ASSUME ManifestTypeOK, LogInv, status = "up", status' = "up",
           NEW id \in Nat, RemoveActive(id)
    PROVE  LogKept({})
<1> DEFINE r == RemoveTable(id)
<1>1. r \in ManifestRecord /\ r.kind = "remove"
  BY RecordTypes DEF RemoveTable
<1>2. /\ manFile' = Append(manFile, r) /\ manSynced' = Len(manFile) + 1
      /\ nextTableId' = nextTableId /\ manTables' \subseteq ActiveTable
  BY DEF RemoveActive, ManifestAppend, ManifestTypeOK
<1> HIDE DEF r
<1> QED BY <1>1, <1>2, LogAppend DEF ManifestTypeOK

(* add_table or remove_tables fails.                                       *)
LEMMA ChangeFailsStep ==
    ASSUME ManifestTypeOK, LogInv, status = "up", status' = "up", NEW new,
           NEW r \in ManifestRecord, r.kind # "next", r.kind = "add" => r.id \in new,
           NEW left \in Residues(r), ChangeFails(left)
    PROVE  LogKept(new)
<1>1. TornRecord \in ManifestRecord /\ TornRecord.kind = "torn"
  BY RecordTypes DEF TornRecord, ManifestRecord
<1>2. /\ manFile' = manFile \/ manFile' = Append(manFile, r) \/ manFile' = Append(manFile, TornRecord)
      /\ manSynced' = manSynced /\ nextTableId' = nextTableId /\ manTables' = manTables
  BY ResidueAppends DEF ChangeFails, ManifestAppendFails, ManifestTypeOK
<1>3. CASE manFile' = manFile
  BY <1>2, <1>3, LogUntouched
<1>4. CASE manFile' = Append(manFile, r)
  BY <1>2, <1>4, LogAppend DEF ManifestTypeOK
<1>5. CASE manFile' = Append(manFile, TornRecord)
  BY <1>1, <1>2, <1>5, LogAppend DEF ManifestTypeOK
<1> QED BY <1>2, <1>3, <1>4, <1>5

-----------------------------------------------------------------------------
(* What the invariant says of ids and files, and how a step keeps it       *)

LEMMA Kept ==
    ASSUME Inv, UNCHANGED <<manVars, files, status>>
    PROVE  ManifestTypeOK' /\ LogInv' /\ \A x : Reserved(x)' <=> Reserved(x)
BY DEF Inv, TypeOK, manVars, ManifestTypeOK, LogInv, Reserved, IsNextId

(* The threads stay where they are, as far as ids and files go.            *)
LEMMA IdsKept ==
    ASSUME Inv, UNCHANGED <<manVars, files, status, flushId, cpc, job, version>>,
           wpc' \in {"create", "add", "install"} => wpc' = wpc
    PROVE  IdInv' /\ FileInv'
<1>1. IdInv'
  BY Kept DEF Inv, IdInv
<1>2. FileInv'
  BY DEF Inv, FileInv, manVars
<1> QED BY <1>1, <1>2

LEMMA StillReserved ==
    ASSUME Inv, NEW new, LogKept(new)
    PROVE  /\ \A x \in DOMAIN files : Reserved(x)'
           /\ wpc = "create" => Reserved(flushId) /\ \A x : x = flushId => Reserved(x)'
           /\ \A c \in Compactors : cpc[c] = "merge" => \A x : x = job[c].id => Reserved(x)'
<1>1. \A x \in Nat : Reserved(x) => Reserved(x)'
  BY DEF LogKept
<1>2. flushId \in Nat /\ DOMAIN files \subseteq Nat /\ \A c \in Compactors : job[c].id \in Nat
  BY DEF Inv, TypeOK
<1> QED BY <1>1, <1>2 DEF Inv, IdInv

(* Ids stay apart when the log is kept, no thread gets to the creation of  *)
(* a file by this step, and the files it creates have reserved ids that    *)
(* nobody else is about to use.                                            *)
LEMMA IdStep ==
    ASSUME Inv, NEW new, LogKept(new), NEW made \in SUBSET Nat,
           DOMAIN files' \subseteq DOMAIN files \union made,
           \A x \in made : Reserved(x),
           wpc' = "create" => wpc = "create" /\ flushId' = flushId /\ flushId \notin made,
           \A c \in Compactors : cpc'[c] = "merge" =>
               cpc[c] = "merge" /\ job'[c].id = job[c].id /\ job[c].id \notin made
    PROVE  IdInv'
<1>1. \A x \in DOMAIN files' : Reserved(x)'
  <2>1. \A x \in made : Reserved(x)'
    BY DEF LogKept
  <2> QED BY <2>1, StillReserved
<1>2. ASSUME wpc' = "create"
      PROVE  Reserved(flushId)' /\ flushId' \notin DOMAIN files'
  <2>1. flushId' = flushId /\ flushId \notin DOMAIN files \union made
    BY <1>2 DEF Inv, IdInv
  <2>2. \A x : x = flushId' => Reserved(x)'
    BY <1>2, <2>1, StillReserved
  <2> QED BY <2>1, <2>2
<1>3. ASSUME NEW c \in Compactors, cpc'[c] = "merge"
      PROVE  /\ Reserved(job[c].id)' /\ job'[c].id \notin DOMAIN files'
             /\ wpc' = "create" => flushId' # job'[c].id
  <2>1. cpc[c] = "merge" /\ job'[c].id = job[c].id /\ job[c].id \notin DOMAIN files \union made
    BY <1>3 DEF Inv, IdInv
  <2>2. \A x : x = job'[c].id => Reserved(x)'
    BY <2>1, StillReserved
  <2>3. wpc = "create" => flushId # job[c].id
    BY <2>1 DEF Inv, IdInv
  <2> QED BY <2>1, <2>2, <2>3
<1>4. ASSUME NEW c \in Compactors, NEW d \in Compactors, c # d,
             cpc'[c] = "merge", cpc'[d] = "merge"
      PROVE  job'[c].id # job'[d].id
  <2>1. cpc[c] = "merge" /\ job'[c].id = job[c].id /\ cpc[d] = "merge" /\ job'[d].id = job[d].id
    BY <1>4
  <2> QED BY <1>4, <2>1 DEF Inv, IdInv
<1> QED BY <1>1, <1>2, <1>3, <1>4 DEF IdInv

(* The same for a step that creates no file.                               *)
LEMMA IdStepNoFile ==
    ASSUME Inv, NEW new, LogKept(new), DOMAIN files' = DOMAIN files,
           wpc' = "create" => wpc = "create" /\ flushId' = flushId,
           \A c \in Compactors : cpc'[c] = "merge" => cpc[c] = "merge" /\ job'[c].id = job[c].id
    PROVE  IdInv'
<1> DEFINE made == {}
<1>1. made \in SUBSET Nat /\ DOMAIN files' \subseteq DOMAIN files \union made
  OBVIOUS
<1>2. /\ \A x \in made : Reserved(x)
      /\ wpc' = "create" => wpc = "create" /\ flushId' = flushId /\ flushId \notin made
      /\ \A c \in Compactors : cpc'[c] = "merge" =>
            cpc[c] = "merge" /\ job'[c].id = job[c].id /\ job[c].id \notin made
  OBVIOUS
<1> HIDE DEF made
<1> QED BY <1>1, <1>2, IdStep

(* A step of the writer that leaves the version, the compactors and the    *)
(* worker alone is well typed when what it changes is.                     *)
LEMMA WriterTypeOK ==
    ASSUME TypeOK,
           UNCHANGED <<status, maxLevels, version, manLock, queue, workerUp, lastError, cpc, job>>,
           WalTypeOK', ManifestTypeOK',
           DOMAIN files' \subseteq Nat, \A i \in DOMAIN files' : files'[i] \in Table,
           mem' \in Table, imm' \in Table, wpc' \in WriterPc,
           pending' \in Operation \union {NoOperation}, flushId' \in Nat,
           acked' \in [Keys -> Entry], maybe' \in [Keys -> SUBSET Entry],
           calls' \in Nat, opens' \in Nat, faults' \in Nat
    PROVE  TypeOK'
BY DEF TypeOK

LEMMA Running ==
    ASSUME Inv, wpc # "idle" \/ \E c \in Compactors : cpc[c] # "idle"
    PROVE  status = "up" /\ ManifestTypeOK /\ LogInv
BY DEF Inv, PcInv, TypeOK

(* The id next_table_id returns is nobody's.                               *)
LEMMA FreshId ==
    ASSUME Inv, status = "up"
    PROVE  /\ nextTableId \in Nat /\ nextTableId \notin DOMAIN files
           /\ wpc = "create" => flushId # nextTableId
           /\ \A c \in Compactors : cpc[c] = "merge" => job[c].id # nextTableId
<1>1. \A x \in Nat : Reserved(x) => x # nextTableId
  BY ReservedBelow DEF Inv, TypeOK, ManifestTypeOK
<1>2. nextTableId \in Nat /\ flushId \in Nat /\ DOMAIN files \subseteq Nat
  BY DEF Inv, TypeOK, ManifestTypeOK
<1>3. \A c \in Compactors : job[c].id \in Nat
  BY DEF Inv, TypeOK
<1> QED BY <1>1, <1>2, <1>3 DEF Inv, IdInv

(* The log names only tables that have a file, as long as what it gained   *)
(* has one.                                                                *)
LEMMA AddsHaveFiles ==
    ASSUME Inv, NEW new, LogKept(new), new \subseteq DOMAIN files', DOMAIN files \subseteq DOMAIN files'
    PROVE  \A i \in DOMAIN manFile' : manFile'[i].kind = "add" => manFile'[i].id \in DOMAIN files'
BY DEF Inv, FileInv, LogKept

(* SsTable::create under a reserved id that has no file yet.               *)
LEMMA CreateFileStep ==
    ASSUME Inv, NEW id \in Nat, NEW t \in Table, id \notin DOMAIN files, CreateFile(id, t)
    PROVE  /\ DOMAIN files' = DOMAIN files \union {id}
           /\ DOMAIN files' \subseteq Nat /\ \A i \in DOMAIN files' : files'[i] \in Table
           /\ \A i \in DOMAIN files : files'[i] = files[i]
BY DEF Inv, TypeOK, CreateFile

LEMMA QueueType ==
    ASSUME queue \in Seq({"Compact", "Shutdown"})
    PROVE  /\ RequestCompaction => queue' \in Seq({"Compact", "Shutdown"})
           /\ queue # <<>> => Tail(queue) \in Seq({"Compact", "Shutdown"})
<1>1. Append(queue, "Compact") \in Seq({"Compact", "Shutdown"})
  OBVIOUS
<1>2. RequestCompaction => queue' = queue \/ queue' = Append(queue, "Compact")
  BY DEF RequestCompaction
<1>3. queue # <<>> => Tail(queue) \in Seq({"Compact", "Shutdown"})
  BY HeadTailProperties
<1> QED BY <1>1, <1>2, <1>3
=============================================================================
