---------------------------- MODULE WriterProofs ----------------------------
(***************************************************************************)
(* The steps of the thread that owns the engine preserve the invariant:    *)
(* the calls put, delete, flush and close, each step of a flush, and every *)
(* way they fail.                                                          *)
(***************************************************************************)
EXTENDS LogProofs

LEMMA OperationFields ==
    ASSUME NEW op \in Operation
    PROVE  op.key \in Keys /\ op.entry \in Entry
BY DEF Operation, Put, Delete, Entry

LEMMA DoubtType ==
    ASSUME TypeOK, NEW op \in Operation \union {NoOperation}, Doubt(op)
    PROVE  acked' \in [Keys -> Entry] /\ maybe' \in [Keys -> SUBSET Entry]
<1>1. op.entry \in Entry
  BY DEF Operation, NoOperation, Put, Delete, Entry
<1> QED BY <1>1 DEF Doubt, TypeOK

LEMMA AcknowledgeType ==
    ASSUME TypeOK, NEW op \in Operation \union {NoOperation}, Acknowledge(op)
    PROVE  acked' \in [Keys -> Entry] /\ maybe' \in [Keys -> SUBSET Entry]
<1>1. op.entry \in Entry
  BY DEF Operation, NoOperation, Put, Delete, Entry
<1> QED BY <1>1 DEF Acknowledge, TypeOK

LEMMA OpenFailsInv == ASSUME Inv, OpenFails PROVE Inv'
<1> USE DEF OpenFails, diskVars, historyVars, walVars
<1>1. TypeOK'
  BY DEF Inv, TypeOK, WalTypeOK, ManifestTypeOK
<1>2. PcInv'
  BY DEF Inv, PcInv, TypeOK
<1>3. LogInv'
  BY DEF Inv, LogInv, IsNextId
<1>4. IdInv'
  BY DEF Inv, IdInv, Reserved, IsNextId
<1>5. FileInv'
  BY DEF Inv, FileInv
<1> QED BY <1>1, <1>2, <1>3, <1>4, <1>5 DEF Inv

LEMMA CloseInv == ASSUME Inv, Close PROVE Inv'
<1> USE DEF Close, diskVars, historyVars, walVars, Call, manVars
<1>1. queue' \in Seq({"Compact", "Shutdown"})
  BY DEF Inv, TypeOK
<1>2. TypeOK'
  BY SMTT(30), <1>1, Kept DEF Inv, TypeOK, WalTypeOK, WriterPc
<1>3. PcInv'
  BY DEF Inv, PcInv
<1> QED BY <1>2, <1>3, Kept, IdsKept DEF Inv

LEMMA WriteInv == ASSUME Inv, NEW op \in Operation, Write(op) PROVE Inv'
<1> USE DEF Write, Call, historyVars
<1>1. WalTypeOK'
  BY DEF Inv, TypeOK, WalTypeOK, WalAppend, WalRecord
<1>2. TypeOK'
  BY SMTT(30), <1>1, Kept DEF Inv, TypeOK, WriterPc
<1>3. PcInv'
  BY DEF Inv, PcInv
<1> QED BY <1>2, <1>3, Kept, IdsKept DEF Inv

LEMMA WriteFailsInv == ASSUME Inv, NEW op \in Operation, WriteFails(op) PROVE Inv'
<1> USE DEF WriteFails, Call, Fails, memVars, historyVars
<1>1. WalTypeOK'
  <2>1. PICK left \in {<<>>} \union (IF "tear" \in Faults THEN {<<TornWrite>>} ELSE {}) :
               WalAppend(left)
    BY Zenon
  <2>2. left = <<>> \/ left = <<TornWrite>>
    OBVIOUS
  <2>3. <<>> \in Seq(WalRecord) /\ <<TornWrite>> \in Seq(WalRecord)
    BY DEF WalRecord
  <2>4. left \in Seq(WalRecord) /\ walFile \in Seq(WalRecord)
    BY <2>2, <2>3 DEF Inv, TypeOK, WalTypeOK
  <2>5. walFile \o left \in Seq(WalRecord)
    BY <2>4, ConcatProperties
  <2>6. walFile' = walFile \o left /\ walDurable' = walDurable
    BY <2>1 DEF WalAppend
  <2> QED BY <2>5, <2>6 DEF Inv, TypeOK, WalTypeOK
<1>2. TypeOK'
  BY SMTT(30), <1>1, Kept DEF Inv, TypeOK
<1>3. PcInv'
  BY DEF Inv, PcInv
<1> QED BY <1>2, <1>3, Kept, IdsKept DEF Inv

LEMMA SyncWriteInv == ASSUME Inv, SyncWrite PROVE Inv'
<1> USE DEF SyncWrite, ReturnOk, Return, historyVars
<1>1. WalTypeOK'
  BY DEF Inv, TypeOK, WalTypeOK, WalSync
<1>2. pending \in Operation /\ pending.key \in Keys /\ pending.entry \in Entry
  <2>1. pending \in Operation
    BY DEF Inv, PcInv
  <2> QED BY <2>1, OperationFields
<1>3. mem' \in Table
  BY <1>2, InsertType DEF Inv, TypeOK
<1>4. acked' \in [Keys -> Entry] /\ maybe' \in [Keys -> SUBSET Entry] /\ faults' \in Nat
  BY <1>2, AcknowledgeType DEF Inv, TypeOK
<1>5. wpc' \in {"idle", "alloc"} /\ pending' \in Operation \union {NoOperation}
  BY <1>2
<1>6. TypeOK'
  BY <1>1, <1>3, <1>4, <1>5, Kept DEF Inv, TypeOK, WriterPc
<1>7. PcInv'
  BY <1>5 DEF Inv, PcInv
<1> QED BY <1>5, <1>6, <1>7, Kept, IdsKept DEF Inv

LEMMA SyncWriteFailsInv == ASSUME Inv, SyncWriteFails PROVE Inv'
<1> USE DEF SyncWriteFails, Return, Fails, walVars, historyVars
<1>1. TypeOK'
  BY SMTT(30), Kept DEF Inv, TypeOK, WalTypeOK, WriterPc
<1>2. PcInv'
  BY DEF Inv, PcInv
<1> QED BY <1>1, <1>2, Kept, IdsKept DEF Inv

LEMMA FlushInv == ASSUME Inv, Flush PROVE Inv'
<1> USE DEF Flush, Call, historyVars
<1>1. WalTypeOK'
  BY DEF Inv, TypeOK, WalTypeOK, WalSync, walVars
<1>2. queue' \in Seq({"Compact", "Shutdown"})
  BY QueueType DEF Inv, TypeOK
<1>3. wpc' \in {"idle", "alloc"}
  OBVIOUS
<1>4. TypeOK'
  BY SMTT(30), <1>1, <1>2, <1>3, Kept DEF Inv, TypeOK, WriterPc
<1>5. PcInv'
  BY <1>3 DEF Inv, PcInv
<1> QED BY <1>3, <1>4, <1>5, Kept, IdsKept DEF Inv

LEMMA FlushSyncFailsInv == ASSUME Inv, FlushSyncFails PROVE Inv'
<1> USE DEF FlushSyncFails, Call, Fails, memVars, walVars, historyVars
<1>1. TypeOK'
  BY SMTT(30), Kept DEF Inv, TypeOK, WalTypeOK
<1>2. PcInv'
  BY DEF Inv, PcInv
<1> QED BY <1>1, <1>2, Kept, IdsKept DEF Inv

LEMMA FlushTruncateInv == ASSUME Inv, FlushTruncate PROVE Inv'
<1> USE DEF FlushTruncate, ReturnOk, Return
<1>1. WalTypeOK'
  BY DEF WalTypeOK, WalTruncate
<1>2. queue' \in Seq({"Compact", "Shutdown"})
  BY QueueType DEF Inv, TypeOK
<1>3. acked' \in [Keys -> Entry] /\ maybe' \in [Keys -> SUBSET Entry]
  BY AcknowledgeType DEF Inv, TypeOK
<1>4. TypeOK'
  BY <1>1, <1>2, <1>3, Kept, EmptyTableType DEF Inv, TypeOK, WriterPc
<1>5. PcInv'
  BY DEF Inv, PcInv
<1> QED BY <1>4, <1>5, Kept, IdsKept DEF Inv

LEMMA FlushTruncateFailsInv == ASSUME Inv, FlushTruncateFails PROVE Inv'
<1> USE DEF FlushTruncateFails, ReturnErr, Return, Fails
<1>1. WalTypeOK'
  <2>1. walDurable' = walDurable /\ (walFile' = walFile \/ walFile' = <<>>)
    BY DEF WalTruncateUnsynced, walVars
  <2>2. <<>> \in Seq(WalRecord)
    OBVIOUS
  <2> QED BY <2>1, <2>2 DEF Inv, TypeOK, WalTypeOK
<1>2. acked' \in [Keys -> Entry] /\ maybe' \in [Keys -> SUBSET Entry]
  BY DoubtType DEF Inv, TypeOK
<1>3. TypeOK'
  BY SMTT(30), <1>1, <1>2, Kept DEF Inv, TypeOK, WriterPc
<1>4. PcInv'
  BY DEF Inv, PcInv
<1> QED BY <1>3, <1>4, Kept, IdsKept DEF Inv

LEMMA FlushInstallInv == ASSUME Inv, FlushInstall PROVE Inv'
<1> USE DEF FlushInstall, historyVars, counters, walVars
<1> DEFINE h == HandleOf(flushId, files[flushId], 0, FrontStamp(version))
<1>1. flushId \in DOMAIN files /\ files[flushId] \in Table
  BY DEF Inv, FileInv, TypeOK
<1>2. FrontStamp(version) \in Int
  BY StampTypes DEF Inv, TypeOK
<1>3. h \in Handle /\ h.id = flushId
  BY <1>1, <1>2, HandleType DEF Inv, TypeOK, HandleOf
<1>4. version' = version \union {h}
  OBVIOUS
<1> HIDE DEF h
<1>5. version' \subseteq Handle /\ IsFiniteSet(version')
  <2>1. version \subseteq Handle /\ IsFiniteSet(version)
    BY DEF Inv, TypeOK
  <2>2. IsFiniteSet(version \union {h})
    BY <2>1, FS_AddElement
  <2> QED BY <1>3, <1>4, <2>1, <2>2
<1>6. TypeOK'
  BY <1>5, Kept DEF Inv, TypeOK, WriterPc, WalTypeOK
<1>7. PcInv'
  BY DEF Inv, PcInv
<1>8. IdInv'
  BY Kept DEF Inv, IdInv
<1>9. Ids(version') \subseteq DOMAIN files
  BY <1>1, <1>3, <1>4 DEF Inv, FileInv, Ids
<1>10. FileInv'
  BY <1>9 DEF Inv, FileInv, manVars
<1> QED BY <1>6, <1>7, <1>8, <1>10, Kept DEF Inv

-----------------------------------------------------------------------------
(* The steps of a flush that write to the manifest or create the file      *)

LEMMA FlushAllocInv == ASSUME Inv, FlushAlloc PROVE Inv'
<1> USE DEF FlushAlloc, Freeze, walVars, historyVars, counters
<1>1. /\ LogKept({})
      /\ \E i \in 1 .. manSynced' : IsNextId(i)' /\ nextTableId < manFile'[i].id
  BY Running, NextTableIdStep
<1>2. TypeOK'
  BY <1>1, EmptyTableType, FreshId, Running DEF Inv, TypeOK, WalTypeOK, LogKept, WriterPc
<1>3. PcInv'
  BY DEF Inv, PcInv
<1>4. IdInv'
  <2>1. Reserved(flushId)'
    BY <1>1 DEF Reserved
  <2> QED BY <1>1, <2>1, StillReserved, FreshId, Running DEF Inv, IdInv
<1>5. FileInv'
  BY <1>1, AddsHaveFiles DEF Inv, FileInv
<1> QED BY <1>1, <1>2, <1>3, <1>4, <1>5 DEF Inv, LogKept

LEMMA FlushAllocFailsInv == ASSUME Inv, FlushAllocFails PROVE Inv'
<1> USE DEF FlushAllocFails, Freeze, walVars, ReturnErr, Return, Fails
<1>1. LogKept({})
  BY Running, NextTableIdFailsStep
<1>2. acked' \in [Keys -> Entry] /\ maybe' \in [Keys -> SUBSET Entry]
  BY DoubtType DEF Inv, TypeOK
<1>3. TypeOK'
  <2>1. /\ WalTypeOK' /\ wpc' \in WriterPc /\ pending' \in Operation \union {NoOperation}
        /\ calls' \in Nat /\ opens' \in Nat /\ faults' \in Nat /\ flushId' \in Nat
    BY DEF Inv, TypeOK, WalTypeOK, WriterPc
  <2>2. mem' \in Table /\ imm' \in Table
    BY EmptyTableType DEF Inv, TypeOK
  <2>3. ManifestTypeOK'
    BY <1>1 DEF LogKept
  <2>4. DOMAIN files' \subseteq Nat /\ \A i \in DOMAIN files' : files'[i] \in Table
    BY DEF Inv, TypeOK
  <2> QED BY <1>2, <2>1, <2>2, <2>3, <2>4, WriterTypeOK DEF Inv
<1>4. PcInv'
  BY DEF Inv, PcInv
<1>5. IdInv'
  BY <1>1, StillReserved DEF Inv, IdInv
<1>6. FileInv'
  BY <1>1, AddsHaveFiles DEF Inv, FileInv
<1> QED BY <1>1, <1>3, <1>4, <1>5, <1>6 DEF Inv, LogKept

LEMMA FlushAddInv == ASSUME Inv, FlushAdd PROVE Inv'
<1> USE DEF FlushAdd, walVars, historyVars, counters
<1>1. flushId \in DOMAIN files /\ flushId \in Nat
  BY DEF Inv, FileInv, TypeOK
<1>2. LogKept({flushId})
  BY <1>1, Running, AddActiveStep
<1>3. TypeOK'
  BY <1>2 DEF Inv, TypeOK, WalTypeOK, LogKept, WriterPc
<1>4. PcInv'
  BY DEF Inv, PcInv
<1>5. IdInv'
  BY <1>2, StillReserved DEF Inv, IdInv
<1>6. FileInv'
  BY <1>1, <1>2, AddsHaveFiles DEF Inv, FileInv
<1> QED BY <1>2, <1>3, <1>4, <1>5, <1>6 DEF Inv, LogKept

LEMMA FlushAddFailsInv == ASSUME Inv, FlushAddFails PROVE Inv'
<1> USE DEF FlushAddFails, walVars, ReturnErr, Return, Fails
<1>1. flushId \in DOMAIN files /\ flushId \in Nat
  BY DEF Inv, FileInv, TypeOK
<1>2. LogKept({flushId})
  <2> DEFINE r == AddTable(flushId, 0)
  <2>1. r \in ManifestRecord /\ r.kind = "add" /\ r.id = flushId
    BY <1>1, RecordTypes DEF AddTable
  <2>2. PICK left \in Residues(r) : ChangeFails(left)
    OBVIOUS
  <2> HIDE DEF r
  <2> QED BY <2>1, <2>2, Running, ChangeFailsStep
<1>3. acked' \in [Keys -> Entry] /\ maybe' \in [Keys -> SUBSET Entry]
  BY DoubtType DEF Inv, TypeOK
<1>4. TypeOK'
  <2>1. /\ WalTypeOK' /\ wpc' \in WriterPc /\ pending' \in Operation \union {NoOperation}
        /\ calls' \in Nat /\ opens' \in Nat /\ faults' \in Nat /\ flushId' \in Nat
    BY DEF Inv, TypeOK, WalTypeOK, WriterPc
  <2>2. mem' \in Table /\ imm' \in Table
    BY DEF Inv, TypeOK
  <2>3. ManifestTypeOK'
    BY <1>2 DEF LogKept
  <2>4. DOMAIN files' \subseteq Nat /\ \A i \in DOMAIN files' : files'[i] \in Table
    BY DEF Inv, TypeOK
  <2> QED BY <1>3, <2>1, <2>2, <2>3, <2>4, WriterTypeOK DEF Inv
<1>5. PcInv'
  BY DEF Inv, PcInv
<1>6. IdInv'
  BY <1>2, StillReserved DEF Inv, IdInv
<1>7. FileInv'
  BY <1>1, <1>2, AddsHaveFiles DEF Inv, FileInv
<1> QED BY <1>2, <1>4, <1>5, <1>6, <1>7 DEF Inv, LogKept

LEMMA FlushCreateInv == ASSUME Inv, FlushCreate PROVE Inv'
<1> USE DEF FlushCreate, walVars, historyVars, counters
<1>1. flushId \in Nat /\ imm \in Table /\ flushId \notin DOMAIN files /\ Reserved(flushId)
  BY DEF Inv, IdInv, TypeOK
<1>2. /\ DOMAIN files' = DOMAIN files \union {flushId}
      /\ DOMAIN files' \subseteq Nat /\ \A i \in DOMAIN files' : files'[i] \in Table
  BY <1>1, CreateFileStep
<1>3. LogKept({})
  BY Running, LogUntouched DEF manVars
<1>4. TypeOK'
  BY <1>2, <1>3 DEF Inv, TypeOK, WalTypeOK, LogKept, WriterPc
<1>5. PcInv'
  BY DEF Inv, PcInv
<1>6. IdInv'
  BY <1>1, <1>2, <1>3, StillReserved DEF Inv, IdInv
<1>7. FileInv'
  BY <1>2, <1>3, AddsHaveFiles DEF Inv, FileInv
<1> QED BY <1>3, <1>4, <1>5, <1>6, <1>7 DEF Inv, LogKept

LEMMA FlushCreateFailsInv == ASSUME Inv, FlushCreateFails PROVE Inv'
<1> USE DEF FlushCreateFails, walVars, ReturnErr, Return, Fails
<1>1. flushId \in Nat /\ imm \in Table /\ flushId \notin DOMAIN files /\ Reserved(flushId)
  BY DEF Inv, IdInv, TypeOK
<1>2. /\ DOMAIN files' \in {DOMAIN files, DOMAIN files \union {flushId}}
      /\ DOMAIN files' \subseteq Nat /\ \A i \in DOMAIN files' : files'[i] \in Table
  <2>1. CASE files' = files
    BY <2>1 DEF Inv, TypeOK
  <2>2. CASE CreateFile(flushId, imm)
    BY <1>1, <2>2, CreateFileStep
  <2> QED BY <2>1, <2>2
<1>3. LogKept({})
  BY Running, LogUntouched DEF manVars
<1>4. acked' \in [Keys -> Entry] /\ maybe' \in [Keys -> SUBSET Entry]
  BY DoubtType DEF Inv, TypeOK
<1>5. TypeOK'
  <2>1. /\ WalTypeOK' /\ wpc' \in WriterPc /\ pending' \in Operation \union {NoOperation}
        /\ calls' \in Nat /\ opens' \in Nat /\ faults' \in Nat /\ flushId' \in Nat
    BY DEF Inv, TypeOK, WalTypeOK, WriterPc
  <2>2. mem' \in Table /\ imm' \in Table
    BY DEF Inv, TypeOK
  <2>3. ManifestTypeOK'
    BY <1>3 DEF LogKept
  <2> QED BY <1>2, <1>4, <2>1, <2>2, <2>3, WriterTypeOK DEF Inv
<1>6. PcInv'
  BY DEF Inv, PcInv
<1>7. IdInv'
  BY <1>1, <1>2, <1>3, StillReserved DEF Inv, IdInv
<1>8. FileInv'
  BY <1>2, <1>3, AddsHaveFiles DEF Inv, FileInv
<1> QED BY <1>3, <1>5, <1>6, <1>7, <1>8 DEF Inv, LogKept
=============================================================================
