------------------------------ MODULE Manifest ------------------------------
(***************************************************************************)
(* The manifest: an append-only log of 17-byte records that names the live *)
(* tables and the next table id.  Every append is followed by an fsync of  *)
(* the file and of its directory.                                          *)
(***************************************************************************)
EXTENDS Integers, Sequences, FiniteSets, FiniteSetsExt

VARIABLES
    manFile,       \* the records in the file, page cache included
    manSynced,     \* how many of them an fsync has made durable
    nextTableId,   \* Manifest::next_table_id
    manTables      \* Manifest::tables; pos is the position in the add order

manVars == <<manFile, manSynced, nextTableId, manTables>>

AddTable(i, l) == [kind |-> "add", id |-> i, level |-> l]
RemoveTable(i) == [kind |-> "remove", id |-> i, level |-> 0]
SetNextTableId(i) == [kind |-> "next", id |-> i, level |-> 0]
TornRecord == [kind |-> "torn", id |-> 0, level |-> 0]

ManifestRecord ==
    [kind : {"add", "remove", "next", "torn"}, id : Nat, level : Nat]
ActiveTable == [id : Nat, level : Nat, pos : Nat]

ManifestTypeOK ==
    /\ manFile \in Seq(ManifestRecord)
    /\ manSynced \in Nat
    /\ nextTableId \in Nat
    /\ manTables \subseteq ActiveTable

-----------------------------------------------------------------------------
(* recover *)

(* Fragments at the end of the file are ignored while they are together    *)
(* shorter than a record, as a single one is.  With a whole record behind  *)
(* it a fragment shifts that record, whose checksum then fails.  A second  *)
(* add of a live id is an error as well.                                   *)
Active(file, i) ==
    /\ file[i].kind = "add"
    /\ \A j \in i + 1 .. Len(file) : file[j] # RemoveTable(file[i].id)
DoubleAdd(file, i, j) ==
    /\ i < j
    /\ file[i].kind = "add" /\ file[j].kind = "add" /\ file[i].id = file[j].id
    /\ \A m \in i .. j : file[m] # RemoveTable(file[i].id)
ManifestReadable(file) ==
    /\ \A i, j \in DOMAIN file :
          i < j /\ file[i].kind = "torn" => file[j].kind = "torn"
    /\ ~ \E i, j \in DOMAIN file : DoubleAdd(file, i, j)

(* Several fragments may add up to a record, whose checksum fails.         *)
ManifestMayFail(file) == \E i \in 1 .. Len(file) - 1 : file[i].kind = "torn"

RecoveredTables(file) ==
    {[id |-> file[i].id, level |-> file[i].level, pos |-> i] :
        i \in {j \in DOMAIN file : Active(file, j)}}

RecoveredNextId(file) ==
    LET sets == {i \in DOMAIN file : file[i].kind = "next"}
    IN  IF sets = {} THEN 1 ELSE file[Max(sets)].id

Recover ==
    /\ nextTableId' = RecoveredNextId(manFile)
    /\ manTables' = RecoveredTables(manFile)
    /\ UNCHANGED <<manFile, manSynced>>

-----------------------------------------------------------------------------
(* append: the record is written and synced.                               *)
ManifestAppend(record) ==
    /\ manFile' = Append(manFile, record)
    /\ manSynced' = Len(manFile) + 1

(* A failed append leaves `left' unsynced at the end of the file: nothing, *)
(* the whole record (the write succeeded, an fsync did not) or a fragment. *)
ManifestAppendFails(left) ==
    /\ manFile' = manFile \o left
    /\ UNCHANGED manSynced

(* next_table_id: the memory is changed first and stays changed when the   *)
(* append fails.                                                           *)
NextTableId_Unlogged ==
    /\ nextTableId' = nextTableId + 1
    /\ UNCHANGED <<manFile, manSynced, manTables>>
NextTableId ==
    /\ nextTableId' = nextTableId + 1
    /\ ManifestAppend(SetNextTableId(nextTableId + 1))
    /\ UNCHANGED manTables

NextTableIdFails(left) ==
    /\ nextTableId' = nextTableId + 1
    /\ ManifestAppendFails(left)
    /\ UNCHANGED manTables

(* add_table refuses an id it already has.  The ids it is called with are  *)
(* fresh, so that branch is never taken.                                   *)
KnownTable(id) == \E t \in manTables : t.id = id

AddActive(id, level) ==
    /\ ~ KnownTable(id)
    /\ ManifestAppend(AddTable(id, level))
    /\ manTables' = manTables \union
                      {[id |-> id, level |-> level, pos |-> Len(manFile) + 1]}
    /\ UNCHANGED nextTableId

(* One turn of the loop of remove_tables.                                  *)
RemoveActive(id) ==
    /\ ManifestAppend(RemoveTable(id))
    /\ manTables' = {t \in manTables : t.id # id}
    /\ UNCHANGED nextTableId

(* add_table or remove_tables stopped by a failing append.                 *)
ChangeFails(left) ==
    /\ ManifestAppendFails(left)
    /\ UNCHANGED <<nextTableId, manTables>>

ManifestInit ==
    /\ manFile = <<>> /\ manSynced = 0
    /\ nextTableId = 1 /\ manTables = {}

(* What a power loss may leave; `pending' says that an append may be under *)
(* way, and mayTear that it, or an unsynced record, may be cut short.      *)
ManifestImages(pending, mayTear) ==
    {SubSeq(manFile, 1, n) : n \in manSynced .. Len(manFile)}
      \union {Append(SubSeq(manFile, 1, n), TornRecord) :
                n \in {m \in manSynced .. Len(manFile) :
                         mayTear /\ (pending \/ m < Len(manFile))}}
=============================================================================
