----------------------------- MODULE WalFields ------------------------------
(***************************************************************************)
(* The write-ahead log field by field: records as encode lays them out,    *)
(* writes and power losses that cut the file between any two fields, and   *)
(* the replay that finds its way through the result by the lengths it      *)
(* reads.  Shows that the log of whole records and fragments that the      *)
(* engine is modelled with (module Wal) is what these files amount to.     *)
(*                                                                         *)
(* A field is the operation it was written for and its place in the        *)
(* record.  Keys and values are one field long.                            *)
(***************************************************************************)
EXTENDS Tables, SequencesExt

CONSTANTS
    MaxSize,       \* MAX_KEY_SIZE and MAX_VALUE_SIZE, in fields
    MaxAppends,    \* bound: calls of append
    MaxCrashes     \* bound: restarts of the process

ASSUME LogBoundsAssumption ==
    MaxSize \in Nat \ {0} /\ MaxAppends \in Nat /\ MaxCrashes \in Nat

VARIABLES
    log,        \* the fields in the file, page cache included
    synced,     \* the fields that survive a power loss for certain
    lpc,        \* "up", "replay" while open_with replays, "failed"
    pos,        \* WalIterator::pos
    mem,        \* the memtable open_with fills
    appends, crashes

logVars == <<log, synced, lpc, pos, mem, appends, crashes>>

Abstract == INSTANCE Wal WITH walFile <- <<>>, walDurable <- <<>>
Operation == Abstract!Operation

-----------------------------------------------------------------------------
(* record::encode: checksum, type, key length, value length, key, value.   *)
Checksum == 1
KeyLen == 3
ValueLen == 4
HeaderLen == 4
KeySize(op) == 1
ValueSize(op) == IF op.kind = "put" THEN 1 ELSE 0
RecordLen(op) == HeaderLen + KeySize(op) + ValueSize(op)
Encode(op) == [i \in 1 .. RecordLen(op) |-> [op |-> op, field |-> i]]

(* The numbers a read of a length field can give: the one that was written *)
(* there, or anything when other bytes are in its place.                   *)
ReadKeyLen(f) == IF f.field = KeyLen THEN {KeySize(f.op)} ELSE 0 .. MaxSize + 1
ReadValueLen(f) == IF f.field = ValueLen THEN {ValueSize(f.op)} ELSE 0 .. MaxSize + 1

(* record::decode: the operation, or none when the checksum is not that of *)
(* the rest.                                                               *)
Decode_Unchecked(fields) ==
    {op \in Operation : fields[KeyLen].op = op /\ Len(fields) = RecordLen(op)}
Decode(fields) == {op \in Operation : fields = Encode(op)}

-----------------------------------------------------------------------------
LogInit ==
    /\ log = <<>> /\ synced = <<>> /\ lpc = "up" /\ pos = 0 /\ mem = EmptyTable
    /\ appends = 0 /\ crashes = 0

(* Wal::append, at the end of the file.                                    *)
Append_Overlapping(op) ==
    /\ lpc = "up" /\ appends < MaxAppends
    /\ appends' = appends + 1
    /\ log' = (IF log = <<>> THEN log ELSE Front(log)) \o Encode(op)
    /\ UNCHANGED <<synced, lpc, pos, mem, crashes>>
AppendRecord(op) ==
    /\ lpc = "up" /\ appends < MaxAppends
    /\ appends' = appends + 1
    /\ log' = log \o Encode(op)
    /\ UNCHANGED <<synced, lpc, pos, mem, crashes>>

(* write_all gives up after some of the fields.                            *)
AppendFails(op) ==
    /\ lpc = "up" /\ appends < MaxAppends
    /\ appends' = appends + 1
    /\ \E n \in 0 .. RecordLen(op) - 1 : log' = log \o SubSeq(Encode(op), 1, n)
    /\ UNCHANGED <<synced, lpc, pos, mem, crashes>>

SyncLog ==
    /\ lpc = "up"
    /\ synced' = log
    /\ UNCHANGED <<log, lpc, pos, mem, appends, crashes>>

(* Wal::truncate.                                                          *)
TruncateLog ==
    /\ lpc = "up"
    /\ log' = <<>> /\ synced' = <<>>
    /\ UNCHANGED <<lpc, pos, mem, appends, crashes>>

(* The process restarts and Wal::iter reads the whole file.                *)
Restart ==
    /\ lpc = "up" /\ crashes < MaxCrashes
    /\ crashes' = crashes + 1
    /\ lpc' = "replay" /\ pos' = 0 /\ mem' = EmptyTable

Kill == Restart /\ UNCHANGED <<log, synced, appends>>

PowerLoss ==
    /\ Restart
    /\ log' \in {SubSeq(log, 1, n) : n \in Len(synced) .. Len(log)}
    /\ synced' = log'
    /\ UNCHANGED appends

-----------------------------------------------------------------------------
(* WalIterator::next.                                                      *)
Remaining == Len(log) - pos

EndReplay ==
    /\ lpc' = "up"
    /\ UNCHANGED <<log, synced, pos, mem, appends, crashes>>
FailReplay ==
    /\ lpc' = "failed"
    /\ UNCHANGED <<log, synced, pos, mem, appends, crashes>>

(* No data, or a header cut short.                                         *)
NoHeader == lpc = "replay" /\ Remaining < HeaderLen /\ EndReplay

TornPayload(len) == len > Remaining /\ EndReplay

(* open_with applies the operation to the memtable.                        *)
WholeRecord(len) ==
    /\ len <= Remaining
    /\ LET ops == Decode(SubSeq(log, pos + 1, pos + len))
       IN  \/ /\ ops = {}
              /\ FailReplay
           \/ \E op \in ops :
                 /\ pos' = pos + len
                 /\ mem' = Insert(mem, op.key, op.entry)
                 /\ UNCHANGED <<log, synced, lpc, appends, crashes>>

NextRecord ==
    /\ lpc = "replay" /\ Remaining >= HeaderLen
    /\ \E kl \in ReadKeyLen(log[pos + KeyLen]), vl \in ReadValueLen(log[pos + ValueLen]) :
          \/ (kl > MaxSize \/ vl > MaxSize) /\ FailReplay
          \/ /\ kl <= MaxSize /\ vl <= MaxSize
             /\ TornPayload(HeaderLen + kl + vl) \/ WholeRecord(HeaderLen + kl + vl)

LogNext ==
    \/ \E op \in Operation : AppendRecord(op) \/ AppendFails(op)
    \/ SyncLog \/ TruncateLog \/ Kill \/ PowerLoss
    \/ NoHeader \/ NextRecord

LogSpec == LogInit /\ [][LogNext]_logVars

-----------------------------------------------------------------------------
(* The records and fragments a sequence of fields consists of.             *)
RecordsOf(fields) ==
    LET starts == SelectSeq([i \in DOMAIN fields |-> i],
                            LAMBDA i : fields[i].field = Checksum)
        end(r) == IF r = Len(starts) THEN Len(fields) ELSE starts[r + 1] - 1
        op(r) == fields[starts[r]].op
    IN  [r \in DOMAIN starts |->
            IF end(r) - starts[r] + 1 = RecordLen(op(r)) THEN op(r)
            ELSE Abstract!TornWrite]

RecordLog == INSTANCE Wal WITH walFile <- RecordsOf(log), walDurable <- RecordsOf(synced)

(* Every append, sync, truncation and power loss, whatever part of a       *)
(* record it leaves, is a step of the log of records and fragments.        *)
ImplementsWal == RecordLog!WalSpec

(* A replay that ends without an error has applied exactly the records in  *)
(* front of the first fragment, the last one of a key winning, and it      *)
(* fails only when something was written behind a fragment: no cut of the  *)
(* file makes it invent, skip or reorder an operation (WalIterator::next,  *)
(* decode).                                                                *)
ReplayExact ==
    [][lpc = "replay" =>
         /\ lpc' = "up" => mem' = Abstract!ReplayMemtable(RecordsOf(log))
         /\ lpc' = "failed" => Abstract!ReplayMayFail(RecordsOf(log))]_logVars
=============================================================================
