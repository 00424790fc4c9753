-------------------------------- MODULE Wal ---------------------------------
(***************************************************************************)
(* The write-ahead log: a file of whole records, possibly with fragments   *)
(* of records that were only partly written, and the part of it that an    *)
(* fsync has made durable.                                                 *)
(***************************************************************************)
EXTENDS Tables, Sequences

VARIABLES
    walFile,      \* what a read of wal.log returns, page cache included
    walDurable    \* what survives a power loss for certain

walVars == <<walFile, walDurable>>

Put(k, v) == [kind |-> "put", key |-> k, entry |-> v]
Delete(k) == [kind |-> "delete", key |-> k, entry |-> Tombstone]
Operation == {Put(k, v) : k \in Keys, v \in Values} \union {Delete(k) : k \in Keys}

(* A fragment shorter than its record.                                     *)
TornWrite == [kind |-> "torn", key |-> EmptyKey, entry |-> Tombstone]
WalRecord == Operation \union {TornWrite}

WalTypeOK == walFile \in Seq(WalRecord) /\ walDurable \in Seq(WalRecord)

WalInit == walFile = <<>> /\ walDurable = <<>>

(* Append at the end of the file; `left' is what the write left there:     *)
(* the record, or nothing or a fragment when it failed.                    *)
WalAppend(left) == walFile' = walFile \o left /\ UNCHANGED walDurable

WalSync_FlushOnly == UNCHANGED walVars
WalSync == walDurable' = walFile /\ UNCHANGED walFile

WalTruncate == walFile' = <<>> /\ walDurable' = <<>>

(* set_len succeeded and the fsync after it failed.                        *)
WalTruncateUnsynced == walFile' = <<>> /\ UNCHANGED walDurable

(* The number of records that a power loss cannot take: the durable part,  *)
(* or none if the file was emptied since the last sync.                    *)
SafeLen ==
    IF /\ Len(walDurable) <= Len(walFile)
       /\ SubSeq(walFile, 1, Len(walDurable)) = walDurable
    THEN Len(walDurable)
    ELSE 0

(* What a power loss may leave: the durable part, or the file cut behind   *)
(* the safe records, where part of a record is left when mayTear.          *)
WalImages(mayTear) ==
    LET safe == SafeLen
    IN  {walDurable}
          \union {SubSeq(walFile, 1, n) : n \in safe .. Len(walFile)}
          \union {Append(SubSeq(walFile, 1, n), TornWrite) :
                    n \in {m \in safe .. Len(walFile) - 1 : mayTear}}

(* All that may happen to the log, whoever uses it.                        *)
WalNext ==
    \/ \E r \in WalRecord : WalAppend(<<r>>)
    \/ WalSync \/ WalTruncate \/ WalTruncateUnsynced
    \/ walFile' \in WalImages(TRUE) /\ walDurable' = walFile'

WalSpec == WalInit /\ [][WalNext]_walVars

-----------------------------------------------------------------------------
(* Replay: records are read up to the first fragment.  A fragment at the   *)
(* very end stops the replay quietly.  With records behind it, the lengths *)
(* read at the fragment are those of its own header or bytes of the next   *)
(* record, so the replay either stops quietly or fails, as the bytes have  *)
(* it.                                                                     *)
Replayed(file) == {i \in DOMAIN file : \A j \in 1 .. i : file[j].kind # "torn"}

(* apply, for every replayed record: the last one of a key wins.           *)
ReplayMemtable(file) ==
    [k \in {file[i].key : i \in Replayed(file)} |->
        file[Max({i \in Replayed(file) : file[i].key = k})].entry]

ReplayMayFail_AtTheEnd(file) == \E i \in 1 .. Len(file) : file[i].kind = "torn"
ReplayMayFail(file) == \E i \in 1 .. Len(file) - 1 : file[i].kind = "torn"
=============================================================================
