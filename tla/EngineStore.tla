---------------------------- MODULE EngineStore -----------------------------
(***************************************************************************)
(* The engine implements the store: with what get returns as the visible   *)
(* map, every step of the writer, of the compaction worker and of recovery *)
(* is a step of KVStore or changes nothing an observer of KVStore can see. *)
(***************************************************************************)
EXTENDS Engine

Store == INSTANCE KVStore WITH
            Entries <- Entry, Absent <- Tombstone, Operations <- Operation,
            alive <- (status = "up"),
            visible <- [k \in Keys |-> Get(k)],
            committed <- acked, doubtful <- maybe

(* Writes are atomic and flushes, compactions and the truncation of the    *)
(* log invisible: while the engine is up, the result of get changes only   *)
(* by the write under way, at one step, and stays so until the next write  *)
(* of that key.  A write whose append failed is not visible, not even      *)
(* after a restart, which may only choose between the newest acknowledged  *)
(* entry and those of later writes that were cut off or answered with the  *)
(* error of a flush they had set off (Engine::write, flush_memtable,       *)
(* compact_once, open_with).  A write whose sync failed should be as       *)
(* invisible; the code falls short of that, as SyncFailure.cfg shows.      *)
ImplementsKVStore == Store!KVSpec
=============================================================================
