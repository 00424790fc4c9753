------------------------------ MODULE KVStore -------------------------------
(***************************************************************************)
(* What the store promises: a map from keys to entries that a single       *)
(* caller changes by puts and deletes, one after the other.  A write takes *)
(* effect at one instant between its call and its successful return, and   *)
(* nothing else changes what a read returns while the store is running.    *)
(* A write that fails before it takes effect is never visible, not even    *)
(* after a restart.  A restart brings every key back to its newest         *)
(* acknowledged entry, or to the entry of a later write that a crash cut   *)
(* off, or that was answered with an error after it had taken effect.      *)
(*                                                                         *)
(* There are no files, memtables, tables, flushes or compactions here:     *)
(* they are steps an observer of the map cannot see.                       *)
(***************************************************************************)
CONSTANTS
    Keys, Entries,
    Absent,         \* the entry of a key that is not stored
    Operations,     \* records with the fields key and entry
    NoOperation

VARIABLES
    alive,        \* whether the store is open
    visible,      \* what a read of each key returns
    pending,      \* the write under way
    committed,    \* the newest acknowledged entry of each key
    doubtful      \* entries of later writes that may be stored nevertheless

kvVars == <<alive, visible, pending, committed, doubtful>>

Nothing == [k \in Keys |-> Absent]

KVInit ==
    /\ ~ alive /\ visible = Nothing
    /\ pending = NoOperation
    /\ committed = Nothing /\ doubtful = [k \in Keys |-> {}]

With(op) == [visible EXCEPT ![op.key] = op.entry]
Doubting(op) ==
    [k \in Keys |-> IF k = op.key THEN doubtful[k] \union {op.entry} ELSE doubtful[k]]

Start ==
    /\ ~ alive /\ alive'
    /\ visible' \in [Keys -> Entries]
    /\ \A k \in Keys : visible'[k] \in {committed[k]} \union doubtful[k]
    /\ UNCHANGED <<pending, committed, doubtful>>

Begin(op) ==
    /\ alive /\ pending = NoOperation
    /\ pending' = op
    /\ UNCHANGED <<alive, visible, committed, doubtful>>

TakeEffect ==
    /\ alive /\ pending # NoOperation
    /\ visible' = With(pending)
    /\ UNCHANGED <<alive, pending, committed, doubtful>>

(* A successful return; the effect is there now, if not before.            *)
Succeed ==
    /\ alive /\ pending # NoOperation
    /\ visible' = With(pending)
    /\ committed' = [committed EXCEPT ![pending.key] = pending.entry]
    /\ doubtful' = [doubtful EXCEPT ![pending.key] = {}]
    /\ pending' = NoOperation
    /\ UNCHANGED alive

(* An error before the effect: nothing is left of the write.  The entry    *)
(* seen under its key is one that was there without it.                    *)
Fail ==
    /\ alive /\ pending # NoOperation
    /\ visible[pending.key] \in {committed[pending.key]} \union doubtful[pending.key]
    /\ pending' = NoOperation
    /\ UNCHANGED <<alive, visible, committed, doubtful>>

(* An error after the effect: it comes from the work the write set off.    *)
FailLate ==
    /\ alive /\ pending # NoOperation
    /\ visible[pending.key] = pending.entry
    /\ doubtful' = Doubting(pending)
    /\ pending' = NoOperation
    /\ UNCHANGED <<alive, visible, committed>>

(* A crash or a close.                                                     *)
Stop ==
    /\ alive /\ ~ alive'
    /\ visible' = Nothing
    /\ doubtful' = Doubting(pending)
    /\ pending' = NoOperation
    /\ UNCHANGED committed

KVNext ==
    \/ Start \/ TakeEffect \/ Succeed \/ Fail \/ FailLate \/ Stop
    \/ \E op \in Operations : Begin(op)

KVSpec == KVInit /\ [][KVNext]_kvVars
=============================================================================
