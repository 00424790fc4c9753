---------------------------- MODULE MergeTables -----------------------------
(***************************************************************************)
(* merge_tables: the k-way merge of a compaction.  Every input table has   *)
(* an iterator and a head, the next entry it has to offer; a heap holds    *)
(* one pair of key and input number per head.  A turn of the loop takes    *)
(* the smallest key off the heap, keeps the entry of the newest input that *)
(* sits on it and advances every input that does.                          *)
(***************************************************************************)
EXTENDS Tables, Sequences

VARIABLES
    inputs,     \* input_tables, the newest first: a sequence of contents
    dropping,   \* drop_tombstones
    rest,       \* iters: the keys each iterator has yet to yield
    heads,      \* the key of each head, EmptyKey for None
    heap,       \* BinaryHeap<Reverse<(key, index)>>
    out,        \* the merged entries, in the order they were pushed
    mpc         \* "load", "merge", "done", or "failed" when a read failed

mergeVars == <<inputs, dropping, rest, heads, heap, out, mpc>>

(* SsTableIterator::next yields the keys of a table in ascending order.    *)
NextKey(S) == IF S = {} THEN EmptyKey ELSE Min(S)

MergeTypeOK ==
    /\ inputs \in Seq(Table) /\ dropping \in BOOLEAN
    /\ rest \in [DOMAIN inputs -> SUBSET Keys]
    /\ heads \in [DOMAIN inputs -> Keys \union {EmptyKey}]
    /\ heap \in SUBSET (Keys \X DOMAIN inputs)
    /\ out \in Seq(Keys \X Entry)
    /\ mpc \in {"load", "merge", "done", "failed"}

MergeInit(ins, drop) ==
    /\ inputs = ins /\ dropping = drop
    /\ rest = [i \in DOMAIN ins |-> DOMAIN ins[i]]
    /\ heads = [i \in DOMAIN ins |-> EmptyKey]
    /\ heap = {} /\ out = <<>> /\ mpc = "load"

(* The first entry of every input becomes its head.                        *)
LoadHeads ==
    /\ mpc = "load"
    /\ heads' = [i \in DOMAIN inputs |-> NextKey(rest[i])]
    /\ rest' = [i \in DOMAIN inputs |-> rest[i] \ {NextKey(rest[i])}]
    /\ heap' = {<<NextKey(rest[i]), i>> : i \in {j \in DOMAIN inputs : rest[j] # {}}}
    /\ mpc' = "merge"
    /\ UNCHANGED <<inputs, dropping, out>>

SmallestKey == Min({p[1] : p \in heap})
Sitting(key) == {i \in DOMAIN inputs : heads[i] = key}
Winner_Oldest(key) == inputs[Max(Sitting(key))][key]
Winner(key) == inputs[Min(Sitting(key))][key]

(* Every input on the key moves to its next one, which enters the heap.    *)
Advance(key) ==
    /\ heads' = [i \in DOMAIN inputs |->
                   IF i \in Sitting(key) THEN NextKey(rest[i]) ELSE heads[i]]
    /\ rest' = [i \in DOMAIN inputs |->
                   IF i \in Sitting(key) THEN rest[i] \ {NextKey(rest[i])} ELSE rest[i]]
    /\ heap' = {p \in heap : p[1] # key} \union
                 {<<NextKey(rest[i]), i>> : i \in {j \in Sitting(key) : rest[j] # {}}}

MergeStep ==
    /\ mpc = "merge" /\ heap # {}
    /\ Advance(SmallestKey)
    /\ out' = IF dropping /\ Winner(SmallestKey) = Tombstone
              THEN out
              ELSE Append(out, <<SmallestKey, Winner(SmallestKey)>>)
    /\ UNCHANGED <<inputs, dropping, mpc>>

MergeReturns ==
    /\ mpc = "merge" /\ heap = {}
    /\ mpc' = "done"
    /\ UNCHANGED <<inputs, dropping, rest, heads, heap, out>>

(* A block of an input cannot be read: the merge returns the error.        *)
MergeFails ==
    /\ mpc \in {"load", "merge"}
    /\ mpc' = "failed"
    /\ UNCHANGED <<inputs, dropping, rest, heads, heap, out>>

MergeNext == LoadHeads \/ MergeStep \/ MergeReturns \/ MergeFails

MergeSpec ==
    /\ \E ins \in Seq(Table), drop \in BOOLEAN : MergeInit(ins, drop)
    /\ [][MergeNext]_mergeVars

-----------------------------------------------------------------------------
OutKeys == {out[i][1] : i \in DOMAIN out}
OutTable == [k \in OutKeys |-> out[CHOOSE i \in DOMAIN out : out[i][1] = k][2]]

InputHandles == {HandleOf(i, inputs[i], 0, -i) : i \in DOMAIN inputs}

(* The loop computes the newest-wins merge the engine relies on (the       *)
(* definition Merge): no key is lost, repeated or taken from an older      *)
(* input, tombstones go only on request, and the entries come out in the   *)
(* strictly ascending order that SsTable::create builds its index from.    *)
MergeExact ==
    mpc = "done" =>
        /\ \A i, j \in DOMAIN out : i < j => out[i][1] < out[j][1]
        /\ OutTable = Merge(InputHandles, inputs, dropping)
=============================================================================
