--------------------------- MODULE CompactTables ----------------------------
(***************************************************************************)
(* compact: merge_tables over the inputs, and SsTable::create with what it *)
(* returns.                                                                *)
(***************************************************************************)
EXTENDS MergeTables, SsTable

CONSTANT MaxInputs     \* bound on the number of input tables

ASSUME MaxInputsAssumption == MaxInputs \in Nat

compactVars == <<inputs, dropping, rest, heads, heap, out, mpc, source, todo, block,
                 bufLen, first, last, index, offset, file, durable, published, bpc>>

CompactInit ==
    /\ \E n \in 0 .. MaxInputs, drop \in BOOLEAN :
          \E ins \in [1 .. n -> Table] : MergeInit(ins, drop)
    /\ CreateInit

MergePart == MergeNext /\ UNCHANGED ssVars

CreatePart_IgnoreError ==
    /\ mpc \in {"done", "failed"}
    /\ CreateStart(OutTable) \/ BuildNext
    /\ UNCHANGED mergeVars
CreatePart ==
    /\ mpc = "done"
    /\ CreateStart(OutTable) \/ BuildNext
    /\ UNCHANGED mergeVars

CompactNext == MergePart \/ CreatePart

CompactSpec == CompactInit /\ [][CompactNext]_compactVars

-----------------------------------------------------------------------------
(* The file that a compaction publishes answers every lookup, after a      *)
(* reopen, with the newest entry among the inputs; only tombstones are     *)
(* missing, and only when the caller said they may.                        *)
CompactExact ==
    published =>
        LET merged == Merge(InputHandles, inputs, dropping)
        IN  \A t \in OpenedTables(file), k \in Keys :
                SsGet(t, file, k) = IF k \in DOMAIN merged THEN {merged[k]} ELSE {}
=============================================================================
