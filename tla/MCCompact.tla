----------------------------- MODULE MCCompact ------------------------------
(* Instances of CompactTables for TLC.                                     *)
EXTENDS CompactTables, TLC

(* Two keys with the same bits, so that the filter has a false positive.   *)
MCHash1 == 1 :> 5 @@ 2 :> 250 @@ 3 :> 5
MCHash2 == 1 :> 3 @@ 2 :> 9 @@ 3 :> 3
=============================================================================
