------------------------------ MODULE MCReplay ------------------------------
(* Instances of WalFields for TLC.                                         *)
EXTENDS WalFields

ValueSymmetry == Permutations(Values)
=============================================================================
