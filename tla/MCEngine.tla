------------------------------ MODULE MCEngine ------------------------------
(* The engine on a small instance.  Values are only ever compared for      *)
(* equality, so permuting them is a symmetry.                              *)
EXTENDS EngineStore, TLC

ValueSymmetry == Permutations(Values)
=============================================================================
