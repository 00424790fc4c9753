------------------------------ MODULE MCReads -------------------------------
(* Instances of ReadPath for TLC.                                          *)
EXTENDS ReadPath

ReaderSymmetry == Permutations(Readers)
=============================================================================
