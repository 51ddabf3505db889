----------------------------- MODULE MCBlockFs -----------------------------
(* Model-checking instances of BlockFs.  TLC evaluates the assumption of *)
(* Paths with them.                                                      *)
EXTENDS BlockFs, Paths, TLC

CONSTANTS file1, file2

FileSymmetry == Permutations(Files)
=============================================================================
