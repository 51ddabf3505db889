---------------------------- MODULE MCFileServer ----------------------------
(* Model-checking instances of FileServer.  TLC evaluates the assumptions *)
(* of DiskImage with them.                                                *)
EXTENDS FileServer, DiskImage, TLC

CONSTANTS c0, c1, c2, file1, file2

MCInitial == (file1 :> 3) @@ (file2 :> ABSENT)
ProcSymmetry == Permutations(Procs \ {Root})
=============================================================================
