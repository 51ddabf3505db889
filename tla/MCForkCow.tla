----------------------------- MODULE MCForkCow -----------------------------
(* Model-checking instances of ForkCow.  TLC evaluates the assumptions of *)
(* SpawnImage and Args with them.                                         *)
EXTENDS ForkCow, SpawnImage, Args, TLC

CONSTANTS r, c1, c2

\* The children are alike, and so are the pages; Root is not.
BothSymmetries == Permutations(Pages) \cup Permutations({c1, c2})
=============================================================================
