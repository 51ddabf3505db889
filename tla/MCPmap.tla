------------------------------ MODULE MCPmap -------------------------------
(* Model-checking instances of Pmap: addresses, permissions and symmetry.   *)
(* TLC evaluates the assumptions of UserMem and KernMap with them.          *)
EXTENDS Pmap, UserMem, KernMap, TLC

CONSTANTS e1, e2, p1, p2, p3, p4, p5

OneTable   == {1}
OneVA      == {<<1, 1>>}
TwoVAs     == {<<1, 1>>, <<1, 2>>}
ReadWrite  == {{"P", "U"}, {"P", "U", "W"}}
WriteOnly  == {{"P", "U", "W"}}
Symmetry   == Permutations(Pages)
=============================================================================
