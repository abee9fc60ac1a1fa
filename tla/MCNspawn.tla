------------------------------ MODULE MCNspawn ------------------------------
(* Two invocations at a time over a few machine ids and addresses.         *)
EXTENDS NspawnRuntime, TLC

Symmetry == Permutations(Proc) \cup Permutations(Id)
=============================================================================
