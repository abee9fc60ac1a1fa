----------------------------- MODULE MCHostNet -----------------------------
(* The host network alone. *)
EXTENDS HostNet, TLC

MCSymmetry == Permutations(Invocation) \cup Permutations(Id \ Virtual)
=============================================================================
