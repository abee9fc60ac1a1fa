----------------------------- MODULE MCDispatch -----------------------------
(* A container and a virtual machine.                                      *)
EXTENDS Dispatch, TLC

(* A container with an address; a virtual machine with one and a timer, or *)
(* without both.                                                           *)
Networked(timer) == [nat |-> TRUE, timer |-> timer]

MCOptions == [id \in Id |->
  IF id \in Vm THEN {Networked(TRUE), [nat |-> FALSE, timer |-> FALSE]}
               ELSE {Networked(FALSE)}]

Symmetry == Permutations(Proc)
=============================================================================
