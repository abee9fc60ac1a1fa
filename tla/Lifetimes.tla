------------------------------ MODULE Lifetimes ------------------------------
(***************************************************************************)
(* What commands that work on many machines, as fleet create does, rely on *)
(* and what they add up to themselves: a machine has a record for one      *)
(* stretch of time at most.  Sandboxes, which knows the steps of a create  *)
(* and a destroy, and Fleet, which takes each for one step, both map their *)
(* state to this one.                                                      *)
(***************************************************************************)
CONSTANT Id

VARIABLE life    \* life[id]: is the record of id still to come, there or past?

Init == life = [id \in Id |-> "fresh"]

Turns(id, from, to) ==
  /\ life[id] = from
  /\ life' = [life EXCEPT ![id] = to]

Appear(id) == Turns(id, "fresh", "present")

(* A create fails, and its machine never has a record.                     *)
Fail(id) == Turns(id, "fresh", "past")

Vanish(id) == Turns(id, "present", "past")

Next == \E id \in Id : Appear(id) \/ Fail(id) \/ Vanish(id)

Spec == Init /\ [][Next]_life
=============================================================================
