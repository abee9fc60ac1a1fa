------------------------------ MODULE Registry ------------------------------
(***************************************************************************)
(* What clawstainer promises of the machines of a host, whichever backend  *)
(* runs them and however many invocations work on them, are killed or      *)
(* fail: a machine comes once, under an id of its own; it is given one     *)
(* address at most, which nobody had before; and it goes once, in one step *)
(* with its address.  Sandboxes maps its variables to these, and so does   *)
(* HostNet.                                                                *)
(***************************************************************************)
CONSTANTS
  Id,        \* machine ids
  Address,   \* what the pool holds
  Status,    \* what a record says of its machine
  NoId,      \* nobody has the address
  NoIp       \* the machine has no address

VARIABLES
  machine,   \* machine[id]: "unborn", "underway", a status once it is recorded, "gone"
  address,   \* address[id]: the one its record names
  owner,     \* owner[a]: the machine the pool keeps a for
  granted    \* the addresses that were ever given to a machine

registry == <<machine, address, owner, granted>>

Init ==
  /\ machine = [id \in Id |-> "unborn"]
  /\ address = [id \in Id |-> NoIp]
  /\ owner = [a \in Address |-> NoId]
  /\ granted = {}

Becomes(id, from, to) ==
  /\ machine[id] \in from
  /\ machine' = [machine EXCEPT ![id] = to]

(* A create draws the id.                                                  *)
Begin(id) ==
  /\ Becomes(id, {"unborn"}, "underway")
  /\ UNCHANGED <<address, owner, granted>>

(* It is given an address: the first of this machine, and a new one.       *)
Grant(id, a) ==
  /\ machine[id] = "underway"
  /\ \A b \in Address : owner[b] # id
  /\ a \notin granted
  /\ owner' = [owner EXCEPT ![a] = id]
  /\ granted' = granted \cup {a}
  /\ UNCHANGED <<machine, address>>

(* It ends with a record that names the address the machine has, if any.   *)
Enter(id) ==
  /\ Becomes(id, {"underway"}, "running")
  /\ \E a \in {b \in Address : owner[b] = id} \cup {NoIp} :
       /\ a = NoIp => \A b \in Address : owner[b] # id
       /\ address' = [address EXCEPT ![id] = a]
  /\ UNCHANGED <<owner, granted>>

(* It fails: the machine is never recorded, and keeps what it was given.   *)
Abandon(id) ==
  /\ Becomes(id, {"underway"}, "gone")
  /\ UNCHANGED <<address, owner, granted>>

(* A record learns its machine's state, or that a destroy of it failed.    *)
Change(id, status) ==
  /\ Becomes(id, Status, status)
  /\ UNCHANGED <<address, owner, granted>>

(* The machine is destroyed, and nothing is its own any more.              *)
Remove(id) ==
  /\ Becomes(id, Status, "gone")
  /\ address' = [address EXCEPT ![id] = NoIp]
  /\ owner' = [a \in Address |-> IF owner[a] = id THEN NoId ELSE owner[a]]
  /\ UNCHANGED granted

Next ==
  \E id \in Id :
    \/ Begin(id)
    \/ \E a \in Address : Grant(id, a)
    \/ Enter(id)
    \/ Abandon(id)
    \/ \E status \in Status : Change(id, status)
    \/ Remove(id)

Spec == Init /\ [][Next]_registry

-----------------------------------------------------------------------------
(* No address is given twice: once it was taken back nobody has it again,  *)
(* as next_octet only ever grows (network/ipam.rs).                        *)
GivenOnce ==
  [][\A a \in granted : owner'[a] \in {owner[a], NoId}]_registry

(* When all were given there are no more: the pool never recovers.         *)
ExhaustedForGood ==
  [][Address \subseteq granted =>
       \A a \in Address : owner[a] = NoId => owner'[a] = NoId]_registry
=============================================================================
