-------------------------------- MODULE Ipam --------------------------------
(***************************************************************************)
(* The address pool of 10.0.0.0/24, src/src/network/ipam.rs and the        *)
(* NetworkState it works on: the octets handed out, each with its machine, *)
(* and next_octet, below which allocate never looks again.                 *)
(***************************************************************************)
EXTENDS Integers, FiniteSetsExt

CONSTANTS
  Id,          \* machine ids
  NoId,        \* the octet is not handed out
  LastOctet    \* 254 in the code

(* next_octet is a u8 that may come to stand one past LastOctet.           *)
ASSUME LastOctetAssumption == LastOctet \in 2 .. 254
ASSUME NoIdAssumption == NoId \notin Id

FirstOctet == 2
Octet == FirstOctet .. LastOctet
NoIp == 0      \* Option::None; not an octet the pool holds

NetworkState == [alloc : [Octet -> Id \cup {NoId}], next : 0 .. 255]

(* NetworkState::default                                                   *)
EmptyNetwork == [alloc |-> [o \in Octet |-> NoId], next |-> FirstOctet]

(* Mutant: the scan starts at the first octet, so a released one is given  *)
(* out again.                                                              *)
FreeOctetsFromFirst(net) == {o \in Octet : net.alloc[o] = NoId}

(* Where the loop of allocate may stop: from next_octet on.                *)
FreeOctets(net) == {o \in Octet : o >= net.next /\ net.alloc[o] = NoId}

PoolExhausted(net) == FreeOctets(net) = {}

NextFree(net) == Min(FreeOctets(net))

(* Mutant: next_octet stays on the octet just given.                       *)
AllocateKeepingNext(net, id) ==
  [alloc |-> [net.alloc EXCEPT ![NextFree(net)] = id], next |-> NextFree(net)]

Allocate(net, id) ==
  [alloc |-> [net.alloc EXCEPT ![NextFree(net)] = id],
   next |-> NextFree(net) + 1]

(* release drops the octet's entry, whoever holds it, and leaves next.     *)
Release(net, ip) ==
  [net EXCEPT !.alloc = [o \in Octet |-> IF o = ip THEN NoId ELSE net.alloc[o]]]
=============================================================================
