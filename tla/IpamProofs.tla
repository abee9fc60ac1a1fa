----------------------------- MODULE IpamProofs -----------------------------
(***************************************************************************)
(* What allocate returns, for any last octet: the lemmas that every proof  *)
(* about addresses rests on.                                               *)
(***************************************************************************)
EXTENDS Ipam, TLAPS, WellFoundedInduction

(* Min of FiniteSetsExt is what its name says.                             *)
LEMMA LeastElement ==
  ASSUME NEW S \in SUBSET Nat, S # {}
  PROVE  Min(S) \in S /\ \A y \in S : Min(S) <= y
<1>1. PICK x \in S : \A y \in S : <<y, x>> \notin OpToRel(<, Nat)
  BY NatLessThanWellFounded, WFMin, Zenon
<1>2. \A y \in S : ~(y < x)
  BY <1>1, Zenon DEF OpToRel
<1>3. \A y \in S : x <= y
  BY <1>2
<1> QED
  BY <1>3 DEF Min

(* What the scan of allocate returns.                                      *)
LEMMA NextFreeIsFree ==
  ASSUME NEW n \in NetworkState, ~PoolExhausted(n)
  PROVE  /\ NextFree(n) \in Octet
         /\ NextFree(n) >= n.next
         /\ n.alloc[NextFree(n)] = NoId
<1>1. FreeOctets(n) \in SUBSET Nat
  BY LastOctetAssumption DEF FreeOctets, Octet, FirstOctet
<1>2. NextFree(n) \in FreeOctets(n)
  BY <1>1, LeastElement DEF PoolExhausted, NextFree
<1> QED
  BY <1>2 DEF FreeOctets

(* It is the first octet that is free from next_octet on.                  *)
LEMMA NextFreeIsLeast ==
  ASSUME NEW n \in NetworkState, NEW o \in Octet, o >= n.next, n.alloc[o] = NoId
  PROVE  NextFree(n) <= o
<1>1. FreeOctets(n) \in SUBSET Nat /\ o \in FreeOctets(n)
  BY LastOctetAssumption DEF FreeOctets, Octet, FirstOctet
<1> QED
  BY <1>1, LeastElement DEF NextFree

(* Octets are numbers past NoIp, and fit a u8 with one to spare.           *)
LEMMA OctetIsNumber == Octet \subseteq 2 .. 254 /\ NoIp \notin Octet
BY LastOctetAssumption DEF Octet, FirstOctet, NoIp
=============================================================================
