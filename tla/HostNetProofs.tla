--------------------------- MODULE HostNetProofs ----------------------------
(***************************************************************************)
(* The proofs about HostNet: HostNetInv is inductive, and the properties   *)
(* of the bridge, the rules and the forwards follow from it. There is one  *)
(* lemma for each of its conjuncts; a step of it that covers several       *)
(* commands covers those that touch nothing the conjunct speaks of.        *)
(***************************************************************************)
EXTENDS HostNet, IpamProofs, FiniteSetTheorems

-----------------------------------------------------------------------------
(* The chain and the pool                                                  *)

(* The rules the FORWARD chain may hold.                                   *)
Rule == {Drop} \cup {Accept(o) : o \in Octet}

(* DropComesFirst of any chain.                                            *)
DropsFirst(s) == \A j, k \in DOMAIN s : j < k /\ s[k] = Drop => s[j] = Drop

(* RemoveFirst of a sequence that begins with the element is its tail.     *)
LEMMA FirstRemoved ==
  ASSUME NEW S, NEW s \in Seq(S), NEW e \in S, s # <<>>, s[1] = e
  PROVE  RemoveFirst(s, e) = Tail(s)
<1> DEFINE I == {i \in 1 .. Len(s) : s[i] = e}
<1>1. 1 \in I /\ I # {} /\ I \in SUBSET Nat /\ \A i \in I : 1 <= i
  OBVIOUS
<1>2. Min(I) = 1
  <2> HIDE DEF I
  <2> DEFINE m == Min(I)
  <2>1. m \in I /\ \A i \in I : m <= i
    BY <1>1, LeastElement
  <2>2. m \in Nat /\ m <= 1 /\ 1 <= m
    BY <1>1, <2>1
  <2> HIDE DEF m
  <2>3. m = 1
    BY <2>2
  <2> QED
    BY <2>3 DEF m
<1>3. RemoveFirst(s, e) = SubSeq(s, 1, 1 - 1) \o SubSeq(s, 1 + 1, Len(s))
  BY <1>1, <1>2, Zenon DEF RemoveFirst, RemoveAt, SelectInSeq
<1> QED
  BY <1>3

(* `iptables -D` of the DROP rule keeps every other DROP in front.         *)
LEMMA DropRemoved ==
  ASSUME NEW s \in Seq(Rule), DropsFirst(s)
  PROVE  RemoveFirst(s, Drop) \in Seq(Rule) /\ DropsFirst(RemoveFirst(s, Drop))
<1>1. CASE \E i \in 1 .. Len(s) : s[i] = Drop
  <2>1. s # <<>> /\ s[1] = Drop
    BY <1>1 DEF DropsFirst
  <2>2. RemoveFirst(s, Drop) = Tail(s)
    BY <2>1, FirstRemoved DEF Rule
  <2> QED
    BY <2>1, <2>2 DEF DropsFirst
<1>2. CASE ~\E i \in 1 .. Len(s) : s[i] = Drop
  BY <1>2 DEF RemoveFirst
<1> QED
  BY <1>1, <1>2

(* So does `iptables -I`.                                                  *)
LEMMA DropAdded ==
  ASSUME NEW s \in Seq(Rule), DropsFirst(s)
  PROVE  DropsFirst(<<Drop>> \o s)
  BY DEF DropsFirst, Rule

(* release keeps the pool a pool and leaves next_octet.                    *)
LEMMA ReleasedPool ==
  ASSUME NEW n \in NetworkState, NEW o \in Octet
  PROVE  Release(n, o) \in NetworkState /\ Release(n, o).next = n.next
BY DEF Release, NetworkState

(* allocate hands out an octet from next_octet on, and moves next_octet    *)
(* past it.                                                                *)
LEMMA AllocatedPool ==
  ASSUME NEW n \in NetworkState, NEW i \in Id, ~PoolExhausted(n)
  PROVE  /\ NextFree(n) \in Octet /\ NextFree(n) >= n.next
         /\ Allocate(n, i) \in NetworkState /\ Allocate(n, i).next = NextFree(n) + 1
<1>1. NextFree(n) \in Octet /\ NextFree(n) >= n.next
  BY NextFreeIsFree
<1>2. NextFree(n) + 1 \in 0 .. 255
  <2>1. NextFree(n) \in 2 .. 254
    BY <1>1, OctetIsNumber
  <2> QED
    BY <2>1
<1>3. Allocate(n, i).alloc \in [Octet -> Id \cup {NoId}]
  BY DEF Allocate, NetworkState
<1> QED
  BY <1>1, <1>2, <1>3 DEF Allocate, NetworkState
(* Addresses in use are numbers of one octet.                              *)
LEMMA KnownAddresses ==
  ASSUME HostNetTypeOK
  PROVE  /\ pool.next \in 0 .. 255
         /\ \A i \in Id : ip[i] # NoIp => ip[i] \in 2 .. 254
         /\ \A f \in dnat : f[2] \in 2 .. 254
<1>1. pool.next \in 0 .. 255
  BY DEF HostNetTypeOK, NetworkState
<1>2. ASSUME NEW i \in Id, ip[i] # NoIp PROVE ip[i] \in 2 .. 254
  BY <1>2, OctetIsNumber DEF HostNetTypeOK
<1>3. ASSUME NEW f \in dnat PROVE f[2] \in 2 .. 254
  <2>1. f \in Id \X Octet
    BY <1>3 DEF HostNetTypeOK
  <2> QED
    BY <2>1, OctetIsNumber
<1> QED
  BY <1>1, <1>2, <1>3

(* The address allocate gives out is that of no machine and of no forward, *)
(* also of one whose machine was destroyed long ago.                       *)
LEMMA FreshAddress ==
  ASSUME HostNetInv, NEW i \in Id, ~PoolExhausted(pool)
  PROVE  /\ Allocate(pool, i).next = NextFree(pool) + 1
         /\ NextFree(pool) < NextFree(pool) + 1
         /\ \A j \in Id :
              ip[j] # NextFree(pool) /\ (ip[j] # NoIp => ip[j] < NextFree(pool) + 1)
         /\ \A f \in dnat : f[2] # NextFree(pool) /\ f[2] < NextFree(pool) + 1
<1> DEFINE new == NextFree(pool)
<1>1. /\ new \in Octet /\ new >= pool.next
      /\ Allocate(pool, i).next = new + 1
  BY AllocatedPool DEF HostNetInv, HostNetTypeOK
<1>2. /\ pool.next \in 0 .. 255
      /\ \A j \in Id : ip[j] # NoIp => ip[j] \in 2 .. 254
      /\ \A f \in dnat : f[2] \in 2 .. 254
  BY KnownAddresses DEF HostNetInv
<1>3. /\ \A j \in Id : ip[j] # NoIp => ip[j] < pool.next
      /\ \A f \in dnat : f[2] < pool.next
  BY DEF HostNetInv, AddressesFit
<1> HIDE DEF new
<1>4. new \in 2 .. 254
  BY <1>1, OctetIsNumber
<1>5. \A o \in 2 .. 254 : o < pool.next => o # new /\ o < new + 1
  <2> DEFINE next == pool.next
  <2>1. next \in 0 .. 255 /\ new >= next
    BY <1>1, <1>2
  <2> HIDE DEF next
  <2>2. \A o \in 2 .. 254 : o < next => o # new /\ o < new + 1
    BY <1>4, <2>1
  <2> QED
    BY <2>2 DEF next
<1>6. \A j \in Id : ip[j] # new /\ (ip[j] # NoIp => ip[j] < new + 1)
  BY <1>2, <1>3, <1>4, <1>5 DEF NoIp
<1>7. \A f \in dnat : f[2] # new /\ f[2] < new + 1
  BY <1>2, <1>3, <1>5
<1>8. new < new + 1
  BY <1>4
<1> QED
  BY <1>1, <1>6, <1>7, <1>8 DEF new
-----------------------------------------------------------------------------
(* What the closures and the failing commands do                           *)

(* A closure removes or marks the record of its machine, or finds none. It *)
(* gives no address and no octet.                                          *)
LEMMA Settled ==
  ASSUME HostNetTypeOK, NEW i \in Id, NEW end \in {"stopped", "gone"}, Settle(i, end)
  PROVE  /\ pool' \in NetworkState /\ pool'.next = pool.next
         /\ ip' \in [Id -> Octet \cup {NoIp}] /\ \A j \in Id : ip'[j] \in {ip[j], NoIp}
         /\ record' \in [Id -> {"unborn", "creating", "gone"} \cup HasRecord]
         /\ \A j \in Id \ {i} : record'[j] = record[j]
         /\ IF Recorded(i) THEN record'[i] \in {"stopped", "gone"} ELSE record'[i] = record[i]
<1> USE DEF HostNetTypeOK
<1>1. CASE Recorded(i) /\ Forget(i)
  <2>1. pool' \in NetworkState /\ pool'.next = pool.next
    BY <1>1, ReleasedPool DEF Forget
  <2> QED
    BY <1>1, <2>1 DEF Forget, Recorded, HasRecord
<1>2. CASE Recorded(i) /\ Mark(i)
  BY <1>2 DEF Mark, Recorded, HasRecord
<1>3. CASE ~Recorded(i) /\ UNCHANGED <<record, pool, ip>>
  BY <1>3
<1> QED
  BY <1>1, <1>2, <1>3 DEF Settle

(* The commit of a destroy ends it, as there is another record, or takes   *)
(* the lock to remove the network, as no other machine is running.         *)
Commits(p) == DestroyCommit(p) \/ DestroyVmCommit(p)

LEMMA CommitCases ==
  ASSUME HostNetInv, NEW p \in Invocation, Commits(p)
  PROVE  /\ at[p] \in {"commit", "commitVm"} /\ who[p] \in Id /\ store = NoOne
         /\ UNCHANGED <<bridge, Rules, ports, mishaps>>
         /\ \/ /\ \E end \in {"stopped", "gone"} : Settle(who[p], end)
               /\ \E j \in Id \ {who[p]} : Recorded(j)
               /\ at' = [at EXCEPT ![p] = "idle"] /\ who' = [who EXCEPT ![p] = NoId]
               /\ UNCHANGED <<store, outcome>>
            \/ /\ RunningOthers(who[p]) = {}
               /\ at' = [at EXCEPT ![p] = "linkDown"] /\ UNCHANGED <<who, pool, record, ip>>
               /\ store' = p /\ outcome' \in {"stopped", "gone"}
<1>1. at[p] \in {"commit", "commitVm"} /\ who[p] \in Id
  BY DEF Commits, DestroyCommit, DestroyVmCommit, HostNetInv, PlacesFit
<1>2. PICK end \in {"stopped", "gone"}, last \in BOOLEAN :
        /\ Closure(p, end, last)
        /\ last => RunningOthers(who[p]) = {}
        /\ ~last => OtherRecords(who[p]) # {}
  <2>1. CASE DestroyCommit(p)
    <3>1. PICK end \in {"stopped", "gone"} : Closure(p, end, RunningOthers(who[p]) = {})
      BY <2>1 DEF DestroyCommit
    <3>2. RunningOthers(who[p]) # {} => OtherRecords(who[p]) # {}
      BY DEF RunningOthers
    <3>3. CASE RunningOthers(who[p]) = {}
      <4>1. Closure(p, end, TRUE)
        BY <3>1, <3>3 DEF Closure
      <4> QED
        BY <3>3, <4>1
    <3>4. CASE RunningOthers(who[p]) # {}
      <4>1. Closure(p, end, FALSE)
        BY <3>1, <3>4 DEF Closure
      <4> QED
        BY <3>2, <3>4, <4>1
    <3> QED
      BY <3>3, <3>4
  <2>2. CASE DestroyVmCommit(p)
    <3>1. Closure(p, "gone", OtherRecords(who[p]) = {})
      BY <2>2 DEF DestroyVmCommit
    <3>2. CASE OtherRecords(who[p]) = {}
      <4>1. Closure(p, "gone", TRUE)
        BY <3>1, <3>2 DEF Closure
      <4>2. RunningOthers(who[p]) = {}
        BY <3>2 DEF RunningOthers
      <4> QED
        BY <4>1, <4>2
    <3>3. CASE OtherRecords(who[p]) # {}
      <4>1. Closure(p, "gone", FALSE)
        BY <3>1, <3>3 DEF Closure
      <4> QED
        BY <3>3, <4>1
    <3> QED
      BY <3>2, <3>3
  <2> QED
    BY <2>1, <2>2 DEF Commits
<1>3. CASE last = TRUE
  BY <1>1, <1>2, <1>3 DEF Closure
<1>4. CASE last = FALSE
  <2>1. \E j \in Id \ {who[p]} : Recorded(j)
    BY <1>2, <1>4 DEF OtherRecords
  <2> QED
    BY <1>1, <1>2, <1>4, <2>1 DEF Closure, Returns
<1> QED
  BY <1>3, <1>4

(* After a failing command the invocation is where the next one is, or at  *)
(* the end; nothing else has changed.                                      *)
LEMMA FailsOnward ==
  ASSUME HostNetTypeOK, NEW p \in Invocation, CommandFails(p)
  PROVE  /\ UNCHANGED <<bridge, Rules, ports, StateFile>> /\ mishaps' = mishaps + 1
         /\ \/ /\ who' = who
               /\ \E b \in NetPoints \ {"idle"} :
                    /\ at' = [at EXCEPT ![p] = b] /\ at[p] # "idle"
                    /\ b \in Creating <=> at[p] \in Creating
                    /\ b \in Destroying <=> at[p] \in Destroying
                    /\ b \in Removing <=> at[p] \in Removing
                    /\ b \in Ensuring \cup {"show", "allocate"}
                         => at[p] \in Ensuring \cup {"show", "allocate"}
            \/ /\ at[p] = "accept"
               /\ at' = [at EXCEPT ![p] = "idle"] /\ who' = [who EXCEPT ![p] = NoId]
<1> USE DEF Creating, Ensuring, Destroying, Removing, Forwarding, NetPoints
<1>0. UNCHANGED <<bridge, Rules, ports, StateFile>> /\ mishaps' = mishaps + 1
  BY DEF CommandFails
<1>1. CASE /\ at[p] = "addTap" /\ at' = [at EXCEPT ![p] = "record"] /\ who' = who
  <2>1. "record" \in NetPoints \ {"idle"}
    OBVIOUS
  <2>2. /\ at[p] # "idle" /\ "record" \in Creating <=> at[p] \in Creating
        /\ "record" \in Destroying <=> at[p] \in Destroying
        /\ "record" \in Removing <=> at[p] \in Removing
        /\ "record" \notin Ensuring \cup {"show", "allocate"}
    BY <1>1
  <2> QED
    BY ONLY <1>0, <1>1, <2>1, <2>2
<1>2. CASE /\ at[p] = "accept" /\ at' = [at EXCEPT ![p] = "idle"]
               /\ who' = [who EXCEPT ![p] = NoId]
  BY <1>0, <1>2
<1>3. ASSUME NEW b \in NetPoints, <<at[p], b>> \in Onward, at' = [at EXCEPT ![p] = b], who' = who
      PROVE  /\ b # "idle" /\ at[p] # "idle"
             /\ b \in Creating <=> at[p] \in Creating
             /\ b \in Destroying <=> at[p] \in Destroying
             /\ b \in Removing <=> at[p] \in Removing
             /\ b \in Ensuring \cup {"show", "allocate"}
                  => at[p] \in Ensuring \cup {"show", "allocate"}
  BY <1>3 DEF Onward
<1> QED
  BY <1>1, <1>2, <1>3 DEF CommandFails
-----------------------------------------------------------------------------
(* Each conjunct of the invariant                                          *)

NetStep(p) == HostNetStep(p) \/ KilledBetween(p) \/ CommandFails(p)

(* Every step keeps the types.                                             *)
LEMMA TypesKept ==
  ASSUME HostNetInv, NEW p \in Invocation, NetStep(p), contended' \in BOOLEAN
  PROVE  HostNetTypeOK'
<1> USE DEF HostNetInv, HostNetTypeOK, Goes, Returns, StateFile, Rules, PlacesFit,
    Creating, Ensuring, Removing, Destroying, Forwarding, NetPoints, HasRecord
<1>1. ASSUME NEW i \in Id, CreateMachine(p, i)
      PROVE  HostNetTypeOK'
  BY <1>1 DEF CreateMachine
<1>2. ASSUME NEW i \in Id, Reconcile(p, i)
      PROVE  HostNetTypeOK'
  BY <1>2 DEF Reconcile
<1>3. ASSUME NEW i \in Id, ReadIp(p, i)
      PROVE  HostNetTypeOK'
  BY <1>3 DEF ReadIp
<1>4. CASE AllocateIp(p)
  <2>1. who[p] \in Id
    BY <1>4 DEF AllocateIp
  <2>2. ~PoolExhausted(pool) =>
          NextFree(pool) \in Octet /\ Allocate(pool, who[p]) \in NetworkState
    BY <2>1, AllocatedPool
  <2>3. CASE PoolExhausted(pool)
    BY <1>4, <2>3 DEF AllocateIp
  <2>4. CASE ~PoolExhausted(pool)
    <3>1. /\ pool' = Allocate(pool, who[p]) /\ ip' = [ip EXCEPT ![who[p]] = NextFree(pool)]
          /\ at' = [at EXCEPT ![p] = "addTap"]
          /\ UNCHANGED <<who, mishaps, bridge, Rules, ports, record, store, outcome>>
      BY <1>4, <2>4 DEF AllocateIp
    <3>2. ip' \in [Id -> Octet \cup {NoIp}] /\ at' \in [Invocation -> NetPoints]
      BY <2>1, <2>2, <2>4, <3>1
    <3> QED
      BY <2>2, <2>4, <3>1, <3>2
  <2> QED
    BY <2>3, <2>4
<1>5. CASE AddTap(p)
  <2>1. who[p] \in Id
    BY <1>5 DEF AddTap
  <2> QED
    BY <1>5, <2>1 DEF AddTap
<1>6. CASE AddDrop(p)
  BY <1>6 DEF AddDrop
<1>7. CASE DelDrop(p)
  <2>1. RemoveFirst(chain, Drop) \in Seq(Rule)
    BY DropRemoved DEF Rule, DropComesFirst, DropsFirst
  <2> QED
    BY <1>7, <2>1 DEF DelDrop, Rule
<1>8. CASE WriteRemoval(p)
  <2>1. who[p] \in Id
    BY <1>8 DEF WriteRemoval
  <2> QED
    BY <1>8, <2>1, Settled DEF WriteRemoval
<1>9. CASE Commits(p)
  <2>1. CASE \E end \in {"stopped", "gone"} : Settle(who[p], end)
    BY <1>9, <2>1, CommitCases, Settled
  <2>2. CASE UNCHANGED <<pool, record, ip>>
    BY <1>9, <2>2, CommitCases
  <2> QED
    BY <1>9, <2>1, <2>2, CommitCases
<1>10. ASSUME NEW i \in Id, DestroyMachine(p, i)
       PROVE  HostNetTypeOK'
  BY <1>10 DEF DestroyMachine
<1>11. CASE CommandFails(p)
  <2>1. UNCHANGED <<bridge, Rules, ports, StateFile>> /\ mishaps' = mishaps + 1
    BY <1>11, FailsOnward
  <2>2. at' \in [Invocation -> NetPoints]
    <3>1. at \in [Invocation -> NetPoints] /\ "idle" \in NetPoints
      OBVIOUS
    <3>2. \E b \in NetPoints : at' = [at EXCEPT ![p] = b]
      <4>1. \/ \E b \in NetPoints \ {"idle"} : at' = [at EXCEPT ![p] = b]
            \/ at' = [at EXCEPT ![p] = "idle"]
        BY <1>11, FailsOnward, Zenon
      <4> QED
        BY ONLY <3>1, <4>1
    <3> QED
      BY ONLY <3>1, <3>2
  <2>3. who' \in [Invocation -> Id \cup {NoId}]
    <3>1. who \in [Invocation -> Id \cup {NoId}]
      OBVIOUS
    <3>2. who' = who \/ who' = [who EXCEPT ![p] = NoId]
      BY <1>11, FailsOnward, Zenon
    <3> QED
      BY ONLY <3>1, <3>2
  <2> QED
    BY <2>1, <2>2, <2>3
<1>12. CASE ShowBridge(p) \/ AddBridge(p) \/ CheckNat(p)
  <2>1. CASE ShowBridge(p) \/ CheckNat(p)
    BY <2>1 DEF ShowBridge, CheckNat
  <2>2. CASE AddBridge(p)
    BY <2>2 DEF AddBridge, NoBridge
  <2> QED
    BY <1>12, <2>1, <2>2
<1>13. CASE RecordMachine(p) \/ KilledBetween(p)
  BY <1>13 DEF RecordMachine, KilledBetween
<1>14. CASE AddMasquerade(p) \/ DelMasquerade(p)
  BY <1>14 DEF AddMasquerade, DelMasquerade
<1>15. CASE AddAddress(p) \/ LinkUp(p)
  BY <1>15 DEF AddAddress, LinkUp
<1>19. CASE LinkDown(p)
  BY <1>19 DEF LinkDown
<1>20. CASE LinkDelete(p)
  BY <1>20 DEF LinkDelete, NoBridge
<1>16. CASE PowerOff(p) \/ DeleteTap(p)
  BY <1>16 DEF PowerOff, DeleteTap
<1>17. CASE AddPrerouting(p) \/ AddOutput(p)
  BY <1>17 DEF AddPrerouting, AddOutput
<1>18. CASE AddAccept(p)
  BY <1>18 DEF AddAccept
<1> QED
  BY <1>1, <1>2, <1>3, <1>4, <1>5, <1>6, <1>7, <1>8, <1>9, <1>10, <1>11,
    <1>12, <1>13, <1>14, <1>15, <1>16, <1>17, <1>18, <1>19, <1>20 DEF NetStep, HostNetStep, Commits

(* Every step keeps PlacesFit: the lock of one that takes the network      *)
(* along keeps the records as they are, and a create works on an id nobody *)
(* else has.                                                               *)
LEMMA PlacesKept ==
  ASSUME HostNetInv, NEW p \in Invocation, NetStep(p)
  PROVE  PlacesFit'
<1> USE DEF HostNetInv, HostNetTypeOK, Goes, Returns, StateFile, Rules, PlacesFit,
    Creating, Ensuring, Removing, Destroying, Forwarding, NetPoints, OtherRecords, RunningOthers,
    Recorded, HasRecord
<1>1. ASSUME NEW i \in Id, CreateMachine(p, i)
      PROVE  PlacesFit'
  BY <1>1 DEF CreateMachine
<1>2. ASSUME NEW i \in Id, Reconcile(p, i)
      PROVE  PlacesFit'
  <2>1. /\ \A q \in Invocation : at[q] \notin Removing
        /\ UNCHANGED <<at, who, store>> /\ record[i] \in HasRecord
        /\ record'[i] \in HasRecord /\ \A j \in Id \ {i} : record'[j] = record[j]
    BY <1>2, NoOneAssumption DEF Reconcile
  <2> QED
    BY <2>1
<1>3. ASSUME NEW i \in Id, DestroyMachine(p, i)
      PROVE  PlacesFit'
  BY <1>3 DEF DestroyMachine
<1>4. ASSUME NEW i \in Id, ReadIp(p, i)
      PROVE  PlacesFit'
  BY <1>4 DEF ReadIp
<1>5. CASE ShowBridge(p) \/ CheckNat(p)
  BY <1>5 DEF ShowBridge, CheckNat
<1>6. CASE AllocateIp(p)
  <2>1. UNCHANGED <<record, store>>
    BY <1>6 DEF AllocateIp
  <2>2. CASE at' = [at EXCEPT ![p] = "addTap"] /\ who' = who
    BY <1>6, <2>1, <2>2 DEF AllocateIp
  <2>3. CASE Returns(p)
    BY <2>1, <2>3
  <2> QED
    BY <1>6, <2>2, <2>3 DEF AllocateIp
<1>7. CASE RecordMachine(p)
  <2>1. /\ \A q \in Invocation : at[q] \notin Removing
        /\ at[p] = "record" /\ who[p] \in Id
        /\ at' = [at EXCEPT ![p] = "idle"] /\ who' = [who EXCEPT ![p] = NoId]
        /\ record' = [record EXCEPT ![who[p]] = "running"] /\ store' = store
    BY <1>7, NoOneAssumption DEF RecordMachine
  <2> QED
    BY <2>1
<1>8. ASSUME NEW end \in {"stopped", "gone"}, Settle(who[p], end), store' = NoOne,
             at[p] \in {"commit", "commitVm", "write"}, store \in {p, NoOne},
             at' = [at EXCEPT ![p] = "idle"], who' = [who EXCEPT ![p] = NoId]
      PROVE  PlacesFit'
  <2>1. /\ who[p] \in Id /\ record[who[p]] \in HasRecord \cup {"gone"}
        /\ \A q \in Invocation \ {p} : at[q] \notin Removing
    BY <1>8, NoOneAssumption
  <2>2. /\ record'[who[p]] \in HasRecord \cup {"gone"}
        /\ \A j \in Id \ {who[p]} : record'[j] = record[j]
    BY <1>8, <2>1, Settled
  <2> QED
    BY <1>8, <2>1, <2>2
<1>9. CASE WriteRemoval(p)
  BY <1>8, <1>9 DEF WriteRemoval
<1>10. CASE Commits(p)
  <2>1. CASE /\ RunningOthers(who[p]) = {} /\ who[p] \in Id
             /\ at' = [at EXCEPT ![p] = "linkDown"] /\ UNCHANGED <<who, pool, record, ip>>
             /\ store' = p /\ store = NoOne
             /\ at[p] \in {"commit", "commitVm"}
    <3>1. \A q \in Invocation : at[q] \notin Removing
      BY <2>1, NoOneAssumption
    <3> QED
      BY <2>1, <3>1
  <2> QED
    BY <1>8, <1>10, <2>1, CommitCases
<1>11. CASE KilledBetween(p)
  BY <1>11, NoOneAssumption DEF KilledBetween
<1>12. CASE CommandFails(p)
  <2>1. CASE /\ UNCHANGED <<record, store>>
             /\ at' = [at EXCEPT ![p] = "idle"] /\ who' = [who EXCEPT ![p] = NoId]
    BY <2>1
  <2>2. ASSUME NEW b \in NetPoints \ {"idle"}, at' = [at EXCEPT ![p] = b], who' = who,
               UNCHANGED <<record, store>>, at[p] # "idle",
               b \in Creating <=> at[p] \in Creating,
               b \in Destroying <=> at[p] \in Destroying,
               b \in Removing <=> at[p] \in Removing
        PROVE  PlacesFit'
    <3> HIDE DEF Creating, Removing, Destroying, NetPoints, HostNetTypeOK
    <3>1. /\ \A q \in Invocation : at'[q] \in Creating <=> at[q] \in Creating
          /\ \A q \in Invocation : at'[q] \in Destroying <=> at[q] \in Destroying
          /\ \A q \in Invocation : at'[q] \in Removing <=> at[q] \in Removing
          /\ \A q \in Invocation : at'[q] # "idle" => at[q] # "idle"
      BY <2>2 DEF HostNetTypeOK
    <3> QED
      BY <2>2, <3>1
  <2> QED
    BY <1>12, <2>1, <2>2, FailsOnward
<1>13. CASE AddTap(p)
  BY <1>13 DEF AddTap
<1>14. CASE AddBridge(p) \/ AddAddress(p) \/ LinkUp(p) \/ AddMasquerade(p) \/
          AddDrop(p) \/ PowerOff(p) \/ DeleteTap(p)
  BY <1>14 DEF AddBridge, AddAddress, LinkUp, AddMasquerade, AddDrop, PowerOff, DeleteTap
<1>15. CASE LinkDown(p) \/ LinkDelete(p) \/ DelMasquerade(p) \/ DelDrop(p)
  BY <1>15 DEF LinkDown, LinkDelete, DelMasquerade, DelDrop
<1>16. CASE AddPrerouting(p) \/ AddOutput(p) \/ AddAccept(p)
  BY <1>16 DEF AddPrerouting, AddOutput, AddAccept
<1> QED
  BY <1>1, <1>2, <1>3, <1>4, <1>5, <1>6, <1>7, <1>9, <1>10, <1>11, <1>12, <1>13, <1>14,
    <1>15, <1>16 DEF NetStep, HostNetStep, Commits

(* The actions that touch neither records, addresses nor the pool.         *)
Elsewhere(p) ==
  \/ ShowBridge(p) \/ AddBridge(p) \/ AddAddress(p) \/ LinkUp(p)
  \/ CheckNat(p) \/ AddMasquerade(p) \/ AddDrop(p) \/ AddTap(p) \/ PowerOff(p) \/ DeleteTap(p)
  \/ LinkDown(p) \/ LinkDelete(p) \/ DelMasquerade(p) \/ DelDrop(p)
  \/ AddPrerouting(p) \/ AddOutput(p) \/ AddAccept(p) \/ KilledBetween(p) \/ CommandFails(p)
  \/ \E i \in Id : DestroyMachine(p, i)

LEMMA NothingElsewhere ==
  ASSUME HostNetTypeOK, NEW p \in Invocation, Elsewhere(p)
  PROVE  /\ UNCHANGED <<pool, record, ip, dnat>>
         /\ \A q \in Invocation :
              at'[q] \in Ensuring \cup {"show", "allocate"}
                => at[q] \in Ensuring \cup {"show", "allocate"} /\ who'[q] = who[q]
<1> USE DEF Goes, Returns, StateFile, Rules, HostNetTypeOK, Ensuring
<1>1. CASE CommandFails(p)
  <2>1. CASE at' = [at EXCEPT ![p] = "idle"] /\ who' = [who EXCEPT ![p] = NoId]
    BY <1>1, <2>1, FailsOnward
  <2>2. CASE /\ who' = who
             /\ \E b \in NetPoints : /\ at' = [at EXCEPT ![p] = b]
                                     /\ b \in Ensuring \cup {"show", "allocate"}
                                          => at[p] \in Ensuring \cup {"show", "allocate"}
    BY <1>1, <2>2, FailsOnward
  <2> QED
    BY <1>1, <2>1, <2>2, FailsOnward
<1>2. CASE ShowBridge(p) \/ AddBridge(p) \/ AddAddress(p) \/ LinkUp(p) \/ CheckNat(p)
  BY <1>2 DEF ShowBridge, AddBridge, AddAddress, LinkUp, CheckNat
<1>3. CASE AddMasquerade(p) \/ AddDrop(p) \/ AddTap(p) \/ PowerOff(p) \/ DeleteTap(p)
  BY <1>3 DEF AddMasquerade, AddDrop, AddTap, PowerOff, DeleteTap
<1>4. CASE LinkDown(p) \/ LinkDelete(p) \/ DelMasquerade(p) \/ DelDrop(p)
  BY <1>4 DEF LinkDown, LinkDelete, DelMasquerade, DelDrop
<1>5. CASE AddPrerouting(p) \/ AddOutput(p) \/ AddAccept(p) \/ KilledBetween(p)
  BY <1>5 DEF AddPrerouting, AddOutput, AddAccept, KilledBetween
<1>6. CASE \E i \in Id : DestroyMachine(p, i)
  BY <1>6 DEF DestroyMachine
<1> QED
  BY <1>1, <1>2, <1>3, <1>4, <1>5, <1>6 DEF Elsewhere

(* The steps of an invocation by what they do to records and addresses.    *)
LEMMA StepKinds ==
  ASSUME NEW p \in Invocation, NetStep(p)
  PROVE  \/ \E i \in Id : CreateMachine(p, i) \/ Reconcile(p, i) \/ ReadIp(p, i)
         \/ AllocateIp(p) \/ RecordMachine(p) \/ WriteRemoval(p) \/ Commits(p) \/ Elsewhere(p)
BY DEF NetStep, HostNetStep, Commits, Elsewhere

(* A commit or a last write settles a record, or changes no address.       *)
LEMMA ClosureSettles ==
  ASSUME HostNetInv, NEW p \in Invocation, WriteRemoval(p) \/ Commits(p)
  PROVE  /\ who[p] \in Id /\ dnat' = dnat
         /\ \A q \in Invocation :
              at'[q] \in Ensuring \cup {"show", "allocate"} => at'[q] = at[q] /\ who'[q] = who[q]
         /\ \/ \E end \in {"stopped", "gone"} : Settle(who[p], end)
            \/ UNCHANGED <<pool, record, ip>>
<1> USE DEF HostNetInv, HostNetTypeOK
<1> DEFINE Here == \A q \in Invocation :
             at'[q] \in Ensuring \cup {"show", "allocate"} => at'[q] = at[q] /\ who'[q] = who[q]
<1>1. ASSUME at' = [at EXCEPT ![p] = "idle"], who' = [who EXCEPT ![p] = NoId]
      PROVE  Here
  BY <1>1 DEF Ensuring
<1>2. ASSUME at' = [at EXCEPT ![p] = "linkDown"], who' = who
      PROVE  Here
  BY <1>2 DEF Ensuring
<1> HIDE DEF Here
<1>3. CASE WriteRemoval(p)
  <2>1. who[p] \in Id /\ dnat' = dnat /\ Settle(who[p], outcome)
    BY <1>3 DEF WriteRemoval, PlacesFit, Rules
  <2>2. Here
    BY <1>1, <1>3 DEF WriteRemoval, Returns
  <2> QED
    BY <2>1, <2>2 DEF Here
<1>4. CASE Commits(p)
  <2>1. dnat' = dnat /\ who[p] \in Id
    BY <1>4, CommitCases DEF Rules
  <2>2. Here
    BY <1>1, <1>2, <1>4, CommitCases
  <2>3. (\E end \in {"stopped", "gone"} : Settle(who[p], end)) \/ UNCHANGED <<pool, record, ip>>
    BY <1>4, CommitCases
  <2> QED
    BY <2>1, <2>2, <2>3 DEF Here
<1> QED
  BY <1>3, <1>4

(* Every step keeps AddressesFit: only an allocation gives a machine an    *)
(* address, and a forward leads to one in use.                             *)
LEMMA AddressesKept ==
  ASSUME HostNetInv, NEW p \in Invocation, NetStep(p)
  PROVE  AddressesFit'
<1> USE DEF HostNetInv, HostNetTypeOK, AddressesFit
<1>1. CASE AllocateIp(p)
  <2>1. who[p] \in Id
    BY <1>1 DEF AllocateIp, PlacesFit
  <2>2. CASE PoolExhausted(pool)
    BY <1>1, <2>2 DEF AllocateIp, Rules
  <2>3. CASE ~PoolExhausted(pool)
    <3> DEFINE new == NextFree(pool)
    <3>1. ip' = [ip EXCEPT ![who[p]] = new] /\ pool' = Allocate(pool, who[p]) /\ dnat' = dnat
      BY <1>1, <2>3 DEF AllocateIp, Rules
    <3>2. /\ Allocate(pool, who[p]).next = new + 1 /\ new < new + 1
          /\ \A j \in Id : ip[j] # new /\ (ip[j] # NoIp => ip[j] < new + 1)
          /\ \A f \in dnat : f[2] # new /\ f[2] < new + 1
      BY <2>1, <2>3, FreshAddress
    <3> HIDE DEF new
    <3> QED
      BY <2>1, <3>1, <3>2
  <2> QED
    BY <2>2, <2>3
<1>2. CASE WriteRemoval(p) \/ Commits(p)
  <2>1. pool'.next = pool.next /\ \A j \in Id : ip'[j] \in {ip[j], NoIp}
    <3>1. CASE UNCHANGED <<pool, record, ip>>
      BY <3>1
    <3>2. ASSUME NEW end \in {"stopped", "gone"}, Settle(who[p], end)
          PROVE  pool'.next = pool.next /\ \A j \in Id : ip'[j] \in {ip[j], NoIp}
      BY <1>2, <3>2, ClosureSettles, Settled
    <3> QED
      BY <1>2, <3>1, <3>2, ClosureSettles
  <2>2. dnat' = dnat
    BY <1>2, ClosureSettles
  <2> QED
    BY <2>1, <2>2
<1>3. ASSUME NEW i \in Id, ReadIp(p, i)
      PROVE  AddressesFit'
  BY <1>3 DEF ReadIp, StateFile
<1>4. ASSUME NEW i \in Id, CreateMachine(p, i) \/ Reconcile(p, i)
      PROVE  AddressesFit'
  BY <1>4 DEF CreateMachine, Reconcile, Rules
<1>5. CASE RecordMachine(p)
  BY <1>5 DEF RecordMachine, Rules
<1>6. CASE Elsewhere(p)
  BY <1>6, NothingElsewhere
<1> QED
  BY <1>1, <1>2, <1>3, <1>4, <1>5, <1>6, StepKinds

(* Every step keeps PoolFits: an address goes to the machine and into the  *)
(* pool in one transaction, and leaves both in one.                        *)
LEMMA PoolKept ==
  ASSUME HostNetInv, NEW p \in Invocation, NetStep(p)
  PROVE  PoolFits'
<1> USE DEF HostNetInv, HostNetTypeOK, PoolFits
<1>1. ASSUME NEW i \in Id, CreateMachine(p, i)
      PROVE  PoolFits'
  BY <1>1 DEF CreateMachine, Ensuring
<1>2. CASE AllocateIp(p)
  <2>1. who[p] \in Id /\ ip[who[p]] = NoIp /\ record[who[p]] = "creating"
    BY <1>2 DEF AllocateIp, PlacesFit, Creating
  <2>2. CASE PoolExhausted(pool)
    BY <1>2, <2>2 DEF AllocateIp, Returns, Ensuring
  <2>3. CASE ~PoolExhausted(pool)
    <3> DEFINE new == NextFree(pool)
               i == who[p]
    <3>1. /\ at[p] = "allocate" /\ at' = [at EXCEPT ![p] = "addTap"] /\ who' = who
          /\ ip' = [ip EXCEPT ![i] = new] /\ pool'.alloc = [pool.alloc EXCEPT ![new] = i]
          /\ record' = record
      BY <1>2, <2>3 DEF AllocateIp, Allocate, Goes
    <3>2. new \in Octet /\ pool.alloc[new] = NoId /\ pool.alloc \in [Octet -> Id \cup {NoId}]
      BY <2>3, NextFreeIsFree DEF NetworkState
    <3>3. \A o \in Octet : pool.alloc[o] # i
      BY <2>1, OctetIsNumber
    <3>4. i \in Id /\ ip[i] = NoIp /\ record[i] = "creating"
      BY <2>1
    <3>5. \A q \in Invocation :
            at[q] \in Ensuring \cup {"show", "allocate"} /\ q # p => who[q] # i
      BY <3>1 DEF PlacesFit, Creating
    <3> HIDE DEF new
    <3>6. \A j \in Id, o \in Octet : pool'.alloc[o] = j <=> ip'[j] = o
      BY <3>1, <3>2, <3>3, <3>4, NoIdAssumption
    <3>7. \A j \in Id : record'[j] \in {"unborn", "gone"} => ip'[j] = NoIp
      BY <3>1, <3>4
    <3>8. \A q \in Invocation : at'[q] \in Ensuring \cup {"show", "allocate"} => ip'[who'[q]] = NoIp
      <4> SUFFICES ASSUME NEW q \in Invocation, at'[q] \in Ensuring \cup {"show", "allocate"}
                   PROVE  ip'[who'[q]] = NoIp
        OBVIOUS
      <4>1. q # p /\ at'[q] = at[q]
        BY <3>1 DEF Ensuring
      <4> QED
        BY <3>1, <3>5, <4>1 DEF PlacesFit, Creating, Ensuring
    <3> QED
      BY <3>6, <3>7, <3>8
  <2> QED
    BY <2>2, <2>3
<1>3. CASE RecordMachine(p)
  BY <1>3 DEF RecordMachine, Returns, Ensuring
<1>4. ASSUME NEW i \in Id, Recorded(i), Forget(i)
      PROVE  /\ \A j \in Id, o \in Octet : pool'.alloc[o] = j <=> ip'[j] = o
             /\ \A j \in Id : record'[j] \in {"unborn", "gone"} => ip'[j] = NoIp
  <2>1. ip' = [ip EXCEPT ![i] = NoIp] /\ record' = [record EXCEPT ![i] = "gone"]
    BY <1>4 DEF Forget
  <2>2. \A o \in Octet : pool'.alloc[o] = IF o = ip[i] THEN NoId ELSE pool.alloc[o]
    BY <1>4, OctetIsNumber DEF Forget, Release
  <2>3. \A j \in Id, o \in Octet : pool.alloc[o] = j <=> ip[j] = o
    OBVIOUS
  <2>4. ip \in [Id -> Octet \cup {NoIp}] /\ NoId \notin Id /\ NoIp \notin Octet
    BY OctetIsNumber, NoIdAssumption
  <2>5. ASSUME NEW j \in Id, NEW o \in Octet
        PROVE  pool'.alloc[o] = j <=> ip'[j] = o
    BY <2>1, <2>2, <2>3, <2>4
  <2>6. \A j \in Id : record'[j] \in {"unborn", "gone"} => ip'[j] = NoIp
    BY <2>1, <2>4
  <2> QED
    BY <2>5, <2>6
<1>5. CASE WriteRemoval(p) \/ Commits(p)
  <2>1. /\ \A j \in Id, o \in Octet : pool'.alloc[o] = j <=> ip'[j] = o
        /\ \A j \in Id : record'[j] \in {"unborn", "gone"} => ip'[j] = NoIp
        /\ \A j \in Id : ip'[j] \in {ip[j], NoIp}
    <3>1. CASE UNCHANGED <<pool, record, ip>>
      BY <3>1
    <3>2. CASE Recorded(who[p]) /\ Forget(who[p])
      <4>1. who[p] \in Id
        BY <1>5, ClosureSettles
      <4>2. \A j \in Id : ip'[j] \in {ip[j], NoIp}
        BY <3>2, <4>1 DEF Forget
      <4> QED
        BY <1>4, <3>2, <4>1, <4>2
    <3>3. CASE Recorded(who[p]) /\ Mark(who[p])
      <4>1. who[p] \in Id
        BY <1>5, ClosureSettles
      <4> QED
        BY <3>3, <4>1 DEF Mark, Recorded, HasRecord
    <3> QED
      BY <1>5, <3>1, <3>2, <3>3, ClosureSettles DEF Settle
  <2>2. ASSUME NEW q \in Invocation, at'[q] \in Ensuring \cup {"show", "allocate"}
        PROVE  ip'[who'[q]] = NoIp
    <3>1. at'[q] = at[q] /\ who'[q] = who[q]
      BY <1>5, <2>2, ClosureSettles
    <3>2. ip[who[q]] = NoIp /\ who[q] \in Id
      BY <2>2, <3>1 DEF PlacesFit, Ensuring
    <3> QED
      BY <2>1, <3>1, <3>2
  <2> QED
    BY <2>1, <2>2
<1>6. ASSUME NEW i \in Id, Reconcile(p, i)
      PROVE  PoolFits'
  BY <1>6 DEF Reconcile, Recorded, HasRecord
<1>7. ASSUME NEW i \in Id, ReadIp(p, i)
      PROVE  PoolFits'
  BY <1>7 DEF ReadIp, StateFile, Ensuring
<1>8. CASE Elsewhere(p)
  BY <1>8, NothingElsewhere
<1> QED
  BY <1>1, <1>2, <1>3, <1>5, <1>6, <1>7, <1>8, StepKinds

(* Every step keeps ForwardsStayTheirs.                                    *)
LEMMA ForwardsKept ==
  ASSUME HostNetInv, NEW p \in Invocation, NetStep(p)
  PROVE  ForwardsStayTheirs'
<1> USE DEF HostNetInv, HostNetTypeOK, ForwardsStayTheirs
<1>1. CASE AllocateIp(p)
  <2>1. who[p] \in Id
    BY <1>1 DEF AllocateIp, PlacesFit
  <2>2. CASE PoolExhausted(pool)
    BY <1>1, <2>2 DEF AllocateIp, Rules
  <2>3. CASE ~PoolExhausted(pool)
    <3> DEFINE new == NextFree(pool)
    <3>1. ip' = [ip EXCEPT ![who[p]] = new] /\ dnat' = dnat
      BY <1>1, <2>3 DEF AllocateIp, Rules
    <3>2. \A f \in dnat : f[2] # new
      BY <2>1, <2>3, FreshAddress
    <3> HIDE DEF new
    <3> QED
      BY <2>1, <3>1, <3>2
  <2> QED
    BY <2>2, <2>3
<1>2. CASE WriteRemoval(p) \/ Commits(p)
  <2>1. \A j \in Id : ip'[j] \in {ip[j], NoIp}
    <3>1. ASSUME NEW end \in {"stopped", "gone"}, Settle(who[p], end)
          PROVE  \A j \in Id : ip'[j] \in {ip[j], NoIp}
      BY <1>2, <3>1, ClosureSettles, Settled
    <3> QED
      BY <1>2, <3>1, ClosureSettles
  <2>2. dnat' = dnat /\ \A f \in dnat : f[2] # NoIp
    BY <1>2, ClosureSettles, OctetIsNumber
  <2> QED
    BY <2>1, <2>2
<1>3. ASSUME NEW i \in Id, ReadIp(p, i)
      PROVE  ForwardsStayTheirs'
  BY <1>3 DEF ReadIp, StateFile, AddressesFit
<1>4. ASSUME NEW i \in Id, CreateMachine(p, i) \/ Reconcile(p, i)
      PROVE  ForwardsStayTheirs'
  BY <1>4 DEF CreateMachine, Reconcile, Rules
<1>5. CASE RecordMachine(p)
  BY <1>5 DEF RecordMachine, Rules
<1>6. CASE Elsewhere(p)
  BY <1>6, NothingElsewhere
<1> QED
  BY <1>1, <1>2, <1>3, <1>4, <1>5, <1>6, StepKinds

(* The steps that leave bridge, rules and ports alone and make nobody one  *)
(* who is at them.                                                         *)
Bystander(p) ==
  \/ \E i \in Id : CreateMachine(p, i) \/ Reconcile(p, i) \/ ReadIp(p, i) \/ DestroyMachine(p, i)
  \/ ShowBridge(p) \/ AllocateIp(p) \/ RecordMachine(p) \/ AddPrerouting(p) \/ AddOutput(p)

AtRules == {"addMasquerade", "addDrop", "delMasquerade", "delDrop", "write"}

LEMMA BystanderKeeps ==
  ASSUME HostNetTypeOK, NEW p \in Invocation, Bystander(p)
  PROVE  /\ UNCHANGED <<bridge, masquerade, chain, ports, mishaps>>
         /\ \A q \in Invocation :
              /\ at[q] \in {"addAddress", "linkUp", "linkDelete"} \cup AtRules => at'[q] = at[q]
              /\ at'[q] \in AtRules => at'[q] = at[q] /\ who'[q] = who[q]
<1> USE DEF HostNetTypeOK, Goes, Returns, StateFile, Rules, AtRules
<1>1. ASSUME NEW i \in Id, CreateMachine(p, i) \/ Reconcile(p, i) \/ ReadIp(p, i) \/
        DestroyMachine(p, i)
      PROVE  /\ UNCHANGED <<bridge, masquerade, chain, ports, mishaps>>
             /\ \A q \in Invocation :
                  /\ at[q] \in {"addAddress", "linkUp", "linkDelete"} \cup AtRules => at'[q] = at[q]
                  /\ at'[q] \in AtRules => at'[q] = at[q] /\ who'[q] = who[q]
  <2>1. CASE CreateMachine(p, i)
    BY <2>1 DEF CreateMachine
  <2>2. CASE Reconcile(p, i)
    BY <2>2 DEF Reconcile
  <2>3. CASE ReadIp(p, i)
    BY <2>3 DEF ReadIp
  <2>4. CASE DestroyMachine(p, i)
    BY <2>4 DEF DestroyMachine
  <2> QED
    BY <1>1, <2>1, <2>2, <2>3, <2>4
<1>2. CASE ShowBridge(p) \/ RecordMachine(p) \/ AddPrerouting(p) \/ AddOutput(p)
  BY <1>2 DEF ShowBridge, RecordMachine, AddPrerouting, AddOutput
<1>3. CASE AllocateIp(p)
  BY <1>3 DEF AllocateIp
<1> QED
  BY <1>1, <1>2, <1>3 DEF Bystander

(* Every step keeps DropComesFirst: DROP is inserted, ACCEPT appended, and *)
(* what is deleted is the first.                                           *)
LEMMA DropStaysFirst ==
  ASSUME HostNetInv, NEW p \in Invocation, NetStep(p)
  PROVE  DropComesFirst'
<1> USE DEF HostNetInv, HostNetTypeOK, DropComesFirst
<1>1. CASE AddDrop(p)
  BY <1>1, DropAdded DEF AddDrop, Rule, DropsFirst
<1>2. CASE DelDrop(p)
  BY <1>2, DropRemoved DEF DelDrop, Rule, DropsFirst
<1>3. CASE AddAccept(p)
  BY <1>3 DEF AddAccept, Accept, Drop
<1>4. ASSUME chain' = chain PROVE DropComesFirst'
  BY <1>4
<1>5. CASE Bystander(p)
  BY <1>4, <1>5, BystanderKeeps
<1>6. CASE AddBridge(p) \/ AddAddress(p) \/ LinkUp(p) \/ CheckNat(p) \/ AddMasquerade(p) \/
  AddTap(p)
  BY <1>4, <1>6 DEF AddBridge, AddAddress, LinkUp, CheckNat, AddMasquerade, AddTap, Rules
<1>7. CASE PowerOff(p) \/ DeleteTap(p) \/ LinkDown(p) \/ LinkDelete(p) \/ DelMasquerade(p)
  BY <1>4, <1>7 DEF PowerOff, DeleteTap, LinkDown, LinkDelete, DelMasquerade, Rules
<1>8. CASE WriteRemoval(p) \/ KilledBetween(p) \/ CommandFails(p)
  BY <1>4, <1>8 DEF WriteRemoval, KilledBetween, CommandFails, Rules
<1>9. CASE Commits(p)
  BY <1>4, <1>9, CommitCases DEF Rules
<1> QED
  BY <1>1, <1>2, <1>3, <1>5, <1>6, <1>7, <1>8, <1>9
    DEF NetStep, HostNetStep, Commits, Bystander

(* Every step keeps BridgeFits: whoever adds a bridge, or takes it down,   *)
(* is the one on the way to complete or delete it.                         *)
LEMMA BridgeKept ==
  ASSUME HostNetInv, NEW p \in Invocation, NetStep(p)
  PROVE  BridgeFits'
<1> USE DEF HostNetInv, HostNetTypeOK, Goes, Returns, StateFile, Rules, BridgeFits
<1>1. CASE AddBridge(p)
  BY <1>1 DEF AddBridge, NoBridge
<1>2. CASE AddAddress(p)
  BY <1>2 DEF AddAddress
<1>3. CASE LinkUp(p)
  BY <1>3 DEF LinkUp
<1>4. CASE LinkDown(p)
  BY <1>4 DEF LinkDown
<1>5. CASE LinkDelete(p)
  BY <1>5 DEF LinkDelete, NoBridge
<1>6. CASE KilledBetween(p) \/ CommandFails(p)
  BY <1>6 DEF KilledBetween, CommandFails
<1>7. CASE Bystander(p)
  BY <1>7, BystanderKeeps
<1>8. CASE CheckNat(p) \/ AddMasquerade(p) \/ AddDrop(p) \/ PowerOff(p) \/ DeleteTap(p)
  BY <1>8 DEF CheckNat, AddMasquerade, AddDrop, PowerOff, DeleteTap
<1>9. CASE DelMasquerade(p) \/ DelDrop(p) \/ WriteRemoval(p) \/ AddAccept(p)
  BY <1>9 DEF DelMasquerade, DelDrop, WriteRemoval, AddAccept
<1>10. CASE AddTap(p)
  BY <1>10 DEF AddTap
<1>11. CASE Commits(p)
  <2>1. CASE at' = [at EXCEPT ![p] = "idle"]
    BY <1>11, <2>1, CommitCases
  <2>2. CASE at' = [at EXCEPT ![p] = "linkDown"]
    BY <1>11, <2>2, CommitCases
  <2> QED
    BY <1>11, <2>1, <2>2, CommitCases
<1> QED
  BY <1>1, <1>2, <1>3, <1>4, <1>5, <1>6, <1>7, <1>8, <1>9, <1>10, <1>11
    DEF NetStep, HostNetStep, Commits, Bystander

(* A machine that is being created, or one that is recorded and that       *)
(* nobody at one of the points S works for: the network is still needed.   *)
Needed(S) ==
  \/ \E i \in Id : record[i] = "creating"
  \/ \E i \in Id : Recorded(i) /\ \A p \in Invocation : at[p] \in S => who[p] # i

(* No step but those of S takes that away: a closure that leaves no        *)
(* network behind holds the lock, the others find another record.          *)
LEMMA NeededStays ==
  ASSUME HostNetInv, NEW p \in Invocation, NetStep(p), mishaps' = 0,
         NEW S \in {{"delMasquerade", "delDrop", "write"}, {"write"}},
         Needed(S), at'[p] \in S => at[p] \in S
  PROVE  Needed(S)'
<1> USE DEF HostNetInv, HostNetTypeOK, Needed, Recorded, HasRecord
<1>1. S \subseteq Removing /\ "write" \in S /\ "idle" \notin S /\ "linkDown" \notin S
  BY DEF Removing
<1>2. ASSUME UNCHANGED record, \A q \in Invocation : at'[q] \in S => at[q] \in S /\ who'[q] = who[q]
      PROVE  Needed(S)'
  BY <1>2
<1>3. ASSUME store = NoOne, \A q \in Invocation : at'[q] \notin S,
             \E i \in Id : record'[i] \in HasRecord \cup {"creating"}
      PROVE  Needed(S)'
  BY <1>3
<1>4. ASSUME store = NoOne PROVE \A q \in Invocation : at[q] \notin S
  BY <1>1, <1>4, NoOneAssumption DEF PlacesFit
<1>5. ASSUME NEW i \in Id, CreateMachine(p, i)
      PROVE  Needed(S)'
  BY <1>5 DEF CreateMachine
<1>6. ASSUME NEW i \in Id, Reconcile(p, i)
      PROVE  Needed(S)'
  <2>1. store = NoOne /\ at' = at /\ record'[i] \in HasRecord
    BY <1>6 DEF Reconcile
  <2> QED
    BY <1>3, <1>4, <2>1
<1>7. CASE RecordMachine(p)
  <2>1. /\ store = NoOne /\ who[p] \in Id /\ record'[who[p]] = "running"
        /\ \A q \in Invocation : at'[q] \in {at[q], "idle"}
    BY <1>7 DEF RecordMachine, PlacesFit, Returns
  <2> QED
    BY <1>1, <1>3, <1>4, <2>1
<1>8. CASE Commits(p)
  <2>1. ASSUME NEW end \in {"stopped", "gone"}, Settle(who[p], end),
               NEW j \in Id \ {who[p]}, Recorded(j), at' = [at EXCEPT ![p] = "idle"]
        PROVE  Needed(S)'
    <3>1. store = NoOne /\ who[p] \in Id
      BY <1>8, CommitCases
    <3>2. record'[j] = record[j]
      BY <2>1, <3>1, Settled
    <3>3. \A q \in Invocation : at'[q] \in {at[q], "idle"}
      BY <2>1
    <3> QED
      BY <1>1, <1>3, <1>4, <2>1, <3>1, <3>2, <3>3
  <2>2. CASE at' = [at EXCEPT ![p] = "linkDown"] /\ UNCHANGED <<who, record>>
    BY <1>1, <1>2, <2>2
  <2> QED
    BY <1>8, <2>1, <2>2, CommitCases
<1>9. CASE WriteRemoval(p)
  <2>1. /\ who[p] \in Id /\ at[p] = "write" /\ record[who[p]] \in HasRecord \cup {"gone"}
        /\ at' = [at EXCEPT ![p] = "idle"] /\ who' = [who EXCEPT ![p] = NoId]
        /\ Settle(who[p], outcome)
    BY <1>9 DEF WriteRemoval, Returns, PlacesFit, Destroying, Removing
  <2>2. \A j \in Id \ {who[p]} : record'[j] = record[j]
    BY <2>1, Settled
  <2> QED
    BY <1>1, <2>1, <2>2
<1>10. CASE CommandFails(p) \/ KilledBetween(p)
  BY <1>10 DEF CommandFails, KilledBetween
<1>11. CASE \E i \in Id : ReadIp(p, i) \/ DestroyMachine(p, i)
  BY <1>1, <1>2, <1>11 DEF ReadIp, DestroyMachine, StateFile
<1>12. CASE AllocateIp(p) \/ AddTap(p)
  BY <1>1, <1>2, <1>12 DEF AllocateIp, AddTap, Goes, Returns, StateFile
<1>13. CASE ShowBridge(p) \/ AddBridge(p) \/ AddAddress(p) \/ LinkUp(p) \/ CheckNat(p)
  BY <1>2, <1>13 DEF ShowBridge, AddBridge, AddAddress, LinkUp, CheckNat, Goes, StateFile
<1>14. CASE AddMasquerade(p) \/ AddDrop(p) \/ PowerOff(p) \/ DeleteTap(p)
  BY <1>2, <1>14 DEF AddMasquerade, AddDrop, PowerOff, DeleteTap, Goes, StateFile
<1>15. CASE LinkDown(p) \/ LinkDelete(p) \/ DelMasquerade(p) \/ DelDrop(p)
  BY <1>2, <1>15 DEF LinkDown, LinkDelete, DelMasquerade, DelDrop, Goes, StateFile
<1>16. CASE AddPrerouting(p) \/ AddOutput(p) \/ AddAccept(p)
  BY <1>1, <1>2, <1>16 DEF AddPrerouting, AddOutput, AddAccept, Goes, Returns, StateFile
<1> QED
  BY <1>5, <1>6, <1>7, <1>8, <1>9, <1>10, <1>11, <1>12, <1>13, <1>14, <1>15, <1>16
    DEF NetStep, HostNetStep, Commits

(* Every step keeps RemovalIsDue: a bridge is added for a machine that is  *)
(* being created, which no destroy can overtake, as the last one holds the *)
(* lock until its own record is gone.                                      *)
LEMMA RemovalStaysDue ==
  ASSUME HostNetInv, NEW p \in Invocation, NetStep(p)
  PROVE  RemovalIsDue'
<1> DEFINE S == {"delMasquerade", "delDrop", "write"}
<1> USE DEF HostNetInv, HostNetTypeOK, Goes, Returns, StateFile, Rules
<1>1. SUFFICES ASSUME mishaps = 0, mishaps' = 0, ~KilledBetween(p), ~CommandFails(p)
               PROVE  RemovalIsDue'
  <2>1. KilledBetween(p) \/ CommandFails(p) => mishaps' > 0
    BY DEF KilledBetween, CommandFails
  <2>2. ~KilledBetween(p) /\ ~CommandFails(p) => mishaps' = mishaps
    <3>1. Commits(p) => mishaps' = mishaps
      BY CommitCases
    <3>2. Bystander(p) => mishaps' = mishaps
      BY BystanderKeeps
    <3> QED
      BY <3>1, <3>2
      DEF NetStep, HostNetStep, Commits, Bystander, AddBridge, AddAddress, LinkUp, CheckNat,
        AddMasquerade, AddDrop, AddTap, PowerOff, DeleteTap, LinkDown, LinkDelete,
        DelMasquerade, DelDrop, WriteRemoval, AddAccept
  <2> QED
    BY <2>1, <2>2 DEF RemovalIsDue
<1>2. Needed(S)' => RemovalIsDue'
  BY DEF Needed, RemovalIsDue
<1>3. RemovalIsDue => Needed(S) \/ (~bridge.there /\ ports = {})
  BY <1>1 DEF Needed, RemovalIsDue
<1>4. CASE LinkDelete(p)
  BY <1>4 DEF LinkDelete, NoBridge, RemovalIsDue
<1>5. ASSUME Needed(S), ~LinkDelete(p)
      PROVE  RemovalIsDue'
  <2>1. at'[p] \in S => at[p] \in S
    <3>1. Commits(p) => at'[p] \notin S
      BY CommitCases
    <3>2. Bystander(p) /\ at'[p] \in S => at[p] \in S
      BY BystanderKeeps DEF AtRules
    <3>3. AddTap(p) \/ CheckNat(p) \/ AddBridge(p) \/ AddAddress(p) \/ LinkUp(p) => at'[p] \notin S
      BY DEF AddTap, CheckNat, AddBridge, AddAddress, LinkUp
    <3>4. AddMasquerade(p) \/ AddDrop(p) \/ PowerOff(p) \/ DeleteTap(p) \/ LinkDown(p)
          => at'[p] \notin S
      BY DEF AddMasquerade, AddDrop, PowerOff, DeleteTap, LinkDown
    <3>5. DelMasquerade(p) \/ DelDrop(p) => at[p] \in S
      BY DEF DelMasquerade, DelDrop
    <3>6. WriteRemoval(p) \/ AddAccept(p) => at'[p] \notin S
      BY DEF WriteRemoval, AddAccept
    <3> QED
      BY <1>1, <1>5, <3>1, <3>2, <3>3, <3>4, <3>5, <3>6
      DEF NetStep, HostNetStep, Commits, Bystander
  <2> QED
    BY <1>1, <1>2, <1>5, <2>1, NeededStays
<1>6. CASE AddBridge(p) \/ AddTap(p)
  <2>1. who[p] \in Id /\ record[who[p]] = "creating" /\ record' = record
    BY <1>6 DEF AddBridge, AddTap, PlacesFit, Creating, Ensuring
  <2> QED
    BY <2>1 DEF RemovalIsDue
<1>7. ASSUME ~bridge.there, ports = {}, ~AddBridge(p), ~AddTap(p), ~LinkDelete(p)
      PROVE  RemovalIsDue'
  <2>1. ~bridge'.there /\ ports' = {}
    <3>1. Commits(p) => UNCHANGED <<bridge, ports>>
      BY CommitCases
    <3>2. Bystander(p) => UNCHANGED <<bridge, ports>>
      BY BystanderKeeps
    <3>3. CASE AddAddress(p) \/ LinkUp(p) \/ CheckNat(p) \/ AddMasquerade(p) \/ AddDrop(p)
      BY <1>7, <3>3 DEF AddAddress, LinkUp, CheckNat, AddMasquerade, AddDrop
    <3>4. CASE PowerOff(p) \/ DeleteTap(p) \/ LinkDown(p)
      BY <1>7, <3>4 DEF PowerOff, DeleteTap, LinkDown
    <3>5. CASE DelMasquerade(p) \/ DelDrop(p) \/ WriteRemoval(p) \/ AddAccept(p)
      BY <1>7, <3>5 DEF DelMasquerade, DelDrop, WriteRemoval, AddAccept
    <3> QED
      BY <1>1, <1>7, <3>1, <3>2, <3>3, <3>4, <3>5
      DEF NetStep, HostNetStep, Commits, Bystander
  <2> QED
    BY <2>1 DEF RemovalIsDue
<1> QED
  BY <1>3, <1>4, <1>5, <1>6, <1>7

(* Every step keeps RulesFit: who adds the rules found none, and unless it *)
(* is contended nobody else has been at them since.                        *)
LEMMA RulesFitKept ==
  ASSUME HostNetInv, NEW p \in Invocation, NetStep(p),
         contended' = (contended \/ mishaps' > 0 \/ RulesContended')
  PROVE  RulesFit'
<1> USE DEF HostNetInv, HostNetTypeOK, Goes, Returns, StateFile, Rules
<1>1. SUFFICES ASSUME ~contended, ~contended', mishaps' = 0, ~RulesContended'
               PROVE  RulesFit'
  <2>1. mishaps' = 0 \/ mishaps' > 0
    <3>1. mishaps' \in Nat
      BY TypesKept
    <3> QED
      BY <3>1
  <2>2. contended \/ mishaps' > 0 \/ RulesContended' => contended'
    OBVIOUS
  <2>3. contended' => RulesFit'
    BY DEF RulesFit
  <2> QED
    BY <2>1, <2>2, <2>3
<1>2. /\ masquerade <= 1 /\ \A k \in DOMAIN chain : chain[k] = Drop => k = 1
      /\ \A q \in Invocation :
           /\ at[q] = "addMasquerade" => masquerade = 0 /\ NoDrop
           /\ at[q] = "addDrop" => masquerade = 1 /\ NoDrop
           /\ at[q] = "delDrop" => masquerade = 0
      /\ (\A q \in Invocation : at[q] \notin {"addDrop", "delDrop"}) => (masquerade = 0 <=> NoDrop)
  BY <1>1 DEF RulesFit
<1> DEFINE FitAfter ==
        /\ masquerade' <= 1 /\ \A k \in DOMAIN chain' : chain'[k] = Drop => k = 1
        /\ \A q \in Invocation :
             /\ at'[q] = "addMasquerade" => masquerade' = 0 /\ NoDrop'
             /\ at'[q] = "addDrop" => masquerade' = 1 /\ NoDrop'
             /\ at'[q] = "delDrop" => masquerade' = 0
        /\ (\A q \in Invocation : at'[q] \notin {"addDrop", "delDrop"})
             => (masquerade' = 0 <=> NoDrop')
<1>3. SUFFICES FitAfter
  BY <1>1 DEF RulesFit
<1>4. \A q, r \in Invocation :
        /\ q # r /\ at'[q] \in {"addMasquerade", "addDrop"}
        => at'[r] \notin {"addMasquerade", "addDrop", "delMasquerade", "delDrop"}
  BY <1>1 DEF RulesContended
<1> USE DEF NoDrop
<1>5. ASSUME UNCHANGED <<masquerade, chain>>,
             \A q \in Invocation :
               /\ at'[q] \in {"addMasquerade", "addDrop", "delDrop"} => at'[q] = at[q]
               /\ at[q] \in {"addDrop", "delDrop"} => at'[q] = at[q]
      PROVE  FitAfter
  BY <1>2, <1>5
<1>6. CASE CheckNat(p)
  <2>1. CASE masquerade > 0
    BY <1>5, <1>6, <2>1 DEF CheckNat
  <2>2. CASE masquerade = 0
    <3>1. /\ at[p] = "checkNat" /\ at' = [at EXCEPT ![p] = "addMasquerade"]
          /\ UNCHANGED <<masquerade, chain>>
      BY <1>6, <2>2 DEF CheckNat
    <3>2. \A q \in Invocation : at[q] \notin {"addDrop", "delDrop"}
      BY <1>4, <3>1
    <3> QED
      BY <1>2, <2>2, <3>1, <3>2
  <2> QED
    BY <2>1, <2>2
<1>7. CASE AddMasquerade(p)
  <2>1. /\ at[p] = "addMasquerade" /\ at' = [at EXCEPT ![p] = "addDrop"]
        /\ masquerade' = masquerade + 1 /\ chain' = chain
    BY <1>7 DEF AddMasquerade
  <2>2. \A q \in Invocation \ {p} :
          at'[q] \notin {"addMasquerade", "addDrop", "delMasquerade", "delDrop"}
    BY <1>4, <2>1
  <2>3. masquerade = 0 /\ NoDrop
    BY <1>2, <2>1
  <2> QED
    BY <1>2, <2>1, <2>2, <2>3
<1>8. CASE AddDrop(p)
  <2>1. /\ at[p] = "addDrop" /\ at' = [at EXCEPT ![p] = "allocate"]
        /\ masquerade' = masquerade /\ chain' = <<Drop>> \o chain
    BY <1>8 DEF AddDrop
  <2>2. masquerade = 1 /\ NoDrop
    BY <1>2, <2>1
  <2>3. chain'[1] = Drop /\ 1 \in DOMAIN chain' /\
        \A k \in DOMAIN chain' : chain'[k] = Drop => k = 1
    BY <2>1, <2>2
  <2>4. \A q \in Invocation :
          at'[q] \notin {"addMasquerade", "addDrop", "delDrop"}
    <3>1. ~RulesContended
      BY <1>1 DEF RulesFit
    <3> QED
      BY <2>1, <3>1 DEF RulesContended
  <2>5. masquerade' = 1 /\ ~NoDrop'
    BY <2>1, <2>2, <2>3
  <2> QED
    BY <2>3, <2>4, <2>5
<1>9. CASE DelMasquerade(p)
  <2>1. /\ at[p] = "delMasquerade" /\ at' = [at EXCEPT ![p] = "delDrop"]
        /\ masquerade' = 0 /\ chain' = chain
    BY <1>2, <1>9 DEF DelMasquerade
  <2>2. \A q \in Invocation \ {p} : at'[q] \notin {"addMasquerade", "addDrop"}
    BY <1>4, <2>1
  <2> QED
    BY <1>2, <2>1, <2>2
<1>10. CASE DelDrop(p)
  <2>1. /\ at[p] = "delDrop" /\ at' = [at EXCEPT ![p] = "write"]
        /\ masquerade' = masquerade /\ chain' = RemoveFirst(chain, Drop)
    BY <1>10 DEF DelDrop
  <2>2. masquerade = 0
    BY <1>2, <2>1
  <2>3. NoDrop'
    <3>1. CASE NoDrop
      BY <2>1, <3>1 DEF RemoveFirst
    <3>2. CASE ~NoDrop
      <4>1. chain # <<>> /\ chain[1] = Drop
        BY <1>2, <3>2
      <4>2. chain' = Tail(chain)
        BY <2>1, <4>1, FirstRemoved DEF Rule
      <4> QED
        BY <1>2, <4>1, <4>2
    <3> QED
      BY <3>1, <3>2
  <2>4. ~RulesContended
    BY <1>1 DEF RulesFit
  <2>5. \A q \in Invocation : at'[q] \notin {"addMasquerade", "addDrop"}
    BY <2>1, <2>4 DEF RulesContended
  <2> QED
    BY <2>1, <2>2, <2>3, <2>5
<1>11. CASE AddAccept(p)
  <2>1. PICK o \in Octet : chain' = Append(chain, Accept(o))
    BY <1>11 DEF AddAccept
  <2>2. /\ at[p] = "accept" /\ at' = [at EXCEPT ![p] = "idle"] /\ masquerade' = masquerade
    BY <1>11 DEF AddAccept
  <2>3. /\ \A k \in DOMAIN chain' : chain'[k] = Drop => k \in DOMAIN chain /\ chain[k] = Drop
        /\ \A k \in DOMAIN chain : k \in DOMAIN chain' /\ chain'[k] = chain[k]
    BY <2>1 DEF Accept, Drop
  <2>4. NoDrop' <=> NoDrop
    BY <2>3
  <2> QED
    BY <1>2, <2>2, <2>3, <2>4
<1>12. CASE Bystander(p)
  BY <1>5, <1>12, BystanderKeeps DEF AtRules
<1>13. CASE AddBridge(p) \/ AddAddress(p) \/ LinkUp(p) \/ AddTap(p) \/ PowerOff(p) \/ DeleteTap(p)
  BY <1>5, <1>13 DEF AddBridge, AddAddress, LinkUp, AddTap, PowerOff, DeleteTap
<1>14. CASE LinkDown(p) \/ LinkDelete(p) \/ WriteRemoval(p)
  BY <1>5, <1>14 DEF LinkDown, LinkDelete, WriteRemoval
<1>15. CASE Commits(p)
  <2>1. CASE at' = [at EXCEPT ![p] = "idle"]
    BY <1>5, <1>15, <2>1, CommitCases
  <2>2. CASE at' = [at EXCEPT ![p] = "linkDown"]
    BY <1>5, <1>15, <2>2, CommitCases
  <2> QED
    BY <1>15, <2>1, <2>2, CommitCases
<1>16. CASE KilledBetween(p) \/ CommandFails(p)
  BY <1>1, <1>16 DEF KilledBetween, CommandFails
<1> QED
  BY <1>6, <1>7, <1>8, <1>9, <1>10, <1>11, <1>12, <1>13, <1>14, <1>15, <1>16
  DEF NetStep, HostNetStep, Commits, Bystander

(* Every step keeps RulesAreDue, for the same reason as RemovalIsDue.      *)
LEMMA RulesStayDue ==
  ASSUME HostNetInv, NEW p \in Invocation, NetStep(p),
         contended' = (contended \/ mishaps' > 0 \/ RulesContended')
  PROVE  RulesAreDue'
<1> DEFINE S == {"write"}
<1> USE DEF HostNetInv, HostNetTypeOK, Goes, Returns, StateFile, Rules
<1>1. SUFFICES ASSUME ~contended, ~contended', mishaps' = 0
               PROVE  RulesAreDue'
  <2>1. mishaps' = 0 \/ mishaps' > 0
    <3>1. mishaps' \in Nat
      BY TypesKept
    <3> QED
      BY <3>1
  <2>2. contended \/ mishaps' > 0 => contended'
    OBVIOUS
  <2>3. contended' => RulesAreDue'
    BY DEF RulesAreDue
  <2> QED
    BY <2>1, <2>2, <2>3
<1>2. RulesFit'
  BY RulesFitKept
<1>3. Needed(S)' => RulesAreDue'
  BY DEF Needed, RulesAreDue
<1>4. CASE DelDrop(p)
  <2>1. \A q \in Invocation : at'[q] \notin {"addDrop", "delDrop"}
    <3>1. /\ at' = [at EXCEPT ![p] = "write"] /\ at[p] = "delDrop"
          /\ \A q \in Invocation : at[q] = "delDrop" => q = p
      BY <1>4, NoOneAssumption DEF DelDrop, PlacesFit, Removing
    <3>2. ~RulesContended
      BY <1>1 DEF RulesFit
    <3> QED
      BY <3>1, <3>2 DEF RulesContended
  <2>2. masquerade' = 0
    BY <1>1, <1>4 DEF RulesFit, DelDrop
  <2>3. NoDrop'
    BY <1>1, <1>2, <2>1, <2>2 DEF RulesFit
  <2> QED
    BY <2>2, <2>3 DEF RulesAreDue
<1>5. ASSUME Needed(S), ~DelDrop(p)
      PROVE  RulesAreDue'
  <2>1. at'[p] \in S => at[p] \in S
    <3>1. Commits(p) => at'[p] \notin S
      BY CommitCases
    <3>2. Bystander(p) /\ at'[p] \in S => at[p] \in S
      BY BystanderKeeps DEF AtRules
    <3>3. AddTap(p) \/ CheckNat(p) \/ AddBridge(p) \/ AddAddress(p) \/ LinkUp(p) => at'[p] \notin S
      BY DEF AddTap, CheckNat, AddBridge, AddAddress, LinkUp
    <3>4. AddMasquerade(p) \/ AddDrop(p) \/ PowerOff(p) \/ DeleteTap(p) \/ LinkDown(p)
          => at'[p] \notin S
      BY DEF AddMasquerade, AddDrop, PowerOff, DeleteTap, LinkDown
    <3>5. LinkDelete(p) \/ DelMasquerade(p) \/ WriteRemoval(p) \/ AddAccept(p) => at'[p] \notin S
      BY DEF LinkDelete, DelMasquerade, WriteRemoval, AddAccept
    <3>6. ~KilledBetween(p) /\ ~CommandFails(p)
      BY <1>1 DEF KilledBetween, CommandFails
    <3> QED
      BY <1>5, <3>1, <3>2, <3>3, <3>4, <3>5, <3>6
      DEF NetStep, HostNetStep, Commits, Bystander
  <2> QED
    BY <1>1, <1>3, <1>5, <2>1, NeededStays
<1>6. CASE AddMasquerade(p) \/ AddDrop(p)
  <2>1. who[p] \in Id /\ record[who[p]] = "creating" /\ record' = record
    BY <1>6 DEF AddMasquerade, AddDrop, PlacesFit, Creating, Ensuring
  <2> QED
    BY <2>1 DEF RulesAreDue
<1>7. ASSUME masquerade = 0, NoDrop, ~AddMasquerade(p), ~AddDrop(p), ~DelDrop(p)
      PROVE  RulesAreDue'
  <2>1. masquerade' = 0 /\ NoDrop'
    <3>1. UNCHANGED <<masquerade, chain>> => masquerade' = 0 /\ NoDrop'
      BY <1>7 DEF NoDrop
    <3>2. Commits(p) => UNCHANGED <<masquerade, chain>>
      BY CommitCases
    <3>3. Bystander(p) => UNCHANGED <<masquerade, chain>>
      BY BystanderKeeps
    <3>4. CASE AddBridge(p) \/ AddAddress(p) \/ LinkUp(p) \/ CheckNat(p) \/ AddTap(p)
      BY <3>1, <3>4 DEF AddBridge, AddAddress, LinkUp, CheckNat, AddTap
    <3>5. CASE PowerOff(p) \/ DeleteTap(p) \/ LinkDown(p) \/ LinkDelete(p) \/ WriteRemoval(p)
      BY <3>1, <3>5 DEF PowerOff, DeleteTap, LinkDown, LinkDelete, WriteRemoval
    <3>6. CASE DelMasquerade(p)
      BY <1>7, <3>6 DEF DelMasquerade, NoDrop
    <3>7. CASE AddAccept(p)
      BY <1>7, <3>7 DEF AddAccept, NoDrop, Accept, Drop
    <3>8. CASE KilledBetween(p) \/ CommandFails(p)
      BY <3>1, <3>8 DEF KilledBetween, CommandFails
    <3> QED
      BY <1>7, <3>1, <3>2, <3>3, <3>4, <3>5, <3>6, <3>7, <3>8
      DEF NetStep, HostNetStep, Commits, Bystander
  <2> QED
    BY <2>1 DEF RulesAreDue
<1>8. Needed(S) \/ (masquerade = 0 /\ NoDrop)
  BY <1>1 DEF Needed, RulesAreDue
<1> QED
  BY <1>4, <1>5, <1>6, <1>7, <1>8

(* When a guest exits it is at most its port that goes.                    *)
LEMMA GuestExitsKeeps ==
  ASSUME HostNetInv, NEW i \in Id, GuestExits(i),
         contended' = (contended \/ mishaps' > 0 \/ RulesContended')
  PROVE  HostNetInv'
<1>1. UNCHANGED <<bridge, masquerade, chain, dnat, pool, record, ip, store, outcome, at,
                 who, mishaps>>
  BY DEF GuestExits, Rules, StateFile
<1>2. ports' \subseteq ports
  BY DEF GuestExits
<1>3. contended' \in BOOLEAN /\ (contended => contended') /\ (RulesContended' <=> RulesContended)
  <2>1. RulesContended' <=> RulesContended
    BY <1>1 DEF RulesContended
  <2> QED
    BY <2>1
<1>4. HostNetTypeOK' /\ PlacesFit' /\ AddressesFit' /\ PoolFits'
  <2>1. HostNetTypeOK'
    BY <1>1, <1>2, <1>3 DEF HostNetInv, HostNetTypeOK
  <2>2. PlacesFit'
    BY <1>1 DEF HostNetInv, PlacesFit, RunningOthers, OtherRecords, Recorded
  <2>3. AddressesFit' /\ PoolFits'
    BY <1>1 DEF HostNetInv, AddressesFit, PoolFits
  <2> QED
    BY <2>1, <2>2, <2>3
<1>5. BridgeFits' /\ RemovalIsDue'
  BY <1>1, <1>2 DEF HostNetInv, BridgeFits, RemovalIsDue, Recorded
<1>6. RulesFit' /\ RulesAreDue'
  BY <1>1, <1>3 DEF HostNetInv, RulesFit, RulesAreDue, NoDrop, Recorded
<1>7. ForwardsStayTheirs' /\ DropComesFirst'
  BY <1>1 DEF HostNetInv, ForwardsStayTheirs, DropComesFirst
<1> QED
  BY <1>4, <1>5, <1>6, <1>7 DEF HostNetInv
-----------------------------------------------------------------------------
(* The invariant and what follows from it                                  *)

(* A host without sandboxes satisfies the invariant.                       *)
LEMMA HostNetInitInv == HostNetInit => HostNetInv
<1> SUFFICES ASSUME HostNetInit PROVE HostNetInv
  OBVIOUS
<1>1. HostNetTypeOK
  <2>1. pool \in NetworkState
    BY LastOctetAssumption
    DEF HostNetInit, EmptyNetwork, NetworkState, FirstOctet, Octet
  <2>2. bridge \in [there : BOOLEAN, addr : BOOLEAN, up : BOOLEAN]
    BY DEF HostNetInit, NoBridge
  <2>3. masquerade \in Nat /\ chain \in Seq({Drop} \cup {Accept(o) : o \in Octet})
    BY DEF HostNetInit
  <2>4. /\ ip \in [Id -> Octet \cup {NoIp}]
        /\ at \in [Invocation -> NetPoints] /\ who \in [Invocation -> Id \cup {NoId}]
    BY DEF HostNetInit, NetPoints
  <2> QED
    BY <2>1, <2>2, <2>3, <2>4 DEF HostNetInit, HostNetTypeOK
<1>2. PlacesFit /\ BridgeFits /\ RemovalIsDue
  BY
  DEF HostNetInit, PlacesFit, BridgeFits, RemovalIsDue, NoBridge, Creating, Ensuring,
         Removing, Destroying
<1>3. AddressesFit /\ ForwardsStayTheirs /\ DropComesFirst
  BY DEF HostNetInit, AddressesFit, ForwardsStayTheirs, DropComesFirst
<1>4. PoolFits
  BY OctetIsNumber, NoIdAssumption DEF HostNetInit, PoolFits, EmptyNetwork, Ensuring
<1>5. RulesFit /\ RulesAreDue
  BY DEF HostNetInit, RulesFit, RulesAreDue, RulesContended, NoDrop
<1> QED
  BY <1>1, <1>2, <1>3, <1>4, <1>5 DEF HostNetInv

(* Every step keeps the invariant.                                         *)
LEMMA HostNetNextInv == HostNetInv /\ [HostNetNext]_netVars => HostNetInv'
<1> SUFFICES ASSUME HostNetInv, [HostNetNext]_netVars PROVE HostNetInv'
  OBVIOUS
<1>1. CASE UNCHANGED netVars
  BY <1>1 DEF netVars, HostNetInv, HostNetTypeOK, PlacesFit, AddressesFit, PoolFits,
              BridgeFits, RemovalIsDue, RulesFit, RulesAreDue, RulesContended, NoDrop,
              ForwardsStayTheirs, DropComesFirst, RunningOthers, OtherRecords, Recorded
<1>2. ASSUME contended' = (contended \/ mishaps' > 0 \/ RulesContended'),
             NEW p \in Invocation, NetStep(p)
      PROVE  HostNetInv'
  <2>1. contended' \in BOOLEAN
    BY <1>2
  <2>2. HostNetTypeOK' /\ PlacesFit' /\ AddressesFit' /\ PoolFits'
    BY <1>2, <2>1, TypesKept, PlacesKept, AddressesKept, PoolKept
  <2>3. BridgeFits' /\ RemovalIsDue' /\ RulesFit' /\ RulesAreDue'
    BY <1>2, BridgeKept, RemovalStaysDue, RulesFitKept, RulesStayDue
  <2>4. ForwardsStayTheirs' /\ DropComesFirst'
    BY <1>2, ForwardsKept, DropStaysFirst
  <2> QED
    BY <2>2, <2>3, <2>4 DEF HostNetInv
<1>3. CASE HostNetNext
  <2>1. contended' = (contended \/ mishaps' > 0 \/ RulesContended')
    BY <1>3 DEF HostNetNext, NetUndisturbed, NetDisturbed
  <2>2. (\E p \in Invocation : NetStep(p)) \/ (\E i \in Id : GuestExits(i))
    BY <1>3 DEF HostNetNext, NetUndisturbed, NetDisturbed, NetStep
  <2> QED
    BY <1>2, <2>1, <2>2, GuestExitsKeeps
<1> QED
  BY <1>1, <1>3

(* HostNetInv is invariant, for any invocations, machines and pool, with   *)
(* creates, destroys of both backends and forwards interleaved command by  *)
(* command, killed or failing anywhere (bridge.rs, nat.rs, tap.rs,         *)
(* port_forward.rs, nspawn.rs:380-400, firecracker.rs:366-383).            *)
THEOREM HostNetInvariance == HostNetSpec => []HostNetInv
BY HostNetInitInv, HostNetNextInv, PTL DEF HostNetSpec

(* A port forward never leads to another machine than its own, although no *)
(* destroy removes its rules (port_forward.rs:23-61).                      *)
THEOREM ForwardsLeadHome == HostNetSpec => []ForwardsStayTheirs
<1>1. HostNetInv => ForwardsStayTheirs
  BY DEF HostNetInv
<1> QED
  BY <1>1, HostNetInvariance, PTL

(* No ACCEPT of a forward comes before a DROP between sandboxes            *)
(* (nat.rs:36, port_forward.rs:54).                                        *)
THEOREM DropIsFirst == HostNetSpec => []DropComesFirst
<1>1. HostNetInv => DropComesFirst
  BY DEF HostNetInv
<1> QED
  BY <1>1, HostNetInvariance, PTL

(* Unless a command failed or was killed, a bridge without address or down *)
(* has somebody at work on it (bridge.rs:14).                              *)
THEOREM BridgesAreCompleted == HostNetSpec => []HalfBridgeIsAttended
<1>1. HostNetInv => HalfBridgeIsAttended
  BY DEF HostNetInv, BridgeFits, HalfBridgeIsAttended
<1> QED
  BY <1>1, HostNetInvariance, PTL

(* Unless a command failed or was killed, the last sandbox to go takes the *)
(* bridge and its ports along (nspawn.rs:394-397, firecracker.rs:379-381). *)
THEOREM LastOneOut == HostNetSpec => []LastOneOutRemovesBridge
<1>1. HostNetInv => LastOneOutRemovesBridge
  BY DEF HostNetInv, RemovalIsDue, LastOneOutRemovesBridge
<1> QED
  BY <1>1, HostNetInvariance, PTL

(* Unless also two invocations were at the rules at once, it takes both    *)
(* rules along (nat.rs:40-47), although other commands than its own added  *)
(* them, and records of stopped machines came and went.                    *)
THEOREM LastOneOutOfTheRules == HostNetSpec => []LastOneOutRemovesRules
<1>1. HostNetInv => LastOneOutRemovesRules
  BY DEF HostNetInv, RulesAreDue, LastOneOutRemovesRules
<1> QED
  BY <1>1, HostNetInvariance, PTL
-----------------------------------------------------------------------------
(* The refinement of Registry                                              *)

(* A step between the points of a create, or between others.               *)
SameMakers ==
  \A q \in Invocation :
    /\ at'[q] \in Creating <=> at[q] \in Creating
    /\ at[q] \in Creating => who'[q] = who[q]

(* A step that is not about records, addresses and the ends of a create.   *)
LEMMA NetQuietStep ==
  ASSUME UNCHANGED <<record, ip, pool>>, SameMakers
  PROVE  UNCHANGED Machines!registry
<1>1. \A i \in Id : BeingMade(i)' <=> BeingMade(i)
  BY DEF BeingMade, SameMakers
<1>2. \A i \in Id : Stands(i)' = Stands(i) /\ NamedAddress(i)' = NamedAddress(i)
  BY <1>1 DEF Stands, NamedAddress, Recorded
<1> QED
  BY <1>2 DEF Machines!registry

(* Nobody else is at a machine that has no record yet.                     *)
LEMMA MadeByOne ==
  ASSUME HostNetInv, NEW p \in Invocation, at[p] \in Creating
  PROVE  /\ who[p] \in Id /\ record[who[p]] = "creating"
         /\ BeingMade(who[p]) /\ Stands(who[p]) = "underway"
         /\ \A q \in Invocation : at[q] \in Creating /\ who[q] = who[p] => q = p
BY DEF HostNetInv, PlacesFit, Creating, Ensuring, BeingMade, Stands

LEMMA CreateIsBegin ==
  ASSUME HostNetInv, NEW p \in Invocation, NEW i \in Id, CreateMachine(p, i)
  PROVE  Machines!Begin(i)
<1> USE DEF HostNetInv, HostNetTypeOK
<1>1. /\ at[p] = "idle" /\ record[i] = "unborn" /\ UNCHANGED <<ip, pool>>
      /\ at'[p] \in Creating /\ \A q \in Invocation \ {p} : at'[q] = at[q]
      /\ who'[p] = i /\ \A q \in Invocation \ {p} : who'[q] = who[q]
      /\ record'[i] = "creating" /\ \A j \in Id \ {i} : record'[j] = record[j]
  BY DEF CreateMachine, Creating
<1>2. BeingMade(i)' /\ \A j \in Id \ {i} : BeingMade(j)' <=> BeingMade(j)
  BY <1>1 DEF BeingMade, Creating, Ensuring
<1>3. Stands(i) = "unborn" /\ Stands(i)' = "underway"
  BY <1>1, <1>2 DEF Stands
<1>4. \A j \in Id \ {i} : Stands(j)' = Stands(j)
  BY <1>1, <1>2 DEF Stands
<1>5. [j \in Id |-> Stands(j)]' = [[j \in Id |-> Stands(j)] EXCEPT ![i] = "underway"]
  BY <1>3, <1>4
<1>6. \A j \in Id : NamedAddress(j)' = NamedAddress(j)
  BY <1>1 DEF NamedAddress, Recorded, HasRecord
<1> QED
  BY <1>1, <1>3, <1>5, <1>6 DEF Machines!Begin, Machines!Becomes

(* A create ends without a record.                                         *)
LEMMA EndIsAbandon ==
  ASSUME HostNetInv, NEW p \in Invocation, at[p] \in Creating, UNCHANGED <<record, ip, pool>>,
         at' = [at EXCEPT ![p] = "idle"], who' = [who EXCEPT ![p] = NoId]
  PROVE  Machines!Abandon(who[p])
<1>1. PICK i \in Id :
        /\ i = who[p] /\ record[i] = "creating" /\ Stands(i) = "underway"
        /\ \A q \in Invocation : at[q] \in Creating /\ who[q] = i => q = p
  BY MadeByOne
<1>2. /\ at'[p] = "idle" /\ \A q \in Invocation \ {p} : at'[q] = at[q] /\ who'[q] = who[q]
  BY DEF HostNetInv, HostNetTypeOK
<1>3. ~BeingMade(i)' /\ \A j \in Id \ {i} : BeingMade(j)' <=> BeingMade(j)
  BY <1>1, <1>2 DEF BeingMade, Creating, Ensuring
<1>4. Stands(i)' = "gone" /\ \A j \in Id \ {i} : Stands(j)' = Stands(j)
  BY <1>1, <1>3 DEF Stands
<1>5. [j \in Id |-> Stands(j)]' = [[j \in Id |-> Stands(j)] EXCEPT ![i] = "gone"]
  BY <1>1, <1>4
<1>6. \A j \in Id : NamedAddress(j)' = NamedAddress(j)
  BY DEF NamedAddress, Recorded
<1> QED
  BY <1>1, <1>5, <1>6 DEF Machines!Abandon, Machines!Becomes

(* The octets below the new next_octet are those below the old and the one *)
(* just given: the scan skips none, as all from next_octet on are free.    *)
LEMMA GrantedGrows ==
  ASSUME HostNetInv, ~PoolExhausted(pool), pool'.next = NextFree(pool) + 1
  PROVE  /\ NextFree(pool) \notin {o \in Octet : o < pool.next}
         /\ {o \in Octet : o < pool.next}' = {o \in Octet : o < pool.next} \cup {NextFree(pool)}
<1> DEFINE new == NextFree(pool)
           next == pool.next
<1>1. new \in Octet /\ new >= next /\ next \in 0 .. 255
  BY NextFreeIsFree DEF HostNetInv, HostNetTypeOK, NetworkState
<1>2. \A o \in Octet : o >= next => new <= o
  <2> SUFFICES ASSUME NEW o \in Octet, o >= next PROVE new <= o
    OBVIOUS
  <2>1. pool.alloc[o] = NoId
    <3>1. ASSUME NEW i \in Id, pool.alloc[o] = i PROVE FALSE
      <4>1. ip[i] = o /\ ip[i] # NoIp
        BY <3>1, OctetIsNumber DEF HostNetInv, PoolFits
      <4>2. o < next
        BY <4>1 DEF HostNetInv, AddressesFit
      <4> HIDE DEF next
      <4>3. o \in 2 .. 254
        BY OctetIsNumber
      <4> QED
        BY <1>1, <4>2, <4>3
    <3> QED
      BY <3>1 DEF HostNetInv, HostNetTypeOK, NetworkState
  <2> QED
    BY <2>1, NextFreeIsLeast DEF HostNetInv, HostNetTypeOK
<1> HIDE DEF new, next
<1>3. new \in 2 .. 254 /\ Octet \subseteq 2 .. 254
  BY <1>1, OctetIsNumber
<1>4. \A o \in Octet : o < new + 1 <=> o < next \/ o = new
  BY <1>1, <1>2, <1>3
<1>5. ~(new < next)
  BY <1>1, <1>3
<1> QED
  BY <1>1, <1>4, <1>5 DEF new, next

LEMMA AllocateIsGrantOrAbandon ==
  ASSUME HostNetInv, NEW p \in Invocation, AllocateIp(p)
  PROVE  \/ \E o \in Octet : Machines!Grant(who[p], o)
         \/ Machines!Abandon(who[p])
<1> USE DEF HostNetInv, HostNetTypeOK
<1>1. at[p] = "allocate" /\ at[p] \in Creating
  BY DEF AllocateIp, Creating
<1>2. CASE PoolExhausted(pool)
  <2>1. /\ UNCHANGED <<record, ip, pool>>
        /\ at' = [at EXCEPT ![p] = "idle"] /\ who' = [who EXCEPT ![p] = NoId]
    BY <1>2 DEF AllocateIp, Returns
  <2> QED
    BY <1>1, <2>1, EndIsAbandon
<1>3. CASE ~PoolExhausted(pool)
  <2> DEFINE new == NextFree(pool)
  <2>1. PICK i \in Id :
          i = who[p] /\ record[i] = "creating" /\ Stands(i) = "underway" /\ ip[i] = NoIp
    BY <1>1, MadeByOne DEF PoolFits
  <2>2. /\ at' = [at EXCEPT ![p] = "addTap"] /\ who' = who /\ record' = record
        /\ ip' = [ip EXCEPT ![i] = new]
        /\ pool'.alloc = [pool.alloc EXCEPT ![new] = i] /\ pool'.next = new + 1
    BY <1>3, <2>1 DEF AllocateIp, Goes, Allocate
  <2>3. new \in Octet
    BY <1>3, NextFreeIsFree
  <2>4. \A o \in Octet : pool.alloc[o] # i
    BY <2>1, OctetIsNumber DEF PoolFits
  <2>5. /\ new \notin {o \in Octet : o < pool.next}
        /\ {o \in Octet : o < pool.next}' = {o \in Octet : o < pool.next} \cup {new}
    BY <1>3, <2>2, GrantedGrows
  <2>6. \A j \in Id : BeingMade(j)' <=> BeingMade(j)
    BY <1>1, <2>2 DEF BeingMade, Creating
  <2>7. \A j \in Id : Stands(j)' = Stands(j) /\ NamedAddress(j)' = NamedAddress(j)
    BY <2>1, <2>2, <2>6 DEF Stands, NamedAddress, Recorded, HasRecord
  <2> HIDE DEF new
  <2>8. Machines!Grant(i, new)
    BY <2>1, <2>2, <2>4, <2>5, <2>7 DEF Machines!Grant
  <2> QED
    BY <2>1, <2>3, <2>8 DEF Machines!Grant
<1> QED
  BY <1>2, <1>3

LEMMA RecordIsEnter ==
  ASSUME HostNetInv, NEW p \in Invocation, RecordMachine(p)
  PROVE  Machines!Enter(who[p])
<1> USE DEF HostNetInv, HostNetTypeOK
<1>1. PICK i \in Id :
        /\ i = who[p] /\ record[i] = "creating" /\ Stands(i) = "underway"
        /\ \A q \in Invocation : at[q] \in Creating /\ who[q] = i => q = p
  BY MadeByOne DEF RecordMachine, Creating
<1>2. /\ UNCHANGED <<ip, pool>> /\ record' = [record EXCEPT ![i] = "running"]
      /\ at'[p] = "idle" /\ \A q \in Invocation \ {p} : at'[q] = at[q] /\ who'[q] = who[q]
  BY <1>1 DEF RecordMachine, Returns
<1>3. \A j \in Id \ {i} : BeingMade(j)' <=> BeingMade(j)
  BY <1>1, <1>2 DEF BeingMade, Creating, Ensuring
<1>4. Stands(i)' = "running" /\ \A j \in Id \ {i} : Stands(j)' = Stands(j)
  BY <1>1, <1>2, <1>3 DEF Stands
<1>5. [j \in Id |-> Stands(j)]' = [[j \in Id |-> Stands(j)] EXCEPT ![i] = "running"]
  BY <1>1, <1>4
<1>6. NamedAddress(i)' = ip[i] /\ \A j \in Id \ {i} : NamedAddress(j)' = NamedAddress(j)
  BY <1>1, <1>2 DEF NamedAddress, Recorded, HasRecord
<1>7. [j \in Id |-> NamedAddress(j)]' = [[j \in Id |-> NamedAddress(j)] EXCEPT ![i] = ip[i]]
  BY <1>1, <1>6
<1>8. ip[i] \in {o \in Octet : pool.alloc[o] = i} \cup {NoIp}
  BY <1>1 DEF PoolFits
<1>9. ip[i] = NoIp => \A o \in Octet : pool.alloc[o] # i
  BY <1>1, OctetIsNumber DEF PoolFits
<1> QED
  BY <1>1, <1>2, <1>5, <1>7, <1>8, <1>9 DEF Machines!Enter, Machines!Becomes

LEMMA ForgetIsRemove ==
  ASSUME HostNetInv, NEW i \in Id, Recorded(i), Forget(i), SameMakers
  PROVE  Machines!Remove(i)
<1> USE DEF HostNetInv, HostNetTypeOK
<1>1. record' = [record EXCEPT ![i] = "gone"] /\ ip' = [ip EXCEPT ![i] = NoIp]
  BY DEF Forget
<1>2. \A j \in Id : BeingMade(j)' <=> BeingMade(j)
  BY DEF BeingMade, SameMakers
<1>3. Stands(i) \in HasRecord /\ Stands(i)' = "gone" /\ \A j \in Id \ {i} : Stands(j)' = Stands(j)
  BY <1>1, <1>2 DEF Stands, Recorded, HasRecord
<1>4. [j \in Id |-> Stands(j)]' = [[j \in Id |-> Stands(j)] EXCEPT ![i] = "gone"]
  BY <1>3
<1>5. NamedAddress(i)' = NoIp /\ \A j \in Id \ {i} : NamedAddress(j)' = NamedAddress(j)
  BY <1>1 DEF NamedAddress, Recorded, HasRecord
<1>6. [j \in Id |-> NamedAddress(j)]' = [[j \in Id |-> NamedAddress(j)] EXCEPT ![i] = NoIp]
  BY <1>5
<1>7. pool'.next = pool.next
  BY DEF Forget, Release
<1>8. pool'.alloc = [o \in Octet |-> IF pool.alloc[o] = i THEN NoId ELSE pool.alloc[o]]
  <2>1. \A o \in Octet : pool.alloc[o] = i <=> ip[i] = o
    BY DEF PoolFits
  <2>2. pool.alloc \in [Octet -> Id \cup {NoId}]
    BY DEF NetworkState
  <2>3. CASE ip[i] = NoIp
    BY <2>1, <2>2, <2>3, OctetIsNumber DEF Forget
  <2>4. CASE ip[i] # NoIp
    <3>1. pool'.alloc = [o \in Octet |-> IF o = ip[i] THEN NoId ELSE pool.alloc[o]]
      BY <2>4 DEF Forget, Release, NetworkState
    <3> QED
      BY <2>1, <3>1
  <2> QED
    BY <2>3, <2>4
<1> QED
  BY <1>3, <1>4, <1>6, <1>7, <1>8 DEF Machines!Remove, Machines!Becomes

LEMMA MarkIsChange ==
  ASSUME HostNetInv, NEW i \in Id, Recorded(i), NEW status \in HasRecord,
         record' = [record EXCEPT ![i] = status], UNCHANGED <<ip, pool>>, SameMakers
  PROVE  Machines!Change(i, status)
<1> USE DEF HostNetInv, HostNetTypeOK
<1>1. \A j \in Id : BeingMade(j)' <=> BeingMade(j)
  BY DEF BeingMade, SameMakers
<1>2. /\ Stands(i) \in HasRecord /\ Stands(i)' = status
      /\ \A j \in Id \ {i} : Stands(j)' = Stands(j)
  BY <1>1 DEF Stands, Recorded, HasRecord
<1>3. [j \in Id |-> Stands(j)]' = [[j \in Id |-> Stands(j)] EXCEPT ![i] = status]
  BY <1>2
<1>4. \A j \in Id : NamedAddress(j)' = NamedAddress(j)
  BY DEF NamedAddress, Recorded, HasRecord
<1> QED
  BY <1>2, <1>3, <1>4 DEF Machines!Change, Machines!Becomes

(* A closure removes a machine, changes one, or finds none.                *)
LEMMA SettleRefines ==
  ASSUME HostNetInv, NEW i \in Id, NEW end \in {"stopped", "gone"}, Settle(i, end), SameMakers
  PROVE  Machines!Next \/ UNCHANGED Machines!registry
<1>1. CASE Recorded(i) /\ Forget(i)
  BY <1>1, ForgetIsRemove DEF Machines!Next
<1>2. CASE Recorded(i) /\ Mark(i)
  <2>1. Machines!Change(i, "stopped") /\ "stopped" \in HasRecord
    BY <1>2, MarkIsChange DEF Mark, HasRecord
  <2> QED
    BY <2>1 DEF Machines!Next
<1>3. CASE UNCHANGED <<record, ip, pool>>
  BY <1>3, NetQuietStep
<1> QED
  BY <1>1, <1>2, <1>3 DEF Settle

(* Every command of every create, destroy and forward is one step of the   *)
(* registry or none.                                                       *)
LEMMA NetStepRefines ==
  ASSUME HostNetInv, NEW p \in Invocation, NetStep(p)
  PROVE  Machines!Next \/ UNCHANGED Machines!registry
<1> DEFINE Quiet == UNCHANGED <<record, ip, pool>> /\ SameMakers
<1> USE DEF HostNetInv, HostNetTypeOK
<1>1. ASSUME NEW i \in Id, CreateMachine(p, i) PROVE Machines!Next
  BY <1>1, CreateIsBegin DEF Machines!Next
<1>2. CASE AllocateIp(p)
  <2>1. who[p] \in Id
    BY <1>2, MadeByOne DEF AllocateIp, Creating
  <2> QED
    BY <1>2, <2>1, AllocateIsGrantOrAbandon DEF Machines!Next
<1>3. CASE RecordMachine(p)
  <2>1. who[p] \in Id
    BY <1>3, MadeByOne DEF RecordMachine, Creating
  <2> QED
    BY <1>3, <2>1, RecordIsEnter DEF Machines!Next
<1>4. ASSUME NEW i \in Id, Reconcile(p, i)
      PROVE  Machines!Next
  <2>1. PICK status \in HasRecord : record' = [record EXCEPT ![i] = status]
    BY <1>4 DEF Reconcile
  <2>2. Machines!Change(i, status)
    <3>1. Recorded(i) /\ UNCHANGED <<ip, pool>> /\ SameMakers
      BY <1>4 DEF Reconcile, SameMakers
    <3> QED
      BY <2>1, <3>1, MarkIsChange
  <2> QED
    BY <2>1, <2>2 DEF Machines!Next
<1>5. CASE Commits(p)
  <2>1. /\ at[p] \notin Creating /\ who[p] \in Id
        /\ at'[p] \in {"idle", "linkDown"}
        /\ \A q \in Invocation \ {p} : at'[q] = at[q] /\ who'[q] = who[q]
    BY <1>5, CommitCases DEF Creating, Ensuring
  <2>2. SameMakers
    BY <2>1 DEF SameMakers, Creating, Ensuring
  <2> QED
    BY <1>5, <2>1, <2>2, CommitCases, SettleRefines, NetQuietStep
<1>6. CASE WriteRemoval(p)
  <2>1. who[p] \in Id /\ Settle(who[p], outcome)
    BY <1>6 DEF WriteRemoval, PlacesFit
  <2>2. SameMakers
    BY <1>6 DEF WriteRemoval, Returns, Creating, Ensuring, SameMakers
  <2> QED
    BY <2>1, <2>2, SettleRefines
<1>7. CASE KilledBetween(p) \/ (AddTap(p) /\ Returns(p))
  <2>1. /\ UNCHANGED <<record, ip, pool>>
        /\ at' = [at EXCEPT ![p] = "idle"] /\ who' = [who EXCEPT ![p] = NoId]
    BY <1>7 DEF KilledBetween, AddTap, Returns, StateFile
  <2>2. CASE at[p] \in Creating
    <3>1. who[p] \in Id
      BY <2>2, MadeByOne
    <3> QED
      BY <2>1, <2>2, <3>1, EndIsAbandon DEF Machines!Next
  <2>3. CASE at[p] \notin Creating
    <3>1. Quiet
      BY <2>1, <2>3 DEF Creating, Ensuring, SameMakers
    <3> QED
      BY <3>1, NetQuietStep
  <2> QED
    BY <2>2, <2>3
<1>8. CASE CommandFails(p)
  <2>1. UNCHANGED <<record, ip, pool>>
    BY <1>8, FailsOnward DEF StateFile
  <2>2. SameMakers
    <3>1. CASE /\ at[p] = "accept" /\ at' = [at EXCEPT ![p] = "idle"]
               /\ who' = [who EXCEPT ![p] = NoId]
      BY <3>1 DEF SameMakers, Creating, Ensuring
    <3>2. CASE /\ who' = who
               /\ \E b \in NetPoints :
                    at' = [at EXCEPT ![p] = b] /\ (b \in Creating <=> at[p] \in Creating)
      BY <3>2 DEF SameMakers
    <3> QED
      BY <1>8, <3>1, <3>2, FailsOnward
  <2> QED
    BY <2>1, <2>2, NetQuietStep
<1>9. CASE \/ \E i \in Id : ReadIp(p, i) \/ DestroyMachine(p, i)
           \/ ShowBridge(p) \/ AddBridge(p) \/ AddAddress(p) \/ LinkUp(p) \/ CheckNat(p)
           \/ AddMasquerade(p) \/ AddDrop(p) \/ (AddTap(p) /\ Goes(p, "addTap", "record"))
           \/ PowerOff(p) \/ DeleteTap(p) \/ LinkDown(p) \/ LinkDelete(p)
           \/ DelMasquerade(p) \/ DelDrop(p) \/ AddPrerouting(p) \/ AddOutput(p) \/ AddAccept(p)
  <2> USE DEF Goes, Returns, StateFile, Rules, Creating, Ensuring, SameMakers
  <2>1. Quiet
    <3>1. CASE \E i \in Id : ReadIp(p, i) \/ DestroyMachine(p, i)
      BY <3>1 DEF ReadIp, DestroyMachine
    <3>2. CASE ShowBridge(p) \/ AddBridge(p) \/ AddAddress(p) \/ LinkUp(p) \/ CheckNat(p)
      BY <3>2 DEF ShowBridge, AddBridge, AddAddress, LinkUp, CheckNat
    <3>3. CASE AddMasquerade(p) \/ AddDrop(p) \/ PowerOff(p) \/ DeleteTap(p)
      BY <3>3 DEF AddMasquerade, AddDrop, PowerOff, DeleteTap
    <3>4. CASE AddTap(p) /\ Goes(p, "addTap", "record")
      BY <3>4 DEF AddTap
    <3>5. CASE LinkDown(p) \/ LinkDelete(p) \/ DelMasquerade(p) \/ DelDrop(p)
      BY <3>5 DEF LinkDown, LinkDelete, DelMasquerade, DelDrop
    <3>6. CASE AddPrerouting(p) \/ AddOutput(p) \/ AddAccept(p)
      BY <3>6 DEF AddPrerouting, AddOutput, AddAccept
    <3> QED
      BY <1>9, <3>1, <3>2, <3>3, <3>4, <3>5, <3>6
  <2> QED
    BY <2>1, NetQuietStep
<1>10. AddTap(p) => Returns(p) \/ Goes(p, "addTap", "record")
  BY DEF AddTap
<1> QED
  BY <1>1, <1>2, <1>3, <1>4, <1>5, <1>6, <1>7, <1>8, <1>9, <1>10
  DEF NetStep, HostNetStep, Commits

(* The creates and destroys of HostNet keep the registry that those of the *)
(* backends keep (DispatchProofs), also with kills between any two of      *)
(* their commands: what it says of forwards and of the last sandbox is     *)
(* said of the same machines and the same addresses.                       *)
THEOREM NetworkComesAndGoes == HostNetSpec => NetworkKeepsRegistry
<1>1. HostNetInit => Machines!Init
  <2> SUFFICES ASSUME HostNetInit PROVE Machines!Init
    OBVIOUS
  <2>1. \A i \in Id : Stands(i) = "unborn" /\ NamedAddress(i) = NoIp
    BY DEF HostNetInit, Stands, NamedAddress
  <2>2. pool.alloc = [o \in Octet |-> NoId] /\ pool.next = 2
    BY DEF HostNetInit, EmptyNetwork, FirstOctet
  <2>3. {o \in Octet : o < pool.next} = {}
    <3>1. \A o \in Octet : ~(o < pool.next)
      BY <2>2, OctetIsNumber
    <3> QED
      BY <3>1
  <2> QED
    BY <2>1, <2>2, <2>3 DEF Machines!Init
<1>2. HostNetInv /\ [HostNetNext]_netVars => [Machines!Next]_(Machines!registry)
  <2> SUFFICES ASSUME HostNetInv, [HostNetNext]_netVars
               PROVE  Machines!Next \/ UNCHANGED Machines!registry
    OBVIOUS
  <2>1. CASE UNCHANGED netVars
    BY <2>1, NetQuietStep DEF netVars, SameMakers
  <2>2. CASE \E p \in Invocation : NetStep(p)
    BY <2>2, NetStepRefines
  <2>3. CASE \E i \in Id : GuestExits(i)
    BY <2>3, NetQuietStep DEF GuestExits, StateFile, SameMakers
  <2> QED
    BY <2>1, <2>2, <2>3 DEF HostNetNext, NetUndisturbed, NetDisturbed, NetStep
<1> QED
  BY <1>1, <1>2, HostNetInvariance, PTL DEF HostNetSpec, NetworkKeepsRegistry, Machines!Spec
-----------------------------------------------------------------------------
(* One invocation at a time                                                *)

OneAtATime == \A p, q \in Invocation : p = q

(* The two rules come and go together, and a port has them.                *)
RulesInv ==
  /\ masquerade > 0 => Contains(chain, Drop) \/ \E p \in Invocation : at[p] = "addDrop"
  /\ ports # {} => masquerade > 0
  /\ \A p \in Invocation :
       /\ at[p] \in {"addDrop", "allocate", "addTap"} => masquerade > 0
       /\ at[p] = "addMasquerade" => masquerade = 0
       /\ at[p] \in {"delMasquerade", "delDrop", "write"} => ports = {}
       /\ at[p] \in {"delDrop", "write"} => masquerade = 0
  /\ masquerade <= 1

LEMMA RulesKept ==
  ASSUME OneAtATime, HostNetInv, RulesInv, NEW p \in Invocation, HostNetStep(p)
  PROVE  RulesInv'
<1> USE DEF HostNetInv, HostNetTypeOK, Goes, Returns, StateFile, Rules, RulesInv, OneAtATime
<1>1. ASSUME NEW i \in Id, CreateMachine(p, i) \/ ReadIp(p, i)
      PROVE  RulesInv'
  BY <1>1 DEF CreateMachine, ReadIp
<1>2. ASSUME NEW i \in Id, DestroyMachine(p, i) \/ Reconcile(p, i)
      PROVE  RulesInv'
  BY <1>2 DEF DestroyMachine, Reconcile
<1>3. CASE ShowBridge(p) \/ AddBridge(p) \/ AddAddress(p) \/ LinkUp(p)
  BY <1>3 DEF ShowBridge, AddBridge, AddAddress, LinkUp
<1>4. CASE CheckNat(p)
  BY <1>4 DEF CheckNat
<1>5. CASE AddMasquerade(p)
  BY <1>5 DEF AddMasquerade
<1>6. CASE AddDrop(p)
  <2>1. chain' = <<Drop>> \o chain /\ UNCHANGED <<masquerade, ports>>
        /\ at' = [at EXCEPT ![p] = "allocate"] /\ at[p] = "addDrop"
    BY <1>6 DEF AddDrop
  <2>2. Contains(chain, Drop)'
    <3>1. (<<Drop>> \o chain)[1] = Drop /\ 1 \in 1 .. Len(<<Drop>> \o chain)
      OBVIOUS
    <3> QED
      BY <2>1, <3>1 DEF Contains
  <2> QED
    BY <2>1, <2>2
<1>7. CASE AllocateIp(p)
  BY <1>7 DEF AllocateIp
<1>8. CASE AddTap(p)
  BY <1>8 DEF AddTap
<1>14. CASE RecordMachine(p) \/ LinkDown(p) \/ PowerOff(p) \/ DeleteTap(p)
  BY <1>14 DEF RecordMachine, LinkDown, PowerOff, DeleteTap
<1>15. CASE Commits(p)
  <2>1. CASE at' = [at EXCEPT ![p] = "idle"]
    BY <1>15, <2>1, CommitCases
  <2>2. CASE at' = [at EXCEPT ![p] = "linkDown"]
    BY <1>15, <2>2, CommitCases
  <2> QED
    BY <1>15, <2>1, <2>2, CommitCases
<1>9. CASE LinkDelete(p)
  BY <1>9 DEF LinkDelete
<1>10. CASE DelMasquerade(p)
  BY <1>10 DEF DelMasquerade
<1>11. CASE DelDrop(p) \/ WriteRemoval(p)
  BY <1>11 DEF DelDrop, WriteRemoval
<1>12. CASE AddPrerouting(p) \/ AddOutput(p)
  BY <1>12 DEF AddPrerouting, AddOutput
<1>13. CASE AddAccept(p)
  <2>1. PICK o \in Octet : chain' = Append(chain, Accept(o))
    BY <1>13 DEF AddAccept
  <2>2. UNCHANGED <<masquerade, ports>> /\ at' = [at EXCEPT ![p] = "idle"] /\ at[p] = "accept"
    BY <1>13 DEF AddAccept
  <2>3. Contains(chain, Drop) => Contains(chain, Drop)'
    <3>1. \A j \in 1 .. Len(chain) :
            j \in 1 .. Len(Append(chain, Accept(o))) /\ Append(chain, Accept(o))[j] = chain[j]
      OBVIOUS
    <3> QED
      BY <2>1, <3>1 DEF Contains
  <2> QED
    BY <2>2, <2>3
<1> QED
  BY <1>1, <1>2, <1>3, <1>4, <1>5, <1>6, <1>7, <1>8, <1>9, <1>10, <1>11, <1>12, <1>13, <1>14, <1>15
    DEF HostNetStep, Commits

(* If each command ends before the next one begins and none is killed, two *)
(* sandboxes on the bridge never lack the rule between them (nat.rs:26):   *)
(* what the run sandbox_separation refutes needs commands that overlap.    *)
THEOREM AloneIsSeparated ==
  ASSUME OneAtATime
  PROVE  UndisturbedHostNetSpec => []SandboxesAreSeparated
<1>1. HostNetInit => RulesInv
  BY DEF HostNetInit, RulesInv
<1>2. HostNetInv /\ RulesInv /\ [NetUndisturbed]_netVars => RulesInv'
  <2> SUFFICES ASSUME HostNetInv, RulesInv, [NetUndisturbed]_netVars
               PROVE  RulesInv'
    OBVIOUS
  <2>1. CASE UNCHANGED netVars
    BY <2>1 DEF netVars, RulesInv
  <2>2. CASE \E i \in Id : GuestExits(i)
    BY <2>2 DEF GuestExits, RulesInv, Rules
  <2> QED
    BY <2>1, <2>2, RulesKept DEF NetUndisturbed
<1>3. [NetUndisturbed]_netVars => [HostNetNext]_netVars
  BY DEF HostNetNext
<1>4. RulesInv => SandboxesAreSeparated
  <2> SUFFICES ASSUME RulesInv, \A p \in Invocation : at[p] \notin Ensuring \cup Removing,
                      Cardinality({i \in ports : Recorded(i)}) > 1
               PROVE  Contains(chain, Drop)
    BY DEF SandboxesAreSeparated
  <2>1. ports # {}
    <3>1. ASSUME ports = {} PROVE FALSE
      <4>1. {i \in ports : Recorded(i)} = {}
        BY <3>1
      <4> QED
        BY <4>1, FS_EmptySet
    <3> QED
      BY <3>1
  <2> QED
    BY <2>1 DEF RulesInv, Ensuring
<1> QED
  BY <1>1, <1>2, <1>3, <1>4, HostNetInvariance, PTL DEF UndisturbedHostNetSpec, HostNetSpec
=============================================================================
