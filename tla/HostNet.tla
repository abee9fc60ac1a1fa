------------------------------ MODULE HostNet ------------------------------
(***************************************************************************)
(* The host network command by command: src/src/network/bridge.rs, nat.rs, *)
(* tap.rs, the rules of commands/port_forward.rs, and of both backends'    *)
(* create and destroy the steps that concern the network. Sandboxes has    *)
(* only the bridge, which create adds and destroy removes in one step      *)
(* each; here every ip or iptables command is a step of its own, and       *)
(* nothing but the address pool and the records is behind the store's lock.*)
(***************************************************************************)
EXTENDS Ipam, SequencesExt, Invocations

CONSTANTS
  Virtual,      \* the virtual machines; the others are containers
  MaxForwards,  \* bound on the port forwards made
  MaxMishaps    \* bound on the kills and failing commands

ASSUME VirtualAssumption == Virtual \subseteq Id

Drop == [verdict |-> "drop"]
Accept(ip) == [verdict |-> "accept", to |-> ip]
NoBridge == [there |-> FALSE, addr |-> FALSE, up |-> FALSE]

VARIABLES
  bridge,       \* claw-br0: is it there, has it its address, is it up
  masquerade,   \* how many such rules POSTROUTING holds
  chain,        \* the FORWARD chain, first rule first
  dnat,         \* history: which machine each port forward was made for, and its destination
  ports,        \* machines whose interface is a port of the bridge
  pool,         \* state.json: the address pool
  record,       \* state.json: no record yet, its status, gone
  ip,           \* the address of each machine
  store,        \* who holds the store's lock over several commands
  outcome,      \* what the closure of its holder made of the machine's record
  at,           \* where each invocation stands
  who,          \* and the machine it works for
  mishaps,      \* history: how many were killed, or had a command fail
  contended     \* history: any of these, or two were at the rules at once

netVars == <<bridge, masquerade, chain, dnat, ports, pool, record, ip, store,
             outcome, at, who, mishaps, contended>>

Ensuring == {"addBridge", "addAddress", "linkUp", "checkNat", "addMasquerade", "addDrop"}
Removing == {"linkDown", "linkDelete", "delMasquerade", "delDrop", "write"}
Destroying == {"powerOff", "deleteTap", "commit", "commitVm"}
Forwarding == {"prerouting", "output", "accept"}
NetPoints == {"idle", "show", "allocate", "addTap", "record"}
            \cup Ensuring \cup Destroying \cup Removing \cup Forwarding

(* A status is running or any other: stopped, failed, unknown.             *)
HasRecord == {"running", "stopped"}

HostNetTypeOK ==
  /\ bridge \in [there : BOOLEAN, addr : BOOLEAN, up : BOOLEAN]
  /\ masquerade \in Nat
  /\ chain \in Seq({Drop} \cup {Accept(o) : o \in Octet})
  /\ dnat \subseteq Id \X Octet
  /\ ports \subseteq Id
  /\ pool \in NetworkState
  /\ record \in [Id -> {"unborn", "creating", "gone"} \cup HasRecord]
  /\ ip \in [Id -> Octet \cup {NoIp}]
  /\ store \in Invocation \cup {NoOne}
  /\ outcome \in {"stopped", "gone"}
  /\ at \in [Invocation -> NetPoints]
  /\ who \in [Invocation -> Id \cup {NoId}]
  /\ mishaps \in Nat /\ contended \in BOOLEAN

HostNetInit ==
  /\ bridge = NoBridge
  /\ masquerade = 0
  /\ chain = <<>>
  /\ dnat = {}
  /\ ports = {}
  /\ pool = EmptyNetwork
  /\ record = [i \in Id |-> "unborn"]
  /\ ip = [i \in Id |-> NoIp]
  /\ store = NoOne /\ outcome = "gone"
  /\ at = [p \in Invocation |-> "idle"]
  /\ who = [p \in Invocation |-> NoId]
  /\ mishaps = 0 /\ contended = FALSE

(* p is at a and goes on to b, for the same machine.                       *)
Goes(p, a, b) ==
  /\ at[p] = a
  /\ at' = [at EXCEPT ![p] = b]
  /\ UNCHANGED <<who, mishaps>>

Returns(p) ==
  /\ at' = [at EXCEPT ![p] = "idle"]
  /\ who' = [who EXCEPT ![p] = NoId]
  /\ UNCHANGED mishaps

StateFile == <<pool, record, ip, store, outcome>>
Rules == <<masquerade, chain, dnat>>

-----------------------------------------------------------------------------
(* create, as far as the network is concerned: --network nat or none       *)

CreateMachine(p, i) ==
  /\ at[p] = "idle" /\ record[i] = "unborn"
  /\ \E first \in {"show", "record"} : at' = [at EXCEPT ![p] = first]
  /\ who' = [who EXCEPT ![p] = i]
  /\ record' = [record EXCEPT ![i] = "creating"]
  /\ UNCHANGED <<bridge, Rules, ports, pool, ip, store, outcome, mishaps>>

(* `ip link show`: a bridge that exists is taken as complete.              *)
ShowBridge(p) ==
  /\ Goes(p, "show", IF bridge.there THEN "checkNat" ELSE "addBridge")
  /\ UNCHANGED <<bridge, Rules, ports, StateFile>>

(* Mutant: the new bridge is brought up without its address.               *)
AddBridgeBare(p) ==
  /\ Goes(p, "addBridge", "linkUp")
  /\ bridge' = IF bridge.there THEN bridge ELSE [NoBridge EXCEPT !.there = TRUE]
  /\ UNCHANGED <<Rules, ports, StateFile>>

(* The exit status of the three is not looked at: `link add` does nothing  *)
(* to a bridge that is there, the other two nothing when none is.          *)
AddBridge(p) ==
  /\ Goes(p, "addBridge", "addAddress")
  /\ bridge' = IF bridge.there THEN bridge ELSE [NoBridge EXCEPT !.there = TRUE]
  /\ UNCHANGED <<Rules, ports, StateFile>>

AddAddress(p) ==
  /\ Goes(p, "addAddress", "linkUp")
  /\ bridge' = [bridge EXCEPT !.addr = bridge.there]
  /\ UNCHANGED <<Rules, ports, StateFile>>

LinkUp(p) ==
  /\ Goes(p, "linkUp", "checkNat")
  /\ bridge' = [bridge EXCEPT !.up = bridge.there]
  /\ UNCHANGED <<Rules, ports, StateFile>>

(* `iptables -C`: the masquerade rule stands for both rules.               *)
CheckNat(p) ==
  /\ Goes(p, "checkNat", IF masquerade > 0 THEN "allocate" ELSE "addMasquerade")
  /\ UNCHANGED <<bridge, Rules, ports, StateFile>>

AddMasquerade(p) ==
  /\ Goes(p, "addMasquerade", "addDrop")
  /\ masquerade' = masquerade + 1
  /\ UNCHANGED <<bridge, chain, dnat, ports, StateFile>>

(* Mutant: the rule is appended.                                           *)
AppendDrop(p) ==
  /\ Goes(p, "addDrop", "allocate")
  /\ chain' = Append(chain, Drop)
  /\ UNCHANGED <<bridge, masquerade, dnat, ports, StateFile>>

AddDrop(p) ==
  /\ Goes(p, "addDrop", "allocate")
  /\ chain' = <<Drop>> \o chain
  /\ UNCHANGED <<bridge, masquerade, dnat, ports, StateFile>>

(* The address; an exhausted pool is an error of create.                   *)
AllocateIp(p) ==
  /\ at[p] = "allocate" /\ store = NoOne
  /\ IF PoolExhausted(pool)
       THEN Returns(p) /\ UNCHANGED <<pool, ip>>
       ELSE /\ Goes(p, "allocate", "addTap")
            /\ pool' = Allocate(pool, who[p])
            /\ ip' = [ip EXCEPT ![who[p]] = NextFree(pool)]
  /\ UNCHANGED <<bridge, Rules, ports, record, store, outcome>>

(* create_tap, or systemd-nspawn's --network-bridge: the interface becomes *)
(* a port of the bridge. Without one a tap is a port of none, but nspawn   *)
(* does not start the container, and its create fails.                     *)
AddTap(p) ==
  /\ \/ /\ bridge.there /\ Goes(p, "addTap", "record")
        /\ ports' = ports \cup {who[p]}
     \/ /\ ~bridge.there /\ who[p] \in Virtual /\ Goes(p, "addTap", "record")
        /\ UNCHANGED ports
     \/ /\ ~bridge.there /\ who[p] \notin Virtual /\ at[p] = "addTap" /\ Returns(p)
        /\ UNCHANGED ports
  /\ UNCHANGED <<bridge, Rules, StateFile>>

(* Mutant: the record is made while a destroy holds the lock.              *)
RecordUnlocked(p) ==
  /\ at[p] = "record"
  /\ record' = [record EXCEPT ![who[p]] = "running"]
  /\ Returns(p)
  /\ UNCHANGED <<bridge, Rules, ports, pool, ip, store, outcome>>

RecordMachine(p) ==
  /\ at[p] = "record" /\ store = NoOne
  /\ record' = [record EXCEPT ![who[p]] = "running"]
  /\ Returns(p)
  /\ UNCHANGED <<bridge, Rules, ports, pool, ip, store, outcome>>
-----------------------------------------------------------------------------
(* What becomes of a recorded machine                                      *)

Recorded(i) == record[i] \in HasRecord

(* A container stops by itself, and its interface goes; the tap of a       *)
(* virtual machine stays.                                                  *)
GuestExits(i) ==
  /\ i \in ports \ Virtual
  /\ ports' = ports \ {i}
  /\ UNCHANGED <<bridge, Rules, StateFile, at, who, mishaps>>

(* The reconcile of a list or an exec writes what it took the machine for, *)
(* which may be no longer true, also over the mark of a failed destroy.    *)
Reconcile(p, i) ==
  /\ at[p] = "idle" /\ store = NoOne /\ Recorded(i)
  /\ \E status \in HasRecord : record' = [record EXCEPT ![i] = status]
  /\ UNCHANGED <<bridge, Rules, ports, pool, ip, store, outcome, at, who, mishaps>>

(* destroy, of the machine's backend or, by --all, of nspawn for all.      *)
DestroyMachine(p, i) ==
  /\ at[p] = "idle" /\ store = NoOne /\ Recorded(i)
  /\ \/ at' = [at EXCEPT ![p] = "powerOff"]
     \/ i \in Virtual /\ at' = [at EXCEPT ![p] = "deleteTap"]
  /\ who' = [who EXCEPT ![p] = i]
  /\ UNCHANGED <<bridge, Rules, ports, StateFile, mishaps>>

(* A container that can be stopped takes its interface along; nspawn knows *)
(* nothing of the tap of a virtual machine.                                *)
PowerOff(p) ==
  /\ Goes(p, "powerOff", "commit")
  /\ \/ who[p] \notin Virtual /\ ports' = ports \ {who[p]}
     \/ UNCHANGED ports
  /\ UNCHANGED <<bridge, Rules, StateFile>>

DeleteTap(p) ==
  /\ Goes(p, "deleteTap", "commitVm")
  /\ ports' = ports \ {who[p]}
  /\ UNCHANGED <<bridge, Rules, StateFile>>

OtherRecords(i) == {j \in Id : Recorded(j)} \ {i}
RunningOthers(i) == {j \in OtherRecords(i) : record[j] = "running"}

(* What a closure makes of the record of i, if another destroy has not     *)
(* removed it already.                                                     *)
Forget(i) ==
  /\ record' = [record EXCEPT ![i] = "gone"]
  /\ pool' = IF ip[i] = NoIp THEN pool ELSE Release(pool, ip[i])
  /\ ip' = [ip EXCEPT ![i] = NoIp]

Mark(i) ==
  /\ record' = [record EXCEPT ![i] = "stopped"]
  /\ UNCHANGED <<pool, ip>>

Settle(i, end) ==
  \/ Recorded(i) /\ end = "gone" /\ Forget(i)
  \/ Recorded(i) /\ end = "stopped" /\ Mark(i)
  \/ ~Recorded(i) /\ UNCHANGED <<record, pool, ip>>

(* The closure writes the state at once, or takes the network along first, *)
(* with the lock held all the while.                                       *)
Closure(p, end, last) ==
  /\ store = NoOne
  /\ \/ /\ ~last /\ Settle(who[p], end)
        /\ Returns(p) /\ UNCHANGED <<store, outcome>>
     \/ /\ last /\ store' = p /\ outcome' = end
        /\ at' = [at EXCEPT ![p] = "linkDown"]
        /\ UNCHANGED <<pool, record, ip, who, mishaps>>
  /\ UNCHANGED <<bridge, Rules, ports>>

(* nspawn keeps the record, as failed, of a machine whose directory is not *)
(* removed. When no other is running the network goes.                     *)
DestroyCommit(p) ==
  /\ at[p] = "commit"
  /\ \E end \in {"stopped", "gone"} : Closure(p, end, RunningOthers(who[p]) = {})

(* Firecracker's destroy takes the network along when it leaves no record. *)
DestroyVmCommit(p) ==
  /\ at[p] = "commitVm"
  /\ Closure(p, "gone", OtherRecords(who[p]) = {})

LinkDown(p) ==
  /\ Goes(p, "linkDown", "linkDelete")
  /\ bridge' = [bridge EXCEPT !.up = FALSE]
  /\ UNCHANGED <<Rules, ports, StateFile>>

(* Mutant: the bridge is only brought down.                                *)
LinkKept(p) ==
  /\ Goes(p, "linkDelete", "delMasquerade")
  /\ UNCHANGED <<bridge, ports, Rules, StateFile>>

LinkDelete(p) ==
  /\ Goes(p, "linkDelete", "delMasquerade")
  /\ bridge' = NoBridge
  /\ ports' = {}
  /\ UNCHANGED <<Rules, StateFile>>

(* `iptables -D` deletes one rule, the first that matches.                 *)
DelMasquerade(p) ==
  /\ Goes(p, "delMasquerade", "delDrop")
  /\ masquerade' = IF masquerade > 0 THEN masquerade - 1 ELSE 0
  /\ UNCHANGED <<bridge, chain, dnat, ports, StateFile>>

(* Mutant: only the masquerade rule is deleted.                            *)
DropKept(p) ==
  /\ Goes(p, "delDrop", "write")
  /\ UNCHANGED <<bridge, Rules, ports, StateFile>>

DelDrop(p) ==
  /\ Goes(p, "delDrop", "write")
  /\ chain' = RemoveFirst(chain, Drop)
  /\ UNCHANGED <<bridge, masquerade, dnat, ports, StateFile>>

WriteRemoval(p) ==
  /\ at[p] = "write"
  /\ Settle(who[p], outcome)
  /\ store' = NoOne /\ outcome' = "gone"
  /\ Returns(p)
  /\ UNCHANGED <<bridge, Rules, ports>>
-----------------------------------------------------------------------------
(* port-forward: the address is read, then three rules are added. The ones *)
(* of PREROUTING and OUTPUT send the port to the address.                  *)

(* Mutant: the address is not looked up among the live ones.               *)
ReadIpOfAny(p, i) ==
  /\ at[p] = "idle" /\ record[i] = "running" /\ store = NoOne
  /\ Cardinality(dnat) < MaxForwards
  /\ dnat' = dnat \cup {<<i, ip[i]>>}
  /\ at' = [at EXCEPT ![p] = "prerouting"]
  /\ who' = [who EXCEPT ![p] = i]
  /\ UNCHANGED <<bridge, masquerade, chain, ports, StateFile, mishaps>>

ReadIp(p, i) ==
  /\ at[p] = "idle" /\ record[i] = "running" /\ store = NoOne
  /\ ip[i] # NoIp /\ Cardinality(dnat) < MaxForwards
  /\ dnat' = dnat \cup {<<i, ip[i]>>}
  /\ at' = [at EXCEPT ![p] = "prerouting"]
  /\ who' = [who EXCEPT ![p] = i]
  /\ UNCHANGED <<bridge, masquerade, chain, ports, StateFile, mishaps>>

(* The rule for locally originated traffic only follows if the one before  *)
(* could be added; the ACCEPT comes in any case.                           *)
AddPrerouting(p) ==
  /\ \/ Goes(p, "prerouting", "output")
     \/ Goes(p, "prerouting", "accept")
  /\ UNCHANGED <<bridge, Rules, ports, StateFile>>

AddOutput(p) ==
  /\ Goes(p, "output", "accept")
  /\ UNCHANGED <<bridge, Rules, ports, StateFile>>

AddAccept(p) ==
  /\ at[p] = "accept"
  /\ \E o \in Octet :
       <<who[p], o>> \in dnat /\ chain' = Append(chain, Accept(o))
  /\ Returns(p)
  /\ UNCHANGED <<bridge, masquerade, dnat, ports, StateFile>>
-----------------------------------------------------------------------------
(* The invocation is killed between two commands, or cannot start one of a *)
(* create, which ends it. With it goes the lock; what the closure had in   *)
(* mind is not written.                                                    *)
KilledBetween(p) ==
  /\ at[p] # "idle" /\ mishaps < MaxMishaps
  /\ at' = [at EXCEPT ![p] = "idle"]
  /\ who' = [who EXCEPT ![p] = NoId]
  /\ store' = IF store = p THEN NoOne ELSE store
  /\ outcome' = IF store = p THEN "gone" ELSE outcome
  /\ mishaps' = mishaps + 1
  /\ UNCHANGED <<bridge, Rules, ports, pool, record, ip>>

(* Where a command that has no effect leads to, as nobody looks at its     *)
(* result: the next one. `show` and `-C` then find nothing, and `link      *)
(* delete` is left out when `link set` cannot be started.                  *)
Onward ==
  {<<"show", "addBridge">>, <<"addBridge", "addAddress">>, <<"addAddress", "linkUp">>,
   <<"linkUp", "checkNat">>, <<"checkNat", "addMasquerade">>, <<"addMasquerade", "addDrop">>,
   <<"addDrop", "allocate">>, <<"deleteTap", "commitVm">>,
   <<"linkDown", "linkDelete">>, <<"linkDown", "delMasquerade">>,
   <<"linkDelete", "delMasquerade">>, <<"delMasquerade", "delDrop">>, <<"delDrop", "write">>}

CommandFails(p) ==
  /\ mishaps < MaxMishaps
  /\ \/ /\ \E b \in NetPoints : <<at[p], b>> \in Onward /\ at' = [at EXCEPT ![p] = b]
        /\ UNCHANGED who
     \/ /\ at[p] = "addTap" /\ who[p] \in Virtual /\ at' = [at EXCEPT ![p] = "record"]
        /\ UNCHANGED who
     \/ /\ at[p] = "accept" /\ at' = [at EXCEPT ![p] = "idle"]
        /\ who' = [who EXCEPT ![p] = NoId]
  /\ mishaps' = mishaps + 1
  /\ UNCHANGED <<bridge, Rules, ports, StateFile>>

HostNetStep(p) ==
  \/ \E i \in Id :
       CreateMachine(p, i) \/ Reconcile(p, i) \/ DestroyMachine(p, i) \/ ReadIp(p, i)
  \/ ShowBridge(p) \/ AddBridge(p) \/ AddAddress(p) \/ LinkUp(p)
  \/ CheckNat(p) \/ AddMasquerade(p) \/ AddDrop(p)
  \/ AllocateIp(p) \/ AddTap(p) \/ RecordMachine(p)
  \/ PowerOff(p) \/ DeleteTap(p) \/ DestroyCommit(p) \/ DestroyVmCommit(p)
  \/ LinkDown(p) \/ LinkDelete(p) \/ DelMasquerade(p) \/ DelDrop(p) \/ WriteRemoval(p)
  \/ AddPrerouting(p) \/ AddOutput(p) \/ AddAccept(p)

(* Two invocations are at the rules, one of them to add some: neither -C   *)
(* nor -D, which speaks of one rule, is made for that.                     *)
RulesContended ==
  \E p, q \in Invocation :
    /\ p # q /\ at[p] \in {"addMasquerade", "addDrop"}
    /\ at[q] \in {"addMasquerade", "addDrop", "delMasquerade", "delDrop"}

NetUndisturbed ==
  /\ (\E p \in Invocation : HostNetStep(p)) \/ (\E i \in Id : GuestExits(i))
  /\ contended' = (contended \/ mishaps' > 0 \/ RulesContended')

NetDisturbed ==
  /\ \E p \in Invocation : KilledBetween(p) \/ CommandFails(p)
  /\ contended' = (contended \/ mishaps' > 0 \/ RulesContended')

HostNetNext == NetUndisturbed \/ NetDisturbed

HostNetSpec == HostNetInit /\ [][HostNetNext]_netVars

(* The same without kills and failing commands.                            *)
UndisturbedHostNetSpec == HostNetInit /\ [][NetUndisturbed]_netVars
-----------------------------------------------------------------------------
(* The inductive invariant                                                 *)

Creating == Ensuring \cup {"show", "allocate", "addTap", "record"}

(* A create has a machine of its own, a destroy one that has or had a      *)
(* record. One that takes the network along holds the lock, and no other   *)
(* machine is recorded as running.                                         *)
PlacesFit ==
  /\ \A p \in Invocation : at[p] # "idle" => who[p] \in Id
  /\ \A p \in Invocation : at[p] \in Creating => record[who[p]] = "creating"
  /\ \A p, q \in Invocation : at[p] \in Creating /\ at[q] \in Creating /\ who[p] = who[q] => p = q
  /\ \A p \in Invocation :
       at[p] \in Destroying \cup Removing => record[who[p]] \in HasRecord \cup {"gone"}
  /\ \A p \in Invocation :
       at[p] \in Removing => store = p /\ RunningOthers(who[p]) = {}

(* next_octet is past every address in use and every one a forward leads   *)
(* to, so that none of them is given out again.                            *)
AddressesFit ==
  /\ \A i \in Id : ip[i] # NoIp => ip[i] < pool.next
  /\ \A f \in dnat : f[2] < pool.next
  /\ \A i, j \in Id : ip[i] # NoIp /\ ip[i] = ip[j] => i = j

(* An address is a machine's own as long as the pool keeps it for it, and  *)
(* the machine has it from its create to its destroy.                      *)
PoolFits ==
  /\ \A i \in Id, o \in Octet : pool.alloc[o] = i <=> ip[i] = o
  /\ \A i \in Id : record[i] \in {"unborn", "gone"} => ip[i] = NoIp
  /\ \A p \in Invocation :
       at[p] \in Ensuring \cup {"show", "allocate"} => ip[who[p]] = NoIp

(* What a bridge lacks, somebody is on the way to give it or to remove it. *)
BridgeFits ==
  mishaps > 0 \/ (bridge.there =>
    /\ bridge.addr \/ \E p \in Invocation : at[p] = "addAddress"
    /\ bridge.up \/ \E p \in Invocation : at[p] \in {"addAddress", "linkUp", "linkDelete"})

(* The bridge has a machine that will have it removed: one that is being   *)
(* created, or one recorded whose destroy has not deleted it yet.          *)
RemovalIsDue ==
  \/ mishaps > 0
  \/ ~bridge.there /\ ports = {}
  \/ \E i \in Id : record[i] = "creating"
  \/ \E i \in Id : /\ Recorded(i)
                   /\ \A p \in Invocation :
                        at[p] \in {"delMasquerade", "delDrop", "write"} => who[p] # i

NoDrop == \A k \in DOMAIN chain : chain[k] # Drop

(* As long as nobody was in anybody's way the two rules are there together *)
(* and once, but for the one who is between its two commands.              *)
RulesFit ==
  contended \/
    /\ ~RulesContended
    /\ masquerade <= 1 /\ \A k \in DOMAIN chain : chain[k] = Drop => k = 1
    /\ \A p \in Invocation :
         /\ at[p] = "addMasquerade" => masquerade = 0 /\ NoDrop
         /\ at[p] = "addDrop" => masquerade = 1 /\ NoDrop
         /\ at[p] = "delDrop" => masquerade = 0
    /\ (\A p \in Invocation : at[p] \notin {"addDrop", "delDrop"}) => (masquerade = 0 <=> NoDrop)

(* Rules have a machine that will have them removed, as a bridge has.      *)
RulesAreDue ==
  \/ contended
  \/ masquerade = 0 /\ NoDrop
  \/ \E i \in Id : record[i] = "creating"
  \/ \E i \in Id : Recorded(i) /\ \A p \in Invocation : at[p] = "write" => who[p] # i

-----------------------------------------------------------------------------
(* A bridge that lacks its address or is down has somebody at work on it,  *)
(* unless somebody was killed or had a command fail: ensure_bridge may     *)
(* take a bridge that exists as complete (bridge.rs:14) because its maker  *)
(* will complete it, also when a destroy removes a bridge and another      *)
(* create adds the next one in the midst of it.                            *)
HalfBridgeIsAttended ==
  \/ mishaps > 0
  \/ bridge.there /\ ~(bridge.addr /\ bridge.up) =>
       \E p \in Invocation : at[p] \in {"addAddress", "linkUp", "linkDelete"}

(* With no command running and no machine recorded the bridge is gone and  *)
(* no interface is left on it, unless a create failed, somebody was killed *)
(* or had a command fail: of creates and destroys in any order the last    *)
(* one out removes the bridge that any of them set up.                     *)
LastOneOutRemovesBridge ==
  \/ mishaps > 0
  \/ \E i \in Id : record[i] = "creating" \/ Recorded(i)
  \/ ~bridge.there /\ ports = {}

(* Nor does a rule stay, unless also two invocations were at the rules at  *)
(* once: two creates that both find none add each of them twice, and the   *)
(* last destroy deletes one (nat.rs:15-47).                                *)
LastOneOutRemovesRules ==
  \/ contended
  \/ \E i \in Id : record[i] = "creating" \/ Recorded(i)
  \/ masquerade = 0 /\ NoDrop

(* A port forward never leads to another machine than the one it was made  *)
(* for. No destroy removes its rules, so this rests on the pool, which     *)
(* gives no address out twice.                                             *)
ForwardsStayTheirs ==
  \A f \in dnat, i \in Id : ip[i] = f[2] => i = f[1]

(* Every ACCEPT of a port forward comes after every DROP between sandboxes *)
(* in the FORWARD chain, in whatever order creates, destroys and forwards  *)
(* edit it: a forward opens no sandbox to the other sandboxes.             *)
DropComesFirst ==
  \A j, k \in DOMAIN chain : j < k /\ chain[k] = Drop => chain[j] = Drop

(* The properties above are proved from this: every command of every       *)
(* create, destroy and forward keeps it, whatever fails or is killed in    *)
(* between.                                                                *)
HostNetInv ==
  HostNetTypeOK /\ PlacesFit /\ AddressesFit /\ PoolFits /\ BridgeFits /\ RemovalIsDue
    /\ RulesFit /\ RulesAreDue /\ ForwardsStayTheirs /\ DropComesFirst

(* docs.md:942, "Sandboxes cannot reach each other (iptables FORWARD       *)
(* DROP)": two recorded machines on the bridge, and nobody just adding or  *)
(* removing rules, have the DROP rule between them.                        *)
SandboxesAreSeparated ==
  LET settled == \A p \in Invocation : at[p] \notin Ensuring \cup Removing
      reachable == {i \in ports : Recorded(i)}
  IN settled /\ Cardinality(reachable) > 1 => Contains(chain, Drop)
-----------------------------------------------------------------------------
(* A create that nobody is at any more failed or was killed.               *)
BeingMade(i) == \E p \in Invocation : at[p] \in Creating /\ who[p] = i

Stands(i) ==
  IF record[i] = "creating" THEN IF BeingMade(i) THEN "underway" ELSE "gone" ELSE record[i]

NamedAddress(i) == IF Recorded(i) THEN ip[i] ELSE NoIp

Machines == INSTANCE Registry WITH
  Address <- Octet,
  Status <- HasRecord,
  machine <- [i \in Id |-> Stands(i)],
  address <- [i \in Id |-> NamedAddress(i)],
  owner <- pool.alloc,
  granted <- {o \in Octet : o < pool.next}

(* The creates and destroys here, which have of a machine only what the    *)
(* network is about, do to machines and addresses what those of Sandboxes  *)
(* do, so that both modules speak of the same host.                        *)
NetworkKeepsRegistry == Machines!Spec
=============================================================================
