------------------------------ MODULE Sandboxes ------------------------------
(***************************************************************************)
(* What CLI invocations share and keep: the machine table and address pool *)
(* of state.json, the host's directories, guests and bridge, and, for      *)
(* each running invocation, where it stands.  Runtimes add their actions.  *)
(*                                                                         *)
(* Every access to machines and net is one step: with_lock and             *)
(* with_read_lock are atomic (StateStore implements AtomicStore).          *)
(***************************************************************************)
EXTENDS Ipam

CONSTANTS
  Proc,      \* CLI invocations that run at the same time
  Absent     \* there is no record of the machine

VARIABLES
  machines,  \* machines[id]: its record in state.json
  net,       \* NetworkState of state.json
  fresh,     \* ids generate_id has not drawn; two draws of a u32 are taken to differ
  lost,      \* history: ids whose create ended without a record
  dirs,      \* ids with a directory under /var/lib/clawstainer/machines
  guest,     \* guest[id]: the sandbox itself, as systemd sees it
  guestIp,   \* guestIp[id]: the address configured inside it
  bridge,    \* claw-br0 is there; the iptables rules are HostNet's
  pc,        \* pc[p]: where invocation p stands
  job        \* job[p]: its locals

shared == <<machines, net, fresh, lost, dirs, guest, guestIp, bridge>>
vars == <<machines, net, fresh, lost, dirs, guest, guestIp, bridge, pc, job>>

Status == {"running", "closing", "stopped", "failed"}
(* The pid create records is its child's; the one status reports is the    *)
(* leader's.                                                               *)
Pid == {"child", "leader", "none"}
View == [status : Status, pid : Pid]
Machine == [status : Status, pid : Pid, ip : Octet \cup {NoIp}, timer : BOOLEAN]

ASSUME AbsentAssumption == Absent \notin Machine

Job == [id : Id \cup {NoId}, ip : Octet \cup {NoIp}, nat : BOOLEAN,
        timer : BOOLEAN, cleanupFailed : BOOLEAN, live : View]

NoJob == [id |-> NoId, ip |-> NoIp, nat |-> FALSE, timer |-> FALSE,
          cleanupFailed |-> FALSE, live |-> [status |-> "stopped", pid |-> "none"]]

Recorded(id) == machines[id] # Absent
HasIp(id) == Recorded(id) /\ machines[id].ip # NoIp

(* s.machines.values().any(|m| m.status == "running"), once record id is   *)
(* set to m or removed.                                                    *)
AnyRunning(table) == \E id \in Id : table[id] # Absent /\ table[id].status = "running"

(* The points of a create (only a firecracker one passes "tapped" and      *)
(* "booted") and of a destroy, between its steps.                          *)
Creating == {"prepared", "networked", "allocated", "tapped", "spawned",
             "booted", "configured"}
Destroying == {"destroy", "poweredOff", "terminated", "removing", "tornDown"}
Points == {"idle", "reconcile", "update", "created"} \cup Creating \cup Destroying

(* The create in flight of machine id, between its image and its record.   *)
BeingCreated(id) == \E p \in Proc : pc[p] \in Creating /\ job[p].id = id

Goto(p, from, to) ==
  /\ pc[p] = from
  /\ pc' = [pc EXCEPT ![p] = to]

Finish(p) ==
  /\ pc' = [pc EXCEPT ![p] = "idle"]
  /\ job' = [job EXCEPT ![p] = NoJob]

Init ==
  /\ machines = [id \in Id |-> Absent]
  /\ net = EmptyNetwork
  /\ fresh = Id
  /\ lost = {}
  /\ dirs = {}
  /\ guest = [id \in Id |-> "none"]
  /\ guestIp = [id \in Id |-> NoIp]
  /\ bridge = FALSE
  /\ pc = [p \in Proc |-> "idle"]
  /\ job = [p \in Proc |-> NoJob]

-----------------------------------------------------------------------------
(* reconcile_machine (state/mod.rs:152-169), as list, exec, shell, stats   *)
(* and port-forward call it: a read, a question to the runtime and a       *)
(* write, each on its own.                                                 *)
ReconcileRead(p, id) ==
  /\ Recorded(id)
  /\ machines[id].status = "running"
  /\ Goto(p, "idle", "reconcile")
  /\ job' = [job EXCEPT ![p] = [NoJob EXCEPT !.id = id,
       !.live = [status |-> machines[id].status, pid |-> machines[id].pid]]]
  /\ UNCHANGED shared

(* live is what the runtime's status answers; the same view ends it.       *)
ReconcileCompare(p, live) ==
  /\ pc[p] = "reconcile"
  /\ IF live = job[p].live
     THEN Finish(p)
     ELSE /\ pc' = [pc EXCEPT ![p] = "update"]
          /\ job' = [job EXCEPT ![p].live = live]
  /\ UNCHANGED shared

(* Mutant: the record is inserted when it is missing.                      *)
UpsertStatus(p) ==
  /\ pc[p] = "update"
  /\ machines' = [machines EXCEPT ![job[p].id] =
       IF @ = Absent
       THEN [status |-> job[p].live.status, pid |-> job[p].live.pid, ip |-> NoIp,
             timer |-> FALSE]
       ELSE [@ EXCEPT !.status = job[p].live.status, !.pid = job[p].live.pid]]
  /\ Finish(p)
  /\ UNCHANGED <<net, fresh, lost, dirs, guest, guestIp, bridge>>

(* update_machine_status (194-209).  No machine: an error, and no write.   *)
UpdateStatus(p) ==
  /\ pc[p] = "update"
  /\ machines' = IF Recorded(job[p].id)
                 THEN [machines EXCEPT ![job[p].id] =
                        [@ EXCEPT !.status = job[p].live.status, !.pid = job[p].live.pid]]
                 ELSE machines
  /\ Finish(p)
  /\ UNCHANGED <<net, fresh, lost, dirs, guest, guestIp, bridge>>

-----------------------------------------------------------------------------
(* What both runtimes' create and destroy do through the store.            *)

(* generate_id, and overlay::setup or rootfs::create_vm_rootfs: the        *)
(* directory is there once it ends or fails.                               *)
PrepareImage(p, id, nat, timer) ==
  /\ id \in fresh
  /\ Goto(p, "idle", "prepared")
  /\ job' = [job EXCEPT ![p] = [NoJob EXCEPT !.id = id, !.nat = nat, !.timer = timer]]
  /\ fresh' = fresh \ {id}
  /\ dirs' = dirs \cup {id}
  /\ UNCHANGED <<machines, net, lost, guest, guestIp, bridge>>

(* ensure_bridge, if the network is "nat": it is there from here on,       *)
(* whoever made it. HostNet has its commands, those of ensure_nat and the  *)
(* ones that fail.                                                         *)
EnsureBridge(p) ==
  /\ job[p].nat
  /\ Goto(p, "prepared", "networked")
  /\ bridge' = TRUE
  /\ UNCHANGED <<machines, net, fresh, lost, dirs, guest, guestIp, job>>

(* The IP allocation of create: a with_lock of its own.                    *)
AllocateAddress(p) ==
  /\ Goto(p, "networked", "allocated")
  /\ ~PoolExhausted(net)
  /\ net' = Allocate(net, job[p].id)
  /\ job' = [job EXCEPT ![p].ip = NextFree(net)]
  /\ UNCHANGED <<machines, fresh, lost, dirs, guest, guestIp, bridge>>

(* The insertion of the record: another one.  The timer thread lives as    *)
(* long as the process, which is about to exit.                            *)
Record(p) ==
  /\ pc[p] = "configured"
  /\ machines' = [machines EXCEPT ![job[p].id] =
       [status |-> "running", pid |-> "child", ip |-> job[p].ip,
        timer |-> job[p].timer]]
  /\ IF job[p].timer
     THEN pc' = [pc EXCEPT ![p] = "created"] /\ UNCHANGED job
     ELSE Finish(p)
  /\ UNCHANGED <<net, fresh, lost, dirs, guest, guestIp, bridge>>

(* An error at any step of create, or a kill: all that was done stays done. *)
CreateFails(p) ==
  /\ pc[p] \in Creating
  /\ lost' = lost \cup {job[p].id}
  /\ Finish(p)
  /\ UNCHANGED <<machines, net, fresh, dirs, guest, guestIp, bridge>>

(* main returns, and the timer thread dies with the process.               *)
ExitAfterCreate(p) ==
  /\ pc[p] = "created"
  /\ Finish(p)
  /\ UNCHANGED shared

(* destroy reads the record, and all it may need of it is a pid;           *)
(* MachineNotFound ends it.                                                *)
DestroyRead(p, id, from, pid) ==
  /\ Goto(p, from, "destroy")
  /\ Recorded(id)
  /\ job' = [job EXCEPT ![p] = [NoJob EXCEPT !.id = id, !.live.pid = pid]]
  /\ UNCHANGED shared

(* A kill, or an error, anywhere else.                                     *)
Killed(p) ==
  /\ pc[p] \in {"reconcile", "update"} \cup Destroying
  /\ Finish(p)
  /\ UNCHANGED shared

-----------------------------------------------------------------------------
(* The types of the state file, the host and the invocations.              *)
TypeOK ==
  /\ machines \in [Id -> Machine \cup {Absent}]
  /\ net \in NetworkState
  /\ fresh \in SUBSET Id
  /\ lost \in SUBSET Id
  /\ dirs \in SUBSET Id
  /\ guest \in [Id -> {"none", "running", "closing"}]
  /\ guestIp \in [Id -> Octet \cup {NoIp}]
  /\ bridge \in BOOLEAN
  /\ pc \in [Proc -> Points]
  /\ job \in [Proc -> Job]

(* Who has an address: the pool's owner, the record, the guest itself and  *)
(* the create that is on its way to record it.                             *)
HoldsAddress(id, o) ==
  \/ net.alloc[o] = id
  \/ Recorded(id) /\ machines[id].ip = o
  \/ guestIp[id] = o
  \/ \E p \in Proc : pc[p] \in Creating /\ job[p].id = id /\ job[p].ip = o

(* No two sandboxes ever have one address, not even when one is a guest    *)
(* that outlived its destroy (its errors are ignored, nspawn.rs:372-374)   *)
(* or the failed create that started it, and whose address went back to    *)
(* the pool.                                                               *)
NoSharedAddress ==
  \A o \in Octet, i, j \in Id : HoldsAddress(i, o) /\ HoldsAddress(j, o) => i = j

(* next_octet is past every address anyone has.                            *)
NextIsPastAll == \A o \in Octet, id \in Id : HoldsAddress(id, o) => o < net.next

(* A recorded address stays allocated to its machine, through concurrent   *)
(* destroys of it and of others, until the record goes; and so does the    *)
(* address of a create between its two transactions.                       *)
RecordOwnsAddress ==
  /\ \A id \in Id : HasIp(id) => net.alloc[machines[id].ip] = id
  /\ \A p \in Proc :
       pc[p] \in Creating /\ job[p].ip # NoIp => net.alloc[job[p].ip] = job[p].id

(* One create works on an id, and nothing else knows the id before.        *)
CreateOwnsId ==
  /\ \A p, q \in Proc :
       pc[p] \in Creating /\ pc[q] \in Creating /\ job[p].id = job[q].id => p = q
  /\ \A p \in Proc : pc[p] \in Creating => ~Recorded(job[p].id)
  /\ \A p \in Proc : pc[p] # "idle" => job[p].id \in Id \ fresh
  /\ \A id \in fresh : ~Recorded(id)

(* With the last record gone and no create under way or failed, the bridge *)
(* is gone too (docs.md:479), whichever destroys and kills came together.  *)
BridgeCleanedUp ==
  (\A id \in Id : ~Recorded(id) /\ ~BeingCreated(id)) /\ lost = {} => ~bridge

(* A destroyed machine does not come back: a reconcile that read its       *)
(* record before the destroy must not write it again after.                *)
NoResurrection ==
  [][\A id \in Id :
       id \notin fresh /\ ~Recorded(id) /\ ~BeingCreated(id) => ~Recorded(id)']_vars

-----------------------------------------------------------------------------
(* A create that failed is over for good: its id has no record and never   *)
(* will.                                                                   *)
LostIsOver == \A id \in lost : id \notin fresh /\ ~Recorded(id) /\ ~BeingCreated(id)

(* Where machine id stands for its user.                                   *)
Life(id) ==
  IF id \in fresh THEN "unborn"
  ELSE IF Recorded(id) THEN machines[id].status
  ELSE IF BeingCreated(id) THEN "underway"
  ELSE "gone"

RecordedAddress(id) == IF Recorded(id) THEN machines[id].ip ELSE NoIp

Machines == INSTANCE Registry WITH
  Address <- Octet,
  machine <- [id \in Id |-> Life(id)],
  address <- [id \in Id |-> RecordedAddress(id)],
  owner <- net.alloc,
  granted <- {o \in Octet : o < net.next}

(* All steps of all invocations, their kills and their failures together   *)
(* do to the machines and the address pool what Registry says and nothing  *)
(* else.                                                                   *)
MachinesComeAndGo == Machines!Spec

Lifetime(id) ==
  IF Life(id) \in {"unborn", "underway"} THEN "fresh"
  ELSE IF Life(id) = "gone" THEN "past"
  ELSE "present"

Lives == INSTANCE Lifetimes WITH life <- [id \in Id |-> Lifetime(id)]

(* A machine that is gone does not come back: the part of it that Fleet    *)
(* relies on.                                                              *)
MachinesLiveOnce == Lives!Spec
=============================================================================
