------------------------- MODULE FirecrackerRuntime -------------------------
(***************************************************************************)
(* The Firecracker backend, src/src/runtime/firecracker.rs: create,        *)
(* destroy and status of a virtual machine, which is a process of its own  *)
(* on the host, with an API socket in the machine's directory and a tap on *)
(* the bridge.  systemd knows nothing of it: its guest stays "none".       *)
(***************************************************************************)
EXTENDS Sandboxes

VARIABLES
  vmm,     \* vmm[id]: the firecracker process
  taps     \* ids whose tap device exists

vmVars == <<vmm, taps>>

(* A process binds its socket ("up") before it boots the guest.  It leaves *)
(* the socket file when it ends ("gone").                                  *)
VmmState == {"none", "starting", "up", "booted", "gone"}
VmAlive(id) == vmm[id] \in {"starting", "up", "booted"}
SocketExists(id) == id \in dirs /\ vmm[id] \in {"up", "booted", "gone"}

VmInit ==
  /\ vmm = [id \in Id |-> "none"]
  /\ taps = {}

EndVmm(id) ==
  /\ vmm' = [vmm EXCEPT ![id] = IF @ = "starting" THEN "none" ELSE "gone"]
  /\ guestIp' = [guestIp EXCEPT ![id] = NoIp]

-----------------------------------------------------------------------------
(* create_tap, after the address: it reports no failing command.           *)
CreateTap(p) ==
  /\ Goto(p, "allocated", "tapped")
  /\ taps' = taps \cup {job[p].id}
  /\ UNCHANGED <<shared, job, vmm>>

SpawnVmm(p) ==
  /\ \/ Goto(p, "tapped", "spawned")
     \/ ~job[p].nat /\ Goto(p, "prepared", "spawned")
  /\ vmm' = [vmm EXCEPT ![job[p].id] = "starting"]
  /\ UNCHANGED <<shared, job, taps>>

(* The process opens its API socket.                                       *)
BindSocket(id) ==
  /\ vmm[id] = "starting"
  /\ vmm' = [vmm EXCEPT ![id] = "up"]
  /\ UNCHANGED <<shared, pc, job, taps>>

(* The API answers, is told all about the machine, and starts it: the      *)
(* address is among its boot arguments.                                    *)
BootVm(p) ==
  /\ Goto(p, "spawned", "booted")
  /\ vmm[job[p].id] = "up"
  /\ vmm' = [vmm EXCEPT ![job[p].id] = "booted"]
  /\ guestIp' = [guestIp EXCEPT ![job[p].id] = job[p].ip]
  /\ UNCHANGED <<machines, net, fresh, lost, dirs, guest, bridge, job, taps>>

(* wait_for_agent has its answer.                                          *)
AgentReachable(p) ==
  /\ Goto(p, "booted", "configured")
  /\ vmm[job[p].id] = "booted"
  /\ UNCHANGED <<shared, job, vmVars>>

(* The errors that come by themselves: no address is left, and the         *)
(* timeouts on the socket and the agent.                                   *)
VmGivesUp(p) ==
  /\ \/ pc[p] = "networked" /\ PoolExhausted(net)
     \/ pc[p] = "spawned" /\ vmm[job[p].id] # "up"
     \/ pc[p] = "booted" /\ vmm[job[p].id] # "booted"
  /\ CreateFails(p)
  /\ UNCHANGED vmVars

-----------------------------------------------------------------------------
(* The record's pid is all the process is known by.                        *)
ReadVm(p, id, from) == DestroyRead(p, id, from, machines[id].pid)

(* The timer thread of a create.                                           *)
VmTimerFires(p) == ReadVm(p, job[p].id, "created")

(* SendCtrlAltDel, if there is a socket; the guest may obey, or not.       *)
AskToShutDown(p) ==
  /\ Goto(p, "destroy", IF SocketExists(job[p].id) THEN "poweredOff" ELSE "terminated")
  /\ UNCHANGED <<shared, job, vmVars>>

(* With a pid: wait 3 s, then kill -9.                                     *)
KillVmm(p) ==
  /\ Goto(p, "poweredOff", "terminated")
  /\ IF job[p].live.pid # "none" /\ VmAlive(job[p].id)
     THEN EndVmm(job[p].id)
     ELSE UNCHANGED <<vmm, guestIp>>
  /\ UNCHANGED <<machines, net, fresh, lost, dirs, guest, bridge, job, taps>>

DeleteTap(p) ==
  /\ Goto(p, "terminated", "removing")
  /\ taps' = taps \ {job[p].id}
  /\ UNCHANGED <<shared, job, vmm>>

(* cleanup_vm_rootfs, whose errors are ignored; the socket goes with the   *)
(* directory.                                                              *)
CleanupRootfs(p) ==
  /\ Goto(p, "removing", "tornDown")
  /\ dirs' \in {dirs, dirs \ {job[p].id}}
  /\ UNCHANGED <<machines, net, fresh, lost, guest, guestIp, bridge, job, vmVars>>

WithoutVm(p) == [machines EXCEPT ![job[p].id] = Absent]

(* Mutant: the address is forgotten.                                       *)
PoolUntouched(p) == net

PoolWithoutVm(p) ==
  IF HasIp(job[p].id) THEN Release(net, machines[job[p].id].ip) ELSE net

(* Mutant: virtual machines are all that counts.                           *)
NoneProcessLeft(table) == \A id \in Id : table[id] # Absent => vmm[id] = "none"

(* s.machines.is_empty()                                                   *)
NoneLeft(table) == \A id \in Id : table[id] = Absent

VmDestroyCommit(p) ==
  /\ pc[p] = "tornDown"
  /\ machines' = WithoutVm(p)
  /\ net' = PoolWithoutVm(p)
  /\ bridge' = (bridge /\ ~NoneLeft(WithoutVm(p)))
  /\ Finish(p)
  /\ UNCHANGED <<fresh, lost, dirs, guest, guestIp, vmVars>>

(* A kill between the removal of the bridge and the writing of the state.  *)
VmDestroyKilled(p) ==
  /\ pc[p] = "tornDown"
  /\ bridge' = (bridge /\ ~NoneLeft(WithoutVm(p)))
  /\ Finish(p)
  /\ UNCHANGED <<machines, net, fresh, lost, dirs, guest, guestIp, vmVars>>

-----------------------------------------------------------------------------
(* status goes by the socket file, and knows no pid.                       *)
VmStatus(id) ==
  [status |-> IF SocketExists(id) THEN "running" ELSE "stopped", pid |-> "none"]

VmReconcileQuery(p) == ReconcileCompare(p, VmStatus(job[p].id)) /\ UNCHANGED vmVars

(* The guest shuts down or crashes, and the process ends with it.          *)
VmExits(id) ==
  /\ VmAlive(id)
  /\ EndVmm(id)
  /\ UNCHANGED <<machines, net, fresh, lost, dirs, guest, bridge, pc, job, taps>>

(* The steps both runtimes share leave processes and taps alone.           *)
VmSharedStep(p) ==
  /\ \/ EnsureBridge(p)
     \/ AllocateAddress(p)
     \/ Record(p)
     \/ ExitAfterCreate(p)
     \/ VmTimerFires(p)
     \/ UpdateStatus(p)
  /\ UNCHANGED vmVars

VmStep(p) ==
  \/ VmSharedStep(p)
  \/ CreateTap(p)
  \/ SpawnVmm(p)
  \/ BootVm(p)
  \/ AgentReachable(p)
  \/ VmGivesUp(p)
  \/ AskToShutDown(p)
  \/ KillVmm(p)
  \/ DeleteTap(p)
  \/ CleanupRootfs(p)
  \/ VmDestroyCommit(p)
  \/ VmReconcileQuery(p)

VmEvent(id) == BindSocket(id) \/ VmExits(id)
=============================================================================
