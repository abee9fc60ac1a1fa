------------------------------ MODULE Dispatch ------------------------------
(***************************************************************************)
(* Both backends on one host, and main.rs, which chooses between them: by  *)
(* the option for create, by the record for the commands on one machine,   *)
(* and always nspawn for destroy --all (commands/destroy.rs).              *)
(***************************************************************************)
EXTENDS NspawnRuntime, FirecrackerRuntime

CONSTANTS
  Vm,      \* the machines created with --runtime firecracker
  Options  \* Options[id]: what else its create may be given: --network, --timeout

ASSUME VmAssumption == Vm \subseteq Id
ASSUME OptionsAssumption ==
  Options \in [Id -> SUBSET [nat : BOOLEAN, timer : BOOLEAN]]

VARIABLES
  by,          \* by[p]: the Runtime invocation p works with
  todo         \* todo[p]: the machines its destroy --all has yet to destroy

allVars == <<vars, vmm, taps, by, todo>>

(* The runtime field of the record, or of the options.                     *)
RuntimeOf(id) == IF id \in Vm THEN "firecracker" ELSE "nspawn"

DispatchInit ==
  /\ Init
  /\ VmInit
  /\ by = [p \in Proc |-> "nspawn"]
  /\ todo = [p \in Proc |-> {}]

Idle(p) == pc[p] = "idle" /\ todo[p] = {}

(* One command on one machine.                                             *)
Command(p) ==
  /\ Idle(p)
  /\ \E id \in Id :
       /\ \/ \E opts \in Options[id] : PrepareImage(p, id, opts.nat, opts.timer)
          \/ id \in Vm /\ ReadVm(p, id, "idle")
          \/ id \notin Vm /\ DestroyRead(p, id, "idle", "none")
          \/ ReconcileRead(p, id)
       /\ by' = [by EXCEPT ![p] = RuntimeOf(id)]
  /\ UNCHANGED <<vmVars, todo>>

(* destroy --all reads the ids ...                                         *)
ReadAll(p) ==
  /\ Idle(p)
  /\ todo' = [todo EXCEPT ![p] = {id \in Id : Recorded(id)}]
  /\ by' = [by EXCEPT ![p] = "nspawn"]
  /\ UNCHANGED <<vars, vmVars>>

(* ... and destroys one after the other; one that is not there any more is *)
(* an error that ends the command.                                         *)
DestroyNextOfAll(p) ==
  \E id \in todo[p] :
    /\ pc[p] = "idle"
    /\ IF Recorded(id)
       THEN /\ DestroyRead(p, id, "idle", "none")
            /\ todo' = [todo EXCEPT ![p] = @ \ {id}]
       ELSE /\ todo' = [todo EXCEPT ![p] = {}]
            /\ UNCHANGED vars
    /\ UNCHANGED <<vmVars, by>>

Work(p) ==
  /\ \/ by[p] = "nspawn" /\ Step(p) /\ UNCHANGED vmVars
     \/ by[p] = "firecracker" /\ VmStep(p)
  /\ by' = [by EXCEPT ![p] = IF pc'[p] = "idle" THEN "nspawn" ELSE @]
  /\ UNCHANGED todo

(* A kill ends the whole command, and so does the error of one destroy.    *)
CommandInterrupted(p) ==
  /\ \/ CreateFails(p) /\ UNCHANGED vmVars
     \/ Killed(p) /\ UNCHANGED vmVars
     \/ by[p] = "nspawn" /\ DestroyKilledInCommit(p) /\ UNCHANGED vmVars
     \/ by[p] = "firecracker" /\ VmDestroyKilled(p)
  /\ by' = [by EXCEPT ![p] = "nspawn"]
  /\ todo' = [todo EXCEPT ![p] = {}]

HostEvent ==
  /\ \E id \in Id :
       \/ GuestExits(id) /\ UNCHANGED vmVars
       \/ VmEvent(id)
  /\ UNCHANGED <<by, todo>>

DispatchUndisturbed ==
  \/ \E p \in Proc : Command(p) \/ ReadAll(p) \/ DestroyNextOfAll(p) \/ Work(p)
  \/ HostEvent

DispatchNext == DispatchUndisturbed \/ \E p \in Proc : CommandInterrupted(p)

DispatchSpec == DispatchInit /\ [][DispatchNext]_allVars

(* No invocation is killed, and no command fails at random.                *)
DispatchUndisturbedSpec == DispatchInit /\ [][DispatchUndisturbed]_allVars

-----------------------------------------------------------------------------
(* The types, those of the shared state included.                          *)
DispatchTypeOK ==
  /\ TypeOK
  /\ vmm \in [Id -> VmmState]
  /\ taps \in SUBSET Id
  /\ by \in [Proc -> {"nspawn", "firecracker"}]
  /\ todo \in [Proc -> SUBSET Id]

(* Only virtual machines meet the Firecracker backend; destroy --all makes *)
(* them meet the other one.                                                *)
BackendFits ==
  \A p \in Proc : by[p] = "firecracker" => pc[p] # "idle" /\ job[p].id \in Vm

(* What both backends and destroy --all preserve together: addresses stay  *)
(* unique over containers and virtual machines, also when one outlives its *)
(* record; a recorded one stays its machine's, and everything else has an  *)
(* owner, but for the directories of virtual machines.                     *)
DispatchInv ==
  /\ DispatchTypeOK
  /\ NoSharedAddress
  /\ NextIsPastAll
  /\ CreateOwnsId
  /\ RecordOwnsAddress
  /\ BridgeCleanedUp
  /\ LocalsByPoint(Id \ Vm)
  /\ Accounted(Id \ Vm)
  /\ BackendFits

(* Whichever backend destroys a machine, and whatever other invocations do *)
(* to it, its address goes back to the pool with its record; and so does   *)
(* the directory of a container (firecracker.rs:370 ignores that error).   *)
ReleasedWithRecord ==
  \A id \in Id \ (fresh \cup lost) :
    ~Recorded(id) /\ ~BeingCreated(id) =>
      /\ \A o \in Octet : net.alloc[o] # id
      /\ id \in dirs => id \in Vm

(* Neither backend takes the bridge away from a running machine of the     *)
(* other: the only record that may lose its bridge while it says           *)
(* "running" is that of a destroy killed in its commit (nspawn.rs:394,     *)
(* firecracker.rs:379).                                                    *)
BridgeKeptForRunning ==
  [][bridge /\ ~bridge' =>
       \A id \in Id :
         Recorded(id)' /\ machines'[id].status = "running" =>
           \E p \in Proc : pc[p] = "tornDown" /\ job[p].id = id]_allVars

(* A destroy of a virtual machine sends a shutdown, waits, "then           *)
(* force-kills" (docs.md:477): with the record, the process is gone.       *)
DestroyEndsVm ==
  [][\A p \in Proc, id \in Id :
       /\ pc[p] = "tornDown" /\ by[p] = "firecracker" /\ job[p].id = id
       /\ Recorded(id) /\ ~Recorded(id)'
       => ~VmAlive(id)]_allVars

(* "Commands like exec and destroy automatically use the correct backend"  *)
(* (docs.md:984), and main.rs:69 says the same of destroy --all: it leaves *)
(* neither process nor tap of a virtual machine whose record it removes.   *)
DestroyAllEndsVms ==
  [][\A p \in Proc, id \in Vm :
       /\ pc[p] = "tornDown" /\ by[p] = "nspawn" /\ job[p].id = id
       /\ Recorded(id) /\ ~Recorded(id)'
       => ~VmAlive(id) /\ id \notin taps]_allVars
=============================================================================
