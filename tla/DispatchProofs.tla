---------------------------- MODULE DispatchProofs ----------------------------
(***************************************************************************)
(* DispatchInv and what follows from it, for any set of invocations and    *)
(* any containers and virtual machines.  The lemmas of NspawnProofs cover  *)
(* the steps that FirecrackerRuntime shares.                               *)
(***************************************************************************)
EXTENDS Dispatch, NspawnProofs

(* The part of DispatchInv that speaks of what all backends share.         *)
HostInv ==
  /\ TypeOK
  /\ NoSharedAddress
  /\ NextIsPastAll
  /\ CreateOwnsId
  /\ RecordOwnsAddress
  /\ BridgeCleanedUp
  /\ LocalsByPoint(Id \ Vm)
  /\ Accounted(Id \ Vm)

-----------------------------------------------------------------------------
(* The steps of NspawnProofs keep HostInv.                                 *)
LEMMA BeginKeeps ==
  ASSUME HostInv, NEW p \in Proc, Begins(p)
  PROVE  HostInv'
<1> USE DEF HostInv
<1>1. TypeOK'
  BY BeginTypes
<1> QED
  BY <1>1, StartGainsNothing, NothingGained, StartOwnsId, StartKeepsOwners, StartKeepsNet,
     StartAccounts

LEMMA CreateKeeps ==
  ASSUME HostInv, NEW p \in Proc,
         \/ EnsureBridge(p)
         \/ Spawn(p)
         \/ ConfigureNetwork(p)
         \/ Record(p)
         \/ CreateFails(p)
         \/ ExitAfterCreate(p)
  PROVE  HostInv'
<1> USE DEF HostInv
<1>1. TypeOK'
  BY EnsureTypes, SpawnTypes, ConfigureTypes, InsertTypes, FailTypes, ExitTypes
<1> QED
  BY <1>1, CreateGainsNothing, NothingGained, CreateStepsOwnId, CreateKeepsOwners,
     CreateKeepsNet, CreateAccounts

LEMMA AllocateKeeps ==
  ASSUME HostInv, NEW p \in Proc, AllocateAddress(p)
  PROVE  HostInv'
BY AllocateTypes, AllocateKeepsUnique, CreateStepsOwnId, CreateKeepsOwners, CreateKeepsNet,
   CreateAccounts
DEF HostInv

LEMMA DestroyKeeps ==
  ASSUME HostInv, NEW p \in Proc,
         \/ PowerOff(p)
         \/ Terminate(p)
         \/ CheckDirectory(p)
         \/ RemoveDirectory(p)
         \/ DestroyCommit(p)
         \/ DestroyKilledInCommit(p)
         \/ Killed(p)
  PROVE  HostInv'
<1> USE DEF HostInv
<1>1. TypeOK'
  BY ShutdownTypes, TeardownTypes, CommitTypes, KilledTypes
<1> QED
  BY <1>1, DestroyGainsNothing, NothingGained, DestroyOwnsId, DestroyKeepsOwners,
     DestroyKeepsNet, DestroyAccounts

LEMMA OthersKeep ==
  ASSUME HostInv,
         \/ \E p \in Proc, live \in View : ReconcileCompare(p, live)
         \/ \E p \in Proc : UpdateStatus(p)
         \/ \E id \in Id : GuestExits(id)
  PROVE  HostInv'
<1> USE DEF HostInv
<1>1. TypeOK'
  BY ReconcileTypes, HaltTypes DEF GuestExits, TypeOK
<1> QED
  BY <1>1, OthersGainNothing, NothingGained, OthersOwnId, OthersKeepOwners, OthersKeepNet,
     OthersAccount

LEMMA UnchangedKeeps ==
  ASSUME HostInv, UNCHANGED vars
  PROVE  HostInv'
BY DEF vars, HostInv, TypeOK, NoSharedAddress, NextIsPastAll, HoldsAddress, CreateOwnsId,
   RecordOwnsAddress, HasIp, BridgeCleanedUp, LocalsByPoint, Accounted, BeingCreated, Recorded

-----------------------------------------------------------------------------
(* A create of a virtual machine gives its guest the address that its      *)
(* invocation holds.                                                       *)
LEMMA VmCreateKeeps ==
  ASSUME HostInv, NEW p \in Proc,
         CreateTap(p) \/ SpawnVmm(p) \/ BootVm(p) \/ AgentReachable(p)
  PROVE  HostInv'
<1> USE DEF HostInv
<1>1. /\ UNCHANGED <<machines, net, fresh, lost, dirs, guest, bridge, job>>
      /\ pc[p] \in Creating /\ pc'[p] \in Creating
      /\ \A q \in Proc : q # p => pc'[q] = pc[q]
      /\ pc' \in [Proc -> Points]
  BY DEF CreateTap, SpawnVmm, BootVm, AgentReachable, Goto, shared, TypeOK, Creating, Points
<1>2. guestIp' = guestIp \/ guestIp' = [guestIp EXCEPT ![job[p].id] = job[p].ip]
  BY DEF CreateTap, SpawnVmm, BootVm, AgentReachable, shared
<1>3. TypeOK'
  BY <1>1, <1>2, JobFields DEF TypeOK
<1>4. \A q \in Proc : pc'[q] \in Creating <=> pc[q] \in Creating
  BY <1>1
<1>5. \A id \in Id, o \in Octet : HoldsAddress(id, o)' => HoldsAddress(id, o)
  BY <1>1, <1>2, <1>4 DEF HoldsAddress, Recorded, TypeOK
<1>6. NoSharedAddress' /\ NextIsPastAll'
  BY <1>1, <1>5, NothingGained
<1>7. CreateOwnsId'
  BY <1>1, <1>4 DEF CreateOwnsId, Recorded, Creating
<1>8. RecordOwnsAddress' /\ BridgeCleanedUp'
  BY <1>1, <1>4 DEF RecordOwnsAddress, HasIp, Recorded, BridgeCleanedUp, BeingCreated
<1>9. LocalsByPoint(Id \ Vm)' /\ Accounted(Id \ Vm)'
  <2>1. pc'[p] \notin {"prepared", "networked", "tornDown"}
    BY DEF CreateTap, SpawnVmm, BootVm, AgentReachable, Goto, TypeOK
  <2> QED
    BY <1>1, <1>4, <2>1 DEF LocalsByPoint, Accounted, BeingCreated, Recorded
<1> QED
  BY <1>3, <1>6, <1>7, <1>8, <1>9

(* A destroy of one changes nothing in the state before its last step.     *)
LEMMA VmDestroyKeeps ==
  ASSUME HostInv, NEW p \in Proc, job[p].id \in Vm,
         AskToShutDown(p) \/ KillVmm(p) \/ DeleteTap(p) \/ CleanupRootfs(p)
  PROVE  HostInv'
<1> USE DEF HostInv
<1>1. /\ UNCHANGED <<machines, net, fresh, lost, guest, bridge, job>>
      /\ pc[p] \in Destroying /\ pc'[p] \in Destroying
      /\ \A q \in Proc : q # p => pc'[q] = pc[q]
      /\ pc' \in [Proc -> Points]
      /\ dirs' \in SUBSET Id
  BY DEF AskToShutDown, KillVmm, DeleteTap, CleanupRootfs, Goto, shared, TypeOK, Destroying,
     Points
<1>2. guestIp' = guestIp \/ guestIp' = [guestIp EXCEPT ![job[p].id] = NoIp]
  BY DEF AskToShutDown, KillVmm, EndVmm, DeleteTap, CleanupRootfs, shared
<1>3. TypeOK'
  BY <1>1, <1>2 DEF TypeOK
<1>4. \A q \in Proc : pc'[q] \in Creating <=> pc[q] \in Creating
  BY <1>1 DEF Creating, Destroying
<1>5. \A id \in Id, o \in Octet : HoldsAddress(id, o)' => HoldsAddress(id, o)
  BY <1>1, <1>2, <1>4, OctetIsNumber DEF HoldsAddress, Recorded, TypeOK
<1>6. NoSharedAddress' /\ NextIsPastAll'
  BY <1>1, <1>5, NothingGained
<1>7. CreateOwnsId'
  BY <1>1, <1>4 DEF CreateOwnsId, Recorded, Destroying
<1>8. RecordOwnsAddress' /\ BridgeCleanedUp'
  BY <1>1, <1>4 DEF RecordOwnsAddress, HasIp, Recorded, BridgeCleanedUp, BeingCreated
<1>9. LocalsByPoint(Id \ Vm)' /\ Accounted(Id \ Vm)'
  <2>1. dirs' \subseteq dirs
    BY DEF AskToShutDown, KillVmm, DeleteTap, CleanupRootfs, shared
  <2> QED
    BY <1>1, <1>4, <2>1 DEF LocalsByPoint, Accounted, BeingCreated, Recorded, Destroying
<1> QED
  BY <1>3, <1>6, <1>7, <1>8, <1>9

(* What happens to its process happens to nothing else.                    *)
LEMMA VmEventKeeps ==
  ASSUME HostInv, NEW id \in Id, VmEvent(id)
  PROVE  HostInv'
<1> USE DEF HostInv
<1>1. UNCHANGED <<machines, net, fresh, lost, dirs, guest, bridge, pc, job>>
  BY DEF VmEvent, BindSocket, VmExits, shared
<1>2. guestIp' = guestIp \/ guestIp' = [guestIp EXCEPT ![id] = NoIp]
  BY DEF VmEvent, BindSocket, VmExits, EndVmm, shared
<1>3. TypeOK'
  BY <1>1, <1>2 DEF TypeOK
<1>4. \A i \in Id, o \in Octet : HoldsAddress(i, o)' => HoldsAddress(i, o)
  BY <1>1, <1>2, OctetIsNumber DEF HoldsAddress, Recorded, TypeOK
<1>5. NoSharedAddress' /\ NextIsPastAll'
  BY <1>1, <1>4, NothingGained
<1> QED
  BY <1>1, <1>3, <1>5 DEF CreateOwnsId, RecordOwnsAddress, HasIp, Recorded, BridgeCleanedUp,
     LocalsByPoint, Accounted, BeingCreated

(* The end of a destroy gives back an address that no other record and no  *)
(* create under way has, and leaves the bridge to a record.                *)
LEMMA VmCommitKeeps ==
  ASSUME HostInv, NEW p \in Proc, job[p].id \in Vm, VmDestroyCommit(p)
  PROVE  HostInv'
<1> USE DEF HostInv
<1> DEFINE id == job[p].id
<1>1. id \in Id /\ pc[p] = "tornDown"
  BY DEF VmDestroyCommit, CreateOwnsId
<1>2. /\ UNCHANGED <<fresh, lost, dirs, guest, guestIp>>
      /\ machines' = [machines EXCEPT ![id] = Absent]
      /\ bridge' = (bridge /\ ~NoneLeft(machines'))
      /\ pc' = [pc EXCEPT ![p] = "idle"] /\ job' = [job EXCEPT ![p] = NoJob]
  BY DEF VmDestroyCommit, WithoutVm, Finish
<1>3. \A i \in Id : Recorded(i)' => i # id /\ Recorded(i) /\ machines'[i] = machines[i]
  BY <1>1, <1>2 DEF Recorded, TypeOK
<1>4. \A q \in Proc :
        pc'[q] \in Creating <=> pc[q] \in Creating
  BY <1>1, <1>2 DEF Creating, TypeOK
<1>5. \A q \in Proc : pc[q] \in Creating => job'[q] = job[q] /\ job'[q].id = job[q].id
  BY <1>1, <1>2 DEF Creating, TypeOK
<1>6. /\ net'.next = net.next
      /\ \A o \in Octet : net'.alloc[o] # NoId => net'.alloc[o] = net.alloc[o]
      /\ net' \in NetworkState
  BY <1>1 DEF VmDestroyCommit, PoolWithoutVm, Release, TypeOK, NetworkState
<1>7. TypeOK'
  BY <1>1, <1>2, <1>6, JobTypes DEF TypeOK, Points
<1>8. NoSharedAddress' /\ NextIsPastAll'
  <2>1. \A i \in Id, o \in Octet : HoldsAddress(i, o)' => HoldsAddress(i, o)
    BY <1>2, <1>3, <1>4, <1>5, <1>6, NoIdAssumption DEF HoldsAddress
  <2> QED
    BY <2>1, <1>6, NothingGained
<1>9. CreateOwnsId'
  <2>1. \A q \in Proc : pc'[q] # "idle" => pc[q] = pc'[q] /\ job'[q] = job[q]
    BY <1>2 DEF TypeOK
  <2>2. \A i \in Id : ~Recorded(i) => ~Recorded(i)'
    BY <1>3
  <2>3. \A q \in Proc : pc'[q] \in Creating => pc'[q] # "idle"
    BY DEF Creating
  <2>4. fresh \in SUBSET Id
    BY DEF TypeOK
  <2> QED
    BY <1>2, <1>4, <2>1, <2>2, <2>3, <2>4 DEF CreateOwnsId
<1>10. RecordOwnsAddress'
  <2>1. \A i \in Id : HasIp(i)' => i # id /\ HasIp(i) /\ machines'[i].ip = machines[i].ip
    BY <1>3 DEF HasIp
  <2>2. \A i \in Id : HasIp(i) => machines[i].ip \in Octet
    BY DEF HasIp, Recorded, TypeOK, Machine
  <2>3. \A q \in Proc : job[q].ip # NoIp => job[q].ip \in Octet
    BY JobFields
  <2>4. CASE HasIp(id)
    <3>1. \A o \in Octet : net.alloc[o] # id => net'.alloc[o] = net.alloc[o]
      BY <1>1, <2>4 DEF VmDestroyCommit, PoolWithoutVm, Release, TypeOK, NetworkState,
         RecordOwnsAddress
    <3>2. \A q \in Proc : pc[q] \in Creating => job[q].id # id
      BY <2>4 DEF CreateOwnsId, HasIp
    <3> QED
      BY <1>4, <1>5, <2>1, <2>2, <2>3, <3>1, <3>2 DEF RecordOwnsAddress
  <2>5. CASE ~HasIp(id)
    <3>1. net' = net
      BY <2>5 DEF VmDestroyCommit, PoolWithoutVm
    <3> QED
      BY <1>4, <1>5, <2>1, <3>1 DEF RecordOwnsAddress
  <2> QED
    BY <2>4, <2>5
<1>11. BridgeCleanedUp'
  BY <1>2 DEF BridgeCleanedUp, NoneLeft, Recorded
<1>12. LocalsByPoint(Id \ Vm)' /\ Accounted(Id \ Vm)'
  <2>1. LocalsByPoint(Id \ Vm)'
    BY <1>2 DEF LocalsByPoint, TypeOK
  <2>2. \A i \in Id : i # id => machines'[i] = machines[i]
    BY <1>2 DEF TypeOK
  <2>3. \A i \in Id : BeingCreated(i)' <=> BeingCreated(i)
    BY <1>4, <1>5 DEF BeingCreated
  <2>4. ASSUME NEW i \in dirs \cap (Id \ Vm)
        PROVE  i \in lost \/ Recorded(i)' \/ BeingCreated(i)
    BY <2>2, <2>4 DEF Accounted, Recorded
  <2>5. ASSUME NEW o \in Octet, NEW i \in Id, net'.alloc[o] = i
        PROVE  \/ i \in lost
               \/ Recorded(i)' /\ machines'[i].ip = o
               \/ \E q \in Proc : pc'[q] \in Creating /\ job'[q].id = i /\ job'[q].ip = o
    <3>1. net.alloc[o] = i /\ i # NoId
      BY <1>6, <2>5, NoIdAssumption
    <3>2. ~(Recorded(id) /\ machines[id].ip = o)
      <4>1. SUFFICES ASSUME Recorded(id), machines[id].ip = o
                     PROVE  net'.alloc[o] = NoId
        BY <2>5, <3>1
      <4>2. HasIp(id)
        BY <4>1, OctetIsNumber DEF HasIp
      <4>3. net' = Release(net, o)
        BY <4>1, <4>2 DEF VmDestroyCommit, PoolWithoutVm
      <4> QED
        BY <4>3 DEF Release, TypeOK, NetworkState
    <3>3. \/ i \in lost
          \/ Recorded(i) /\ machines[i].ip = o
          \/ \E q \in Proc : pc[q] \in Creating /\ job[q].id = i /\ job[q].ip = o
      BY <3>1 DEF Accounted
    <3>4. CASE Recorded(i) /\ machines[i].ip = o
      BY <2>2, <3>2, <3>4 DEF Recorded
    <3>5. CASE \E q \in Proc : pc[q] \in Creating /\ job[q].id = i /\ job[q].ip = o
      BY <1>4, <1>5, <3>5
    <3> QED
      BY <3>3, <3>4, <3>5
  <2>6. \A o \in Octet : net'.alloc[o] \in Id \cup {NoId}
    BY <1>6 DEF NetworkState
  <2> QED
    BY <1>2, <2>1, <2>3, <2>4, <2>5, <2>6 DEF Accounted
<1> QED
  BY <1>7, <1>8, <1>9, <1>10, <1>11, <1>12

LEMMA VmDestroyKilledKeeps ==
  ASSUME HostInv, NEW p \in Proc, VmDestroyKilled(p)
  PROVE  HostInv'
<1> USE DEF HostInv
<1>1. /\ UNCHANGED <<machines, net, fresh, lost, dirs, guest, guestIp>>
      /\ pc[p] = "tornDown" /\ (bridge' => bridge) /\ bridge' \in BOOLEAN
      /\ pc' = [pc EXCEPT ![p] = "idle"] /\ job' = [job EXCEPT ![p] = NoJob]
  BY DEF VmDestroyKilled, Finish, TypeOK
<1>2. TypeOK'
  BY <1>1, JobTypes DEF TypeOK, Points
<1>3. \A q \in Proc : pc'[q] # "idle" => pc'[q] = pc[q] /\ job'[q] = job[q]
  BY <1>1 DEF TypeOK
<1>4. \A q \in Proc : pc'[q] \in Creating <=> pc[q] \in Creating
  BY <1>1 DEF Creating, TypeOK
<1>5. \A i \in Id, o \in Octet : HoldsAddress(i, o)' => HoldsAddress(i, o)
  BY <1>1, <1>3, <1>4 DEF HoldsAddress, Recorded, Creating
<1>6. NoSharedAddress' /\ NextIsPastAll'
  BY <1>1, <1>5, NothingGained
<1>7. CreateOwnsId' /\ RecordOwnsAddress'
  BY <1>1, <1>3, <1>4 DEF CreateOwnsId, RecordOwnsAddress, HasIp, Recorded, Creating
<1>8. \A i \in Id : BeingCreated(i)' <=> BeingCreated(i)
  BY <1>3, <1>4 DEF BeingCreated, Creating
<1>9. BridgeCleanedUp'
  BY <1>1, <1>8 DEF BridgeCleanedUp, Recorded
<1>10. LocalsByPoint(Id \ Vm)' /\ Accounted(Id \ Vm)'
  BY <1>1, <1>3, <1>4, <1>8 DEF LocalsByPoint, Accounted, Recorded, Creating
<1> QED
  BY <1>2, <1>6, <1>7, <1>9, <1>10

-----------------------------------------------------------------------------
(* Every step of Dispatch is one of those.                                 *)
LEMMA ReadVmBegins ==
  ASSUME TypeOK, NEW p \in Proc, NEW id \in Id, NEW from \in {"idle", "created"},
         ReadVm(p, id, from)
  PROVE  Begins(p)
<1>1. machines[id].pid \in Pid
  BY DEF ReadVm, DestroyRead, Recorded, TypeOK, Machine
<1> QED
  BY <1>1 DEF ReadVm, Begins

LEMMA CommandBegins ==
  ASSUME TypeOK, NEW p \in Proc, Command(p)
  PROVE  Begins(p)
<1>1. PICK id \in Id :
        \/ \E opts \in Options[id] : PrepareImage(p, id, opts.nat, opts.timer)
        \/ ReadVm(p, id, "idle")
        \/ DestroyRead(p, id, "idle", "none")
        \/ ReconcileRead(p, id)
  BY DEF Command
<1>2. ASSUME NEW opts \in Options[id], PrepareImage(p, id, opts.nat, opts.timer)
      PROVE  Begins(p)
  <2>1. opts.nat \in BOOLEAN /\ opts.timer \in BOOLEAN
    BY OptionsAssumption
  <2> QED
    BY <1>2, <2>1 DEF Begins
<1> QED
  BY <1>1, <1>2, ReadVmBegins DEF Begins, Pid

LEMMA NspawnStepKeeps ==
  ASSUME HostInv, NEW p \in Proc, Step(p)
  PROVE  HostInv'
<1>1. CASE TimerFires(p)
  BY <1>1, StartBegins, BeginKeeps DEF HostInv
<1>2. CASE ReconcileQuery(p)
  BY <1>2, QueryCompares, OthersKeep DEF HostInv
<1> QED
  BY <1>1, <1>2, CreateKeeps, AllocateKeeps, DestroyKeeps, OthersKeep DEF Step, GivesUp

LEMMA VmStepKeeps ==
  ASSUME HostInv, NEW p \in Proc, job[p].id \in Vm, VmStep(p)
  PROVE  HostInv'
<1>1. CASE VmTimerFires(p)
  <2>1. job[p].id \in Id
    BY <1>1 DEF VmTimerFires, ReadVm, DestroyRead, Goto, HostInv, CreateOwnsId
  <2> QED
    BY <1>1, <2>1, ReadVmBegins, BeginKeeps DEF VmTimerFires, HostInv
<1>2. CASE VmReconcileQuery(p)
  <2>1. VmStatus(job[p].id) \in View
    BY DEF VmStatus, View, Status, Pid
  <2> QED
    BY <1>2, <2>1, OthersKeep DEF VmReconcileQuery
<1> QED
  BY <1>1, <1>2, CreateKeeps, AllocateKeeps, OthersKeep, VmCreateKeeps, VmDestroyKeeps,
     VmCommitKeeps
  DEF VmStep, VmSharedStep, VmGivesUp

LEMMA HostInvSteps ==
  ASSUME DispatchTypeOK, BackendFits, HostInv, [DispatchNext]_allVars
  PROVE  HostInv'
<1>1. ASSUME NEW p \in Proc, Command(p) \/ ReadAll(p) \/ DestroyNextOfAll(p)
      PROVE  HostInv'
  <2>1. CASE Command(p)
    BY <2>1, CommandBegins, BeginKeeps DEF HostInv
  <2>2. CASE ReadAll(p)
    BY <2>2, UnchangedKeeps DEF ReadAll
  <2>3. CASE DestroyNextOfAll(p)
    <3>1. \/ \E id \in Id : DestroyRead(p, id, "idle", "none")
          \/ UNCHANGED vars
      BY <2>3 DEF DestroyNextOfAll, DispatchTypeOK
    <3> QED
      BY <3>1, BeginKeeps, UnchangedKeeps DEF Begins, Pid
  <2> QED
    BY <1>1, <2>1, <2>2, <2>3
<1>2. ASSUME NEW p \in Proc, Work(p)
      PROVE  HostInv'
  BY <1>2, NspawnStepKeeps, VmStepKeeps DEF Work, BackendFits
<1>3. ASSUME NEW p \in Proc, CommandInterrupted(p)
      PROVE  HostInv'
  BY <1>3, CreateKeeps, DestroyKeeps, VmDestroyKilledKeeps DEF CommandInterrupted
<1>4. CASE HostEvent
  BY <1>4, OthersKeep, VmEventKeeps DEF HostEvent
<1>5. CASE UNCHANGED allVars
  BY <1>5, UnchangedKeeps DEF allVars
<1> QED
  BY <1>1, <1>2, <1>3, <1>4, <1>5 DEF DispatchNext, DispatchUndisturbed

(* The types of processes and taps, and of what an invocation works with.  *)
LEMMA VmTypes ==
  ASSUME DispatchTypeOK, CreateOwnsId, NEW p \in Proc, VmStep(p)
  PROVE  vmm' \in [Id -> VmmState] /\ taps' \in SUBSET Id
<1> USE DEF DispatchTypeOK, VmmState
<1>1. CASE CreateTap(p) \/ SpawnVmm(p) \/ BootVm(p) \/ AgentReachable(p)
  <2>1. job[p].id \in Id
    BY <1>1 DEF CreateTap, SpawnVmm, BootVm, AgentReachable, Goto, CreateOwnsId
  <2> QED
    BY <1>1, <2>1 DEF CreateTap, SpawnVmm, BootVm, AgentReachable, vmVars
<1>2. CASE KillVmm(p) \/ DeleteTap(p)
  BY <1>2 DEF KillVmm, EndVmm, DeleteTap
<1> QED
  BY <1>1, <1>2 DEF VmStep, VmSharedStep, VmGivesUp, AskToShutDown, CleanupRootfs,
     VmDestroyCommit, VmReconcileQuery, vmVars

LEMMA DispatchTypes ==
  ASSUME DispatchTypeOK, CreateOwnsId, [DispatchNext]_allVars
  PROVE  /\ vmm' \in [Id -> VmmState]
         /\ taps' \in SUBSET Id
         /\ by' \in [Proc -> {"nspawn", "firecracker"}]
         /\ todo' \in [Proc -> SUBSET Id]
<1> USE DEF DispatchTypeOK
<1>1. ASSUME NEW p \in Proc,
             Command(p) \/ ReadAll(p) \/ DestroyNextOfAll(p) \/ CommandInterrupted(p)
      PROVE  /\ vmm' = vmm /\ taps' = taps
             /\ by' \in [Proc -> {"nspawn", "firecracker"}]
             /\ todo' \in [Proc -> SUBSET Id]
  BY <1>1 DEF Command, ReadAll, DestroyNextOfAll, CommandInterrupted, VmDestroyKilled,
     RuntimeOf, vmVars
<1>2. ASSUME NEW p \in Proc, Work(p)
      PROVE  /\ vmm' \in [Id -> VmmState] /\ taps' \in SUBSET Id
             /\ by' \in [Proc -> {"nspawn", "firecracker"}] /\ todo' = todo
  BY <1>2, VmTypes DEF Work, vmVars
<1>3. CASE HostEvent
  BY <1>3 DEF HostEvent, VmEvent, BindSocket, VmExits, EndVmm, VmmState, vmVars
<1>4. CASE UNCHANGED allVars
  BY <1>4 DEF allVars
<1> QED
  BY <1>1, <1>2, <1>3, <1>4 DEF DispatchNext, DispatchUndisturbed

-----------------------------------------------------------------------------
LEMMA DestroyReadMoves ==
  ASSUME TypeOK, NEW p \in Proc, NEW id, NEW from, NEW pid, DestroyRead(p, id, from, pid)
  PROVE  /\ pc[p] = from /\ pc'[p] = "destroy" /\ job'[p].id = id
         /\ \A q \in Proc : q # p => pc'[q] = pc[q] /\ job'[q] = job[q]
<1>1. [NoJob EXCEPT !.id = id, !.live.pid = pid].id = id
  BY DEF NoJob
<1> QED
  BY <1>1 DEF DestroyRead, Goto, TypeOK

(* A step keeps its machine, and moves nobody else.                        *)
LEMMA StepsStayOnMachine ==
  ASSUME TypeOK, NEW p \in Proc, Step(p) \/ VmStep(p)
  PROVE  /\ pc'[p] # "idle" => pc[p] # "idle" /\ job'[p].id = job[p].id
         /\ \A q \in Proc : q # p => pc'[q] = pc[q] /\ job'[q] = job[q]
<1>1. CASE \/ EnsureBridge(p) \/ AllocateAddress(p) \/ Record(p)
           \/ ExitAfterCreate(p) \/ UpdateStatus(p)
  BY <1>1 DEF EnsureBridge, AllocateAddress, Record, ExitAfterCreate, UpdateStatus, Finish,
     Goto, TypeOK, Job
<1>2. CASE CreateFails(p) \/ TimerFires(p) \/ VmTimerFires(p)
  <2>1. CASE CreateFails(p)
    BY <2>1 DEF CreateFails, Finish, TypeOK
  <2>2. CASE TimerFires(p) \/ VmTimerFires(p)
    <3>1. PICK pid : DestroyRead(p, job[p].id, "created", pid)
      BY <2>2 DEF TimerFires, VmTimerFires, ReadVm
    <3> QED
      BY <3>1, DestroyReadMoves
  <2> QED
    BY <1>2, <2>1, <2>2
<1>3. CASE ReconcileQuery(p) \/ VmReconcileQuery(p)
  BY <1>3 DEF ReconcileQuery, VmReconcileQuery, ReconcileCompare, Finish, TypeOK, Job
<1>4. CASE Spawn(p) \/ ConfigureNetwork(p) \/ PowerOff(p) \/ Terminate(p) \/ CheckDirectory(p)
  BY <1>4 DEF Spawn, ConfigureNetwork, PowerOff, Terminate, CheckDirectory, Goto, TypeOK
<1>5. CASE RemoveDirectory(p) \/ DestroyCommit(p) \/ VmDestroyCommit(p)
  BY <1>5 DEF RemoveDirectory, DestroyCommit, VmDestroyCommit, Finish, Goto, TypeOK, Job
<1>6. CASE \/ CreateTap(p) \/ SpawnVmm(p) \/ BootVm(p) \/ AgentReachable(p)
           \/ AskToShutDown(p) \/ KillVmm(p) \/ DeleteTap(p) \/ CleanupRootfs(p)
  BY <1>6 DEF CreateTap, SpawnVmm, BootVm, AgentReachable, AskToShutDown, KillVmm, DeleteTap,
     CleanupRootfs, Goto, TypeOK
<1> QED
  BY <1>1, <1>2, <1>3, <1>4, <1>5, <1>6 DEF Step, GivesUp, VmStep, VmSharedStep, VmGivesUp

LEMMA BackendStillFits ==
  ASSUME DispatchTypeOK, BackendFits, [DispatchNext]_allVars
  PROVE  BackendFits'
<1> USE DEF BackendFits, DispatchTypeOK
<1>1. ASSUME NEW p \in Proc, Command(p)
      PROVE  BackendFits'
  <2>1. PICK id \in Id :
          /\ \/ \E opts \in Options[id] : PrepareImage(p, id, opts.nat, opts.timer)
             \/ ReadVm(p, id, "idle")
             \/ DestroyRead(p, id, "idle", "none")
             \/ ReconcileRead(p, id)
          /\ by' = [by EXCEPT ![p] = RuntimeOf(id)]
    BY <1>1 DEF Command
  <2>2. /\ pc'[p] # "idle" /\ job'[p].id = id
        /\ \A q \in Proc : q # p => pc'[q] = pc[q] /\ job'[q] = job[q]
    <3>1. CASE \E opts \in Options[id] : PrepareImage(p, id, opts.nat, opts.timer)
      BY <3>1 DEF PrepareImage, Goto, TypeOK, NoJob
    <3>2. CASE ReadVm(p, id, "idle") \/ DestroyRead(p, id, "idle", "none")
      BY <3>2, DestroyReadMoves DEF ReadVm
    <3>3. CASE ReconcileRead(p, id)
      BY <3>3 DEF ReconcileRead, Goto, TypeOK, NoJob
    <3> QED
      BY <2>1, <3>1, <3>2, <3>3
  <2> QED
    BY <2>1, <2>2 DEF RuntimeOf
<1>2. ASSUME NEW p \in Proc, ReadAll(p) \/ DestroyNextOfAll(p) \/ CommandInterrupted(p)
      PROVE  BackendFits'
  <2>1. CASE ReadAll(p) \/ CommandInterrupted(p)
    <3>1. \A q \in Proc : q # p => pc'[q] = pc[q] /\ job'[q] = job[q] /\ by'[q] = by[q]
      BY <2>1 DEF ReadAll, CommandInterrupted, CreateFails, Killed, DestroyKilledInCommit,
         VmDestroyKilled, Finish, TypeOK, vars
    <3>2. by'[p] = "nspawn"
      BY <2>1 DEF ReadAll, CommandInterrupted
    <3> QED
      BY <3>1, <3>2
  <2>2. CASE DestroyNextOfAll(p)
    <3>1. /\ pc[p] = "idle" /\ by' = by
          /\ \A q \in Proc : q # p => pc'[q] = pc[q] /\ job'[q] = job[q]
      BY <2>2 DEF DestroyNextOfAll, DestroyRead, Goto, TypeOK, vars
    <3> QED
      BY <3>1
  <2> QED
    BY <1>2, <2>1, <2>2
<1>3. ASSUME NEW p \in Proc, Work(p)
      PROVE  BackendFits'
  BY <1>3, StepsStayOnMachine DEF Work
<1>4. CASE HostEvent
  BY <1>4 DEF HostEvent, GuestExits, VmEvent, BindSocket, VmExits, shared
<1>5. CASE UNCHANGED allVars
  BY <1>5 DEF allVars, vars
<1> QED
  BY <1>1, <1>2, <1>3, <1>4, <1>5 DEF DispatchNext, DispatchUndisturbed

LEMMA DispatchInitInv == DispatchInit => DispatchInv
<1> SUFFICES ASSUME DispatchInit PROVE DispatchInv
  OBVIOUS
<1>1. SandboxInv
  BY InitInv DEF DispatchInit
<1>2. LocalsByPoint(Id \ Vm) /\ Accounted(Id \ Vm)
  BY <1>1 DEF SandboxInv, LocalsByPoint, Accounted
<1> QED
  BY <1>1, <1>2 DEF SandboxInv, DispatchInv, DispatchTypeOK, DispatchInit, VmInit, VmmState,
     BackendFits

LEMMA DispatchStepInv == DispatchInv /\ [DispatchNext]_allVars => DispatchInv'
<1>1. DispatchInv <=> DispatchTypeOK /\ HostInv /\ BackendFits
  BY DEF DispatchInv, HostInv, DispatchTypeOK
<1>2. DispatchInv' <=> DispatchTypeOK' /\ HostInv' /\ BackendFits'
  BY DEF DispatchInv, HostInv, DispatchTypeOK
<1> QED
  BY <1>1, <1>2, HostInvSteps, DispatchTypes, BackendStillFits DEF HostInv, DispatchTypeOK

(* Containers and virtual machines together keep the invariant, whatever   *)
(* commands run at once and wherever they are killed.                      *)
THEOREM DispatchInvariance == DispatchSpec => []DispatchInv
BY DispatchInitInv, DispatchStepInv, PTL DEF DispatchSpec

-----------------------------------------------------------------------------
(* What writes records, and what removes the bridge.                       *)
LEMMA WhoWritesRecords ==
  ASSUME DispatchNext
  PROVE  \/ machines' = machines
         \/ \E p \in Proc :
              Record(p) \/ UpdateStatus(p) \/ DestroyCommit(p) \/ VmDestroyCommit(p)
<1>1. ASSUME NEW p \in Proc, Command(p) \/ ReadAll(p) \/ DestroyNextOfAll(p)
      PROVE  machines' = machines
  BY <1>1 DEF Command, ReadAll, DestroyNextOfAll, PrepareImage, ReadVm, DestroyRead,
     ReconcileRead, shared, vars
<1>2. ASSUME NEW p \in Proc, Step(p)
      PROVE  machines' = machines \/ Record(p) \/ UpdateStatus(p) \/ DestroyCommit(p)
  BY <1>2 DEF Step, EnsureBridge, AllocateAddress, Spawn, ConfigureNetwork, GivesUp,
     CreateFails, ExitAfterCreate, PowerOff, Terminate, CheckDirectory, RemoveDirectory,
     TimerFires, DestroyRead, ReconcileQuery, ReconcileCompare, shared
<1>3. ASSUME NEW p \in Proc, VmStep(p)
      PROVE  machines' = machines \/ Record(p) \/ UpdateStatus(p) \/ VmDestroyCommit(p)
  BY <1>3 DEF VmStep, VmSharedStep, EnsureBridge, AllocateAddress, CreateTap, SpawnVmm,
     BootVm, AgentReachable, VmGivesUp, CreateFails, ExitAfterCreate, AskToShutDown, KillVmm,
     DeleteTap, CleanupRootfs, VmTimerFires, ReadVm, DestroyRead, VmReconcileQuery,
     ReconcileCompare, shared
<1>4. ASSUME NEW p \in Proc, CommandInterrupted(p)
      PROVE  machines' = machines
  BY <1>4 DEF CommandInterrupted, CreateFails, Killed, DestroyKilledInCommit,
     VmDestroyKilled, shared
<1>5. CASE HostEvent
  BY <1>5 DEF HostEvent, GuestExits, VmEvent, BindSocket, VmExits, shared
<1> QED
  BY <1>1, <1>2, <1>3, <1>4, <1>5 DEF DispatchNext, DispatchUndisturbed, Work

LEMMA DispatchRecordsComeFromCreates ==
  ASSUME DispatchInv, DispatchNext, NEW id \in Id, ~Recorded(id), ~BeingCreated(id)
  PROVE  ~Recorded(id)'
<1> USE DEF DispatchInv, DispatchTypeOK, Recorded
<1>1. ASSUME NEW p \in Proc, Record(p)
      PROVE  ~Recorded(id)'
  BY <1>1 DEF Record, BeingCreated, Creating, TypeOK
<1>2. ASSUME NEW p \in Proc, UpdateStatus(p)
      PROVE  ~Recorded(id)'
  BY <1>2 DEF UpdateStatus, TypeOK
<1>3. ASSUME NEW p \in Proc, DestroyCommit(p) \/ VmDestroyCommit(p)
      PROVE  ~Recorded(id)'
  BY <1>3 DEF DestroyCommit, AfterDestroy, VmDestroyCommit, WithoutVm, TypeOK
<1> QED
  BY <1>1, <1>2, <1>3, WhoWritesRecords

(* No late write of any command brings back a container or a virtual       *)
(* machine that was destroyed.                                             *)
THEOREM NoMachineComesBack == DispatchSpec => NoResurrection
<1>1. DispatchInv /\ [DispatchNext]_allVars =>
        [\A id \in Id :
           id \notin fresh /\ ~Recorded(id) /\ ~BeingCreated(id) => ~Recorded(id)']_vars
  BY DispatchRecordsComeFromCreates DEF allVars
<1> QED
  BY <1>1, DispatchInvariance, PTL DEF DispatchSpec, NoResurrection

LEMMA WhoRemovesBridge ==
  ASSUME DispatchTypeOK, DispatchNext, bridge, ~bridge'
  PROVE  \E p \in Proc :
           \/ DestroyCommit(p) \/ DestroyKilledInCommit(p)
           \/ VmDestroyCommit(p) \/ VmDestroyKilled(p)
<1>1. ASSUME NEW p \in Proc, Command(p) \/ ReadAll(p) \/ DestroyNextOfAll(p)
      PROVE  FALSE
  BY <1>1 DEF Command, ReadAll, DestroyNextOfAll, PrepareImage, ReadVm, DestroyRead,
     ReconcileRead, shared, vars
<1>2. ASSUME NEW p \in Proc, Step(p)
      PROVE  DestroyCommit(p)
  BY <1>2 DEF Step, EnsureBridge, AllocateAddress, Spawn, ConfigureNetwork, GivesUp, Record,
     CreateFails, ExitAfterCreate, PowerOff, Terminate, CheckDirectory, RemoveDirectory,
     TimerFires, DestroyRead, ReconcileQuery, ReconcileCompare, UpdateStatus, shared
<1>3. ASSUME NEW p \in Proc, VmStep(p)
      PROVE  VmDestroyCommit(p)
  BY <1>3 DEF VmStep, VmSharedStep, EnsureBridge, AllocateAddress, CreateTap, SpawnVmm,
     BootVm, AgentReachable, VmGivesUp, Record, CreateFails, ExitAfterCreate, AskToShutDown,
     KillVmm, DeleteTap, CleanupRootfs, VmTimerFires, ReadVm, DestroyRead, VmReconcileQuery,
     ReconcileCompare, UpdateStatus, shared
<1>4. ASSUME NEW p \in Proc, CommandInterrupted(p)
      PROVE  DestroyKilledInCommit(p) \/ VmDestroyKilled(p)
  BY <1>4 DEF CommandInterrupted, CreateFails, Killed, shared
<1>5. CASE HostEvent
  BY <1>5 DEF HostEvent, GuestExits, VmEvent, BindSocket, VmExits, shared
<1> QED
  BY <1>1, <1>2, <1>3, <1>4, <1>5 DEF DispatchNext, DispatchUndisturbed, Work

LEMMA BridgeKeptByStep ==
  ASSUME DispatchInv, DispatchNext, bridge, ~bridge',
         NEW id \in Id, Recorded(id)', machines'[id].status = "running"
  PROVE  \E p \in Proc : pc[p] = "tornDown" /\ job[p].id = id
<1> USE DEF DispatchInv, DispatchTypeOK
<1>1. PICK p \in Proc :
        \/ DestroyCommit(p) \/ DestroyKilledInCommit(p)
        \/ VmDestroyCommit(p) \/ VmDestroyKilled(p)
  BY WhoRemovesBridge
<1>2. CASE DestroyCommit(p) \/ VmDestroyCommit(p)
  BY <1>2 DEF DestroyCommit, VmDestroyCommit, AnyRunning, NoneLeft, Recorded
<1>3. CASE DestroyKilledInCommit(p) \/ VmDestroyKilled(p)
  <2>1. CASE id = job[p].id
    BY <1>3, <2>1 DEF DestroyKilledInCommit, VmDestroyKilled
  <2>2. CASE id # job[p].id
    <3>1. AfterDestroy(p)[id] = machines[id] /\ WithoutVm(p)[id] = machines[id]
      BY <2>2 DEF AfterDestroy, WithoutVm, TypeOK
    <3> QED
      BY <1>3, <3>1 DEF DestroyKilledInCommit, VmDestroyKilled, AnyRunning, NoneLeft, Recorded
  <2> QED
    BY <2>1, <2>2
<1> QED
  BY <1>1, <1>2, <1>3

(* Neither backend takes the bridge from a machine of the other.           *)
THEOREM BridgeIsKept == DispatchSpec => BridgeKeptForRunning
<1>1. DispatchInv /\ [DispatchNext]_allVars =>
        [bridge /\ ~bridge' =>
           \A id \in Id :
             Recorded(id)' /\ machines'[id].status = "running" =>
               \E p \in Proc : pc[p] = "tornDown" /\ job[p].id = id]_allVars
  BY BridgeKeptByStep
<1> QED
  BY <1>1, DispatchInvariance, PTL DEF DispatchSpec, BridgeKeptForRunning

(* Address and container directory go with the record, whichever backend   *)
(* and however many invocations destroy the machine.                       *)
THEOREM DestroyReleases == DispatchSpec => []ReleasedWithRecord
<1>1. DispatchInv => ReleasedWithRecord
  BY NoIdAssumption DEF DispatchInv, Accounted, ReleasedWithRecord, BeingCreated
<1> QED
  BY <1>1, DispatchInvariance, PTL

-----------------------------------------------------------------------------
(* The refinement of Registry, by both backends on one host.               *)

LEMMA QuietVmSteps ==
  ASSUME TypeOK, NEW p \in Proc,
         \/ CreateTap(p) \/ SpawnVmm(p) \/ BootVm(p) \/ AgentReachable(p)
         \/ AskToShutDown(p) \/ KillVmm(p) \/ DeleteTap(p) \/ CleanupRootfs(p)
         \/ VmDestroyKilled(p)
         \/ \E id \in Id : VmEvent(id)
  PROVE  SameCreates /\ UNCHANGED <<machines, net, fresh, lost>>
<1>1. CASE CreateTap(p) \/ SpawnVmm(p) \/ BootVm(p) \/ AgentReachable(p)
  BY <1>1 DEF CreateTap, SpawnVmm, BootVm, AgentReachable, Goto, SameCreates, Creating, TypeOK,
     shared
<1>2. CASE AskToShutDown(p) \/ KillVmm(p) \/ DeleteTap(p) \/ CleanupRootfs(p)
  BY <1>2 DEF AskToShutDown, KillVmm, DeleteTap, CleanupRootfs, Goto, SameCreates, Creating,
     TypeOK, shared
<1>3. CASE VmDestroyKilled(p)
  BY <1>3 DEF VmDestroyKilled, Finish, SameCreates, Creating, TypeOK
<1>4. CASE \E id \in Id : VmEvent(id)
  BY <1>4 DEF VmEvent, BindSocket, VmExits, SameCreates, shared
<1> QED
  BY <1>1, <1>2, <1>3, <1>4

(* The transaction of the Firecracker destroy never keeps the record.      *)
LEMMA VmCommitIsRemove ==
  ASSUME RegistryInv, NEW p \in Proc, VmDestroyCommit(p)
  PROVE  (Machines!Next \/ UNCHANGED Machines!registry) /\ LostIsOver'
<1> USE DEF RegistryInv, TypeOK
<1>0. PICK id \in Id : id = job[p].id
  BY DEF VmDestroyCommit, CreateOwnsId
<1>1. /\ SameCreates /\ UNCHANGED <<fresh, lost>>
      /\ machines' = WithoutVm(p) /\ net' = PoolWithoutVm(p)
  BY DEF VmDestroyCommit, Finish, SameCreates, Creating
<1>2. CASE Recorded(id)
  <2>1. /\ machines' = [machines EXCEPT ![id] = Absent]
        /\ net' = (IF HasIp(id) THEN Release(net, machines[id].ip) ELSE net)
    BY <1>0, <1>1 DEF WithoutVm, PoolWithoutVm
  <2> QED
    BY <1>1, <1>2, <2>1, RemovalIsRemove DEF Machines!Next
<1>3. CASE ~Recorded(id)
  <2>1. machines' = machines /\ net' = net
    BY <1>0, <1>1, <1>3 DEF WithoutVm, PoolWithoutVm, HasIp, Recorded
  <2> QED
    BY <1>1, <2>1, QuietStep
<1> QED
  BY <1>2, <1>3

LEMMA VmStepRefines ==
  ASSUME RegistryInv, NEW p \in Proc, VmStep(p), job[p].id \in Id
  PROVE  (Machines!Next \/ UNCHANGED Machines!registry) /\ LostIsOver'
<1>1. TypeOK /\ CreateOwnsId
  BY DEF RegistryInv
<1>2. CASE EnsureBridge(p) \/ ExitAfterCreate(p)
  BY <1>1, <1>2, QuietCreates, QuietStep
<1>3. CASE AllocateAddress(p) \/ Record(p) \/ VmGivesUp(p)
  BY <1>3, CreateRefines DEF VmGivesUp
<1>4. CASE VmTimerFires(p)
  <2>1. Begins(p)
    BY <1>1, <1>4, ReadVmBegins DEF VmTimerFires
  <2> QED
    BY <2>1, CreateRefines
<1>5. CASE UpdateStatus(p) \/ VmDestroyCommit(p)
  BY <1>5, UpdateIsChange, VmCommitIsRemove
<1>6. CASE VmReconcileQuery(p)
  <2>1. VmStatus(job[p].id) \in View
    BY DEF VmStatus, View, Status, Pid
  <2> QED
    BY <1>1, <1>6, <2>1, QuietCreates, QuietStep DEF VmReconcileQuery
<1>7. CASE \/ CreateTap(p) \/ SpawnVmm(p) \/ BootVm(p) \/ AgentReachable(p)
           \/ AskToShutDown(p) \/ KillVmm(p) \/ DeleteTap(p) \/ CleanupRootfs(p)
  BY <1>1, <1>7, QuietVmSteps, QuietStep
<1> QED
  BY <1>2, <1>3, <1>4, <1>5, <1>6, <1>7 DEF VmStep, VmSharedStep

LEMMA DispatchStepRefines ==
  ASSUME DispatchInv, LostIsOver, [DispatchNext]_allVars
  PROVE  [Machines!Next]_(Machines!registry) /\ LostIsOver'
<1>1. RegistryInv
  BY DEF DispatchInv, DispatchTypeOK, RegistryInv, LocalsByPoint, Accounted
<1>2. TypeOK /\ CreateOwnsId /\ BackendFits /\ DispatchTypeOK
  BY DEF DispatchInv, DispatchTypeOK
<1>3. ASSUME UNCHANGED vars
      PROVE  UNCHANGED Machines!registry /\ LostIsOver'
  BY <1>1, <1>3, QuietStep DEF vars, SameCreates
<1>4. ASSUME NEW p \in Proc, Command(p) \/ ReadAll(p) \/ DestroyNextOfAll(p)
      PROVE  (Machines!Next \/ UNCHANGED Machines!registry) /\ LostIsOver'
  <2>1. CASE Command(p)
    BY <1>1, <1>2, <2>1, CommandBegins, CreateRefines
  <2>2. CASE ReadAll(p)
    BY <1>3, <2>2 DEF ReadAll
  <2>3. CASE DestroyNextOfAll(p)
    <3>1. Begins(p) \/ UNCHANGED vars
      BY <1>2, <2>3 DEF DestroyNextOfAll, DispatchTypeOK, Begins, Pid
    <3> QED
      BY <1>1, <1>3, <3>1, CreateRefines
  <2> QED
    BY <1>4, <2>1, <2>2, <2>3
<1>5. ASSUME NEW p \in Proc, Work(p)
      PROVE  (Machines!Next \/ UNCHANGED Machines!registry) /\ LostIsOver'
  BY <1>1, <1>2, <1>5, InvocationRefines, VmStepRefines, VmAssumption DEF Work, BackendFits
<1>6. ASSUME NEW p \in Proc, CommandInterrupted(p)
      PROVE  (Machines!Next \/ UNCHANGED Machines!registry) /\ LostIsOver'
  BY <1>1, <1>2, <1>6, InvocationRefines, QuietVmSteps, QuietStep
  DEF CommandInterrupted, Interrupted
<1>7. CASE HostEvent
  <2>1. CASE \E id \in Id : GuestExits(id)
    BY <1>1, <2>1, GuestExitIsQuiet
  <2>2. CASE \E id \in Id : VmEvent(id)
    <3>1. SameCreates /\ UNCHANGED <<machines, net, fresh, lost>>
      BY <2>2 DEF VmEvent, BindSocket, VmExits, SameCreates, shared
    <3> QED
      BY <1>1, <3>1, QuietStep
  <2> QED
    BY <1>7, <2>1, <2>2 DEF HostEvent
<1>8. CASE UNCHANGED allVars
  BY <1>3, <1>8 DEF allVars
<1> QED
  BY <1>4, <1>5, <1>6, <1>7, <1>8 DEF DispatchNext, DispatchUndisturbed

(* Also with virtual machines, a create that failed is over for good.      *)
THEOREM LostIsOverForAll == DispatchSpec => []LostIsOver
<1>1. DispatchInv /\ LostIsOver /\ [DispatchNext]_allVars => LostIsOver'
  BY DispatchStepRefines
<1>2. DispatchInit => LostIsOver
  BY InitRefines DEF DispatchInit
<1> QED
  BY <1>1, <1>2, DispatchInvariance, PTL DEF DispatchSpec

(* Containers and virtual machines together, with destroy --all and all    *)
(* other commands at once, do to machines and addresses what Registry says *)
(* and nothing else.                                                       *)
THEOREM BothBackendsKeepRegistry == DispatchSpec => MachinesComeAndGo
<1>1. DispatchInv /\ LostIsOver /\ [DispatchNext]_allVars =>
        [Machines!Next]_(Machines!registry)
  BY DispatchStepRefines
<1>2. DispatchInit => Machines!Init
  BY InitRefines DEF DispatchInit
<1> QED
  BY <1>1, <1>2, DispatchInvariance, LostIsOverForAll, PTL
  DEF DispatchSpec, MachinesComeAndGo, Machines!Spec

(* No address of either kind of sandbox is given twice, and the pool they  *)
(* share stays exhausted once it is.                                       *)
THEOREM NoAddressTwice == DispatchSpec => Machines!GivenOnce /\ Machines!ExhaustedForGood
<1>1. DispatchInv /\ [Machines!Next]_(Machines!registry) =>
        /\ [\A a \in {o \in Octet : o < net.next} : (net.alloc)'[a] \in {net.alloc[a], NoId}]_
             (Machines!registry)
        /\ [Octet \subseteq {o \in Octet : o < net.next} =>
              \A a \in Octet : net.alloc[a] = NoId => (net.alloc)'[a] = NoId]_(Machines!registry)
  BY NoStepGrantsAgain DEF DispatchInv, DispatchTypeOK
<1> QED
  BY <1>1, BothBackendsKeepRegistry, DispatchInvariance, PTL
  DEF MachinesComeAndGo, Machines!Spec, Machines!GivenOnce, Machines!ExhaustedForGood
=============================================================================
