---------------------------- MODULE NspawnProofs ----------------------------
(***************************************************************************)
(* SandboxInv and what follows from it, for any set of invocations, of     *)
(* machine ids and any last octet.                                         *)
(***************************************************************************)
EXTENDS NspawnRuntime, IpamProofs

LEMMA JobTypes ==
  /\ NoJob \in Job
  /\ Machine = [status : Status, pid : Pid, ip : Octet \cup {NoIp}, timer : BOOLEAN]
BY DEF NoJob, Job, View, Status, Pid, Machine, NoIp

-----------------------------------------------------------------------------
(* Types.                                                                  *)

(* An invocation at work has a machine id.                                 *)
LEMMA JobFields ==
  ASSUME TypeOK, NEW p \in Proc
  PROVE  /\ job[p] \in Job
         /\ job[p].id \in Id \cup {NoId}
         /\ job[p].ip \in Octet \cup {NoIp}
         /\ job[p].timer \in BOOLEAN
         /\ job[p].live \in View
         /\ CreateOwnsId /\ pc[p] # "idle" => job[p].id \in Id
BY DEF TypeOK, Job, CreateOwnsId

LEMMA OverlayTypes ==
  ASSUME TypeOK, NEW p \in Proc,
         NEW id \in Id, NEW nat \in BOOLEAN, NEW timer \in BOOLEAN,
         PrepareImage(p, id, nat, timer)
  PROVE  TypeOK'
BY JobTypes DEF TypeOK, PrepareImage, Goto, Job, View, Status, Pid, Points, Creating

LEMMA EnsureTypes ==
  ASSUME TypeOK, NEW p \in Proc, EnsureBridge(p)
  PROVE  TypeOK'
BY DEF TypeOK, EnsureBridge, Goto, Points, Creating

LEMMA SpawnTypes ==
  ASSUME TypeOK, NEW p \in Proc, Spawn(p)
  PROVE  TypeOK'
BY DEF TypeOK, Spawn, Goto, Points, Creating

LEMMA ConfigureTypes ==
  ASSUME TypeOK, NEW p \in Proc, ConfigureNetwork(p)
  PROVE  TypeOK'
<1>1. guestIp' \in [Id -> Octet \cup {NoIp}]
  BY JobFields DEF TypeOK, ConfigureNetwork
<1> QED
  BY <1>1 DEF TypeOK, ConfigureNetwork, Goto, Points, Creating

LEMMA FailTypes ==
  ASSUME TypeOK, CreateOwnsId, NEW p \in Proc, CreateFails(p)
  PROVE  TypeOK'
<1>1. job[p].id \in Id
  BY JobFields DEF CreateFails, Creating
<1> QED
  BY <1>1, JobTypes DEF TypeOK, CreateFails, Finish, Points

LEMMA AllocateTypes ==
  ASSUME TypeOK, NEW p \in Proc, AllocateAddress(p)
  PROVE  TypeOK'
<1>1. NextFree(net) \in Octet /\ NextFree(net) + 1 \in 0 .. 255
  BY NextFreeIsFree, OctetIsNumber DEF TypeOK, AllocateAddress
<1>2. net' \in NetworkState
  BY <1>1 DEF TypeOK, AllocateAddress, Allocate, NetworkState, Job, Points
<1> QED
  BY <1>1, <1>2 DEF TypeOK, AllocateAddress, Goto, Job, Points, Creating

LEMMA InsertTypes ==
  ASSUME TypeOK, NEW p \in Proc, Record(p)
  PROVE  TypeOK'
<1>1. [status |-> "running", pid |-> "child", ip |-> job[p].ip,
       timer |-> job[p].timer] \in Machine
  BY JobFields DEF Machine, Status, Pid
<1>2. machines' \in [Id -> Machine \cup {Absent}]
  BY <1>1 DEF TypeOK, Record
<1>3. pc' \in [Proc -> Points] /\ job' \in [Proc -> Job]
  BY JobTypes DEF TypeOK, Record, Finish, Points
<1> QED
  BY <1>2, <1>3 DEF TypeOK, Record

LEMMA ExitTypes ==
  ASSUME TypeOK, NEW p \in Proc, ExitAfterCreate(p)
  PROVE  TypeOK'
BY JobTypes DEF TypeOK, ExitAfterCreate, Finish, Points, shared

LEMMA KilledTypes ==
  ASSUME TypeOK, NEW p \in Proc, Killed(p)
  PROVE  TypeOK'
BY JobTypes DEF TypeOK, Killed, Finish, Points, shared

LEMMA DestroyReadTypes ==
  ASSUME TypeOK, NEW p \in Proc, NEW id \in Id, NEW from, NEW pid \in Pid,
         DestroyRead(p, id, from, pid)
  PROVE  TypeOK'
<1>1. [NoJob EXCEPT !.id = id, !.live.pid = pid] \in Job
  BY JobTypes DEF NoJob, Job, View
<1> QED
  BY <1>1 DEF TypeOK, DestroyRead, Goto, Points, Destroying, shared

LEMMA HaltTypes ==
  ASSUME TypeOK, NEW id, Halt(id)
  PROVE  /\ guest' \in [Id -> {"none", "running", "closing"}]
         /\ guestIp' \in [Id -> Octet \cup {NoIp}]
BY DEF TypeOK, Halt

LEMMA ShutdownTypes ==
  ASSUME TypeOK, NEW p \in Proc, PowerOff(p) \/ Terminate(p)
  PROVE  TypeOK'
<1>1. CASE PowerOff(p)
  BY <1>1 DEF TypeOK, PowerOff, Goto, Points, Destroying
<1>2. CASE Terminate(p)
  BY <1>2, HaltTypes DEF TypeOK, Terminate, Goto, Points, Destroying
<1> QED
  BY <1>1, <1>2

LEMMA TeardownTypes ==
  ASSUME TypeOK, NEW p \in Proc, CheckDirectory(p) \/ RemoveDirectory(p)
  PROVE  TypeOK'
<1>1. job' \in [Proc -> Job]
  <2>1. CASE job' = job
    BY <2>1 DEF TypeOK
  <2>2. CASE job' = [job EXCEPT ![p].cleanupFailed = TRUE]
    <3>1. job[p] \in Job
      BY DEF TypeOK
    <3>2. [job[p] EXCEPT !.cleanupFailed = TRUE] \in Job
      BY <3>1 DEF Job
    <3> QED
      BY <2>2, <3>2 DEF TypeOK
  <2>3. job' = job \/ job' = [job EXCEPT ![p].cleanupFailed = TRUE]
    <3>1. CASE CheckDirectory(p)
      BY <3>1 DEF CheckDirectory
    <3>2. CASE RemoveDirectory(p)
      BY <3>2 DEF RemoveDirectory
    <3> QED
      BY <3>1, <3>2
  <2> QED
    BY <2>1, <2>2, <2>3
<1>2. CASE CheckDirectory(p)
  <2>1. pc' \in [Proc -> Points]
    BY <1>2 DEF TypeOK, CheckDirectory, Goto, Points, Destroying
  <2> QED
    BY <1>1, <1>2, <2>1 DEF TypeOK, CheckDirectory, shared
<1>3. CASE RemoveDirectory(p)
  BY <1>1, <1>3 DEF TypeOK, RemoveDirectory, Goto, Points, Destroying
<1> QED
  BY <1>2, <1>3

(* What destroy's closure makes of the state.                              *)
LEMMA AfterDestroyTypes ==
  ASSUME TypeOK, NEW p \in Proc
  PROVE  /\ AfterDestroy(p) \in [Id -> Machine \cup {Absent}]
         /\ PoolAfterDestroy(p) \in NetworkState
<1>1. AfterDestroy(p) \in [Id -> Machine \cup {Absent}]
  <2>1. \A id \in Id : Recorded(id) => [machines[id] EXCEPT !.status = "failed"] \in Machine
    BY DEF TypeOK, Recorded, Machine, Status
  <2> QED
    BY <2>1 DEF TypeOK, AfterDestroy
<1>2. \A ip : Release(net, ip) \in NetworkState
  BY DEF TypeOK, NetworkState, Release
<1> QED
  BY <1>1, <1>2 DEF TypeOK, PoolAfterDestroy

LEMMA CommitTypes ==
  ASSUME TypeOK, NEW p \in Proc, DestroyCommit(p) \/ DestroyKilledInCommit(p)
  PROVE  TypeOK'
<1>1. bridge' \in BOOLEAN
  BY DEF TypeOK, DestroyCommit, DestroyKilledInCommit
<1> QED
  BY <1>1, AfterDestroyTypes, JobTypes DEF TypeOK, DestroyCommit, DestroyKilledInCommit,
     Finish, Points

(* A record whose status is updated is otherwise the one it was.           *)
LEMMA StatusUpdated ==
  ASSUME TypeOK, NEW p \in Proc, UpdateStatus(p)
  PROVE  /\ machines' \in [Id -> Machine \cup {Absent}]
         /\ \A id \in Id : machines'[id] # Absent <=> machines[id] # Absent
         /\ \A id \in Id : machines[id] # Absent => machines'[id].ip = machines[id].ip
<1> DEFINE i == job[p].id
           m == [machines[i] EXCEPT !.status = job[p].live.status, !.pid = job[p].live.pid]
<1>1. CASE i \in Id /\ Recorded(i)
  <2>1. machines[i] \in Machine /\ job[p].live \in View
    BY <1>1, JobFields DEF TypeOK, Recorded
  <2>2. m \in Machine /\ m.ip = machines[i].ip
    BY <2>1 DEF Machine, View
  <2>3. machines' = [machines EXCEPT ![i] = m]
    BY <1>1 DEF UpdateStatus
  <2> HIDE DEF m
  <2>4. m # Absent
    BY <2>2, AbsentAssumption
  <2> QED
    BY <1>1, <2>2, <2>3, <2>4 DEF TypeOK, Recorded
<1>2. CASE ~(i \in Id /\ Recorded(i))
  <2>1. machines' = machines
    BY <1>2 DEF UpdateStatus, TypeOK
  <2> QED
    BY <2>1 DEF TypeOK, Recorded
<1> QED
  BY <1>1, <1>2

LEMMA ReconcileTypes ==
  ASSUME TypeOK, CreateOwnsId, NEW p \in Proc,
         \/ \E id \in Id : ReconcileRead(p, id)
         \/ \E live \in View : ReconcileCompare(p, live)
         \/ UpdateStatus(p)
  PROVE  TypeOK'
<1>1. ASSUME NEW id \in Id, ReconcileRead(p, id)
      PROVE  TypeOK'
  <2>1. machines[id] \in Machine
    BY <1>1 DEF TypeOK, ReconcileRead, Recorded
  <2>2. [NoJob EXCEPT !.id = id,
           !.live = [status |-> machines[id].status, pid |-> machines[id].pid]] \in Job
    BY <2>1, JobTypes DEF Machine, View, Job
  <2> QED
    BY <1>1, <2>2 DEF TypeOK, ReconcileRead, Goto, Points, shared
<1>2. ASSUME NEW live \in View, ReconcileCompare(p, live)
      PROVE  TypeOK'
  <2>1. job' \in [Proc -> Job]
    BY <1>2, JobTypes DEF TypeOK, ReconcileCompare, Finish, Job
  <2> QED
    BY <1>2, <2>1 DEF TypeOK, ReconcileCompare, Finish, Points, shared
<1>3. CASE UpdateStatus(p)
  <2>1. machines' \in [Id -> Machine \cup {Absent}]
    BY <1>3, StatusUpdated
  <2> QED
    BY <1>3, <2>1, JobTypes DEF TypeOK, UpdateStatus, Finish, Points
<1> QED
  BY <1>1, <1>2, <1>3

LEMMA QueryCompares ==
  ASSUME TypeOK, CreateOwnsId, NEW p \in Proc, ReconcileQuery(p)
  PROVE  \E live \in View : ReconcileCompare(p, live)
<1>1. job[p].id \in Id
  BY DEF ReconcileQuery, ReconcileCompare, CreateOwnsId
<1>2. NspawnStatus(job[p].id) \in View
  BY <1>1 DEF TypeOK, NspawnStatus, View, Status, Pid
<1> QED
  BY <1>2 DEF ReconcileQuery

-----------------------------------------------------------------------------
(* The first step of a command, and of the destroy of a timer.             *)
Begins(p) ==
  \/ \E id \in Id, nat, timer \in BOOLEAN : PrepareImage(p, id, nat, timer)
  \/ \E id \in Id, from \in {"idle", "created"}, pid \in Pid : DestroyRead(p, id, from, pid)
  \/ \E id \in Id : ReconcileRead(p, id)

LEMMA StartBegins ==
  ASSUME TypeOK, CreateOwnsId, NEW p \in Proc, Start(p) \/ TimerFires(p)
  PROVE  Begins(p)
<1>1. "none" \in Pid
  BY DEF Pid
<1>2. CASE Start(p)
  BY <1>1, <1>2 DEF Start, Begins
<1>3. CASE TimerFires(p)
  <2>1. job[p].id \in Id
    BY <1>3 DEF TimerFires, DestroyRead, Goto, CreateOwnsId
  <2> QED
    BY <1>1, <1>3, <2>1 DEF TimerFires, Begins
<1> QED
  BY <1>2, <1>3

LEMMA BeginTypes ==
  ASSUME TypeOK, CreateOwnsId, NEW p \in Proc, Begins(p)
  PROVE  TypeOK'
BY OverlayTypes, DestroyReadTypes, ReconcileTypes DEF Begins

-----------------------------------------------------------------------------
(* Addresses.                                                              *)

(* A step after which nobody has an address he did not have before.        *)
LEMMA NothingGained ==
  ASSUME NoSharedAddress, NextIsPastAll, net'.next = net.next,
         \A id \in Id, o \in Octet : HoldsAddress(id, o)' => HoldsAddress(id, o)
  PROVE  NoSharedAddress' /\ NextIsPastAll'
BY DEF NoSharedAddress, NextIsPastAll

LEMMA StartGainsNothing ==
  ASSUME TypeOK, TypeOK', CreateOwnsId, NEW p \in Proc, Begins(p)
  PROVE  /\ net' = net
         /\ \A id \in Id, o \in Octet : HoldsAddress(id, o)' => HoldsAddress(id, o)
<1>1. \/ \E id \in Id, nat, timer \in BOOLEAN : PrepareImage(p, id, nat, timer)
      \/ \E id \in Id, from \in {"idle", "created"}, pid \in Pid : DestroyRead(p, id, from, pid)
      \/ \E id \in Id : ReconcileRead(p, id)
  BY DEF Begins
<1>2. UNCHANGED <<machines, net, guestIp>>
  BY <1>1 DEF PrepareImage, DestroyRead, ReconcileRead, shared
<1>3. \A q \in Proc : pc'[q] \in Creating =>
        (pc'[q] = pc[q] /\ job'[q] = job[q]) \/ job'[q].ip = NoIp
  <2>1. CASE \E id \in Id, nat, timer \in BOOLEAN : PrepareImage(p, id, nat, timer)
    BY <2>1 DEF PrepareImage, Goto, TypeOK, NoJob
  <2>2. CASE \E id \in Id, from \in {"idle", "created"}, pid \in Pid : DestroyRead(p, id, from, pid)
    BY <2>2 DEF DestroyRead, Goto, TypeOK, Creating
  <2>3. CASE \E id \in Id : ReconcileRead(p, id)
    BY <2>3 DEF ReconcileRead, Goto, TypeOK, Creating
  <2> QED
    BY <1>1, <2>1, <2>2, <2>3
<1> QED
  BY <1>2, <1>3, OctetIsNumber DEF HoldsAddress, Recorded

LEMMA CreateGainsNothing ==
  ASSUME TypeOK, TypeOK', CreateOwnsId, NEW p \in Proc,
         \/ EnsureBridge(p)
         \/ Spawn(p)
         \/ ConfigureNetwork(p)
         \/ Record(p)
         \/ CreateFails(p)
         \/ ExitAfterCreate(p)
  PROVE  /\ net' = net
         /\ \A id \in Id, o \in Octet : HoldsAddress(id, o)' => HoldsAddress(id, o)
<1>1. CASE EnsureBridge(p) \/ Spawn(p)
  BY <1>1 DEF EnsureBridge, Spawn, Goto, HoldsAddress, Recorded, Creating, TypeOK
<1>2. CASE ConfigureNetwork(p)
  BY <1>2 DEF ConfigureNetwork, Goto, HoldsAddress, Recorded, Creating, TypeOK
<1>3. CASE Record(p)
  BY <1>3, JobFields DEF Record, Finish, HoldsAddress, Recorded, Creating, TypeOK
<1>4. CASE CreateFails(p) \/ ExitAfterCreate(p)
  BY <1>4 DEF CreateFails, ExitAfterCreate, Finish, HoldsAddress, Recorded, Creating,
     TypeOK, shared
<1> QED
  BY <1>1, <1>2, <1>3, <1>4

LEMMA DestroyGainsNothing ==
  ASSUME TypeOK, TypeOK', CreateOwnsId, NEW p \in Proc,
         \/ PowerOff(p)
         \/ Terminate(p)
         \/ CheckDirectory(p)
         \/ RemoveDirectory(p)
         \/ DestroyCommit(p)
         \/ DestroyKilledInCommit(p)
         \/ Killed(p)
  PROVE  /\ net'.next = net.next
         /\ \A id \in Id, o \in Octet : HoldsAddress(id, o)' => HoldsAddress(id, o)
<1>1. CASE PowerOff(p) \/ CheckDirectory(p) \/ RemoveDirectory(p)
  BY <1>1 DEF PowerOff, CheckDirectory, RemoveDirectory, shared, Goto, HoldsAddress,
     Recorded, Creating, TypeOK
<1>2. CASE Terminate(p)
  BY <1>2, OctetIsNumber DEF Terminate, Halt, Goto, HoldsAddress, Recorded, Creating, TypeOK
<1>3. CASE DestroyCommit(p)
  <2>1. net'.next = net.next /\ \A o \in Octet : net'.alloc[o] \in {net.alloc[o], NoId}
    BY <1>3 DEF DestroyCommit, PoolAfterDestroy, Release, TypeOK, NetworkState
  <2>2. \A id \in Id : Recorded(id)' => Recorded(id) /\ machines'[id].ip = machines[id].ip
    BY <1>3 DEF DestroyCommit, AfterDestroy, Recorded, TypeOK, Machine
  <2>3. UNCHANGED guestIp /\ \A q \in Proc : pc'[q] \in Creating =>
          pc'[q] = pc[q] /\ job'[q] = job[q]
    BY <1>3 DEF DestroyCommit, Finish, TypeOK, Creating
  <2> QED
    BY <2>1, <2>2, <2>3, NoIdAssumption DEF HoldsAddress
<1>4. CASE DestroyKilledInCommit(p) \/ Killed(p)
  BY <1>4 DEF DestroyKilledInCommit, Killed, Finish, HoldsAddress, Recorded, Creating,
     TypeOK, shared, Destroying
<1> QED
  BY <1>1, <1>2, <1>3, <1>4

LEMMA OthersGainNothing ==
  ASSUME TypeOK, TypeOK', CreateOwnsId,
         \/ \E p \in Proc, live \in View : ReconcileCompare(p, live)
         \/ \E p \in Proc : UpdateStatus(p)
         \/ \E id \in Id : GuestExits(id)
  PROVE  /\ net' = net
         /\ \A id \in Id, o \in Octet : HoldsAddress(id, o)' => HoldsAddress(id, o)
<1>1. ASSUME NEW p \in Proc, NEW live \in View, ReconcileCompare(p, live)
      PROVE  /\ net' = net
             /\ \A id \in Id, o \in Octet : HoldsAddress(id, o)' => HoldsAddress(id, o)
  BY <1>1 DEF ReconcileCompare, Finish, HoldsAddress, Recorded, Creating,
     TypeOK, shared
<1>2. ASSUME NEW p \in Proc, UpdateStatus(p)
      PROVE  /\ net' = net
             /\ \A id \in Id, o \in Octet : HoldsAddress(id, o)' => HoldsAddress(id, o)
  <2>1. /\ \A id \in Id : machines'[id] # Absent <=> machines[id] # Absent
        /\ \A id \in Id : machines[id] # Absent => machines'[id].ip = machines[id].ip
    BY <1>2, StatusUpdated
  <2>2. net' = net /\ guestIp' = guestIp
    BY <1>2 DEF UpdateStatus
  <2>3. \A q \in Proc : pc'[q] \in Creating => pc[q] \in Creating /\ job'[q] = job[q]
    BY <1>2 DEF UpdateStatus, Finish, Creating, TypeOK
  <2> QED
    BY <2>1, <2>2, <2>3 DEF HoldsAddress, Recorded
<1>3. ASSUME NEW id \in Id, GuestExits(id)
      PROVE  /\ net' = net
             /\ \A i \in Id, o \in Octet : HoldsAddress(i, o)' => HoldsAddress(i, o)
  BY <1>3, OctetIsNumber DEF GuestExits, Halt, HoldsAddress, Recorded, TypeOK
<1> QED
  BY <1>1, <1>2, <1>3

(* The one step that hands an address out takes one past all others.       *)
LEMMA AllocateKeepsUnique ==
  ASSUME TypeOK, TypeOK', NoSharedAddress, NextIsPastAll, NEW p \in Proc, AllocateAddress(p)
  PROVE  NoSharedAddress' /\ NextIsPastAll'
<1> DEFINE new == NextFree(net)
<1>1. new \in Octet /\ new >= net.next /\ net'.next = new + 1
  BY NextFreeIsFree DEF TypeOK, AllocateAddress, Allocate
<1>2. \A id \in Id, o \in Octet :
        HoldsAddress(id, o)' => HoldsAddress(id, o) \/ (id = job[p].id /\ o = new)
  <2>1. \A o \in Octet : net'.alloc[o] = net.alloc[o] \/ (o = new /\ net'.alloc[o] = job[p].id)
    BY <1>1 DEF AllocateAddress, Allocate, TypeOK, NetworkState
  <2>2. \A q \in Proc : pc'[q] \in Creating =>
          /\ pc[q] \in Creating
          /\ job'[q].id = job[q].id
          /\ job'[q].ip = job[q].ip \/ (q = p /\ job'[q].ip = new)
    BY DEF AllocateAddress, Goto, Creating, TypeOK, Job
  <2>3. UNCHANGED <<machines, guestIp>>
    BY DEF AllocateAddress
  <2> QED
    BY <2>1, <2>2, <2>3 DEF HoldsAddress, Recorded
<1>3. net.next \in Int /\ \A o \in Octet : o \in Int
  BY OctetIsNumber DEF TypeOK, NetworkState
<1>4. \A id \in Id : ~HoldsAddress(id, new)
  BY <1>1, <1>3 DEF NextIsPastAll
<1>5. NoSharedAddress'
  BY <1>2, <1>4 DEF NoSharedAddress
<1>6. NextIsPastAll'
  BY <1>1, <1>2, <1>3 DEF NextIsPastAll
<1> QED
  BY <1>5, <1>6

-----------------------------------------------------------------------------
(* Who works on an id.                                                     *)

LEMMA StartOwnsId ==
  ASSUME TypeOK, CreateOwnsId, NEW p \in Proc, Begins(p)
  PROVE  CreateOwnsId'
<1>1. ASSUME NEW id \in Id, NEW nat \in BOOLEAN, NEW timer \in BOOLEAN,
             PrepareImage(p, id, nat, timer)
      PROVE  CreateOwnsId'
  BY <1>1 DEF PrepareImage, Goto, CreateOwnsId, Recorded, Creating, TypeOK, NoJob
<1>2. ASSUME NEW id \in Id, NEW from \in {"idle", "created"}, NEW pid \in Pid,
             DestroyRead(p, id, from, pid)
      PROVE  CreateOwnsId'
  BY <1>2 DEF DestroyRead, Goto, CreateOwnsId, Recorded, Creating, TypeOK, NoJob, shared
<1>3. ASSUME NEW id \in Id, ReconcileRead(p, id)
      PROVE  CreateOwnsId'
  BY <1>3 DEF ReconcileRead, Goto, CreateOwnsId, Recorded, Creating, TypeOK, NoJob, shared
<1> QED
  BY <1>1, <1>2, <1>3 DEF Begins

LEMMA CreateStepsOwnId ==
  ASSUME TypeOK, CreateOwnsId, NEW p \in Proc,
         \/ EnsureBridge(p)
         \/ AllocateAddress(p)
         \/ Spawn(p)
         \/ ConfigureNetwork(p)
         \/ Record(p)
         \/ CreateFails(p)
         \/ ExitAfterCreate(p)
  PROVE  CreateOwnsId'
<1>1. CASE EnsureBridge(p) \/ Spawn(p) \/ ConfigureNetwork(p)
  BY <1>1 DEF EnsureBridge, Spawn, ConfigureNetwork, Goto, CreateOwnsId, Recorded, Creating,
     TypeOK
<1>2. CASE AllocateAddress(p)
  BY <1>2 DEF AllocateAddress, Goto, CreateOwnsId, Recorded, Creating, TypeOK, Job
<1>3. CASE Record(p)
  <2>1. pc[p] = "configured" /\ job[p].id \in Id \ fresh
    BY <1>3 DEF Record, CreateOwnsId
  <2>2. \A id \in Id : id # job[p].id => machines'[id] = machines[id]
    BY <1>3 DEF Record, TypeOK
  <2>3. UNCHANGED fresh /\ \A q \in Proc :
          \/ q # p /\ pc'[q] = pc[q] /\ job'[q] = job[q]
          \/ q = p /\ pc'[q] = "created" /\ job'[q] = job[q]
          \/ q = p /\ pc'[q] = "idle"
    BY <1>3 DEF Record, Finish, TypeOK
  <2> QED
    BY <2>1, <2>2, <2>3 DEF CreateOwnsId, Recorded, Creating, TypeOK
<1>4. CASE CreateFails(p) \/ ExitAfterCreate(p)
  BY <1>4 DEF CreateFails, ExitAfterCreate, Finish, CreateOwnsId, Recorded, Creating, TypeOK,
     shared
<1> QED
  BY <1>1, <1>2, <1>3, <1>4

LEMMA DestroyOwnsId ==
  ASSUME TypeOK, CreateOwnsId, NEW p \in Proc,
         \/ PowerOff(p)
         \/ Terminate(p)
         \/ CheckDirectory(p)
         \/ RemoveDirectory(p)
         \/ DestroyCommit(p)
         \/ DestroyKilledInCommit(p)
         \/ Killed(p)
  PROVE  CreateOwnsId'
<1>1. CASE PowerOff(p) \/ Terminate(p)
  BY <1>1 DEF PowerOff, Terminate, Goto, CreateOwnsId, Recorded, Creating, TypeOK
<1>2. CASE CheckDirectory(p) \/ RemoveDirectory(p)
  <2>1. /\ UNCHANGED <<machines, fresh>>
        /\ pc[p] \in Destroying /\ pc'[p] \in Destroying
        /\ \A q \in Proc : q # p => pc'[q] = pc[q]
        /\ \A q \in Proc : job'[q].id = job[q].id
    BY <1>2 DEF CheckDirectory, RemoveDirectory, Goto, Destroying, TypeOK, Job, shared
  <2> QED
    BY <2>1 DEF CreateOwnsId, Recorded, Creating, Destroying
<1>3. CASE DestroyCommit(p)
  <2>1. \A id \in Id : Recorded(id)' => Recorded(id)
    BY <1>3 DEF DestroyCommit, AfterDestroy, Recorded, TypeOK
  <2> QED
    BY <1>3, <2>1 DEF DestroyCommit, Finish, CreateOwnsId, Creating, TypeOK
<1>4. CASE DestroyKilledInCommit(p) \/ Killed(p)
  BY <1>4 DEF DestroyKilledInCommit, Killed, Finish, CreateOwnsId, Recorded, Creating, TypeOK,
     shared
<1> QED
  BY <1>1, <1>2, <1>3, <1>4

LEMMA OthersOwnId ==
  ASSUME TypeOK, CreateOwnsId,
         \/ \E p \in Proc, live \in View : ReconcileCompare(p, live)
         \/ \E p \in Proc : UpdateStatus(p)
         \/ \E id \in Id : GuestExits(id)
  PROVE  CreateOwnsId'
<1>1. ASSUME NEW p \in Proc, NEW live \in View, ReconcileCompare(p, live)
      PROVE  CreateOwnsId'
  <2>1. UNCHANGED shared /\ \A q \in Proc :
          \/ pc'[q] = "idle"
          \/ pc'[q] = "update" /\ pc[q] # "idle" /\ job'[q].id = job[q].id
          \/ pc'[q] = pc[q] /\ job'[q] = job[q]
    BY <1>1 DEF ReconcileCompare, Finish, TypeOK, Job
  <2> QED
    BY <2>1 DEF CreateOwnsId, Recorded, Creating, shared
<1>2. ASSUME NEW p \in Proc, UpdateStatus(p)
      PROVE  CreateOwnsId'
  <2>1. \A id \in Id : Recorded(id)' => Recorded(id)
    BY <1>2 DEF UpdateStatus, Recorded, TypeOK
  <2> QED
    BY <1>2, <2>1 DEF UpdateStatus, Finish, CreateOwnsId, Creating, TypeOK
<1>3. ASSUME NEW id \in Id, GuestExits(id)
      PROVE  CreateOwnsId'
  BY <1>3 DEF GuestExits, CreateOwnsId, Recorded
<1> QED
  BY <1>1, <1>2, <1>3

-----------------------------------------------------------------------------
(* The recorded addresses, and those on their way to a record.             *)

LEMMA StartKeepsOwners ==
  ASSUME TypeOK, RecordOwnsAddress, NEW p \in Proc, Begins(p)
  PROVE  RecordOwnsAddress'
<1>1. ASSUME NEW id \in Id, NEW nat \in BOOLEAN, NEW timer \in BOOLEAN,
             PrepareImage(p, id, nat, timer)
      PROVE  RecordOwnsAddress'
  BY <1>1 DEF PrepareImage, Goto, RecordOwnsAddress, HasIp, Recorded, Creating, TypeOK, NoJob
<1>2. ASSUME NEW id \in Id, NEW from \in {"idle", "created"}, NEW pid \in Pid,
         DestroyRead(p, id, from, pid)
      PROVE  RecordOwnsAddress'
  BY <1>2 DEF DestroyRead, Goto, RecordOwnsAddress, HasIp, Recorded, Creating, TypeOK, shared
<1>3. ASSUME NEW id \in Id, ReconcileRead(p, id)
      PROVE  RecordOwnsAddress'
  BY <1>3 DEF ReconcileRead, Goto, RecordOwnsAddress, HasIp, Recorded, Creating, TypeOK, shared
<1> QED
  BY <1>1, <1>2, <1>3 DEF Begins

LEMMA CreateKeepsOwners ==
  ASSUME TypeOK, RecordOwnsAddress, CreateOwnsId, NEW p \in Proc,
         \/ EnsureBridge(p)
         \/ AllocateAddress(p)
         \/ Spawn(p)
         \/ ConfigureNetwork(p)
         \/ Record(p)
         \/ CreateFails(p)
         \/ ExitAfterCreate(p)
  PROVE  RecordOwnsAddress'
<1>1. CASE EnsureBridge(p) \/ Spawn(p) \/ ConfigureNetwork(p)
  BY <1>1 DEF EnsureBridge, Spawn, ConfigureNetwork, Goto, RecordOwnsAddress, HasIp,
     Recorded, Creating, TypeOK
<1>2. CASE AllocateAddress(p)
  <2>1. NextFree(net) \in Octet /\ net.alloc[NextFree(net)] = NoId
    BY <1>2, NextFreeIsFree DEF TypeOK, AllocateAddress
  <2>2. /\ \A o \in Octet : net.alloc[o] # NoId => net'.alloc[o] = net.alloc[o]
        /\ net'.alloc[NextFree(net)] = job[p].id
    BY <1>2, <2>1 DEF AllocateAddress, Allocate, TypeOK, NetworkState
  <2>3. UNCHANGED machines /\ \A q \in Proc :
          /\ pc'[q] \in Creating => pc[q] \in Creating
          /\ job'[q].id = job[q].id
          /\ q # p => job'[q].ip = job[q].ip
          /\ q = p => job'[q].ip = NextFree(net)
    BY <1>2 DEF AllocateAddress, Goto, Creating, TypeOK, Job
  <2>4. /\ \A id \in Id : HasIp(id) => machines[id].ip \in Octet
        /\ \A q \in Proc : job[q].ip # NoIp => job[q].ip \in Octet
        /\ \A q \in Proc : pc[q] \in Creating => job[q].id # NoId
    BY JobFields, NoIdAssumption DEF HasIp, Recorded, TypeOK, Machine, CreateOwnsId, Creating
  <2> QED
    BY <2>1, <2>2, <2>3, <2>4, NoIdAssumption DEF RecordOwnsAddress, HasIp, Recorded
<1>3. CASE Record(p)
  <2>1. job[p].id \in Id /\ pc[p] \in Creating
    BY <1>3, JobFields DEF Record, Creating
  <2>2. UNCHANGED net /\ \A id \in Id :
          \/ machines'[id] = machines[id]
          \/ id = job[p].id /\ machines'[id].ip = job[p].ip
    BY <1>3 DEF Record, TypeOK
  <2>3. \A q \in Proc : pc'[q] \in Creating => pc'[q] = pc[q] /\ job'[q] = job[q]
    BY <1>3 DEF Record, Finish, TypeOK, Creating
  <2> QED
    BY <2>1, <2>2, <2>3 DEF RecordOwnsAddress, HasIp, Recorded
<1>4. CASE CreateFails(p) \/ ExitAfterCreate(p)
  BY <1>4 DEF CreateFails, ExitAfterCreate, Finish, RecordOwnsAddress, HasIp, Recorded,
     Creating, TypeOK, shared
<1> QED
  BY <1>1, <1>2, <1>3, <1>4

LEMMA DestroyKeepsOwners ==
  ASSUME TypeOK, RecordOwnsAddress, CreateOwnsId, NEW p \in Proc,
         \/ PowerOff(p)
         \/ Terminate(p)
         \/ CheckDirectory(p)
         \/ RemoveDirectory(p)
         \/ DestroyCommit(p)
         \/ DestroyKilledInCommit(p)
         \/ Killed(p)
  PROVE  RecordOwnsAddress'
<1>1. CASE PowerOff(p) \/ Terminate(p) \/ CheckDirectory(p) \/ RemoveDirectory(p)
  BY <1>1 DEF PowerOff, Terminate, CheckDirectory, RemoveDirectory, shared, Goto,
     RecordOwnsAddress, HasIp, Recorded,
     Creating, TypeOK
<1>2. CASE DestroyCommit(p)
  <2>1. PICK id \in Id : id = job[p].id
    BY <1>2, JobFields DEF DestroyCommit
  <2>2. \A q \in Proc : pc'[q] \in Creating =>
          pc[q] \in Creating /\ job'[q] = job[q]
    BY <1>2 DEF DestroyCommit, Finish, TypeOK, Creating
  <2>3. \A i \in Id : HasIp(i)' => HasIp(i) /\ machines'[i].ip = machines[i].ip
    BY <1>2 DEF DestroyCommit, AfterDestroy, HasIp, Recorded, TypeOK, Machine
  <2>4. \A i \in Id : HasIp(i) => machines[i].ip \in Octet
    BY DEF HasIp, Recorded, TypeOK, Machine
  <2>5. \A q \in Proc : job[q].ip # NoIp => job[q].ip \in Octet
    BY JobFields
  <2>6. CASE HasIp(id) /\ ~job[p].cleanupFailed
    <3>1. ~HasIp(id)'
      BY <1>2, <2>1, <2>6 DEF DestroyCommit, AfterDestroy, HasIp, Recorded, TypeOK
    <3>2. \A o \in Octet : net.alloc[o] # id => net'.alloc[o] = net.alloc[o]
      BY <1>2, <2>1, <2>6 DEF DestroyCommit, PoolAfterDestroy, Release, TypeOK, NetworkState,
         RecordOwnsAddress
    <3>3. \A q \in Proc : pc[q] \in Creating => job[q].id # id
      BY <2>6 DEF CreateOwnsId, HasIp
    <3> QED
      BY <2>2, <2>3, <2>4, <2>5, <3>1, <3>2, <3>3 DEF RecordOwnsAddress
  <2>7. CASE ~(HasIp(id) /\ ~job[p].cleanupFailed)
    <3>1. net' = net
      BY <1>2, <2>1, <2>7 DEF DestroyCommit, PoolAfterDestroy
    <3> QED
      BY <2>2, <2>3, <3>1 DEF RecordOwnsAddress
  <2> QED
    BY <2>6, <2>7
<1>3. CASE DestroyKilledInCommit(p) \/ Killed(p)
  BY <1>3 DEF DestroyKilledInCommit, Killed, Finish, RecordOwnsAddress, HasIp, Recorded,
     Creating, TypeOK, shared
<1> QED
  BY <1>1, <1>2, <1>3

LEMMA OthersKeepOwners ==
  ASSUME TypeOK, RecordOwnsAddress,
         \/ \E p \in Proc, live \in View : ReconcileCompare(p, live)
         \/ \E p \in Proc : UpdateStatus(p)
         \/ \E id \in Id : GuestExits(id)
  PROVE  RecordOwnsAddress'
<1>1. ASSUME NEW p \in Proc, NEW live \in View, ReconcileCompare(p, live)
      PROVE  RecordOwnsAddress'
  BY <1>1 DEF ReconcileCompare, Finish, RecordOwnsAddress, HasIp, Recorded,
     Creating, TypeOK, shared
<1>2. ASSUME NEW p \in Proc, UpdateStatus(p)
      PROVE  RecordOwnsAddress'
  <2>1. \A id \in Id : HasIp(id)' => HasIp(id) /\ machines'[id].ip = machines[id].ip
    BY <1>2 DEF UpdateStatus, HasIp, Recorded, TypeOK, Machine
  <2> QED
    BY <1>2, <2>1 DEF UpdateStatus, Finish, RecordOwnsAddress, Creating, TypeOK
<1>3. ASSUME NEW id \in Id, GuestExits(id)
      PROVE  RecordOwnsAddress'
  BY <1>3 DEF GuestExits, RecordOwnsAddress, HasIp, Recorded
<1> QED
  BY <1>1, <1>2, <1>3

-----------------------------------------------------------------------------
(* What is handed out and what is left.                                    *)

(* The records and creates that account for addresses and directories.     *)
LEMMA StartAccounts ==
  ASSUME TypeOK, CreateOwnsId, NEW S, LocalsByPoint(S), Accounted(S), NEW p \in Proc,
         Begins(p)
  PROVE  LocalsByPoint(S)' /\ Accounted(S)'
<1>1. ASSUME NEW id \in Id, NEW nat \in BOOLEAN, NEW timer \in BOOLEAN,
             PrepareImage(p, id, nat, timer)
      PROVE  LocalsByPoint(S)' /\ Accounted(S)'
  <2>1. /\ id \in fresh /\ dirs' = dirs \cup {id}
        /\ UNCHANGED <<machines, net, lost>>
        /\ pc[p] = "idle" /\ pc'[p] = "prepared" /\ job'[p].id = id /\ job'[p].ip = NoIp
        /\ \A q \in Proc : q # p => pc'[q] = pc[q] /\ job'[q] = job[q]
    BY <1>1 DEF PrepareImage, Goto, TypeOK, NoJob
  <2>2. LocalsByPoint(S)'
    BY <2>1 DEF LocalsByPoint, CreateOwnsId
  <2>3. \A q \in Proc : pc[q] \in Creating => pc'[q] \in Creating /\ job'[q] = job[q]
    BY <2>1 DEF Creating
  <2>4. BeingCreated(id)'
    BY <2>1 DEF BeingCreated, Creating
  <2> QED
    BY <2>1, <2>2, <2>3, <2>4 DEF Accounted, BeingCreated, Recorded
<1>2. ASSUME NEW id \in Id, NEW from \in {"idle", "created"}, NEW pid \in Pid,
             DestroyRead(p, id, from, pid)
      PROVE  LocalsByPoint(S)' /\ Accounted(S)'
  BY <1>2 DEF DestroyRead, Goto, LocalsByPoint, Accounted, BeingCreated, Recorded, Creating,
     TypeOK, shared
<1>3. ASSUME NEW id \in Id, ReconcileRead(p, id)
      PROVE  LocalsByPoint(S)' /\ Accounted(S)'
  BY <1>3 DEF ReconcileRead, Goto, LocalsByPoint, Accounted, BeingCreated, Recorded, Creating,
     TypeOK, shared
<1> QED
  BY <1>1, <1>2, <1>3 DEF Begins

LEMMA CreateAccounts ==
  ASSUME TypeOK, CreateOwnsId, NEW S, LocalsByPoint(S), Accounted(S), NEW p \in Proc,
         \/ EnsureBridge(p)
         \/ AllocateAddress(p)
         \/ Spawn(p)
         \/ ConfigureNetwork(p)
         \/ Record(p)
         \/ CreateFails(p)
         \/ ExitAfterCreate(p)
  PROVE  LocalsByPoint(S)' /\ Accounted(S)'
<1>1. CASE EnsureBridge(p) \/ Spawn(p) \/ ConfigureNetwork(p)
  BY <1>1 DEF EnsureBridge, Spawn, ConfigureNetwork, Goto, LocalsByPoint, Accounted,
     BeingCreated, Recorded, Creating, TypeOK
<1>2. CASE AllocateAddress(p)
  <2>1. /\ pc[p] = "networked" /\ pc'[p] = "allocated"
        /\ job'[p].id = job[p].id /\ job[p].ip = NoIp /\ job'[p].ip = NextFree(net)
        /\ \A q \in Proc : q # p => pc'[q] = pc[q] /\ job'[q] = job[q]
    BY <1>2 DEF AllocateAddress, Goto, TypeOK, Job, LocalsByPoint
  <2>2. \A o \in Octet :
          \/ net'.alloc[o] = net.alloc[o]
          \/ o = NextFree(net) /\ net'.alloc[o] = job[p].id
    BY <1>2, NextFreeIsFree DEF AllocateAddress, Allocate, TypeOK, NetworkState
  <2>3. UNCHANGED <<machines, lost, dirs>>
    BY <1>2 DEF AllocateAddress
  <2>4. LocalsByPoint(S)'
    BY <2>1, <2>3 DEF LocalsByPoint
  <2>5. \A o \in Octet : o # NoIp
    BY OctetIsNumber
  <2> QED
    BY <2>1, <2>2, <2>3, <2>4, <2>5 DEF Accounted, BeingCreated, Recorded, Creating
<1>3. CASE Record(p)
  <2>1. job[p].id \in Id /\ pc[p] = "configured" /\ ~Recorded(job[p].id)
    BY <1>3, JobFields DEF Record, CreateOwnsId, Creating
  <2>2. /\ \A id \in Id : id # job[p].id => machines'[id] = machines[id]
        /\ machines'[job[p].id].ip = job[p].ip
        /\ machines'[job[p].id] \in Machine
        /\ UNCHANGED <<net, lost, dirs>>
    BY <1>3, <2>1, InsertTypes, JobFields DEF Record, TypeOK, Machine, Status, Pid
  <2>3. \A q \in Proc : q # p => pc'[q] = pc[q] /\ job'[q] = job[q]
    BY <1>3 DEF Record, Finish, TypeOK
  <2>4. LocalsByPoint(S)'
    BY <1>3, <2>2, <2>3 DEF Record, Finish, LocalsByPoint, TypeOK
  <2>5. machines'[job[p].id] # Absent
    BY <2>2, AbsentAssumption
  <2>6. /\ \A o \in Octet : net.alloc[o] \in Id \cup {NoId}
        /\ dirs \subseteq Id
    BY DEF TypeOK, NetworkState
  <2> QED
    BY <2>1, <2>2, <2>3, <2>4, <2>5, <2>6 DEF Accounted, BeingCreated, Recorded
<1>4. CASE CreateFails(p) \/ ExitAfterCreate(p)
  <2>1. /\ \A q \in Proc : q # p => pc'[q] = pc[q] /\ job'[q] = job[q]
        /\ pc[p] \in Creating => lost' = lost \cup {job[p].id}
        /\ lost \subseteq lost'
        /\ pc'[p] = "idle"
        /\ UNCHANGED <<machines, net, dirs>>
    BY <1>4 DEF CreateFails, ExitAfterCreate, Finish, shared, TypeOK, Creating
  <2> QED
    BY <2>1 DEF LocalsByPoint, Accounted, BeingCreated, Recorded
<1> QED
  BY <1>1, <1>2, <1>3, <1>4

LEMMA DestroyAccounts ==
  ASSUME TypeOK, CreateOwnsId, NEW S, LocalsByPoint(S), Accounted(S), NEW p \in Proc,
         \/ PowerOff(p)
         \/ Terminate(p)
         \/ CheckDirectory(p)
         \/ RemoveDirectory(p)
         \/ DestroyCommit(p)
         \/ DestroyKilledInCommit(p)
         \/ Killed(p)
  PROVE  LocalsByPoint(S)' /\ Accounted(S)'
<1>1. CASE PowerOff(p) \/ Terminate(p)
  BY <1>1 DEF PowerOff, Terminate, Goto, LocalsByPoint, Accounted, BeingCreated, Recorded,
     Creating, TypeOK
<1>2. CASE CheckDirectory(p) \/ RemoveDirectory(p)
  <2>1. /\ pc[p] \in {"terminated", "removing"} /\ pc'[p] \in {"removing", "tornDown"}
        /\ dirs' \subseteq dirs
        /\ UNCHANGED <<machines, net, lost>>
        /\ \A q \in Proc : q # p => pc'[q] = pc[q] /\ job'[q] = job[q]
    BY <1>2 DEF CheckDirectory, RemoveDirectory, Goto, TypeOK, shared
  <2>2. pc'[p] = "tornDown" /\ ~job'[p].cleanupFailed => job'[p].id \notin dirs' \cap S
    BY <1>2 DEF CheckDirectory, RemoveDirectory, Goto, TypeOK, Job, shared
  <2> QED
    BY <2>1, <2>2 DEF LocalsByPoint, Accounted, BeingCreated, Recorded, Creating
<1>3. CASE DestroyCommit(p)
  <2>1. PICK id \in Id : id = job[p].id
    BY <1>3, JobFields DEF DestroyCommit
  <2>2. /\ \A q \in Proc : q # p => pc'[q] = pc[q] /\ job'[q] = job[q]
        /\ pc[p] = "tornDown" /\ pc'[p] = "idle"
        /\ UNCHANGED <<lost, dirs>>
    BY <1>3 DEF DestroyCommit, Finish, TypeOK
  <2>3. \A i \in Id : i # id => machines'[i] = machines[i]
    BY <1>3, <2>1 DEF DestroyCommit, AfterDestroy, TypeOK
  <2>4. LocalsByPoint(S)'
    BY <2>2 DEF LocalsByPoint
  <2>5. CASE Recorded(id) /\ ~job[p].cleanupFailed
    <3>1. id \notin dirs \cap S
      BY <2>1, <2>2, <2>5 DEF LocalsByPoint
    <3>2. \A o \in Octet :
            \/ net'.alloc[o] = NoId
            \/ net'.alloc[o] = net.alloc[o] /\ o # machines[id].ip
      BY <1>3, <2>1, <2>5, OctetIsNumber
      DEF DestroyCommit, PoolAfterDestroy, HasIp, Release, TypeOK, NetworkState
    <3>3. ~\E q \in Proc : pc[q] \in Creating /\ job[q].id = id
      BY <2>5 DEF CreateOwnsId
    <3>4. /\ \A o \in Octet : net.alloc[o] \in Id \cup {NoId}
          /\ dirs \subseteq Id
      BY DEF TypeOK, NetworkState
    <3>5. "tornDown" \notin Creating
      BY DEF Creating
    <3> QED
      BY <2>2, <2>3, <2>4, <3>1, <3>2, <3>3, <3>4, <3>5 DEF Accounted, BeingCreated, Recorded
  <2>6. CASE ~(Recorded(id) /\ ~job[p].cleanupFailed)
    <3>1. \A i \in Id : Recorded(i) => Recorded(i)' /\ machines'[i].ip = machines[i].ip
      <4>1. \A i \in Id : Recorded(i) =>
              \/ machines'[i] = machines[i]
              \/ machines'[i] = [machines[i] EXCEPT !.status = "failed"]
        BY <1>3, <2>1, <2>6 DEF DestroyCommit, AfterDestroy, Recorded, TypeOK
      <4>2. \A i \in Id : Recorded(i) => machines[i] \in Machine
        BY DEF Recorded, TypeOK
      <4>3. "failed" \in Status
        BY DEF Status
      <4>4. ASSUME NEW i \in Id, Recorded(i)
            PROVE  machines'[i] \in Machine /\ machines'[i].ip = machines[i].ip
        BY <4>1, <4>2, <4>3, <4>4 DEF Machine
      <4> QED
        BY <4>4, AbsentAssumption DEF Recorded
    <3>2. net' = net
      BY <1>3, <2>1, <2>6 DEF DestroyCommit, PoolAfterDestroy, HasIp
    <3>3. /\ \A o \in Octet : net.alloc[o] \in Id \cup {NoId}
          /\ dirs \subseteq Id
      BY DEF TypeOK, NetworkState
    <3>4. "tornDown" \notin Creating
      BY DEF Creating
    <3> QED
      BY <2>2, <2>4, <3>1, <3>2, <3>3, <3>4 DEF Accounted, BeingCreated
  <2> QED
    BY <2>5, <2>6
<1>4. CASE DestroyKilledInCommit(p) \/ Killed(p)
  BY <1>4 DEF DestroyKilledInCommit, Killed, Finish, LocalsByPoint, Accounted, BeingCreated,
     Recorded, Creating, Destroying, TypeOK, shared
<1> QED
  BY <1>1, <1>2, <1>3, <1>4

(* update_machine_status keeps every record and its address.               *)
LEMMA UpdateKeepsRecords ==
  ASSUME TypeOK, NEW p \in Proc, UpdateStatus(p)
  PROVE  \A i \in Id : Recorded(i) => Recorded(i)' /\ machines'[i].ip = machines[i].ip
<1>1. \A i \in Id : Recorded(i) =>
        \/ machines'[i] = machines[i]
        \/ machines'[i] = [machines[i] EXCEPT !.status = job[p].live.status,
                                              !.pid = job[p].live.pid]
  BY DEF UpdateStatus, Recorded, TypeOK
<1>2. \A i \in Id : Recorded(i) => machines[i] \in Machine
  BY DEF Recorded, TypeOK
<1>3. job[p].live.status \in Status /\ job[p].live.pid \in Pid
  BY JobFields DEF View
<1>4. ASSUME NEW i \in Id, Recorded(i)
      PROVE  Recorded(i)' /\ machines'[i].ip = machines[i].ip
  <2>1. machines'[i] \in Machine /\ machines'[i].ip = machines[i].ip
    BY <1>1, <1>2, <1>3, <1>4 DEF Machine
  <2> QED
    BY <2>1, AbsentAssumption DEF Recorded
<1> QED
  BY <1>4

LEMMA OthersAccount ==
  ASSUME TypeOK, CreateOwnsId, NEW S, LocalsByPoint(S), Accounted(S),
         \/ \E p \in Proc, live \in View : ReconcileCompare(p, live)
         \/ \E p \in Proc : UpdateStatus(p)
         \/ \E id \in Id : GuestExits(id)
  PROVE  LocalsByPoint(S)' /\ Accounted(S)'
<1>1. ASSUME NEW p \in Proc, NEW live \in View, ReconcileCompare(p, live)
      PROVE  LocalsByPoint(S)' /\ Accounted(S)'
  BY <1>1 DEF ReconcileCompare, Finish, LocalsByPoint, Accounted,
     BeingCreated, Recorded, Creating, TypeOK, shared
<1>2. ASSUME NEW p \in Proc, UpdateStatus(p)
      PROVE  LocalsByPoint(S)' /\ Accounted(S)'
  <2>1. \A i \in Id : Recorded(i) => Recorded(i)' /\ machines'[i].ip = machines[i].ip
    BY <1>2, UpdateKeepsRecords
  <2>2. /\ \A o \in Octet : net.alloc[o] \in Id \cup {NoId}
        /\ dirs \subseteq Id
    BY DEF TypeOK, NetworkState
  <2>3. /\ \A q \in Proc : q # p => pc'[q] = pc[q] /\ job'[q] = job[q]
        /\ pc[p] \notin Creating /\ pc'[p] = "idle"
        /\ UNCHANGED <<net, lost, dirs>>
    BY <1>2 DEF UpdateStatus, Finish, TypeOK, Creating
  <2>4. LocalsByPoint(S)'
    BY <2>3 DEF LocalsByPoint
  <2>5. \A q \in Proc : pc[q] \in Creating =>
          pc'[q] \in Creating /\ job'[q] = job[q]
    BY <2>3
  <2> QED
    BY <2>1, <2>2, <2>3, <2>4, <2>5 DEF Accounted, BeingCreated
<1>3. ASSUME NEW id \in Id, GuestExits(id)
      PROVE  LocalsByPoint(S)' /\ Accounted(S)'
  BY <1>3 DEF GuestExits, LocalsByPoint, Accounted, BeingCreated, Recorded
<1> QED
  BY <1>1, <1>2, <1>3

-----------------------------------------------------------------------------
(* The bridge.                                                             *)

LEMMA StartKeepsNet ==
  ASSUME TypeOK, BridgeCleanedUp, NEW p \in Proc, Begins(p)
  PROVE  BridgeCleanedUp'
<1>1. ASSUME NEW id \in Id, NEW nat \in BOOLEAN, NEW timer \in BOOLEAN,
             PrepareImage(p, id, nat, timer)
      PROVE  BridgeCleanedUp'
  BY <1>1 DEF PrepareImage, Goto, BridgeCleanedUp, BeingCreated, Recorded, Creating, TypeOK
<1>2. ASSUME NEW id \in Id, NEW from \in {"idle", "created"}, NEW pid \in Pid,
             DestroyRead(p, id, from, pid)
      PROVE  BridgeCleanedUp'
  BY <1>2 DEF DestroyRead, Goto, BridgeCleanedUp, BeingCreated, Recorded, Creating, TypeOK, shared
<1>3. ASSUME NEW id \in Id, ReconcileRead(p, id)
      PROVE  BridgeCleanedUp'
  BY <1>3 DEF ReconcileRead, Goto, BridgeCleanedUp, BeingCreated, Recorded, Creating, TypeOK,
     shared
<1> QED
  BY <1>1, <1>2, <1>3 DEF Begins

LEMMA CreateKeepsNet ==
  ASSUME TypeOK, TypeOK', CreateOwnsId, BridgeCleanedUp, NEW p \in Proc,
         \/ EnsureBridge(p)
         \/ AllocateAddress(p)
         \/ Spawn(p)
         \/ ConfigureNetwork(p)
         \/ Record(p)
         \/ CreateFails(p)
         \/ ExitAfterCreate(p)
  PROVE  BridgeCleanedUp'
<1>1. CASE EnsureBridge(p)
  <2>1. job[p].id \in Id /\ pc'[p] \in Creating /\ job'[p].id = job[p].id
    BY <1>1, JobFields DEF EnsureBridge, Goto, Creating, TypeOK
  <2> QED
    BY <2>1 DEF BridgeCleanedUp, BeingCreated
<1>2. CASE Spawn(p) \/ ConfigureNetwork(p) \/ AllocateAddress(p)
  <2>1. /\ UNCHANGED <<machines, lost, bridge>>
        /\ \A q \in Proc : pc[q] \in Creating => pc'[q] \in Creating
        /\ \A q \in Proc : job'[q].id = job[q].id
    BY <1>2 DEF Spawn, ConfigureNetwork, AllocateAddress, Goto, Creating, TypeOK, Job
  <2> QED
    BY <2>1 DEF BridgeCleanedUp, BeingCreated, Recorded
<1>3. CASE Record(p)
  <2>1. PICK id \in Id : id = job[p].id
    BY <1>3, JobFields DEF Record
  <2>2. machines'[id] \in Machine
    BY <1>3, <2>1, JobFields DEF Record, TypeOK, Machine, Status, Pid
  <2> QED
    BY <2>1, <2>2, AbsentAssumption DEF BridgeCleanedUp, Recorded
<1>4. CASE CreateFails(p) \/ ExitAfterCreate(p)
  <2>1. CASE CreateFails(p)
    BY <2>1 DEF CreateFails, BridgeCleanedUp
  <2>2. CASE ExitAfterCreate(p)
    BY <2>2 DEF ExitAfterCreate, Finish, BridgeCleanedUp, BeingCreated, Recorded, Creating,
       TypeOK,
       shared
  <2> QED
    BY <1>4, <2>1, <2>2
<1> QED
  BY <1>1, <1>2, <1>3, <1>4

LEMMA DestroyKeepsNet ==
  ASSUME TypeOK, BridgeCleanedUp, NEW p \in Proc,
         \/ PowerOff(p)
         \/ Terminate(p)
         \/ CheckDirectory(p)
         \/ RemoveDirectory(p)
         \/ DestroyCommit(p)
         \/ DestroyKilledInCommit(p)
         \/ Killed(p)
  PROVE  BridgeCleanedUp'
<1>1. /\ lost' = lost
      /\ \A q \in Proc : pc[q] \in Creating => pc'[q] = pc[q] /\ job'[q] = job[q]
  BY DEF PowerOff, Terminate, CheckDirectory, RemoveDirectory, DestroyCommit,
     DestroyKilledInCommit, Killed, Goto,
     Finish, Creating, Destroying, TypeOK, shared
<1>2. CASE DestroyCommit(p)
  BY <1>2 DEF DestroyCommit, AnyRunning, BridgeCleanedUp, Recorded
<1>3. CASE ~DestroyCommit(p)
  <2>1. machines' = machines /\ (bridge' => bridge)
    BY <1>3 DEF PowerOff, Terminate, CheckDirectory, RemoveDirectory,
       DestroyKilledInCommit, Killed, shared, TypeOK
  <2> QED
    BY <1>1, <2>1 DEF BridgeCleanedUp, BeingCreated, Recorded
<1> QED
  BY <1>2, <1>3

LEMMA OthersKeepNet ==
  ASSUME TypeOK, BridgeCleanedUp,
         \/ \E p \in Proc, live \in View : ReconcileCompare(p, live)
         \/ \E p \in Proc : UpdateStatus(p)
         \/ \E id \in Id : GuestExits(id)
  PROVE  BridgeCleanedUp'
<1>1. ASSUME NEW p \in Proc, NEW live \in View, ReconcileCompare(p, live)
      PROVE  BridgeCleanedUp'
  BY <1>1 DEF ReconcileCompare, Finish, BridgeCleanedUp, BeingCreated, Recorded,
     Creating, TypeOK, shared
<1>2. ASSUME NEW p \in Proc, UpdateStatus(p)
      PROVE  BridgeCleanedUp'
  <2>1. \A i \in Id : Recorded(i) => Recorded(i)'
    BY <1>2, UpdateKeepsRecords
  <2>2. /\ \A q \in Proc : pc[q] \in Creating => pc'[q] = pc[q] /\ job'[q] = job[q]
        /\ UNCHANGED <<bridge, lost>>
    BY <1>2 DEF UpdateStatus, Finish, Creating, TypeOK
  <2> QED
    BY <2>1, <2>2 DEF BridgeCleanedUp, BeingCreated
<1>3. ASSUME NEW id \in Id, GuestExits(id)
      PROVE  BridgeCleanedUp'
  BY <1>3 DEF GuestExits, BridgeCleanedUp, BeingCreated, Recorded
<1> QED
  BY <1>1, <1>2, <1>3

-----------------------------------------------------------------------------
(* The invariant.                                                          *)

LEMMA InitInv == Init => SandboxInv
<1> SUFFICES ASSUME Init PROVE SandboxInv
  OBVIOUS
<1>1. EmptyNetwork \in NetworkState /\ \A o \in Octet : EmptyNetwork.alloc[o] = NoId
  BY DEF EmptyNetwork, NetworkState, FirstOctet
<1>2. TypeOK
  BY <1>1, JobTypes DEF Init, TypeOK, Points
<1>3. \A id \in Id, o \in Octet : ~HoldsAddress(id, o)
  BY <1>1, OctetIsNumber, NoIdAssumption DEF Init, HoldsAddress, Recorded, Creating
<1>4. NoSharedAddress /\ NextIsPastAll
  BY <1>3 DEF NoSharedAddress, NextIsPastAll
<1>5. CreateOwnsId /\ RecordOwnsAddress /\ LocalsByPoint(Id) /\ BridgeCleanedUp
  BY DEF Init, CreateOwnsId, RecordOwnsAddress, LocalsByPoint, BridgeCleanedUp, HasIp, Recorded,
     Creating
<1>6. Accounted(Id)
  BY <1>1 DEF Init, Accounted
<1> QED
  BY <1>2, <1>4, <1>5, <1>6 DEF SandboxInv

(* Every step of every invocation, and of the guests, preserves it.        *)
LEMMA StepInv == SandboxInv /\ [Next]_vars => SandboxInv'
<1> SUFFICES ASSUME SandboxInv, [Next]_vars PROVE SandboxInv'
  OBVIOUS
<1> USE DEF SandboxInv
<1>1. ASSUME NEW p \in Proc, Start(p) \/ TimerFires(p)
      PROVE  SandboxInv'
  <2>1. Begins(p) /\ TypeOK'
    BY <1>1, StartBegins, BeginTypes
  <2> QED
    BY <2>1, StartGainsNothing, NothingGained, StartOwnsId, StartKeepsOwners,
       StartAccounts, StartKeepsNet
<1>2. ASSUME NEW p \in Proc,
             \/ EnsureBridge(p)
             \/ Spawn(p)
             \/ ConfigureNetwork(p)
             \/ Record(p)
             \/ CreateFails(p)
             \/ ExitAfterCreate(p)
      PROVE  SandboxInv'
  <2>1. TypeOK'
    BY <1>2, EnsureTypes, SpawnTypes, ConfigureTypes, InsertTypes, FailTypes, ExitTypes
  <2> QED
    BY <1>2, <2>1, CreateGainsNothing, NothingGained, CreateStepsOwnId, CreateKeepsOwners,
       CreateAccounts, CreateKeepsNet
<1>3. ASSUME NEW p \in Proc, AllocateAddress(p)
      PROVE  SandboxInv'
  BY <1>3, AllocateTypes, AllocateKeepsUnique, CreateStepsOwnId, CreateKeepsOwners,
     CreateAccounts, CreateKeepsNet
<1>4. ASSUME NEW p \in Proc,
             \/ PowerOff(p)
             \/ Terminate(p)
             \/ CheckDirectory(p)
             \/ RemoveDirectory(p)
             \/ DestroyCommit(p)
             \/ DestroyKilledInCommit(p)
             \/ Killed(p)
      PROVE  SandboxInv'
  <2>1. TypeOK'
    BY <1>4, ShutdownTypes, TeardownTypes, CommitTypes, KilledTypes
  <2> QED
    BY <1>4, <2>1, DestroyGainsNothing, NothingGained, DestroyOwnsId, DestroyKeepsOwners,
       DestroyAccounts, DestroyKeepsNet
<1>5. CASE \/ \E p \in Proc : ReconcileQuery(p)
           \/ \E p \in Proc : UpdateStatus(p)
           \/ \E id \in Id : GuestExits(id)
  <2>1. TypeOK'
    BY <1>5, QueryCompares, ReconcileTypes, HaltTypes DEF GuestExits, TypeOK
  <2> QED
    BY <1>5, <2>1, QueryCompares, OthersGainNothing, NothingGained, OthersOwnId,
       OthersKeepOwners,
       OthersAccount, OthersKeepNet
<1>6. CASE UNCHANGED vars
  BY <1>6 DEF vars, TypeOK, NoSharedAddress, NextIsPastAll, HoldsAddress, CreateOwnsId,
     RecordOwnsAddress, HasIp, LocalsByPoint, Accounted, BridgeCleanedUp, BeingCreated, Recorded
<1> QED
  BY <1>1, <1>2, <1>3, <1>4, <1>5, <1>6 DEF Next, Undisturbed, Interrupted, Step, GivesUp

(* The invariant holds of the specification.                               *)
THEOREM SandboxInvariance == Spec => []SandboxInv
BY InitInv, StepInv, PTL DEF Spec

(* No two sandboxes ever have one address.                                 *)
THEOREM AddressesAreUnique == Spec => []NoSharedAddress
<1>1. SandboxInv => NoSharedAddress
  BY DEF SandboxInv
<1> QED
  BY <1>1, SandboxInvariance, PTL

(* A recorded address stays allocated to its machine.                      *)
THEOREM RecordsOwnAddresses == Spec => []RecordOwnsAddress
<1>1. SandboxInv => RecordOwnsAddress
  BY DEF SandboxInv
<1> QED
  BY <1>1, SandboxInvariance, PTL

(* A destroy that removed the record removed all else.                     *)
THEOREM DestroyLeavesNothing == Spec => []NothingLeftBehind
<1>1. SandboxInv => NothingLeftBehind
  BY NoIdAssumption DEF SandboxInv, Accounted, NothingLeftBehind, BeingCreated
<1> QED
  BY <1>1, SandboxInvariance, PTL

(* The bridge goes with the last machine (nspawn.rs:394).                  *)
THEOREM BridgeGoesWithTheLast == Spec => []BridgeCleanedUp
<1>1. SandboxInv => BridgeCleanedUp
  BY DEF SandboxInv
<1> QED
  BY <1>1, SandboxInvariance, PTL

(* What a step does to the records.                                        *)
LEMMA WhoWritesMachines ==
  ASSUME Next
  PROVE  \/ machines' = machines
         \/ \E p \in Proc : Record(p) \/ DestroyCommit(p) \/ UpdateStatus(p)
<1>1. ASSUME NEW p \in Proc, Start(p) \/ TimerFires(p)
      PROVE  machines' = machines
  BY <1>1 DEF Start, TimerFires, PrepareImage, DestroyRead, ReconcileRead, shared
<1>2. ASSUME NEW p \in Proc,
             \/ EnsureBridge(p)
             \/ AllocateAddress(p)
             \/ Spawn(p)
             \/ ConfigureNetwork(p)
             \/ CreateFails(p)
             \/ ExitAfterCreate(p)
      PROVE  machines' = machines
  BY <1>2 DEF EnsureBridge, AllocateAddress, Spawn, ConfigureNetwork, CreateFails,
     ExitAfterCreate, shared
<1>3. ASSUME NEW p \in Proc,
             \/ PowerOff(p)
             \/ Terminate(p)
             \/ CheckDirectory(p)
             \/ RemoveDirectory(p)
             \/ DestroyKilledInCommit(p)
             \/ Killed(p)
             \/ ReconcileQuery(p)
      PROVE  machines' = machines
  BY <1>3 DEF PowerOff, Terminate, CheckDirectory, RemoveDirectory, DestroyKilledInCommit,
     Killed, ReconcileQuery, ReconcileCompare, shared
<1>4. ASSUME NEW i \in Id, GuestExits(i)
      PROVE  machines' = machines
  BY <1>4 DEF GuestExits
<1> QED
  BY <1>1, <1>2, <1>3, <1>4 DEF Next, Undisturbed, Interrupted, Step, GivesUp

(* A record appears only at the end of a create of its machine.            *)
LEMMA RecordsComeFromCreates ==
  ASSUME SandboxInv, Next, NEW id \in Id, ~Recorded(id), ~BeingCreated(id)
  PROVE  ~Recorded(id)'
<1> USE DEF SandboxInv, Recorded
<1>1. CASE machines' = machines
  BY <1>1
<1>2. ASSUME NEW p \in Proc, Record(p)
      PROVE  ~Recorded(id)'
  BY <1>2 DEF Record, BeingCreated, Creating, TypeOK
<1>3. ASSUME NEW p \in Proc, DestroyCommit(p)
      PROVE  ~Recorded(id)'
  BY <1>3 DEF DestroyCommit, AfterDestroy, TypeOK
<1>4. ASSUME NEW p \in Proc, UpdateStatus(p)
      PROVE  ~Recorded(id)'
  BY <1>4 DEF UpdateStatus, TypeOK
<1> QED
  BY <1>1, <1>2, <1>3, <1>4, WhoWritesMachines

(* A destroyed machine does not come back.                                 *)
THEOREM DestroyedStaysDestroyed == Spec => NoResurrection
<1>1. SandboxInv /\ [Next]_vars =>
        [\A id \in Id :
           id \notin fresh /\ ~Recorded(id) /\ ~BeingCreated(id) => ~Recorded(id)']_vars
  BY RecordsComeFromCreates
<1> QED
  BY <1>1, SandboxInvariance, PTL DEF Spec, NoResurrection

-----------------------------------------------------------------------------
(* The refinement of Registry.                                             *)

(* What it takes from the invariants of either backend.                    *)
RegistryInv ==
  /\ TypeOK
  /\ NextIsPastAll
  /\ CreateOwnsId
  /\ RecordOwnsAddress
  /\ LocalsByPoint({})
  /\ Accounted({})
  /\ LostIsOver

(* A step between the points of a create, or between others.               *)
SameCreates ==
  \A q \in Proc : /\ pc'[q] \in Creating <=> pc[q] \in Creating
                  /\ pc[q] \in Creating => job'[q].id = job[q].id

LEMMA QuietStep ==
  ASSUME RegistryInv, SameCreates, UNCHANGED <<machines, net, fresh, lost>>
  PROVE  UNCHANGED Machines!registry /\ LostIsOver'
<1>1. \A id \in Id : BeingCreated(id)' <=> BeingCreated(id)
  BY DEF SameCreates, BeingCreated
<1>2. \A id \in Id : Life(id)' = Life(id) /\ RecordedAddress(id)' = RecordedAddress(id)
  BY <1>1 DEF Life, RecordedAddress, Recorded
<1>3. LostIsOver'
  BY <1>1 DEF LostIsOver, RegistryInv, TypeOK, Recorded
<1> QED
  BY <1>2, <1>3 DEF Machines!registry

LEMMA QuietCreates ==
  ASSUME TypeOK, CreateOwnsId, NEW p \in Proc,
         \/ EnsureBridge(p)
         \/ Spawn(p)
         \/ ConfigureNetwork(p)
         \/ ExitAfterCreate(p)
         \/ PowerOff(p)
         \/ Terminate(p)
         \/ CheckDirectory(p)
         \/ RemoveDirectory(p)
         \/ DestroyKilledInCommit(p)
         \/ Killed(p)
         \/ \E live \in View : ReconcileCompare(p, live)
         \/ \E id \in Id : ReconcileRead(p, id)
         \/ \E id \in Id, from \in {"idle", "created"}, pid \in Pid :
              DestroyRead(p, id, from, pid)
  PROVE  SameCreates /\ UNCHANGED <<machines, net, fresh, lost>>
<1>1. CASE EnsureBridge(p) \/ Spawn(p) \/ ConfigureNetwork(p)
  BY <1>1 DEF EnsureBridge, Spawn, ConfigureNetwork, Goto, SameCreates, Creating, TypeOK
<1>2. CASE ExitAfterCreate(p) \/ DestroyKilledInCommit(p) \/ Killed(p)
  BY <1>2 DEF ExitAfterCreate, DestroyKilledInCommit, Killed, Finish, SameCreates, Creating,
     Destroying, TypeOK, shared
<1>3. CASE PowerOff(p) \/ Terminate(p) \/ CheckDirectory(p)
  BY <1>3 DEF PowerOff, Terminate, CheckDirectory, Goto, SameCreates, Creating, TypeOK, shared
<1>4. CASE RemoveDirectory(p)
  BY <1>4 DEF RemoveDirectory, Goto, SameCreates, Creating, TypeOK
<1>5. CASE \E live \in View : ReconcileCompare(p, live)
  BY <1>5 DEF ReconcileCompare, Finish, SameCreates, Creating, TypeOK, shared
<1>6. CASE \/ \E id \in Id : ReconcileRead(p, id)
           \/ \E id \in Id, from \in {"idle", "created"}, pid \in Pid :
                DestroyRead(p, id, from, pid)
  BY <1>6 DEF ReconcileRead, DestroyRead, Goto, SameCreates, Creating, TypeOK, shared
<1> QED
  BY <1>1, <1>2, <1>3, <1>4, <1>5, <1>6

(* A create that draws its id.                                             *)
LEMMA PrepareIsBegin ==
  ASSUME RegistryInv, NEW p \in Proc, NEW id \in Id, NEW nat \in BOOLEAN, NEW timer \in BOOLEAN,
         PrepareImage(p, id, nat, timer)
  PROVE  Machines!Begin(id) /\ LostIsOver'
<1> USE DEF RegistryInv, TypeOK
<1>1. UNCHANGED <<machines, net, lost>> /\ id \in fresh /\ fresh' = fresh \ {id}
  BY DEF PrepareImage
<1>2. /\ pc[p] = "idle" /\ pc' = [pc EXCEPT ![p] = "prepared"]
      /\ job'[p].id = id /\ \A q \in Proc \ {p} : job'[q] = job[q]
  BY DEF PrepareImage, Goto, NoJob
<1>3. \A i \in Id : BeingCreated(i)' <=> BeingCreated(i) \/ i = id
  BY <1>2 DEF BeingCreated, Creating
<1>4. ~Recorded(id) /\ \A i \in Id : Recorded(i)' <=> Recorded(i)
  BY <1>1 DEF CreateOwnsId, Recorded
<1>5. Life(id) = "unborn" /\ Life(id)' = "underway"
  BY <1>1, <1>3, <1>4 DEF Life
<1>6. \A i \in Id \ {id} : Life(i)' = Life(i)
  BY <1>1, <1>3, <1>4 DEF Life
<1>7. [i \in Id |-> Life(i)]' = [[i \in Id |-> Life(i)] EXCEPT ![id] = "underway"]
  BY <1>5, <1>6
<1>8. \A i \in Id : RecordedAddress(i)' = RecordedAddress(i)
  BY <1>1 DEF RecordedAddress, Recorded
<1>9. LostIsOver'
  BY <1>1, <1>3, <1>4 DEF LostIsOver
<1> QED
  BY <1>1, <1>5, <1>7, <1>8, <1>9 DEF Machines!Begin, Machines!Becomes

(* Machines under way have no record and no address before they are given  *)
(* one: neither a create of the same id nor one that failed holds any.     *)
LEMMA UnderwayOwns ==
  ASSUME RegistryInv, NEW p \in Proc, pc[p] \in Creating
  PROVE  /\ Life(job[p].id) = "underway" /\ job[p].id \in Id
         /\ \A o \in Octet : net.alloc[o] = job[p].id => job[p].ip = o
<1> USE DEF RegistryInv
<1>1. job[p].id \in Id \ fresh /\ ~Recorded(job[p].id) /\ BeingCreated(job[p].id)
  BY DEF CreateOwnsId, BeingCreated, Creating
<1>2. job[p].id \notin lost
  BY <1>1 DEF LostIsOver
<1>3. \A o \in Octet : net.alloc[o] = job[p].id => job[p].ip = o
  <2> SUFFICES ASSUME NEW o \in Octet, net.alloc[o] = job[p].id
               PROVE  job[p].ip = o
    OBVIOUS
  <2>1. PICK q \in Proc : pc[q] \in Creating /\ job[q].id = job[p].id /\ job[q].ip = o
    BY <1>1, <1>2, NoIdAssumption DEF Accounted
  <2>2. q = p
    BY <2>1 DEF CreateOwnsId
  <2> QED
    BY <2>1, <2>2
<1> QED
  BY <1>1, <1>3 DEF Life

(* The allocation takes next_octet itself: nothing from it on is taken.    *)
LEMMA AllocateIsGrant ==
  ASSUME RegistryInv, NEW p \in Proc, AllocateAddress(p)
  PROVE  (\E o \in Octet : Machines!Grant(job[p].id, o)) /\ LostIsOver'
<1> USE DEF RegistryInv, TypeOK
<1> DEFINE new == NextFree(net)
           id == job[p].id
<1>1. pc[p] = "networked" /\ pc' = [pc EXCEPT ![p] = "allocated"]
  BY DEF AllocateAddress, Goto
<1>2. UNCHANGED <<machines, fresh, lost>>
  BY DEF AllocateAddress
<1>3. \A q \in Proc : job'[q].id = job[q].id
  BY DEF AllocateAddress, Job
<1>4. \A i \in Id : BeingCreated(i)' <=> BeingCreated(i)
  BY <1>1, <1>3 DEF BeingCreated, Creating
<1>5. \A i \in Id : Life(i)' = Life(i) /\ RecordedAddress(i)' = RecordedAddress(i)
  BY <1>2, <1>4 DEF Life, RecordedAddress, Recorded
<1>6. Life(id) = "underway" /\ id \in Id /\ \A o \in Octet : net.alloc[o] # id
  BY <1>1, UnderwayOwns, OctetIsNumber DEF Creating, LocalsByPoint
<1>7. new \in Octet /\ new >= net.next /\ net'.next = new + 1
      /\ net'.alloc = [net.alloc EXCEPT ![new] = id]
  BY NextFreeIsFree DEF AllocateAddress, Allocate
<1> HIDE DEF new
<1>8. \A o \in Octet : o >= net.next => net.alloc[o] = NoId
  <2>1. \A o \in Octet, i \in Id : net.alloc[o] = i => o < net.next
    BY DEF NextIsPastAll, HoldsAddress
  <2>2. net.next \in Int /\ \A o \in Octet : o \in Int /\ net.alloc[o] \in Id \cup {NoId}
    BY OctetIsNumber DEF NetworkState
  <2> QED
    BY <2>1, <2>2
<1>9. \A o \in Octet : o < net'.next <=> o < net.next \/ o = new
  <2>1. net.next \in Int /\ \A o \in Octet : o \in Int
    BY OctetIsNumber DEF NetworkState
  <2>2. \A o \in Octet : o >= net.next => new <= o
    BY <1>8, NextFreeIsLeast DEF new
  <2> QED
    BY <1>7, <2>1, <2>2
<1>10. /\ {o \in Octet : o < net'.next} = {o \in Octet : o < net.next} \cup {new}
       /\ new \notin {o \in Octet : o < net.next}
  <2>1. new \notin {o \in Octet : o < net.next}
    BY <1>7, OctetIsNumber DEF NetworkState
  <2> QED
    BY <1>7, <1>9, <2>1
<1>11. LostIsOver'
  BY <1>2, <1>4 DEF LostIsOver, Recorded
<1> QED
  BY <1>5, <1>6, <1>7, <1>10, <1>11 DEF Machines!Grant

(* The record names the address that the pool keeps for the machine.       *)
LEMMA RecordIsEnter ==
  ASSUME RegistryInv, NEW p \in Proc, Record(p)
  PROVE  Machines!Enter(job[p].id) /\ LostIsOver'
<1> USE DEF RegistryInv, TypeOK
<1>0. PICK id \in Id : id = job[p].id
  BY DEF Record, CreateOwnsId
<1> DEFINE m == [status |-> "running", pid |-> "child", ip |-> job[p].ip, timer |-> job[p].timer]
<1>1. /\ pc[p] = "configured" /\ machines' = [machines EXCEPT ![id] = m]
      /\ UNCHANGED <<net, fresh, lost>>
  BY <1>0 DEF Record
<1>2. \A q \in Proc : /\ pc'[q] \in Creating <=> pc[q] \in Creating /\ q # p
                      /\ pc'[q] \in Creating => job'[q] = job[q]
  BY DEF Record, Finish, Creating
<1>3. Life(id) = "underway" /\ id \in Id /\ id \notin fresh
  BY <1>0, <1>1, UnderwayOwns DEF Creating, CreateOwnsId
<1>4. m # Absent /\ m.status = "running" /\ m.ip = job[p].ip /\ job[p].ip \in Octet \cup {NoIp}
  BY JobFields, AbsentAssumption DEF Machine, Status, Pid
<1> HIDE DEF m
<1>5. Recorded(id)' /\ \A i \in Id \ {id} : machines'[i] = machines[i]
  BY <1>1, <1>3, <1>4 DEF Recorded
<1>6. \A i \in Id \ {id} : BeingCreated(i)' <=> BeingCreated(i)
  BY <1>0, <1>2 DEF BeingCreated
<1>7. Life(id)' = "running" /\ RecordedAddress(id)' = job[p].ip
  BY <1>1, <1>3, <1>4, <1>5 DEF Life, RecordedAddress
<1>8. \A i \in Id \ {id} : Life(i)' = Life(i) /\ RecordedAddress(i)' = RecordedAddress(i)
  BY <1>1, <1>5, <1>6 DEF Life, RecordedAddress, Recorded
<1>9. /\ [i \in Id |-> Life(i)]' = [[i \in Id |-> Life(i)] EXCEPT ![id] = "running"]
      /\ [i \in Id |-> RecordedAddress(i)]'
           = [[i \in Id |-> RecordedAddress(i)] EXCEPT ![id] = job[p].ip]
  BY <1>7, <1>8
<1>10. /\ job[p].ip = NoIp => \A o \in Octet : net.alloc[o] # id
       /\ job[p].ip # NoIp => net.alloc[job[p].ip] = id
  BY <1>0, <1>1, UnderwayOwns, OctetIsNumber DEF RecordOwnsAddress, Creating
<1>11. id \notin lost
  BY <1>0, <1>1 DEF LostIsOver, BeingCreated, Creating
<1>12. LostIsOver'
  BY <1>1, <1>5, <1>6, <1>11 DEF LostIsOver, Recorded
<1>13. job[p].ip \in {o \in Octet : net.alloc[o] = id} \cup {NoIp}
  BY <1>4, <1>10
<1> QED
  BY <1>0, <1>1, <1>3, <1>9, <1>10, <1>12, <1>13 DEF Machines!Enter, Machines!Becomes

(* A create that fails, whatever it was doing.                             *)
LEMMA FailureIsAbandon ==
  ASSUME RegistryInv, NEW p \in Proc, CreateFails(p)
  PROVE  Machines!Abandon(job[p].id) /\ LostIsOver'
<1> USE DEF RegistryInv, TypeOK
<1>0. PICK id \in Id : id = job[p].id
  BY DEF CreateFails, CreateOwnsId, Creating
<1>1. pc[p] \in Creating /\ lost' = lost \cup {id} /\ UNCHANGED <<machines, net, fresh>>
  BY <1>0 DEF CreateFails
<1>2. \A q \in Proc : /\ pc'[q] \in Creating <=> pc[q] \in Creating /\ q # p
                      /\ pc'[q] \in Creating => job'[q] = job[q]
  BY DEF CreateFails, Finish, Creating
<1>3. Life(id) = "underway" /\ id \in Id /\ id \notin fresh /\ ~Recorded(id)
  BY <1>0, <1>1, UnderwayOwns DEF CreateOwnsId, Creating
<1>4. ~BeingCreated(id)' /\ \A i \in Id \ {id} : BeingCreated(i)' <=> BeingCreated(i)
  BY <1>0, <1>1, <1>2 DEF BeingCreated, CreateOwnsId
<1>5. Life(id)' = "gone" /\ \A i \in Id \ {id} : Life(i)' = Life(i)
  BY <1>1, <1>3, <1>4 DEF Life, Recorded
<1>6. [i \in Id |-> Life(i)]' = [[i \in Id |-> Life(i)] EXCEPT ![id] = "gone"]
  BY <1>5
<1>7. \A i \in Id : RecordedAddress(i)' = RecordedAddress(i)
  BY <1>1 DEF RecordedAddress, Recorded
<1>8. LostIsOver'
  BY <1>1, <1>3, <1>4 DEF LostIsOver, Recorded
<1> QED
  BY <1>0, <1>1, <1>3, <1>6, <1>7, <1>8 DEF Machines!Abandon, Machines!Becomes

(* A record that is written over, with its address as it was.              *)
LEMMA StatusIsChange ==
  ASSUME RegistryInv, SameCreates, NEW id \in Id, Recorded(id),
         NEW m \in Machine, m.ip = machines[id].ip,
         machines' = [machines EXCEPT ![id] = m], UNCHANGED <<net, fresh, lost>>
  PROVE  Machines!Change(id, m.status) /\ m.status \in Status /\ LostIsOver'
<1> USE DEF RegistryInv, TypeOK
<1>1. \A i \in Id : BeingCreated(i)' <=> BeingCreated(i)
  BY DEF SameCreates, BeingCreated
<1>2. m # Absent /\ m.status \in Status /\ machines[id].status \in Status
  BY AbsentAssumption DEF Machine, Recorded
<1>3. \A i \in Id : Recorded(i)' <=> Recorded(i)
  BY <1>2 DEF Recorded
<1>4. id \notin fresh
  BY DEF CreateOwnsId
<1>5. Life(id) \in Status /\ Life(id)' = m.status /\ \A i \in Id \ {id} : Life(i)' = Life(i)
  BY <1>1, <1>2, <1>3, <1>4 DEF Life
<1>6. [i \in Id |-> Life(i)]' = [[i \in Id |-> Life(i)] EXCEPT ![id] = m.status]
  BY <1>5
<1>7. \A i \in Id : RecordedAddress(i)' = RecordedAddress(i)
  BY <1>3 DEF RecordedAddress
<1>8. LostIsOver'
  BY <1>1, <1>3 DEF LostIsOver
<1> QED
  BY <1>2, <1>5, <1>6, <1>7, <1>8 DEF Machines!Change, Machines!Becomes

(* A record that goes with its address, the only one of its machine.       *)
LEMMA RemovalIsRemove ==
  ASSUME RegistryInv, SameCreates, NEW id \in Id, Recorded(id),
         machines' = [machines EXCEPT ![id] = Absent],
         net' = (IF HasIp(id) THEN Release(net, machines[id].ip) ELSE net),
         UNCHANGED <<fresh, lost>>
  PROVE  Machines!Remove(id) /\ LostIsOver'
<1> USE DEF RegistryInv, TypeOK
<1>1. \A i \in Id : BeingCreated(i)' <=> BeingCreated(i)
  BY DEF SameCreates, BeingCreated
<1>2. ~Recorded(id)' /\ \A i \in Id \ {id} : machines'[i] = machines[i]
  BY DEF Recorded
<1>3. id \notin fresh /\ ~BeingCreated(id) /\ id \notin lost
  BY DEF CreateOwnsId, BeingCreated, LostIsOver
<1>4. machines[id].status \in Status /\ machines[id].ip \in Octet \cup {NoIp}
  BY DEF Machine, Recorded
<1>5. Life(id) \in Status /\ Life(id)' = "gone" /\ \A i \in Id \ {id} : Life(i)' = Life(i)
  BY <1>1, <1>2, <1>3, <1>4 DEF Life, Recorded
<1>6. [i \in Id |-> Life(i)]' = [[i \in Id |-> Life(i)] EXCEPT ![id] = "gone"]
  BY <1>5
<1>7. RecordedAddress(id)' = NoIp
      /\ \A i \in Id \ {id} : RecordedAddress(i)' = RecordedAddress(i)
  BY <1>2 DEF RecordedAddress, Recorded
<1>8. [i \in Id |-> RecordedAddress(i)]'
        = [[i \in Id |-> RecordedAddress(i)] EXCEPT ![id] = NoIp]
  BY <1>7
<1>9. \A o \in Octet : net.alloc[o] = id <=> machines[id].ip = o
  BY <1>3, NoIdAssumption, OctetIsNumber DEF Accounted, BeingCreated, RecordOwnsAddress, HasIp
<1>10. /\ net'.next = net.next
       /\ net'.alloc = [o \in Octet |-> IF net.alloc[o] = id THEN NoId ELSE net.alloc[o]]
  <2>1. CASE HasIp(id)
    BY <1>9, <2>1 DEF Release, NetworkState
  <2>2. CASE ~HasIp(id)
    <3>1. \A o \in Octet : net.alloc[o] # id
      BY <1>9, <2>2, OctetIsNumber DEF HasIp
    <3>2. net.alloc \in [Octet -> Id \cup {NoId}] /\ net' = net
      BY <2>2 DEF NetworkState
    <3> QED
      BY <3>1, <3>2
  <2> QED
    BY <2>1, <2>2
<1>11. LostIsOver'
  BY <1>1, <1>2, <1>3 DEF LostIsOver, Recorded
<1> QED
  BY <1>5, <1>6, <1>8, <1>10, <1>11 DEF Machines!Remove, Machines!Becomes

LEMMA UpdateIsChange ==
  ASSUME RegistryInv, NEW p \in Proc, UpdateStatus(p)
  PROVE  (Machines!Next \/ UNCHANGED Machines!registry) /\ LostIsOver'
<1> USE DEF RegistryInv, TypeOK
<1>0. PICK id \in Id : id = job[p].id
  BY DEF UpdateStatus, CreateOwnsId
<1>1. SameCreates /\ UNCHANGED <<net, fresh, lost>>
  BY DEF UpdateStatus, Finish, SameCreates, Creating
<1>2. CASE Recorded(id)
  <2> DEFINE m == [machines[id] EXCEPT !.status = job[p].live.status, !.pid = job[p].live.pid]
  <2>1. machines[id] \in Machine /\ job[p].live \in View
    BY <1>2, JobFields DEF Recorded
  <2>2. m \in Machine /\ m.ip = machines[id].ip
    BY <2>1 DEF Machine, View
  <2>3. machines' = [machines EXCEPT ![id] = m]
    BY <1>0, <1>2 DEF UpdateStatus
  <2> HIDE DEF m
  <2> QED
    BY <1>1, <1>2, <2>2, <2>3, StatusIsChange DEF Machines!Next
<1>3. CASE ~Recorded(id)
  <2>1. machines' = machines
    BY <1>0, <1>3 DEF UpdateStatus
  <2> QED
    BY <1>1, <2>1, QuietStep
<1> QED
  BY <1>2, <1>3

(* destroy's transaction removes the machine, marks it, or finds nothing.  *)
LEMMA CommitIsRemoveOrChange ==
  ASSUME RegistryInv, NEW p \in Proc, DestroyCommit(p)
  PROVE  (Machines!Next \/ UNCHANGED Machines!registry) /\ LostIsOver'
<1> USE DEF RegistryInv, TypeOK
<1>0. PICK id \in Id : id = job[p].id
  BY DEF DestroyCommit, CreateOwnsId
<1>1. /\ SameCreates /\ UNCHANGED <<fresh, lost>>
      /\ machines' = AfterDestroy(p) /\ net' = PoolAfterDestroy(p)
  BY DEF DestroyCommit, Finish, SameCreates, Creating
<1>2. CASE Recorded(id) /\ ~job[p].cleanupFailed
  <2>1. /\ machines' = [machines EXCEPT ![id] = Absent]
        /\ net' = (IF HasIp(id) THEN Release(net, machines[id].ip) ELSE net)
    BY <1>0, <1>1, <1>2 DEF AfterDestroy, PoolAfterDestroy
  <2> QED
    BY <1>1, <1>2, <2>1, RemovalIsRemove DEF Machines!Next
<1>3. CASE Recorded(id) /\ job[p].cleanupFailed
  <2> DEFINE m == [machines[id] EXCEPT !.status = "failed"]
  <2>1. m \in Machine /\ m.ip = machines[id].ip
    BY <1>3 DEF Machine, Recorded, Status
  <2>2. machines' = [machines EXCEPT ![id] = m] /\ net' = net
    BY <1>0, <1>1, <1>3 DEF AfterDestroy, PoolAfterDestroy
  <2> HIDE DEF m
  <2> QED
    BY <1>1, <1>3, <2>1, <2>2, StatusIsChange DEF Machines!Next
<1>4. CASE ~Recorded(id)
  <2>1. machines' = machines /\ net' = net
    BY <1>0, <1>1, <1>4 DEF AfterDestroy, PoolAfterDestroy, HasIp
  <2> QED
    BY <1>1, <2>1, QuietStep
<1> QED
  BY <1>2, <1>3, <1>4

(* The steps of a create, those of the other commands, and the guests'.    *)
LEMMA CreateRefines ==
  ASSUME RegistryInv, NEW p \in Proc,
         AllocateAddress(p) \/ Record(p) \/ CreateFails(p) \/ Begins(p)
  PROVE  (Machines!Next \/ UNCHANGED Machines!registry) /\ LostIsOver'
<1> USE DEF RegistryInv
<1>1. CASE AllocateAddress(p)
  <2>1. job[p].id \in Id
    BY <1>1 DEF AllocateAddress, Goto, CreateOwnsId
  <2> QED
    BY <1>1, <2>1, AllocateIsGrant DEF Machines!Next
<1>2. CASE Record(p)
  <2>1. job[p].id \in Id
    BY <1>2 DEF Record, CreateOwnsId
  <2> QED
    BY <1>2, <2>1, RecordIsEnter DEF Machines!Next
<1>3. CASE CreateFails(p)
  <2>1. job[p].id \in Id
    BY <1>3 DEF CreateFails, CreateOwnsId, Creating
  <2> QED
    BY <1>3, <2>1, FailureIsAbandon DEF Machines!Next
<1>4. CASE Begins(p)
  BY <1>4, PrepareIsBegin, QuietCreates, QuietStep DEF Begins, Machines!Next
<1> QED
  BY <1>1, <1>2, <1>3, <1>4

LEMMA GuestExitIsQuiet ==
  ASSUME RegistryInv, NEW id \in Id, GuestExits(id)
  PROVE  UNCHANGED Machines!registry /\ LostIsOver'
BY QuietStep DEF GuestExits, SameCreates

LEMMA InvocationRefines ==
  ASSUME RegistryInv, NEW p \in Proc, Start(p) \/ Step(p) \/ Interrupted(p)
  PROVE  (Machines!Next \/ UNCHANGED Machines!registry) /\ LostIsOver'
<1>1. TypeOK /\ CreateOwnsId
  BY DEF RegistryInv
<1>2. CASE Start(p) \/ TimerFires(p)
  BY <1>1, <1>2, StartBegins, CreateRefines
<1>3. CASE AllocateAddress(p) \/ Record(p) \/ CreateFails(p)
  BY <1>3, CreateRefines
<1>4. CASE UpdateStatus(p) \/ DestroyCommit(p)
  BY <1>4, UpdateIsChange, CommitIsRemoveOrChange
<1>5. CASE ReconcileQuery(p)
  BY <1>1, <1>5, QueryCompares, QuietCreates, QuietStep
<1>6. CASE \/ EnsureBridge(p)
           \/ Spawn(p)
           \/ ConfigureNetwork(p)
           \/ ExitAfterCreate(p)
           \/ PowerOff(p)
           \/ Terminate(p)
           \/ CheckDirectory(p)
           \/ RemoveDirectory(p)
           \/ DestroyKilledInCommit(p)
           \/ Killed(p)
  BY <1>1, <1>6, QuietCreates, QuietStep
<1> QED
  BY <1>2, <1>3, <1>4, <1>5, <1>6 DEF Step, GivesUp, Interrupted

LEMMA StepRefines ==
  ASSUME SandboxInv, LostIsOver, [Next]_vars
  PROVE  [Machines!Next]_(Machines!registry) /\ LostIsOver'
<1>1. RegistryInv
  BY DEF SandboxInv, RegistryInv, LocalsByPoint, Accounted
<1>2. CASE UNCHANGED vars
  BY <1>1, <1>2, QuietStep DEF vars, SameCreates
<1> QED
  BY <1>1, <1>2, InvocationRefines, GuestExitIsQuiet DEF Next, Undisturbed

LEMMA InitRefines == Init => Machines!Init /\ LostIsOver
<1> SUFFICES ASSUME Init PROVE Machines!Init /\ LostIsOver
  OBVIOUS
<1>1. \A id \in Id : Life(id) = "unborn" /\ RecordedAddress(id) = NoIp
  BY DEF Init, Life, RecordedAddress, Recorded
<1>2. {o \in Octet : o < net.next} = {}
  <2>1. net.next = 2
    BY DEF Init, EmptyNetwork, FirstOctet
  <2>2. \A o \in Octet : ~(o < net.next)
    BY <2>1, OctetIsNumber
  <2> QED
    BY <2>2
<1> QED
  BY <1>1, <1>2 DEF Init, EmptyNetwork, LostIsOver, Machines!Init

(* A create that failed leaves an id that is never used again.             *)
THEOREM LostStaysLost == Spec => []LostIsOver
<1>1. SandboxInv /\ LostIsOver /\ [Next]_vars => LostIsOver'
  BY StepRefines
<1> QED
  BY <1>1, InitRefines, SandboxInvariance, PTL DEF Spec

(* Containers come once, keep their one address and go with it, in steps   *)
(* that nobody sees the inside of, however the invocations interleave and  *)
(* wherever they are killed.                                               *)
THEOREM ContainersComeAndGo == Spec => MachinesComeAndGo
<1>1. SandboxInv /\ LostIsOver /\ [Next]_vars => [Machines!Next]_(Machines!registry)
  BY StepRefines
<1> QED
  BY <1>1, InitRefines, SandboxInvariance, LostStaysLost, PTL
  DEF Spec, MachinesComeAndGo, Machines!Spec

(* No address is given twice: what Registry says of its own steps ...      *)
LEMMA NoStepGrantsAgain ==
  ASSUME TypeOK, [Machines!Next]_(Machines!registry)
  PROVE  /\ \A a \in {o \in Octet : o < net.next} : net'.alloc[a] \in {net.alloc[a], NoId}
         /\ Octet \subseteq {o \in Octet : o < net.next} =>
              \A a \in Octet : net.alloc[a] = NoId => net'.alloc[a] = NoId
<1>1. ASSUME NEW id \in Id, NEW a \in Octet, Machines!Grant(id, a)
      PROVE  a \notin {o \in Octet : o < net.next} /\ net'.alloc = [net.alloc EXCEPT ![a] = id]
  BY <1>1 DEF Machines!Grant
<1>2. ASSUME NEW id \in Id, Machines!Remove(id)
      PROVE  net'.alloc = [a \in Octet |-> IF net.alloc[a] = id THEN NoId ELSE net.alloc[a]]
  BY <1>2 DEF Machines!Remove
<1>3. \/ net'.alloc = net.alloc
      \/ \E id \in Id, a \in Octet : Machines!Grant(id, a)
      \/ \E id \in Id : Machines!Remove(id)
  BY DEF Machines!Next, Machines!registry, Machines!Begin, Machines!Enter, Machines!Abandon,
     Machines!Change
<1>4. net.alloc \in [Octet -> Id \cup {NoId}]
  BY DEF TypeOK, NetworkState
<1> QED
  BY <1>1, <1>2, <1>3, <1>4

(* ... and so the pool never gives out an octet again that a destroyed     *)
(* container had, and stays exhausted once it is.                          *)
THEOREM AddressesAreGivenOnce == Spec => Machines!GivenOnce /\ Machines!ExhaustedForGood
<1>1. SandboxInv /\ [Machines!Next]_(Machines!registry) =>
        /\ [\A a \in {o \in Octet : o < net.next} : (net.alloc)'[a] \in {net.alloc[a], NoId}]_
             (Machines!registry)
        /\ [Octet \subseteq {o \in Octet : o < net.next} =>
              \A a \in Octet : net.alloc[a] = NoId => (net.alloc)'[a] = NoId]_(Machines!registry)
  BY NoStepGrantsAgain DEF SandboxInv
<1> QED
  BY <1>1, ContainersComeAndGo, SandboxInvariance, PTL
  DEF MachinesComeAndGo, Machines!Spec, Machines!GivenOnce, Machines!ExhaustedForGood

-----------------------------------------------------------------------------
(* What Fleet takes for granted of machines.                               *)
LEMMA RegistryLives ==
  ASSUME TypeOK, [Machines!Next]_(Machines!registry)
  PROVE  Lives!Next \/ UNCHANGED [id \in Id |-> Lifetime(id)]
<1> DEFINE m == [id \in Id |-> Life(id)]
           m2 == [id \in Id |-> Life(id)']
<1>1. \A id \in Id : m[id] = Life(id) /\ m2[id] = Life(id)'
  OBVIOUS
<1>2. Status \cap {"unborn", "underway", "gone"} = {} /\ "running" \in Status
  BY DEF Status
<1>3. \/ m2 = m
      \/ \E id \in Id : \/ m[id] = "unborn" /\ m2 = [m EXCEPT ![id] = "underway"]
                        \/ m[id] = "underway" /\ m2 = [m EXCEPT ![id] = "running"]
                        \/ m[id] = "underway" /\ m2 = [m EXCEPT ![id] = "gone"]
                        \/ m[id] \in Status /\ \E s \in Status : m2 = [m EXCEPT ![id] = s]
                        \/ m[id] \in Status /\ m2 = [m EXCEPT ![id] = "gone"]
  BY DEF Machines!Next, Machines!registry, Machines!Begin, Machines!Grant, Machines!Enter,
     Machines!Abandon, Machines!Change, Machines!Remove, Machines!Becomes
<1> HIDE DEF m, m2
<1>4. \A i \in Id : m2[i] = m[i] => Lifetime(i)' = Lifetime(i)
  BY <1>1 DEF Lifetime
<1>5. CASE m2 = m
  BY <1>4, <1>5
<1>6. ASSUME NEW id \in Id,
             \/ m[id] = "unborn" /\ m2 = [m EXCEPT ![id] = "underway"]
             \/ m[id] \in Status /\ \E s \in Status : m2 = [m EXCEPT ![id] = s]
      PROVE  UNCHANGED [i \in Id |-> Lifetime(i)]
  <2>1. \/ m[id] = "unborn" /\ m2[id] = "underway"
        \/ m[id] \in Status /\ m2[id] \in Status
    BY <1>6 DEF m
  <2>2. \A i \in Id \ {id} : m2[i] = m[i]
    BY <1>6 DEF m
  <2>3. Lifetime(id)' = Lifetime(id)
    BY <1>1, <1>2, <2>1 DEF Lifetime
  <2> QED
    BY <1>4, <2>2, <2>3
<1>7. ASSUME NEW id \in Id, NEW to \in {"running", "gone"}, m2 = [m EXCEPT ![id] = to],
             m[id] = "underway" \/ (m[id] \in Status /\ to = "gone")
      PROVE  Lives!Next
  <2>1. m2[id] = to /\ \A i \in Id \ {id} : m2[i] = m[i]
    BY <1>7 DEF m
  <2>2. /\ Lifetime(id) = IF m[id] = "underway" THEN "fresh" ELSE "present"
        /\ Lifetime(id)' = IF to = "gone" THEN "past" ELSE "present"
    BY <1>1, <1>2, <1>7, <2>1 DEF Lifetime
  <2>3. [i \in Id |-> Lifetime(i)]'
          = [[i \in Id |-> Lifetime(i)] EXCEPT ![id] = Lifetime(id)']
    BY <1>4, <2>1
  <2>4. CASE m[id] = "underway"
    <3>1. Lives!Appear(id) \/ Lives!Fail(id)
      BY <2>2, <2>3, <2>4 DEF Lives!Appear, Lives!Fail, Lives!Turns
    <3> QED
      BY <3>1 DEF Lives!Next
  <2>5. CASE m[id] # "underway"
    <3>1. Lives!Vanish(id)
      BY <1>7, <2>2, <2>3, <2>5 DEF Lives!Vanish, Lives!Turns
    <3> QED
      BY <3>1 DEF Lives!Next
  <2> QED
    BY <2>4, <2>5
<1> QED
  BY <1>3, <1>5, <1>6, <1>7

LEMMA RegistryBegins == Machines!Init => Lives!Init
<1> SUFFICES ASSUME Machines!Init PROVE Lives!Init
  OBVIOUS
<1>1. \A id \in Id : Life(id) = "unborn"
  BY DEF Machines!Init
<1> QED
  BY <1>1 DEF Lives!Init, Lifetime

(* A machine has a record once, however its creates and destroys go.       *)
THEOREM ContainersLiveOnce == Spec => MachinesLiveOnce
<1>1. SandboxInv /\ [Machines!Next]_(Machines!registry) =>
        [Lives!Next]_([id \in Id |-> Lifetime(id)])
  BY RegistryLives DEF SandboxInv
<1> QED
  BY <1>1, RegistryBegins, ContainersComeAndGo, SandboxInvariance, PTL
  DEF MachinesComeAndGo, Machines!Spec, MachinesLiveOnce, Lives!Spec

-----------------------------------------------------------------------------
(* One invocation at a time.  What goes wrong between several of them, as  *)
(* the runs nspawn_net_race and nspawn_failed_mark show, goes wrong for no *)
(* other reason: kills, failures and what the guests do are all in here.   *)
Alone == \A p, q \in Proc : p = q

(* The invocation's create has the bridge that it made sure of ...         *)
AloneHasBridge ==
  \A p \in Proc :
    \/ pc[p] \in {"networked", "allocated"}
    \/ pc[p] \in Creating /\ job[p].ip # NoIp
    => bridge

(* ... and its reconcile finds the record as it read it, if it finds it.   *)
AloneReconciles ==
  \A p \in Proc :
    pc[p] \in {"reconcile", "update"} /\ Recorded(job[p].id) =>
      machines[job[p].id].status = "running"

AloneInv == AloneHasBridge /\ AloneReconciles

LEMMA AloneStep ==
  ASSUME Alone, SandboxInv, AloneInv, [Next]_vars
  PROVE  AloneInv'
<1> USE DEF SandboxInv, TypeOK
<1>1. ASSUME NEW p \in Proc, NEW id \in Id, NEW nat \in BOOLEAN, NEW timer \in BOOLEAN,
             PrepareImage(p, id, nat, timer)
      PROVE  AloneInv'
  BY <1>1 DEF PrepareImage, Goto, NoJob, Alone, AloneInv, AloneHasBridge, AloneReconciles,
     Creating
<1>2. ASSUME NEW p \in Proc, NEW id \in Id, ReconcileRead(p, id)
      PROVE  AloneInv'
  <2>1. pc'[p] = "reconcile" /\ job'[p].id = id /\ machines' = machines
    BY <1>2, JobTypes DEF ReconcileRead, Goto, shared
  <2> QED
    BY <1>2, <2>1 DEF ReconcileRead, Alone, AloneInv, AloneHasBridge, AloneReconciles,
       Creating, Recorded
<1>3. ASSUME NEW p \in Proc, NEW id \in Id, NEW from \in {"idle", "created"},
             NEW pid \in Pid, DestroyRead(p, id, from, pid)
      PROVE  AloneInv'
  BY <1>3 DEF DestroyRead, Goto, Alone, AloneInv, AloneHasBridge, AloneReconciles, Creating
<1>4. ASSUME NEW p \in Proc, EnsureBridge(p) \/ Spawn(p) \/ ConfigureNetwork(p)
      PROVE  AloneInv'
  BY <1>4 DEF EnsureBridge, Spawn, ConfigureNetwork, Goto, Alone, AloneInv, AloneHasBridge,
     AloneReconciles, Creating, LocalsByPoint
<1>5. ASSUME NEW p \in Proc, AllocateAddress(p)
      PROVE  AloneInv'
  <2>1. pc[p] = "networked" /\ pc'[p] = "allocated" /\ bridge' = bridge
    BY <1>5 DEF AllocateAddress, Goto
  <2> QED
    BY <2>1 DEF Alone, AloneInv, AloneHasBridge, AloneReconciles
<1>6. ASSUME NEW p \in Proc, Record(p)
      PROVE  AloneInv'
  <2>1. pc'[p] \in {"created", "idle"}
    BY <1>6 DEF Record, Finish
  <2> QED
    BY <2>1 DEF Alone, AloneInv, AloneHasBridge, AloneReconciles, Creating
<1>7. ASSUME NEW p \in Proc,
             \/ CreateFails(p)
             \/ ExitAfterCreate(p)
             \/ DestroyCommit(p)
             \/ DestroyKilledInCommit(p)
             \/ Killed(p)
             \/ UpdateStatus(p)
      PROVE  AloneInv'
  <2>1. pc'[p] = "idle"
    BY <1>7 DEF CreateFails, ExitAfterCreate, DestroyCommit, DestroyKilledInCommit, Killed,
       UpdateStatus, Finish
  <2> QED
    BY <2>1 DEF Alone, AloneInv, AloneHasBridge, AloneReconciles, Creating
<1>8. ASSUME NEW p \in Proc,
             PowerOff(p) \/ Terminate(p) \/ CheckDirectory(p) \/ RemoveDirectory(p)
      PROVE  AloneInv'
  <2>1. pc'[p] \in {"poweredOff", "terminated", "removing", "tornDown"}
    BY <1>8 DEF PowerOff, Terminate, CheckDirectory, RemoveDirectory, Goto
  <2> QED
    BY <2>1 DEF Alone, AloneInv, AloneHasBridge, AloneReconciles, Creating
<1>9. ASSUME NEW p \in Proc, NEW live \in View, ReconcileCompare(p, live)
      PROVE  AloneInv'
  <2>1. /\ pc[p] = "reconcile" /\ machines' = machines
        /\ pc'[p] = "idle" \/ (pc'[p] = "update" /\ job'[p].id = job[p].id)
    BY <1>9 DEF ReconcileCompare, Finish, Job, shared
  <2> QED
    BY <2>1 DEF Alone, AloneInv, AloneHasBridge, AloneReconciles, Creating, Recorded
<1>10. CASE (\E id \in Id : GuestExits(id)) \/ UNCHANGED vars
  BY <1>10 DEF GuestExits, vars, AloneInv, AloneHasBridge, AloneReconciles, Recorded
<1>11. ASSUME NEW p \in Proc, Start(p) \/ TimerFires(p)
       PROVE  AloneInv'
  <2>1. Begins(p)
    BY <1>11, StartBegins
  <2> QED
    BY <1>1, <1>2, <1>3, <2>1 DEF Begins
<1>12. ASSUME NEW p \in Proc, ReconcileQuery(p)
       PROVE  AloneInv'
  BY <1>9, <1>12, QueryCompares
<1> QED
  BY <1>4, <1>5, <1>6, <1>7, <1>8, <1>10, <1>11, <1>12
  DEF Next, Undisturbed, Interrupted, Step, GivesUp

LEMMA AloneInvariance ==
  ASSUME Alone
  PROVE  Spec => []AloneInv
<1>1. Init => AloneInv
  BY DEF Init, AloneInv, AloneHasBridge, AloneReconciles, Creating
<1>2. SandboxInv /\ AloneInv /\ [Next]_vars => AloneInv'
  BY AloneStep
<1> QED
  BY <1>1, <1>2, SandboxInvariance, PTL DEF Spec

(* A create that is not disturbed by another invocation ends with the      *)
(* bridge its sandbox needs, also after others were killed or failed.      *)
THEOREM AloneCreatesHaveBridge ==
  ASSUME Alone
  PROVE  Spec => CreatedHasBridge
<1>1. SandboxInv /\ AloneInv /\ [Next]_vars =>
        [\A id \in Id : ~Recorded(id) /\ HasIp(id)' => bridge']_vars
  <2> SUFFICES ASSUME SandboxInv, AloneInv, Next, NEW id \in Id, ~Recorded(id), HasIp(id)'
               PROVE  bridge'
    OBVIOUS
  <2> USE DEF SandboxInv, TypeOK, HasIp, Recorded
  <2>1. ASSUME NEW p \in Proc, Record(p) PROVE bridge'
    <3>1. pc[p] = "configured" /\ id = job[p].id /\ machines'[id].ip = job[p].ip
      BY <2>1 DEF Record
    <3>2. bridge' = bridge
      BY <2>1 DEF Record
    <3> QED
      BY <3>1, <3>2 DEF AloneInv, AloneHasBridge, Creating
  <2>2. ASSUME NEW p \in Proc, DestroyCommit(p) PROVE FALSE
    BY <2>2 DEF DestroyCommit, AfterDestroy
  <2>3. ASSUME NEW p \in Proc, UpdateStatus(p) PROVE FALSE
    BY <2>3 DEF UpdateStatus
  <2> QED
    BY <2>1, <2>2, <2>3, WhoWritesMachines
<1> QED
  BY <1>1, SandboxInvariance, AloneInvariance, PTL DEF Spec, CreatedHasBridge

(* A mark that says a destroy failed is lost to no later command but a     *)
(* destroy, if each command has ended when the next one begins.            *)
THEOREM AloneMarksStay ==
  ASSUME Alone
  PROVE  Spec => FailedMarkStays
<1>1. SandboxInv /\ AloneInv /\ [Next]_vars =>
        [\A id \in Id :
           Recorded(id) /\ machines[id].status = "failed" /\ Recorded(id)'
             => machines'[id].status = "failed"]_vars
  <2> SUFFICES ASSUME SandboxInv, AloneInv, Next, NEW id \in Id,
                      Recorded(id), machines[id].status = "failed", Recorded(id)'
               PROVE  machines'[id].status = "failed"
    OBVIOUS
  <2> USE DEF SandboxInv, TypeOK
  <2>1. ASSUME NEW p \in Proc, Record(p) PROVE machines'[id] = machines[id]
    BY <2>1 DEF Record, CreateOwnsId, Creating
  <2>2. ASSUME NEW p \in Proc, DestroyCommit(p) PROVE machines'[id].status = "failed"
    <3>1. CASE id = job[p].id /\ job[p].cleanupFailed
      <4>1. machines' = [machines EXCEPT ![id].status = "failed"]
        BY <2>2, <3>1 DEF DestroyCommit, AfterDestroy
      <4>2. machines[id] \in Machine
        BY DEF Recorded
      <4> QED
        BY <4>1, <4>2 DEF Machine
    <3>2. CASE id # job[p].id \/ ~job[p].cleanupFailed
      BY <2>2, <3>2 DEF DestroyCommit, AfterDestroy, Recorded
    <3> QED
      BY <3>1, <3>2
  <2>3. ASSUME NEW p \in Proc, UpdateStatus(p) PROVE machines'[id] = machines[id]
    <3>1. id # job[p].id
      BY <2>3 DEF UpdateStatus, AloneInv, AloneReconciles
    <3> QED
      BY <2>3, <3>1 DEF UpdateStatus
  <2> QED
    BY <2>1, <2>2, <2>3, WhoWritesMachines
<1> QED
  BY <1>1, SandboxInvariance, AloneInvariance, PTL DEF Spec, FailedMarkStays
=============================================================================
