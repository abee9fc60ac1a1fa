---------------------------- MODULE NspawnRuntime ----------------------------
(***************************************************************************)
(* The systemd-nspawn backend, src/src/runtime/nspawn.rs: create, destroy  *)
(* and status, step by step between the points where other invocations,    *)
(* the guest and kills come in.  Nothing undoes a create that fails.       *)
(***************************************************************************)
EXTENDS Sandboxes

-----------------------------------------------------------------------------
(* systemd-nspawn starts; one that is to join a bridge that is gone exits  *)
(* at once.                                                                *)
Spawn(p) ==
  /\ \/ Goto(p, "allocated", "spawned")
     \/ ~job[p].nat /\ Goto(p, "prepared", "spawned")
  /\ guest' = IF job[p].nat /\ ~bridge
              THEN guest
              ELSE [guest EXCEPT ![job[p].id] = "running"]
  /\ UNCHANGED <<machines, net, fresh, lost, dirs, guestIp, bridge, job>>

(* wait_for_machine_fully_ready found it running, and the address is set   *)
(* inside.                                                                 *)
ConfigureNetwork(p) ==
  /\ Goto(p, "spawned", "configured")
  /\ guest[job[p].id] = "running"
  /\ guestIp' = [guestIp EXCEPT ![job[p].id] = job[p].ip]
  /\ UNCHANGED <<machines, net, fresh, lost, dirs, guest, bridge, job>>

(* The errors that come by themselves: no address is left, or the guest is *)
(* not ready in time.                                                      *)
GivesUp(p) ==
  /\ \/ pc[p] = "networked" /\ PoolExhausted(net)
     \/ pc[p] = "spawned" /\ guest[job[p].id] # "running"
  /\ CreateFails(p)

-----------------------------------------------------------------------------
(* The timer thread of a create calls destroy, as long as its process is   *)
(* there.                                                                  *)
TimerFires(p) == DestroyRead(p, job[p].id, "created", "none")

Halt(id) ==
  /\ guest' = [guest EXCEPT ![id] = "none"]
  /\ guestIp' = [guestIp EXCEPT ![id] = NoIp]

(* machinectl poweroff; its errors are ignored.                            *)
PowerOff(p) ==
  /\ Goto(p, "destroy", "poweredOff")
  /\ \/ UNCHANGED guest
     \/ /\ guest[job[p].id] = "running"
        /\ guest' = [guest EXCEPT ![job[p].id] = "closing"]
  /\ UNCHANGED <<machines, net, fresh, lost, dirs, guestIp, bridge, job>>

(* machinectl terminate after the poll, which waits 5 s at most; its       *)
(* errors are ignored.                                                     *)
Terminate(p) ==
  /\ Goto(p, "poweredOff", "terminated")
  /\ \/ UNCHANGED <<guest, guestIp>>
     \/ guest[job[p].id] # "none" /\ Halt(job[p].id)
  /\ UNCHANGED <<machines, net, fresh, lost, dirs, bridge, job>>

(* overlay::teardown, once it has unmounted: is there a directory?         *)
CheckDirectory(p) ==
  /\ Goto(p, "terminated", IF job[p].id \in dirs THEN "removing" ELSE "tornDown")
  /\ UNCHANGED <<shared, job>>

(* remove_dir_all fails when it cannot remove something, or when another   *)
(* destroy removed it first.                                               *)
RemoveDirectory(p) ==
  /\ Goto(p, "removing", "tornDown")
  /\ \/ dirs' = dirs \ {job[p].id} /\ UNCHANGED job
     \/ /\ job' = [job EXCEPT ![p].cleanupFailed = TRUE]
        /\ UNCHANGED dirs
  /\ UNCHANGED <<machines, net, fresh, lost, guest, guestIp, bridge>>

(* Mutant: the record goes even if its directory could not be removed.     *)
AfterDestroyAlways(p) ==
  IF Recorded(job[p].id) THEN [machines EXCEPT ![job[p].id] = Absent] ELSE machines

(* The machine table destroy's closure leaves ...                          *)
AfterDestroy(p) ==
  LET id == job[p].id IN
  IF ~Recorded(id) THEN machines
  ELSE IF job[p].cleanupFailed THEN [machines EXCEPT ![id].status = "failed"]
  ELSE [machines EXCEPT ![id] = Absent]

(* Mutant: the address is released even if the machine is kept.            *)
PoolAfterDestroyAlways(p) ==
  LET id == job[p].id IN
  IF HasIp(id) THEN Release(net, machines[id].ip) ELSE net

(* ... and the pool.                                                       *)
PoolAfterDestroy(p) ==
  LET id == job[p].id IN
  IF HasIp(id) /\ ~job[p].cleanupFailed THEN Release(net, machines[id].ip) ELSE net

(* Mutant: the running machines are counted before the record goes.        *)
DestroyCommitCountingFirst(p) ==
  /\ pc[p] = "tornDown"
  /\ machines' = AfterDestroy(p)
  /\ net' = PoolAfterDestroy(p)
  /\ bridge' = (bridge /\ AnyRunning(machines))
  /\ Finish(p)
  /\ UNCHANGED <<fresh, lost, dirs, guest, guestIp>>

DestroyCommit(p) ==
  /\ pc[p] = "tornDown"
  /\ machines' = AfterDestroy(p)
  /\ net' = PoolAfterDestroy(p)
  /\ bridge' = (bridge /\ AnyRunning(AfterDestroy(p)))
  /\ Finish(p)
  /\ UNCHANGED <<fresh, lost, dirs, guest, guestIp>>

(* The closure removes the bridge before with_lock writes the state: a     *)
(* kill in between leaves the record and no bridge.                        *)
DestroyKilledInCommit(p) ==
  /\ pc[p] = "tornDown"
  /\ bridge' = (bridge /\ AnyRunning(AfterDestroy(p)))
  /\ Finish(p)
  /\ UNCHANGED <<machines, net, fresh, lost, dirs, guest, guestIp>>

-----------------------------------------------------------------------------
(* nspawn's status: machinectl show fails for a machine that is not there. *)
NspawnStatus(id) ==
  IF guest[id] = "none"
  THEN [status |-> "stopped", pid |-> "none"]
  ELSE [status |-> guest[id], pid |-> "leader"]

ReconcileQuery(p) == ReconcileCompare(p, NspawnStatus(job[p].id))

(* The guest shuts itself down, or its shutdown ends.                      *)
GuestExits(id) ==
  /\ guest[id] # "none"
  /\ Halt(id)
  /\ UNCHANGED <<machines, net, fresh, lost, dirs, bridge, pc, job>>

Step(p) ==
  \/ EnsureBridge(p)
  \/ AllocateAddress(p)
  \/ Spawn(p)
  \/ ConfigureNetwork(p)
  \/ Record(p)
  \/ GivesUp(p)
  \/ ExitAfterCreate(p)
  \/ PowerOff(p)
  \/ Terminate(p)
  \/ CheckDirectory(p)
  \/ RemoveDirectory(p)
  \/ DestroyCommit(p)
  \/ TimerFires(p)
  \/ ReconcileQuery(p)
  \/ UpdateStatus(p)

Start(p) ==
  \E id \in Id :
    \/ \E nat, timer \in BOOLEAN : PrepareImage(p, id, nat, timer)
    \/ DestroyRead(p, id, "idle", "none")
    \/ ReconcileRead(p, id)

Undisturbed ==
  \/ \E p \in Proc : Start(p) \/ Step(p)
  \/ \E id \in Id : GuestExits(id)

Interrupted(p) == CreateFails(p) \/ DestroyKilledInCommit(p) \/ Killed(p)

Next == Undisturbed \/ \E p \in Proc : Interrupted(p)

Spec == Init /\ [][Next]_vars

(* No invocation is killed, and no command of create fails at random.      *)
UndisturbedSpec == Init /\ [][Undisturbed]_vars

(* An invocation that is not killed goes on.                               *)
FairSpec == Spec /\ \A p \in Proc : WF_vars(Step(p))

-----------------------------------------------------------------------------
(* Every address that is handed out, and every directory of the machines   *)
(* S, is that of a record, of a create under way or of one that failed.    *)
Accounted(S) ==
  /\ \A o \in Octet :
       LET id == net.alloc[o] IN
       id # NoId =>
         \/ id \in lost
         \/ Recorded(id) /\ machines[id].ip = o
         \/ \E p \in Proc : pc[p] \in Creating /\ job[p].id = id /\ job[p].ip = o
  /\ \A id \in dirs \cap S : id \in lost \/ Recorded(id) \/ BeingCreated(id)

(* What an invocation's locals say at a point: no address before it is     *)
(* allocated, no directory after its teardown.                             *)
LocalsByPoint(S) ==
  \A p \in Proc :
    /\ pc[p] \in {"prepared", "networked"} => job[p].ip = NoIp
    /\ pc[p] = "tornDown" /\ ~job[p].cleanupFailed => job[p].id \notin dirs \cap S

(* A machine whose record is gone left nothing that the next destroy would *)
(* have to find: its directory is removed and its address is back in the   *)
(* pool, however many destroys of it ran at once and whichever of them     *)
(* failed or was killed.  The only leftovers are those of a create that    *)
(* failed (nspawn.rs:57-218 undoes nothing).                               *)
NothingLeftBehind ==
  \A id \in Id \ (fresh \cup lost) :
    ~Recorded(id) /\ ~BeingCreated(id) =>
      id \notin dirs /\ \A o \in Octet : net.alloc[o] # id

(* What every step of every invocation preserves.                          *)
SandboxInv ==
  /\ TypeOK
  /\ NoSharedAddress
  /\ NextIsPastAll
  /\ CreateOwnsId
  /\ RecordOwnsAddress
  /\ LocalsByPoint(Id)
  /\ Accounted(Id)
  /\ BridgeCleanedUp

(* A machine marked failed stays marked until a destroy of it succeeds:    *)
(* nspawn.rs:381 marks it "so the user can investigate".                   *)
FailedMarkStays ==
  [][\A id \in Id :
       Recorded(id) /\ machines[id].status = "failed" /\ Recorded(id)'
         => machines'[id].status = "failed"]_vars

(* A create that ends well leaves its sandbox on its bridge: the bridge    *)
(* goes when the last sandbox does (docs.md:479), and concurrent           *)
(* invocations are safe (docs.md:982).                                     *)
CreatedHasBridge ==
  [][\A id \in Id : ~Recorded(id) /\ HasIp(id)' => bridge']_vars

(* A machine created with a timeout is destroyed when it is over           *)
(* (docs.md:130), or a destroy of it at least begins.                      *)
TimeoutDestroys ==
  \A id \in Id :
    (Recorded(id) /\ machines[id].timer) ~>
      (~Recorded(id) \/ \E p \in Proc : pc[p] \in Destroying /\ job[p].id = id)

(* When no address can be allocated, all are in use: "Destroy unused       *)
(* machines to free IPs." (ipam.rs:14).                                    *)
ExhaustedMeansUsed ==
  PoolExhausted(net) => \A o \in Octet : net.alloc[o] # NoId
=============================================================================
