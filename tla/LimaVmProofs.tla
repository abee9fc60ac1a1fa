---------------------------- MODULE LimaVmProofs ----------------------------
(***************************************************************************)
(* The proofs about LimaVm: LimaInv is inductive, and the three properties *)
(* of the VM commands follow from it. Most steps move one command and      *)
(* touch nothing else: QuietStep deals with these once and for all.        *)
(***************************************************************************)
EXTENDS LimaVm, FiniteSetTheorems, TLAPS

-----------------------------------------------------------------------------
(* Steps of one command                                                    *)

(* The other commands are where they were.                                 *)
Others(p) == \A q \in Invocation \ {p} : lima'[q] = lima[q]

(* A command that goes on keeps what it is and what it has decided.        *)
Keeps(p) ==
  /\ lima'[p].cmd = lima[p].cmd /\ lima'[p].force = lima[p].force
  /\ lima'[p].deleting = lima[p].deleting /\ lima'[p].back = lima[p].back
  /\ lima'[p].since = lima[p].since

(* A command that ended knows nothing any more.                            *)
Rests(p) ==
  lima'[p].at = "idle" /\ ~lima'[p].deleting /\ lima'[p].back = "nowhere"

(* A command that rests is one the type invariant allows.                  *)
LEMMA RestingType == Resting \in Locals
BY LimaBoundsAssumption DEF Resting, Locals, Commands, LimaPoints, NoPid

(* What Moved, the end of most actions, does to the commands.              *)
LEMMA MovedLocals ==
  ASSUME LimaTypeOK, NEW p \in Invocation, NEW b \in LimaPoints, Moved(p, b)
  PROVE  /\ lima' \in [Invocation -> Locals]
         /\ Others(p)
         /\ b = "idle" => Rests(p)
         /\ b # "idle" => /\ Keeps(p) /\ lima'[p].at = b
                          /\ lima'[p].read = lima[p].read
                          /\ lima'[p].version = lima[p].version
<1>1. lima \in [Invocation -> Locals]
  BY DEF LimaTypeOK
<1>2. CASE b = "idle"
  BY <1>1, <1>2, RestingType DEF Moved, Others, Rests, Resting
<1>3. CASE b # "idle"
  <2>1. [lima[p] EXCEPT !.at = b] \in Locals
    BY <1>1 DEF Locals
  <2>2. lima' = [lima EXCEPT ![p] = [lima[p] EXCEPT !.at = b]]
    BY <1>3 DEF Moved
  <2>3. lima[p] \in Locals
    BY <1>1
  <2> QED
    BY <1>1, <1>3, <2>1, <2>2, <2>3 DEF Others, Keeps, Locals
<1> QED
  BY <1>2, <1>3

(* What the end of repair_stale_pid does to the commands: rest, or go on   *)
(* where the repair was called from.                                       *)
LEMMA RepairedLocals ==
  ASSUME LimaTypeOK, NEW p \in Invocation, Repaired(p)
  PROVE  /\ lima' \in [Invocation -> Locals]
         /\ Others(p)
         /\ \/ Rests(p)
            \/ /\ Keeps(p) /\ lima'[p].read = NoPid /\ lima'[p].version = lima[p].version
               /\ lima'[p].at = (IF lima[p].deleting THEN "delete" ELSE "startStatus")
<1>1. lima \in [Invocation -> Locals]
  BY DEF LimaTypeOK
<1>2. CASE lima[p].cmd = "repair"
  BY <1>1, <1>2, RestingType DEF Repaired, AfterRepair, Others, Rests, Resting
<1>3. CASE lima[p].cmd # "repair"
  <2> DEFINE b == IF lima[p].deleting THEN "delete" ELSE "startStatus"
  <2>1. AfterRepair(p) = b /\ b # "idle" /\ b \in LimaPoints
    BY <1>3 DEF AfterRepair, LimaPoints, Looks
  <2> HIDE DEF b
  <2>2. lima' = [lima EXCEPT ![p] = [lima[p] EXCEPT !.at = b, !.read = NoPid]]
    BY <2>1 DEF Repaired
  <2>3. lima[p] \in Locals
    BY <1>1
  <2>4. [lima[p] EXCEPT !.at = b, !.read = NoPid] \in Locals
    BY <2>1, <2>3 DEF Locals
  <2> QED
    BY <1>1, <2>2, <2>3, <2>4 DEF Others, Keeps, Locals, b
<1> QED
  BY <1>2, <1>3

(* Everything the invariant asks of one command.                           *)
Fits(p) ==
  /\ lima[p].at \in {"check", "cargo", "build", "touch"} => lima[p].back # "nowhere"
  /\ lima[p].at \in {"current", "listStatus", "list"} \/ lima[p].back = "list" =>
       lima[p].cmd = "recreate"
  /\ lima[p].at = "delete" => lima[p].deleting
  /\ lima[p].read \in Pid /\ lima[p].at \in {"repairStatus", "repairAlive"} =>
       agent[lima[p].read] # "unborn"
  /\ lima[p].read \in Pid /\ lima[p].at = "removePid" => agent[lima[p].read] = "dead"
  /\ lima[p].at = "build" => late \/ lima[p].version = source
  /\ lima[p].at = "touch" => binary = NoBinary \/ late \/ binary = source
  /\ Bound(p) /\ ~lima[p].force => lima[p].cmd = "recreate" /\ Inside \subseteq lima[p].since

(* The invariant asks it of every command.                                 *)
LEMMA AllFit ==
  ASSUME LimaInv, NEW p \in Invocation
  PROVE  Fits(p)
BY DEF LimaInv, LocalsFit, AgentsFit, BuildsFit, SandboxesFit, Fits

(* A step of one command that touches neither the VM nor the build keeps   *)
(* the invariant when the command fits where it arrives.                   *)
LEMMA QuietStep ==
  ASSUME LimaInv, NEW p \in Invocation, lima' \in [Invocation -> Locals], Others(p),
         UNCHANGED <<Vm, Build>>, given' \in 0 .. MaxCommands, Fits(p)',
         lima'[p].at = "build" => \A q \in Invocation \ {p} : lima[q].at # "build"
  PROVE  LimaInv'
<1>1. LimaTypeOK'
  BY DEF LimaInv, LimaTypeOK, Vm, Build
<1>2. \A q \in Invocation \ {p} : lima'[q] = lima[q]
  BY DEF Others
<1>3. LocalsFit'
  BY <1>2 DEF LimaInv, LocalsFit, Fits
<1>4. AgentsFit'
  BY <1>2 DEF LimaInv, AgentsFit, Fits, Vm, Alive
<1>5. BuildsFit'
  BY <1>2 DEF LimaInv, BuildsFit, Fits, Build
<1>6. SandboxesFit'
  BY <1>2 DEF LimaInv, SandboxesFit, Fits, Vm, Inside, Bound
<1> QED
  BY <1>1, <1>3, <1>4, <1>5, <1>6 DEF LimaInv

(* The same of a plain move, with what each destination asks for.          *)
LEMMA QuietMove ==
  ASSUME LimaInv, NEW p \in Invocation, NEW b \in LimaPoints, Moved(p, b),
         UNCHANGED <<Vm, Build>>, given' = given,
         b \in {"check", "cargo", "build", "touch"} => lima[p].back # "nowhere",
         b \in {"current", "listStatus", "list"} => lima[p].cmd = "recreate",
         b = "delete" => lima[p].deleting,
         b \in {"repairStatus", "repairAlive"} /\ lima[p].read \in Pid =>
           agent[lima[p].read] # "unborn",
         b = "removePid" /\ lima[p].read \in Pid => agent[lima[p].read] = "dead",
         b \notin {"build", "touch"},
         b \in {"confirm", "reStatus"} /\ ~lima[p].force =>
           lima[p].cmd = "recreate" /\ Inside \subseteq lima[p].since
  PROVE  LimaInv'
<1>1. LimaTypeOK /\ given \in 0 .. MaxCommands
  BY DEF LimaInv, LimaTypeOK
<1>2. Fits(p)
  BY AllFit
<1>3. /\ lima' \in [Invocation -> Locals]
      /\ Others(p)
      /\ b = "idle" => Rests(p)
      /\ b # "idle" => /\ Keeps(p) /\ lima'[p].at = b
                       /\ lima'[p].read = lima[p].read
                       /\ lima'[p].version = lima[p].version
  BY <1>1, MovedLocals
<1>4. Fits(p)' /\ lima'[p].at # "build"
  <2>1. CASE b = "idle"
    BY <1>3, <2>1 DEF Fits, Rests, Bound
  <2>2. CASE b # "idle"
    BY <1>2, <1>3, <2>2 DEF Fits, Keeps, Bound, Vm, Build, Inside
  <2> QED
    BY <2>1, <2>2
<1> QED
  BY <1>1, <1>3, <1>4, QuietStep

(* The same of a repair that found nothing to remove.                      *)
LEMMA QuietRepair ==
  ASSUME LimaInv, NEW p \in Invocation, Repaired(p), UNCHANGED <<Vm, Build>>, given' = given
  PROVE  LimaInv'
<1>1. LimaTypeOK /\ given \in 0 .. MaxCommands
  BY DEF LimaInv, LimaTypeOK
<1>2. Fits(p)
  BY AllFit
<1>3. /\ lima' \in [Invocation -> Locals]
      /\ Others(p)
      /\ \/ Rests(p)
         \/ /\ Keeps(p) /\ lima'[p].read = NoPid /\ lima'[p].version = lima[p].version
            /\ lima'[p].at = (IF lima[p].deleting THEN "delete" ELSE "startStatus")
  BY <1>1, RepairedLocals
<1>4. Fits(p)' /\ lima'[p].at # "build"
  <2>1. CASE Rests(p)
    BY <1>3, <2>1 DEF Fits, Rests, Bound
  <2>2. CASE ~Rests(p)
    BY <1>2, <1>3, <2>2 DEF Fits, Keeps, Bound, Vm, Build, Inside
  <2> QED
    BY <2>1, <2>2
<1> QED
  BY <1>1, <1>3, <1>4, QuietStep
-----------------------------------------------------------------------------
(* Steps that touch neither the VM nor the build                           *)

(* Recreated ends the command.                                             *)
LEMMA RecreatedInv ==
  ASSUME LimaInv, NEW p \in Invocation, Recreated(p), UNCHANGED given
  PROVE  LimaInv'
<1>1. Fits(p)
  BY AllFit
<1> QED
  BY <1>1, QuietMove DEF Recreated, LimaGoes, LimaPoints, Looks, Fits

(* A kill ends the command wherever it stands.                             *)
LEMMA LimaKilledInv ==
  ASSUME LimaInv, NEW p \in Invocation, LimaKilled(p), UNCHANGED given
  PROVE  LimaInv'
<1>1. Fits(p)
  BY AllFit
<1> QED
  BY <1>1, QuietMove DEF LimaKilled, LimaGoes, LimaPoints, Looks, Fits

(* vm stop asks for the status.                                            *)
LEMMA StopStatusInv ==
  ASSUME LimaInv, NEW p \in Invocation, StopStatus(p), UNCHANGED given
  PROVE  LimaInv'
<1>1. Fits(p)
  BY AllFit
<1> QED
  BY <1>1, QuietMove DEF StopStatus, LimaGoes, LimaPoints, Looks, Fits

(* recreate looks for a VM to list; there is no sandbox without one, so it *)
(* may go on to its confirmation.                                          *)
LEMMA ListStatusInv ==
  ASSUME LimaInv, NEW p \in Invocation, ListStatus(p), UNCHANGED given
  PROVE  LimaInv'
<1>1. Fits(p)
  BY AllFit
<1> QED
  BY <1>1, QuietMove
  DEF ListStatus, LimaGoes, LimaPoints, Looks, Fits, Bound, LimaInv, SandboxesFit

(* recreate finds no VM and deletes without a confirmation: there is no    *)
(* sandbox to lose.                                                        *)
LEMMA CurrentStatusInv ==
  ASSUME LimaInv, NEW p \in Invocation, CurrentStatus(p), UNCHANGED given
  PROVE  LimaInv'
<1>1. Fits(p)
  BY AllFit
<1> QED
  BY <1>1, QuietMove
  DEF CurrentStatus, LimaGoes, LimaPoints, Looks, Fits, Bound, LimaInv, SandboxesFit

(* The confirmation is given or refused.                                   *)
LEMMA ConfirmInv ==
  ASSUME LimaInv, NEW p \in Invocation, Confirm(p), UNCHANGED given
  PROVE  LimaInv'
<1>1. Fits(p)
  BY AllFit
<1> QED
  BY <1>1, QuietMove DEF Confirm, LimaGoes, LimaPoints, Looks, Fits, Bound

(* The VM has booted.                                                      *)
LEMMA BootedInv ==
  ASSUME LimaInv, NEW p \in Invocation, Booted(p), UNCHANGED given
  PROVE  LimaInv'
<1>1. Fits(p)
  BY AllFit
<1> QED
  BY <1>1, QuietMove DEF Booted, LimaGoes, LimaPoints, Looks, Fits

(* A current binary sends a command on to where its build was due.         *)
LEMMA CheckBinaryInv ==
  ASSUME LimaInv, NEW p \in Invocation, CheckBinary(p), UNCHANGED given
  PROVE  LimaInv'
<1>1. Fits(p)
  BY AllFit
<1> QED
  BY <1>1, QuietMove
  DEF CheckBinary, LimaGoes, LimaPoints, Looks, Fits, Bound, LimaInv, LimaTypeOK,
      Locals

(* A failure ends a command, but for a forced recreate that only looks: it *)
(* goes on to its confirmation, and owes the sandboxes nothing.            *)
LEMMA LimactlFailsInv ==
  ASSUME LimaInv, NEW p \in Invocation, LimactlFails(p), UNCHANGED given
  PROVE  LimaInv'
<1>1. Fits(p)
  BY AllFit
<1> QED
  BY <1>1, QuietMove
  DEF LimactlFails, LimaGoes, LimaPoints, Looks, Fits, Fails, Looking, Bound

(* The pid repair reads belongs to a host agent that was started.          *)
LEMMA ReadPidInv ==
  ASSUME LimaInv, NEW p \in Invocation, ReadPid(p), UNCHANGED given
  PROVE  LimaInv'
<1>1. CASE pidFile = NoPid /\ Repaired(p)
  BY <1>1, QuietRepair DEF ReadPid
<1>2. CASE /\ pidFile # NoPid
           /\ lima' = [lima EXCEPT ![p] = [lima[p] EXCEPT !.at = "repairStatus", !.read = pidFile]]
  <2>1. LimaTypeOK /\ lima[p] \in Locals /\ Fits(p)
    BY AllFit DEF LimaInv, LimaTypeOK
  <2>2. [lima[p] EXCEPT !.at = "repairStatus", !.read = pidFile] \in Locals
    BY <2>1 DEF Locals, LimaTypeOK, LimaPoints, Looks
  <2>3. lima' \in [Invocation -> Locals] /\ Others(p)
    BY <1>2, <2>1, <2>2 DEF LimaTypeOK, Others
  <2>4. /\ Keeps(p) /\ lima'[p].at = "repairStatus" /\ lima'[p].read = pidFile
        /\ UNCHANGED <<Vm, Build>>
    BY <1>2, <2>1 DEF ReadPid, Keeps, Locals, LimaTypeOK
  <2>5. Fits(p)'
    BY <2>1, <2>4 DEF Fits, Keeps, Bound, Vm, Build, Inside, LimaInv, AgentsFit
  <2> QED
    BY <2>1, <2>3, <2>4, <2>5, QuietStep DEF LimaTypeOK
<1> QED
  BY <1>1, <1>2 DEF ReadPid

(* A pid file without a number goes straight to its removal.               *)
LEMMA RepairStatusInv ==
  ASSUME LimaInv, NEW p \in Invocation, RepairStatus(p), UNCHANGED given
  PROVE  LimaInv'
<1>1. Fits(p)
  BY AllFit
<1>2. CASE Running
  BY <1>2, QuietRepair DEF RepairStatus
<1>3. CASE ~Running /\ lima[p].read # Blank
  BY <1>1, <1>3, QuietMove DEF RepairStatus, Fits, LimaPoints, Looks
<1>4. CASE ~Running /\ lima[p].read = Blank
  BY <1>1, <1>4, QuietMove DEF RepairStatus, LimaPoints, Looks, Blank, Pid
<1> QED
  BY <1>2, <1>3, <1>4

(* A host agent that does not live has died for good: it was started.      *)
LEMMA RepairAliveInv ==
  ASSUME LimaInv, NEW p \in Invocation, RepairAlive(p), UNCHANGED given
  PROVE  LimaInv'
<1>1. Fits(p) /\ LimaTypeOK
  BY AllFit DEF LimaInv
<1>2. CASE Alive(lima[p].read)
  BY <1>2, QuietRepair DEF RepairAlive
<1>3. CASE ~Alive(lima[p].read)
  BY <1>1, <1>3, QuietMove DEF RepairAlive, Fits, LimaPoints, Looks, Alive, LimaTypeOK
<1> QED
  BY <1>2, <1>3

(* A build starts alone and is of the source of this moment.               *)
LEMMA StartCargoInv ==
  ASSUME LimaInv, NEW p \in Invocation, StartCargo(p), UNCHANGED given
  PROVE  LimaInv'
<1>1. LimaTypeOK /\ lima[p] \in Locals /\ Fits(p)
  BY AllFit DEF LimaInv, LimaTypeOK
<1>2. [lima[p] EXCEPT !.at = "build", !.version = source] \in Locals
  BY <1>1 DEF Locals, LimaTypeOK, LimaPoints, Looks
<1>3. lima' \in [Invocation -> Locals] /\ Others(p)
  BY <1>1, <1>2 DEF StartCargo, LimaTypeOK, Others
<1>4. /\ Keeps(p) /\ lima'[p].at = "build" /\ lima'[p].version = source
  BY <1>1 DEF StartCargo, Keeps, Locals, LimaTypeOK
<1>5. Fits(p)'
  BY <1>1, <1>4 DEF StartCargo, Fits, Keeps, Bound, Vm, Build, Inside
<1> QED
  BY <1>1, <1>3, <1>5, QuietStep DEF LimaTypeOK, StartCargo

(* What a move that sets where a build returns to does to the commands.    *)
LEMMA ReturningLocals ==
  ASSUME LimaTypeOK, NEW p \in Invocation, NEW a, NEW b \in LimaPoints,
         NEW back \in {"nowhere", "started", "recreated", "run", "list", "idle"},
         ReturningTo(p, a, b, back)
  PROVE  /\ lima' \in [Invocation -> Locals] /\ Others(p)
         /\ lima'[p].at = b /\ lima'[p].back = back
         /\ lima'[p].cmd = lima[p].cmd /\ lima'[p].force = lima[p].force
         /\ lima'[p].deleting = lima[p].deleting /\ lima'[p].since = lima[p].since
         /\ lima'[p].read = lima[p].read
<1>1. lima \in [Invocation -> Locals] /\ lima[p] \in Locals
  BY DEF LimaTypeOK
<1>2. [lima[p] EXCEPT !.at = b, !.back = back] \in Locals
  BY <1>1 DEF Locals
<1>3. lima' = [lima EXCEPT ![p] = [lima[p] EXCEPT !.at = b, !.back = back]]
  BY DEF ReturningTo
<1> QED
  BY <1>1, <1>2, <1>3 DEF Others, Locals

(* start_vm asks for the status.                                           *)
LEMMA StartStatusInv ==
  ASSUME LimaInv, NEW p \in Invocation, StartStatus(p), UNCHANGED given
  PROVE  LimaInv'
<1>1. LimaTypeOK /\ Fits(p)
  BY AllFit DEF LimaInv
<1>2. CASE exists
  BY <1>1, <1>2, QuietMove DEF StartStatus, LimaGoes, LimaPoints, Looks, Fits
<1>3. CASE ~exists
  <2>1. ReturningTo(p, "startStatus", "create", "started")
    BY <1>3 DEF StartStatus
  <2>2. "create" \in LimaPoints
    BY DEF LimaPoints, Looks
  <2>3. /\ lima' \in [Invocation -> Locals] /\ Others(p)
        /\ lima'[p].at = "create" /\ lima'[p].back = "started"
        /\ lima'[p].cmd = lima[p].cmd /\ lima'[p].force = lima[p].force
        /\ lima'[p].deleting = lima[p].deleting /\ lima'[p].since = lima[p].since
        /\ lima'[p].read = lima[p].read
    BY <1>1, <2>1, <2>2, ReturningLocals
  <2>4. Fits(p)' /\ lima'[p].at # "build"
    BY <1>1, <2>3 DEF StartStatus, Fits, Bound, Vm, Build, Inside
  <2> QED
    BY <1>1, <2>3, <2>4, QuietStep DEF StartStatus, LimaTypeOK
<1> QED
  BY <1>2, <1>3

(* start_vm returns, and only a recreate goes on to a list.                *)
LEMMA StartedInv ==
  ASSUME LimaInv, NEW p \in Invocation, Started(p), UNCHANGED given
  PROVE  LimaInv'
<1>1. LimaTypeOK /\ Fits(p)
  BY AllFit DEF LimaInv
<1>2. CASE LimaGoes(p, "started", "idle") \/ LimaGoes(p, "started", "rmBinary")
  BY <1>1, <1>2, QuietMove DEF Started, LimaGoes, LimaPoints, Looks, Fits
<1>3. ASSUME NEW back \in {"run", "list"}, ReturningTo(p, "started", "check", back),
             back = "list" => lima[p].cmd = "recreate"
      PROVE  LimaInv'
  <2>2. "check" \in LimaPoints
    BY DEF LimaPoints, Looks
  <2>3. /\ lima' \in [Invocation -> Locals] /\ Others(p)
        /\ lima'[p].at = "check" /\ lima'[p].back = back
        /\ lima'[p].cmd = lima[p].cmd /\ lima'[p].force = lima[p].force
        /\ lima'[p].deleting = lima[p].deleting /\ lima'[p].since = lima[p].since
        /\ lima'[p].read = lima[p].read
    BY <1>1, <1>3, <2>2, ReturningLocals
  <2>4. Fits(p)' /\ lima'[p].at # "build"
    BY <1>1, <1>3, <2>3 DEF Started, Fits, Bound, Vm, Build, Inside
  <2> QED
    BY <1>1, <2>3, <2>4, QuietStep DEF Started, LimaTypeOK
<1> QED
  BY <1>2, <1>3 DEF Started

(* A list without --force that finds a sandbox ends the command; one that  *)
(* finds none owes only the sandboxes made from now on.                    *)
LEMMA ListInv ==
  ASSUME LimaInv, NEW p \in Invocation, List(p), UNCHANGED given
  PROVE  LimaInv'
<1>1. LimaTypeOK /\ lima[p] \in Locals /\ Fits(p)
  BY AllFit DEF LimaInv, LimaTypeOK
<1>2. CASE (\E b \in Box : box[b] = "there") /\ ~lima[p].force
  BY <1>1, <1>2, QuietMove DEF List, LimaPoints
<1>3. CASE ~((\E b \in Box : box[b] = "there") /\ ~lima[p].force)
  <2>1. lima' = [lima EXCEPT ![p] = [lima[p] EXCEPT !.at = "confirm", !.since = {}]]
    BY <1>3 DEF List
  <2>2. [lima[p] EXCEPT !.at = "confirm", !.since = {}] \in Locals
    BY <1>1 DEF Locals, LimaPoints
  <2>3. lima' \in [Invocation -> Locals] /\ Others(p)
    BY <1>1, <2>1, <2>2 DEF LimaTypeOK, Others
  <2>4. /\ lima'[p].at = "confirm" /\ lima'[p].force = lima[p].force
        /\ lima'[p].cmd = lima[p].cmd /\ lima'[p].back = lima[p].back
    BY <1>1, <2>1, <2>2 DEF LimaTypeOK, Locals
  <2>5. lima[p].force \/ Inside' = {}
    BY <1>3 DEF List, Inside, Vm
  <2>6. Fits(p)'
    BY <1>1, <2>4, <2>5 DEF List, Fits, Bound
  <2> QED
    BY <1>1, <2>3, <2>4, <2>6, QuietStep DEF List, LimaTypeOK
<1> QED
  BY <1>2, <1>3

(* recreate is past its confirmation and keeps what it owes.               *)
LEMMA RecreateStatusInv ==
  ASSUME LimaInv, NEW p \in Invocation, RecreateStatus(p), UNCHANGED given
  PROVE  LimaInv'
<1>1. LimaTypeOK /\ lima[p] \in Locals /\ Fits(p)
  BY AllFit DEF LimaInv, LimaTypeOK
<1> DEFINE b == IF exists THEN "readPid" ELSE "create"
<1>2. [lima[p] EXCEPT !.deleting = TRUE, !.back = "recreated", !.at = b] \in Locals
  BY <1>1 DEF Locals, LimaPoints, Looks
<1>3. lima' = [lima EXCEPT ![p] = [lima[p] EXCEPT !.deleting = TRUE, !.back = "recreated",
                                                  !.at = b]]
  BY DEF RecreateStatus
<1>4. b \in {"readPid", "create"}
  OBVIOUS
<1> HIDE DEF b
<1>5. lima' \in [Invocation -> Locals] /\ Others(p)
  BY <1>1, <1>2, <1>3 DEF LimaTypeOK, Others
<1>6. /\ lima'[p].at = b /\ lima'[p].force = lima[p].force /\ lima'[p].back = "recreated"
      /\ lima'[p].cmd = lima[p].cmd /\ lima'[p].since = lima[p].since
  BY <1>1, <1>3 DEF LimaTypeOK, Locals
<1>7. Fits(p)'
  BY <1>1, <1>4, <1>6 DEF RecreateStatus, Fits, Bound, Vm, Inside
<1> QED
  BY <1>1, <1>4, <1>5, <1>6, <1>7, QuietStep DEF RecreateStatus, LimaTypeOK

(* A command given owes nothing yet.                                       *)
LEMMA CommandInv ==
  ASSUME LimaInv, NEW p \in Invocation, Command(p)
  PROVE  LimaInv'
<1>1. LimaTypeOK /\ lima[p] \in Locals
  BY DEF LimaInv, LimaTypeOK
<1>2. PICK c \in Commands, f \in BOOLEAN :
        /\ f => c = "recreate"
        /\ lima' = [lima EXCEPT ![p] =
             [Resting EXCEPT !.cmd = c, !.force = f,
               !.at = CASE c = "stop" -> "stopStatus" [] c = "recreate" -> "current"
                        [] OTHER -> "readPid"]]
  BY DEF Command
<1> DEFINE b == IF c = "stop" THEN "stopStatus" ELSE IF c = "recreate" THEN "current"
                ELSE "readPid"
<1>3. lima' = [lima EXCEPT ![p] = [Resting EXCEPT !.cmd = c, !.force = f, !.at = b]]
  BY <1>2
<1>4. /\ b \in LimaPoints /\ b # "build"
      /\ b \in {"stopStatus", "current", "readPid"}
      /\ b = "current" => c = "recreate"
  BY DEF LimaPoints, Looks
<1> HIDE DEF b
<1>5. [Resting EXCEPT !.cmd = c, !.force = f, !.at = b] \in Locals
  BY <1>4, RestingType DEF Locals
<1>6. lima' \in [Invocation -> Locals] /\ Others(p)
  BY <1>1, <1>3, <1>5 DEF LimaTypeOK, Others
<1>7. /\ lima'[p].at = b /\ lima'[p].cmd = c /\ lima'[p].back = "nowhere"
      /\ ~lima'[p].deleting
  BY <1>1, <1>3 DEF LimaTypeOK, Resting
<1>8. Fits(p)'
  BY <1>4, <1>7 DEF Fits, Bound
<1>9. given' \in 0 .. MaxCommands
  BY <1>1, LimaBoundsAssumption DEF LimaTypeOK, Command
<1> QED
  BY <1>4, <1>6, <1>7, <1>8, <1>9, QuietStep DEF Command
-----------------------------------------------------------------------------
(* Steps that touch the VM or the build                                    *)

(* A VM is made; it has no sandbox.                                        *)
LEMMA CreateVmInv ==
  ASSUME LimaInv, NEW p \in Invocation, CreateVm(p), UNCHANGED given
  PROVE  LimaInv'
<1>1. LimaTypeOK /\ Fits(p)
  BY AllFit DEF LimaInv
<1>2. Moved(p, "launch") /\ "launch" \in LimaPoints
  BY DEF CreateVm, LimaGoes, LimaPoints, Looks
<1>3. /\ lima' \in [Invocation -> Locals]
      /\ \A q \in Invocation \ {p} : lima'[q] = lima[q]
      /\ Keeps(p) /\ lima'[p].at = "launch"
      /\ lima'[p].read = lima[p].read
      /\ lima'[p].version = lima[p].version
  BY <1>1, <1>2, MovedLocals DEF Others
<1>4. LimaTypeOK'
  BY <1>1, <1>3 DEF CreateVm, LimaGoes, LimaTypeOK, Locals, Vm, Build
<1>5. LocalsFit'
  BY <1>1, <1>3 DEF CreateVm, LimaGoes, LimaInv, LocalsFit, Fits, Keeps
<1>6. AgentsFit'
  BY <1>1, <1>3
  DEF CreateVm, LimaGoes, LimaInv, AgentsFit, Fits, Keeps, Alive, Vm, Build
<1>7. BuildsFit'
  BY <1>1, <1>3 DEF CreateVm, LimaGoes, LimaInv, BuildsFit, Fits, Keeps, Vm, Build
<1>8. SandboxesFit'
  BY <1>1, <1>3
  DEF CreateVm, LimaGoes, LimaInv, SandboxesFit, LocalsFit, Fits, Keeps, Inside,
      Bound, Vm, Build
<1> QED
  BY <1>4, <1>5, <1>6, <1>7, <1>8 DEF LimaInv

(* A host agent is started only when there is no pid file, and then,       *)
(* unless a repair raced, no host agent lives.                             *)
LEMMA LaunchAgentInv ==
  ASSUME LimaInv, NEW p \in Invocation, LaunchAgent(p), UNCHANGED given
  PROVE  LimaInv'
<1>1. LimaTypeOK /\ Fits(p)
  BY AllFit DEF LimaInv
<1>2. Moved(p, "booting") /\ "booting" \in LimaPoints
  BY DEF LaunchAgent, LimaGoes, LimaPoints, Looks
<1>3. /\ lima' \in [Invocation -> Locals]
      /\ \A q \in Invocation \ {p} : lima'[q] = lima[q]
      /\ Keeps(p) /\ lima'[p].at = "booting"
      /\ lima'[p].read = lima[p].read
      /\ lima'[p].version = lima[p].version
  BY <1>1, <1>2, MovedLocals DEF Others
<1>4. LimaTypeOK'
  BY <1>1, <1>3
  DEF LaunchAgent, LimaGoes, LimaTypeOK, Locals, Vm, Build, Running, Blank, Pid, NoPid
<1>5. LocalsFit'
  BY <1>1, <1>3 DEF LaunchAgent, LimaGoes, LimaInv, LocalsFit, Fits, Keeps
<1>6. AgentsFit'
  <2>1. \A q \in Invocation :
          lima'[q].at \in {"repairStatus", "repairAlive", "removePid"} => lima'[q] = lima[q]
    BY <1>3
  <2>2. CASE UNCHANGED <<pidFile, agent>>
    BY <2>1, <2>2 DEF LaunchAgent, LimaInv, AgentsFit, Alive
  <2>3. ASSUME pidFile = NoPid, pidFile' = Blank, NEW n \in Pid, agent[n] = "unborn",
               agent' = [agent EXCEPT ![n] = "launched"]
        PROVE  AgentsFit'
    <3>1. \A m \in Pid : m # n => agent'[m] = agent[m]
      BY <1>1, <2>3 DEF LimaTypeOK
    <3>2. agent'[n] = "launched" /\ pidFile' \notin Pid
      BY <1>1, <2>3 DEF LimaTypeOK, Blank, Pid
    <3>3. raced \/ \A m \in Pid : ~Alive(m)
      BY <2>3 DEF LimaInv, AgentsFit, NoPid, Blank, Pid
    <3>4. raced' = raced
      BY DEF LaunchAgent
    <3>5. \A q \in Invocation :
            /\ lima'[q].read \in Pid /\ lima'[q].at \in {"repairStatus", "repairAlive"} =>
                 agent'[lima'[q].read] # "unborn"
            /\ lima'[q].read \in Pid /\ lima'[q].at = "removePid" =>
                 agent'[lima'[q].read] = "dead"
      BY <2>1, <2>3, <3>1, <3>2 DEF LimaInv, AgentsFit
    <3> QED
      BY <2>3, <3>1, <3>2, <3>3, <3>4, <3>5 DEF AgentsFit, Alive
  <2> QED
    BY <2>2, <2>3 DEF LaunchAgent
<1>7. BuildsFit'
  BY <1>1, <1>3 DEF LaunchAgent, LimaGoes, LimaInv, BuildsFit, Fits, Keeps, Vm, Build
<1>8. SandboxesFit'
  BY <1>1, <1>3
  DEF LaunchAgent, LimaGoes, LimaInv, SandboxesFit, LocalsFit, Fits, Keeps, Inside,
      Bound, Vm, Build
<1> QED
  BY <1>4, <1>5, <1>6, <1>7, <1>8 DEF LimaInv

(* The build ends: its binary is of the present source unless the source   *)
(* was changed meanwhile.                                                  *)
LEMMA BuildsInv ==
  ASSUME LimaInv, NEW p \in Invocation, Builds(p), UNCHANGED given
  PROVE  LimaInv'
<1>1. LimaTypeOK /\ Fits(p)
  BY AllFit DEF LimaInv
<1>2. Moved(p, "touch") /\ "touch" \in LimaPoints
  BY DEF Builds, LimaGoes, LimaPoints, Looks
<1>3. /\ lima' \in [Invocation -> Locals]
      /\ \A q \in Invocation \ {p} : lima'[q] = lima[q]
      /\ Keeps(p) /\ lima'[p].at = "touch"
      /\ lima'[p].read = lima[p].read
      /\ lima'[p].version = lima[p].version
  BY <1>1, <1>2, MovedLocals DEF Others
<1>4. LimaTypeOK'
  BY <1>1, <1>3 DEF Builds, LimaGoes, LimaTypeOK, Locals, Vm, Build
<1>5. LocalsFit'
  BY <1>1, <1>3 DEF Builds, LimaGoes, LimaInv, LocalsFit, Fits, Keeps
<1>6. AgentsFit'
  BY <1>1, <1>3
  DEF Builds, LimaGoes, LimaInv, AgentsFit, Fits, Keeps, Alive, Vm, Build, LimaTypeOK
<1>7. BuildsFit'
  BY <1>1, <1>3
  DEF Builds, LimaGoes, LimaInv, BuildsFit, Fits, Keeps, Vm, Build, LimaTypeOK
<1>8. SandboxesFit'
  BY <1>1, <1>3
  DEF Builds, LimaGoes, LimaInv, SandboxesFit, LocalsFit, Fits, Keeps, Inside, Bound,
      Vm, Build
<1> QED
  BY <1>4, <1>5, <1>6, <1>7, <1>8 DEF LimaInv

(* vm stop takes the host agent and its file together.                     *)
LEMMA StopInv ==
  ASSUME LimaInv, NEW p \in Invocation, Stop(p), UNCHANGED given
  PROVE  LimaInv'
<1>1. LimaTypeOK /\ Fits(p)
  BY AllFit DEF LimaInv
<1>2. Moved(p, "idle") /\ "idle" \in LimaPoints
  BY DEF Stop, LimaGoes, LimaPoints, Looks
<1>3. /\ lima' \in [Invocation -> Locals]
      /\ \A q \in Invocation \ {p} : lima'[q] = lima[q]
      /\ Rests(p)
  BY <1>1, <1>2, MovedLocals DEF Others
<1>4. LimaTypeOK'
  BY <1>1, <1>3 DEF Stop, LimaGoes, LimaTypeOK, Locals, Vm, Build, Running, Pid, NoPid
<1>5. LocalsFit'
  BY <1>1, <1>3 DEF Stop, LimaGoes, LimaInv, LocalsFit, Fits, Rests
<1>6. AgentsFit'
  BY <1>1, <1>3
  DEF Stop, LimaGoes, LimaInv, AgentsFit, Fits, Rests, Alive, Vm, Build, Running, Pid,
      NoPid, LimaTypeOK
<1>7. BuildsFit'
  BY <1>1, <1>3 DEF Stop, LimaGoes, LimaInv, BuildsFit, Fits, Rests, Vm, Build
<1>8. SandboxesFit'
  BY <1>1, <1>3
  DEF Stop, LimaGoes, LimaInv, SandboxesFit, LocalsFit, Fits, Rests, Inside, Bound,
      Vm, Build
<1> QED
  BY <1>4, <1>5, <1>6, <1>7, <1>8 DEF LimaInv

(* limactl delete takes the host agent, the file and the sandboxes.        *)
LEMMA DeleteVmInv ==
  ASSUME LimaInv, NEW p \in Invocation, DeleteVm(p), UNCHANGED given
  PROVE  LimaInv'
<1>1. LimaTypeOK /\ Fits(p)
  BY AllFit DEF LimaInv
<1>2. Moved(p, "create") /\ "create" \in LimaPoints
  BY DEF DeleteVm, LimaGoes, LimaPoints, Looks
<1>3. /\ lima' \in [Invocation -> Locals]
      /\ \A q \in Invocation \ {p} : lima'[q] = lima[q]
      /\ Keeps(p) /\ lima'[p].at = "create"
      /\ lima'[p].read = lima[p].read
      /\ lima'[p].version = lima[p].version
  BY <1>1, <1>2, MovedLocals DEF Others
<1>4. LimaTypeOK'
  BY <1>1, <1>3
  DEF DeleteVm, LimaGoes, LimaTypeOK, Locals, Vm, Build, NoBinary, NoPid, Pid
<1>5. LocalsFit'
  BY <1>1, <1>3 DEF DeleteVm, LimaGoes, LimaInv, LocalsFit, Fits, Keeps
<1>6. AgentsFit'
  BY <1>1, <1>3
  DEF DeleteVm, LimaGoes, LimaInv, AgentsFit, Fits, Keeps, Alive, Vm, Build, NoPid,
      Blank, Pid, LimaTypeOK
<1>7. BuildsFit'
  BY <1>1, <1>3 DEF DeleteVm, LimaGoes, LimaInv, BuildsFit, Fits, Keeps, Vm, Build
<1>8. SandboxesFit'
  BY <1>1, <1>3
  DEF DeleteVm, LimaGoes, LimaInv, SandboxesFit, LocalsFit, Fits, Keeps, Inside,
      Bound, Vm, Build, LimaTypeOK
<1> QED
  BY <1>4, <1>5, <1>6, <1>7, <1>8 DEF LimaInv

(* The removal: either the file is that of the dead host agent repair      *)
(* judged, and then no host agent lives, or the repair raced.              *)
LEMMA RemovePidInv ==
  ASSUME LimaInv, NEW p \in Invocation, RemovePid(p), UNCHANGED given
  PROVE  LimaInv'
<1>1. LimaTypeOK /\ Fits(p)
  BY AllFit DEF LimaInv
<1>2. /\ lima' \in [Invocation -> Locals]
      /\ \A q \in Invocation \ {p} : lima'[q] = lima[q]
      /\ \/ Rests(p)
         \/ /\ Keeps(p) /\ lima'[p].read \in {lima[p].read, NoPid}
            /\ lima'[p].version = lima[p].version
            /\ \/ lima'[p].at = "startStatus"
               \/ lima'[p].at = "delete" /\ lima[p].deleting
               \/ lima'[p].at = "confirm" /\ lima[p].force
  <2>1. CASE pidFile = NoPid
    <3>1. PICK b \in {"idle", "confirm"} : Moved(p, b) /\ (b = "confirm" => lima[p].force)
      BY <2>1 DEF RemovePid, Fails
    <3> QED
      BY <1>1, <3>1, MovedLocals DEF Others, LimaPoints
  <2>2. CASE pidFile # NoPid
    BY <1>1, <2>2, RepairedLocals DEF RemovePid, Others
  <2> QED
    BY <2>1, <2>2
<1>4. LimaTypeOK'
  BY <1>1, <1>2 DEF RemovePid, LimaTypeOK, Build
<1>5. LocalsFit'
  BY <1>1, <1>2 DEF LimaInv, LocalsFit, Fits, Keeps, Rests
<1>6. AgentsFit'
  <2>1. pidFile' \notin Pid /\ agent' = agent
    BY DEF RemovePid, NoPid, Pid
  <2>2. \A q \in Invocation :
          /\ lima'[q].read \in Pid /\ lima'[q].at \in {"repairStatus", "repairAlive"} =>
               agent[lima'[q].read] # "unborn"
          /\ lima'[q].read \in Pid /\ lima'[q].at = "removePid" => agent[lima'[q].read] = "dead"
    BY <1>2 DEF LimaInv, AgentsFit, Rests
  <2>3. raced' \/ \A n \in Pid : ~Alive(n)
    BY <1>1
    DEF RemovePid, LimaInv, AgentsFit, Fits, Alive, LimaTypeOK, NoPid, Blank, Pid
  <2> QED
    BY <2>1, <2>2, <2>3 DEF AgentsFit, Alive
<1>7. BuildsFit'
  BY <1>1, <1>2 DEF RemovePid, LimaInv, BuildsFit, Fits, Keeps, Rests, Build
<1>8. SandboxesFit'
  BY <1>1, <1>2
  DEF RemovePid, LimaInv, SandboxesFit, Fits, Keeps, Rests, Inside, Bound
<1> QED
  BY <1>4, <1>5, <1>6, <1>7, <1>8 DEF LimaInv

(* The stamp is touched: the binary below it is that of the build.         *)
LEMMA TouchInv ==
  ASSUME LimaInv, NEW p \in Invocation, Touch(p), UNCHANGED given
  PROVE  LimaInv'
<1>1. LimaTypeOK /\ lima \in [Invocation -> Locals] /\ lima[p] \in Locals /\ Fits(p)
  BY AllFit DEF LimaInv, LimaTypeOK
<1> DEFINE r == IF lima[p].back = "idle" THEN Resting
                ELSE [lima[p] EXCEPT !.at = lima[p].back, !.version = 0]
<1>2. r \in Locals
  <2>1. lima[p].back \in LimaPoints \/ lima[p].back = "nowhere"
    BY <1>1 DEF Locals, LimaPoints, Looks
  <2>2. CASE lima[p].back = "idle"
    BY <2>2, RestingType
  <2>3. CASE lima[p].back # "idle"
    <3>1. lima[p].back \in LimaPoints /\ 0 \in 0 .. MaxEdits
      BY <1>1, <2>1, LimaBoundsAssumption DEF Touch, Fits
    <3> QED
      BY <1>1, <2>3, <3>1 DEF Locals
  <2> QED
    BY <2>2, <2>3
<1>3. lima' \in [Invocation -> Locals] /\ \A q \in Invocation \ {p} : lima'[q] = lima[q]
  BY <1>1, <1>2 DEF Touch
<1>4. \/ Rests(p)
      \/ /\ Keeps(p) /\ lima'[p].at = lima[p].back /\ lima'[p].read = lima[p].read
         /\ lima'[p].at \in {"started", "recreated", "run", "list"}
  BY <1>1 DEF Touch, Rests, Keeps, Resting, Locals, Fits
<1>5. LimaTypeOK'
  BY <1>1, <1>3 DEF Touch, LimaTypeOK, Vm
<1>6. LocalsFit'
  BY <1>1, <1>3, <1>4 DEF LimaInv, LocalsFit, Fits, Keeps, Rests
<1>7. AgentsFit'
  BY <1>1, <1>3, <1>4 DEF Touch, LimaInv, AgentsFit, Fits, Keeps, Rests, Alive, Vm
<1>8. BuildsFit'
  BY <1>1, <1>3, <1>4 DEF Touch, LimaInv, BuildsFit, Fits, Keeps, Rests
<1>9. SandboxesFit'
  BY <1>1, <1>3, <1>4
  DEF Touch, LimaInv, SandboxesFit, Fits, Keeps, Rests, Inside, Bound, Vm
<1> QED
  BY <1>5, <1>6, <1>7, <1>8, <1>9 DEF LimaInv

(* A sandbox made inside is new to every recreate on its way; one          *)
(* destroyed is owed by none.                                              *)
LEMMA RunInsideInv ==
  ASSUME LimaInv, NEW p \in Invocation, RunInside(p), UNCHANGED given
  PROVE  LimaInv'
<1>1. LimaTypeOK /\ lima \in [Invocation -> Locals] /\ Fits(p)
  BY AllFit DEF LimaInv, LimaTypeOK
<1>2. "idle" \in LimaPoints
  BY DEF LimaPoints
<1>3. CASE UNCHANGED box /\ Moved(p, "idle")
  BY <1>2, <1>3, QuietMove DEF RunInside, Vm
<1>4. ASSUME Running, NEW b \in Box, box[b] = "there", box' = [box EXCEPT ![b] = "gone"],
             Moved(p, "idle")
      PROVE  LimaInv'
  <2>1. /\ lima' \in [Invocation -> Locals] /\ Rests(p)
        /\ \A q \in Invocation \ {p} : lima'[q] = lima[q]
    BY <1>1, <1>2, <1>4, MovedLocals DEF Others
  <2>2. LimaTypeOK'
    BY <1>1, <1>4, <2>1 DEF RunInside, LimaTypeOK, Build
  <2>3. LocalsFit' /\ AgentsFit'
    BY <1>1, <2>1 DEF RunInside, LimaInv, LocalsFit, AgentsFit, Rests, Alive
  <2>4. BuildsFit'
    BY <1>1, <2>1 DEF RunInside, LimaInv, BuildsFit, Rests, Build
  <2>5. SandboxesFit'
    BY <1>1, <1>4, <2>1
    DEF RunInside, LimaInv, LimaTypeOK, SandboxesFit, Rests, Inside, Bound
  <2> QED
    BY <2>2, <2>3, <2>4, <2>5 DEF LimaInv
<1>5. ASSUME Running, NEW b \in Box, box[b] = "unborn", box' = [box EXCEPT ![b] = "there"],
             lima' = [q \in Invocation |->
               IF q = p THEN Resting
               ELSE IF lima[q].cmd = "recreate" THEN [lima[q] EXCEPT !.since = @ \cup {b}]
               ELSE lima[q]]
      PROVE  LimaInv'
  <2>1. \A q \in Invocation : [lima[q] EXCEPT !.since = lima[q].since \cup {b}] \in Locals
    BY <1>1 DEF Locals
  <2>2. lima' \in [Invocation -> Locals]
    BY <1>1, <1>5, <2>1, RestingType
  <2>3. /\ Rests(p)
        /\ \A q \in Invocation \ {p} :
             /\ lima'[q].cmd = lima[q].cmd /\ lima'[q].at = lima[q].at
             /\ lima'[q].force = lima[q].force /\ lima'[q].deleting = lima[q].deleting
             /\ lima'[q].back = lima[q].back /\ lima'[q].read = lima[q].read
             /\ lima'[q].version = lima[q].version
             /\ lima'[q].since = IF lima[q].cmd = "recreate" THEN lima[q].since \cup {b}
                                 ELSE lima[q].since
    BY <1>1, <1>5 DEF Rests, Resting, Locals
  <2>4. LimaTypeOK'
    BY <1>1, <1>5, <2>2 DEF RunInside, LimaTypeOK, Build
  <2>5. LocalsFit'
    <3>1. \A q \in Invocation \ {p} :
            /\ lima'[q].cmd = lima[q].cmd /\ lima'[q].at = lima[q].at
            /\ lima'[q].deleting = lima[q].deleting /\ lima'[q].back = lima[q].back
      BY <2>3
    <3> QED
      BY <2>3, <3>1 DEF LimaInv, LocalsFit, Rests
  <2>6. AgentsFit'
    <3>1. UNCHANGED <<pidFile, agent, raced>>
      BY DEF RunInside
    <3>2. \A q \in Invocation :
            lima'[q].at # "idle" =>
              lima'[q].at = lima[q].at /\ lima'[q].read = lima[q].read
      BY <2>3 DEF Rests
    <3> QED
      BY <3>1, <3>2 DEF LimaInv, AgentsFit, Alive
  <2>7. BuildsFit'
    <3>1. UNCHANGED <<source, binary, stamp, late>>
      BY DEF RunInside, Build
    <3>2. \A q \in Invocation :
            lima'[q].at # "idle" =>
              lima'[q].at = lima[q].at /\ lima'[q].version = lima[q].version
      BY <2>3 DEF Rests
    <3> QED
      BY <3>1, <3>2 DEF LimaInv, BuildsFit
  <2>8. SandboxesFit'
    <3>1. Inside' = Inside \cup {b}
      BY <1>1, <1>5 DEF Inside, LimaTypeOK
    <3> QED
      BY <1>5, <2>3, <3>1 DEF RunInside, Running, LimaInv, SandboxesFit, Bound, Rests
  <2> QED
    BY <2>4, <2>5, <2>6, <2>7, <2>8 DEF LimaInv
<1> QED
  BY <1>3, <1>4, <1>5 DEF RunInside

(* vm rebuild removes the binary.                                          *)
LEMMA RemoveBinaryInv ==
  ASSUME LimaInv, NEW p \in Invocation, RemoveBinary(p), UNCHANGED given
  PROVE  LimaInv'
<1>1. LimaTypeOK /\ lima \in [Invocation -> Locals] /\ Fits(p)
  BY AllFit DEF LimaInv, LimaTypeOK
<1>2. ReturningTo(p, "rmBinary", "check", "idle") /\ "check" \in LimaPoints
  BY DEF RemoveBinary, LimaPoints, Looks
<1>3. /\ lima' \in [Invocation -> Locals]
      /\ \A q \in Invocation \ {p} : lima'[q] = lima[q]
      /\ lima'[p].at = "check" /\ lima'[p].back = "idle"
      /\ lima'[p].cmd = lima[p].cmd /\ lima'[p].force = lima[p].force
      /\ lima'[p].deleting = lima[p].deleting /\ lima'[p].since = lima[p].since
      /\ lima'[p].read = lima[p].read
  BY <1>1, <1>2, ReturningLocals DEF Others
<1>4. LimaTypeOK'
  BY <1>1, <1>3 DEF RemoveBinary, LimaTypeOK, Vm
<1>5. LocalsFit' /\ AgentsFit'
  BY <1>1, <1>3 DEF RemoveBinary, LimaInv, LocalsFit, AgentsFit, Fits, Alive, Vm
<1>6. BuildsFit'
  BY <1>3 DEF RemoveBinary, LimaInv, BuildsFit
<1>7. SandboxesFit'
  BY <1>1, <1>3 DEF RemoveBinary, LimaInv, SandboxesFit, Inside, Bound, Vm, Fits
<1> QED
  BY <1>4, <1>5, <1>6, <1>7 DEF LimaInv

(* A host agent writes its pid, boots or dies.                             *)
LEMMA AgentInv ==
  ASSUME LimaInv, NEW n \in Pid, AgentWrites(n) \/ AgentUp(n) \/ AgentDies(n), UNCHANGED given
  PROVE  LimaInv'
<1>1. LimaTypeOK
  BY DEF LimaInv
<1>2. LimaTypeOK'
  BY <1>1 DEF AgentWrites, AgentUp, AgentDies, LimaTypeOK, Build
<1>3. LocalsFit' /\ SandboxesFit'
  BY
  DEF AgentWrites, AgentUp, AgentDies, LimaInv, LocalsFit, SandboxesFit, Inside, Bound
<1>4. AgentsFit'
  <2>1. CASE AgentWrites(n)
    BY <1>1, <2>1 DEF AgentWrites, LimaInv, AgentsFit, Alive, LimaTypeOK, Pid, Blank
  <2>2. CASE AgentUp(n) \/ AgentDies(n)
    BY <1>1, <2>2 DEF AgentUp, AgentDies, LimaInv, AgentsFit, Alive, LimaTypeOK
  <2> QED
    BY <2>1, <2>2
<1>5. BuildsFit'
  BY DEF AgentWrites, AgentUp, AgentDies, LimaInv, BuildsFit, Build
<1> QED
  BY <1>2, <1>3, <1>4, <1>5 DEF LimaInv

(* The source is changed: a stamp gets old, and a build is late.           *)
LEMMA EditSourceInv ==
  ASSUME LimaInv, EditSource, UNCHANGED given
  PROVE  LimaInv'
<1>1. LimaTypeOK
  BY DEF LimaInv
<1>2. LimaTypeOK'
  BY <1>1, LimaBoundsAssumption DEF EditSource, LimaTypeOK, Vm
<1>3. LocalsFit' /\ AgentsFit' /\ SandboxesFit'
  BY
  DEF EditSource, LimaInv, LocalsFit, AgentsFit, SandboxesFit, Inside, Bound, Alive,
      Vm
<1>4. BuildsFit'
  BY <1>1 DEF EditSource, LimaInv, BuildsFit, LimaTypeOK
<1> QED
  BY <1>2, <1>3, <1>4 DEF LimaInv
-----------------------------------------------------------------------------
(* The invariant and what follows from it                                  *)

(* The invariant holds at first, with no VM or one left behind.            *)
LEMMA LimaInitInv == LimaInit => LimaInv
<1> SUFFICES ASSUME LimaInit PROVE LimaInv
  OBVIOUS
<1>1. \A p \in Invocation : lima[p] = Resting
  BY DEF LimaInit
<1>2. /\ box \in [Box -> {"unborn", "there", "gone"}]
      /\ agent \in [Pid -> {"unborn", "launched", "booting", "up", "dead"}]
  BY DEF LimaInit, NothingYet, LeftBehind
<1>3. ~exists => Inside = {}
  BY DEF LimaInit, NothingYet, LeftBehind, Inside
<1>4. /\ pidFile \in {NoPid, Blank} \cup Pid
      /\ binary \in {NoBinary, 0} /\ source = 0
      /\ \A n \in Pid : Alive(n) => n = pidFile
      /\ pidFile \in Pid => agent[pidFile] # "unborn"
  <2>1. CASE NothingYet
    BY <2>1 DEF LimaInit, NothingYet, Alive, NoPid, Pid
  <2>2. CASE LeftBehind
    <3>1. PICK a \in {"up", "dead"} : agent = [n \in Pid |-> IF n = 1 THEN a ELSE "unborn"]
      BY <2>2 DEF LeftBehind
    <3>2. 1 \in Pid
      BY LimaBoundsAssumption DEF Pid
    <3>3. pidFile = 1 /\ binary = 0 /\ source = 0
      BY <2>2 DEF LimaInit, LeftBehind
    <3> QED
      BY <3>1, <3>2, <3>3 DEF Alive
  <2> QED
    BY <2>1, <2>2 DEF LimaInit
<1>5. LimaTypeOK
  <2>1. exists \in BOOLEAN /\ stamp \in {"none", "old", "fresh"}
    BY DEF LimaInit, NothingYet, LeftBehind
  <2>2. 0 \in 0 .. MaxEdits /\ 0 \in 0 .. MaxCommands
    BY LimaBoundsAssumption
  <2>3. lima \in [Invocation -> Locals]
    BY RestingType DEF LimaInit
  <2> QED
    BY <1>2, <1>4, <2>1, <2>2, <2>3 DEF LimaInit, LimaTypeOK
<1>6. LocalsFit /\ BuildsFit /\ SandboxesFit
  BY <1>1, <1>3, <1>4 DEF Resting, LocalsFit, BuildsFit, SandboxesFit, Bound
<1>7. AgentsFit
  BY <1>1, <1>4 DEF Resting, AgentsFit
<1> QED
  BY <1>5, <1>6, <1>7 DEF LimaInv

(* Every step of a command keeps the invariant.                            *)
LEMMA LimaStepInv ==
  ASSUME LimaInv, NEW p \in Invocation, LimaStep(p), UNCHANGED given
  PROVE  LimaInv'
BY ReadPidInv, RepairStatusInv, RepairAliveInv, RemovePidInv, StartStatusInv,
     CreateVmInv, LaunchAgentInv, BootedInv, StartedInv, CheckBinaryInv,
     StartCargoInv, BuildsInv, TouchInv, RunInsideInv, StopStatusInv, StopInv,
     RemoveBinaryInv, CurrentStatusInv, ListStatusInv, ListInv, ConfirmInv,
     RecreateStatusInv, DeleteVmInv, RecreatedInv, LimactlFailsInv, LimaKilledInv
  DEF LimaStep

(* Every step keeps the invariant.                                         *)
LEMMA LimaNextInv == LimaInv /\ [LimaNext]_limaVars => LimaInv'
<1> SUFFICES ASSUME LimaInv, [LimaNext]_limaVars PROVE LimaInv'
  OBVIOUS
<1>1. CASE UNCHANGED limaVars
  BY <1>1
  DEF limaVars, LimaInv, LimaTypeOK, LocalsFit, AgentsFit, BuildsFit, SandboxesFit,
              Inside, Bound, Alive
<1>2. CASE \E p \in Invocation : Command(p)
  BY <1>2, CommandInv
<1>3. CASE \E p \in Invocation : LimaStep(p) /\ UNCHANGED given
  BY <1>3, LimaStepInv
<1>4. CASE /\ \E n \in Pid : AgentWrites(n) \/ AgentUp(n) \/ AgentDies(n)
           /\ UNCHANGED given
  BY <1>4, AgentInv
<1>5. CASE EditSource /\ UNCHANGED given
  BY <1>5, EditSourceInv
<1> QED
  BY <1>1, <1>2, <1>3, <1>4, <1>5 DEF LimaNext

(* LimaInv is invariant, for any commands, sandboxes and bounds: it holds  *)
(* across every interleaving, kill and failure of start, stop, repair,     *)
(* rebuild, recreate and proxied commands (src/src/lima.rs).               *)
THEOREM LimaInvariance == LimaSpec => []LimaInv
BY LimaInitInv, LimaNextInv, PTL DEF LimaSpec

(* repair_stale_pid never lets a second host agent start over the disk of  *)
(* one that lives, unless the file it removes is not the one it judged     *)
(* (lima.rs:228).                                                          *)
THEOREM HostAgentIsOne == LimaSpec => []OneHostAgent
<1>1. LimaInv => OneHostAgent
  <2> SUFFICES ASSUME LimaInv, ~raced PROVE Cardinality({n \in Pid : Alive(n)}) <= 1
    BY DEF OneHostAgent
  <2> DEFINE live == {n \in Pid : Alive(n)}
  <2>1. \A m, n \in live : m = n
    BY DEF LimaInv, AgentsFit
  <2>2. CASE live = {}
    BY <2>2, FS_EmptySet
  <2>3. CASE live # {}
    <3>1. PICK n : live = {n}
      BY <2>1, <2>3
    <3>2. Cardinality(live) = 1
      BY <3>1, FS_Singleton
    <3> QED
      BY <3>2
  <2> QED
    BY <2>2, <2>3
<1> QED
  BY <1>1, LimaInvariance, PTL

(* A binary ensure_linux_binary takes for current is of the present source *)
(* unless that was changed under a build (lima.rs:433).                    *)
THEOREM CheckedBinaryIsCurrent == LimaSpec => []BinaryIsCurrent
<1>1. LimaInv => BinaryIsCurrent
  BY DEF LimaInv, BuildsFit, BinaryIsCurrent
<1> QED
  BY <1>1, LimaInvariance, PTL

(* vm recreate without --force deletes only sandboxes made after it looked *)
(* and found none (vm.rs:75).                                              *)
THEOREM UnforcedLoss == LimaSpec => UnforcedLossIsARace
<1>1. LimaInv => \A p \in Invocation :
                   lima[p].at = "delete" /\ ~lima[p].force => Inside \subseteq lima[p].since
  BY DEF LimaInv, LocalsFit, SandboxesFit, Bound
<1>2. LimaInv => [\A p \in Invocation :
                    lima[p].at = "delete" /\ lima'[p].at = "create" /\ ~lima[p].force =>
                      Inside \subseteq lima[p].since]_limaVars
  BY <1>1
<1> QED
  BY <1>2, LimaInvariance, PTL DEF UnforcedLossIsARace
=============================================================================
