------------------------------- MODULE LimaVm -------------------------------
(***************************************************************************)
(* clawstainer on macOS: src/src/lima.rs and commands/vm.rs. Every command *)
(* starts the one Lima VM, builds the Linux binary in it and runs itself   *)
(* there. limactl and its host agent are external; what the code relies on *)
(* is that the VM runs as long as ha.pid names a live host agent.          *)
(***************************************************************************)
EXTENDS Integers, FiniteSets, Invocations

CONSTANTS
  Box,        \* sandboxes that may be made in the VM
  MaxPid,     \* bound on the host agents started
  MaxEdits,   \* bound on the changes to the source
  MaxCommands \* bound on the commands given

ASSUME LimaBoundsAssumption ==
  MaxPid \in Nat \ {0} /\ MaxEdits \in Nat /\ MaxCommands \in Nat

NoPid == 0          \* no ha.pid
Blank == -1         \* it holds no number: its owner has not written it yet
Pid == 1 .. MaxPid
NoBinary == -1

VARIABLES
  exists,     \* is there a VM
  pidFile,    \* ha.pid
  agent,      \* the host agents, by pid
  box,        \* the sandboxes in the VM, recorded in the state file inside
  source,     \* the version of the source in the project directory
  binary,     \* the version the Linux binary in the VM is built from
  stamp,      \* .clawstainer-build-ts: is it newer than every source file
  late,       \* history: the source was changed under a build, and not built since
  raced,      \* history: a repair removed another file than it had judged
  given,      \* how many commands were given
  lima        \* each invocation

limaVars == <<exists, pidFile, agent, box, source, binary, stamp, late, raced, given, lima>>

Vm == <<exists, pidFile, agent, box, raced>>
Build == <<source, binary, stamp, late>>

Commands == {"proxy", "start", "stop", "repair", "rebuild", "recreate"}
Looks == {"listStatus", "readPid", "repairStatus", "repairAlive", "removePid",
          "startStatus", "create", "launch", "booting", "started",
          "check", "cargo", "build", "touch", "list"}
LimaPoints == Looks \cup {"idle", "stopStatus", "stop", "rmBinary", "run", "current",
                          "confirm", "reStatus", "delete", "recreated"}

(* deleting: recreate is past its confirmation. back: where a build goes   *)
(* on, nowhere if none is due. read: what repair found in ha.pid.          *)
(* version: of the source under the build. since: history, the sandboxes   *)
(* made since recreate looked for some.                                    *)
Resting == [cmd |-> "start", at |-> "idle", force |-> FALSE, deleting |-> FALSE,
            back |-> "nowhere", read |-> NoPid, version |-> 0, since |-> {}]

Locals ==
  [cmd : Commands, at : LimaPoints, force : BOOLEAN, deleting : BOOLEAN,
   back : {"nowhere", "started", "recreated", "run", "list", "idle"},
   read : {NoPid, Blank} \cup Pid, version : 0 .. MaxEdits, since : SUBSET Box]

Alive(n) == agent[n] \in {"launched", "booting", "up"}
Running == exists /\ pidFile \in Pid /\ agent[pidFile] = "up"

LimaTypeOK ==
  /\ exists \in BOOLEAN
  /\ pidFile \in {NoPid, Blank} \cup Pid
  /\ agent \in [Pid -> {"unborn", "launched", "booting", "up", "dead"}]
  /\ box \in [Box -> {"unborn", "there", "gone"}]
  /\ source \in 0 .. MaxEdits
  /\ binary \in {NoBinary} \cup 0 .. MaxEdits
  /\ stamp \in {"none", "old", "fresh"}
  /\ late \in BOOLEAN /\ raced \in BOOLEAN
  /\ given \in 0 .. MaxCommands
  /\ lima \in [Invocation -> Locals]

(* No VM yet, or one that earlier commands left with a sandbox and a       *)
(* current binary, running or with its host agent crashed.                 *)
NothingYet ==
  /\ exists = FALSE /\ pidFile = NoPid
  /\ agent = [n \in Pid |-> "unborn"]
  /\ box = [b \in Box |-> "unborn"]
  /\ binary = NoBinary /\ stamp = "none"

LeftBehind ==
  /\ exists = TRUE /\ pidFile = 1
  /\ \E a \in {"up", "dead"} : agent = [n \in Pid |-> IF n = 1 THEN a ELSE "unborn"]
  /\ \E first \in Box : box = [b \in Box |-> IF b = first THEN "there" ELSE "unborn"]
  /\ binary = 0 /\ stamp = "fresh"

LimaInit ==
  /\ NothingYet \/ LeftBehind
  /\ source = 0 /\ late = FALSE /\ raced = FALSE /\ given = 0
  /\ lima = [p \in Invocation |-> Resting]

Moved(p, b) == lima' = [lima EXCEPT ![p] = IF b = "idle" THEN Resting ELSE [@ EXCEPT !.at = b]]
LimaGoes(p, a, b) == lima[p].at = a /\ Moved(p, b)

(* From a to b, and what the build returns to is set.                      *)
ReturningTo(p, a, b, back) ==
  /\ lima[p].at = a
  /\ lima' = [lima EXCEPT ![p] = [@ EXCEPT !.at = b, !.back = back]]

(* An error ends the command; recreate --force goes on when it is one of   *)
(* looking for sandboxes.                                                  *)
Looking(p) == lima[p].cmd = "recreate" /\ ~lima[p].deleting /\ lima[p].at \in Looks

(* Mutant: a failure to look is taken for an empty VM.                     *)
LookingFails(p) == Moved(p, IF Looking(p) THEN "confirm" ELSE "idle")
Fails(p) == Moved(p, IF Looking(p) /\ lima[p].force THEN "confirm" ELSE "idle")

Command(p) ==
  /\ lima[p].at = "idle" /\ given < MaxCommands
  /\ given' = given + 1
  /\ \E c \in Commands, f \in BOOLEAN :
       /\ f => c = "recreate"
       /\ lima' = [lima EXCEPT ![p] =
            [Resting EXCEPT !.cmd = c, !.force = f,
              !.at = CASE c = "stop" -> "stopStatus" [] c = "recreate" -> "current"
                       [] OTHER -> "readPid"]]
  /\ UNCHANGED <<Vm, Build>>
-----------------------------------------------------------------------------
(* repair_stale_pid, alone or on the way of start_vm and recreate_vm       *)

AfterRepair(p) ==
  IF lima[p].cmd = "repair" THEN "idle"
  ELSE IF lima[p].deleting THEN "delete" ELSE "startStatus"

Repaired(p) ==
  lima' = [lima EXCEPT ![p] = IF AfterRepair(p) = "idle" THEN Resting
                              ELSE [@ EXCEPT !.at = AfterRepair(p), !.read = NoPid]]

ReadPid(p) ==
  /\ lima[p].at = "readPid"
  /\ \/ pidFile = NoPid /\ Repaired(p)
     \/ /\ pidFile # NoPid
        /\ lima' = [lima EXCEPT ![p] = [@ EXCEPT !.at = "repairStatus", !.read = pidFile]]
  /\ UNCHANGED <<Vm, Build>>

RepairStatus(p) ==
  /\ lima[p].at = "repairStatus"
  /\ IF Running THEN Repaired(p)
     ELSE Moved(p, IF lima[p].read = Blank THEN "removePid" ELSE "repairAlive")
  /\ UNCHANGED <<Vm, Build>>

(* Mutant: a process that lives is not asked for.                          *)
NoRepairAlive(p) ==
  /\ LimaGoes(p, "repairAlive", "removePid")
  /\ UNCHANGED <<Vm, Build>>

RepairAlive(p) ==
  /\ lima[p].at = "repairAlive"
  /\ IF Alive(lima[p].read) THEN Repaired(p) ELSE Moved(p, "removePid")
  /\ UNCHANGED <<Vm, Build>>

(* What the path holds now is removed; a path that is gone is an error.    *)
RemovePid(p) ==
  /\ lima[p].at = "removePid"
  /\ IF pidFile = NoPid THEN Fails(p) ELSE Repaired(p)
  /\ pidFile' = NoPid
  /\ raced' = (raced \/ pidFile # lima[p].read \/ pidFile = Blank)
  /\ UNCHANGED <<exists, agent, box, Build>>
-----------------------------------------------------------------------------
(* start_vm                                                                *)

StartStatus(p) ==
  /\ IF exists THEN LimaGoes(p, "startStatus", IF Running THEN "started" ELSE "launch")
               ELSE ReturningTo(p, "startStatus", "create", "started")
  /\ UNCHANGED <<Vm, Build>>

CreateVm(p) ==
  /\ ~exists /\ LimaGoes(p, "create", "launch")
  /\ exists' = TRUE
  /\ UNCHANGED <<pidFile, agent, box, raced, Build>>

(* limactl start: a host agent is started that makes its pid file, unless  *)
(* there is one; a VM that runs is a success.                              *)
LaunchAgent(p) ==
  /\ exists /\ LimaGoes(p, "launch", "booting")
  /\ \/ Running /\ UNCHANGED <<pidFile, agent>>
     \/ /\ pidFile = NoPid /\ pidFile' = Blank
        /\ \E n \in Pid : /\ agent[n] = "unborn"
                          /\ \A m \in 1 .. n - 1 : agent[m] # "unborn"
                          /\ agent' = [agent EXCEPT ![n] = "launched"]
  /\ UNCHANGED <<exists, box, raced, Build>>

(* A VM that was only just made has the binary installed, too.             *)
Booted(p) ==
  /\ Running /\ LimaGoes(p, "booting", IF lima[p].back = "nowhere" THEN "started" ELSE "check")
  /\ UNCHANGED <<Vm, Build>>

(* start_vm returns, and its caller goes on.                               *)
Started(p) ==
  /\ \/ lima[p].cmd = "start" /\ LimaGoes(p, "started", "idle")
     \/ lima[p].cmd = "rebuild" /\ LimaGoes(p, "started", "rmBinary")
     \/ lima[p].cmd = "proxy" /\ ReturningTo(p, "started", "check", "run")
     \/ lima[p].cmd = "recreate" /\ ReturningTo(p, "started", "check", "list")
  /\ UNCHANGED <<Vm, Build>>
-----------------------------------------------------------------------------
(* ensure_linux_binary                                                     *)

CheckBinary(p) ==
  /\ LimaGoes(p, "check", IF Running /\ binary # NoBinary /\ stamp = "fresh"
                          THEN lima[p].back ELSE "cargo")
  /\ UNCHANGED <<Vm, Build>>

(* Mutant: the time stamp is touched before the build.                     *)
StampFirst(p) ==
  /\ lima[p].at = "cargo" /\ Running
  /\ \A q \in Invocation : lima[q].at # "build"
  /\ lima' = [lima EXCEPT ![p] = [@ EXCEPT !.at = "build", !.version = source]]
  /\ stamp' = "fresh"
  /\ UNCHANGED <<Vm, source, binary, late>>

(* cargo has a lock of its own.                                            *)
StartCargo(p) ==
  /\ lima[p].at = "cargo" /\ Running
  /\ \A q \in Invocation : lima[q].at # "build"
  /\ lima' = [lima EXCEPT ![p] = [@ EXCEPT !.at = "build", !.version = source]]
  /\ UNCHANGED <<Vm, Build>>

(* Mutant: the build's exit status is not looked at.                       *)
BuildsOrNot(p) ==
  /\ Running /\ LimaGoes(p, "build", "touch")
  /\ binary' \in {binary, lima[p].version}
  /\ UNCHANGED <<Vm, source, stamp, late>>

Builds(p) ==
  /\ Running /\ LimaGoes(p, "build", "touch")
  /\ binary' = lima[p].version
  /\ late' = (late /\ lima[p].version # source)
  /\ UNCHANGED <<Vm, source, stamp>>

Touch(p) ==
  /\ lima[p].at = "touch"
  /\ lima' = [lima EXCEPT ![p] =
                IF lima[p].back = "idle" THEN Resting
                ELSE [lima[p] EXCEPT !.at = lima[p].back, !.version = 0]]
  /\ stamp' = IF Running THEN "fresh" ELSE stamp
  /\ UNCHANGED <<Vm, source, binary, late>>
-----------------------------------------------------------------------------
(* proxy_to_vm: a sandbox is made or destroyed inside, or something else   *)
RunInside(p) ==
  /\ lima[p].at = "run"
  /\ \/ /\ UNCHANGED box /\ Moved(p, "idle")
     \/ /\ Running /\ binary # NoBinary
        /\ \E b \in Box :
             \/ /\ box[b] = "unborn" /\ box' = [box EXCEPT ![b] = "there"]
                /\ lima' = [q \in Invocation |->
                     IF q = p THEN Resting
                     ELSE IF lima[q].cmd = "recreate"
                     THEN [lima[q] EXCEPT !.since = @ \cup {b}] ELSE lima[q]]
             \/ /\ box[b] = "there" /\ box' = [box EXCEPT ![b] = "gone"]
                /\ Moved(p, "idle")
  /\ UNCHANGED <<exists, pidFile, agent, raced, Build>>

(* vm stop                                                                 *)
StopStatus(p) ==
  /\ LimaGoes(p, "stopStatus", IF Running THEN "stop" ELSE "idle")
  /\ UNCHANGED <<Vm, Build>>

Stop(p) ==
  /\ Running /\ LimaGoes(p, "stop", "idle")
  /\ agent' = [agent EXCEPT ![pidFile] = "dead"]
  /\ pidFile' = NoPid
  /\ UNCHANGED <<exists, box, raced, Build>>

(* vm rebuild                                                              *)
RemoveBinary(p) ==
  /\ Running /\ ReturningTo(p, "rmBinary", "check", "idle")
  /\ binary' = NoBinary
  /\ UNCHANGED <<Vm, source, stamp, late>>
-----------------------------------------------------------------------------
(* vm recreate                                                             *)

(* Without a VM there is nothing to look for and nothing to confirm.       *)
CurrentStatus(p) ==
  /\ LimaGoes(p, "current", IF exists THEN "listStatus" ELSE "reStatus")
  /\ UNCHANGED <<Vm, Build>>

ListStatus(p) ==
  /\ LimaGoes(p, "listStatus", IF exists THEN "readPid" ELSE "confirm")
  /\ UNCHANGED <<Vm, Build>>

List(p) ==
  /\ lima[p].at = "list" /\ Running /\ binary # NoBinary
  /\ IF (\E b \in Box : box[b] = "there") /\ ~lima[p].force
       THEN Moved(p, "idle")
       ELSE lima' = [lima EXCEPT ![p] = [@ EXCEPT !.at = "confirm", !.since = {}]]
  /\ UNCHANGED <<Vm, Build>>

Confirm(p) ==
  /\ LimaGoes(p, "confirm", "reStatus") \/ LimaGoes(p, "confirm", "idle")
  /\ UNCHANGED <<Vm, Build>>

RecreateStatus(p) ==
  /\ lima[p].at = "reStatus"
  /\ lima' = [lima EXCEPT ![p] = [@ EXCEPT !.deleting = TRUE, !.back = "recreated",
                                        !.at = IF exists THEN "readPid" ELSE "create"]]
  /\ UNCHANGED <<Vm, Build>>

(* limactl delete --force: the host agent goes with the VM, and everything *)
(* in it.                                                                  *)
DeleteVm(p) ==
  /\ LimaGoes(p, "delete", "create")
  /\ exists' = FALSE /\ pidFile' = NoPid
  /\ agent' = [n \in Pid |-> IF pidFile = n \/ (pidFile = Blank /\ agent[n] = "launched")
                             THEN "dead" ELSE agent[n]]
  /\ box' = [b \in Box |-> IF box[b] = "there" THEN "gone" ELSE box[b]]
  /\ binary' = NoBinary
  /\ UNCHANGED <<source, stamp, late, raced>>

Recreated(p) ==
  /\ LimaGoes(p, "recreated", "idle")
  /\ UNCHANGED <<Vm, Build>>
-----------------------------------------------------------------------------
(* limactl, or what it runs in the VM, fails without effect. The check of  *)
(* the binary takes that for a binary that is missing, touch and rm of the *)
(* confirmation are not looked at.                                         *)
LimactlFails(p) ==
  /\ lima[p].at \notin {"idle", "readPid", "repairAlive", "removePid", "check",
                        "touch", "run", "confirm"}
  /\ Fails(p)
  /\ UNCHANGED <<Vm, Build>>

LimaKilled(p) ==
  /\ lima[p].at # "idle" /\ Moved(p, "idle")
  /\ UNCHANGED <<Vm, Build>>

(* The host agent n writes its pid and boots the VM, or dies; the boot may *)
(* empty /tmp, where the binary is.                                        *)
AgentWrites(n) ==
  /\ agent[n] = "launched"
  /\ agent' = [agent EXCEPT ![n] = "booting"]
  /\ pidFile' = IF pidFile = Blank THEN n ELSE pidFile
  /\ UNCHANGED <<exists, box, raced, Build, lima>>

AgentUp(n) ==
  /\ agent[n] = "booting"
  /\ agent' = [agent EXCEPT ![n] = "up"]
  /\ binary' \in {binary, NoBinary}
  /\ UNCHANGED <<exists, pidFile, box, raced, source, stamp, late, lima>>

AgentDies(n) ==
  /\ Alive(n)
  /\ agent' = [agent EXCEPT ![n] = "dead"]
  /\ UNCHANGED <<exists, pidFile, box, raced, Build, lima>>

EditSource ==
  /\ source < MaxEdits
  /\ source' = source + 1
  /\ stamp' = IF stamp = "fresh" THEN "old" ELSE stamp
  /\ late' = (late \/ \E p \in Invocation : lima[p].at \in {"build", "touch"})
  /\ UNCHANGED <<Vm, binary, lima>>

LimaStep(p) ==
  \/ ReadPid(p) \/ RepairStatus(p) \/ RepairAlive(p) \/ RemovePid(p)
  \/ StartStatus(p) \/ CreateVm(p) \/ LaunchAgent(p) \/ Booted(p) \/ Started(p)
  \/ CheckBinary(p) \/ StartCargo(p) \/ Builds(p) \/ Touch(p)
  \/ RunInside(p) \/ StopStatus(p) \/ Stop(p) \/ RemoveBinary(p)
  \/ CurrentStatus(p) \/ ListStatus(p) \/ List(p) \/ Confirm(p)
  \/ RecreateStatus(p) \/ DeleteVm(p) \/ Recreated(p)
  \/ LimactlFails(p) \/ LimaKilled(p)

LimaNext ==
  \/ \E p \in Invocation : Command(p)
  \/ /\ \/ \E p \in Invocation : LimaStep(p)
        \/ \E n \in Pid : AgentWrites(n) \/ AgentUp(n) \/ AgentDies(n)
        \/ EditSource
     /\ UNCHANGED given

LimaSpec == LimaInit /\ [][LimaNext]_limaVars
-----------------------------------------------------------------------------
(* The inductive invariant                                                 *)

Inside == {b \in Box : box[b] = "there"}
Bound(p) == lima[p].deleting \/ lima[p].at \in {"confirm", "reStatus"}

(* Where a command stands fits what it is and what it knows.               *)
LocalsFit ==
  \A p \in Invocation :
    /\ lima[p].at \in {"check", "cargo", "build", "touch"} => lima[p].back # "nowhere"
    /\ lima[p].at \in {"current", "listStatus", "list"} \/ lima[p].back = "list" =>
         lima[p].cmd = "recreate"
    /\ lima[p].at = "delete" => lima[p].deleting

(* A host agent that lives is the one in ha.pid, or is about to write it;  *)
(* a pid judged stale is that of an agent that is dead for good.           *)
AgentsFit ==
  /\ pidFile \in Pid => agent[pidFile] # "unborn"
  /\ \A p \in Invocation :
       LET n == lima[p].read IN
       /\ n \in Pid /\ lima[p].at \in {"repairStatus", "repairAlive"} => agent[n] # "unborn"
       /\ n \in Pid /\ lima[p].at = "removePid" => agent[n] = "dead"
  /\ raced \/ /\ \A n \in Pid :
                    Alive(n) => pidFile = n \/ (pidFile = Blank /\ agent[n] = "launched")
              /\ \A m, n \in Pid : Alive(m) /\ Alive(n) => m = n

(* Builds take turns, and what one is about to stamp is of the present     *)
(* source, as is a binary with a fresh stamp.                              *)
BuildsFit ==
  /\ \A p, q \in Invocation : lima[p].at = "build" /\ lima[q].at = "build" => p = q
  /\ \A p \in Invocation : lima[p].at = "build" => late \/ lima[p].version = source
  /\ stamp = "fresh" \/ (\E p \in Invocation : lima[p].at = "touch") =>
       binary = NoBinary \/ late \/ binary = source

(* Without a VM there is no sandbox, and a recreate past its look at them  *)
(* without --force knows those there are.                                  *)
SandboxesFit ==
  /\ ~exists => Inside = {}
  /\ \A p \in Invocation :
       Bound(p) /\ ~lima[p].force => lima[p].cmd = "recreate" /\ Inside \subseteq lima[p].since

(* Every command of the Lima VM keeps to this, killed or failing anywhere: *)
(* the three properties below follow from it, and none of them without the *)
(* other commands' discipline.                                             *)
LimaInv == LimaTypeOK /\ LocalsFit /\ AgentsFit /\ BuildsFit /\ SandboxesFit
-----------------------------------------------------------------------------
(* Never two live host agents over the one disk: what repair_stale_pid     *)
(* removes (lima.rs:228, "never touch one owned by a live process") is not *)
(* the file of a host agent that boots or runs, so that no start can start *)
(* a second one; unless the file it removes is not the one it had read, or *)
(* had no number in it yet.                                                *)
OneHostAgent == raced \/ Cardinality({n \in Pid : Alive(n)}) <= 1

(* recreate without --force loses no sandbox that was in the VM when it    *)
(* looked, whatever fails on the way to the list: a VM it cannot look into *)
(* is not an empty one (vm.rs:75). Those made after it looked are lost.    *)
UnforcedLossIsARace ==
  [][\A p \in Invocation :
       lima[p].at = "delete" /\ lima'[p].at = "create" /\ ~lima[p].force =>
         Inside \subseteq lima[p].since]_limaVars

(* A binary the check takes for current is built from the present source   *)
(* (ensure_linux_binary, lima.rs:433), across failed builds, rebuilds,     *)
(* boots that empty /tmp and recreated VMs; only a change of the source    *)
(* under a build goes unnoticed, as the stamp is touched at its end.       *)
BinaryIsCurrent ==
  binary # NoBinary /\ stamp = "fresh" => late \/ binary = source
=============================================================================
