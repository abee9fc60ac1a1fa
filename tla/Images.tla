------------------------------- MODULE Images -------------------------------
(***************************************************************************)
(* What every machine is made from, fetched or built by the first create   *)
(* that misses it: src/src/image/bootstrap.rs, firecracker/assets.rs and   *)
(* firecracker/rootfs.rs. There is no lock and no marker: a path that      *)
(* exists is taken as complete, so what matters is which failures leave    *)
(* an incomplete one behind.                                               *)
(***************************************************************************)
EXTENDS SequencesExt, Invocations

CONSTANTS
  MaxBuilds,   \* bound on the creates begun
  MaxMounts    \* bound on the mounts on top of each other: a kill leaves its own

ASSUME MaxBuildsAssumption == MaxBuilds \in Nat

VARIABLES
  stock,      \* each artifact on disk
  maker,      \* who began to write it last, and thus completes it
  unpacked,   \* the vmm before it is moved to its place, and who unpacked it
  mnt,        \* what is mounted on firecracker/mnt: whose ext4, the latest last
  build,      \* each invocation: what it makes, where it stands, is its ext4 flawed
  builds,     \* how many creates were begun
  spoiled     \* history: the artifacts something happened to that nobody repairs

imagesVars == <<stock, maker, unpacked, mnt, build, builds, spoiled>>

Artifact == {"base", "vmm", "kernel", "agent", "ext4"}

(* A base image is there once it has a /bin: "bare" is one without. The    *)
(* others are there when their path exists.                                *)
There(a) == stock[a] \in {"part", "whole"}

BaseWork == {"download", "debootstrap", "fixups"}
VmmWork == {"fetchVmm", "moveVmm"}
AgentWork == {"checkAgent", "copyAgent"}
Filling == {"fill", "inject"}
Ext4Work == {"dd", "mkfs", "mount", "umount", "discard"} \cup Filling
BuildPoints == {"idle", "checkVmm", "checkKernel", "fetchKernel", "checkExt4", "checkBase", "use"}
            \cup BaseWork \cup VmmWork \cup AgentWork \cup Ext4Work

NotBuilding == [kind |-> "none", at |-> "idle", flawed |-> FALSE]
NothingUnpacked == [by |-> NoOne, whole |-> FALSE]

ImagesTypeOK ==
  /\ stock \in [Artifact -> {"none", "bare", "part", "whole"}]
  /\ \A a \in Artifact \ {"base"} : stock[a] # "bare"
  /\ maker \in [Artifact -> Invocation \cup {NoOne}]
  /\ unpacked \in [by : Invocation \cup {NoOne}, whole : BOOLEAN]
  /\ mnt \in Seq(Invocation \cup {NoOne})
  /\ build \in [Invocation -> [kind : {"none", "container", "vm"},
                               at : BuildPoints, flawed : BOOLEAN]]
  /\ builds \in 0 .. MaxBuilds
  /\ spoiled \subseteq Artifact

ImagesInit ==
  /\ stock = [a \in Artifact |-> "none"]
  /\ maker = [a \in Artifact |-> NoOne]
  /\ unpacked = NothingUnpacked
  /\ mnt = <<>>
  /\ build = [p \in Invocation |-> NotBuilding]
  /\ builds = 0
  /\ spoiled = {}

(* An error of any step is one of the create: it ends.                     *)
BuildGoes(p, a, b) ==
  /\ build[p].at = a
  /\ build' = [build EXCEPT ![p] = IF b = "idle" THEN NotBuilding ELSE [@ EXCEPT !.at = b]]

Begins(p, a, level) ==
  /\ stock' = [stock EXCEPT ![a] = level]
  /\ maker' = [maker EXCEPT ![a] = p]

(* Complete or removed, it is no longer anybody's to complete.             *)
Becomes(a, level) ==
  /\ stock' = [stock EXCEPT ![a] = level]
  /\ maker' = IF level \in {"none", "whole"} THEN [maker EXCEPT ![a] = NoOne] ELSE maker

Disk == <<stock, maker, unpacked, mnt>>

(* p is gone, and what it left belongs to nobody.                         *)
Leaves(p) ==
  /\ maker' = [a \in Artifact |-> IF maker[a] = p THEN NoOne ELSE maker[a]]
  /\ mnt' = [i \in DOMAIN mnt |-> IF mnt[i] = p THEN NoOne ELSE mnt[i]]
  /\ UNCHANGED <<stock, unpacked>>

StartBuild(p) ==
  /\ build[p].at = "idle" /\ builds < MaxBuilds
  /\ builds' = builds + 1
  /\ \/ build' = [build EXCEPT ![p] = [kind |-> "container", at |-> "checkBase", flawed |-> FALSE]]
     \/ build' = [build EXCEPT ![p] = [kind |-> "vm", at |-> "checkVmm", flawed |-> FALSE]]
  /\ UNCHANGED Disk

(* The machine is created: a container on the base, a VM of the others.    *)
UseArtifacts(p) ==
  /\ BuildGoes(p, "use", "idle")
  /\ Leaves(p)
-----------------------------------------------------------------------------
(* ensure_base_image                                                       *)

AfterBase(p) == IF build[p].kind = "container" THEN "use" ELSE "checkAgent"

CheckBase(p) ==
  \/ /\ There("base") /\ BuildGoes(p, "checkBase", AfterBase(p))
     /\ UNCHANGED Disk
  \/ /\ ~There("base") /\ BuildGoes(p, "checkBase", "download")
     /\ Begins(p, "base", "bare")
     /\ UNCHANGED <<unpacked, mnt>>

(* tar or debootstrap gets as far as /bin.                                 *)
BaseGrows(p) ==
  /\ build[p].at \in {"download", "debootstrap"} /\ stock["base"] \in {"none", "bare"}
  /\ Becomes("base", "part")
  /\ UNCHANGED <<unpacked, mnt, build>>

(* Without a /bin in the end a download is no success either.              *)
BaseUnpacked(p) ==
  /\ There("base")
  /\ \E a \in {"download", "debootstrap"} : BuildGoes(p, a, "fixups")
  /\ UNCHANGED Disk

DownloadFails(p) ==
  /\ BuildGoes(p, "download", "debootstrap")
  /\ Begins(p, "base", "bare")
  /\ UNCHANGED <<unpacked, mnt>>

NoDebootstrap(p) ==
  /\ BuildGoes(p, "debootstrap", "idle")
  /\ stock["base"] \in {"none", "bare"}
  /\ UNCHANGED Disk

(* Mutant: what a failed debootstrap leaves is kept.                       *)
DebootstrapLeaves(p) ==
  /\ BuildGoes(p, "debootstrap", "idle")
  /\ UNCHANGED Disk

DebootstrapFails(p) ==
  /\ BuildGoes(p, "debootstrap", "idle")
  /\ Becomes("base", "none")
  /\ UNCHANGED <<unpacked, mnt>>

ApplyFixups(p) ==
  /\ There("base") /\ BuildGoes(p, "fixups", AfterBase(p))
  /\ Becomes("base", IF maker["base"] = p THEN "whole" ELSE stock["base"])
  /\ UNCHANGED <<unpacked, mnt>>

FixupsFail(p) ==
  /\ BuildGoes(p, "fixups", "idle")
  /\ Leaves(p)
-----------------------------------------------------------------------------
(* ensure_assets                                                           *)

CheckVmm(p) ==
  /\ BuildGoes(p, "checkVmm", IF There("vmm") THEN "checkKernel" ELSE "fetchVmm")
  /\ unpacked' = IF There("vmm") THEN unpacked ELSE [by |-> p, whole |-> FALSE]
  /\ UNCHANGED <<stock, maker, mnt>>

(* tar is done; its file may have been moved or replaced under it.         *)
VmmUnpacked(p) ==
  /\ BuildGoes(p, "fetchVmm", "moveVmm")
  /\ unpacked' = [unpacked EXCEPT !.whole = @ \/ unpacked.by = p]
  /\ stock' = [stock EXCEPT !["vmm"] = IF maker["vmm"] = p /\ @ = "part" THEN "whole" ELSE @]
  /\ UNCHANGED <<maker, mnt>>

VmmFails(p) ==
  /\ BuildGoes(p, "fetchVmm", "idle")
  /\ Leaves(p)

(* `tar && mv`: the path exists from here on.                              *)
MoveVmm(p) ==
  \/ /\ unpacked.by # NoOne /\ BuildGoes(p, "moveVmm", "checkKernel")
     /\ stock' = [stock EXCEPT !["vmm"] = IF unpacked.whole THEN "whole" ELSE "part"]
     /\ maker' = [maker EXCEPT !["vmm"] = unpacked.by]
     /\ unpacked' = NothingUnpacked
     /\ UNCHANGED mnt
  \/ /\ unpacked.by = NoOne /\ BuildGoes(p, "moveVmm", "idle")
     /\ UNCHANGED Disk

(* curl -o writes the kernel in its place.                                 *)
CheckKernel(p) ==
  \/ /\ There("kernel") /\ BuildGoes(p, "checkKernel", "checkExt4")
     /\ UNCHANGED Disk
  \/ /\ ~There("kernel") /\ BuildGoes(p, "checkKernel", "fetchKernel")
     /\ Begins(p, "kernel", "part")
     /\ UNCHANGED <<unpacked, mnt>>

KernelFetched(p) ==
  /\ BuildGoes(p, "fetchKernel", "checkExt4")
  /\ Becomes("kernel", IF maker["kernel"] = p THEN "whole" ELSE stock["kernel"])
  /\ UNCHANGED <<unpacked, mnt>>

KernelFails(p) ==
  /\ BuildGoes(p, "fetchKernel", "idle")
  /\ Leaves(p)
-----------------------------------------------------------------------------
(* ensure_base_ext4, with ensure_agent_binary                              *)

(* Mutant: an image that exists is converted again.                        *)
ConvertAgain(p) ==
  /\ BuildGoes(p, "checkExt4", "checkBase")
  /\ UNCHANGED Disk

CheckExt4(p) ==
  /\ BuildGoes(p, "checkExt4", IF There("ext4") THEN "use" ELSE "checkBase")
  /\ UNCHANGED Disk

CheckAgent(p) ==
  \/ /\ There("agent") /\ BuildGoes(p, "checkAgent", "dd")
     /\ UNCHANGED Disk
  \/ /\ ~There("agent") /\ BuildGoes(p, "checkAgent", "copyAgent")
     /\ Begins(p, "agent", "part")
     /\ UNCHANGED <<unpacked, mnt>>
  \/ /\ ~There("agent") /\ BuildGoes(p, "checkAgent", "idle")   \* it was never built
     /\ UNCHANGED Disk

AgentCopied(p) ==
  /\ BuildGoes(p, "copyAgent", "dd")
  /\ Becomes("agent", IF maker["agent"] = p THEN "whole" ELSE stock["agent"])
  /\ UNCHANGED <<unpacked, mnt>>

AgentFails(p) ==
  /\ BuildGoes(p, "copyAgent", "idle")
  /\ Leaves(p)

(* dd truncates the file under its final name.                             *)
WriteZeroes(p) ==
  /\ BuildGoes(p, "dd", "mkfs")
  /\ Begins(p, "ext4", "part")
  /\ UNCHANGED <<unpacked, mnt>>

MakeFs(p) ==
  /\ BuildGoes(p, "mkfs", "mount")
  /\ UNCHANGED Disk

MountExt4(p) ==
  /\ BuildGoes(p, "mount", "fill") /\ Len(mnt) < MaxMounts
  /\ mnt' = Append(mnt, p)
  /\ UNCHANGED <<stock, maker, unpacked>>

(* dd, mkfs or mount runs and fails: the file is removed.                  *)
ConversionFails(p) ==
  /\ \/ BuildGoes(p, "dd", "idle") \/ BuildGoes(p, "mkfs", "idle") \/ BuildGoes(p, "mount", "idle")
  /\ Becomes("ext4", "none")
  /\ UNCHANGED <<unpacked, mnt>>

(* One of them cannot be started, or there is no directory to mount on:    *)
(* what there is of the file, nothing before dd, stays.                    *)
ConversionAborts(p) ==
  /\ \/ BuildGoes(p, "dd", "idle") \/ BuildGoes(p, "mkfs", "idle") \/ BuildGoes(p, "mount", "idle")
  /\ Leaves(p)

(* What p writes below mnt goes to the file system mounted there last, or  *)
(* to the host's own when none is.                                         *)
OwnMount(p) == mnt # <<>> /\ Last(mnt) = p

Fills(p, a, b, ok) ==
  /\ build[p].at = a
  /\ build' = [build EXCEPT ![p] = [@ EXCEPT !.at = b, !.flawed = build[p].flawed \/ ~ok]]
  /\ UNCHANGED Disk

CopyBase(p) == Fills(p, "fill", "inject", OwnMount(p) /\ stock["base"] = "whole")

CopyFails(p) ==
  /\ BuildGoes(p, "fill", "discard")
  /\ UNCHANGED Disk

InjectAgent(p) == Fills(p, "inject", "umount", OwnMount(p) /\ stock["agent"] = "whole")

(* No result of the injection is looked at.                                *)
InjectFails(p) == Fills(p, "inject", "umount", FALSE)

(* umount takes what was mounted last, if nobody is busy below it.         *)
Unmounts(p) ==
  \/ mnt # <<>> /\ mnt' = Front(mnt)
  \/ /\ mnt = <<>> \/ \E q \in Invocation \ {p} : build[q].at \in Filling
     /\ UNCHANGED mnt

Unmount(p) ==
  /\ BuildGoes(p, "umount", "use") /\ Unmounts(p)
  /\ Becomes("ext4", IF maker["ext4"] = p /\ ~build[p].flawed THEN "whole" ELSE stock["ext4"])
  /\ UNCHANGED unpacked

Discard(p) ==
  /\ BuildGoes(p, "discard", "idle") /\ Unmounts(p)
  /\ Becomes("ext4", "none")
  /\ UNCHANGED unpacked
-----------------------------------------------------------------------------
BuildKilled(p) ==
  /\ build[p].at # "idle"
  /\ build' = [build EXCEPT ![p] = NotBuilding]
  /\ Leaves(p)

(* p is past the check of a, and will write it.                            *)
WorksOn(p, a) ==
  LET at == build[p].at IN
  CASE a = "base" -> at \in BaseWork
    [] a = "vmm" -> at \in VmmWork
    [] a = "kernel" -> at = "fetchKernel"
    [] a = "agent" -> at = "copyAgent"
    [] a = "ext4" -> /\ build[p].kind = "vm"
                     /\ at \in {"checkBase"} \cup BaseWork \cup AgentWork \cup Ext4Work

(* p is past the check of a, and relies on it.                             *)
ReliesOn(p, a) ==
  LET at == build[p].at
      vm == build[p].kind = "vm"
  IN CASE a = "base" -> IF vm THEN at \in AgentWork \cup Ext4Work ELSE at = "use"
       [] a = "vmm" -> vm /\ at \notin {"checkVmm"} \cup VmmWork
       [] a = "kernel" -> vm /\ at \notin {"checkVmm", "checkKernel", "fetchKernel"} \cup VmmWork
       [] a = "agent" -> at \in Ext4Work
       [] a = "ext4" -> vm /\ at = "use"

(* Two invocations meet over a: one writes it, the other does or relies.   *)
Met(a) == \E p, q \in Invocation :
            p # q /\ WorksOn(p, a) /\ (WorksOn(q, a) \/ ReliesOn(q, a))

(* A spoiled artifact is so until it is complete, or not there, and nobody *)
(* works on it or relies on it; and what is made from it is spoiled too.   *)
Spoiling(more) ==
  LET left == spoiled \cup more \cup {a \in Artifact : Met(a)'}
      made == IF {"base", "agent"} \cap left # {}
                   /\ \E p \in Invocation : build[p].at \in Ext4Work
                THEN {"ext4"} ELSE {}
      healed == {a \in Artifact :
                   /\ stock'[a] \in {"none", "bare", "whole"}
                   /\ \A p \in Invocation : ~(WorksOn(p, a) \/ ReliesOn(p, a))'}
  IN spoiled' = (left \cup made) \ healed

ImagesOrderly(p) ==
  \/ UseArtifacts(p)
  \/ CheckBase(p) \/ BaseGrows(p) \/ BaseUnpacked(p) \/ DownloadFails(p)
  \/ NoDebootstrap(p) \/ DebootstrapFails(p) \/ ApplyFixups(p)
  \/ CheckVmm(p) \/ VmmUnpacked(p) \/ VmmFails(p) \/ MoveVmm(p)
  \/ CheckKernel(p) \/ KernelFetched(p)
  \/ CheckExt4(p) \/ CheckAgent(p) \/ AgentCopied(p)
  \/ WriteZeroes(p) \/ MakeFs(p) \/ MountExt4(p) \/ ConversionFails(p)
  \/ CopyBase(p) \/ CopyFails(p) \/ InjectAgent(p) \/ Unmount(p) \/ Discard(p)

(* What a kill interrupts is left as it is; only the vmm is safe from it.  *)
Interrupted(p) == {a \in Artifact \ {"vmm"} : WorksOn(p, a)}

ImagesNext ==
  \E p \in Invocation :
    \/ StartBuild(p) /\ Spoiling({})
    \/ /\ \/ ImagesOrderly(p) /\ Spoiling({})
          \/ FixupsFail(p) /\ Spoiling({"base"})
          \/ KernelFails(p) /\ Spoiling({"kernel"})
          \/ AgentFails(p) /\ Spoiling({"agent"})
          \/ (ConversionAborts(p) \/ InjectFails(p)) /\ Spoiling({"ext4"})
          \/ BuildKilled(p) /\ Spoiling(Interrupted(p))
       /\ UNCHANGED builds

ImagesSpec == ImagesInit /\ [][ImagesNext]_imagesVars
-----------------------------------------------------------------------------
(* A machine is made from complete artifacts. A download, debootstrap, dd, *)
(* mkfs, mount or cp that runs and fails cleans up, and no create takes an *)
(* incomplete artifact of theirs for ready (bootstrap.rs:19, rootfs.rs:71),*)
(* nor does it after a killed fetch of the vmm (assets.rs:43); only what   *)
(* nobody cleans up after (fixups, kernel, agent and injection that fail,  *)
(* dd, mkfs or mount that cannot be started), a kill in the midst, or two  *)
(* creates that met over it leave one.                                     *)
UsedIsWhole ==
  \A p \in Invocation, a \in {"base", "vmm", "kernel", "ext4"} :
    build[p].at = "use" /\ ReliesOn(p, a) => stock[a] = "whole" \/ a \in spoiled

(* What is complete stays complete: nobody fetches, formats or removes it  *)
(* again unless two creates had both found it missing.                     *)
WholeStays ==
  [][\A a \in Artifact :
       stock[a] = "whole" => stock'[a] = "whole" \/ a \in spoiled \cup spoiled']_imagesVars
=============================================================================
