------------------------------- MODULE MCHost -------------------------------
(***************************************************************************)
(* The parts of a host that share neither a file nor a variable, each by   *)
(* itself in one run: `part` says which of them moves, and the others stay *)
(* as they began. Their product would have no behaviour that one of them   *)
(* does not show, only every pair of their states.                         *)
(***************************************************************************)
EXTENDS HostNet, Snapshots, Images, LimaVm, ExecLog, TLC

VARIABLE part

MCHostInit ==
  /\ HostNetInit /\ SnapshotsInit /\ ImagesInit /\ LimaInit /\ ExecLogInit
  /\ part \in {"network", "snapshots", "images", "lima", "log"}
  /\ part # "lima" => NothingYet

MCHostVars == <<netVars, snapVars, imagesVars, limaVars, execVars>>

MCHostNext ==
  /\ \/ /\ part = "network" /\ HostNetNext
        /\ UNCHANGED <<snapVars, imagesVars, limaVars, execVars>>
     \/ /\ part = "snapshots" /\ SnapshotsNext
        /\ UNCHANGED <<netVars, imagesVars, limaVars, execVars>>
     \/ /\ part = "images" /\ ImagesNext
        /\ UNCHANGED <<netVars, snapVars, limaVars, execVars>>
     \/ /\ part = "lima" /\ LimaNext
        /\ UNCHANGED <<netVars, snapVars, imagesVars, execVars>>
     \/ /\ part = "log" /\ ExecLogNext
        /\ UNCHANGED <<netVars, snapVars, imagesVars, limaVars>>
  /\ UNCHANGED part

MCHostSpec == MCHostInit /\ [][MCHostNext]_<<MCHostVars, part>>

(* Every variable of the parts keeps its type (LimaInv has that of the VM);*)
(* that a port forward has an address (port_forward.rs:13) is part of it.  *)
MCHostTypeOK ==
  HostNetTypeOK /\ SnapshotsTypeOK /\ ImagesTypeOK /\ ExecLogTypeOK

MCSymmetry == Permutations(Invocation) \cup Permutations(Id \ Virtual) \cup Permutations(Box)
=============================================================================
