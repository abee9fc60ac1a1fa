----------------------------- MODULE Snapshots -----------------------------
(***************************************************************************)
(* One snapshot name: src/src/image/snapshot.rs, commands/snapshot.rs and  *)
(* the place of create --from that takes the layer. A name owns two paths, *)
(* the tarball and the directory it is extracted to on first use, and no   *)
(* lock: whoever finds a path takes it as complete. Names share nothing.   *)
(***************************************************************************)
EXTENDS Integers, Invocations

CONSTANT MaxVersion   \* bound on the snapshots made under the name

ASSUME MaxVersionAssumption == MaxVersion \in Nat

None == -1      \* the path does not exist
Partial == 0    \* it exists and is not complete
Version == 1 .. MaxVersion

VARIABLES
  tarball,      \* {name}.tar.gz: None, Partial, or complete of a version
  extracted,    \* the directory {name}, likewise
  taken,        \* how many snapshots have been begun: the next is newer
  writing,      \* the creates whose tar has the present file open
  sole,         \* the only one to write to it since it was last truncated
  kept,         \* history: the version last acknowledged and not deleted
  snap,         \* each invocation: where it stands, the version its tar is at,
                \* and what it found in the tarball when it began
  disturbed     \* history: the paths that lost the protection of an order

snapVars == <<tarball, extracted, taken, writing, sole, kept, snap, disturbed>>

Making == {"tar", "tarring", "metadata"}
(* The directory is being changed, or is about to be relied upon.          *)
Changing == {"open", "untar", "clear", "rmdir", "removing"}
LayerWork == Changing \cup {"dir", "mkdir", "mount"}
AtRest == [at |-> "idle", version |-> Partial, asked |-> Partial]

SnapshotsTypeOK ==
  /\ tarball \in {None, Partial} \cup Version
  /\ extracted \in {None, Partial} \cup Version
  /\ taken \in 0 .. MaxVersion
  /\ writing \subseteq Invocation
  /\ sole \in Invocation \cup {NoOne}
  /\ kept \in {None} \cup Version
  /\ snap \in [Invocation -> [at : {"idle", "unlink"} \cup Making \cup LayerWork,
                              version : {Partial} \cup Version,
                              asked : {Partial} \cup Version]]
  /\ disturbed \subseteq {"tarball", "layer"}

SnapshotsInit ==
  /\ tarball = None /\ extracted = None
  /\ taken = 0
  /\ writing = {} /\ sole = NoOne
  /\ kept = None
  /\ snap = [p \in Invocation |-> AtRest]
  /\ disturbed = {}

(* p is at a and goes on to b; what it knew is gone when it returns.       *)
SnapGoes(p, a, b) ==
  /\ snap[p].at = a
  /\ snap' = [snap EXCEPT ![p] = IF b = "idle" THEN AtRest ELSE [@ EXCEPT !.at = b]]

Tarball == <<tarball, writing, sole>>
Paths == <<Tarball, extracted>>

-----------------------------------------------------------------------------
(* snapshot create, of a machine whose upper layer is there                *)

(* Mutant: an existing tarball is overwritten.                             *)
CheckFreeNot(p) ==
  /\ SnapGoes(p, "idle", "tar")
  /\ UNCHANGED <<Paths, taken, kept>>

CheckFree(p) ==
  /\ SnapGoes(p, "idle", "tar") /\ tarball = None
  /\ UNCHANGED <<Paths, taken, kept>>

(* tar -czf opens the file under its final name and truncates it, also     *)
(* under a tar that is reading it: gzip's checksum fails there.            *)
OpenTarball(p) ==
  /\ snap[p].at = "tar" /\ taken < MaxVersion
  /\ taken' = taken + 1
  /\ tarball' = Partial
  /\ writing' = writing \cup {p}
  /\ sole' = IF writing = {} THEN p ELSE NoOne
  /\ snap' = [q \in Invocation |->
                IF q = p THEN [AtRest EXCEPT !.at = "tarring", !.version = taken']
                ELSE IF snap[q].at = "untar" /\ snap[q].version = tarball
                THEN [snap[q] EXCEPT !.version = Partial]
                ELSE snap[q]]
  /\ UNCHANGED <<extracted, kept>>

Written(p) == IF p \in writing /\ sole = p THEN snap[p].version ELSE tarball

WriteTarball(p) ==
  /\ SnapGoes(p, "tarring", "metadata")
  /\ tarball' = Written(p)
  /\ writing' = writing \ {p}
  /\ UNCHANGED <<sole, extracted, taken, kept>>

(* The length and the time of the file are what is printed; a file that is *)
(* gone is an error.                                                       *)
Acknowledge(p) ==
  /\ SnapGoes(p, "metadata", "idle")
  /\ kept' = IF tarball = None THEN kept ELSE snap[p].version
  /\ UNCHANGED <<Paths, taken>>

(* An error of tar is one of the command, and the file stays: cut short,   *)
(* or complete when a file merely changed as tar read it.                  *)
TarFails(p) ==
  /\ SnapGoes(p, "tarring", "idle")
  /\ tarball' \in {tarball, Written(p)}
  /\ writing' = writing \ {p}
  /\ UNCHANGED <<sole, extracted, taken, kept>>
-----------------------------------------------------------------------------
(* snapshot delete                                                         *)

CheckFound(p) ==
  /\ SnapGoes(p, "idle", "unlink") /\ tarball # None
  /\ UNCHANGED <<Paths, taken, kept>>

(* A tarball somebody else removed meanwhile is an error.                  *)
Unlink(p) ==
  /\ SnapGoes(p, "unlink", IF tarball = None THEN "idle" ELSE "rmdir")
  /\ tarball' = None
  /\ writing' = {} /\ sole' = NoOne
  /\ kept' = None
  /\ UNCHANGED <<extracted, taken>>

RemoveLayer(p) ==
  /\ SnapGoes(p, "rmdir", IF extracted = None THEN "idle" ELSE "removing")
  /\ extracted' = IF extracted = None THEN None ELSE Partial
  /\ UNCHANGED <<Tarball, taken, kept>>

RemovedLayer(p) ==
  /\ SnapGoes(p, "removing", "idle")
  /\ extracted' = None
  /\ UNCHANGED <<Tarball, taken, kept>>
-----------------------------------------------------------------------------
(* create --from                                                           *)

SeekTarball(p) ==
  /\ snap[p].at = "idle" /\ tarball # None
  /\ snap' = [snap EXCEPT ![p] = [AtRest EXCEPT !.at = "dir", !.asked = tarball]]
  /\ UNCHANGED <<Paths, taken, kept>>

(* "Already extracted": whatever is there is the layer.                    *)
CheckDir(p) ==
  /\ SnapGoes(p, "dir", IF extracted = None THEN "mkdir" ELSE "mount")
  /\ UNCHANGED <<Paths, taken, kept>>

MakeDir(p) ==
  /\ SnapGoes(p, "mkdir", "open")
  /\ extracted' = IF extracted = None THEN Partial ELSE extracted
  /\ UNCHANGED <<Tarball, taken, kept>>

OpenForReading(p) ==
  /\ snap[p].at = "open"
  /\ snap' = [snap EXCEPT ![p] = IF tarball \in Version
                                  THEN [@ EXCEPT !.at = "untar", !.version = tarball]
                                  ELSE [@ EXCEPT !.at = "clear"]]
  /\ UNCHANGED <<Paths, taken, kept>>

Untar(p) ==
  /\ SnapGoes(p, "untar", "mount") /\ extracted # None /\ snap[p].version # Partial
  /\ extracted' = snap[p].version
  /\ UNCHANGED <<Tarball, taken, kept>>

UntarFails(p) ==
  /\ SnapGoes(p, "untar", "clear")
  /\ UNCHANGED <<Paths, taken, kept>>

(* Mutant: a failed extraction leaves its directory.                       *)
ClearNothing(p) ==
  /\ SnapGoes(p, "clear", "idle")
  /\ UNCHANGED <<Paths, taken, kept>>

Clear(p) ==
  /\ SnapGoes(p, "clear", "idle")
  /\ extracted' = None
  /\ UNCHANGED <<Tarball, taken, kept>>

(* The directory becomes a lower layer of the machine.                     *)
MountLayer(p) ==
  /\ SnapGoes(p, "mount", "idle")
  /\ UNCHANGED <<Paths, taken, kept>>
-----------------------------------------------------------------------------
(* A removal that fails is ignored, in delete and after a failed tar.      *)
RemovalFails(p) ==
  /\ \E a \in {"removing", "clear"} : SnapGoes(p, a, "idle")
  /\ UNCHANGED <<Paths, taken, kept>>

SnapshotKilled(p) ==
  /\ snap[p].at # "idle"
  /\ snap' = [snap EXCEPT ![p] = AtRest]
  /\ writing' = writing \ {p}
  /\ UNCHANGED <<tarball, sole, extracted, taken, kept>>

SnapshotOrderly(p) ==
  \/ CheckFree(p) \/ OpenTarball(p) \/ WriteTarball(p) \/ Acknowledge(p) \/ TarFails(p)
  \/ CheckFound(p) \/ Unlink(p) \/ RemoveLayer(p) \/ RemovedLayer(p)
  \/ SeekTarball(p) \/ CheckDir(p) \/ MakeDir(p) \/ OpenForReading(p)
  \/ Untar(p) \/ UntarFails(p) \/ Clear(p) \/ MountLayer(p)

(* Two invocations, one of them in a and the other in b.                   *)
Meet(a, b) == \E p, q \in Invocation : p # q /\ snap[p].at \in a /\ snap[q].at \in b

AllOut(points) == \A p \in Invocation : snap[p].at \notin points

(* What has been disturbed stays so until the path is gone and nobody is   *)
(* at work on it.                                                          *)
Disturbance(more) ==
  LET left == disturbed \cup more
                \cup (IF Meet(Making, Making)' THEN {"tarball", "layer"} ELSE {})
                \cup (IF Meet(Changing, LayerWork)' THEN {"layer"} ELSE {})
      healed == (IF tarball' = None /\ AllOut(Making)' THEN {"tarball"} ELSE {})
                  \cup (IF extracted' = None /\ AllOut(LayerWork \cup Making)'
                          THEN {"layer"} ELSE {})
  IN disturbed' = left \ healed

SnapshotsNext ==
  \E p \in Invocation :
    \/ SnapshotOrderly(p) /\ Disturbance({})
    \/ RemovalFails(p) /\ Disturbance({"layer"})
    \/ /\ SnapshotKilled(p)
       /\ Disturbance(IF snap[p].at \in Changing THEN {"layer"} ELSE {})

SnapshotsSpec == SnapshotsInit /\ [][SnapshotsNext]_snapVars
-----------------------------------------------------------------------------
(* A create --from stacks its machine on a complete layer, no older than   *)
(* the snapshot it found (extract, snapshot.rs:140), whatever snapshot     *)
(* creates were killed or failed before: only two creates that wrote over  *)
(* each other, or an extraction or deletion that was killed, failed to     *)
(* clean up or met another one, can give it a torn or a stale layer.       *)
LayersAreSound ==
  \A p \in Invocation : snap[p].at = "mount" =>
    "layer" \in disturbed \/ (extracted \in Version /\ extracted >= snap[p].asked)

(* A snapshot the user was told of stays complete until it is deleted,     *)
(* whatever creates of the same name come later or fail, unless two of     *)
(* them were past the check (snapshot.rs:32) at the same time.             *)
AcknowledgedStays ==
  kept # None => tarball = kept \/ "tarball" \in disturbed
=============================================================================
