----------------------------- MODULE HostProofs -----------------------------
(***************************************************************************)
(* The proofs about Snapshots, ExecLog and Images, the files that no lock  *)
(* guards: SnapshotsInv, ExecLogInv and ImagesInv are inductive, and what  *)
(* is promised of a snapshot, of the log and of what machines are made     *)
(* from follows from them. At the end the parts of a host are put together *)
(* again, with the host network and the Lima VM.                           *)
(***************************************************************************)
EXTENDS MCHost, HostNetProofs, LimaVmProofs

-----------------------------------------------------------------------------
(* Snapshots: the invariant                                                *)

Someone(points) == \E p \in Invocation : snap[p].at \in points

Deleting == {"rmdir", "removing"}
Stacking == LayerWork \ Deleting

(* While no two creates are past the check, a tarball that is being made   *)
(* is the tar's own.                                                       *)
OwnTarball(p) ==
  /\ snap[p].at = "tar" => tarball = None
  /\ snap[p].at = "tarring" =>
       tarball = None \/ (tarball = Partial /\ p \in writing /\ sole = p)
  /\ snap[p].at = "metadata" => tarball \in {None, snap[p].version}

TarballFits ==
  /\ writing \subseteq {p \in Invocation : snap[p].at = "tarring"}
  /\ tarball = None => kept = None
  /\ \A p \in Invocation :
       snap[p].at \in {"tarring", "metadata"} => snap[p].version \in Version
  /\ Meet(Making, Making) => disturbed = {"tarball", "layer"}
  /\ disturbed = {"tarball", "layer"} \/ \A p \in Invocation : OwnTarball(p)
  /\ "tarball" \in disturbed \/ (Someone(Making) => kept = None)
  /\ AcknowledgedStays

(* A layer that is there is complete, or at work; and it is as new as the  *)
(* tarball, or about to be deleted.                                        *)
LayerComplete ==
  /\ extracted = Partial => Someone({"open", "untar", "clear", "removing"})
  /\ extracted \in Version /\ ~Someone(Deleting) =>
       tarball # None /\ tarball <= extracted /\ ~Someone({"tar", "tarring"})

(* Who is to stack a machine found the tarball that is still there.        *)
OwnLayer(p) ==
  /\ snap[p].at \in Stacking => tarball # None /\ snap[p].asked \in {Partial, tarball}
  /\ snap[p].at = "untar" => snap[p].version = tarball /\ tarball \in Version
  /\ snap[p].at = "mount" => extracted \in Version /\ extracted >= snap[p].asked

LayerFits ==
  "layer" \in disturbed \/
    /\ ~Meet(Changing, LayerWork)
    /\ LayerComplete
    /\ \A p \in Invocation : OwnLayer(p)

SnapshotsInv == SnapshotsTypeOK /\ TarballFits /\ LayerFits

(* What an action must do for the invariant while nothing is disturbed.    *)
TarballKept ==
  /\ writing' \subseteq {p \in Invocation : snap'[p].at = "tarring"}
  /\ tarball' = None => kept' = None
  /\ \A p \in Invocation :
       snap'[p].at \in {"tarring", "metadata"} => snap'[p].version \in Version
  /\ /\ ~Meet(Making, Making) /\ ~Meet(Making, Making)'
     /\ \A p \in Invocation : OwnTarball(p)
     => \A p \in Invocation : OwnTarball(p)'
  /\ /\ ~Meet(Making, Making) /\ ~Meet(Making, Making)'
     /\ \A p \in Invocation : OwnTarball(p)
     /\ Someone(Making) => kept = None
     /\ kept # None => tarball = kept
     => /\ Someone(Making)' => kept' = None
        /\ kept' # None => tarball' = kept'

LayerKept ==
  /\ ~Meet(Changing, LayerWork) /\ ~Meet(Changing, LayerWork)'
  /\ ~Meet(Making, Making) /\ ~Meet(Making, Making)'
  /\ LayerComplete
  /\ \A p \in Invocation : OwnTarball(p) /\ OwnLayer(p)
  => LayerComplete' /\ \A p \in Invocation : OwnLayer(p)'
-----------------------------------------------------------------------------
(* Snapshots: a step                                                       *)

(* What p knew it still knows unless it returns; nobody else moved.        *)
LEMMA SnapMoves ==
  ASSUME SnapshotsTypeOK, NEW p \in Invocation, NEW a, NEW b, SnapGoes(p, a, b)
  PROVE  /\ snap[p].at = a /\ snap'[p].at = b
         /\ IF b = "idle" THEN snap'[p] = AtRest
            ELSE snap'[p].version = snap[p].version /\ snap'[p].asked = snap[p].asked
         /\ \A q \in Invocation : q # p => snap'[q] = snap[q]
  BY DEF SnapGoes, SnapshotsTypeOK, AtRest

(* The initial state has no path and nobody at work.                       *)
LEMMA SnapshotsStart == SnapshotsInit => SnapshotsInv
<1> SUFFICES ASSUME SnapshotsInit PROVE SnapshotsInv
  OBVIOUS
<1>1. SnapshotsTypeOK
  BY MaxVersionAssumption DEF SnapshotsInit, SnapshotsTypeOK, AtRest, None, Partial, Version
<1>2. \A p \in Invocation : snap[p].at = "idle"
  BY DEF SnapshotsInit, AtRest
<1>3. TarballFits
  BY <1>2 DEF SnapshotsInit, TarballFits, OwnTarball, AcknowledgedStays, Someone, Meet, Making
<1>4. LayerFits
  BY <1>2 DEF SnapshotsInit, LayerFits, LayerComplete, OwnLayer, Someone, Meet, Changing,
    LayerWork, Stacking, None, Partial, Version
<1> QED
  BY <1>1, <1>3, <1>4 DEF SnapshotsInv

(* What leaves a path undisturbed: nothing disturbed it before or now, or  *)
(* it is gone and nobody is at work on it.                                 *)
LEMMA Undisturbed ==
  ASSUME SnapshotsTypeOK, NEW more \in SUBSET {"layer"}, Disturbance(more)
  PROVE  /\ disturbed' \subseteq {"tarball", "layer"}
         /\ Meet(Making, Making)' => disturbed' = {"tarball", "layer"}
         /\ disturbed' # {"tarball", "layer"} =>
              \/ AllOut(Making)'
              \/ disturbed # {"tarball", "layer"} /\ ~Meet(Making, Making)'
         /\ "tarball" \notin disturbed' =>
              \/ tarball' = None /\ AllOut(Making)'
              \/ "tarball" \notin disturbed /\ ~Meet(Making, Making)'
         /\ "layer" \notin disturbed' =>
              \/ extracted' = None /\ AllOut(LayerWork \cup Making)'
              \/ /\ "layer" \notin disturbed /\ "layer" \notin more
                 /\ ~Meet(Making, Making)' /\ ~Meet(Changing, LayerWork)'
<1> DEFINE M == Meet(Making, Making)'
           L == Meet(Changing, LayerWork)'
           N == AllOut(Making)'
           O == AllOut(LayerWork \cup Making)'
           left == disturbed \cup more \cup (IF M THEN {"tarball", "layer"} ELSE {})
                     \cup (IF L THEN {"layer"} ELSE {})
           healed == (IF tarball' = None /\ N THEN {"tarball"} ELSE {})
                       \cup (IF extracted' = None /\ O THEN {"layer"} ELSE {})
<1>1. disturbed' = left \ healed
  BY Zenon DEF Disturbance
<1>2. (M => ~N) /\ (O => N)
  BY DEF Meet, AllOut
<1>3. disturbed \subseteq {"tarball", "layer"}
  BY DEF SnapshotsTypeOK
<1> HIDE DEF M, L, N, O
<1>4. /\ disturbed' \subseteq {"tarball", "layer"}
      /\ M => disturbed' = {"tarball", "layer"}
      /\ disturbed' # {"tarball", "layer"} => N \/ (disturbed # {"tarball", "layer"} /\ ~M)
      /\ "tarball" \notin disturbed' =>
           (tarball' = None /\ N) \/ ("tarball" \notin disturbed /\ ~M)
      /\ "layer" \notin disturbed' =>
           \/ extracted' = None /\ O
           \/ "layer" \notin disturbed /\ "layer" \notin more /\ ~M /\ ~L
  BY <1>1, <1>2, <1>3
<1> QED
  BY <1>4, Zenon DEF M, L, N, O

(* The invariant follows from what an action does to the paths.            *)
LEMMA TarballFollows ==
  ASSUME SnapshotsInv, NEW more \in SUBSET {"layer"}, Disturbance(more), TarballKept
  PROVE  TarballFits'
<1> DEFINE both == {"tarball", "layer"}
           Own == \A p \in Invocation : OwnTarball(p)
           M == Meet(Making, Making)
           N == AllOut(Making)'
<1>1. /\ M' => disturbed' = both
      /\ disturbed' # both => N \/ (disturbed # both /\ ~M')
      /\ "tarball" \notin disturbed' =>
           (tarball' = None /\ N) \/ ("tarball" \notin disturbed /\ ~M')
  <2>1. SnapshotsTypeOK
    BY DEF SnapshotsInv
  <2> QED
    BY <2>1, Undisturbed, Zenon
<1>2. /\ writing' \subseteq {p \in Invocation : snap'[p].at = "tarring"}
      /\ tarball' = None => kept' = None
      /\ \A p \in Invocation :
           snap'[p].at \in {"tarring", "metadata"} => snap'[p].version \in Version
      /\ ~M /\ ~M' /\ Own => Own'
      /\ ~M /\ ~M' /\ Own /\ (Someone(Making) => kept = None)
            /\ (kept # None => tarball = kept)
         => (Someone(Making)' => kept' = None) /\ (kept' # None => tarball' = kept')
  BY Zenon DEF TarballKept
<1>3. /\ M => disturbed = both
      /\ disturbed = both \/ Own
      /\ "tarball" \in disturbed \/ (Someone(Making) => kept = None)
      /\ kept # None => tarball = kept \/ "tarball" \in disturbed
  BY Zenon DEF SnapshotsInv, TarballFits, AcknowledgedStays
<1>4. N => Own' /\ ~Someone(Making)'
  BY DEF AllOut, Making, OwnTarball, Someone
<1>5. "tarball" \in both
  OBVIOUS
<1> HIDE DEF both, Own, M, N
<1>6. disturbed' = both \/ Own'
  BY <1>1, <1>2, <1>3, <1>4
<1>7. "tarball" \in disturbed' \/
        ((Someone(Making)' => kept' = None) /\ (kept' # None => tarball' = kept'))
  BY <1>1, <1>2, <1>3, <1>4, <1>5
<1> QED
  BY <1>1, <1>2, <1>6, <1>7, Zenon DEF both, Own, M, TarballFits, AcknowledgedStays

LEMMA LayerFollows ==
  ASSUME SnapshotsInv, NEW more \in SUBSET {"layer"}, Disturbance(more),
         LayerKept \/ "layer" \in more
  PROVE  LayerFits'
<1> DEFINE Own == \A p \in Invocation : OwnTarball(p)
           OwnL == \A p \in Invocation : OwnLayer(p)
           M == Meet(Making, Making)
           L == Meet(Changing, LayerWork)
           N == AllOut(LayerWork \cup Making)'
<1>1. "layer" \notin disturbed' =>
        \/ extracted' = None /\ N
        \/ "layer" \notin disturbed /\ "layer" \notin more /\ ~M' /\ ~L'
  <2>1. SnapshotsTypeOK
    BY DEF SnapshotsInv
  <2> QED
    BY <2>1, Undisturbed, Zenon
<1>2. \/ "layer" \in more
      \/ ~L /\ ~L' /\ ~M /\ ~M' /\ LayerComplete /\ Own /\ OwnL => LayerComplete' /\ OwnL'
  BY Zenon DEF LayerKept
<1>3. "layer" \notin disturbed => ~M /\ Own /\ ~L /\ LayerComplete /\ OwnL
  BY DEF SnapshotsInv, TarballFits, LayerFits
<1>4. extracted' = None /\ N => LayerComplete' /\ OwnL' /\ ~L'
  BY MaxVersionAssumption DEF AllOut, LayerWork, Changing, Stacking, Deleting, OwnLayer,
    LayerComplete, Meet, None, Partial, Version
<1> HIDE DEF Own, OwnL, M, L, N
<1>5. "layer" \in disturbed' \/ (~L' /\ LayerComplete' /\ OwnL')
  BY <1>1, <1>2, <1>3, <1>4
<1> QED
  BY <1>5, Zenon DEF OwnL, L, LayerFits
-----------------------------------------------------------------------------
(* Snapshots: what an action does to the paths                             *)

(* The types of everything but the history that Disturbance keeps.         *)
PathsTyped ==
  /\ tarball \in {None, Partial} \cup Version
  /\ extracted \in {None, Partial} \cup Version
  /\ taken \in 0 .. MaxVersion
  /\ writing \subseteq Invocation
  /\ sole \in Invocation \cup {NoOne}
  /\ kept \in {None} \cup Version
  /\ snap \in [Invocation -> [at : {"idle", "unlink"} \cup Making \cup LayerWork,
                              version : {Partial} \cup Version,
                              asked : {Partial} \cup Version]]

LEMMA OrderlyTyped ==
  ASSUME SnapshotsInv, NEW p \in Invocation, SnapshotOrderly(p)
  PROVE  PathsTyped'
<1>1. SnapshotsTypeOK
  BY DEF SnapshotsInv
<1> USE <1>1, MaxVersionAssumption DEF SnapshotsTypeOK, PathsTyped, SnapGoes, AtRest, Written,
      Paths, Tarball, Making, Changing, LayerWork, None, Partial, Version
<1>2. CASE CheckFree(p)
  BY <1>2 DEF CheckFree
<1>3. CASE OpenTarball(p)
  <2>1. taken' \in Version
    BY <1>3 DEF OpenTarball
  <2>2. ASSUME NEW q \in Invocation
        PROVE  snap'[q] \in [at : {"idle", "unlink"} \cup Making \cup LayerWork,
                            version : {Partial} \cup Version,
                            asked : {Partial} \cup Version]
    <3>1. CASE q = p
      BY <1>3, <2>1, <3>1 DEF OpenTarball
    <3>2. CASE q # p
      BY <1>3, <3>2 DEF OpenTarball
    <3> QED
      BY <3>1, <3>2
  <2>3. snap' = [q \in Invocation |-> snap'[q]]
    BY <1>3 DEF OpenTarball
  <2> QED
    BY <1>3, <2>1, <2>2, <2>3 DEF OpenTarball
<1>4. CASE WriteTarball(p)
  BY <1>4 DEF WriteTarball
<1>5. CASE Acknowledge(p)
  <2>1. snap[p].version \in Version
    BY <1>5 DEF Acknowledge, SnapshotsInv, TarballFits
  <2> QED
    BY <1>5, <2>1 DEF Acknowledge
<1>6. CASE TarFails(p)
  BY <1>6 DEF TarFails
<1>7. CASE CheckFound(p)
  BY <1>7 DEF CheckFound
<1>8. CASE Unlink(p)
  BY <1>8 DEF Unlink
<1>9. CASE RemoveLayer(p)
  BY <1>9 DEF RemoveLayer
<1>10. CASE RemovedLayer(p)
  BY <1>10 DEF RemovedLayer
<1>11. CASE SeekTarball(p)
  BY <1>11 DEF SeekTarball
<1>12. CASE CheckDir(p)
  BY <1>12 DEF CheckDir
<1>13. CASE MakeDir(p)
  BY <1>13 DEF MakeDir
<1>14. CASE OpenForReading(p)
  <2>1. CASE tarball \in Version
    BY <1>14, <2>1 DEF OpenForReading
  <2>2. CASE tarball \notin Version
    BY <1>14, <2>2 DEF OpenForReading
  <2> QED
    BY <2>1, <2>2
<1>15. CASE Untar(p)
  BY <1>15 DEF Untar
<1>16. CASE UntarFails(p)
  BY <1>16 DEF UntarFails
<1>17. CASE Clear(p)
  BY <1>17 DEF Clear
<1>18. CASE MountLayer(p)
  BY <1>18 DEF MountLayer
<1> QED
  BY <1>2, <1>3, <1>4, <1>5, <1>6, <1>7, <1>8, <1>9, <1>10, <1>11, <1>12, <1>13, <1>14, <1>15,
    <1>16, <1>17, <1>18 DEF SnapshotOrderly

(* Only a tar that is alone writes, and what is acknowledged is its own.   *)
LEMMA OrderlyTarball ==
  ASSUME SnapshotsInv, NEW p \in Invocation, SnapshotOrderly(p)
  PROVE  TarballKept
<1>1. SnapshotsTypeOK /\ TarballFits
  BY DEF SnapshotsInv
<1> USE <1>1, MaxVersionAssumption, NoOneAssumption DEF SnapshotsTypeOK, TarballFits, TarballKept,
      OwnTarball, SnapGoes, AtRest, Written, Paths, Tarball, Making, Meet, Someone,
      None, Partial, Version
<1>2. CASE CheckFree(p)
  BY <1>2 DEF CheckFree
<1>3. CASE OpenTarball(p)
  BY <1>3 DEF OpenTarball
<1>4. CASE WriteTarball(p)
  BY <1>4 DEF WriteTarball
<1>5. CASE Acknowledge(p)
  BY <1>5 DEF Acknowledge
<1>6. CASE TarFails(p)
  BY <1>6 DEF TarFails
<1>7. CASE CheckFound(p)
  BY <1>7 DEF CheckFound
<1>8. CASE Unlink(p)
  BY <1>8 DEF Unlink
<1>9. CASE RemoveLayer(p)
  BY <1>9 DEF RemoveLayer
<1>10. CASE RemovedLayer(p)
  BY <1>10 DEF RemovedLayer
<1>11. CASE SeekTarball(p)
  BY <1>11 DEF SeekTarball
<1>12. CASE CheckDir(p)
  BY <1>12 DEF CheckDir
<1>13. CASE MakeDir(p)
  BY <1>13 DEF MakeDir
<1>14. CASE OpenForReading(p)
  BY <1>14 DEF OpenForReading
<1>15. CASE Untar(p)
  BY <1>15 DEF Untar
<1>16. CASE UntarFails(p)
  BY <1>16 DEF UntarFails
<1>17. CASE Clear(p)
  BY <1>17 DEF Clear
<1>18. CASE MountLayer(p)
  BY <1>18 DEF MountLayer
<1> QED
  BY <1>2, <1>3, <1>4, <1>5, <1>6, <1>7, <1>8, <1>9, <1>10, <1>11, <1>12, <1>13, <1>14, <1>15,
    <1>16, <1>17, <1>18 DEF SnapshotOrderly

(* Whoever changes the layer is alone with it, and an extraction is of the *)
(* tarball that is there.                                                  *)
LEMMA OrderlyLayer ==
  ASSUME SnapshotsInv, NEW p \in Invocation, SnapshotOrderly(p)
  PROVE  LayerKept
<1>1. SnapshotsTypeOK
  BY DEF SnapshotsInv
<1> USE <1>1, MaxVersionAssumption, NoOneAssumption DEF SnapshotsTypeOK, LayerKept, LayerComplete,
      OwnLayer, OwnTarball, SnapGoes, AtRest, Written, Paths, Tarball, Making, Changing,
      LayerWork, Stacking, Deleting, Meet, Someone, None, Partial, Version
<1>2. CASE CheckFree(p)
  BY <1>2 DEF CheckFree
<1>3. CASE OpenTarball(p)
  BY <1>3 DEF OpenTarball
<1>4. CASE WriteTarball(p)
  BY <1>4 DEF WriteTarball
<1>5. CASE Acknowledge(p)
  BY <1>5 DEF Acknowledge
<1>6. CASE TarFails(p)
  BY <1>6 DEF TarFails
<1>7. CASE CheckFound(p)
  BY <1>7 DEF CheckFound
<1>8. CASE Unlink(p)
  BY <1>8 DEF Unlink
<1>9. CASE RemoveLayer(p)
  BY <1>9 DEF RemoveLayer
<1>10. CASE RemovedLayer(p)
  BY <1>10 DEF RemovedLayer
<1>11. CASE SeekTarball(p)
  BY <1>11 DEF SeekTarball
<1>12. CASE CheckDir(p)
  BY <1>12 DEF CheckDir
<1>13. CASE MakeDir(p)
  BY <1>13 DEF MakeDir
<1>14. CASE OpenForReading(p)
  BY <1>14 DEF OpenForReading
<1>15. CASE Untar(p)
  BY <1>15 DEF Untar
<1>16. CASE UntarFails(p)
  BY <1>16 DEF UntarFails
<1>17. CASE Clear(p)
  BY <1>17 DEF Clear
<1>18. CASE MountLayer(p)
  BY <1>18 DEF MountLayer
<1> QED
  BY <1>2, <1>3, <1>4, <1>5, <1>6, <1>7, <1>8, <1>9, <1>10, <1>11, <1>12, <1>13, <1>14, <1>15,
    <1>16, <1>17, <1>18 DEF SnapshotOrderly

(* A removal that fails, or a kill, leaves the paths as they are.          *)
LEMMA FailureKeeps ==
  ASSUME SnapshotsInv, NEW p \in Invocation, RemovalFails(p) \/ SnapshotKilled(p)
  PROVE  /\ PathsTyped' /\ TarballKept
         /\ SnapshotKilled(p) /\ snap[p].at \notin Changing => LayerKept
<1>1. SnapshotsTypeOK /\ TarballFits
  BY DEF SnapshotsInv
<1> USE <1>1 DEF SnapshotsTypeOK, SnapGoes, AtRest, Paths, Tarball, Making, Changing, LayerWork,
      SnapshotKilled, RemovalFails
<1>2. PathsTyped'
  BY DEF PathsTyped
<1>3. TarballKept
  BY DEF TarballKept, TarballFits, OwnTarball, Meet, Someone
<1>4. SnapshotKilled(p) /\ snap[p].at \notin Changing => LayerKept
  BY DEF LayerKept, LayerComplete, OwnLayer, OwnTarball, Stacking, Deleting, Meet, Someone
<1> QED
  BY <1>2, <1>3, <1>4
-----------------------------------------------------------------------------
(* Snapshots: the theorems                                                 *)

LEMMA SnapshotsStep ==
  ASSUME SnapshotsInv, [SnapshotsNext]_snapVars
  PROVE  SnapshotsInv'
<1>1. ASSUME NEW p \in Invocation, SnapshotOrderly(p), Disturbance({})
      PROVE  SnapshotsInv'
  <2>1. PathsTyped' /\ TarballKept /\ LayerKept
    BY <1>1, OrderlyTyped, OrderlyTarball, OrderlyLayer
  <2>2. disturbed' \subseteq {"tarball", "layer"}
    BY <1>1, Undisturbed DEF SnapshotsInv
  <2>3. TarballFits' /\ LayerFits'
    BY <1>1, <2>1, TarballFollows, LayerFollows
  <2> QED
    BY <2>1, <2>2, <2>3 DEF SnapshotsInv, SnapshotsTypeOK, PathsTyped
<1>2. ASSUME NEW p \in Invocation, NEW more \in SUBSET {"layer"}, Disturbance(more),
             RemovalFails(p) \/ SnapshotKilled(p),
             LayerKept \/ "layer" \in more
      PROVE  SnapshotsInv'
  <2>1. PathsTyped' /\ TarballKept
    BY <1>2, FailureKeeps
  <2>2. disturbed' \subseteq {"tarball", "layer"}
    BY <1>2, Undisturbed DEF SnapshotsInv
  <2>3. TarballFits' /\ LayerFits'
    BY <1>2, <2>1, TarballFollows, LayerFollows
  <2> QED
    BY <2>1, <2>2, <2>3 DEF SnapshotsInv, SnapshotsTypeOK, PathsTyped
<1>3. ASSUME NEW p \in Invocation, RemovalFails(p), Disturbance({"layer"})
      PROVE  SnapshotsInv'
  BY <1>2, <1>3
<1>4. ASSUME NEW p \in Invocation, SnapshotKilled(p),
             Disturbance(IF snap[p].at \in Changing THEN {"layer"} ELSE {})
      PROVE  SnapshotsInv'
  <2>1. CASE snap[p].at \in Changing
    BY <1>2, <1>4, <2>1
  <2>2. CASE snap[p].at \notin Changing
    BY <1>2, <1>4, <2>2, FailureKeeps
  <2> QED
    BY <2>1, <2>2
<1>5. CASE UNCHANGED snapVars
  BY <1>5 DEF snapVars, SnapshotsInv, SnapshotsTypeOK, TarballFits, OwnTarball, LayerFits,
    LayerComplete, OwnLayer, AcknowledgedStays, Meet, Someone
<1> QED
  BY <1>1, <1>3, <1>4, <1>5 DEF SnapshotsNext

(* What is known of the tarball and the layer of a name holds whatever     *)
(* creates, deletes and kills come in what order (image/snapshot.rs).      *)
THEOREM SnapshotsInvariance == SnapshotsSpec => []SnapshotsInv
<1>1. SnapshotsInit => SnapshotsInv
  BY SnapshotsStart
<1>2. SnapshotsInv /\ [SnapshotsNext]_snapVars => SnapshotsInv'
  BY SnapshotsStep
<1> QED
  BY <1>1, <1>2, PTL DEF SnapshotsSpec

(* A snapshot that was acknowledged stays complete until it is deleted,    *)
(* unless two creates were past the check of snapshot.rs:32 together.      *)
THEOREM SnapshotsStay == SnapshotsSpec => []AcknowledgedStays
<1>1. SnapshotsInv => AcknowledgedStays
  BY DEF SnapshotsInv, TarballFits
<1> QED
  BY <1>1, SnapshotsInvariance, PTL

(* create --from stacks a machine on a complete layer that is no older     *)
(* than the snapshot it found (extract, snapshot.rs:140), while nothing    *)
(* that changes the layer is killed, fails to clean up or meets another.   *)
THEOREM MachinesAreStackedSoundly == SnapshotsSpec => []LayersAreSound
<1>1. SnapshotsInv => LayersAreSound
  BY DEF SnapshotsInv, LayerFits, OwnLayer, LayersAreSound
<1> QED
  BY <1>1, SnapshotsInvariance, PTL
-----------------------------------------------------------------------------
(* The exec log: the invariant                                             *)

LineOf(s, i) == Cardinality({j \in 1 .. i : s[j] = Newline})
Alone(s, i) == \A j \in DOMAIN s : LineOf(s, j) = LineOf(s, i) /\ s[j] # Newline => j = i

Piece == {Newline} \cup {Text(e, w) : e \in Entry, w \in BOOLEAN}

(* Entries whose text is on the last line and not ended.                   *)
Open == cut \cup {exec[q].entry : q \in {q \in Invocation : exec[q].at = "newline"}}

(* What is on the line that is not ended yet is known to be, so that what  *)
(* comes onto it is found to be mixed.                                     *)
LinesFit ==
  /\ \A i \in DOMAIN log :
       log[i] # Newline /\ LineOf(log, i) = LineOf(log, Len(log)) => log[i].of \in Open
  /\ \A i \in DOMAIN log : log[i] # Newline => Alone(log, i) \/ log[i].of \in mixed

(* What is done, or is to be ended, has been written.                      *)
TextsFit ==
  /\ \A e \in shown : \E i \in DOMAIN log : log[i] = Text(e, TRUE)
  /\ \A p \in Invocation : exec[p].at = "newline" =>
       \E i \in DOMAIN log : log[i] = Text(exec[p].entry, TRUE)
  /\ \A p \in Invocation : exec[p].at # "idle" => exec[p].entry \in Entry

ExecLogInv == ExecLogTypeOK /\ LinesFit /\ TextsFit
-----------------------------------------------------------------------------
(* The exec log: lines                                                     *)

LEMMA TextIsNoNewline ==
  ASSUME NEW e, NEW w PROVE Text(e, w) # Newline
  BY DEF Text, Newline

LEMMA LinesCount ==
  ASSUME NEW s, NEW i \in Nat, NEW k \in Nat, i <= k
  PROVE  /\ IsFiniteSet({j \in 1 .. i : s[j] = Newline})
         /\ LineOf(s, i) \in Nat /\ LineOf(s, i) <= LineOf(s, k)
<1> DEFINE N(n) == {j \in 1 .. n : s[j] = Newline}
<1>1. ASSUME NEW n \in Nat PROVE IsFiniteSet(N(n)) /\ Cardinality(N(n)) \in Nat
  <2>1. IsFiniteSet(1 .. n) /\ N(n) \subseteq 1 .. n
    BY FS_Interval
  <2> QED
    BY <2>1, FS_Subset, FS_CardinalityType
<1>2. N(i) \subseteq N(k)
  OBVIOUS
<1> QED
  BY <1>1, <1>2, FS_Subset, Zenon DEF LineOf

(* What is appended counts for no line before it.                          *)
LEMMA LinesAppend ==
  ASSUME NEW S, NEW s \in Seq(S), NEW e \in S
  PROVE  /\ \A i \in 0 .. Len(s) : LineOf(Append(s, e), i) = LineOf(s, i)
         /\ LineOf(Append(s, e), Len(s) + 1)
              = LineOf(s, Len(s)) + (IF e = Newline THEN 1 ELSE 0)
<1> DEFINE t == Append(s, e)
           N(n) == {j \in 1 .. n : s[j] = Newline}
           T(n) == {j \in 1 .. n : t[j] = Newline}
<1>1. ASSUME NEW i \in 0 .. Len(s) PROVE T(i) = N(i)
  OBVIOUS
<1>2. T(Len(s) + 1) = IF e = Newline THEN N(Len(s)) \cup {Len(s) + 1} ELSE N(Len(s))
  OBVIOUS
<1>3. IsFiniteSet(N(Len(s))) /\ Cardinality(N(Len(s))) \in Nat /\ Len(s) + 1 \notin N(Len(s))
  <2>1. Len(s) \in Nat /\ Len(s) <= Len(s)
    OBVIOUS
  <2>2. IsFiniteSet(N(Len(s))) /\ LineOf(s, Len(s)) \in Nat
    BY <2>1, LinesCount, Zenon
  <2> QED
    BY <2>2 DEF LineOf
<1>4. Cardinality(N(Len(s)) \cup {Len(s) + 1}) = Cardinality(N(Len(s))) + 1
  BY <1>3, FS_AddElement
<1>5. \A i \in 0 .. Len(s) : LineOf(t, i) = LineOf(s, i)
  BY <1>1, Zenon DEF LineOf
<1>6. LineOf(t, Len(s) + 1) = Cardinality(T(Len(s) + 1))
      /\ LineOf(s, Len(s)) = Cardinality(N(Len(s)))
  BY Zenon DEF LineOf
<1> HIDE DEF N, T
<1>7. LineOf(t, Len(s) + 1) = LineOf(s, Len(s)) + (IF e = Newline THEN 1 ELSE 0)
  BY <1>2, <1>3, <1>4, <1>6
<1> QED
  BY <1>5, <1>7

(* An entry that is alone on its line stays so unless a text comes onto    *)
(* that line.                                                              *)
LEMMA AloneAppend ==
  ASSUME NEW S, NEW s \in Seq(S), NEW e \in S, NEW i \in DOMAIN s, Alone(s, i),
         e = Newline \/ LineOf(s, i) # LineOf(s, Len(s))
  PROVE  Alone(Append(s, e), i)
<1> DEFINE t == Append(s, e)
<1>1. \A j \in 0 .. Len(s) : LineOf(t, j) = LineOf(s, j)
  BY LinesAppend
<1>2. e # Newline => LineOf(t, Len(s) + 1) = LineOf(s, Len(s)) + 0
  BY LinesAppend, Zenon
<1>3. LineOf(s, Len(s)) \in Nat
  <2>1. Len(s) \in Nat /\ Len(s) <= Len(s)
    OBVIOUS
  <2> QED
    BY <2>1, LinesCount, Zenon
<1> SUFFICES ASSUME NEW j \in DOMAIN t, LineOf(t, j) = LineOf(t, i), t[j] # Newline
             PROVE  j = i
  BY DEF Alone
<1>4. CASE j \in 1 .. Len(s)
  <2>1. t[j] = s[j] /\ LineOf(s, j) = LineOf(s, i)
    BY <1>1, <1>4
  <2> QED
    BY <1>4, <2>1 DEF Alone
<1>5. CASE j = Len(s) + 1
  <2>1. t[j] = e /\ LineOf(t, i) = LineOf(s, i)
    BY <1>1, <1>5
  <2> QED
    BY <1>2, <1>3, <1>5, <2>1
<1> QED
  BY <1>4, <1>5

(* A text that comes onto the last line mixes with what is open there.     *)
LEMMA TextComes ==
  ASSUME ExecLogTypeOK, LinesFit, NEW e \in Entry, NEW w \in BOOLEAN, Mixing(e),
         log' = Append(log, Text(e, w)), Open' = Open \cup {e}
  PROVE  LinesFit'
<1> DEFINE last == Len(log)
           x == Text(e, w)
<1>1. /\ log \in Seq(Piece) /\ x \in Piece /\ x # Newline /\ x.of = e
      /\ last \in Nat /\ last <= last
  <2>1. log \in Seq(Piece) /\ x \in Piece
    BY DEF ExecLogTypeOK, Piece
  <2>2. x # Newline
    BY TextIsNoNewline, Zenon
  <2>3. x.of = e
    BY DEF Text
  <2> QED
    BY <2>1, <2>2, <2>3
<1>2. LineOf(log, last) \in Nat
  BY <1>1, LinesCount, Zenon
<1>3. \A i \in 0 .. last : LineOf(log', i) = LineOf(log, i)
  BY <1>1, LinesAppend, Zenon
<1>4. LineOf(log', last + 1) = LineOf(log, last)
  <2>1. LineOf(log', last + 1) = LineOf(log, last) + 0
    BY <1>1, LinesAppend, Zenon
  <2> QED
    BY <1>2, <2>1
<1>5. /\ Len(log') = last + 1 /\ DOMAIN log' = 1 .. last + 1 /\ log'[last + 1] = x
      /\ \A i \in 1 .. last : log'[i] = log[i]
      /\ DOMAIN log = 1 .. last
  BY <1>1
<1>6. mixed' = IF Open = {} THEN mixed ELSE mixed \cup Open \cup {e}
  BY Zenon DEF Mixing, Open
<1>7. \A i \in 1 .. last :
        log[i] # Newline /\ LineOf(log, i) = LineOf(log, last) => log[i].of \in Open
  BY <1>5, Zenon DEF LinesFit
<1>8. ASSUME NEW i \in 1 .. last + 1, log'[i] # Newline,
             LineOf(log', i) = LineOf(log', last + 1)
      PROVE  log'[i].of \in Open'
  <2>1. CASE i = last + 1
    BY <1>1, <1>5, <2>1
  <2>2. CASE i \in 1 .. last
    BY <1>3, <1>4, <1>5, <1>7, <1>8, <2>2
  <2> QED
    BY <1>1, <2>1, <2>2
<1>9. ASSUME NEW i \in 1 .. last + 1, log'[i] # Newline
      PROVE  Alone(log', i) \/ log'[i].of \in mixed'
  <2>1. CASE i = last + 1
    <3>1. Open # {} => e \in mixed'
      BY <1>6
    <3>2. Open = {} => Alone(log', i)
      BY <1>3, <1>4, <1>5, <1>7, <2>1 DEF Alone
    <3> QED
      BY <1>1, <1>5, <2>1, <3>1, <3>2
  <2>2. CASE i \in 1 .. last
    <3>1. log'[i] = log[i] /\ (Alone(log, i) \/ log[i].of \in mixed)
      BY <1>5, <1>9, <2>2 DEF LinesFit
    <3>2. mixed \subseteq mixed'
      BY <1>6
    <3>3. CASE LineOf(log, i) = LineOf(log, last)
      BY <1>6, <1>7, <1>9, <2>2, <3>1, <3>2, <3>3
    <3>4. CASE LineOf(log, i) # LineOf(log, last) /\ Alone(log, i)
      BY <1>1, <1>5, <2>2, <3>4, AloneAppend, Zenon
    <3> QED
      BY <3>1, <3>2, <3>3, <3>4
  <2> QED
    BY <1>1, <2>1, <2>2
<1> QED
  BY <1>5, <1>8, <1>9, Zenon DEF LinesFit

(* A newline ends whatever is on the last line.                            *)
LEMMA NewlineComes ==
  ASSUME ExecLogTypeOK, LinesFit, log' = Append(log, Newline), mixed' = mixed
  PROVE  LinesFit'
<1> DEFINE last == Len(log)
<1>1. log \in Seq(Piece) /\ Newline \in Piece /\ last \in Nat /\ last <= last
  BY DEF ExecLogTypeOK, Piece
<1>2. \A i \in 0 .. last : LineOf(log', i) = LineOf(log, i)
  BY <1>1, LinesAppend, Zenon
<1>3. LineOf(log', last + 1) = LineOf(log, last) + 1
  BY <1>1, LinesAppend, Zenon
<1>4. /\ Len(log') = last + 1 /\ DOMAIN log' = 1 .. last + 1 /\ log'[last + 1] = Newline
      /\ \A i \in 1 .. last : log'[i] = log[i]
      /\ DOMAIN log = 1 .. last
  BY <1>1
<1>5. ASSUME NEW i \in 1 .. last PROVE LineOf(log', i) # LineOf(log', last + 1)
  <2>1. i \in Nat /\ i <= last
    BY <1>1
  <2>2. LineOf(log, i) \in Nat /\ LineOf(log, last) \in Nat
        /\ LineOf(log, i) <= LineOf(log, last)
    BY <1>1, <2>1, LinesCount, Zenon
  <2>3. LineOf(log', i) = LineOf(log, i)
    BY <1>1, <1>2
  <2> QED
    BY <1>3, <2>2, <2>3
<1>6. ASSUME NEW i \in 1 .. last + 1, log'[i] # Newline
      PROVE  /\ LineOf(log', i) # LineOf(log', last + 1)
             /\ Alone(log', i) \/ log'[i].of \in mixed'
  <2>1. i \in 1 .. last
    BY <1>1, <1>4, <1>6
  <2>2. log'[i] = log[i] /\ (Alone(log, i) \/ log[i].of \in mixed)
    BY <1>4, <1>6, <2>1 DEF LinesFit
  <2>3. Alone(log, i) => Alone(log', i)
    BY <1>1, <1>4, <2>1, AloneAppend, Zenon
  <2> QED
    BY <1>5, <2>1, <2>2, <2>3
<1> QED
  BY <1>4, <1>6, Zenon DEF LinesFit
-----------------------------------------------------------------------------
(* The exec log: a step                                                    *)

LEMMA ExecLogStart == ExecLogInit => ExecLogInv
  BY MaxExecsAssumption DEF ExecLogInit, ExecLogInv, ExecLogTypeOK, LinesFit, TextsFit

LEMMA ExecMoves ==
  ASSUME ExecLogTypeOK, NEW p \in Invocation, NEW a, NEW b, ExecGoes(p, a, b)
  PROVE  /\ exec[p].at = a /\ exec'[p].at = b
         /\ exec'[p].entry = IF b = "idle" THEN 0 ELSE exec[p].entry
         /\ \A q \in Invocation : q # p => exec'[q] = exec[q]
  BY DEF ExecGoes, ExecLogTypeOK

(* Types.                                                                  *)
LEMMA ExecLogTyped ==
  ASSUME ExecLogInv, NEW p \in Invocation,
         \/ RunCommand(p) \/ Answered(p) \/ NotAnswered(p)
         \/ AppendText(p) \/ AppendNewline(p) \/ AppendFails(p) \/ ExecKilled(p)
  PROVE  ExecLogTypeOK'
<1> DEFINE E == exec[p].entry
<1>1. exec[p].at # "idle" => E \in Entry
  BY DEF ExecLogInv, TextsFit
<1>2. \A w \in BOOLEAN : E \in Entry => Append(log, Text(E, w)) \in Seq(Piece)
  BY DEF ExecLogInv, ExecLogTypeOK, Piece
<1>3. Append(log, Newline) \in Seq(Piece)
  BY DEF ExecLogInv, ExecLogTypeOK, Piece
<1>4. Open \subseteq Entry /\ mixed \subseteq Entry /\ log \in Seq(Piece)
  BY DEF ExecLogInv, ExecLogTypeOK, TextsFit, Open, Piece
<1>5. E \in Entry /\ Mixing(E) => mixed' \subseteq Entry
  <2>1. Mixing(E) => mixed' = IF Open = {} THEN mixed ELSE mixed \cup Open \cup {E}
    BY Zenon DEF Mixing, Open
  <2> QED
    BY <1>4, <2>1
<1>6. ExecLogTypeOK
  BY DEF ExecLogInv
<1>7. CASE RunCommand(p)
  BY <1>6, <1>7, MaxExecsAssumption DEF RunCommand, ExecLogTypeOK, Entry
<1>8. CASE Answered(p) \/ NotAnswered(p) \/ ExecKilled(p)
  BY <1>1, <1>6, <1>8, MaxExecsAssumption DEF Answered, NotAnswered, ExecKilled, ExecGoes,
    ExecLogTypeOK, Entry
<1>9. CASE AppendNewline(p)
  BY <1>1, <1>3, <1>6, <1>9, MaxExecsAssumption DEF AppendNewline, ExecGoes, ExecLogTypeOK,
    Piece, Entry
<1>10. CASE AppendText(p) \/ AppendFails(p)
  <2>1. /\ \E b \in {"idle", "newline"} : ExecGoes(p, "append", b) \/ ExecGoes(p, "newline", b)
        /\ \/ \E w \in BOOLEAN : log' = Append(log, Text(E, w)) /\ Mixing(E)
           \/ log' = log /\ mixed' = mixed
        /\ execs' = execs /\ shown' = shown /\ cut' \in {cut, cut \cup {E}}
    BY <1>10 DEF AppendText, AppendFails
  <2>2. exec[p].at # "idle" /\ exec'[p].at \in {"idle", "newline"}
    BY <1>6, <2>1 DEF ExecGoes, ExecLogTypeOK
  <2>3. log' \in Seq(Piece) /\ mixed' \subseteq Entry /\ E \in Entry
    BY <1>1, <1>2, <1>4, <1>5, <2>1, <2>2
  <2>4. exec' \in [Invocation -> [at : {"idle", "running", "append", "newline"},
                                 entry : 0 .. MaxExecs]]
    BY <1>6, <2>1, MaxExecsAssumption DEF ExecGoes, ExecLogTypeOK
  <2>5. execs' \in 0 .. MaxExecs /\ shown' \subseteq Entry /\ cut' \subseteq Entry
    BY <1>6, <2>1, <2>3 DEF ExecLogTypeOK
  <2> QED
    BY <2>3, <2>4, <2>5 DEF ExecLogTypeOK, Piece
<1> QED
  BY <1>7, <1>8, <1>9, <1>10

(* Lines: a text comes onto the last line and is open there, a newline     *)
(* ends it, and nothing else takes an entry off the open ones.             *)
LEMMA LinesStep ==
  ASSUME ExecLogInv, NEW p \in Invocation,
         \/ RunCommand(p) \/ Answered(p) \/ NotAnswered(p)
         \/ AppendText(p) \/ AppendNewline(p) \/ AppendFails(p) \/ ExecKilled(p)
  PROVE  LinesFit'
<1> DEFINE E == exec[p].entry
           Quiet == log' = log /\ mixed' = mixed /\ Open \subseteq Open'
           Comes(w) == log' = Append(log, Text(E, w)) /\ Mixing(E) /\ Open' = Open \cup {E}
<1>1. ExecLogTypeOK /\ LinesFit
  BY DEF ExecLogInv
<1>2. exec[p].at # "idle" => E \in Entry
  BY DEF ExecLogInv, TextsFit
<1>3. Quiet => LinesFit'
  BY <1>1 DEF LinesFit, Alone, LineOf
<1>4. ASSUME NEW w \in BOOLEAN, Comes(w), exec[p].at # "idle" PROVE LinesFit'
  BY <1>1, <1>2, <1>4, TextComes
<1>5. CASE RunCommand(p) \/ Answered(p) \/ NotAnswered(p)
  <2>1. Quiet
    BY <1>1, <1>5 DEF RunCommand, Answered, NotAnswered, ExecGoes, ExecLogTypeOK, Open
  <2> QED
    BY <1>3, <2>1
<1>6. CASE AppendText(p)
  <2>1. exec[p].at = "append" /\ Comes(TRUE)
    BY <1>1, <1>6 DEF AppendText, ExecGoes, ExecLogTypeOK, Open
  <2> QED
    BY <1>4, <2>1
<1>7. CASE AppendNewline(p)
  BY <1>1, <1>7, NewlineComes DEF AppendNewline
<1>8. CASE AppendFails(p)
  <2>1. CASE ExecGoes(p, "append", "idle")
    <3>1. /\ log' = Append(log, Text(E, FALSE)) /\ Mixing(E)
          /\ cut' = cut \cup {E} /\ exec[p].at = "append"
      BY <1>8, <2>1 DEF AppendFails, ExecGoes
    <3>2. Open' = Open \cup {E}
      BY <1>1, <2>1, <3>1 DEF ExecGoes, ExecLogTypeOK, Open
    <3> QED
      BY <1>4, <3>1, <3>2
  <2>2. CASE ExecGoes(p, "newline", "idle")
    <3>1. log' = log /\ mixed' = mixed /\ cut' = cut \cup {E}
      BY <1>8, <2>2 DEF AppendFails, ExecGoes
    <3>2. Open \subseteq Open'
      BY <1>1, <2>2, <3>1 DEF ExecGoes, ExecLogTypeOK, Open
    <3> QED
      BY <1>3, <3>1, <3>2
  <2> QED
    BY <1>8, <2>1, <2>2, Zenon DEF AppendFails
<1>9. CASE ExecKilled(p)
  <2>1. Quiet
    BY <1>1, <1>9 DEF ExecKilled, ExecGoes, ExecLogTypeOK, Open
  <2> QED
    BY <1>3, <2>1
<1> QED
  BY <1>5, <1>6, <1>7, <1>8, <1>9

(* Texts: nothing is ever taken out of the log.                            *)
LEMMA TextsStep ==
  ASSUME ExecLogInv, NEW p \in Invocation,
         \/ RunCommand(p) \/ Answered(p) \/ NotAnswered(p)
         \/ AppendText(p) \/ AppendNewline(p) \/ AppendFails(p) \/ ExecKilled(p)
  PROVE  TextsFit'
<1> DEFINE E == exec[p].entry
<1>1. ExecLogTypeOK /\ TextsFit
  BY DEF ExecLogInv
<1>2. \A x : \A i \in DOMAIN log :
        i \in DOMAIN Append(log, x) /\ Append(log, x)[i] = log[i]
  BY <1>1 DEF ExecLogTypeOK
<1>3. \A x : \E i \in DOMAIN Append(log, x) : Append(log, x)[i] = x
  <2>1. \A x : Len(log) + 1 \in DOMAIN Append(log, x) /\ Append(log, x)[Len(log) + 1] = x
    BY <1>1 DEF ExecLogTypeOK
  <2> QED
    BY <2>1
<1>4. \A i \in DOMAIN log : i \in DOMAIN log' /\ log'[i] = log[i]
  BY <1>2 DEF RunCommand, Answered, NotAnswered, AppendText, AppendNewline, AppendFails,
    ExecKilled
<1>5. shown' \subseteq shown \cup (IF exec[p].at = "newline" THEN {E} ELSE {})
  BY <1>1 DEF RunCommand, Answered, NotAnswered, AppendText, AppendNewline, AppendFails,
    ExecKilled, ExecGoes
<1>6. \A q \in Invocation : q # p => exec'[q] = exec[q]
  <2>1. \A a, b : ExecGoes(p, a, b) => \A q \in Invocation : q # p => exec'[q] = exec[q]
    BY <1>1, ExecMoves
  <2>2. RunCommand(p) => \A q \in Invocation : q # p => exec'[q] = exec[q]
    BY <1>1 DEF RunCommand, ExecLogTypeOK
  <2> QED
    BY <2>1, <2>2, Zenon DEF Answered, NotAnswered, AppendText, AppendNewline, AppendFails,
      ExecKilled
<1>7. exec'[p].at = "newline" =>
        exec'[p].entry = E /\ \E i \in DOMAIN log' : log'[i] = Text(E, TRUE)
  <2>1. exec'[p].at = "newline" => AppendText(p)
    <3>1. RunCommand(p) => exec'[p].at = "running"
      BY <1>1 DEF RunCommand, ExecLogTypeOK
    <3>2. ASSUME NEW a, NEW b \in {"append", "idle"}, ExecGoes(p, a, b)
          PROVE  exec'[p].at # "newline"
      BY <1>1, <3>2, ExecMoves
    <3> QED
      BY <3>1, <3>2 DEF Answered, NotAnswered, AppendNewline, AppendFails, ExecKilled
  <2>2. AppendText(p) => exec'[p].entry = E /\ log' = Append(log, Text(E, TRUE))
    BY <1>1, ExecMoves DEF AppendText
  <2> QED
    BY <1>3, <2>1, <2>2
<1>8. exec'[p].at # "idle" => exec'[p].entry \in Entry
  <2>1. RunCommand(p) => exec'[p].entry \in Entry
    BY <1>1, MaxExecsAssumption DEF RunCommand, ExecLogTypeOK, Entry
  <2>2. ASSUME NEW a, NEW b, ExecGoes(p, a, b), a # "idle"
        PROVE  exec'[p].at # "idle" => exec'[p].entry \in Entry
    BY <1>1, <2>2, ExecMoves DEF TextsFit
  <2> QED
    BY <2>1, <2>2 DEF Answered, NotAnswered, AppendText, AppendNewline, AppendFails,
      ExecKilled
<1>9. \A e : (\E i \in DOMAIN log : log[i] = Text(e, TRUE)) =>
             \E i \in DOMAIN log' : log'[i] = Text(e, TRUE)
  BY <1>4
<1>10. \A e \in shown' : \E i \in DOMAIN log : log[i] = Text(e, TRUE)
  BY <1>1, <1>5 DEF TextsFit
<1>11. \A e \in shown' : \E i \in DOMAIN log' : log'[i] = Text(e, TRUE)
  BY <1>9, <1>10, Zenon
<1>12. ASSUME NEW q \in Invocation
       PROVE  /\ exec'[q].at = "newline" =>
                   \E i \in DOMAIN log' : log'[i] = Text(exec'[q].entry, TRUE)
              /\ exec'[q].at # "idle" => exec'[q].entry \in Entry
  <2>1. CASE q = p
    BY <1>7, <1>8, <2>1, Zenon
  <2>2. CASE q # p
    BY <1>1, <1>6, <1>9, <2>2, Zenon DEF TextsFit
  <2> QED
    BY <2>1, <2>2
<1> QED
  BY <1>11, <1>12, Zenon DEF TextsFit

(* Nothing is lost of what concurrent execs write, and what they mix is    *)
(* known, whatever kills and full disks come between (execlog/logger.rs).  *)
THEOREM ExecLogInvariance == ExecLogSpec => []ExecLogInv
<1>1. ExecLogInit => ExecLogInv
  BY ExecLogStart
<1>2. ExecLogInv /\ [ExecLogNext]_execVars => ExecLogInv'
  <2> SUFFICES ASSUME ExecLogInv, [ExecLogNext]_execVars PROVE ExecLogInv'
    OBVIOUS
  <2>1. CASE ExecLogNext
    BY <2>1, ExecLogTyped, LinesStep, TextsStep DEF ExecLogNext, ExecLogInv
  <2>2. CASE UNCHANGED execVars
    <3>1. /\ log' = log /\ exec' = exec /\ execs' = execs /\ shown' = shown
          /\ cut' = cut /\ mixed' = mixed
      BY <2>2 DEF execVars
    <3>2. ExecLogTypeOK'
      BY <3>1 DEF ExecLogInv, ExecLogTypeOK
    <3>3. TextsFit'
      BY <3>1 DEF ExecLogInv, TextsFit
    <3>4. Open' = Open
      BY <3>1 DEF Open
    <3>5. LinesFit'
      BY <3>1, <3>4, Zenon DEF ExecLogInv, LinesFit, Alone, LineOf
    <3> QED
      BY <3>2, <3>3, <3>5 DEF ExecLogInv
  <2> QED
    BY <2>1, <2>2
<1> QED
  BY <1>1, <1>2, PTL DEF ExecLogSpec

(* What exec reported a success is shown by logs, unless another entry     *)
(* came onto its line (logger.rs:43).                                      *)
THEOREM LogKeepsWhatIsShown == ExecLogSpec => []ShownIsLogged
<1>1. ExecLogInv => ShownIsLogged
  <2> SUFFICES ASSUME ExecLogInv, NEW e \in shown, e \notin mixed
               PROVE  e \in Entries
    BY DEF ShownIsLogged
  <2>1. PICK i \in DOMAIN log : log[i] = Text(e, TRUE)
    BY DEF ExecLogInv, TextsFit
  <2>2. log[i] # Newline /\ log[i].of = e /\ log[i].whole
    BY <2>1 DEF Text, Newline
  <2>3. Alone(log, i)
    BY <2>2 DEF ExecLogInv, LinesFit
  <2> QED
    BY <2>2, <2>3, Zenon DEF Entries, Alone, LineOf
<1> QED
  BY <1>1, ExecLogInvariance, PTL
-----------------------------------------------------------------------------
(* Images: the invariant                                                   *)

(* Only a virtual machine goes through what is made for it.                *)
KindsFit ==
  \A p \in Invocation :
    /\ build[p].kind = "none" <=> build[p].at = "idle"
    /\ build[p].kind = "container" => build[p].at \in {"checkBase", "use"} \cup BaseWork
    /\ build[p].flawed => build[p].at \in {"inject", "umount", "use"}

(* One invocation at most writes it, and then nobody relies on it.         *)
Sound(a) ==
  /\ ~Met(a)
  /\ stock[a] = "part" => \E p \in Invocation : WorksOn(p, a)
  /\ \A p \in Invocation : ReliesOn(p, a) => stock[a] = "whole"
  /\ \A p \in Invocation : WorksOn(p, a) => stock[a] # "whole"

BaseFits ==
  /\ Sound("base")
  /\ \A p \in Invocation :
       /\ build[p].at \in BaseWork => maker["base"] = p
       /\ build[p].at = "fixups" => stock["base"] = "part"

(* What is moved to its place is complete.                                 *)
VmmFits ==
  /\ Sound("vmm")
  /\ stock["vmm"] # "part"
  /\ \A p \in Invocation :
       /\ build[p].at \in VmmWork => unpacked.by = p
       /\ build[p].at = "moveVmm" => unpacked.whole

KernelFits ==
  /\ Sound("kernel")
  /\ \A p \in Invocation : build[p].at = "fetchKernel" => maker["kernel"] = p

AgentFits ==
  /\ Sound("agent")
  /\ \A p \in Invocation : build[p].at = "copyAgent" => maker["agent"] = p

(* From dd on the file is there, and what is copied goes to it.            *)
Converting == Ext4Work \ {"dd"}

Ext4Fits ==
  /\ Sound("ext4")
  /\ \A p \in Invocation :
       /\ WorksOn(p, "ext4") /\ build[p].at \notin Converting => stock["ext4"] = "none"
       /\ build[p].at \in Converting => maker["ext4"] = p
       /\ build[p].at \in Filling \cup {"umount", "discard"} => OwnMount(p)
       /\ build[p].at \in Ext4Work => ~build[p].flawed

ImagesInv ==
  /\ ImagesTypeOK
  /\ KindsFit
  /\ "base" \in spoiled \/ BaseFits
  /\ "vmm" \in spoiled \/ VmmFits
  /\ "kernel" \in spoiled \/ KernelFits
  /\ "agent" \in spoiled \/ AgentFits
  /\ "ext4" \in spoiled \/ Ext4Fits

(* A step, and what of it nobody cleans up after.                          *)
ImagesStep(p, more) ==
  \/ (StartBuild(p) \/ ImagesOrderly(p)) /\ more = {}
  \/ FixupsFail(p) /\ more = {"base"}
  \/ KernelFails(p) /\ more = {"kernel"}
  \/ AgentFails(p) /\ more = {"agent"}
  \/ (ConversionAborts(p) \/ InjectFails(p)) /\ more = {"ext4"}
  \/ BuildKilled(p) /\ more = Interrupted(p)
-----------------------------------------------------------------------------
(* Images: spoiling                                                        *)

(* What is not spoiled either has nobody at work on it or relying on it,   *)
(* or has not been, and nothing just spoiled it.                           *)
LEMMA Unspoiled ==
  ASSUME ImagesTypeOK, NEW more \in SUBSET Artifact, Spoiling(more)
  PROVE  /\ spoiled' \subseteq Artifact
         /\ \A a \in Artifact \ spoiled' :
              \/ /\ stock'[a] # "part"
                 /\ \A p \in Invocation : ~(WorksOn(p, a) \/ ReliesOn(p, a))'
              \/ a \notin spoiled \cup more /\ ~Met(a)'
         /\ "ext4" \notin spoiled' =>
              \/ \A p \in Invocation : ~WorksOn(p, "ext4")'
              \/ "base" \notin spoiled /\ "agent" \notin spoiled
              \/ \A p \in Invocation : build[p].at \notin Ext4Work
<1> DEFINE left == spoiled \cup more \cup {a \in Artifact : Met(a)'}
           busy == \E p \in Invocation : build[p].at \in Ext4Work
           made == IF {"base", "agent"} \cap left # {} /\ busy THEN {"ext4"} ELSE {}
           free(a) == \A p \in Invocation : ~(WorksOn(p, a) \/ ReliesOn(p, a))'
           healed == {a \in Artifact : stock'[a] \in {"none", "bare", "whole"} /\ free(a)}
<1>1. spoiled' = (left \cup made) \ healed
  BY Zenon DEF Spoiling
<1>2. spoiled \subseteq Artifact /\ "ext4" \in Artifact
  BY DEF ImagesTypeOK, Artifact
<1>3. left \subseteq Artifact
  BY <1>2
<1>4. ASSUME NEW a \in Artifact \ spoiled'
      PROVE  \/ stock'[a] # "part" /\ free(a)
             \/ a \notin spoiled \cup more /\ ~Met(a)'
  <2>1. a \in healed \/ a \notin left
    BY <1>1, <1>4
  <2> HIDE DEF free
  <2> QED
    BY <2>1
<1>5. "ext4" \notin spoiled' => "ext4" \in healed \/ made = {}
  BY <1>1
<1>6. "ext4" \in healed => \A p \in Invocation : ~WorksOn(p, "ext4")'
  BY Zenon
<1>7. made = {} => ("base" \notin spoiled /\ "agent" \notin spoiled) \/ ~busy
  OBVIOUS
<1> QED
  <2>1. spoiled' \subseteq Artifact
    BY <1>1, <1>2, <1>3
  <2> HIDE DEF made, healed, left
  <2> QED
    BY <1>4, <1>5, <1>6, <1>7, <2>1, Zenon

(* An artifact nobody works on or relies on is sound.                      *)
LEMMA FreeIsSound ==
  ASSUME NEW a, stock'[a] # "part",
         \A p \in Invocation : ~(WorksOn(p, a) \/ ReliesOn(p, a))'
  PROVE  Sound(a)'
  BY DEF Sound, Met

LEMMA FreeFits ==
  ASSUME NEW a, stock'[a] # "part",
         \A p \in Invocation : ~(WorksOn(p, a) \/ ReliesOn(p, a))'
  PROVE  /\ a = "base" => BaseFits'
         /\ a = "vmm" => VmmFits'
         /\ a = "kernel" => KernelFits'
         /\ a = "agent" => AgentFits'
         /\ a = "ext4" /\ ImagesTypeOK' /\ KindsFit' => Ext4Fits'
<1>1. Sound(a)'
  BY FreeIsSound
<1>2. a = "base" => BaseFits'
  BY <1>1 DEF BaseFits, WorksOn, BaseWork
<1>3. a = "vmm" => VmmFits'
  BY <1>1 DEF VmmFits, WorksOn, VmmWork
<1>4. a = "kernel" => KernelFits'
  BY <1>1 DEF KernelFits, WorksOn
<1>5. a = "agent" => AgentFits'
  BY <1>1 DEF AgentFits, WorksOn
<1>6. a = "ext4" /\ ImagesTypeOK' /\ KindsFit' => Ext4Fits'
  <2> SUFFICES ASSUME a = "ext4", ImagesTypeOK', KindsFit' PROVE Ext4Fits'
    OBVIOUS
  <2>1. \A p \in Invocation : build'[p].at \notin Ext4Work
    BY DEF WorksOn, ImagesTypeOK, KindsFit, Ext4Work, Filling, BaseWork
  <2> QED
    BY <1>1, <2>1 DEF Ext4Fits, Ext4Work, Filling, Converting
<1> QED
  BY <1>2, <1>3, <1>4, <1>5, <1>6
-----------------------------------------------------------------------------
(* Images: types                                                           *)

DiskTyped ==
  /\ stock \in [Artifact -> {"none", "bare", "part", "whole"}]
  /\ \A a \in Artifact \ {"base"} : stock[a] # "bare"
  /\ maker \in [Artifact -> Invocation \cup {NoOne}]
  /\ unpacked \in [by : Invocation \cup {NoOne}, whole : BOOLEAN]
  /\ mnt \in Seq(Invocation \cup {NoOne})

BuildTyped == build \in [Invocation -> [kind : {"none", "container", "vm"},
                                        at : BuildPoints, flawed : BOOLEAN]]

(* How p goes on, and nobody else.                                         *)
BuildMoves(p) ==
  \/ \E a, b \in BuildPoints : BuildGoes(p, a, b)
  \/ \E k \in {"container", "vm"}, b \in {"checkBase", "checkVmm"} :
       build' = [build EXCEPT ![p] = [kind |-> k, at |-> b, flawed |-> FALSE]]
  \/ \E f \in BOOLEAN, b \in {"inject", "umount"} :
       build' = [build EXCEPT ![p] = [@ EXCEPT !.at = b, !.flawed = f]]
  \/ build' = build

LEMMA StepGoes ==
  ASSUME ImagesTypeOK, NEW p \in Invocation, NEW more, ImagesStep(p, more)
  PROVE  BuildMoves(p)
<1> USE DEF BuildMoves, BuildPoints, BaseWork, VmmWork, AgentWork, Ext4Work, Filling
<1>1. CASE StartBuild(p)
  BY <1>1 DEF StartBuild
<1>2. CASE \/ UseArtifacts(p) \/ CheckBase(p) \/ BaseGrows(p) \/ BaseUnpacked(p)
           \/ DownloadFails(p) \/ NoDebootstrap(p) \/ DebootstrapFails(p) \/ ApplyFixups(p)
  BY <1>2 DEF UseArtifacts, CheckBase, BaseGrows, BaseUnpacked, DownloadFails, NoDebootstrap,
    DebootstrapFails, ApplyFixups, AfterBase
<1>3. CASE \/ CheckVmm(p) \/ VmmUnpacked(p) \/ VmmFails(p) \/ MoveVmm(p)
           \/ CheckKernel(p) \/ KernelFetched(p) \/ CheckExt4(p)
  BY <1>3 DEF CheckVmm, VmmUnpacked, VmmFails, MoveVmm, CheckKernel, KernelFetched, CheckExt4
<1>4. CASE \/ CheckAgent(p) \/ AgentCopied(p) \/ WriteZeroes(p) \/ MakeFs(p) \/ MountExt4(p)
           \/ ConversionFails(p) \/ CopyFails(p) \/ Unmount(p) \/ Discard(p)
  BY <1>4 DEF CheckAgent, AgentCopied, WriteZeroes, MakeFs, MountExt4, ConversionFails,
    CopyFails, Unmount, Discard
<1>5. CASE CopyBase(p) \/ InjectAgent(p) \/ InjectFails(p)
  <2>1. \A a, b, ok : Fills(p, a, b, ok) =>
          build' = [build EXCEPT ![p] = [@ EXCEPT !.at = b, !.flawed = build[p].flawed \/ ~ok]]
    BY DEF Fills
  <2> QED
    BY <1>5, <2>1 DEF CopyBase, InjectAgent, InjectFails
<1>6. CASE FixupsFail(p) \/ KernelFails(p) \/ AgentFails(p) \/ ConversionAborts(p)
  BY <1>6 DEF FixupsFail, KernelFails, AgentFails, ConversionAborts
<1>7. CASE BuildKilled(p)
  BY <1>7 DEF BuildKilled, BuildGoes, ImagesTypeOK
<1> QED
  BY <1>1, <1>2, <1>3, <1>4, <1>5, <1>6, <1>7 DEF ImagesStep, ImagesOrderly

LEMMA GoesAlone ==
  ASSUME ImagesTypeOK, NEW p \in Invocation, BuildMoves(p)
  PROVE  BuildTyped' /\ \A q \in Invocation : q # p => build'[q] = build[q]
<1> USE DEF ImagesTypeOK, BuildTyped
<1>1. ASSUME NEW a, NEW b \in BuildPoints, BuildGoes(p, a, b)
      PROVE  BuildTyped' /\ \A q \in Invocation : q # p => build'[q] = build[q]
  BY <1>1 DEF BuildGoes, NotBuilding, BuildPoints
<1>2. ASSUME NEW k \in {"container", "vm"}, NEW b \in {"checkBase", "checkVmm"},
             build' = [build EXCEPT ![p] = [kind |-> k, at |-> b, flawed |-> FALSE]]
      PROVE  BuildTyped' /\ \A q \in Invocation : q # p => build'[q] = build[q]
  <2>1. b \in BuildPoints
    BY DEF BuildPoints
  <2> QED
    BY <1>2, <2>1
<1>3. ASSUME NEW f \in BOOLEAN, NEW b \in {"inject", "umount"},
             build' = [build EXCEPT ![p] = [@ EXCEPT !.at = b, !.flawed = f]]
      PROVE  BuildTyped' /\ \A q \in Invocation : q # p => build'[q] = build[q]
  <2>1. b \in BuildPoints
    BY DEF BuildPoints, Ext4Work, Filling
  <2> QED
    BY <1>3, <2>1
<1>4. CASE build' = build
  BY <1>4
<1> QED
  BY <1>1, <1>2, <1>3, <1>4 DEF BuildMoves

(* What is written into the image leaves the rest of the disk alone.       *)
LEMMA FillingGoes ==
  ASSUME ImagesTypeOK, NEW p \in Invocation, CopyBase(p) \/ InjectAgent(p) \/ InjectFails(p)
  PROVE  /\ UNCHANGED Disk
         /\ build[p].at \in Filling
         /\ build'[p].at \in {"inject", "umount"}
         /\ build'[p].kind = build[p].kind
<1>1. \A a, b, ok : Fills(p, a, b, ok) =>
        /\ build[p].at = a
        /\ build'[p].at = b
        /\ build'[p].kind = build[p].kind
        /\ UNCHANGED Disk
  BY DEF Fills, ImagesTypeOK
<1> QED
  BY <1>1 DEF CopyBase, InjectAgent, InjectFails, Filling

LEMMA BeginsTyped ==
  ASSUME DiskTyped, NEW p \in Invocation, NEW a \in Artifact, NEW level \in {"bare", "part"},
         level = "bare" => a = "base", Begins(p, a, level), UNCHANGED <<unpacked, mnt>>
  PROVE  DiskTyped'
  BY DEF DiskTyped, Begins

LEMMA BecomesTyped ==
  ASSUME DiskTyped, NEW a \in Artifact, NEW level \in {"none", "bare", "part", "whole"},
         level = "bare" => a = "base", Becomes(a, level)
  PROVE  /\ stock' \in [Artifact -> {"none", "bare", "part", "whole"}]
         /\ \A b \in Artifact \ {"base"} : stock'[b] # "bare"
         /\ maker' \in [Artifact -> Invocation \cup {NoOne}]
  BY DEF DiskTyped, Becomes

LEMMA LeavesTyped ==
  ASSUME DiskTyped, NEW p, Leaves(p)
  PROVE  DiskTyped'
<1>1. mnt' \in Seq(Invocation \cup {NoOne})
  BY DEF DiskTyped, Leaves
<1>2. maker' \in [Artifact -> Invocation \cup {NoOne}]
  BY DEF DiskTyped, Leaves
<1> QED
  BY <1>1, <1>2 DEF DiskTyped, Leaves

LEMMA UnmountsTyped ==
  ASSUME DiskTyped, NEW p, Unmounts(p)
  PROVE  mnt' \in Seq(Invocation \cup {NoOne})
  BY DEF DiskTyped, Unmounts, Front

LEMMA DiskStaysTyped ==
  ASSUME ImagesTypeOK, NEW p \in Invocation, NEW more, ImagesStep(p, more)
  PROVE  DiskTyped'
<1>1. DiskTyped
  BY DEF ImagesTypeOK, DiskTyped
<1> USE <1>1
<1>2. CASE UNCHANGED Disk
  BY <1>2 DEF Disk, DiskTyped
<1>3. CASE Leaves(p)
  BY <1>3, LeavesTyped
<1>4. ASSUME NEW a \in Artifact, NEW level \in {"bare", "part"}, level = "bare" => a = "base",
             Begins(p, a, level), UNCHANGED <<unpacked, mnt>>
      PROVE  DiskTyped'
  BY <1>4, BeginsTyped
<1>5. ASSUME NEW a \in Artifact, NEW level \in {"none", "bare", "part", "whole"},
             level = "bare" => a = "base", Becomes(a, level), unpacked' = unpacked,
             mnt' = mnt \/ Unmounts(p)
      PROVE  DiskTyped'
  <2>1. mnt' \in Seq(Invocation \cup {NoOne})
    BY <1>5, UnmountsTyped DEF DiskTyped
  <2> QED
    BY <1>5, <2>1, BecomesTyped DEF DiskTyped
<1>6. CASE CheckVmm(p)
  BY <1>6 DEF CheckVmm, DiskTyped
<1>7. CASE VmmUnpacked(p)
  BY <1>7 DEF VmmUnpacked, DiskTyped
<1>8. CASE MoveVmm(p)
  <2>1. CASE unpacked.by # NoOne /\ maker' = [maker EXCEPT !["vmm"] = unpacked.by]
    <3>1. maker' \in [Artifact -> Invocation \cup {NoOne}] /\ mnt' = mnt
      BY <1>2, <1>8, <2>1 DEF MoveVmm, DiskTyped
    <3>2. /\ stock' \in [Artifact -> {"none", "bare", "part", "whole"}]
          /\ \A a \in Artifact \ {"base"} : stock'[a] # "bare"
          /\ unpacked' = NothingUnpacked
      BY <1>8, <2>1 DEF MoveVmm, DiskTyped
    <3> QED
      BY <3>1, <3>2 DEF DiskTyped, NothingUnpacked
  <2> QED
    BY <1>2, <1>8, <2>1 DEF MoveVmm
<1>9. CASE MountExt4(p)
  BY <1>9 DEF MountExt4, DiskTyped
<1>10. CASE CheckBase(p) \/ DownloadFails(p)
  BY <1>2, <1>4, <1>10 DEF CheckBase, DownloadFails, Artifact
<1>11. CASE CheckKernel(p) \/ CheckAgent(p) \/ WriteZeroes(p)
  BY <1>2, <1>4, <1>11 DEF CheckKernel, CheckAgent, WriteZeroes, Artifact
<1>12. CASE BaseGrows(p) \/ DebootstrapFails(p) \/ ConversionFails(p) \/ Discard(p)
  BY <1>5, <1>12 DEF BaseGrows, DebootstrapFails, ConversionFails, Discard, Artifact
<1>13. CASE ApplyFixups(p)
  <2>1. (IF maker["base"] = p THEN "whole" ELSE stock["base"])
          \in {"none", "bare", "part", "whole"}
    BY DEF DiskTyped, Artifact
  <2> QED
    BY <1>5, <1>13, <2>1 DEF ApplyFixups, Artifact
<1>14. ASSUME NEW a \in Artifact \ {"base"}, NEW c \in BOOLEAN,
              Becomes(a, IF c THEN "whole" ELSE stock[a]), unpacked' = unpacked,
              mnt' = mnt \/ Unmounts(p)
       PROVE  DiskTyped'
  <2>1. (IF c THEN "whole" ELSE stock[a]) \in {"none", "part", "whole"}
    BY DEF DiskTyped, Artifact
  <2> QED
    BY <1>5, <1>14, <2>1
<1>15. CASE KernelFetched(p) \/ AgentCopied(p) \/ Unmount(p)
  <2>1. KernelFetched(p) => \E c \in BOOLEAN :
          Becomes("kernel", IF c THEN "whole" ELSE stock["kernel"]) /\ UNCHANGED <<unpacked, mnt>>
    BY DEF KernelFetched
  <2>2. AgentCopied(p) => \E c \in BOOLEAN :
          Becomes("agent", IF c THEN "whole" ELSE stock["agent"]) /\ UNCHANGED <<unpacked, mnt>>
    BY DEF AgentCopied
  <2>3. Unmount(p) => /\ \E c \in BOOLEAN : Becomes("ext4", IF c THEN "whole" ELSE stock["ext4"])
                      /\ unpacked' = unpacked /\ Unmounts(p)
    BY DEF Unmount
  <2> QED
    BY <1>14, <1>15, <2>1, <2>2, <2>3 DEF Artifact
<1>16. CASE \/ StartBuild(p) \/ BaseUnpacked(p) \/ NoDebootstrap(p) \/ CheckExt4(p) \/ MakeFs(p)
            \/ CopyBase(p) \/ CopyFails(p) \/ InjectAgent(p) \/ InjectFails(p)
  BY <1>2, <1>16 DEF StartBuild, BaseUnpacked, NoDebootstrap, CheckExt4, MakeFs, CopyBase,
    CopyFails, InjectAgent, InjectFails, Fills
<1>17. CASE \/ UseArtifacts(p) \/ VmmFails(p) \/ FixupsFail(p) \/ KernelFails(p) \/ AgentFails(p)
            \/ ConversionAborts(p) \/ BuildKilled(p)
  BY <1>3, <1>17 DEF UseArtifacts, VmmFails, FixupsFail, KernelFails, AgentFails,
    ConversionAborts, BuildKilled
<1> QED
  BY <1>6, <1>7, <1>8, <1>9, <1>10, <1>11, <1>12, <1>13, <1>15, <1>16, <1>17
    DEF ImagesStep, ImagesOrderly
-----------------------------------------------------------------------------
(* Images: soundness after a step of p                                     *)

(* What p does with a: it has nothing to do with it, goes on relying on    *)
(* it, or leaves what is not begun; begins or goes on with work that does  *)
(* not complete it; ends its work; or finds it there.                      *)
Away(p, a) ==
  /\ stock'[a] = stock[a]
  /\ ReliesOn(p, a)' => ReliesOn(p, a)
  /\ WorksOn(p, a)' => WorksOn(p, a)
  /\ WorksOn(p, a) /\ ~WorksOn(p, a)' => stock[a] # "part"

AtWork(p, a) ==
  /\ stock[a] # "whole" /\ stock'[a] # "whole"
  /\ WorksOn(p, a)' /\ ~ReliesOn(p, a)'

Ends(p, a) ==
  /\ WorksOn(p, a) /\ ~WorksOn(p, a)' /\ stock'[a] # "part"
  /\ ReliesOn(p, a)' => stock'[a] = "whole"

Finds(p, a) ==
  /\ stock'[a] = stock[a] /\ There(a)
  /\ ~WorksOn(p, a) /\ ~WorksOn(p, a)' /\ ReliesOn(p, a)'

Turn(p, a) == Away(p, a) \/ AtWork(p, a) \/ Ends(p, a) \/ Finds(p, a)

LEMMA SoundAfter ==
  ASSUME NEW a, Sound(a), ~Met(a)', NEW p \in Invocation,
         \A q \in Invocation : q # p => build'[q] = build[q],
         Turn(p, a)
  PROVE  Sound(a)'
<1>1. ASSUME NEW q \in Invocation, q # p
      PROVE  (WorksOn(q, a)' <=> WorksOn(q, a)) /\ (ReliesOn(q, a)' <=> ReliesOn(q, a))
  BY <1>1 DEF WorksOn, ReliesOn
<1>2. ~(WorksOn(p, a) /\ ReliesOn(p, a))
  BY DEF Sound
<1>3. CASE Away(p, a)
  BY <1>1, <1>3 DEF Sound, Away
<1>4. CASE AtWork(p, a)
  BY <1>1, <1>4 DEF Sound, AtWork, Met
<1>5. CASE Ends(p, a)
  BY <1>1, <1>5 DEF Sound, Ends, Met
<1>6. CASE Finds(p, a)
  BY <1>1, <1>6 DEF Sound, Finds, Met, There
<1> QED
  BY <1>3, <1>4, <1>5, <1>6 DEF Turn
-----------------------------------------------------------------------------
(* Images: the kinds and the artifacts, one by one                         *)

LEMMA KindsStep ==
  ASSUME ImagesInv, NEW p \in Invocation, NEW more, ImagesStep(p, more)
  PROVE  KindsFit'
<1>1. ImagesTypeOK /\ KindsFit
  BY DEF ImagesInv
<1>2. \A q \in Invocation : q # p => build'[q] = build[q]
  BY <1>1, StepGoes, GoesAlone
<1> USE <1>1, <1>2 DEF ImagesTypeOK, KindsFit, BuildGoes, NotBuilding, AfterBase, BaseWork,
      Filling
<1>3. CASE StartBuild(p)
  BY <1>3 DEF StartBuild
<1>4. CASE CheckBase(p) \/ ApplyFixups(p)
  BY <1>4 DEF CheckBase, ApplyFixups
<1>5. CASE BaseGrows(p) \/ BaseUnpacked(p) \/ DownloadFails(p)
  BY <1>5 DEF BaseGrows, BaseUnpacked, DownloadFails
<1>6. CASE UseArtifacts(p) \/ NoDebootstrap(p) \/ DebootstrapFails(p)
  BY <1>6 DEF UseArtifacts, NoDebootstrap, DebootstrapFails
<1>7. CASE CheckVmm(p) \/ VmmUnpacked(p) \/ VmmFails(p)
  BY <1>7 DEF CheckVmm, VmmUnpacked, VmmFails
<1>8. CASE MoveVmm(p) \/ CheckKernel(p) \/ KernelFetched(p)
  BY <1>8 DEF MoveVmm, CheckKernel, KernelFetched
<1>9. CASE CheckExt4(p) \/ CheckAgent(p) \/ AgentCopied(p)
  BY <1>9 DEF CheckExt4, CheckAgent, AgentCopied
<1>10. CASE WriteZeroes(p) \/ MakeFs(p) \/ MountExt4(p) \/ ConversionFails(p)
  BY <1>10 DEF WriteZeroes, MakeFs, MountExt4, ConversionFails
<1>11. CASE CopyBase(p) \/ InjectAgent(p) \/ (InjectFails(p) /\ more = {"ext4"})
  BY <1>11, FillingGoes
<1>12. CASE CopyFails(p) \/ Unmount(p) \/ Discard(p)
  BY <1>12 DEF CopyFails, Unmount, Discard
<1>13. CASE (FixupsFail(p) /\ more = {"base"}) \/ (KernelFails(p) /\ more = {"kernel"}) \/
  (AgentFails(p) /\ more = {"agent"}) \/ (ConversionAborts(p) /\ more = {"ext4"}) \/
  (BuildKilled(p) /\ more = Interrupted(p))
  BY <1>13 DEF FixupsFail, KernelFails, AgentFails, ConversionAborts, BuildKilled
<1> QED
  BY <1>3, <1>4, <1>5, <1>6, <1>7, <1>8, <1>9, <1>10, <1>11, <1>12, <1>13 DEF ImagesStep,
    ImagesOrderly

LEMMA KernelTurn ==
  ASSUME ImagesInv, NEW p \in Invocation, NEW more, ImagesStep(p, more),
         "kernel" \notin spoiled \cup more
  PROVE  Turn(p, "kernel")
<1>1. ImagesTypeOK /\ KindsFit /\ KernelFits
  BY DEF ImagesInv
<1> USE <1>1, NoOneAssumption DEF ImagesTypeOK, KindsFit, KernelFits, Interrupted, Converting,
      Turn, Away, AtWork, Ends, Finds, BuildGoes, NotBuilding, AfterBase, Begins, Becomes,
      Leaves, Disk, There, Artifact, WorksOn, ReliesOn, BaseWork, VmmWork, AgentWork, Ext4Work,
      Filling
<1>2. CASE StartBuild(p) \/ UseArtifacts(p) \/ CheckBase(p) \/ BaseGrows(p) \/ BaseUnpacked(p)
  \/ DownloadFails(p) \/ NoDebootstrap(p) \/ DebootstrapFails(p) \/ ApplyFixups(p) \/
  (FixupsFail(p) /\ more = {"base"})
  BY <1>2 DEF StartBuild, UseArtifacts, CheckBase, BaseGrows, BaseUnpacked, DownloadFails,
    NoDebootstrap, DebootstrapFails, ApplyFixups, FixupsFail
<1>3. CASE CheckVmm(p) \/ VmmUnpacked(p) \/ VmmFails(p) \/ MoveVmm(p)
  BY <1>3 DEF CheckVmm, VmmUnpacked, VmmFails, MoveVmm
<1>4. CASE CheckKernel(p) \/ KernelFetched(p) \/ (KernelFails(p) /\ more = {"kernel"})
  BY <1>4 DEF CheckKernel, KernelFetched, KernelFails
<1>5. CASE CheckExt4(p) \/ CheckAgent(p) \/ AgentCopied(p) \/ (AgentFails(p) /\ more =
  {"agent"}) \/ (ConversionAborts(p) /\ more = {"ext4"})
  BY <1>5 DEF CheckExt4, CheckAgent, AgentCopied, AgentFails,
    ConversionAborts
<1>6. CASE WriteZeroes(p) \/ MakeFs(p) \/ MountExt4(p) \/ ConversionFails(p)
  BY <1>6 DEF WriteZeroes, MakeFs, MountExt4, ConversionFails
<1>7. CASE CopyBase(p) \/ InjectAgent(p) \/ (InjectFails(p) /\ more = {"ext4"})
  BY <1>7, FillingGoes
<1>8. CASE CopyFails(p) \/ Unmount(p) \/ Discard(p)
  BY <1>8 DEF CopyFails, Unmount, Discard
<1>9. CASE BuildKilled(p) /\ more = Interrupted(p)
  BY <1>9 DEF BuildKilled
<1> QED
  BY <1>2, <1>3, <1>4, <1>5, <1>6, <1>7, <1>8, <1>9 DEF ImagesStep, ImagesOrderly

LEMMA AgentTurn ==
  ASSUME ImagesInv, NEW p \in Invocation, NEW more, ImagesStep(p, more),
         "agent" \notin spoiled \cup more
  PROVE  Turn(p, "agent")
<1>1. ImagesTypeOK /\ KindsFit /\ AgentFits
  BY DEF ImagesInv
<1> USE <1>1, NoOneAssumption DEF ImagesTypeOK, KindsFit, AgentFits, Interrupted, Converting,
      Turn, Away, AtWork, Ends, Finds, BuildGoes, NotBuilding, AfterBase, Begins, Becomes,
      Leaves, Disk, There, Artifact, WorksOn, ReliesOn, BaseWork, VmmWork, AgentWork, Ext4Work,
      Filling
<1>2. CASE StartBuild(p) \/ UseArtifacts(p) \/ CheckBase(p) \/ BaseGrows(p) \/ BaseUnpacked(p)
  \/ DownloadFails(p) \/ NoDebootstrap(p) \/ DebootstrapFails(p) \/ ApplyFixups(p) \/
  (FixupsFail(p) /\ more = {"base"})
  BY <1>2 DEF StartBuild, UseArtifacts, CheckBase, BaseGrows, BaseUnpacked, DownloadFails,
    NoDebootstrap, DebootstrapFails, ApplyFixups, FixupsFail
<1>3. CASE CheckVmm(p) \/ VmmUnpacked(p) \/ VmmFails(p) \/ MoveVmm(p)
  BY <1>3 DEF CheckVmm, VmmUnpacked, VmmFails, MoveVmm
<1>4. CASE CheckKernel(p) \/ KernelFetched(p) \/ (KernelFails(p) /\ more = {"kernel"})
  BY <1>4 DEF CheckKernel, KernelFetched, KernelFails
<1>5. CASE CheckExt4(p) \/ CheckAgent(p) \/ AgentCopied(p) \/ (AgentFails(p) /\ more =
  {"agent"}) \/ (ConversionAborts(p) /\ more = {"ext4"})
  BY <1>5 DEF CheckExt4, CheckAgent, AgentCopied, AgentFails,
    ConversionAborts
<1>6. CASE WriteZeroes(p) \/ MakeFs(p) \/ MountExt4(p) \/ ConversionFails(p)
  BY <1>6 DEF WriteZeroes, MakeFs, MountExt4, ConversionFails
<1>7. CASE CopyBase(p) \/ InjectAgent(p) \/ (InjectFails(p) /\ more = {"ext4"})
  BY <1>7, FillingGoes
<1>8. CASE CopyFails(p) \/ Unmount(p) \/ Discard(p)
  BY <1>8 DEF CopyFails, Unmount, Discard
<1>9. CASE BuildKilled(p) /\ more = Interrupted(p)
  BY <1>9 DEF BuildKilled
<1> QED
  BY <1>2, <1>3, <1>4, <1>5, <1>6, <1>7, <1>8, <1>9 DEF ImagesStep, ImagesOrderly

LEMMA BaseTurn ==
  ASSUME ImagesInv, NEW p \in Invocation, NEW more, ImagesStep(p, more),
         "base" \notin spoiled \cup more
  PROVE  Turn(p, "base")
<1>1. ImagesTypeOK /\ KindsFit /\ BaseFits
  BY DEF ImagesInv
<1> USE <1>1, NoOneAssumption DEF ImagesTypeOK, KindsFit, BaseFits, Interrupted, Converting,
      Turn, Away, AtWork, Ends, Finds, BuildGoes, NotBuilding, AfterBase, Begins, Becomes,
      Leaves, Disk, There, Artifact, WorksOn, ReliesOn, BaseWork, VmmWork, AgentWork, Ext4Work,
      Filling
<1>2. CASE StartBuild(p) \/ UseArtifacts(p) \/ CheckBase(p) \/ BaseGrows(p)
  BY <1>2 DEF StartBuild, UseArtifacts, CheckBase, BaseGrows
<1>3. CASE BaseUnpacked(p)
  BY <1>3 DEF BaseUnpacked
<1>4. CASE DownloadFails(p)
  <2>1. WorksOn(p, "base") /\ stock["base"] # "whole"
    BY <1>4 DEF DownloadFails, Sound
  <2>2. stock'["base"] = "bare" /\ build'[p].at = "debootstrap"
    BY <1>4 DEF DownloadFails
  <2> QED
    BY <2>1, <2>2
<1>5. CASE NoDebootstrap(p) \/ DebootstrapFails(p) \/ ApplyFixups(p) \/ (FixupsFail(p) /\ more =
  {"base"})
  BY <1>5 DEF NoDebootstrap, DebootstrapFails, ApplyFixups, FixupsFail
<1>6. CASE CheckVmm(p) \/ VmmUnpacked(p) \/ VmmFails(p) \/ MoveVmm(p)
  BY <1>6 DEF CheckVmm, VmmUnpacked, VmmFails, MoveVmm
<1>7. CASE CheckKernel(p) \/ KernelFetched(p) \/ (KernelFails(p) /\ more = {"kernel"})
  BY <1>7 DEF CheckKernel, KernelFetched, KernelFails
<1>8. CASE CheckExt4(p) \/ CheckAgent(p) \/ AgentCopied(p) \/ (AgentFails(p) /\ more =
  {"agent"}) \/ (ConversionAborts(p) /\ more = {"ext4"})
  BY <1>8 DEF CheckExt4, CheckAgent, AgentCopied, AgentFails,
    ConversionAborts
<1>9. CASE WriteZeroes(p) \/ MakeFs(p) \/ MountExt4(p) \/ ConversionFails(p)
  BY <1>9 DEF WriteZeroes, MakeFs, MountExt4, ConversionFails
<1>10. CASE CopyBase(p) \/ InjectAgent(p) \/ (InjectFails(p) /\ more = {"ext4"})
  BY <1>10, FillingGoes
<1>11. CASE CopyFails(p) \/ Unmount(p) \/ Discard(p)
  BY <1>11 DEF CopyFails, Unmount, Discard
<1>12. CASE BuildKilled(p) /\ more = Interrupted(p)
  BY <1>12 DEF BuildKilled
<1> QED
  BY <1>2, <1>3, <1>4, <1>5, <1>6, <1>7, <1>8, <1>9, <1>10, <1>11, <1>12 DEF ImagesStep,
    ImagesOrderly

LEMMA VmmTurn ==
  ASSUME ImagesInv, NEW p \in Invocation, NEW more, ImagesStep(p, more),
         "vmm" \notin spoiled \cup more
  PROVE  Turn(p, "vmm")
<1>1. ImagesTypeOK /\ KindsFit /\ VmmFits
  BY DEF ImagesInv
<1> USE <1>1, NoOneAssumption DEF ImagesTypeOK, KindsFit, VmmFits, Interrupted, Converting,
      Turn, Away, AtWork, Ends, Finds, BuildGoes, NotBuilding, AfterBase, Begins, Becomes,
      Leaves, Disk, There, Artifact, WorksOn, ReliesOn, BaseWork, VmmWork, AgentWork, Ext4Work,
      Filling
<1>2. CASE StartBuild(p) \/ UseArtifacts(p) \/ CheckBase(p) \/ BaseGrows(p) \/ BaseUnpacked(p)
  \/ DownloadFails(p) \/ NoDebootstrap(p) \/ DebootstrapFails(p) \/ ApplyFixups(p) \/
  (FixupsFail(p) /\ more = {"base"})
  BY <1>2 DEF StartBuild, UseArtifacts, CheckBase, BaseGrows, BaseUnpacked, DownloadFails,
    NoDebootstrap, DebootstrapFails, ApplyFixups, FixupsFail
<1>3. CASE CheckVmm(p) \/ VmmUnpacked(p) \/ VmmFails(p) \/ MoveVmm(p)
  BY <1>3 DEF CheckVmm, VmmUnpacked, VmmFails, MoveVmm
<1>4. CASE CheckKernel(p) \/ KernelFetched(p) \/ (KernelFails(p) /\ more = {"kernel"})
  BY <1>4 DEF CheckKernel, KernelFetched, KernelFails
<1>5. CASE CheckExt4(p) \/ CheckAgent(p) \/ AgentCopied(p) \/ (AgentFails(p) /\ more =
  {"agent"}) \/ (ConversionAborts(p) /\ more = {"ext4"})
  BY <1>5 DEF CheckExt4, CheckAgent, AgentCopied, AgentFails,
    ConversionAborts
<1>6. CASE WriteZeroes(p) \/ MakeFs(p) \/ MountExt4(p) \/ ConversionFails(p)
  BY <1>6 DEF WriteZeroes, MakeFs, MountExt4, ConversionFails
<1>7. CASE CopyBase(p) \/ InjectAgent(p) \/ (InjectFails(p) /\ more = {"ext4"})
  BY <1>7, FillingGoes
<1>8. CASE CopyFails(p) \/ Unmount(p) \/ Discard(p)
  BY <1>8 DEF CopyFails, Unmount, Discard
<1>9. CASE BuildKilled(p) /\ more = Interrupted(p)
  BY <1>9 DEF BuildKilled
<1> QED
  BY <1>2, <1>3, <1>4, <1>5, <1>6, <1>7, <1>8, <1>9 DEF ImagesStep, ImagesOrderly

LEMMA Ext4Turn ==
  ASSUME ImagesInv, NEW p \in Invocation, NEW more, ImagesStep(p, more),
         "ext4" \notin spoiled \cup more
  PROVE  Turn(p, "ext4")
<1>1. ImagesTypeOK /\ KindsFit /\ Ext4Fits
  BY DEF ImagesInv
<1> USE <1>1, NoOneAssumption DEF ImagesTypeOK, KindsFit, Ext4Fits, Interrupted, Converting,
      Turn, Away, AtWork, Ends, Finds, BuildGoes, NotBuilding, AfterBase, Begins, Becomes,
      Leaves, Disk, There, Artifact, WorksOn, ReliesOn, BaseWork, VmmWork, AgentWork, Ext4Work,
      Filling
<1>2. CASE StartBuild(p) \/ UseArtifacts(p) \/ CheckBase(p) \/ BaseGrows(p) \/ BaseUnpacked(p)
  \/ DownloadFails(p) \/ NoDebootstrap(p) \/ DebootstrapFails(p) \/ ApplyFixups(p) \/
  (FixupsFail(p) /\ more = {"base"})
  BY <1>2 DEF StartBuild, UseArtifacts, CheckBase, BaseGrows, BaseUnpacked, DownloadFails,
    NoDebootstrap, DebootstrapFails, ApplyFixups, FixupsFail
<1>3. CASE CheckVmm(p) \/ VmmUnpacked(p) \/ VmmFails(p) \/ MoveVmm(p)
  BY <1>3 DEF CheckVmm, VmmUnpacked, VmmFails, MoveVmm
<1>4. CASE CheckKernel(p) \/ KernelFetched(p) \/ (KernelFails(p) /\ more = {"kernel"})
  BY <1>4 DEF CheckKernel, KernelFetched, KernelFails
<1>5. CASE CheckExt4(p) \/ CheckAgent(p) \/ AgentCopied(p) \/ (AgentFails(p) /\ more =
  {"agent"}) \/ (ConversionAborts(p) /\ more = {"ext4"})
  BY <1>5 DEF CheckExt4, CheckAgent, AgentCopied, AgentFails,
    ConversionAborts
<1>6. CASE WriteZeroes(p) \/ MakeFs(p) \/ MountExt4(p) \/ ConversionFails(p)
  BY <1>6 DEF WriteZeroes, MakeFs, MountExt4, ConversionFails
<1>7. CASE CopyBase(p) \/ InjectAgent(p) \/ (InjectFails(p) /\ more = {"ext4"})
  BY <1>7, FillingGoes
<1>8. CASE CopyFails(p) \/ Unmount(p) \/ Discard(p)
  BY <1>8 DEF CopyFails, Unmount, Discard
<1>9. CASE BuildKilled(p) /\ more = Interrupted(p)
  BY <1>9 DEF BuildKilled
<1> QED
  BY <1>2, <1>3, <1>4, <1>5, <1>6, <1>7, <1>8, <1>9 DEF ImagesStep, ImagesOrderly

LEMMA KernelStep ==
  ASSUME ImagesInv, NEW p \in Invocation, NEW more, ImagesStep(p, more),
         "kernel" \notin spoiled \cup more, ~Met("kernel")'
  PROVE  KernelFits'
<1>1. ImagesTypeOK /\ KindsFit /\ KernelFits
  BY DEF ImagesInv
<1>2. \A q \in Invocation : q # p => build'[q] = build[q]
  BY <1>1, StepGoes, GoesAlone
<1>3. Sound("kernel")'
  BY <1>1, <1>2, KernelTurn, SoundAfter DEF KernelFits
<1>4. ~Met("kernel")
  BY <1>1 DEF KernelFits, Sound
<1> USE <1>1, <1>2, <1>3, <1>4, NoOneAssumption DEF ImagesTypeOK, KindsFit, KernelFits,
      Interrupted, Met, BuildGoes, NotBuilding, AfterBase, Begins, Becomes, Leaves, Disk, There,
      Artifact, WorksOn, ReliesOn, BaseWork, VmmWork, AgentWork, Ext4Work, Filling
<1>5. CASE StartBuild(p) \/ UseArtifacts(p) \/ CheckBase(p) \/ BaseGrows(p) \/ BaseUnpacked(p)
  \/ DownloadFails(p) \/ NoDebootstrap(p) \/ DebootstrapFails(p) \/ ApplyFixups(p) \/
  (FixupsFail(p) /\ more = {"base"})
  BY <1>5 DEF StartBuild, UseArtifacts, CheckBase, BaseGrows, BaseUnpacked, DownloadFails,
    NoDebootstrap, DebootstrapFails, ApplyFixups, FixupsFail
<1>6. CASE CheckVmm(p) \/ VmmUnpacked(p) \/ VmmFails(p) \/ MoveVmm(p)
  BY <1>6 DEF CheckVmm, VmmUnpacked, VmmFails, MoveVmm
<1>7. CASE CheckKernel(p) \/ KernelFetched(p) \/ (KernelFails(p) /\ more = {"kernel"})
  BY <1>7 DEF CheckKernel, KernelFetched, KernelFails
<1>8. CASE CheckExt4(p) \/ CheckAgent(p) \/ AgentCopied(p) \/ (AgentFails(p) /\ more =
  {"agent"}) \/ (ConversionAborts(p) /\ more = {"ext4"})
  BY <1>8 DEF CheckExt4, CheckAgent, AgentCopied, AgentFails,
    ConversionAborts
<1>9. CASE WriteZeroes(p) \/ MakeFs(p) \/ MountExt4(p) \/ ConversionFails(p)
  BY <1>9 DEF WriteZeroes, MakeFs, MountExt4, ConversionFails
<1>10. CASE CopyBase(p) \/ InjectAgent(p) \/ (InjectFails(p) /\ more = {"ext4"})
  BY <1>10, FillingGoes
<1>11. CASE CopyFails(p) \/ Unmount(p) \/ Discard(p)
  BY <1>11 DEF CopyFails, Unmount, Discard
<1>12. CASE BuildKilled(p) /\ more = Interrupted(p)
  BY <1>12 DEF BuildKilled
<1> QED
  BY <1>5, <1>6, <1>7, <1>8, <1>9, <1>10, <1>11, <1>12 DEF ImagesStep, ImagesOrderly

LEMMA AgentStep ==
  ASSUME ImagesInv, NEW p \in Invocation, NEW more, ImagesStep(p, more),
         "agent" \notin spoiled \cup more, ~Met("agent")'
  PROVE  AgentFits'
<1>1. ImagesTypeOK /\ KindsFit /\ AgentFits
  BY DEF ImagesInv
<1>2. \A q \in Invocation : q # p => build'[q] = build[q]
  BY <1>1, StepGoes, GoesAlone
<1>3. Sound("agent")'
  BY <1>1, <1>2, AgentTurn, SoundAfter DEF AgentFits
<1>4. ~Met("agent")
  BY <1>1 DEF AgentFits, Sound
<1> USE <1>1, <1>2, <1>3, <1>4, NoOneAssumption DEF ImagesTypeOK, KindsFit, AgentFits,
      Interrupted, Met, BuildGoes, NotBuilding, AfterBase, Begins, Becomes, Leaves, Disk, There,
      Artifact, WorksOn, ReliesOn, BaseWork, VmmWork, AgentWork, Ext4Work, Filling
<1>5. CASE StartBuild(p) \/ UseArtifacts(p) \/ CheckBase(p) \/ BaseGrows(p) \/ BaseUnpacked(p)
  \/ DownloadFails(p) \/ NoDebootstrap(p) \/ DebootstrapFails(p) \/ ApplyFixups(p) \/
  (FixupsFail(p) /\ more = {"base"})
  BY <1>5 DEF StartBuild, UseArtifacts, CheckBase, BaseGrows, BaseUnpacked, DownloadFails,
    NoDebootstrap, DebootstrapFails, ApplyFixups, FixupsFail
<1>6. CASE CheckVmm(p)
  BY <1>6 DEF CheckVmm
<1>7. CASE VmmUnpacked(p)
  BY <1>7 DEF VmmUnpacked
<1>8. CASE VmmFails(p)
  BY <1>8 DEF VmmFails
<1>9. CASE MoveVmm(p)
  BY <1>9 DEF MoveVmm
<1>10. CASE CheckKernel(p) \/ KernelFetched(p) \/ (KernelFails(p) /\ more = {"kernel"})
  BY <1>10 DEF CheckKernel, KernelFetched, KernelFails
<1>11. CASE CheckExt4(p) \/ CheckAgent(p) \/ AgentCopied(p) \/ (AgentFails(p) /\ more =
  {"agent"}) \/ (ConversionAborts(p) /\ more = {"ext4"})
  BY <1>11 DEF CheckExt4, CheckAgent, AgentCopied, AgentFails,
    ConversionAborts
<1>12. CASE WriteZeroes(p) \/ MakeFs(p) \/ MountExt4(p) \/ ConversionFails(p)
  BY <1>12 DEF WriteZeroes, MakeFs, MountExt4, ConversionFails
<1>13. CASE CopyBase(p) \/ InjectAgent(p) \/ (InjectFails(p) /\ more = {"ext4"})
  BY <1>13, FillingGoes
<1>14. CASE CopyFails(p) \/ Unmount(p) \/ Discard(p)
  BY <1>14 DEF CopyFails, Unmount, Discard
<1>15. CASE BuildKilled(p) /\ more = Interrupted(p)
  BY <1>15 DEF BuildKilled
<1> QED
  BY <1>5, <1>6, <1>7, <1>8, <1>9, <1>10, <1>11, <1>12, <1>13, <1>14, <1>15 DEF ImagesStep,
    ImagesOrderly

LEMMA BaseStep ==
  ASSUME ImagesInv, NEW p \in Invocation, NEW more, ImagesStep(p, more),
         "base" \notin spoiled \cup more, ~Met("base")'
  PROVE  BaseFits'
<1>1. ImagesTypeOK /\ KindsFit /\ BaseFits
  BY DEF ImagesInv
<1>2. \A q \in Invocation : q # p => build'[q] = build[q]
  BY <1>1, StepGoes, GoesAlone
<1>3. Sound("base")'
  BY <1>1, <1>2, BaseTurn, SoundAfter DEF BaseFits
<1>4. ~Met("base")
  BY <1>1 DEF BaseFits, Sound
<1> USE <1>1, <1>2, <1>3, <1>4, NoOneAssumption DEF ImagesTypeOK, KindsFit, BaseFits,
      Interrupted, Met, BuildGoes, NotBuilding, AfterBase, Begins, Becomes, Leaves, Disk, There,
      Artifact, WorksOn, ReliesOn, BaseWork, VmmWork, AgentWork, Ext4Work, Filling
<1>5. CASE StartBuild(p)
  BY <1>5 DEF StartBuild
<1>6. CASE UseArtifacts(p)
  BY <1>6 DEF UseArtifacts
<1>7. CASE CheckBase(p)
  BY <1>7 DEF CheckBase
<1>8. CASE BaseGrows(p)
  BY <1>8 DEF BaseGrows
<1>9. CASE BaseUnpacked(p)
  BY <1>9 DEF BaseUnpacked, Sound
<1>10. CASE DownloadFails(p)
  BY <1>10 DEF DownloadFails
<1>11. CASE NoDebootstrap(p)
  BY <1>11 DEF NoDebootstrap
<1>12. CASE DebootstrapFails(p)
  BY <1>12 DEF DebootstrapFails
<1>13. CASE ApplyFixups(p)
  BY <1>13 DEF ApplyFixups
<1>14. CASE FixupsFail(p) /\ more = {"base"}
  BY <1>14 DEF FixupsFail
<1>15. CASE CheckVmm(p) \/ VmmUnpacked(p) \/ VmmFails(p) \/ MoveVmm(p)
  BY <1>15 DEF CheckVmm, VmmUnpacked, VmmFails, MoveVmm
<1>16. CASE CheckKernel(p) \/ KernelFetched(p) \/ (KernelFails(p) /\ more = {"kernel"})
  BY <1>16 DEF CheckKernel, KernelFetched, KernelFails
<1>17. CASE CheckExt4(p) \/ CheckAgent(p) \/ AgentCopied(p) \/ (AgentFails(p) /\ more =
  {"agent"}) \/ (ConversionAborts(p) /\ more = {"ext4"})
  BY <1>17 DEF CheckExt4, CheckAgent, AgentCopied, AgentFails,
    ConversionAborts
<1>18. CASE WriteZeroes(p) \/ MakeFs(p) \/ MountExt4(p) \/ ConversionFails(p)
  BY <1>18 DEF WriteZeroes, MakeFs, MountExt4, ConversionFails
<1>19. CASE CopyBase(p) \/ InjectAgent(p) \/ (InjectFails(p) /\ more = {"ext4"})
  BY <1>19, FillingGoes
<1>20. CASE CopyFails(p) \/ Unmount(p) \/ Discard(p)
  BY <1>20 DEF CopyFails, Unmount, Discard
<1>21. CASE BuildKilled(p) /\ more = Interrupted(p)
  BY <1>21 DEF BuildKilled
<1> QED
  BY <1>5, <1>6, <1>7, <1>8, <1>9, <1>10, <1>11, <1>12, <1>13, <1>14, <1>15, <1>16, <1>17,
    <1>18, <1>19, <1>20, <1>21 DEF ImagesStep, ImagesOrderly

LEMMA VmmStep ==
  ASSUME ImagesInv, NEW p \in Invocation, NEW more, ImagesStep(p, more),
         "vmm" \notin spoiled \cup more, ~Met("vmm")'
  PROVE  VmmFits'
<1>1. ImagesTypeOK /\ KindsFit /\ VmmFits
  BY DEF ImagesInv
<1>2. \A q \in Invocation : q # p => build'[q] = build[q]
  BY <1>1, StepGoes, GoesAlone
<1>3. Sound("vmm")'
  BY <1>1, <1>2, VmmTurn, SoundAfter DEF VmmFits
<1>4. ~Met("vmm")
  BY <1>1 DEF VmmFits, Sound
<1> USE <1>1, <1>2, <1>3, <1>4, NoOneAssumption DEF ImagesTypeOK, KindsFit, VmmFits,
      Interrupted, Met, BuildGoes, NotBuilding, AfterBase, Begins, Becomes, Leaves, Disk, There,
      Artifact, WorksOn, ReliesOn, BaseWork, VmmWork, AgentWork, Ext4Work, Filling,
      NothingUnpacked
<1>5. CASE StartBuild(p)
  BY <1>5 DEF StartBuild
<1>6. CASE UseArtifacts(p)
  BY <1>6 DEF UseArtifacts
<1>7. CASE CheckBase(p)
  <2>1. stock'["vmm"] = stock["vmm"] /\ unpacked' = unpacked
    BY <1>7 DEF CheckBase
  <2>2. build[p].at \notin VmmWork /\ build'[p].at \notin VmmWork
    BY <1>7 DEF CheckBase
  <2> QED
    BY <2>1, <2>2
<1>8. CASE BaseGrows(p)
  BY <1>8 DEF BaseGrows
<1>9. CASE BaseUnpacked(p)
  BY <1>9 DEF BaseUnpacked
<1>10. CASE DownloadFails(p)
  BY <1>10 DEF DownloadFails
<1>11. CASE NoDebootstrap(p)
  BY <1>11 DEF NoDebootstrap
<1>12. CASE DebootstrapFails(p)
  BY <1>12 DEF DebootstrapFails
<1>13. CASE ApplyFixups(p)
  BY <1>13 DEF ApplyFixups
<1>14. CASE FixupsFail(p) /\ more = {"base"}
  BY <1>14 DEF FixupsFail
<1>15. CASE CheckVmm(p)
  BY <1>15 DEF CheckVmm
<1>16. CASE VmmUnpacked(p)
  BY <1>16 DEF VmmUnpacked
<1>17. CASE VmmFails(p)
  BY <1>17 DEF VmmFails
<1>18. CASE MoveVmm(p)
  BY <1>18 DEF MoveVmm
<1>19. CASE CheckKernel(p)
  <2>1. stock'["vmm"] = stock["vmm"] /\ unpacked' = unpacked
    BY <1>19 DEF CheckKernel
  <2>2. build[p].at \notin VmmWork /\ build'[p].at \notin VmmWork
    BY <1>19 DEF CheckKernel
  <2> QED
    BY <2>1, <2>2
<1>20. CASE KernelFetched(p)
  BY <1>20 DEF KernelFetched
<1>21. CASE KernelFails(p) /\ more = {"kernel"}
  BY <1>21 DEF KernelFails
<1>22. CASE CheckExt4(p)
  BY <1>22 DEF CheckExt4
<1>23. CASE CheckAgent(p)
  <2>1. stock'["vmm"] = stock["vmm"] /\ unpacked' = unpacked
    BY <1>23 DEF CheckAgent
  <2>2. build[p].at \notin VmmWork /\ build'[p].at \notin VmmWork
    BY <1>23 DEF CheckAgent
  <2> QED
    BY <2>1, <2>2
<1>24. CASE AgentCopied(p)
  BY <1>24 DEF AgentCopied
<1>25. CASE (AgentFails(p) /\ more = {"agent"}) \/ (ConversionAborts(p) /\ more = {"ext4"})
  BY <1>25 DEF AgentFails, ConversionAborts
<1>26. CASE WriteZeroes(p) \/ MakeFs(p) \/ MountExt4(p) \/ ConversionFails(p)
  BY <1>26 DEF WriteZeroes, MakeFs, MountExt4, ConversionFails
<1>27. CASE CopyBase(p) \/ InjectAgent(p) \/ (InjectFails(p) /\ more = {"ext4"})
  BY <1>27, FillingGoes DEF Sound
<1>28. CASE CopyFails(p) \/ Unmount(p) \/ Discard(p)
  BY <1>28 DEF CopyFails, Unmount, Discard
<1>29. CASE BuildKilled(p) /\ more = Interrupted(p)
  BY <1>29 DEF BuildKilled
<1> QED
  BY <1>5, <1>6, <1>7, <1>8, <1>9, <1>10, <1>11, <1>12, <1>13, <1>14, <1>15, <1>16, <1>17,
    <1>18, <1>19, <1>20, <1>21, <1>22, <1>23, <1>24, <1>25, <1>26, <1>27, <1>28, <1>29 DEF
    ImagesStep, ImagesOrderly

LEMMA Ext4Step ==
  ASSUME ImagesInv, NEW p \in Invocation, NEW more, ImagesStep(p, more),
         "ext4" \notin spoiled \cup more, ~Met("ext4")',
         \/ \A q \in Invocation : ~WorksOn(q, "ext4")'
         \/ "base" \notin spoiled /\ "agent" \notin spoiled
         \/ \A q \in Invocation : build[q].at \notin Ext4Work
  PROVE  Ext4Fits'
<1>1. ImagesTypeOK /\ KindsFit /\ Ext4Fits
  BY DEF ImagesInv
<1>2. \A q \in Invocation : q # p => build'[q] = build[q]
  BY <1>1, StepGoes, GoesAlone
<1>3. Sound("ext4")'
  BY <1>1, <1>2, Ext4Turn, SoundAfter DEF Ext4Fits
<1>4. ~Met("ext4")
  BY <1>1 DEF Ext4Fits, Sound
<1> USE <1>1, <1>2, <1>3, <1>4, NoOneAssumption DEF ImagesTypeOK, KindsFit, Ext4Fits,
      Interrupted, Met, BuildGoes, NotBuilding, AfterBase, Begins, Becomes, Leaves, Disk, There,
      Artifact, WorksOn, ReliesOn, BaseWork, VmmWork, AgentWork, Ext4Work, Filling, Converting,
      OwnMount, Unmounts, Last, Front
<1>5. CASE StartBuild(p)
  BY <1>5 DEF StartBuild
<1>6. CASE UseArtifacts(p)
  BY <1>6 DEF UseArtifacts
<1>7. CASE CheckBase(p)
  BY <1>7 DEF CheckBase
<1>8. CASE BaseGrows(p)
  BY <1>8 DEF BaseGrows
<1>9. CASE BaseUnpacked(p)
  BY <1>9 DEF BaseUnpacked
<1>10. CASE DownloadFails(p)
  BY <1>10 DEF DownloadFails
<1>11. CASE NoDebootstrap(p)
  BY <1>11 DEF NoDebootstrap
<1>12. CASE DebootstrapFails(p)
  BY <1>12 DEF DebootstrapFails
<1>13. CASE ApplyFixups(p)
  BY <1>13 DEF ApplyFixups
<1>14. CASE FixupsFail(p) /\ more = {"base"}
  BY <1>14 DEF FixupsFail
<1>15. CASE CheckVmm(p) \/ VmmUnpacked(p) \/ VmmFails(p) \/ MoveVmm(p)
  BY <1>15 DEF CheckVmm, VmmUnpacked, VmmFails, MoveVmm
<1>16. CASE CheckKernel(p)
  BY <1>16 DEF CheckKernel
<1>17. CASE KernelFetched(p)
  BY <1>17 DEF KernelFetched
<1>18. CASE KernelFails(p) /\ more = {"kernel"}
  BY <1>18 DEF KernelFails
<1>19. CASE CheckExt4(p) \/ CheckAgent(p) \/ AgentCopied(p) \/ (AgentFails(p) /\ more =
  {"agent"}) \/ (ConversionAborts(p) /\ more = {"ext4"})
  BY <1>19 DEF CheckExt4, CheckAgent, AgentCopied, AgentFails,
    ConversionAborts
<1>20. CASE WriteZeroes(p)
  BY <1>20 DEF WriteZeroes
<1>21. CASE MakeFs(p)
  BY <1>21 DEF MakeFs
<1>22. CASE MountExt4(p)
  <2>1. mnt' # <<>> /\ mnt'[Len(mnt')] = p
    BY <1>22 DEF MountExt4
  <2> QED
    BY <1>22, <2>1 DEF MountExt4
<1>23. CASE ConversionFails(p)
  BY <1>23 DEF ConversionFails
<1>24. CASE CopyBase(p) \/ InjectAgent(p) \/ (InjectFails(p) /\ more = {"ext4"})
  <2>1. WorksOn(p, "ext4")' /\ build[p].at \in Ext4Work
    BY <1>24, FillingGoes
  <2>2. BaseFits /\ AgentFits
    BY <2>1 DEF ImagesInv
  <2>3. stock["base"] = "whole" /\ stock["agent"] = "whole" /\ OwnMount(p)
    BY <2>1, <2>2, <1>24, FillingGoes DEF BaseFits, AgentFits, Sound
  <2>4. ASSUME NEW a, NEW b, NEW ok, ok, Fills(p, a, b, ok)
        PROVE  ~build'[p].flawed
    BY <2>1, <2>4 DEF Fills
  <2>5. CopyBase(p) \/ InjectAgent(p)
    BY <1>24
  <2>6. ~build'[p].flawed
    BY <2>3, <2>4, <2>5 DEF CopyBase, InjectAgent
  <2> QED
    BY <1>24, <2>1, <2>6, FillingGoes
<1>25. CASE CopyFails(p)
  BY <1>25 DEF CopyFails
<1>26. CASE Unmount(p)
  <2>1. \A q \in Invocation : build'[q].at \notin Converting
    BY <1>26 DEF Unmount
  <2>2. \A q \in Invocation : build'[q].at # "dd"
    BY <1>26 DEF Unmount
  <2>3. stock'["ext4"] = "none" \/ \A q \in Invocation : ~WorksOn(q, "ext4")'
    BY <1>26 DEF Unmount
  <2> QED
    BY <2>1, <2>2, <2>3
<1>27. CASE Discard(p)
  BY <1>27 DEF Discard
<1>28. CASE BuildKilled(p) /\ more = Interrupted(p)
  BY <1>28 DEF BuildKilled
<1> QED
  BY <1>5, <1>6, <1>7, <1>8, <1>9, <1>10, <1>11, <1>12, <1>13, <1>14, <1>15, <1>16, <1>17,
    <1>18, <1>19, <1>20, <1>21, <1>22, <1>23, <1>24, <1>25, <1>26, <1>27, <1>28 DEF ImagesStep,
    ImagesOrderly
-----------------------------------------------------------------------------
(* Images: the theorems                                                    *)

LEMMA ImagesStart ==
  ASSUME ImagesInit
  PROVE  ImagesInv
<1>1. ImagesTypeOK
  BY MaxBuildsAssumption DEF ImagesInit, ImagesTypeOK, NothingUnpacked, NotBuilding, BuildPoints,
    Artifact
<1>2. KindsFit
  BY DEF ImagesInit, KindsFit, NotBuilding
<1>3. \A p \in Invocation, a \in Artifact : ~WorksOn(p, a) /\ ~ReliesOn(p, a)
  BY DEF ImagesInit, NotBuilding, Artifact, WorksOn, ReliesOn, BaseWork, VmmWork, AgentWork,
    Ext4Work, Filling
<1>4. \A a \in Artifact : Sound(a)
  BY <1>3 DEF ImagesInit, Sound, Met
<1>5. \A p \in Invocation : build[p].at = "idle" /\ ~build[p].flawed
  BY DEF ImagesInit, NotBuilding
<1>6. BaseFits
  BY <1>4, <1>5 DEF BaseFits, BaseWork, Artifact
<1>7. VmmFits
  BY <1>4, <1>5 DEF VmmFits, VmmWork, Artifact, ImagesInit
<1>8. KernelFits /\ AgentFits
  BY <1>4, <1>5 DEF KernelFits, AgentFits, Artifact
<1>9. Ext4Fits
  BY <1>3, <1>4, <1>5 DEF Ext4Fits, Converting, Ext4Work, Filling, Artifact
<1> QED
  BY <1>1, <1>2, <1>6, <1>7, <1>8, <1>9 DEF ImagesInv

LEMMA ImagesKept ==
  ASSUME ImagesInv, NEW p \in Invocation, NEW more \in SUBSET Artifact, ImagesStep(p, more),
         Spoiling(more), builds' \in 0 .. MaxBuilds
  PROVE  ImagesInv'
<1>1. ImagesTypeOK
  BY DEF ImagesInv
<1>2. ImagesTypeOK'
  BY <1>1, StepGoes, GoesAlone, DiskStaysTyped, Unspoiled DEF BuildTyped, DiskTyped, ImagesTypeOK
<1>3. KindsFit'
  BY KindsStep
<1>4. \A a \in Artifact \ spoiled' :
        \/ /\ stock'[a] # "part"
           /\ \A q \in Invocation : ~(WorksOn(q, a) \/ ReliesOn(q, a))'
        \/ a \notin spoiled \cup more /\ ~Met(a)'
  BY <1>1, Unspoiled
<1>5. "base" \in spoiled' \/ BaseFits'
  BY <1>4, FreeFits, BaseStep DEF Artifact
<1>6. "vmm" \in spoiled' \/ VmmFits'
  BY <1>4, FreeFits, VmmStep DEF Artifact
<1>7. "kernel" \in spoiled' \/ KernelFits'
  BY <1>4, FreeFits, KernelStep DEF Artifact
<1>8. "agent" \in spoiled' \/ AgentFits'
  BY <1>4, FreeFits, AgentStep DEF Artifact
<1>9. "ext4" \in spoiled' \/ Ext4Fits'
  <2>1. "ext4" \notin spoiled' =>
          \/ \A q \in Invocation : ~WorksOn(q, "ext4")'
          \/ "base" \notin spoiled /\ "agent" \notin spoiled
          \/ \A q \in Invocation : build[q].at \notin Ext4Work
    BY <1>1, Unspoiled
  <2> QED
    BY <1>2, <1>3, <1>4, <2>1, FreeFits, Ext4Step DEF Artifact
<1> QED
  BY <1>2, <1>3, <1>5, <1>6, <1>7, <1>8, <1>9 DEF ImagesInv

(* Each step of the whole is one of the steps above.                       *)
LEMMA ImagesNextSteps ==
  ASSUME ImagesInv, ImagesNext
  PROVE  \E p \in Invocation, more \in SUBSET Artifact :
           ImagesStep(p, more) /\ Spoiling(more) /\ builds' \in 0 .. MaxBuilds
<1>1. builds \in 0 .. MaxBuilds
  BY DEF ImagesInv, ImagesTypeOK
<1>2. PICK p \in Invocation :
        \/ StartBuild(p) /\ Spoiling({})
        \/ /\ \/ ImagesOrderly(p) /\ Spoiling({})
              \/ FixupsFail(p) /\ Spoiling({"base"})
              \/ KernelFails(p) /\ Spoiling({"kernel"})
              \/ AgentFails(p) /\ Spoiling({"agent"})
              \/ (ConversionAborts(p) \/ InjectFails(p)) /\ Spoiling({"ext4"})
              \/ BuildKilled(p) /\ Spoiling(Interrupted(p))
           /\ UNCHANGED builds
  BY DEF ImagesNext
<1>3. builds' \in 0 .. MaxBuilds
  BY <1>1, <1>2, MaxBuildsAssumption DEF StartBuild
<1>4. \E more \in {{}, {"base"}, {"kernel"}, {"agent"}, {"ext4"}, Interrupted(p)} :
        ImagesStep(p, more) /\ Spoiling(more)
  BY <1>2 DEF ImagesStep
<1>5. Interrupted(p) \subseteq Artifact
  BY DEF Interrupted
<1> QED
  BY <1>3, <1>4, <1>5 DEF Artifact

(* Whatever fails, is killed or meets, ImagesInv holds of what it did not  *)
(* spoil (bootstrap.rs, assets.rs, rootfs.rs).                             *)
THEOREM ImagesInvariance == ImagesSpec => []ImagesInv
<1>1. ImagesInit => ImagesInv
  BY ImagesStart
<1>2. ImagesInv /\ [ImagesNext]_imagesVars => ImagesInv'
  <2>1. ASSUME ImagesInv, ImagesNext PROVE ImagesInv'
    BY <2>1, ImagesNextSteps, ImagesKept
  <2>2. ASSUME ImagesInv, UNCHANGED imagesVars PROVE ImagesInv'
    <3>1. (ImagesTypeOK' <=> ImagesTypeOK) /\ (KindsFit' <=> KindsFit)
      BY <2>2 DEF imagesVars, ImagesTypeOK, KindsFit
    <3>2. \A a \in Artifact : Sound(a)' <=> Sound(a)
      BY <2>2 DEF imagesVars, Sound, Met, WorksOn, ReliesOn
    <3>3. (BaseFits' <=> BaseFits) /\ (VmmFits' <=> VmmFits)
      BY <2>2, <3>2 DEF imagesVars, BaseFits, VmmFits, Artifact
    <3>4. (KernelFits' <=> KernelFits) /\ (AgentFits' <=> AgentFits)
      BY <2>2, <3>2 DEF imagesVars, KernelFits, AgentFits, Artifact
    <3>5. Ext4Fits' <=> Ext4Fits
      BY <2>2, <3>2 DEF imagesVars, Ext4Fits, WorksOn, OwnMount, Artifact
    <3>6. spoiled' = spoiled
      BY <2>2 DEF imagesVars
    <3> QED
      BY <2>2, <3>1, <3>3, <3>4, <3>5, <3>6 DEF ImagesInv
  <2> QED
    BY <2>1, <2>2
<1> QED
  BY <1>1, <1>2, PTL DEF ImagesSpec

(* Every artifact is none, bare, part or whole, and every create at one of *)
(* its steps: ImagesTypeOK.                                                *)
THEOREM ImagesTypes == ImagesSpec => []ImagesTypeOK
<1>1. ImagesInv => ImagesTypeOK
  BY DEF ImagesInv
<1> QED
  BY <1>1, ImagesInvariance, PTL

(* Only failures nobody cleans up after, kills and creates that meet make  *)
(* a machine of an incomplete artifact (bootstrap.rs:19, rootfs.rs:71).    *)
THEOREM MachinesAreMadeOfWhole == ImagesSpec => []UsedIsWhole
<1>1. ImagesInv => UsedIsWhole
  BY DEF ImagesInv, UsedIsWhole, BaseFits, VmmFits, KernelFits, Ext4Fits, Sound
<1> QED
  BY <1>1, ImagesInvariance, PTL

(* What is complete and not spoiled is left alone by every step.           *)
LEMMA WholeIsLeft ==
  ASSUME ImagesInv, NEW p \in Invocation, NEW more \in SUBSET Artifact, ImagesStep(p, more),
         NEW a \in Artifact \ spoiled, stock[a] = "whole"
  PROVE  stock'[a] = "whole"
<1>1. CASE a \in more
  BY <1>1 DEF ImagesStep, FixupsFail, KernelFails, AgentFails, ConversionAborts, InjectFails,
    BuildKilled, BuildGoes, Leaves, Fills, Disk
<1>2. CASE a \notin more
  <2>1. Sound(a) /\ Turn(p, a)
    BY <1>2, BaseTurn, VmmTurn, KernelTurn, AgentTurn, Ext4Turn
      DEF Artifact, ImagesInv, BaseFits, VmmFits, KernelFits, AgentFits, Ext4Fits
  <2> QED
    BY <2>1 DEF Sound, Turn, Away, AtWork, Ends, Finds
<1> QED
  BY <1>1, <1>2

(* What is complete stays complete, unless two creates found it missing.   *)
THEOREM WholeArtifactsStay == ImagesSpec => WholeStays
<1>1. ASSUME ImagesInv, [ImagesNext]_imagesVars, NEW a \in Artifact, stock[a] = "whole"
      PROVE  stock'[a] = "whole" \/ a \in spoiled \cup spoiled'
  <2>1. CASE ImagesNext
    BY <1>1, <2>1, ImagesNextSteps, WholeIsLeft
  <2>2. CASE UNCHANGED imagesVars
    BY <1>1, <2>2 DEF imagesVars
  <2> QED
    BY <1>1, <2>1, <2>2
<1>2. ImagesInv /\ [ImagesNext]_imagesVars =>
        [\A a \in Artifact : stock[a] = "whole" =>
           stock'[a] = "whole" \/ a \in spoiled \cup spoiled']_imagesVars
  BY <1>1
<1> QED
  BY <1>2, ImagesInvariance, PTL DEF ImagesSpec, WholeStays
-----------------------------------------------------------------------------
(* The host                                                                *)

(* The parts of a host do not disturb one another: each of them, seen by   *)
(* itself in a behaviour of the composition, runs by its own specification *)
(* and keeps what is promised of it, whichever of the others moves.        *)
THEOREM PartsRun ==
  MCHostSpec => HostNetSpec /\ SnapshotsSpec /\ ImagesSpec /\ LimaSpec /\ ExecLogSpec
<1>1. MCHostInit => HostNetInit /\ SnapshotsInit /\ ImagesInit /\ LimaInit /\ ExecLogInit
  BY DEF MCHostInit
<1>2. [MCHostNext]_<<MCHostVars, part>> => [HostNetNext]_netVars
  BY Zenon DEF MCHostNext, MCHostVars
<1>3. [MCHostNext]_<<MCHostVars, part>> => [SnapshotsNext]_snapVars
  BY Zenon DEF MCHostNext, MCHostVars
<1>4. [MCHostNext]_<<MCHostVars, part>> => [ImagesNext]_imagesVars
  BY Zenon DEF MCHostNext, MCHostVars
<1>5. [MCHostNext]_<<MCHostVars, part>> => [LimaNext]_limaVars
  BY Zenon DEF MCHostNext, MCHostVars
<1>6. [MCHostNext]_<<MCHostVars, part>> => [ExecLogNext]_execVars
  BY Zenon DEF MCHostNext, MCHostVars
<1> QED
  BY <1>1, <1>2, <1>3, <1>4, <1>5, <1>6, PTL
  DEF MCHostSpec, HostNetSpec, SnapshotsSpec, ImagesSpec, LimaSpec, ExecLogSpec

(* Every variable of the parts keeps its type, and a forward its address   *)
(* (port_forward.rs:13), for any number of invocations and machines.       *)
THEOREM HostTypes == MCHostSpec => []MCHostTypeOK
<1>1. HostNetInv => HostNetTypeOK
  BY DEF HostNetInv
<1>2. SnapshotsInv => SnapshotsTypeOK
  BY DEF SnapshotsInv
<1>3. ImagesInv => ImagesTypeOK
  BY DEF ImagesInv
<1>4. ExecLogInv => ExecLogTypeOK
  BY DEF ExecLogInv
<1> QED
  BY <1>1, <1>2, <1>3, <1>4, PartsRun, HostNetInvariance, SnapshotsInvariance,
     ImagesInvariance, ExecLogInvariance, PTL
  DEF MCHostTypeOK
=============================================================================
