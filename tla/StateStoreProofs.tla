-------------------------- MODULE StateStoreProofs --------------------------
(***************************************************************************)
(* StateStore's invariant and its refinement of AtomicStore, for any set   *)
(* of callers, of states and of closures.                                  *)
(***************************************************************************)
EXTENDS StateStore, TLAPS

(* What a closure returns is a state, unless it failed.                    *)
LEMMA ApplyType ==
  ASSUME NEW u \in Update, NEW s \in State, Apply[u][s] # Failed
  PROVE  Apply[u][s] \in State
BY ApplyAssumption

(* read_state returns a state whenever the file parses.                    *)
LEMMA ParsedType ==
  ASSUME NEW f \in FileContents, f # Garbage
  PROVE  Parsed(f) \in State
BY DefaultAssumption DEF FileContents, Parsed

LEMMA ParsedState == \A s \in State : Parsed(s) = s
BY DistinctAssumption DEF Parsed

(* The invariant holds before the first call.                              *)
LEMMA InitInv == Init => StoreInv
<1> SUFFICES ASSUME Init PROVE StoreInv
  OBVIOUS
<1>1. (CHOOSE u \in Update : TRUE) \in Update
  BY UpdateAssumption
<1>2. TypeOK
  BY <1>1 DEF Init, TypeOK, FileContents, Points
<1>3. FileParses
  BY DistinctAssumption DEF Init, FileParses
<1>4. Exclusion /\ LockByPoint /\ ClosureSeesCurrent /\ WritesOwnResult
  BY DEF Init, Exclusion, LockByPoint, ClosureSeesCurrent, WritesOwnResult,
         Writing, Reading
<1> QED
  BY <1>2, <1>3, <1>4 DEF StoreInv

(* Calls that write nothing and hold nothing new.                          *)
LEMMA InvokeInv ==
  ASSUME StoreInv, NEW p \in Proc, (\E u \in Update : Invoke(p, u)) \/ InvokeRead(p)
  PROVE  StoreInv'
BY DEF StoreInv, TypeOK, Exclusion, LockByPoint, ClosureSeesCurrent, WritesOwnResult,
       FileParses, Invoke, InvokeRead, Goto, files, Points, Writing, Reading

LEMMA LockInv ==
  ASSUME StoreInv, NEW p \in Proc, LockExclusive(p) \/ LockShared(p)
  PROVE  StoreInv'
BY DEF StoreInv, TypeOK, Exclusion, LockByPoint, ClosureSeesCurrent, WritesOwnResult,
       FileParses, LockExclusive, LockShared, ExclusiveGranted, SharedGranted,
       Goto, files, Points, Writing, Reading

LEMMA ReadInv ==
  ASSUME StoreInv, NEW p \in Proc, ReadState(p)
  PROVE  StoreInv'
<1>1. Parsed(file) \in State
  BY ParsedType DEF StoreInv, TypeOK, ReadState
<1>2. QED
  BY <1>1 DEF StoreInv, TypeOK, Exclusion, LockByPoint, ClosureSeesCurrent,
       WritesOwnResult, FileParses, ReadState, Goto, files, Points, Writing, Reading

LEMMA ClosureInv ==
  ASSUME StoreInv, NEW p \in Proc, RunClosure(p) \/ RefuseClosure(p)
  PROVE  StoreInv'
<1>1. CASE RunClosure(p)
  <2>1. Apply[op[p]][base[p]] \in State
    BY <1>1, ApplyType DEF StoreInv, TypeOK, WritesOwnResult, RunClosure, Goto
  <2>2. QED
    BY <1>1, <2>1 DEF StoreInv, TypeOK, Exclusion, LockByPoint, ClosureSeesCurrent,
       WritesOwnResult, FileParses, RunClosure, Goto, files, Points, Writing, Reading
<1>2. CASE RefuseClosure(p)
  BY <1>2 DEF StoreInv, TypeOK, Exclusion, LockByPoint, ClosureSeesCurrent,
       WritesOwnResult, FileParses, RefuseClosure, Goto, files, Points, Writing, Reading
<1>3. QED
  BY <1>1, <1>2

(* Two calls that hold the exclusive lock are one.                         *)
LEMMA OneWriter ==
  ASSUME StoreInv, NEW p \in Proc, NEW q \in Proc,
         pc[p] \in Writing, pc[q] \in Writing \cup Reading
  PROVE  p = q
BY DEF StoreInv, Exclusion, LockByPoint

LEMMA TmpInv ==
  ASSUME StoreInv, NEW p \in Proc, TruncateTmp(p) \/ WritePart(p) \/ WriteRest(p)
  PROVE  StoreInv'
<1>1. pc[p] \in Writing
  BY DEF TruncateTmp, WritePart, WriteRest, Goto, Writing
<1>2. \A q \in Proc : pc[q] = "written" => q = p
  BY <1>1, OneWriter DEF Writing
<1>3. mem[p] \in State \/ ~WriteRest(p)
  BY DEF StoreInv, WritesOwnResult, WriteRest, Goto
<1>4. tmp' \in FileContents
  BY <1>3 DEF TruncateTmp, WritePart, WriteRest, FileContents
<1>5. QED
  BY <1>2, <1>4 DEF StoreInv, TypeOK, Exclusion, LockByPoint, ClosureSeesCurrent,
       WritesOwnResult, FileParses, TruncateTmp, WritePart, WriteRest, Goto, files,
       Points, Writing, Reading

LEMMA RenameInv ==
  ASSUME StoreInv, NEW p \in Proc, RenameTmp(p)
  PROVE  StoreInv'
<1>1. pc[p] = "written" /\ pc[p] \in Writing
  BY DEF RenameTmp, Goto, Writing
<1>2. \A q \in Proc : pc[q] \in Writing \cup Reading => q = p
  BY <1>1, OneWriter
<1>3. file' = mem[p] /\ mem[p] \in State
  BY <1>1 DEF StoreInv, WritesOwnResult, RenameTmp
<1>4. TypeOK'
  BY <1>3 DEF StoreInv, TypeOK, RenameTmp, Goto, FileContents, Points, Writing
<1>5. FileParses'
  BY <1>3, DistinctAssumption DEF FileParses
<1>6. ClosureSeesCurrent'
  BY <1>1, <1>2 DEF StoreInv, TypeOK, ClosureSeesCurrent, RenameTmp, Goto, Writing, Reading
<1>7. Exclusion' /\ LockByPoint' /\ WritesOwnResult'
  BY <1>1, <1>2 DEF StoreInv, TypeOK, Exclusion, LockByPoint, WritesOwnResult, RenameTmp,
       Goto, Writing, Reading
<1> QED
  BY <1>4, <1>5, <1>6, <1>7 DEF StoreInv

LEMMA EndInv ==
  ASSUME StoreInv, NEW p \in Proc, Return(p) \/ Abort(p)
  PROVE  StoreInv'
BY DEF StoreInv, TypeOK, Exclusion, LockByPoint, ClosureSeesCurrent, WritesOwnResult,
       FileParses, Return, Abort, Clear, files, Points, Writing, Reading

LEMMA StutterInv == StoreInv /\ UNCHANGED vars => StoreInv'
BY DEF StoreInv, TypeOK, Exclusion, LockByPoint, ClosureSeesCurrent, WritesOwnResult,
       FileParses, vars

LEMMA NextInv == StoreInv /\ [Next]_vars => StoreInv'
<1> SUFFICES ASSUME StoreInv, [Next]_vars PROVE StoreInv'
  OBVIOUS
<1>1. CASE UNCHANGED vars
  BY <1>1, StutterInv
<1>2. CASE Next
  BY <1>2, InvokeInv, LockInv, ReadInv, ClosureInv, TmpInv, RenameInv, EndInv
     DEF Next, Step
<1> QED
  BY <1>1, <1>2

(* Every reachable state satisfies the invariant: the types, that an       *)
(* exclusive flock excludes every other, that closures run on the current  *)
(* state and that state.json parses (state/mod.rs:87-141).                 *)
THEOREM StoreInvariance == Spec => []StoreInv
BY InitInv, NextInv, PTL DEF Spec

(* No with_lock call replaces a state its closure was not given, whatever  *)
(* the number of callers (state/mod.rs:113-126).                           *)
THEOREM NoStaleClosure == Spec => []ClosureSeesCurrent
<1>1. StoreInv => ClosureSeesCurrent
  BY DEF StoreInv
<1> QED
  BY <1>1, StoreInvariance, PTL

(* Only whole documents are ever renamed over state.json                   *)
(* (state/mod.rs:99-108).                                                  *)
THEOREM OnlyWholeDocuments == Spec => WholeDocuments
<1>1. StoreInv /\ [Next]_vars => [file' \in State]_file
  <2> SUFFICES ASSUME StoreInv, Next, file' # file PROVE file' \in State
    BY DEF vars
  <2>1. PICK p \in Proc : RenameTmp(p)
    BY DEF Next, Step, Invoke, InvokeRead, LockExclusive, LockShared, ReadState,
           RunClosure, RefuseClosure, TruncateTmp, WritePart, WriteRest, Return, Abort,
           files
  <2> QED
    BY <2>1 DEF RenameTmp, Goto, StoreInv, WritesOwnResult
<1> QED
  BY <1>1, StoreInvariance, PTL DEF Spec, WholeDocuments

-----------------------------------------------------------------------------
(* The refinement: AtomicStore's variables as StateStore's state.          *)
phaseOf == [p \in Proc |-> Phase[pc[p]]]
gotOf == [p \in Proc |-> IF Phase[pc[p]] \in {"done", "refused"} THEN base[p] ELSE NoState]

LEMMA PhaseValues ==
  /\ Phase["idle"] = "idle"
  /\ Phase["refused"] = "refused"
  /\ Phase["waitS"] = "read" /\ Phase["lockedS"] = "read"
  /\ Phase["loadedS"] = "done" /\ Phase["renamed"] = "done"
  /\ Phase["waitX"] = "update" /\ Phase["lockedX"] = "update"
  /\ Phase["loadedX"] = "update" /\ Phase["applied"] = "update"
  /\ Phase["truncated"] = "update" /\ Phase["partial"] = "update"
  /\ Phase["written"] = "update"
BY DEF Phase, Points, Writing, Reading

(* A step that changes one caller's point changes one phase.               *)
LEMMA PhaseMove ==
  ASSUME TypeOK, NEW p \in Proc, NEW to \in Points, pc' = [pc EXCEPT ![p] = to]
  PROVE  phaseOf' = [phaseOf EXCEPT ![p] = Phase[to]]
BY DEF TypeOK, phaseOf

(* A step between two points of the same phase that keeps the state file   *)
(* is a stutter, unless the phase shows what was read.                     *)
LEMMA SilentStep ==
  ASSUME StoreInv, NEW p \in Proc, NEW from, NEW to \in Points,
         Goto(p, from, to), UNCHANGED <<file, op>>,
         Phase[from] = Phase[to], Phase[to] \in {"update", "read"},
         \/ UNCHANGED base
         \/ base' = [base EXCEPT ![p] = Parsed(file)]
  PROVE  UNCHANGED Atomic!vars
<1>1. phaseOf' = phaseOf
  BY PhaseMove DEF StoreInv, TypeOK, phaseOf, Goto
<1>2. gotOf' = gotOf
  BY DEF StoreInv, TypeOK, gotOf, Goto
<1>3. QED
  BY <1>1, <1>2 DEF Atomic!vars, phaseOf, gotOf

LEMMA InitRefines == Init => Atomic!Init
<1> SUFFICES ASSUME Init PROVE Atomic!Init
  OBVIOUS
<1>1. Parsed(file) \in State
  BY DefaultAssumption DEF Init, Parsed
<1>2. phaseOf = [p \in Proc |-> "idle"]
  BY PhaseValues DEF Init, phaseOf
<1>3. gotOf = [p \in Proc |-> NoState]
  BY PhaseValues DEF Init, gotOf
<1>4. op \in [Proc -> Update]
  BY UpdateAssumption DEF Init
<1> QED
  BY <1>1, <1>2, <1>3, <1>4 DEF Atomic!Init, phaseOf, gotOf

LEMMA InvokeRefines ==
  ASSUME StoreInv, NEW p \in Proc
  PROVE  /\ \A u \in Update : Invoke(p, u) => Atomic!Call(p, u)
         /\ InvokeRead(p) => Atomic!CallRead(p)
<1>1. ASSUME NEW u \in Update, Invoke(p, u) PROVE Atomic!Call(p, u)
  <2>1. phaseOf' = [phaseOf EXCEPT ![p] = Phase["waitX"]]
    BY <1>1, PhaseMove, PhaseValues DEF StoreInv, Invoke, Goto, Points
  <2>2. gotOf' = gotOf
    BY <1>1, PhaseValues DEF StoreInv, TypeOK, Invoke, Goto, gotOf
  <2> QED
    BY <1>1, <2>1, <2>2, PhaseValues
       DEF Atomic!Call, Invoke, Goto, files, phaseOf, gotOf
<1>2. ASSUME InvokeRead(p) PROVE Atomic!CallRead(p)
  <2>1. phaseOf' = [phaseOf EXCEPT ![p] = Phase["waitS"]]
    BY <1>2, PhaseMove, PhaseValues DEF StoreInv, InvokeRead, Goto, Points
  <2>2. gotOf' = gotOf
    BY <1>2, PhaseValues DEF StoreInv, TypeOK, InvokeRead, Goto, gotOf
  <2> QED
    BY <1>2, <2>1, <2>2, PhaseValues
       DEF Atomic!CallRead, InvokeRead, Goto, files, phaseOf, gotOf
<1> QED
  BY <1>1, <1>2

(* The read of a reader is its moment of effect, a writer's is none.       *)
LEMMA ReadRefines ==
  ASSUME StoreInv, NEW p \in Proc, ReadState(p)
  PROVE  Atomic!Observe(p) \/ UNCHANGED Atomic!vars
<1>1. CASE Goto(p, "lockedX", "loadedX")
  BY <1>1, SilentStep, PhaseValues DEF ReadState, files, Points, Writing
<1>2. CASE Goto(p, "lockedS", "loadedS")
  <2>1. phaseOf' = [phaseOf EXCEPT ![p] = Phase["loadedS"]]
    BY <1>2, PhaseMove, PhaseValues DEF StoreInv, Goto, Points, Reading
  <2>2. gotOf' = [gotOf EXCEPT ![p] = Parsed(file)]
    BY <1>2, PhaseValues DEF StoreInv, TypeOK, Goto, ReadState, gotOf
  <2> QED
    BY <1>2, <2>1, <2>2, PhaseValues
       DEF Atomic!Observe, ReadState, Goto, files, phaseOf, gotOf
<1> QED
  BY <1>1, <1>2 DEF ReadState

LEMMA RefuseRefines ==
  ASSUME StoreInv, NEW p \in Proc, RefuseClosure(p)
  PROVE  Atomic!Refuse(p)
<1>1. phaseOf' = [phaseOf EXCEPT ![p] = Phase["refused"]]
  BY PhaseMove, PhaseValues DEF StoreInv, RefuseClosure, Goto, Points
<1>2. gotOf' = [gotOf EXCEPT ![p] = base[p]]
  BY PhaseValues DEF StoreInv, TypeOK, RefuseClosure, Goto, gotOf
<1>3. base[p] = Parsed(file)
  BY DEF StoreInv, ClosureSeesCurrent, RefuseClosure, Goto
<1> QED
  BY <1>1, <1>2, <1>3, PhaseValues
     DEF Atomic!Refuse, RefuseClosure, Goto, files, phaseOf, gotOf

(* The rename installs what the closure made of the very state it          *)
(* replaces.                                                               *)
LEMMA RenameRefines ==
  ASSUME StoreInv, NEW p \in Proc, RenameTmp(p)
  PROVE  Atomic!Commit(p)
<1>1. phaseOf' = [phaseOf EXCEPT ![p] = Phase["renamed"]]
  BY PhaseMove, PhaseValues DEF StoreInv, RenameTmp, Goto, Points, Writing
<1>2. gotOf' = [gotOf EXCEPT ![p] = base[p]]
  BY PhaseValues DEF StoreInv, TypeOK, RenameTmp, Goto, gotOf
<1>3. base[p] = Parsed(file)
  BY DEF StoreInv, ClosureSeesCurrent, RenameTmp, Goto
<1>4. mem[p] \in State /\ mem[p] = Apply[op[p]][base[p]] /\ tmp = mem[p]
  BY DEF StoreInv, WritesOwnResult, RenameTmp, Goto
<1>5. Parsed(file') = mem[p]
  BY <1>4, ParsedState DEF RenameTmp
<1>6. mem[p] # Failed
  BY <1>4, DistinctAssumption
<1> QED
  BY <1>1, <1>2, <1>3, <1>4, <1>5, <1>6, PhaseValues
     DEF Atomic!Commit, RenameTmp, Goto, phaseOf, gotOf

LEMMA EndRefines ==
  ASSUME StoreInv, NEW p \in Proc, Return(p) \/ Abort(p)
  PROVE  Atomic!End(p)
<1>1. pc[p] \in Points \ {"idle"} /\ Phase[pc[p]] # "idle"
  BY PhaseValues DEF StoreInv, TypeOK, Return, Abort, Points, Writing, Reading
<1>2. phaseOf' = [phaseOf EXCEPT ![p] = "idle"]
  BY PhaseMove, PhaseValues DEF StoreInv, Return, Abort, Clear, Points
<1>3. gotOf' = [gotOf EXCEPT ![p] = NoState]
  BY PhaseValues DEF StoreInv, TypeOK, Return, Abort, Clear, gotOf
<1> QED
  BY <1>1, <1>2, <1>3 DEF Atomic!End, Return, Abort, files, phaseOf, gotOf

(* Taking the lock, running the closure and writing state.tmp show to      *)
(* nobody.                                                                 *)
LEMMA HiddenSteps ==
  ASSUME StoreInv, NEW p \in Proc,
         \/ LockExclusive(p) \/ LockShared(p) \/ RunClosure(p)
         \/ TruncateTmp(p) \/ WritePart(p) \/ WriteRest(p)
  PROVE  UNCHANGED Atomic!vars
<1>1. CASE LockExclusive(p) \/ LockShared(p)
  BY <1>1, SilentStep, PhaseValues
     DEF LockExclusive, LockShared, files, Points, Writing, Reading
<1>2. CASE RunClosure(p)
  BY <1>2, SilentStep, PhaseValues DEF RunClosure, files, Points, Writing
<1>3. CASE TruncateTmp(p) \/ WritePart(p) \/ WriteRest(p)
  BY <1>3, SilentStep, PhaseValues DEF TruncateTmp, WritePart, WriteRest, Points, Writing
<1> QED
  BY <1>1, <1>2, <1>3

LEMMA StepRefines == StoreInv /\ [Next]_vars => [Atomic!Next]_Atomic!vars
<1> SUFFICES ASSUME StoreInv, [Next]_vars PROVE [Atomic!Next]_Atomic!vars
  OBVIOUS
<1>1. CASE UNCHANGED vars
  BY <1>1 DEF vars, Atomic!vars
<1>2. CASE Next
  <2> PICK p \in Proc :
        \/ \E u \in Update : Invoke(p, u)
        \/ InvokeRead(p)
        \/ LockExclusive(p) \/ LockShared(p) \/ Step(p) \/ Abort(p)
    BY <1>2 DEF Next
  <2> QED
    BY InvokeRefines, ReadRefines, RefuseRefines, RenameRefines, EndRefines,
       HiddenSteps DEF Step, Atomic!Next
<1> QED
  BY <1>1, <1>2

(* flock, state.tmp and rename make every call of the store one atomic     *)
(* step on the state, for any callers and closures and whatever call is    *)
(* killed where (state/mod.rs:87-141, state/lock.rs).                      *)
THEOREM StoreRefinesAtomicStore == Spec => StoreIsAtomic
BY InitRefines, StepRefines, StoreInvariance, PTL DEF Spec, StoreIsAtomic, Atomic!Spec
=============================================================================
