----------------------------- MODULE StateStore -----------------------------
(***************************************************************************)
(* The state file of clawstainer, src/src/state/mod.rs and state/lock.rs:  *)
(* every access opens state.lock, takes flock on it (exclusive in          *)
(* with_lock, shared in with_read_lock), reads state.json, runs a closure, *)
(* and with_lock then writes state.tmp and renames it over state.json.     *)
(*                                                                         *)
(* Proc is every CLI process and every thread of one: each call opens the  *)
(* lock file itself, so two threads exclude each other as two processes    *)
(* do.  Both a returned error and a kill close that descriptor, which      *)
(* releases the lock and leaves the files as they are.                     *)
(***************************************************************************)
CONSTANTS
  Proc,      \* callers of the store
  State,     \* values a state file can hold
  Default,   \* State::default()
  Update,    \* the closures given to with_lock
  Apply,     \* Apply[u][s]: what closure u makes of s, or Failed
  Failed,    \* the closure returned Err
  NoState,   \* a State local that is not set
  Missing,   \* the file does not exist
  Empty,     \* the file exists and holds nothing but white space
  Garbage    \* the file holds part of a document: it does not parse

ASSUME DefaultAssumption == Default \in State
ASSUME ApplyAssumption == Apply \in [Update -> [State -> State \cup {Failed}]]
ASSUME UpdateAssumption == Update # {}
ASSUME DistinctAssumption ==
  /\ Failed \notin State
  /\ NoState \notin State
  /\ {Missing, Empty, Garbage} \cap State = {}
  /\ Garbage # Missing /\ Garbage # Empty /\ Missing # Empty

VARIABLES
  file,      \* state.json
  tmp,       \* state.tmp
  mode,      \* mode[p]: the flock p holds on state.lock
  pc,        \* pc[p]: where p's call stands
  op,        \* op[p]: the closure of p's with_lock call
  base,      \* base[p]: the state p's closure was given
  mem        \* mem[p]: the state p is to write

vars == <<file, tmp, mode, pc, op, base, mem>>
files == <<file, tmp>>

FileContents == State \cup {Missing, Empty, Garbage}

(* Points of with_lock while the exclusive lock is held ...                *)
Writing == {"lockedX", "loadedX", "applied", "truncated", "partial",
            "written", "renamed"}
(* ... and of with_read_lock while the shared lock is held.                *)
Reading == {"lockedS", "loadedS"}
Points == {"idle", "waitX", "waitS", "refused"} \cup Writing \cup Reading

(* read_state: a missing or empty file is the default state.               *)
Parsed(f) == IF f \in {Missing, Empty} THEN Default ELSE f

Init ==
  /\ file \in State \cup {Missing, Empty}
  /\ tmp = Missing
  /\ mode = [p \in Proc |-> "none"]
  /\ pc = [p \in Proc |-> "idle"]
  /\ op = [p \in Proc |-> CHOOSE u \in Update : TRUE]
  /\ base = [p \in Proc |-> NoState]
  /\ mem = [p \in Proc |-> NoState]

Goto(p, from, to) ==
  /\ pc[p] = from
  /\ pc' = [pc EXCEPT ![p] = to]

(* with_lock and with_read_lock up to FileLock::new.                       *)
Invoke(p, u) ==
  /\ Goto(p, "idle", "waitX")
  /\ op' = [op EXCEPT ![p] = u]
  /\ UNCHANGED <<files, mode, base, mem>>

InvokeRead(p) ==
  /\ Goto(p, "idle", "waitS")
  /\ UNCHANGED <<files, mode, op, base, mem>>

(* flock(LOCK_EX) blocks while another descriptor holds any lock,          *)
(* flock(LOCK_SH) while another holds the exclusive one.                   *)
SharedGranted == \A q \in Proc : mode[q] # "exclusive"
ExclusiveGranted == \A q \in Proc : mode[q] = "none"

(* Mutant: with_lock takes the shared lock.                                *)
LockExclusiveAsShared(p) ==
  /\ Goto(p, "waitX", "lockedX")
  /\ SharedGranted
  /\ mode' = [mode EXCEPT ![p] = "shared"]
  /\ UNCHANGED <<files, op, base, mem>>

LockExclusive(p) ==
  /\ Goto(p, "waitX", "lockedX")
  /\ ExclusiveGranted
  /\ mode' = [mode EXCEPT ![p] = "exclusive"]
  /\ UNCHANGED <<files, op, base, mem>>

LockShared(p) ==
  /\ Goto(p, "waitS", "lockedS")
  /\ SharedGranted
  /\ mode' = [mode EXCEPT ![p] = "shared"]
  /\ UNCHANGED <<files, op, base, mem>>

(* read_state under either lock.  A file that does not parse is an error,  *)
(* which is Abort.                                                         *)
ReadState(p) ==
  /\ file # Garbage
  /\ \/ Goto(p, "lockedX", "loadedX")
     \/ Goto(p, "lockedS", "loadedS")
  /\ base' = [base EXCEPT ![p] = Parsed(file)]
  /\ UNCHANGED <<files, mode, op, mem>>

(* Mutant: the lock covers the closure and not the write.                  *)
RunClosureUnlocking(p) ==
  /\ Goto(p, "loadedX", "applied")
  /\ Apply[op[p]][base[p]] # Failed
  /\ mem' = [mem EXCEPT ![p] = Apply[op[p]][base[p]]]
  /\ mode' = [mode EXCEPT ![p] = "none"]
  /\ UNCHANGED <<files, op, base>>

(* f(&mut state)? succeeds: the new state is in memory only.               *)
RunClosure(p) ==
  /\ Goto(p, "loadedX", "applied")
  /\ Apply[op[p]][base[p]] # Failed
  /\ mem' = [mem EXCEPT ![p] = Apply[op[p]][base[p]]]
  /\ UNCHANGED <<files, mode, op, base>>

(* f(&mut state)? fails: nothing is written, the lock goes with the        *)
(* FileLock value.                                                         *)
RefuseClosure(p) ==
  /\ Goto(p, "loadedX", "refused")
  /\ Apply[op[p]][base[p]] = Failed
  /\ mode' = [mode EXCEPT ![p] = "none"]
  /\ UNCHANGED <<files, op, base, mem>>

(* write_state: std::fs::write truncates state.tmp and fills it, in one    *)
(* write or several.                                                       *)
TruncateTmp(p) ==
  /\ Goto(p, "applied", "truncated")
  /\ tmp' = Empty
  /\ UNCHANGED <<file, mode, op, base, mem>>

(* Mutant: the new document is written over state.json itself.             *)
WritePartInPlace(p) ==
  /\ Goto(p, "truncated", "partial")
  /\ file' = Garbage
  /\ UNCHANGED <<tmp, mode, op, base, mem>>

WritePart(p) ==
  /\ Goto(p, "truncated", "partial")
  /\ tmp' = Garbage
  /\ UNCHANGED <<file, mode, op, base, mem>>

(* Mutant: the error of a write cut short is ignored.                      *)
WriteRestIgnoringErrors(p) ==
  /\ \/ Goto(p, "truncated", "written")
     \/ Goto(p, "partial", "written")
  /\ tmp' \in {tmp, mem[p]}
  /\ UNCHANGED <<file, mode, op, base, mem>>

WriteRest(p) ==
  /\ \/ Goto(p, "truncated", "written")
     \/ Goto(p, "partial", "written")
  /\ tmp' = mem[p]
  /\ UNCHANGED <<file, mode, op, base, mem>>

RenameTmp(p) ==
  /\ Goto(p, "written", "renamed")
  /\ tmp # Missing
  /\ file' = tmp
  /\ tmp' = Missing
  /\ UNCHANGED <<mode, op, base, mem>>

(* Mutant: the descriptor of state.lock stays open.                        *)
ClearKeepingLock(p) ==
  /\ pc' = [pc EXCEPT ![p] = "idle"]
  /\ base' = [base EXCEPT ![p] = NoState]
  /\ mem' = [mem EXCEPT ![p] = NoState]
  /\ UNCHANGED mode

(* The end of a call: its lock is gone.                                     *)
Clear(p) ==
  /\ pc' = [pc EXCEPT ![p] = "idle"]
  /\ mode' = [mode EXCEPT ![p] = "none"]
  /\ base' = [base EXCEPT ![p] = NoState]
  /\ mem' = [mem EXCEPT ![p] = NoState]

Return(p) ==
  /\ pc[p] \in {"renamed", "loadedS", "refused"}
  /\ Clear(p)
  /\ UNCHANGED <<files, op>>

(* Any other error of a call (open, flock, read, parse, write, rename) and *)
(* the death of its process, at any point.                                 *)
Abort(p) ==
  /\ pc[p] # "idle"
  /\ Clear(p)
  /\ UNCHANGED <<files, op>>

Step(p) ==
  \/ ReadState(p)
  \/ RunClosure(p)
  \/ RefuseClosure(p)
  \/ TruncateTmp(p)
  \/ WritePart(p)
  \/ WriteRest(p)
  \/ RenameTmp(p)
  \/ Return(p)

Next ==
  \E p \in Proc :
    \/ \E u \in Update : Invoke(p, u)
    \/ InvokeRead(p)
    \/ LockExclusive(p)
    \/ LockShared(p)
    \/ Step(p)
    \/ Abort(p)

Spec == Init /\ [][Next]_vars

(* A call that holds the lock goes on: between lock and unlock there is    *)
(* only file I/O and the closure.  Nothing is assumed of who gets the lock *)
(* next, nor that anyone calls, fails or dies.                             *)
FairSpec == Spec /\ \A p \in Proc : WF_vars(Step(p))

-----------------------------------------------------------------------------
(* The types of the state file, its temporary file and every call.         *)
TypeOK ==
  /\ file \in FileContents
  /\ tmp \in FileContents
  /\ mode \in [Proc -> {"none", "shared", "exclusive"}]
  /\ pc \in [Proc -> Points]
  /\ op \in [Proc -> Update]
  /\ base \in [Proc -> State \cup {NoState}]
  /\ mem \in [Proc -> State \cup {NoState}]

(* An exclusive flock is held beside no other lock ...                     *)
Exclusion ==
  \A p, q \in Proc : p # q /\ mode[p] = "exclusive" => mode[q] = "none"

(* ... and a call holds the lock its point in the code says.               *)
LockByPoint ==
  \A p \in Proc :
    /\ pc[p] \in Writing <=> mode[p] = "exclusive"
    /\ pc[p] \in Reading <=> mode[p] = "shared"

(* Whatever a closure was given under the lock is still what state.json    *)
(* holds while it runs and until its own result replaces it: no            *)
(* with_lock call overwrites an update it has not seen (state/mod.rs:      *)
(* 113-126), and no reader works on a replaced state (129-141).            *)
ClosureSeesCurrent ==
  \A p \in Proc :
    pc[p] \in {"loadedS", "loadedX", "applied", "truncated", "partial", "written"}
      => base[p] = Parsed(file)

(* What a call is about to write is its closure's result, and the file it  *)
(* renames is its own.                                                     *)
WritesOwnResult ==
  \A p \in Proc :
    /\ pc[p] \in {"applied", "truncated", "partial", "written", "renamed"}
         => mem[p] \in State /\ mem[p] = Apply[op[p]][base[p]]
    /\ pc[p] \in {"loadedS", "loadedX", "applied", "truncated", "partial",
                   "written", "renamed", "refused"}
         => base[p] \in State
    /\ pc[p] = "written" => tmp = mem[p]

(* The state file always parses, whatever write was cut short.             *)
FileParses == file # Garbage

(* The inductive invariant.                                                *)
StoreInv ==
  /\ TypeOK
  /\ Exclusion
  /\ LockByPoint
  /\ ClosureSeesCurrent
  /\ WritesOwnResult
  /\ FileParses

(* state.json changes only to a whole document (write_state renames        *)
(* nothing else over it), even when calls die in the middle of writing     *)
(* state.tmp and others reuse it: state/mod.rs:99-108.                     *)
WholeDocuments == [][file' \in State]_file

(* Whoever holds the lock gives it up, on every path through with_lock and *)
(* with_read_lock: a refused closure, an error or a kill leaves no lock    *)
(* behind that would block every later invocation.                         *)
LockReleased == \A p \in Proc : mode[p] # "none" ~> mode[p] = "none"

-----------------------------------------------------------------------------
(* An update takes effect at its rename, a read when the file is read.     *)
Phase ==
  [point \in Points |->
    IF point \in {"idle", "refused"} THEN point
    ELSE IF point \in {"waitS", "lockedS"} THEN "read"
    ELSE IF point \in {"renamed", "loadedS"} THEN "done"
    ELSE "update"]

Atomic == INSTANCE AtomicStore WITH
  st <- Parsed(file),
  phase <- [p \in Proc |-> Phase[pc[p]]],
  got <- [p \in Proc |-> IF Phase[pc[p]] \in {"done", "refused"}
                         THEN base[p] ELSE NoState]

(* The lock, the temporary file and the rename together make every call    *)
(* one atomic step on the state, kills and errors included.                *)
StoreIsAtomic == Atomic!Spec
=============================================================================
