---------------------------- MODULE AtomicStore ----------------------------
(***************************************************************************)
(* What StateStore promises its callers: every with_lock call is one       *)
(* atomic read-modify-write of the state, every with_read_lock call sees   *)
(* one committed state, and a call that fails or is killed either took     *)
(* effect as a whole or not at all.  docs.md:982 puts it as "Writes are    *)
(* atomic ... Concurrent CLI invocations are safe."                        *)
(***************************************************************************)
CONSTANTS
  Proc,      \* callers: CLI processes, and threads of one process
  State,     \* contents of state.json, once parsed
  Default,   \* State::default()
  Update,    \* the closures given to with_lock
  Apply,     \* Apply[u][s]: the state closure u leaves, or Failed
  Failed,    \* a closure returned Err
  NoState    \* nothing has been observed

VARIABLES
  st,        \* the committed state
  phase,     \* where each call stands
  op,        \* the closure of each with_lock call
  got        \* the state a finished call's closure was given

vars == <<st, phase, op, got>>

Init ==
  /\ st \in State
  /\ phase = [p \in Proc |-> "idle"]
  /\ op \in [Proc -> Update]
  /\ got = [p \in Proc |-> NoState]

Call(p, u) ==
  /\ phase[p] = "idle"
  /\ phase' = [phase EXCEPT ![p] = "update"]
  /\ op' = [op EXCEPT ![p] = u]
  /\ UNCHANGED <<st, got>>

CallRead(p) ==
  /\ phase[p] = "idle"
  /\ phase' = [phase EXCEPT ![p] = "read"]
  /\ UNCHANGED <<st, op, got>>

(* The closure was given the state it replaces: nothing comes in between.  *)
Commit(p) ==
  /\ phase[p] = "update"
  /\ Apply[op[p]][st] # Failed
  /\ st' = Apply[op[p]][st]
  /\ got' = [got EXCEPT ![p] = st]
  /\ phase' = [phase EXCEPT ![p] = "done"]
  /\ UNCHANGED op

(* A closure's error is decided on the state of one moment, too.           *)
Refuse(p) ==
  /\ phase[p] = "update"
  /\ Apply[op[p]][st] = Failed
  /\ got' = [got EXCEPT ![p] = st]
  /\ phase' = [phase EXCEPT ![p] = "refused"]
  /\ UNCHANGED <<st, op>>

Observe(p) ==
  /\ phase[p] = "read"
  /\ got' = [got EXCEPT ![p] = st]
  /\ phase' = [phase EXCEPT ![p] = "done"]
  /\ UNCHANGED <<st, op>>

(* The call returns, fails, or its process is killed.                      *)
End(p) ==
  /\ phase[p] # "idle"
  /\ phase' = [phase EXCEPT ![p] = "idle"]
  /\ got' = [got EXCEPT ![p] = NoState]
  /\ UNCHANGED <<st, op>>

Next ==
  \E p \in Proc :
    \/ \E u \in Update : Call(p, u)
    \/ CallRead(p)
    \/ Commit(p)
    \/ Refuse(p)
    \/ Observe(p)
    \/ End(p)

Spec == Init /\ [][Next]_vars
=============================================================================
