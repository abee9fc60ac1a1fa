---------------------------- MODULE Provisioner ----------------------------
(***************************************************************************)
(* src/src/component: the resolution of component and bundle names, and    *)
(* the provisioning of one machine by one worker, which is the `provision` *)
(* command or a thread of `fleet create`. A worker runs commands in the    *)
(* guest for minutes and only then tells the state file, while others      *)
(* create, provision and destroy machines.                                 *)
(***************************************************************************)
EXTENDS Integers, SequencesExt

CONSTANTS
  Id, Absent, Group, NoGroup,
  Worker,
  Component,
  Bundle      \* the components.yaml: bundle names with their components

ASSUME BundleAssumption == \A b \in DOMAIN Bundle : Bundle[b] \in Seq(Component)
ASSUME AbsentAssumption ==
  Absent \notin Id \cup [group : Group \cup {NoGroup}, components : Seq(Component)]

VARIABLES
  machines,   \* state.json: fleet_name and components of each machine
  verified,   \* history: the components whose verify command succeeded in a guest
  step,       \* where each worker stands
  target,     \* its machine
  todo,       \* the resolved components still to install, the current one first
  ok,         \* those that were installed and verified
  outcome     \* what became of it

Machine == [group : Group \cup {NoGroup}, components : Seq(Component)]
Recorded == {i \in Id : machines[i] # Absent}

provisionVars == <<machines, verified, step, target, todo, ok, outcome>>

Provisioning == {"install", "verify", "save"}
Steps == Provisioning \cup {"none", "start", "settle", "report", "ended", "panicked", "killed"}

ProvisionerTypeOK ==
  /\ machines \in [Id -> Machine \cup {Absent}]
  /\ verified \in [Id -> SUBSET Component]
  /\ step \in [Worker -> Steps]
  /\ target \in [Worker -> Id \cup {Absent}]
  /\ todo \in [Worker -> Seq(Component)]
  /\ ok \in [Worker -> Seq(Component)]
  /\ outcome \in [Worker -> {"none", "ok", "partial", "error", "unopened"}]

ProvisionerInit ==
  /\ machines = [i \in Id |-> Absent]
  /\ verified = [i \in Id |-> {}]
  /\ step = [w \in Worker |-> "none"]
  /\ target = [w \in Worker |-> Absent]
  /\ todo = [w \in Worker |-> <<>>]
  /\ ok = [w \in Worker |-> <<>>]
  /\ outcome = [w \in Worker |-> "none"]
-----------------------------------------------------------------------------
(* resolve_components                                                      *)

Known(name) == name \in DOMAIN Bundle \cup Component

Expansion(name) == IF name \in DOMAIN Bundle THEN Bundle[name] ELSE <<name>>

AppendNew(s, c) == IF Contains(s, c) THEN s ELSE Append(s, c)

(* The loop over the components of one name: s with those it lacks.         *)
Extended(s, t) ==
  LET upto[k \in 0 .. Len(t)] == IF k = 0 THEN s ELSE AppendNew(upto[k - 1], t[k])
  IN upto[Len(t)]

(* The loop over the names: bundles are expanded in place.                 *)
Resolved(names) ==
  LET upto[k \in 0 .. Len(names)] ==
        IF k = 0 THEN <<>> ELSE Extended(upto[k - 1], Expansion(names[k]))
  IN upto[Len(names)]
-----------------------------------------------------------------------------
(* provision: w starts on machine i; one unknown name is an error before   *)
(* anything is done.                                                       *)
BeginProvision(w, i, names) ==
  /\ target' = [target EXCEPT ![w] = i]
  /\ IF \A n \in DOMAIN names : Known(names[n])
       THEN LET components == Resolved(names)
            IN /\ todo' = [todo EXCEPT ![w] = components]
               /\ step' = [step EXCEPT ![w] = IF components = <<>> THEN "save" ELSE "install"]
               /\ UNCHANGED outcome
       ELSE /\ outcome' = [outcome EXCEPT ![w] = "error"]
            /\ step' = [step EXCEPT ![w] = "settle"]
            /\ UNCHANGED todo
  /\ UNCHANGED <<machines, verified, ok>>

(* The loop goes on to the next component, also after a failure.           *)
NextComponent(w) ==
  /\ todo' = [todo EXCEPT ![w] = Tail(@)]
  /\ step' = [step EXCEPT ![w] = IF Len(todo[w]) = 1 THEN "save" ELSE "install"]

(* The guest answers as long as the machine is there; that it may stop by  *)
(* itself is in CommandFails, which is always possible.                    *)
InstallSucceeds(w) ==
  /\ step[w] = "install" /\ target[w] \in Recorded
  /\ step' = [step EXCEPT ![w] = "verify"]
  /\ UNCHANGED <<machines, verified, target, todo, ok, outcome>>

(* Mutant: every component that was tried counts as installed.             *)
CommandFailsUnfiltered(w) ==
  /\ step[w] \in {"install", "verify"}
  /\ ok' = [ok EXCEPT ![w] = Append(@, Head(todo[w]))]
  /\ outcome' = [outcome EXCEPT ![w] = "partial"]
  /\ NextComponent(w)
  /\ UNCHANGED <<machines, verified, target>>

(* A command that fails, or none at all: no guest, no agent, a timeout.    *)
CommandFails(w) ==
  /\ step[w] \in {"install", "verify"}
  /\ outcome' = [outcome EXCEPT ![w] = "partial"]
  /\ NextComponent(w)
  /\ UNCHANGED <<machines, verified, target, ok>>

VerifySucceeds(w) ==
  /\ step[w] = "verify" /\ target[w] \in Recorded
  /\ verified' = [verified EXCEPT ![target[w]] = @ \cup {Head(todo[w])}]
  /\ ok' = [ok EXCEPT ![w] = Append(@, Head(todo[w]))]
  /\ NextComponent(w)
  /\ UNCHANGED <<machines, target, outcome>>

(* provision returns Ok; the list of results has served its purpose.       *)
Settled(w) ==
  /\ step' = [step EXCEPT ![w] = "settle"]
  /\ outcome' = [outcome EXCEPT ![w] = IF @ = "none" THEN "ok" ELSE @]
  /\ ok' = [ok EXCEPT ![w] = <<>>]
  /\ UNCHANGED <<verified, target, todo>>

(* Mutant: a machine destroyed meanwhile is entered again.                 *)
SaveOrInsert(w) ==
  /\ step[w] = "save"
  /\ LET i == target[w]
     IN machines' =
          IF ok[w] = <<>> THEN machines
          ELSE [machines EXCEPT ![i] =
                 IF @ = Absent THEN [group |-> NoGroup, components |-> ok[w]]
                 ELSE [@ EXCEPT !.components = @ \o ok[w]]]
  /\ Settled(w)

(* with_lock: the components that are ok are appended to the record's, if  *)
(* there is still one; with none the state is not touched.                 *)
Save(w) ==
  /\ step[w] = "save"
  /\ machines' =
       IF target[w] \in Recorded /\ ok[w] # <<>>
         THEN [machines EXCEPT ![target[w]].components = @ \o ok[w]]
         ELSE machines
  /\ Settled(w)

(* Mutant: an error of the store is passed over.                           *)
SaveErrorIgnored(w) ==
  /\ step[w] = "save" /\ ok[w] # <<>>
  /\ Settled(w)
  /\ UNCHANGED machines

(* The store's `?`.                                                        *)
SaveFails(w) ==
  /\ step[w] = "save" /\ ok[w] # <<>>
  /\ outcome' = [outcome EXCEPT ![w] = "error"]
  /\ step' = [step EXCEPT ![w] = "settle"]
  /\ ok' = [ok EXCEPT ![w] = <<>>]
  /\ UNCHANGED <<machines, verified, target, todo>>

(* exec panics when it cuts the output inside a character, and so does     *)
(* every print once nobody reads stderr.                                   *)
ExecPanics(w) ==
  /\ step[w] \in {"install", "verify"}
  /\ step' = [step EXCEPT ![w] = "panicked"]
  /\ todo' = [todo EXCEPT ![w] = <<>>]
  /\ ok' = [ok EXCEPT ![w] = <<>>]
  /\ outcome' = [outcome EXCEPT ![w] = "none"]
  /\ UNCHANGED <<machines, verified, target>>

ProvisionStep(w) ==
  \/ InstallSucceeds(w) \/ CommandFails(w) \/ VerifySucceeds(w)
  \/ Save(w) \/ SaveFails(w) \/ ExecPanics(w)
-----------------------------------------------------------------------------
(* Another invocation destroys a machine.                                  *)
DestroyElsewhere(i) ==
  /\ i \in Recorded
  /\ machines' = [machines EXCEPT ![i] = Absent]
  /\ UNCHANGED <<verified, step, target, todo, ok, outcome>>
-----------------------------------------------------------------------------
(* The components a record lists were verified in that machine: whatever   *)
(* fails, panics or is destroyed during the installation, and however many *)
(* workers provision the machine (provisioner.rs:117-127).                 *)
RecordedAreInstalled ==
  \A i \in Recorded : ToSet(machines[i].components) \subseteq verified[i]
=============================================================================
