------------------------------- MODULE Fleet -------------------------------
(***************************************************************************)
(* src/src/commands/fleet.rs: `fleet create`, whose main thread creates    *)
(* the machines one by one and then provisions them in chunks of threads,  *)
(* `fleet destroy`, and beside them `provision` commands and destroys of   *)
(* other invocations. A machine is created in one step here; NspawnRuntime *)
(* and FirecrackerRuntime have the steps.                                  *)
(***************************************************************************)
EXTENDS Provisioner

CONSTANTS
  Threads,      \* how many workers are threads of fleet create
  NoProvision,  \* the definition has no `provision`
  Scenes,       \* the settings fleet create is looked at in: file, --parallel, rivals
  Requests,     \* names a `provision` command may be given
  Nobody        \* the mutex is free

ASSUME ThreadsAssumption == Threads \in Nat /\ 1 .. Threads \subseteq Worker
ASSUME IdAssumption == Id = 1 .. Threads
ASSUME NobodyAssumption == Nobody \notin Worker

(* A fleet file, a sequence of [group, count, provision]; the value of     *)
(* --parallel; and what may go on beside the command.                      *)
Rivals == {"destroy", "fleetDestroy", "provision", "stderr"}
Asked == UNION {{s.file[d].provision : d \in DOMAIN s.file} : s \in Scenes}
Definition == [group : Group, count : Nat, provision : Asked]
ASSUME ScenesAssumption ==
  \A s \in Scenes :
    s.file \in Seq(Definition) /\ s.parallel \in Nat /\ s.beside \subseteq Rivals
ASSUME RequestsAssumption == \A names \in Requests : names \in Seq(ToSet(names))

Thread == 1 .. Threads
Command == Worker \ Thread

VARIABLES
  plan,         \* the machines to create, one entry each; never changes
  parallel,     \* --parallel; never changes
  beside,       \* what goes on beside fleet create; never changes
  main,         \* where the main thread stands
  info,         \* the machine just created
  results,      \* Vec<FleetMachineResult>: id, and provision_status
  pending,      \* Vec<PendingProvision>: id, name and index into results
  created, failed,            \* the counts of the first pass
  spawned, joined,            \* how many threads were started and joined
  owner, poisoned,            \* the mutex around results
  provisioned, provFailed,    \* the counters behind the other two mutexes
  stderr,       \* is there still a reader of stderr? If not, printing panics
  unmarked,     \* history: machines whose fleet_name could not be set
  destroyer     \* the `fleet destroy`: targets to go, those destroyed, failed

mainVars == <<plan, parallel, beside, main, info, results, pending, created, failed,
              spawned, joined, unmarked>>
mutexVars == <<owner, poisoned, provisioned, provFailed>>
fleetVars == <<provisionVars, mainVars, mutexVars, stderr, destroyer>>

Result == [id : Id \cup {Absent}, status : {"none", "ok", "partial", "error"}]
Pending == [id : Id, name : Asked, index : Nat \ {0}]

FleetTypeOK ==
  /\ ProvisionerTypeOK
  /\ main \in {"create", "mark", "provision", "done", "dead"}
  /\ info \in Id \cup {Absent}
  /\ results \in Seq(Result)
  /\ pending \in Seq(Pending)
  /\ \A k \in DOMAIN pending :
       /\ pending[k].index \in DOMAIN results
       /\ pending[k].id = results[pending[k].index].id
  /\ created + failed = Len(results)
  /\ joined <= spawned /\ spawned <= Len(pending)
  /\ owner \in Thread \cup {Nobody} /\ poisoned \in BOOLEAN
  /\ stderr \in BOOLEAN
  /\ unmarked \subseteq Id
  /\ destroyer \in [left : SUBSET Id, found : SUBSET Id, group : Group \cup {NoGroup},
                    all : BOOLEAN, destroyed : SUBSET Id, failed : SUBSET Id, marked : SUBSET Id,
                    at : {"idle", "destroying", "done"}]

(* One entry for each of the `count` machines of each definition.          *)
Planned(file) ==
  LET upto[d \in 0 .. Len(file)] ==
        IF d = 0 THEN <<>>
        ELSE upto[d - 1] \o [k \in 1 .. file[d].count |-> file[d]]
  IN upto[Len(file)]

FleetInit ==
  /\ ProvisionerInit
  /\ \E s \in Scenes :
       plan = Planned(s.file) /\ parallel = s.parallel /\ beside = s.beside
  /\ main = "create"
  /\ info = Absent
  /\ results = <<>> /\ pending = <<>>
  /\ created = 0 /\ failed = 0
  /\ spawned = 0 /\ joined = 0
  /\ owner = Nobody /\ poisoned = FALSE
  /\ provisioned = 0 /\ provFailed = 0
  /\ stderr = TRUE
  /\ unmarked = {}
  /\ destroyer = [left |-> {}, found |-> {}, group |-> NoGroup, all |-> FALSE, destroyed |-> {},
                  failed |-> {}, marked |-> {}, at |-> "idle"]

(* Mutant: the definition is found by the count of created machines.       *)
CurrentByCreated == plan[created + 1]

Current == plan[Len(results) + 1]
-----------------------------------------------------------------------------
(* create_fleet_machines                                                   *)

(* The runtime's create returned a machine; its record has no fleet_name.  *)
(* Ids are random; here a machine's id is its number in the plan.          *)
CreateNext(i) ==
  /\ main = "create" /\ stderr
  /\ Len(results) < Len(plan) /\ i = Len(results) + 1
  /\ machines' = [machines EXCEPT ![i] = [group |-> NoGroup, components |-> <<>>]]
  /\ info' = i
  /\ main' = "mark"
  /\ UNCHANGED <<verified, step, target, todo, ok, outcome, plan, parallel, beside, results,
                 pending, created, failed, spawned, joined, unmarked, mutexVars,
                 stderr, destroyer>>

CreateNextFails ==
  /\ main = "create" /\ stderr
  /\ Len(results) < Len(plan)
  /\ failed' = failed + 1
  /\ results' = Append(results, [id |-> Absent, status |-> "none"])
  /\ UNCHANGED <<provisionVars, plan, parallel, beside, main, info, pending, created, spawned,
                 joined, unmarked, mutexVars, stderr, destroyer>>

(* Mutant: the index is that of the plan of pending machines.              *)
EnqueueOwnIndex(k) ==
  pending' = IF Current.provision = NoProvision THEN pending
             ELSE Append(pending, [id |-> info, name |-> Current.provision,
                                   index |-> Len(pending) + 1])

Enqueue(k) ==
  pending' = IF Current.provision = NoProvision THEN pending
             ELSE Append(pending, [id |-> info, name |-> Current.provision, index |-> k])

SetFleetName(i) ==
  IF i \in Recorded
    THEN [machines EXCEPT ![i].group = Current.group]
    ELSE machines

(* A second transaction gives the record its fleet_name; an error of the   *)
(* store is dropped, and so is a record that is gone.                      *)
MarkFleet ==
  /\ main = "mark" /\ stderr
  /\ \/ machines' = SetFleetName(info) /\ UNCHANGED unmarked
     \/ unmarked' = unmarked \cup {info} /\ UNCHANGED machines
  /\ created' = created + 1
  /\ results' = Append(results, [id |-> info, status |-> "none"])
  /\ Enqueue(Len(results) + 1)
  /\ info' = Absent
  /\ main' = "create"
  /\ UNCHANGED <<verified, step, target, todo, ok, outcome, plan, parallel, beside, failed,
                 spawned, joined, mutexVars, stderr, destroyer>>

(* With every machine tried and nothing to provision the command is done.  *)
EndFirstPass ==
  /\ main = "create" /\ Len(results) = Len(plan)
  /\ stderr
  /\ main' = IF pending = <<>> THEN "done" ELSE "provision"
  /\ UNCHANGED <<provisionVars, plan, parallel, beside, info, results, pending, created, failed,
                 spawned, joined, unmarked, mutexVars, stderr, destroyer>>
-----------------------------------------------------------------------------
(* provision_fleet_machines: the main thread                               *)

(* Mutant: 0 is taken as it is given, "no limit".                          *)
ChunkUnlimited == IF parallel = 0 THEN Len(pending) ELSE parallel

ChunkSize == IF parallel = 0 THEN 1 ELSE parallel
ChunkEnd == Min({spawned + ChunkSize, Len(pending)})

(* All threads of a chunk are started at once.                             *)
SpawnChunk ==
  /\ main = "provision" /\ stderr
  /\ joined = spawned /\ spawned < Len(pending)
  /\ step' = [w \in Worker |->
                IF w \in Thread /\ w \in spawned + 1 .. ChunkEnd THEN "start" ELSE step[w]]
  /\ spawned' = ChunkEnd
  /\ UNCHANGED <<machines, verified, target, todo, ok, outcome, plan, parallel, beside, main,
                 info, results, pending, created, failed, joined, unmarked, mutexVars,
                 stderr, destroyer>>

(* Mutant: a thread that panicked is only printed.                         *)
JoinIgnoringPanic ==
  /\ main = "provision" /\ joined < spawned
  /\ step[joined + 1] \in {"ended", "panicked"}
  /\ joined' = joined + 1
  /\ UNCHANGED <<provisionVars, plan, parallel, beside, main, info, results, pending, created,
                 failed, spawned, unmarked, owner, poisoned, provisioned, provFailed, stderr,
                 destroyer>>

(* The threads of the chunk are joined in order; one that panicked counts  *)
(* as a failure, and its result keeps no status.                           *)
JoinNext ==
  /\ main = "provision" /\ joined < spawned
  /\ \/ step[joined + 1] = "ended" /\ UNCHANGED provFailed
     \/ step[joined + 1] = "panicked" /\ stderr /\ provFailed' = provFailed + 1
  /\ joined' = joined + 1
  /\ UNCHANGED <<provisionVars, plan, parallel, beside, main, info, results, pending, created,
                 failed, spawned, unmarked, owner, poisoned, provisioned, stderr, destroyer>>

(* The summary; poison of the results is ignored here.                     *)
Summarise ==
  /\ main = "provision" /\ stderr
  /\ joined = Len(pending)
  /\ main' = "done"
  /\ UNCHANGED <<provisionVars, plan, parallel, beside, info, results, pending, created, failed,
                 spawned, joined, unmarked, mutexVars, stderr, destroyer>>
-----------------------------------------------------------------------------
(* provision_fleet_machines: a thread                                      *)

StartThread(t) ==
  /\ step[t] = "start" /\ stderr
  /\ BeginProvision(t, pending[t].id, <<pending[t].name>>)
  /\ UNCHANGED <<mainVars, mutexVars, stderr, destroyer>>

(* Provisioner::new or StateStore::new fails; what is to print is printed  *)
(* before the mutex is taken.                                              *)
CannotOpen(t) ==
  /\ step[t] = "start" /\ stderr
  /\ step' = [step EXCEPT ![t] = "settle"]
  /\ outcome' = [outcome EXCEPT ![t] = "unopened"]
  /\ UNCHANGED <<machines, verified, target, todo, ok, mainVars, mutexVars, stderr,
                 destroyer>>

(* `results.lock().unwrap()`, a panic if another thread left it poisoned.  *)
LockResults(t) ==
  /\ step[t] = "settle" /\ owner = Nobody
  /\ IF poisoned
       THEN /\ step' = [step EXCEPT ![t] = "panicked"]
            /\ outcome' = [outcome EXCEPT ![t] = "none"]
            /\ UNCHANGED owner
       ELSE /\ step' = [step EXCEPT ![t] = "report"]
            /\ owner' = t
            /\ UNCHANGED outcome
  /\ UNCHANGED <<machines, verified, target, todo, ok, mainVars, poisoned,
                 provisioned, provFailed, stderr, destroyer>>

Status(t) == IF outcome[t] = "unopened" THEN "error" ELSE outcome[t]
Prints(t) == outcome[t] # "unopened"

(* The result's status and one of the counters, with the mutex held.       *)
Report(t) ==
  /\ step[t] = "report" /\ (Prints(t) => stderr)
  /\ results' = [results EXCEPT ![pending[t].index].status = Status(t)]
  /\ IF Status(t) = "error"
       THEN provFailed' = provFailed + 1 /\ UNCHANGED provisioned
       ELSE provisioned' = provisioned + 1 /\ UNCHANGED provFailed
  /\ owner' = Nobody
  /\ step' = [step EXCEPT ![t] = "ended"]
  /\ outcome' = [outcome EXCEPT ![t] = "none"]
  /\ UNCHANGED <<machines, verified, target, todo, ok, plan, parallel, beside, main,
                 info, pending, created, failed, spawned, joined, unmarked, poisoned,
                 stderr, destroyer>>

(* The locals of a thread that has ended.                                  *)
Forgotten(t) ==
  /\ todo' = [todo EXCEPT ![t] = <<>>]
  /\ ok' = [ok EXCEPT ![t] = <<>>]
  /\ outcome' = [outcome EXCEPT ![t] = "none"]

(* Mutant: the mutex is not given up by a thread that panics.              *)
PrintPanicsHolding(t) ==
  /\ ~stderr
  /\ step[t] \in {"start", "install", "verify"} \/ (step[t] = "report" /\ Prints(t))
  /\ step' = [step EXCEPT ![t] = "panicked"]
  /\ Forgotten(t)
  /\ UNCHANGED <<machines, verified, target, mainVars, mutexVars,
                 stderr, destroyer>>

(* Nobody reads stderr: the next print panics. In "report" that is with    *)
(* the mutex held, which is poisoned and released.                         *)
PrintPanics(t) ==
  /\ ~stderr
  /\ step[t] \in {"start", "install", "verify"} \/ (step[t] = "report" /\ Prints(t))
  /\ step' = [step EXCEPT ![t] = "panicked"]
  /\ Forgotten(t)
  /\ poisoned' = (poisoned \/ owner = t)
  /\ owner' = IF owner = t THEN Nobody ELSE owner
  /\ UNCHANGED <<machines, verified, target, mainVars,
                 provisioned, provFailed, stderr, destroyer>>

(* The loop prints each component when it is begun and when it is through, *)
(* so without stderr nothing more is installed.                            *)
ThreadStep(t) ==
  \/ StartThread(t) \/ CannotOpen(t) \/ LockResults(t) \/ Report(t) \/ PrintPanics(t)
  \/ /\ stderr \/ step[t] = "save"
     /\ ProvisionStep(t)
     /\ UNCHANGED <<mainVars, mutexVars, stderr, destroyer>>
-----------------------------------------------------------------------------
(* The end of the process: a kill, or the main thread's own print. Threads *)
(* end with it.                                                            *)

Dies ==
  /\ main' = "dead"
  /\ step' = [w \in Worker |->
                IF w \in Thread /\ step[w] \notin {"none", "ended", "panicked"}
                  THEN "killed" ELSE step[w]]
  /\ todo' = [w \in Worker |-> IF w \in Thread THEN <<>> ELSE todo[w]]
  /\ ok' = [w \in Worker |-> IF w \in Thread THEN <<>> ELSE ok[w]]
  /\ outcome' = [w \in Worker |-> IF w \in Thread THEN "none" ELSE outcome[w]]
  /\ owner' = Nobody
  /\ UNCHANGED <<machines, verified, target, plan, parallel, beside, info,
                 results, pending, created, failed, spawned, joined, unmarked, poisoned,
                 provisioned, provFailed, stderr, destroyer>>

Killed == main \notin {"done", "dead"} /\ Dies

MainPanics ==
  /\ ~stderr
  /\ \/ main \in {"create", "mark"}
     \/ main = "provision" /\ joined = spawned
     \/ main = "provision" /\ joined < spawned /\ step[joined + 1] = "panicked"
  /\ Dies

StderrCloses ==
  /\ "stderr" \in beside
  /\ stderr /\ stderr' = FALSE
  /\ UNCHANGED <<provisionVars, mainVars, mutexVars, destroyer>>
-----------------------------------------------------------------------------
(* fleet destroy: the machines of a group, or of all, are read once and    *)
(* destroyed in turn; one that fails does not stop the others.             *)

InFleet(i, all, group) ==
  machines[i].group # NoGroup /\ (all \/ machines[i].group = group)

ReadTargets(all, group) ==
  /\ "fleetDestroy" \in beside /\ destroyer.at = "idle"
  /\ LET targets == {i \in Recorded : InFleet(i, all, group)}
     IN destroyer' = [destroyer EXCEPT !.left = targets, !.found = targets,
                                       !.all = all, !.group = group,
                                       !.at = IF targets = {} THEN "done" ELSE "destroying"]
  /\ UNCHANGED <<provisionVars, mainVars, mutexVars, stderr>>

Gone(i) == [destroyer EXCEPT !.left = @ \ {i},
                             !.at = IF destroyer.left = {i} THEN "done" ELSE @]

(* Destroyed; or its files could not be removed, so that the record stays, *)
(* marked failed, and destroy returns Ok all the same.                     *)
DestroyTarget(i) ==
  /\ destroyer.at = "destroying" /\ i \in destroyer.left /\ i \in Recorded
  /\ \/ /\ machines' = [machines EXCEPT ![i] = Absent]
        /\ destroyer' = [Gone(i) EXCEPT !.destroyed = @ \cup {i}]
     \/ /\ UNCHANGED machines
        /\ destroyer' = [Gone(i) EXCEPT !.destroyed = @ \cup {i}, !.marked = @ \cup {i}]
  /\ UNCHANGED <<verified, step, target, todo, ok, outcome, mainVars, mutexVars, stderr>>

(* Mutant: it gives up at the first failure, and says it is through.       *)
DestroyTargetFailsAll(i) ==
  /\ destroyer.at = "destroying" /\ i \in destroyer.left
  /\ destroyer' = [destroyer EXCEPT !.left = {}, !.at = "done", !.failed = @ \cup {i}]
  /\ UNCHANGED <<provisionVars, mainVars, mutexVars, stderr>>

(* MachineNotFound, or an error of the store.                              *)
DestroyTargetFails(i) ==
  /\ destroyer.at = "destroying" /\ i \in destroyer.left
  /\ destroyer' = [Gone(i) EXCEPT !.failed = @ \cup {i}]
  /\ UNCHANGED <<provisionVars, mainVars, mutexVars, stderr>>

-----------------------------------------------------------------------------
(* commands/provision.rs, and what else goes on                            *)

ProvisionCommand(w, i, names) ==
  /\ "provision" \in beside
  /\ step[w] = "none" /\ i \in Recorded
  /\ BeginProvision(w, i, names)
  /\ UNCHANGED <<mainVars, mutexVars, stderr, destroyer>>

(* What is left is to print the results.                                   *)
EndCommand(w) ==
  /\ step[w] = "settle"
  /\ step' = [step EXCEPT ![w] = "ended"]
  /\ outcome' = [outcome EXCEPT ![w] = "none"]
  /\ UNCHANGED <<machines, verified, target, todo, ok>>

CommandStep(w) ==
  /\ ProvisionStep(w) \/ EndCommand(w)
  /\ UNCHANGED <<mainVars, mutexVars, stderr, destroyer>>

Elsewhere(i) ==
  /\ "destroy" \in beside
  /\ DestroyElsewhere(i)
  /\ UNCHANGED <<mainVars, mutexVars, stderr, destroyer>>

MainStep ==
  \/ \E i \in Id : CreateNext(i)
  \/ CreateNextFails \/ MarkFleet \/ EndFirstPass
  \/ SpawnChunk \/ JoinNext \/ Summarise \/ MainPanics

FleetNext ==
  \/ MainStep \/ Killed \/ StderrCloses
  \/ \E t \in Thread : ThreadStep(t)
  \/ \E w \in Command : CommandStep(w)
  \/ \E w \in Command, i \in Id, names \in Requests : ProvisionCommand(w, i, names)
  \/ \E i \in Id : Elsewhere(i) \/ DestroyTarget(i) \/ DestroyTargetFails(i)
  \/ \E g \in Group : ReadTargets(FALSE, g)
  \/ ReadTargets(TRUE, NoGroup)

FleetSpec == FleetInit /\ [][FleetNext]_fleetVars

(* Threads are scheduled, and every command in a guest ends: exec bounds   *)
(* it with the component's timeout.                                        *)
FleetFairness ==
  /\ WF_fleetVars(MainStep)
  /\ \A t \in Thread : WF_fleetVars(ThreadStep(t))

FairFleetSpec == FleetSpec /\ FleetFairness
-----------------------------------------------------------------------------
StatusCount(S) == Cardinality({k \in DOMAIN pending : results[pending[k].index].status \in S})

(* The summary adds up (fleet.rs:395-404): every machine of the file is    *)
(* created or failed, every machine to provision is provisioned or failed, *)
(* whatever threads failed or panicked, and the statuses of the results    *)
(* say the same as the counters.                                           *)
SummaryAddsUp ==
  main = "done" =>
    /\ created + failed = Len(plan)
    /\ provisioned = StatusCount({"ok", "partial"})
    /\ provFailed = StatusCount({"error", "none"})

(* docs.md:763 and 776: provisioning begins when all machines have been    *)
(* created, at most --parallel threads run, one if it is 0, and a chunk    *)
(* only when those before it have ended.                                   *)
ChunksInTurn ==
  LET running == {t \in Thread : step[t] \in Provisioning \cup {"start", "settle", "report"}}
  IN /\ running # {} => Len(results) = Len(plan)
     /\ Cardinality(running) <= (IF parallel = 0 THEN 1 ELSE parallel)
     /\ \A t \in running : t > joined /\ t <= spawned

(* Provision status "ok" is true: each component the definition asks for   *)
(* is in the machine's record, if the machine is still there, although the *)
(* status is written long after the record, by way of a mutex and past     *)
(* errors of the store.                                                    *)
OkMeansRecorded ==
  \A k \in DOMAIN pending :
    /\ results[pending[k].index].status = "ok"
    /\ pending[k].id \in Recorded
    => ToSet(Resolved(<<pending[k].name>>)) \subseteq ToSet(machines[pending[k].id].components)

(* Every machine the command has reported is found by a fleet destroy of   *)
(* its group, until it is destroyed; only a store that fails between       *)
(* create and marking (fleet.rs:174) hides one.                            *)
ReportedAreInTheirFleet ==
  \A k \in DOMAIN results :
    results[k].id \in Recorded \ unmarked => machines[results[k].id].group = plan[k].group

(* When fleet destroy is through, it accounts for every machine it found:  *)
(* each one it says it destroyed has no record left, or one marked failed, *)
(* and the others are counted as failed, also those other commands         *)
(* destroyed first.                                                        *)
FleetDestroyAccounts ==
  destroyer.at = "done" =>
    /\ destroyer.found = destroyer.destroyed \cup destroyer.failed
    /\ destroyer.destroyed \cap destroyer.failed = {}
    /\ destroyer.destroyed \cap Recorded \subseteq destroyer.marked

(* A machine once destroyed stays so: nothing that a worker saves after    *)
(* its installation brings the record back.                                *)
NoFleetResurrection ==
  [][\A i \in Id : i \in Recorded' \ Recorded => main = "create" /\ main' = "mark"]_fleetVars

(* fleet destroy --name touches no machine of another group, although the  *)
(* groups are read once and machines are marked meanwhile.                 *)
OnlyItsGroupIsDestroyed ==
  [][\A i \in Id : i \in destroyer'.destroyed \ destroyer.destroyed =>
       destroyer.all \/ machines[i].group = destroyer.group]_fleetVars

(* fleet create comes to an end: no thread waits for ever for a mutex that *)
(* a thread holds, ended with or was poisoned by.                          *)
FleetCreateEnds == <>(main \in {"done", "dead"})

(* The ids up to the last result, and that of the machine to mark, were    *)
(* drawn.                                                                  *)
LifetimeOf(i) ==
  IF i \in Recorded THEN "present"
  ELSE IF i <= Len(results) \/ i = info THEN "past"
  ELSE "fresh"

FleetLives == INSTANCE Lifetimes WITH life <- [i \in Id |-> LifetimeOf(i)]

(* Fleet takes each create and each destroy for one step of the machine    *)
(* table, and this is how the steps of the runtimes look to it (Sandboxes).*)
FleetMachinesLiveOnce == FleetLives!Spec
=============================================================================
