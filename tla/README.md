# Verification of clawstainer

TLA+ models of clawstainer, the TLC runs that check them and the TLAPS proofs about
them. Source paths are relative to `src/`, line numbers those of the commit the project
was written for. `PROJECT.json` maps every definition to its lines, lists the runs, the
theorems, the hazards and, for every property, a *mutant*: a plausible bug in one
definition, kept beside it, that makes the property fail.

## The system

clawstainer is a command line program that creates, uses and destroys sandboxes on a
Linux host, as systemd-nspawn containers or as Firecracker virtual machines. There is no
daemon: every command is a process of its own, and all that concurrent commands share is
in files, in the kernel's network configuration and in the sandboxes themselves. Any
command may be killed at any point and nothing recovers what it left half done. That is
where its hard behaviours come from.

| Component | State it keeps | Operations | Interacts with | Hard behaviour; what makes it correct |
|---|---|---|---|---|
| **State store** `state/mod.rs`, `state/lock.rs` | `state.json`, `state.tmp`, the flock on `state.lock` | `with_lock`, `with_read_lock` | everything below | kills and errors between lock, read, write and rename. Calls are atomic, the file always parses, the lock is always given up |
| **Address pool** `network/ipam.rs` | `allocated_ips` and `next_octet` in the state | `allocate`, `release` | create and destroy of both runtimes | exhaustion; a release beside a guest that still runs. Addresses are unique |
| **nspawn runtime** `runtime/nspawn.rs` | machine records; guests known to systemd | `create`, `destroy`, `status`, `exec`, `shell`, timeout thread | store, pool, overlay, host network | two transactions per create, external commands that fail, destroys at the same time, kills. Nothing recorded is shared or leaked, nothing destroyed comes back |
| **Overlay image** `image/overlay.rs` | `/var/lib/clawstainer/machines/<id>` | `setup`, `teardown` | nspawn runtime | two removals at once, a failed removal. The directory goes before its record |
| **Reconciliation** `state/mod.rs:152` | the record's status and pid | `reconcile_machine` for list, exec, shell, stats, cp, snapshot, port-forward | store, a runtime's `status` | the record changes between read and write. No late write undoes a later step |
| **Host network** `network/bridge.rs`, `nat.rs`, `tap.rs` | bridge `claw-br0`, iptables rules, ports of the bridge | `ensure_*`, `remove_*`, `create_tap`, `delete_tap` | create and destroy of both runtimes | a dozen commands per create, checks before acts, no lock but the one a destroy happens to hold. A bridge gets completed by somebody, is gone after the last sandbox, and so are the rules, which separate sandboxes |
| **Port forwarding** `commands/port_forward.rs` | rules nobody removes | `port-forward` | store, host network | the rules outlive the machine and its address. They lead to no other machine |
| **Firecracker runtime** `runtime/firecracker.rs`, `firecracker/api.rs`, `vsock.rs` | VM process, API and vsock sockets, tap | as nspawn | store, pool, rootfs, agent | liveness judged by a socket file, a pid that reconcile erases. No VM outlives its record |
| **Dispatch and destroy** `main.rs`, `commands/destroy.rs` | none | choice of the runtime, `destroy --all` | both runtimes | the record may be gone or of the other runtime. Each machine meets its own runtime |
| **Snapshots** `image/snapshot.rs`, `commands/snapshot.rs` | `{name}.tar.gz` and the directory it is extracted to | `create`, `extract`, `delete`, `list` | create --from of the nspawn runtime | "exists" stands for "complete", for two paths at once. A machine is stacked on a complete layer that is not stale; an acknowledged snapshot stays |
| **Base image** `image/bootstrap.rs` | the base directory | `ensure_base_image` | create of both runtimes | a download that falls back to debootstrap and fixups that fail half way. Nobody uses half of one |
| **Firecracker images** `firecracker/rootfs.rs`, `assets.rs` | VMM, kernel, agent, ext4 base | `ensure_assets`, `ensure_base_ext4`, `ensure_agent_binary` | base image, Firecracker runtime | conversion under one shared mount point. Nobody boots half of one |
| **Fleet** `commands/fleet.rs` | `fleet_name` of a record; results and counters under three mutexes | `create`, `destroy` | runtimes, provisioner | threads in chunks, panics that poison, kills between create and marking. Counts add up, fleet machines can be found |
| **Provisioner** `component/*`, `commands/provision.rs` | `components` of a record | `provision` | runtime exec, store | bundles expanded and names used once, minutes between the first command and the save. A record lists what was verified |
| **Exec log** `execlog/*`, `commands/exec.rs` | a JSON-lines file per machine | `append`, `read` | exec | an entry is two writes. A successful exec is in the log |
| **Guest agent** `agent/*` | none between requests | exec requests over vsock | Firecracker runtime | not modelled by itself, see below |
| **Lima VM** `lima.rs`, `commands/vm.rs` | the macOS VM, its pid file, the Linux binary in it and its time stamp | start, stop, repair, rebuild, recreate, the proxied command | every command on macOS | a pid file stale or fresh, sources changed under a build. One host agent; a binary taken for current is |
| **cp, stats** `commands/cp.rs`, `stats.rs` | none | | reconciliation | not modelled by themselves |
| **Command line, output, errors** `cli.rs`, `output.rs`, `error.rs` | none | parsing, printing | | nothing concurrent; not modelled |

## The modules

```
AtomicStore  <-- implemented by --  StateStore            (MCStateStore, StateStoreProofs)
      |  lets the others treat every with_lock call as one step
      v
Registry   <-- implemented by --  NspawnRuntime, Dispatch, HostNet
Lifetimes  <-- implemented by --  NspawnRuntime, Fleet

Ipam  <-- EXTENDS --  Sandboxes  <-- EXTENDS --  NspawnRuntime       (MCNspawn, NspawnProofs)
  ^                  ^                                 ^
  |                  |                                 |
  |           FirecrackerRuntime  <-- EXTENDS --   Dispatch       (MCDispatch, DispatchProofs)
  |
HostNet  (HostNetProofs, MCHostNet)  \
Snapshots                             |
Images                                 >  EXTEND Invocations, put side by side by MCHost
ExecLog                               |
LimaVm   (LimaVmProofs)              /

HostProofs has the proofs about Snapshots, Images, ExecLog and MCHost.

Provisioner  <-- EXTENDS --  Fleet                              (MCFleet, FleetProofs)
```

**AtomicStore** is what the store promises: a call takes effect in one step, on the
current state, or not at all.

**StateStore** is `with_lock` and `with_read_lock`, one action per system call that
another caller can notice: `LockExclusive`, `LockShared` (flock), `ReadState`,
`RunClosure` and `RefuseClosure` (`f(&mut state)?`), `TruncateTmp`, `WritePart`,
`WriteRest` (the `std::fs::write`), `RenameTmp`, `Return`. `Abort` is a `?` on any of
them or the death of the process: the descriptor is closed, so the lock goes, and the
files stay as they are. `state.json` and `state.tmp` hold a state, nothing, white space,
or part of a document. `StoreIsAtomic` maps a call to `AtomicStore`: an update takes
effect at its rename, a read when the file is read.

**Registry** is what the program promises of machines and addresses, without invocations,
transactions or lost processes: an id is drawn (`Begin`), given an address nobody had before
(`Grant`), recorded with it (`Enter`) or given up (`Abandon`), its record changes status
(`Change`), and it goes in one step with its address (`Remove`). **Lifetimes** is the part of
it that commands on many machines rely on: a machine has a record for one stretch of time at
most. Their variables are expressions of the detailed modules: `MachinesComeAndGo` and
`MachinesLiveOnce` of Sandboxes, `NetworkKeepsRegistry` of HostNet, `FleetMachinesLiveOnce` of
Fleet. They are why these modules, which abstract from one another, speak of the same machines.

**Ipam** has `allocate` and `release` as operators on the pool. The loop of `allocate`
is a set, the free octets from `next_octet` on, and its least element.

**Sandboxes** declares what all invocations share and the steps both runtimes and all commands
have in common. `machines` and `net` are `state.json`; `dirs` the machine directories; `guest`
and `guestIp` the containers and the addresses inside; `bridge` is whether `claw-br0` is there.
The iptables rules are in `HostNet` only, since what creates and destroys do to them is not a
matter of one step. `guest` stays `none` for a virtual machine. `pc` and `job` are where an
invocation stands and its locals. `fresh` holds the ids not drawn yet and `lost`, a history
variable, the ids of creates that ended without a record. `ReconcileRead`, `ReconcileCompare`,
`UpdateStatus` are the three separate parts of `reconcile_machine`; `PrepareImage`,
`EnsureBridge`, `AllocateAddress` and `Record` what both backends' `create` have in common,
`DestroyRead` the beginning of `destroy`. `CreateFails` is every error and every kill of a
create, at each of its points, and undoes nothing, as the code does. `Killed` is that of the
other commands. `ExitAfterCreate` is the return of `main`, which ends the timer thread.

**NspawnRuntime** is `runtime/nspawn.rs`. A create goes through `PrepareImage`,
`EnsureBridge`, `AllocateAddress`, `Spawn`, `ConfigureNetwork`, `Record`; a destroy
through `DestroyRead`, `PowerOff`, `Terminate`, `CheckDirectory`, `RemoveDirectory`,
`DestroyCommit`. `GivesUp` are the errors that are bound to come (pool exhausted, guest
not ready in time). `DestroyKilledInCommit` is a kill between the removal of the bridge in
the closure (396-397) and `write_state`. `TimerFires` is the thread of `create --timeout`.
Guests stop by themselves (`GuestExits`).

**FirecrackerRuntime** is `runtime/firecracker.rs`, over the same state and two variables
more: `vmm`, the process of each machine (starting, listening on its socket, booted, gone
with its socket left behind), and `taps`. A create goes through `PrepareImage`,
`EnsureBridge`, `AllocateAddress`, `CreateTap`, `SpawnVmm`, `BootVm`, `AgentReachable`,
`Record`; a destroy through `ReadVm`, `AskToShutDown`, `KillVmm`, `DeleteTap`,
`CleanupRootfs`, `DestroyCommit`. It differs from the other backend where the code does:
`KillVmm` needs a pid that `ReadVm` found in the record, and `VmStatus` knows none; a
failed removal of the directory is ignored; the bridge goes when no *record* is left,
not when none is running.

**Dispatch** puts both backends on one host. `Command` is `main.rs`: `create` takes its
backend from the options, the other commands from the record (`RuntimeOf`). `ReadAll` and
`DestroyNextOfAll` are `destroy --all`, which always takes nspawn. `Work` is a step of
whichever backend the invocation has.

**Invocations** declares the processes that share a host.

**HostNet** has the host network with a step for each `ip` and `iptables` command:
`ShowBridge`, `AddBridge`, `AddAddress`, `LinkUp` are `ensure_bridge`, `CheckNat`,
`AddMasquerade`, `AddDrop` are `ensure_nat`; then a create allocates, adds its port and records
its machine. `DestroyMachine` begins a destroy of a machine that has a record; by the time its
closure runs, another destroy may have removed that. `PowerOff` and `DestroyCommit` are
nspawn's, which takes the network along when no other record says running, `DeleteTap` and
`DestroyVmCommit` are Firecracker's, which does when no other record is left; `Virtual` are the
machines of the second kind, which `destroy --all` hands to the first. Whoever takes the
network along does `LinkDown`, `LinkDelete`, `DelMasquerade`, `DelDrop` within the closure of
its `with_lock`, so that `store` is held over all of them, and `WriteRemoval` ends it. `Settle`
is what a closure makes of its machine's record: removed, marked, or not touched when it is
gone. `Reconcile` writes a status, also a wrong one. `ReadIp`, `AddPrerouting`, `AddOutput`,
`AddAccept` are `port-forward`. `masquerade` counts such rules and `chain` is the FORWARD chain
in its order, so that rules can be there twice. `KilledBetween` is a kill between two commands,
or one of a create that cannot be started, which ends it by `?`; `CommandFails` is a command
that has no effect, after which the code goes on with the next (`Onward`) and in the end
writes the state. Two histories say what came before: `mishaps` counts the two, and `contended`
is set by a mishap, or when two are at the rules at once (`RulesContended`).

**Snapshots** is one snapshot name, whose tarball and extracted directory are each absent,
partial or complete in some version. Names share nothing. `CheckFree` to `TarFails` are
`snapshot create`, `CheckFound` to `RemovedLayer` are `delete`, `SeekTarball` to `MountLayer`
are `create --from`. The history `disturbed` names the paths where two commands met, or a
kill or a failed removal left something nobody repairs; the properties say that nothing else
does harm.

**Images** has the five artifacts `base`, `vmm`, `kernel`, `agent` and `ext4`, each absent,
bare (a base without `/bin`), partial or whole, and a create of either kind that goes through
`ensure_base_image`, `ensure_assets` and `ensure_base_ext4`. All conversions mount on one
directory, so `mnt` is a stack and what a create writes goes to the topmost mount. `spoiled`
is the history that `disturbed` is for snapshots: artifacts on which two creates met, or one
was killed or failed without cleaning up, and what is made from those. A step of the conversion
that fails cleans up (`ConversionFails`); one that cannot be started, or whose mount point
cannot be made, returns before the removal (`ConversionAborts`: `firecracker/rootfs.rs:94`,
107, 116, 121) and leaves a file that the next create takes as ready.

**LimaVm** is `lima.rs` with `commands/vm.rs`: each command finds the VM's status, reads
`ha.pid`, judges the pid by `kill(pid, 0)`, removes the file (`repair`), starts the VM, and
checks, builds and stamps the Linux binary before it runs itself inside; `recreate` looks for
sandboxes once, gives up if it finds some or cannot look (unless `--force`), asks (unless
`--yes`), and deletes. `limactl` and its host agent are
external: an agent is launched, writes its pid, boots, is up and dies.

**ExecLog** is `exec` up to its answer and `append`, whose `writeln!` is two writes, and
`read_last` as the operator `Entries` on what was written, torn lines included.

**Provisioner** is `resolve_components` and one worker's way through a provision:
`InstallSucceeds`, `VerifySucceeds`, `CommandFails`, `Save`. **Fleet** adds `fleet create`,
whose main thread creates the machines (`CreateNext`, `MarkFleet`), starts and joins chunks of
threads (`SpawnChunk`, `JoinNext`) and prints a summary, the threads with their mutexes and
panics (`LockResults`, `Report`, `PrintPanics`), and `fleet destroy` (`ReadTargets`,
`DestroyTarget`). Its create is one step for a machine; the runtimes' modules have the rest.

**MCHost** is no composition but a sum: these five parts share neither a file nor a variable,
`part` chooses one of them in the first state and the others stay as they began.

## The runs

| Run | Shows |
|---|---|
| `state_store` | With three callers and every error and kill: no update is lost, the file always parses, the lock is always given up, and `StateStore` implements `AtomicStore`. |
| `nspawn` | With two invocations: addresses unique and owned by their records, nothing left behind by destroys, bridge gone with the last sandbox, no record that comes back. |
| `nspawn_failed_mark` | **Violated.** A destroy cannot remove the directory and marks the record `failed` "so the user can investigate" (`runtime/nspawn.rs:381`); a list that read it before writes `stopped` over the mark. |
| `nspawn_net_race` | **Violated.** A create has ensured the bridge; a destroy of the only recorded sandbox sees no running record and removes it; the create records a sandbox with an address and no network (`docs.md:479`, `docs.md:982`). No kill and no failing command is needed. |
| `nspawn_timeout` | **Violated.** `create --timeout` returns, `main` exits, the timer thread dies, and nobody destroys the sandbox (`docs.md:130`). |
| `ip_exhaustion` | **Violated.** After every address was given out once, destroying machines does not help, contrary to the error's advice (`network/ipam.rs:14`). |
| `dispatch` | With a container and a virtual machine, commands of both backends and `destroy --all`: addresses released with the record, no backend takes the bridge from a machine of the other that is recorded as running, and machines and addresses only take the steps of `Registry`, whatever is killed or fails. |
| `firecracker_destroy` | **Violated.** A `list` between create and destroy writes pid `None` over the recorded pid (`runtime/firecracker.rs:406`); destroy then neither waits nor kills, and a VM whose guest ignores Ctrl-Alt-Del outlives its record, tap and directory (`docs.md:477`). |
| `destroy_all` | **Violated.** `destroy --all` runs the nspawn destroy on a firecracker machine; its process and tap stay and nothing names them any more (`main.rs:69`, `docs.md:984`). |
| `fleet` | With four workers, three of them threads: the summary adds up, records list what was verified, a reported machine is found by its fleet's destroy, which accounts for all it found, nothing destroyed comes back, and the command ends. |
| `host` | With two invocations in each of five parts: a bridge that lacks something has somebody at work on it, the last destroy removes it and the rules, a port forward never leads to another machine, no ACCEPT precedes the DROP; layers, snapshots, images are complete when used; one host agent, no stale binary taken for current; a successful exec is in the log. Each as far as no kill, no failing command and no meeting of two that the code does not guard against has come before, and the histories say which. |
| `sandbox_separation` | **Violated.** The rule that separates sandboxes (`docs.md:942`) is added only by whoever adds the masquerade rule (`network/nat.rs:26`): a create and the destroy of the last machine interleave so that the masquerade rule stays and the DROP rule goes. No kill is needed. |

### Bounds

`state_store` uses three callers, so that a third can act while one holds the lock and one
waits; states are counters from 0 to `MaxCount` = 2, closures add one or fail, and two
successful updates are enough for a lost one. `nspawn` uses two invocations, two machine ids
and the octets 2 and 3. Two invocations are enough for each hazard listed: a create against
a destroy, two destroys, a reconcile against a destroy. Each id is created once, so there
are at most two creates, but either invocation starts any number of destroys and reconciles.
Two octets make the pool run out and a released octet tempting. About 3.3 million distinct
states. The run uses symmetry of ids and invocations, which is sound since it checks no
liveness. `dispatch` has two invocations, one container with an address, one virtual machine
that has an address and a timer or neither, and one octet; each invocation starts any number
of destroys, reconciles and `destroy --all`. With one octet the pool runs out with the first
machine, and whoever got an address after that would have one that was given before; two
machines with an address each are in `nspawn`. About 870 000 distinct states.

`fleet` has three machine ids, three threads and one `provision` command, two groups, a bundle
of two components and a name nobody knows. Each `Scene` is a fleet file, a value of
`--parallel` and what may go on beside the command; a file of two machines under each rival,
one of two definitions with a bundle or an unknown name, one of three machines in chunks of
two or one (also for `--parallel 0`). Three machines make two chunks, so that a chunk follows
one that failed or panicked. About 730 000 distinct states.

`host` has two invocations, which is enough for every meeting of two that the modules' comments
name; two machines, one of them virtual, so that either backend's destroy finds the other's
record; a pool of two octets and one port forward (`MaxForwards`), so that an address could be
given out again under a forward; one kill or failing command (`MaxMishaps`), which already
excuses what the histories excuse, while the properties that no mishap excuses meet one at every
point; two snapshot versions (`MaxVersion`), so that a layer can be stale; four creates
(`MaxBuilds`) and two mounts on top of each other (`MaxMounts`), so that two creates can meet
and two can come to what they left; two host agents (`MaxPid`), one change to the source
(`MaxEdits`), two commands (`MaxCommands`) and two boxes for the VM; four entries (`MaxExecs`)
in the log. About 1.5 million distinct states. Symmetry of invocations, containers and boxes is
sound: the run checks no liveness. `sandbox_separation` has three machines.

The violation runs use the least that shows the behaviour; those two about virtual
machines need neither a kill nor a failing command (`UndisturbedSpec`).
The proofs have no bounds. The sandbox runs set `CHECK_DEADLOCK FALSE`: with every id
used and every machine destroyed there really is nothing left to do.

### Fairness

`StateStore!FairSpec` has weak fairness for the steps of a call that holds the lock: file
I/O and the closure go on unless the call fails or dies. Getting the lock is not fair:
`flock` makes no promise about order, a writer can starve behind readers, and no property
says otherwise. `NspawnRuntime!FairSpec` has weak fairness for the next step of each
invocation. Every external command of a create or destroy ends or is polled with a
timeout (`poll_with_backoff`), and `GivesUp` makes the end of the timeout such a step.
Nobody has to start a command, kill one or stop a guest. The fairness only helps
`TimeoutDestroys`, which fails all the same.

`Fleet!FairFleetSpec` has weak fairness for the steps of the main thread and of each thread of
`fleet create`: the operating system schedules them, and every command in a guest ends, since
`exec` bounds it with the component's timeout. It makes `FleetCreateEnds` true whatever panics,
poisons a mutex or is destroyed meanwhile. Rivals are not fair. A create, a marking or a save is
one step there, so the store's lock is taken as obtained in the end, which `flock` does not
promise: what is shown is that nothing within the command keeps it from ending.

## The proofs

| Module | Theorem | Statement |
|---|---|---|
| `StateStoreProofs` | `StoreInvariance`, `NoStaleClosure` | `Spec => []StoreInv`, `[]ClosureSeesCurrent` |
| | `OnlyWholeDocuments` | `Spec => WholeDocuments` |
| | `StoreRefinesAtomicStore` | `Spec => StoreIsAtomic` |
| `NspawnProofs` | `SandboxInvariance` | `Spec => []SandboxInv` |
| | `AddressesAreUnique`, `RecordsOwnAddresses`, `BridgeGoesWithTheLast` | conjuncts of it |
| | `DestroyLeavesNothing` | `Spec => []NothingLeftBehind` |
| | `DestroyedStaysDestroyed` | `Spec => NoResurrection` |
| | `LostStaysLost` | `Spec => []LostIsOver` |
| | `ContainersComeAndGo` | `Spec => MachinesComeAndGo`, the refinement of `Registry` |
| | `AddressesAreGivenOnce` | `Spec => Machines!GivenOnce /\ Machines!ExhaustedForGood` |
| | `ContainersLiveOnce` | `Spec => MachinesLiveOnce`, the refinement of `Lifetimes` |
| | `AloneCreatesHaveBridge`, `AloneMarksStay` | `Spec => CreatedHasBridge`, `FailedMarkStays`, with one invocation at a time |
| `DispatchProofs` | `DispatchInvariance` | `DispatchSpec => []DispatchInv` |
| | `DestroyReleases` | `DispatchSpec => []ReleasedWithRecord` |
| | `BridgeIsKept`, `NoMachineComesBack` | `DispatchSpec => BridgeKeptForRunning`, `NoResurrection` |
| | `LostIsOverForAll` | `DispatchSpec => []LostIsOver` |
| | `BothBackendsKeepRegistry` | `DispatchSpec => MachinesComeAndGo` |
| | `NoAddressTwice` | `DispatchSpec => Machines!GivenOnce /\ Machines!ExhaustedForGood` |
| `HostNetProofs` | `HostNetInvariance` | `HostNetSpec => []HostNetInv` |
| | `ForwardsLeadHome`, `DropIsFirst` | `[]ForwardsStayTheirs`, `[]DropComesFirst` |
| | `BridgesAreCompleted`, `LastOneOut`, `LastOneOutOfTheRules` | `[]HalfBridgeIsAttended`, `[]LastOneOutRemovesBridge`, `[]LastOneOutRemovesRules` |
| | `NetworkComesAndGoes` | `HostNetSpec => NetworkKeepsRegistry` |
| | `AloneIsSeparated` | `UndisturbedHostNetSpec => []SandboxesAreSeparated`, with one invocation at a time |
| `LimaVmProofs` | `LimaInvariance` | `LimaSpec => []LimaInv` |
| | `HostAgentIsOne`, `CheckedBinaryIsCurrent` | `[]OneHostAgent`, `[]BinaryIsCurrent` |
| | `UnforcedLoss` | `LimaSpec => UnforcedLossIsARace` |
| `FleetProofs` | `FleetInvariance`, `FleetTypes` | `FleetSpec => []FleetInv`, `[]FleetTypeOK` |
| | `ResolvedOnce` | `Resolved(names)` has each component `names` stand for, once, and no other |
| | `ComponentsAreInstalled`, `SummaryIsRight`, `OneChunkAtATime` | `[]RecordedAreInstalled`, `[]SummaryAddsUp`, `[]ChunksInTurn` |
| | `ReportedAreFound`, `DestroyerAccounts` | `[]ReportedAreInTheirFleet`, `[]FleetDestroyAccounts` |
| | `OkIsTrue` | `FleetSpec => []OkMeansRecorded` |
| | `DestroyedStaysAway`, `OthersAreSpared` | `NoFleetResurrection`, `OnlyItsGroupIsDestroyed` |
| | `FleetMachinesAreRuntimes` | `FleetSpec => FleetMachinesLiveOnce`, the refinement of `Lifetimes` |
| `HostProofs` | `SnapshotsInvariance` | `SnapshotsSpec => []SnapshotsInv` |
| | `SnapshotsStay`, `MachinesAreStackedSoundly` | `[]AcknowledgedStays`, `[]LayersAreSound` |
| | `ExecLogInvariance`, `LogKeepsWhatIsShown` | `[]ExecLogInv`, `[]ShownIsLogged` |
| | `ImagesInvariance`, `ImagesTypes` | `ImagesSpec => []ImagesInv`, `[]ImagesTypeOK` |
| | `MachinesAreMadeOfWhole`, `WholeArtifactsStay` | `[]UsedIsWhole`, `WholeStays` |
| | `PartsRun`, `HostTypes` | `MCHostSpec =>` the five parts' specifications, `[]MCHostTypeOK` |

`IpamProofs` has the lemmas about the pool that three of the modules cite. `NetworkKeepsRegistry`,
`MachinesLiveOnce`, `FleetMachinesLiveOnce` and `OnlyItsGroupIsDestroyed` are proved and in no
run; so are the two action
properties of `Registry`.

The theorems hold for any number of callers, ids and states, any pool up to `.254`, and any
closures, under the assumptions on constants the modules name: the markers (`Missing`,
`Absent`, `NoId`, ...) are no proper values, `Default` is a state, `Apply` maps states
to states or `Failed`; there is at least one pid; the threads of `fleet create` are workers
and its ids are numbered, a fleet file is a sequence of definitions, and what it asks for,
`provision` is asked for and a bundle stands for are sequences of names; the bounds
`MaxVersion`, `MaxExecs` and `MaxBuilds` are any natural numbers, and nothing is assumed of
`MaxForwards` and `MaxMishaps`. TLC evaluates the same
assumptions in the runs.

Where an action sets two fields of one record of a function it does so in one EXCEPT of that
record: the SMT backend of tlapm 1.4.5 takes two updates at one index for two equations about
the same value, and would prove too much. Inside such a nested EXCEPT the old value of a field
is written out, since tlapm takes an `@` there for the wrong one.

*StoreInv* adds to "what the closure saw is still there" the reason for it: the lock's
exclusion (`Exclusion`), which code holds the lock (`LockByPoint`), and that what is
written and renamed is one's own result (`WritesOwnResult`); without the last one another
caller's half-written `state.tmp` could be renamed. The refinement has one step per
action: the rename is `Commit`, a refused closure `Refuse`, a shared read `Observe`, all
others stutter or start and end a call.

*SandboxInv*. `NoSharedAddress` is not inductive: a guest whose destroy did not manage to
stop it keeps using an address that is back in the pool. What saves it is
`NextIsPastAll`: `next_octet` is past every address anyone has, and `allocate` looks from
there on. (It is also why the pool runs out for good: the run `ip_exhaustion`. A fix of
that which scans from the first octet breaks uniqueness; it is the mutant
`FreeOctetsFromFirst`.) `CreateOwnsId` says that nobody else knows an id before its record
exists. `Accounted` gives every address and directory an owner: a record, a create under
way or one that failed; `NothingLeftBehind` follows from it. `LocalsByPoint` says that a
destroy that is to remove the record has removed the directory, whatever other destroys
did meanwhile. `BridgeCleanedUp` needs that the last record's removal and the count of the
running ones are one step. The step theorem has one case per action.

*DispatchInv* is the same without the directories of virtual machines, whose failed
removal the Firecracker backend ignores: `Accounted` and `LocalsByPoint` take the machines
they speak of as an argument, all for `SandboxInv`, the containers for `DispatchInv`.
`BackendFits` says that the Firecracker backend meets virtual machines only, so that its
last step, which removes a record without looking at the directory, never removes that of
a container; the reverse does not hold, because of `destroy --all`, and is not needed. The
lemmas of `NspawnProofs` cover the steps both backends share and, as they are, those of
nspawn on a virtual machine.

*The refinement of Registry* takes `RegistryInv`, conjuncts that `SandboxInv` and `DispatchInv`
have in common, and `LostIsOver`, that a create which ended without a record is over for good;
so one lemma per shared step serves both backends. `PrepareImage` is `Begin`, `AllocateAddress`
`Grant`, `Record` `Enter`, every error and kill of a create `Abandon`, a destroy's commit
`Remove`, a reconcile's write or the mark `failed` `Change`; everything else stutters. `Grant`
is where the pool's promise comes from: nothing from `next_octet` on is taken, so `allocate`
takes `next_octet` itself (`NextFreeIsLeast`), which nobody had. `GivenOnce` and
`ExhaustedForGood` follow from the steps of `Registry` alone. They are two sides of one fact:
what makes addresses unique is what the run `ip_exhaustion` objects to. `HostNet` implements
the same registry with its own pool and records; there it takes `PlacesFit` and `PoolFits`.
`Fleet` and the runtimes meet in `Lifetimes`: what `Fleet` takes for one step, a create or a
destroy, is at most one appearance and one disappearance of a record in `NspawnRuntime`.

*One invocation at a time* (`Alone`, `OneAtATime`). Three of the violation runs need two
commands at once, and this shows that they do: a single invocation's create has the bridge it
ensured (`AloneHasBridge`), its reconcile finds the record as it read it (`AloneReconciles`),
and the masquerade and DROP rules come and go together (`RulesInv`), this last one unless a
kill or a failing command comes between the two. The other theorems of this kind hold with
every kill and failure.

*HostNetInv*. `PlacesFit` is what the store's lock is good for here: while a destroy removes the
network, no other machine is recorded as running, since `RecordMachine` and `Reconcile` need the
lock too. Others may be recorded all the same, and its own record may be gone, so that the rest
has to do without more. `BridgeFits` says that whoever made a bridge is still to come past
`addAddress` and `linkUp`, however many others took it for complete; `RemovalIsDue` that a
bridge has a machine that will have it removed: one under creation, or one with a record whose
destroy has not deleted the bridge yet: the one that takes the last record finds no other, so
that it takes the network along by either backend's rule. `RulesAreDue` says the same of the
rules, and `RulesFit` that there is at most one of each, that they come and go together, and
what each invocation between two commands has found. These hold only until `mishaps` or
`contended`, as the properties say: two creates that both find no rule add each twice, and a
destroy deletes one, so that rules stay after the last sandbox without any kill, against
`docs.md:479`. `LastOneOutRemovesRules` excuses that. `AddressesFit` keeps `next_octet` past
every address *and every forward's destination*; that is why a rule nobody removes leads nowhere
rather than to another machine. `PoolFits` says that the pool keeps an address for a machine
exactly while the machine has it.

*LimaInv*. What makes `repair` safe is that a pid judged stale is that of an agent that is
dead for good, and that a living agent's pid is in `ha.pid` or about to be written to it;
`raced` records that the file removed was not the one judged. Builds take turns (cargo's own
lock), and what one is about to stamp is of the present source; `late` is a change that came
in between. `since` collects the sandboxes made after `recreate` looked, and without --force
all that are there when it deletes are among them.

*FleetInv*. The threads up to `joined` are through and those past `spawned` have not begun, so
those running lie in one chunk. The entries of `pending` have increasing indices into the
results, so that no two threads write one, and an index is the number of a machine, so that
there is a thread for each. `provFailed` is the number of statuses `error` plus the panics
among the joined; at the end those without a status are those that panicked. Records only come
up one past the results, and `fleet destroy` finds machines of a group only, which are within
the results: hence no machine it holds changes its group or its record. For
`RecordedAreInstalled` a worker's list of successes is a sequence over what was verified in its
machine. `OkMeansRecorded` needs besides, in `InstallsFit`, that what a worker has installed and
what it still has to do are together what was asked of it, and so what `Resolved` computes. It is
a recursive function, as `Planned` and `Extended` are. `ResolvedOnce` shows that such a function
exists and what it returns by taking the least index at which it would not: sets and a smallest
element stand in for induction (`UpTo`, `RecursionExists`). `TypesFit` is what `FleetTypeOK`
leaves to the plan and to what is under way.

*SnapshotsInv*. `TarballFits`: while no two creates are past the check, a tarball that is being
made is the tar's own (`OwnTarball`), so that what is acknowledged is what it wrote.
`LayerFits`, as long as the layer is undisturbed: a layer that is there is complete or somebody
is at work on it, and it is as new as the tarball or its delete is under way; whoever stacks a
machine found the tarball that is still there. The second needs the first: an extraction is as
good as what it reads.

*ExecLogInv*. Entries may share a line only after a kill or a full disk between their two writes
or beside another exec. `LinesFit` says that a text on the unfinished last line is known to be
open (still written, or in `cut`), so that a text that comes onto that line is found to be
mixed; `TextsFit` that what was shown was written whole.

*ImagesInv* has one conjunct per artifact, each of them as long as it is not spoiled. What they
share is `Sound`: one create at most writes it and then nobody relies on it; a part has somebody
at work; whoever relies on it finds it whole, and nobody works on what is whole. What differs is
why the maker completes its own: the moved VMM is whole before it has its name, a converted ext4
goes to the create's own mount. The ext4 image is made from base and agent, so its conjunct
needs theirs, and `Spoiling` passes on what they have. For each artifact a first lemma says how
a step treats it (`Turn`: away from it, at work, ending the work, finding it there), which gives
`Sound`, and a second one the rest.

*PartsRun* shows that each part of `MCHost` behaves as its own specification says, whatever the
others do, so that what is proved of a part holds in the whole; `HostTypes` puts their types
together.

Only model-checked: `LockReleased` and `FleetCreateEnds`, since liveness under fairness is out
of the prover's reach, and what the violation runs refute. No module uses a RECURSIVE operator.

## Abstractions

- A guest is running, closing or gone. What runs inside does not matter to the state.
- In the sandbox modules the bridge is one boolean, `ensure_bridge` and its removal are a step
  each and succeed (the code ignores the errors of the removal, `runtime/nspawn.rs:396`), and
  there are no rules. The single commands are in `HostNet`, where a create or destroy has only
  its steps on the network.
- `BridgeKeptForRunning` speaks of machines whose record says running. One that runs while its
  record says something else, after a stale reconcile or the mark of a failed destroy, loses its
  bridge to an nspawn destroy; the code goes by the records.
- A guest that is to join a bridge that is not there does not start; one that runs does
  not notice the removal, it only has no network.
- A VM process binds its socket before it can be booted and is booted by one call (the
  PUTs of `BootVm` all succeed, or the create fails). `kill -9` succeeds, and a recorded
  pid is not used again by another process. A tap is there or not; its creation, whose
  failures the code does not notice, and its deletion succeed.
- Which machine has which backend is fixed by `Vm`, as the record's `runtime` is never
  changed. `destroy --all` takes its machines in any order (`HashMap`).
- `generate_id` never draws an id twice: 32 random bits. A collision would merge two
  machines' records and directories, and nothing in the code prevents it.
- A machine directory exists or not. A `create` that fails before it made one is taken to
  have made it.
- A write is lost only by a kill of the process, never by a power failure: the code has
  no `fsync`.
- `chrono`, names, memory, cpus, capabilities, env files and linger are left out; the
  pid is the child's, the leader's or none, since reconcile compares it.
- `HostNet`: of the FORWARD chain the DROP rule and the ACCEPTs of forwards are kept; the order
  of the nat tables does not matter to any property.
- `Snapshots` has one name; two names share neither path. A removal is all or nothing, except
  that a kill or a failure within it leaves the path partial.
- `Images`: removals (`rm -rf` after a failed download or conversion) succeed, and a download
  whose stream is cut without an error of `curl` or `tar` is not modelled. `UsedIsWhole` says
  nothing of an artifact in `spoiled`: the code has no protection there to speak of, neither
  lock nor marker.
- `LimaVm`: `limactl` commands succeed or fail as a whole; the pids of dead host agents are not
  used again; time stamps are "newer than all sources" or not.
- `ExecLog`: an entry's text is one write and its newline another, each of which appends
  (`O_APPEND`); texts of different entries that share a line do not parse.
- `Fleet`: a create is one step per machine, a destroy too. An index into the plan stands for
  the random id. A print panics when stderr is closed; nothing else in the threads panics but
  the cut of an output inside a character.

## Not modelled

- **Guest agent** (`agent/*`): it keeps nothing from one connection to the next, and each
  connection carries one request. What its callers can see, an answer, an error or no agent, is
  in `AgentReachable` of `FirecrackerRuntime` and `NotAnswered` of `ExecLog`.
- **exec, shell, env files, linger** of the runtimes: they write nothing that is shared but the
  log, which `ExecLog` has. **cp** and **stats** change nothing clawstainer keeps; the reconcile
  both begin with is in `NspawnRuntime` and `FirecrackerRuntime`.
- **Mounts and overlays** within a machine directory, the **copy of the ext4 image** for one VM
  beyond its being there or not, and the drawing of ids, names and capabilities.
- **Command line, output, error texts**: no state, nothing concurrent.

## Plan

All components that keep state are modelled, and every safety property of the passing runs is
proved. What could follow, in this order: the host network's single commands within the creates
and destroys of both backends (today `HostNet` is beside `Sandboxes`, whose bridge is one boolean,
and both implement `Registry`); and liveness of a destroy that meets no failure.
