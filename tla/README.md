# A verification project for Cognac

Cognac runs Windows installers on Linux: it analyses an executable, plans which
execution classes to try (Wine, Proton through UMU, a Windows VM), tries them with
snapshots and repairs until one works, registers the result, and, separately, submits
firmware updates to fwupd under a journal. This directory holds TLA+ models of that
code, the TLC configurations that check them and proofs checked by TLAPS. Source
references are relative to the repository (`src/` there is the Rust crate).

`PROJECT.json` is the index: every definition with the source lines it stands for, every
run, every property with a mutation of the code that breaks it, the hazards and the
theorems.

    tlc -config MCInstaller.cfg MCInstaller      # any run of the table below
    tlapm FirmwareFlashProofs.tla                # the proofs: every module *Proofs.tla,
                                                 # half a minute to five minutes each

## 1. The system

| Component | Source | State it keeps | Operations | Interacts with |
|---|---|---|---|---|
| Planner and profiles | `planner.rs`, `knowledge.rs` | none (pure) | `identify`, `build`, `select_execution` | reads analysis, host, memory; its plan drives the installer |
| Installer | `installer.rs` | locals of one invocation | `install`, `recover_interrupted`, `apply_repair`, `register` | calls everything below |
| Strategy memory | `strategy.rs` | `strategies.json` | `record_success`, `record_failure`, `preferred`, load/save | planner (learned record), installer |
| Result detection | `detector.rs` | none | `executable_inventory`, `discover_installed` | installer |
| Failure diagnosis | `diagnostics.rs` | none | `classify` | installer |
| Observer | `observer.rs` | none (polls prefix, processes, log) | `observe_install` | installer |
| Environments | `execution.rs`, `environment.rs`, `umu.rs` | prefix directories, snapshots | provision, initialize, run, snapshot, restore, install_component | Wine, winetricks, UMU |
| Windows VM | `vm.rs` | mirror directory, libvirt snapshots, `active_snapshot` | the same through virsh and the guest agent | libvirt |
| Registry and desktop | `registry.rs`, `desktop.rs` | `apps.json`, desktop files | insert, get, remove, integrate | installer, command line |
| Firmware updates | `firmware_flash.rs` | lock, journal per device, history files | `plan_with`, `submit_with`, `verification`, `status` | fwupd, reboots |
| JSON persistence | `util.rs` | files | `atomic_json`, `read_json` | all stores |
| Runner and UMU stores | `runner.rs`, `umu_manager.rs` | caches, unpacked runners, metadata | ensure, update, download | network, environments |
| Analysis | `analyzer.rs`, `hardware.rs`, `firmware.rs`, `phoenix.rs` | none | decoding of files | planner, command line |
| Phoenix tools | `tools/phoenix-info`, `tools/phoenix-capsule` | UEFI variables and a staging file | read-only diagnostics, staging | firmware |
| Command line, paths, progress | `main.rs`, `paths.rs`, `progress.rs`, `system.rs` | none | install, run, repair, update, remove, ... | all |

What makes each one correct, and hard:

* **Planner**: a refusal or a blocked class cannot be undone by scores; learning and
  profiles only reorder; nothing usable is lost. Hard because three sources of score are
  added and sorted, and the properties quantify over their combinations.
* **Installer**: an interrupted installation is recovered before another one is
  started in its prefix; a retry starts where the first attempt started; what is
  registered exists; a kernel requirement found on the way is not forgotten; it ends. Hard
  because each of fifteen exits leaves a different part of six stores behind, and the
  next invocation, possibly with another order of strategies, starts from that.
* **Firmware updates**: intent before request, at most one request, an uncertain
  submission never repeated, success never claimed early. Hard because of kills between
  steps, the child process that survives them, reboots, early version reports and
  file-system durability.
* **Analysis**: a driver or a port-I/O image hidden in the resources of an installer must
  reach the planner. Hard because the walk keeps directories on a stack under five limits, two
  readers use what it finds, and one unreadable piece discards the rest.
* **Windows VM session**: a failed attempt leaves no trace in the guest, an executable is
  complete before it is started, a session always ends. Hard because every virsh call and
  every agent command may fail, or be carried out and then reported as failed, while the guest
  works on, its user interferes, and a killed session leaves its marker behind.
* **Stores** (memory, registry, runners): an application that is registered can be opened and
  removed, a crash leaves something the next command can complete, updates of other
  applications survive a long installation.

The hazards are listed one by one, at their lines, in `PROJECT.json`.

## 2. Modules

| Module | Models | Role |
|---|---|---|
| `Planner` | `planner.rs`, `knowledge.rs` | pure operators: `Identify`, `Candidates`, `SelectExecution`, `Build`, `Attempted`, `PrefixOf` |
| `Analyzer` | `analyzer.rs`, `hardware.rs` | the resource walk and its two readers, and the analysis as operators over groups of strings |
| `Orders` | `planner.rs`, `installer.rs` | sorting and filtering: the k-th element of an order, the entries at given positions |
| `Preparation` (extends `Planner`, `Analyzer`) | `installer.rs: prepare` | walk, analysis, profile and plan as one pipeline, with its properties |
| `MCPlanner` | | the packages, hosts, profiles and records it is checked for |
| `PlannerProofs`, `AnalyzerProofs`, `PreparationProofs` | | lemmas about sorting and selecting, and about resource tables and the walk; the theorems of `Preparation` |
| `Installer` (extends `Planner`) | `installer.rs` and the operations it uses | one action per step between which the process can be killed |
| `InstallerProofs` | | its theorems |
| `MCInstaller` | | instances: a general application, a game, two Wine strategies |
| `FirmwareFlash` | `firmware_flash.rs`, `util.rs: atomic_json` | invocations, lock, journal, fwupd, boots |
| `UpdateLedger` | | what firmware updates promise: the abstract specification |
| `MCFirmwareFlash` | | symmetry of the invocations |
| `FirmwareFlashProofs` | | its theorems, section 5 |
| `RunnerStore` | `runner.rs`, `umu_manager.rs` | cache, digest check, unpacking and metadata of both download managers |
| `RunnerStoreProofs` | | its theorems |
| `VmSession`, `VmSessionProofs` | `vm.rs`, and `installer.rs`, `main.rs` as far as they drive it | sessions, the guest, libvirt and the agent; its theorems |
| `AppStore`, `AppStoreProofs` | `registry.rs`, `desktop.rs`, `main.rs: remove` | concurrent commands on the registry, launchers and directories; its theorems |
| `MCAppStore` | | two applications and a common part of their names |

### Planner and Analyzer

A file is a record of the DLLs and symbols it imports, of the groups of strings in it (one
name for each needle list of the code), its product name, its resource table and what the
payloads hold. `WalkStep` is one turn of the loop in `resource_payloads`: the directory on top
of the stack is checked (depth, cycle, unreadable entries, number of entries and bytes) and
replaced by its subdirectories. `EmbeddedDependencies` is the planner's reader of the
payloads and `Inspect` that of `inspect-hardware`; `Trust`, `Indicators`, `Classify` and
`Info` are what `analyze` makes of them. `Preparation` composes them: `WalkResources` until the
walk is over, then `Plan`, which is `Analyze`, `Identify` and `Build`. Its constants are the
packages (`Packages`) and what else is known when one is planned: host, user profile and
learned record (`Contexts`). `ContextAssumption` says that no learned record is of the class
`restricted`: `record_success` is only called for a strategy that ran. `PackageAssumption`
(`IsTable`) says that a subdirectory or payload of a resource table is there: an entry that
points outside of the file is `unreadable`. `LimitAssumption` gives the limits their type.

What the walk should do is stated without a walk: `Reached` is the smallest set of directories
that contains the root and is closed under subdirectories, `ReachedWithin` are the ends of
paths of a bounded length, and a table is `Acceptable` if what is reached is a tree, no deeper
than the limit, readable, and within the numbers of entries and bytes.

A candidate is a record of class, backend, availability and score. `Offered` lists the
seven entries in the order of the code, `Candidates` adds the scores of profile and memory,
`Sorted` is the stable sort by score and derived class order (the k-th entry is the one with
k - 1 others before it, `Nth`), and `Attempted` is what `install` keeps of it. Reasons and blockers are
texts and left out. The profile's channel appears as the backend it yields
(`"stable"` as `"wine-stable"`).

### Installer

State on disk: `prefixes` (for each environment: does the directory exist, which executables
and components are in it), `guest` (programs inside the Windows VM, which no prefix
rollback touches), `snapshots`, `memory` with its `clock`, `registry`. State of the process:
`pc`, `run`, `job` (locals of `install` that live across strategies: the remaining
strategies, `kernel_required`, what the log already shows), `step` (locals of one turn:
the inventory before, the snapshot's content, the mutated plan, the last outcome), `pending`
(the application between `memory.save` and `register`). `fate` and `ended` are history
variables for properties.

| Action | Code |
|---|---|
| `ReuseInstalled` | the early return for a registered file (lines 58-82) |
| `Begin`, `Choose` | preparation and head of the loop over strategies; `Choose` also ends it |
| `Provision`, `Recover`, `Remember`, `Initialize` | lines 122-162; `Recover` registers, `Remember` then records, a kill fits between |
| `TakeSnapshot`, `RunInstaller`, `CannotStart` | one attempt; the outcome is any exit and any category, the files any subset |
| `Reject`, `Observe`, `Register`, `Abandon` | the exits of an attempt |
| `MoveAway`, `MoveBack`, `RevertVm` | the two renames of `restore_prefix`, and the VM's rollback |
| `RepairWithComponent`, `RepairPlan`, `NextStrategy` | `apply_repair` |
| `PrepareFinal`, `FinalRun` | the closing VM attempt (lines 313-384) |
| `Crash` | the process ends at any step; a running installer may have written part of its files |
| `RemoveEnvironments`, `RemoveEntry` | `cognac remove`, with a kill possible between |

Abstractions: an executable is a name with a score and flags (does an uninstall key name
it, would the analysis refuse it), and there are finitely many; what a component
(winetricks) brings along is no file of the installer (`PlanAssumption`); the outcome of a
run is arbitrary; which file
operations fail is arbitrary; texts, the launch probe and icons are left out. The
model has one application and one process at a time.

### FirmwareFlash and UpdateLedger

Each invocation walks through `submit_with`: `Start` takes the lock, `CheckJournal` to
`PlanUpdates` read, `WriteIntent` journals, `Invoke` creates a request, `Answer` to
`RecordVerification` record what became of it. Every step can instead end the
invocation with an error where the code can. `Kill` leaves a running request behind
without an owner. The environment (external) is fwupd and the machine: `Serve` carries
out a request or fails, with an exit status that need not tell which; deferred devices
stage the update and may report its version at once; `Boot` applies or drops what was
staged; `OtherClient` updates the devices in `Shared`. `journal` is what a process
reads, `durable` what is certain to survive a power loss, because `atomic_json` syncs
the file and not the directory.

`UpdateLedger` is the promise in two actions: an intent is only written for a settled
device and a newer version, and a device only moves to the version of its intent.
`FirmwareFlash` implements it for the devices nobody else updates (property `LedgerKept`,
theorem `KeepsLedger`).

### RunnerStore

Both managers download an archive into the shared cache, compute its digest, unpack it
into a temporary directory, rename that into place and write the metadata last.
`archive`, `tree` and `metadata` are these three stores, each for every channel (the Wine
channels and the one of UMU) and release; `pc` names the next step of an invocation, and
every step can end in an error or a kill. The managers differ in three places, which are
conditions on the channel: only Wine runners are updated and only they skip the unpacking
of a release whose directory exists; only UMU compares the size of the response and uses
the directory it finds when it is about to rename. Bytes are told apart by what the code
compares, size and digest.

### VmSession

One session of a `cognac` process is a walk through the methods of `VmEnvironment` in the
order `install()`, `run` or `repair` calls them: `op` names the method, `at` the next virsh or
agent call in it. `active` is the cell `active_snapshot`, `marker` the file
`libvirt-name` of an attempt, `mirror` the directory of empty files that shows the programs
of the guest, `snapshots` what libvirt holds, `guest` what is in the guest: programs,
uploaded files, running processes and those whose exit the agent still remembers.

| Action | Code |
|---|---|
| `Start` | a session begins: an installation, `run` or `repair` |
| `QueryState`, `StartDomain`, `Ping` | `ensure_ready`, with its bounded number of pings |
| `RecoverInterrupted` | `recover_interrupted` on the mirror |
| `StartCommand`, `PollAgain`, `PollExited` | `guest_exec_wait`; `PollExited` of an inventory is also the rest of `sync_inventory` |
| `OpenFile`, `WriteChunk`, `CloseFile` | `upload_file` |
| `CreateSnapshot`, `WriteMarker`, `DiscardSnapshot`, `RevertGuest`, `DeleteSnapshot` | `snapshot`, `discard_active_snapshot`, `restore` |
| `Verdict`, `Repair`, `Failed`, `LeaveStrategy` | what `install()` does with the outcome; the closing attempt is a second environment of the same session |
| `GuestInstalls`, `GuestExits` | processes in the guest, with or without the session that started them |
| `SwitchOff`, `PauseOrResume`, `Kill` | the guest's user, and the end of a process |

Every call may fail, and may have been carried out although it is reported as failed. libvirt
may bring running programs back with a snapshot or not. The one-hour limit is `MaxPolls`
polls, the minute of `ensure_ready` `MaxPings` pings.

### AppStore

A command is a sequence of the file operations of `install`, of the re-integration of
something installed, or of `remove`; `at` names the next one. What it loaded stays in `apps`
until it saves, so another command may have replaced the file in between: `version` and
`history.raced` record that for the properties, they decide nothing. `CheckBackup`, `CopyBackup` and `Persist` are
`save` with its migration of schema 1. Any command can stop before any step (`Stop`), killed or by
a file operation that failed. A directory is
identified by its application and the place it is in: an environment, a prefix of schema 1,
or elsewhere, which `remove` refuses.

## 3. Runs

| Run | Shows | Bounds |
|---|---|---|
| `planner` | the walk over resources, and the properties of the plan for every input | all tables of 3 directories with up to 2 entries in the root and 1 below, each a directory, a payload or unreadable, 3 payloads, one of which can be malformed; depth 1, 3 entries and 3 bytes so that every limit is met; 16 groups of strings with and without the physical imports; every availability of a candidate, all preferable classes and backends, 6 learned records (one that matches no candidate) |
| `installer` | types, recovery, rollback, registration, snapshots, memory | Wine, the VM of the list and the closing VM; 3 attempts (the code's number); 2 invocations; one category of each kind of repair; 2 program files, one of Windows, one of a component |
| `installer_game` | escalation, when Proton creates the prefix during the run, and that every invocation ends | 2 strategies, 2 attempts, 2 invocations |
| `vm` | types, the cell, uploads, rollbacks, leftover snapshots, and that every session ends | 1 process, 2 sessions, 2 attempts, 2 pings, 2 polls, 2 chunks |
| `apps` | types, usable entries, launchers, removals, the migration, lost updates | 2 applications of an earlier version, one with a foreign prefix; 2 processes, 4 commands |
| `firmware` | types, the inductive invariant, no early success, no resubmission, the refinement | 2 invocations, a deferred and an immediate device, 3 versions, 2 reboots |
| `firmware_power` | what survives power losses and other clients; the lock is given back | 2 invocations, 2 devices, 2 versions, 1 boot |
| `runners` | only verified bytes become active, and what is active stays | one invocation at a time, a Wine channel and UMU, 3 releases |
| `runners_concurrent` | the first of these fails when two invocations overlap, section 4 | 2 invocations, one channel, one release |
| `planner_shared`, `installer_mutates`, `firmware_intent` | disagreements with documents, section 4 | the smallest instance that shows each |

Why the bounds are enough. A retry needs two attempts and the `attempt == 3` break a
third; a recovery needs a second invocation, and the third could only repeat the second
from the same stores. Two strategies make an order that learning can swap. In the
firmware model the lock makes all invocations but one idle, so two show every interleaving
of a starter with a holder or an orphan; two devices show that entries do not mix; a
third version and a second boot let a verified transaction be followed by a new one
whose update is again deferred. Three releases let a runner be updated from one that was
itself an update, past a release that was never fetched. In the VM model a second session can
only meet what the first left in the guest, in libvirt and in the marker of the same attempt;
two attempts give a rollback and the retry after it, two polls and two pings the loop and its
end, two chunks a first and a last one. Four commands let a removal that stopped be repeated
while another command runs and a third be done before. The resource tables are the
smallest that meet each refusal of the walk alone and in combination: a cycle, a shared
directory, one level too many, one entry too many, one byte too many. The theorems of section 5 hold without these bounds.

The properties, in words:

* `WalkExact`: the walk accepts a resource directory exactly if it is a tree within the
  limits, and has then seen every payload of it; the reference is reachability.
* `HardwareNeverRouted`, `KernelOnlyVirtualized`: a firmware updater or a package whose
  *complete* hardware report shows physical-memory or port-I/O imports has no strategy; one
  that needs a kernel has only the virtual machine. An incomplete report is excluded because
  the code discards it, section 4.
* `LearningMovesToFront`, `ProfileDecides`, `NothingUsableDropped`: learning and profiles
  reorder, and nothing usable is lost.
* `NoReinstallOverPayload`: no installer is started in a Wine or Proton prefix in which an
  earlier run left a program the detector would pick.
* `RetryFromCleanState`: nothing a failed attempt wrote survives into the next.
* `RegisteredIntact`: the registered executable exists, unless its removal was begun.
* `EscalationSticks`: once a kernel is required this invocation runs nothing outside a VM.
* `SnapshotBudget`, `OneVerdictPerRun`: at most one snapshot and one verdict per strategy
  and invocation.
* `FunctionalFromSuccess`: `functional` means the installer reported success in that
  environment and nothing ran there since.
* `ActiveIsVerified`, `StaysUsable`: metadata names a directory unpacked from verified
  bytes, and once it names one it always does, whatever fails.
* `CellFree`: `snapshot()` never meets a cell that an earlier attempt left set.
* `StagedBeforeRun`: an installer is started in the guest only when it is complete and closed.
* `InstallerAlone`: a session never starts its installer beside one of its own that was given
  up and still runs.
* `RollbackExact`: a rollback brings back the programs of the start of this attempt, not those
  of a snapshot left under the same marker.
* `OneSnapshot`, `RegisteredLeavesNone`: at most one snapshot per strategy and session, none
  after a registration.
* `SessionEnds`: a session ends although the guest never answers and the installer never exits.
* `EntryUsable`, `LauncherRegistered`, `RemoveLeavesNothing`: while no command works on an
  application and nothing went wrong about it (no command stopped half-way without one
  completed after it, no two worked on it at once, nobody saved a stale registry), its entry
  has an environment, its launcher an entry; and a removal that reported success left nothing,
  whatever earlier ones left half-done.
* `LegacyPreserved`: the registry of schema 1 is replaced only after its copy is complete.
* `InstallKeepsOthers`: what another command registered while an installer ran is not undone.
* `InstallTerminates`: every invocation ends.
* `IntentCoversRequests`, `AtMostOneInFlight`, `VerifiedIsApplied`, `NeverResubmitted`,
  `LedgerKept`, `LockReleased`: the journal protocol.

**Fairness.** `Installer!FairSpec` assumes weak fairness of `Proceed`, the steps the
process takes by itself: it is scheduled, and the programs it waits for (the installer,
winetricks, virsh) end. The code waits for them without a timeout, so a hanging
installer does hang Cognac; termination is claimed relative to that. No fairness is
assumed of users, kills or `cognac remove`. `FirmwareFlash!FairSpec` assumes weak
fairness of each invocation's own steps and of fwupd serving some request, for the same
reason: `Fwupd::invoke` waits for its child. `VmSession!FairSpec` assumes weak fairness of
each session's own steps: it is scheduled and every virsh call returns. Nothing is assumed
of the guest, its user or the agent's answers; that a session ends all the same is what the
bounded loops are for.

**Deadlock** checking is off because the bounded runs stop: after `MaxRuns` invocations,
`MaxBoot` boots, `MaxSessions` sessions, `MaxCommands` commands or the one planning step
nothing is left to do.

## 4. Where code and documents disagree

* `planner_shared` (CHANGELOG.md:38): with the runner `stable` in a profile, the profile's
  Wine strategy and the fixed stable one are the same strategy twice and share one
  environment.
* `installer_mutates` (CONTRIBUTING.md:46): the windows-version repair changes a field
  that a retry does not read; the next attempt repeats the failed configuration.
* `firmware_intent` (docs/firmware.md:85): after a power loss the journal may lack the
  intent of an update that was nevertheless applied. `IntentCoversRequests` and
  `AtMostOneInFlight` still hold then, because a power loss ends every request.

* `runners_concurrent` (SECURITY.md:60): two invocations share the cached archive; one can
  replace it after the other has verified it and before `tar` reads it by its name.

Read in the code while modelling, without a run of its own:

* The VM's mirror of the guest holds empty files (`vm.rs:400`), which the analysis of the
  discovered program cannot parse, so an installation in a VM ends with an error as soon as
  a program is discovered, recovery included (`installer.rs:201`, `412`).
* README.md:63 says VM support is not an automatic fallback; the VM is in the fallback
  list of every plan and in the closing attempt.
* The closing VM attempt registers `functional` even when no installed program was found
  (`installer.rs:359-372`), where the loop would add a limitation.
* A component that cannot be installed ends the installation before the remaining strategies
  are tried (`installer.rs:299`, against README.md:49); in a VM every component repair does.
* Sessions of two processes share one guest and nothing keeps them apart: the rollback of
  one reverts what the other has installed (`vm.rs:204`). The properties of a session other
  than `CellFree` therefore hold for one session at a time only.
* One malformed image among the resources, or a resource directory the walk refuses,
  discards the evidence of every embedded image; the restriction of docs/hardware.md:63 is
  then not applied (`analyzer.rs:138`, `hardware.rs:163`). Images inside embedded images are
  read by neither reader.
* Two commands that save the registry at once lose one of the updates (`registry.rs:57`).
  `install` loads again before it registers, which leaves a short window and, with three
  commands at a time, the stale save of a third.
* Two migrations of a schema 1 registry at once, or one that stops while it copies, can leave
  a torn backup, which is never made again (`registry.rs:61`).
* A success of the closing attempt is remembered as `libvirt-qemu:<domain>`, which no
  candidate of a later plan equals (`planner.rs:363`).
* `recover_interrupted` also takes a program that a component or Windows brought along for
  the result of an interrupted installation when its score is positive.
* A cached archive with a wrong digest is not deleted; when its size is right it is never
  downloaded again, and every later `ensure` fails (`umu_manager.rs:156`, `runner.rs:201`).
* A kernel requirement observed at run time is kept for one invocation only.
* The built-in profiles reach at most 6 points of the 10 `identify` asks for.
* `DisableSync` sets Proton variables that Wine does not read (`installer.rs:523`).
* `firmware_flash.rs:340` asks for `firmware-status`, which verifies but does not update
  the journal; a verified transaction is archived again each time planning then fails.
* Directories renamed to `failed-<seconds>` and the snapshot of a rejected run are never
  deleted, and two rollbacks within one second collide (`environment.rs:272`).

## 5. What is proved

`FirmwareFlashProofs`, for every set of processes and devices, every number of versions and
boots:

| Theorem | States | Assumes |
|---|---|---|
| `TypeCorrect` | `Spec => []TypeOK` | `FlashAssumption`, `NoneAssumption` |
| `FlashSafe` | `Spec => []FlashInv` | the same |
| `IntentCovered` | `Spec => []IntentCoversRequests` | the same |
| `OneInFlight` | `Spec => []AtMostOneInFlight` | the same |
| `VerifiedRuns` | `Spec => []VerifiedIsApplied` | and `~PowerLoss` |
| `NotResubmitted` | `Spec => NeverResubmitted` | and `~PowerLoss` |
| `KeepsLedger` | `Spec => LedgerKept` | and `~PowerLoss` |

`NoneAssumption` and `FlashAssumption` only say that `None` differs from the values it
stands beside and that the bounds are numbers.

The argument is one inductive invariant, `FlashInv`. None of the properties is inductive
alone: that a new request is the only one depends on what the invocation saw several
steps earlier. `FlashInv` adds that everyone but the lock holder is idle (`OneHolder`); that a
request belongs to a waiting invocation or to a killed one (`RequestsOwned`); that requests,
staged updates and the holder's plan carry the version and the boot of the journaled
transaction (`RequestsJournaled`, `StagedJournaled`, `WritersJournaled`); that the phase
held in memory is honest (`PhasesKept`); and, the heart, that an invocation past the
check of the journal found a device with nothing under way (`PlannersSettled`), which is
where `verification` is used: a verified transaction of a deferred device has another
boot id, so nothing it staged or requested can be left. There is one lemma per action. The
phase `verified` needs `~PowerLoss` because a power loss can return an older
journal entry together with the newer firmware. Weaker journal facts survive power losses
since a boot also ends all requests and empties the stage.

`KeepsLedger` uses the invariant to map each step: `WriteIntent` is `Intend`, an update that
is served or a boot is `Flash`, everything else stutters.

`RunnerStoreProofs`, for every set of channels and any number of releases, from
`StoreAssumption` (the two kinds of channel are distinct, the bound is positive, `None`
is no release and no bytes):

| Theorem | States | Assumes |
|---|---|---|
| `TypeCorrect` | `Spec => []TypeOK` | |
| `RunnerStaysUsable` | `Spec => StaysUsable` | any number of overlapping invocations |
| `OnlyVerifiedActive` | `Spec => []ActiveIsVerified` | at most one invocation at a time |

`StaysUsable` needs that a rename has something to rename (`StagedExists`): then no step
removes a directory, and `Publish` names one that is there. `ActiveIsVerified` is not
inductive either: `StoreInv` adds that every unpacked directory is verified
(`TreesVerified`) and that between digest and rename the verified bytes are in the cache and
then in the temporary directory (`VerifiedOnTheWay`), which is exactly what a second
invocation can break.

`AppStoreProofs`, for every set of applications, names and processes and any number of
commands, from `StoreAssumption` and `NoneAssumption` (`None` is no application and no entry):

| Theorem | States | Assumes |
|---|---|---|
| `TypeCorrect` | `Spec => []TypeOK` | |
| `EntriesUsable` | `Spec => []EntryUsable` | |
| `LaunchersRegistered` | `Spec => []LauncherRegistered` | |
| `RemovalComplete` | `Spec => []RemoveLeavesNothing` | |
| `MigrationPreserves` | `Spec => []LegacyPreserved` | |
| `InstallsKeepOthers` | `Spec => InstallKeepsOthers` | at most two processes |

The properties speak of applications no command works on, so the invariant `StoreInv` has to
say what holds in the middle of a command: what a command at a given step has in memory
(`Shape`), that memory agrees with the file except for its own application as long as
nobody replaced the file (`Fresher`), that a command without a contender is alone (`Alone`),
that what it has put on disk is there and what it has deleted stays away (`InPlace`,
`Deleted`, `Known`), and weaker forms of the properties themselves that name the command
which is about to restore them (`UsableMeanwhile`, `RegisteredMeanwhile`, `RemovedMeanwhile`,
`Migration`). `InstallsKeepOthers` adds that what was registered since the installation began
is still in the file when it reloads it (`Remembered`); a third command could undo that with
a stale save, hence its assumption.

`VmSessionProofs`, for every set of applications and any number of attempts, polls, pings,
chunks and sessions, from `SessionAssumption`:

| Theorem | States | Assumes |
|---|---|---|
| `TypeCorrect` | `Spec => []TypeOK` | any number of processes |
| `CellAlwaysFree` | `Spec => []CellFree` | any number of processes |
| `UploadComplete` | `Spec => []StagedBeforeRun` | one process at a time |
| `NoSecondInstaller` | `Spec => []InstallerAlone` | one process at a time |
| `SnapshotsBounded` | `Spec => []OneSnapshot` | one process at a time |
| `RegisteredClean` | `Spec => []RegisteredLeavesNone` | one process at a time |
| `RollsBackExactly` | `Spec => RollbackExact` | one process at a time |

`SessionInv` adds to the types what the position of a session says of its cell and of the
attempts left (`Sound`). `OwnInv` relates a session to the shared state: the snapshots of this
session and strategy are none before `snapshot()` and after `restore()` or a discard
(`Cleared`), otherwise the one of this attempt, with the programs it began with and without
its installer (`Exact`); the marker and the cell name it (`Named`); the installer runs only
while its `run()` waits or until it is reverted away (`Gone`); nothing is on the domain yet
for the closing attempt (`Unopened`); and everything older carries an older session
number (`Past`), which is why a stale marker can do no harm.

`InstallerProofs`, for any environments in any order of preference, any executables and scores,
any components, categories of failure and number of attempts and invocations, from
`EnvAssumption`, `ExeAssumption`, `PlanAssumption` and `BoundAssumption`:

| Theorem | States |
|---|---|
| `TypeCorrect` | `Spec => []TypeOK` |
| `EscalationHolds` | `Spec => []EscalationSticks` |
| `OneVerdict` | `Spec => []OneVerdictPerRun` |
| `SnapshotsBounded` | `Spec => []SnapshotBudget` |
| `NoReinstall` | `Spec => []NoReinstallOverPayload` |
| `RetriesClean` | `Spec => []RetryFromCleanState` |
| `RegisteredExists` | `Spec => []RegisteredIntact` |
| `FunctionalMeansSuccess` | `Spec => []FunctionalFromSuccess` |

Each property has an invariant of its own on top of the types and of where the loop over
strategies is (`Typed`). `KernelInv` says that a turn which finds the kernel requirement can
only go on to give up. `VerdictInv` says that an environment this invocation may still come to
(`Ahead`) has fewer verdicts than there were invocations, and `SnapshotInv` that it has no
snapshot of this invocation, which is what makes the next one the only one: the budgets hold
because the loop takes each strategy once, not because a step counts. `CleanInv` says of the
prefix before an attempt, and of the snapshot while one runs, that they hold none of the
installer's own files the detector would pick; `Recover` establishes it, since it leaves
only what has no best candidate, and finite sets with a candidate have a best one
(`BestExists`). `RetryInv` accounts for every file that was not there before the attempt.
`RegistryInv` says that what is about to be registered exists and has the quality its last run
gave it, and that nothing is registered while anything runs.

`PreparationProofs`, for every package, host, profile and learned record, any resource
table and any limits of the walk, from `ContextAssumption`, `PackageAssumption` and
`LimitAssumption`:

| Theorem | States |
|---|---|
| `WalkIsExact` | `Spec => []WalkExact` |
| `NeverRouted` | `Spec => []HardwareNeverRouted` |
| `KernelVirtualized` | `Spec => []KernelOnlyVirtualized` |
| `NothingDropped` | `Spec => []NothingUsableDropped` |
| `ProfileFirst` | `Spec => []ProfileDecides` |
| `LearningOnlyPromotes` | `Spec => []LearningMovesToFront` |

The invariant `PlanInv` says that a plan is `Build` of the analysis of a package whose walk has
ended. `ReportSeen` relates the two readers of the resources: what a complete report
shows, the analysis has found. The rest is about `Build`. `SortOrder` is a strict total order
of the candidates, so `Nth` lists them, each once (`NthLists`), and is the only way to list
them in that order (`ListingUnique`). With it `TriedInOrder` shows that moving the first
candidate that is not blocked to the front and then dropping what cannot be tried gives the
usable candidates in the order of the sort. The +300 of a profile outweighs the range 25..180
of the scores (`PreferredFirst`); the +1000 of a learned record moves exactly the learned
entries to the front (`LearningOrders`, `PromotedListing`), and cannot bring the refusal
before a usable class because a refusal is never learned (`LearningKeepsExecution`).

`WalkIsExact` is proved in `AnalyzerProofs`, without induction over the table. The invariant
`Explored` of a walk that has not failed says that what was read is reached within the depth,
readable and counted; that every directory on the stack is the end of a path as long as its
depth (`OnPath`); and, in `Traced`, that each of them stands for a link of its own out of what
was read, while the other links lead to different directories, exactly the visited ones. When
the stack is empty, every link has been followed: what was read is closed, hence all that is
reached, and a tree (`WalkEnds`). When a directory is refused, the table is not acceptable
(`WalkRefuses`): a directory met again has two links; one that is too deep has a long path,
and in a tree no other path is shorter (`PathsAgree`, by a least counterexample); entries and
bytes only grow with what is read. `WalkInv` was checked on the run `planner` before.

Only model-checked: the liveness properties `InstallTerminates`, `LockReleased` and
`SessionEnds`, which are out of the prover's reach.

## 6. Not modelled

* `firmware.rs`, `phoenix.rs` and `inspect.py` decode files and keep no state; nothing of what
  they report decides anything else in the program.
* `hardware.rs`: payload directories given on the command line, exports and COFF symbols;
  `analyzer.rs`: how strings are found in a file, and the installer type, which nothing decides on.
* `vm.rs`: `probe` and the validation of `windows-vm.json`, which only read.
* `strategy.rs`: concurrent saves of `strategies.json` (it is loaded and saved like the
  registry) and records that match by product identity only.
* `observer.rs`: its polling loop; the verdicts it can reach are inputs of `Installer`.
* `tools/phoenix-info`: the UEFI staging tool, a C program of its own.
* Host probes (`system.rs`), progress output, packaging and read-only commands.

## 7. Plan

Done, in the order of importance: `FirmwareFlash` with its ledger and proofs (the one
irreversible operation), `Installer` (the core loop), `Planner` and `Analyzer` (its input),
`RunnerStore` (what it runs on), `VmSession` and `AppStore` with their proofs, and the proofs of
`Installer` and `Preparation`.

Every safety property of the passing runs is proved as well.

Next:

1. `PhoenixStage`: the staging protocol of `tools/phoenix-info/flash-stage.h`.
2. `Observer`: the polling loop of `observer.rs` with its quiet period and limit.
3. Strategy memory under concurrent saves, as `AppStore` has the registry.
