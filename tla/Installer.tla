------------------------------ MODULE Installer ------------------------------
(***************************************************************************)
(* One application's way through `cognac install` (src/installer.rs): the  *)
(* strategies the planner listed are tried in order, each in an            *)
(* environment (a prefix directory) of its own, each up to Attempts times  *)
(* with a snapshot before and a repair after every failed attempt.  The    *)
(* process can be killed between any two steps and started again; prefix   *)
(* directories, the Windows guest, snapshots, strategy memory and the      *)
(* application registry are what survives.  `cognac remove` may run        *)
(* between two installs.                                                   *)
(***************************************************************************)
EXTENDS Planner

CONSTANTS
  Env,            \* environments: pairs << class, backend >>
  Preference,     \* Attempted(plan) without learning, as a sequence over Env
  FinalVm,        \* the environment of the closing VM attempt, libvirt-qemu:<domain>
  KernelApp,      \* requires_windows_kernel() of the analysed executable
  Exe,            \* executables that can appear under a prefix's drive_c
  BuiltIn,        \* those Wine, Proton or Windows itself provides
  Payload,        \* those only the installer writes
  DisplayIcon,    \* those an uninstall key of the registry hive names
  Refused,        \* those ensure_application_execution rejects
  Score,          \* detector::score
  Source,         \* the executable handed to `cognac install`
  Component,      \* winetricks verbs
  PlanComponents, \* components the plan installs during initialization
  ComponentExes,  \* executables a component brings along
  Categories,     \* failure categories this installer can produce
  PlanGraphics,   \* graphics backend of the plan
  Attempts,       \* ATTEMPTS_PER_STRATEGY
  MaxRuns         \* bound: number of `cognac install` invocations

FailureCategory ==
  {"firmware-tool-initialization", "missing-vc-runtime", "missing-dotnet",
   "graphics-vulkan", "graphics-vkd3d", "windows-version",
   "missing-media-foundation", "missing-d3d-compiler", "missing-xact",
   "sync-backend", "windows-kernel-required", "virtualization-sensitive", "unknown"}
GraphicsBackend == {"builtin", "dxvk", "vkd3d", "opengl"}

ClassOf(e) == e[1]
IsVm(e) == ClassOf(e) = "virtual-machine"

ASSUME EnvAssumption ==
  /\ Env \subseteq Class \X STRING
  /\ None \notin Env
  /\ Preference \in Seq(Env) /\ Preference # << >>
  /\ FinalVm \in Env /\ IsVm(FinalVm)
  /\ \A i \in DOMAIN Preference : Preference[i] # FinalVm
ASSUME ExeAssumption ==
  /\ IsFiniteSet(Exe)
  /\ BuiltIn \subseteq Exe /\ Payload \subseteq Exe /\ BuiltIn \cap Payload = {}
  /\ DisplayIcon \subseteq Exe /\ Refused \subseteq Exe
  /\ Score \in [Exe -> Int]
  /\ Source \notin Exe
ASSUME PlanAssumption ==
  /\ PlanComponents \subseteq Component
  /\ {"vcrun2022", "dotnet48", "mf", "d3dcompiler_47", "xact"} \subseteq Component
  /\ None \notin Component
  /\ ComponentExes \in [Component -> SUBSET Exe]
  /\ \A c \in Component : ComponentExes[c] \cap Payload = {}
  /\ Categories \subseteq FailureCategory
  /\ PlanGraphics \in GraphicsBackend
  /\ KernelApp \in BOOLEAN
ASSUME BoundAssumption == Attempts \in Nat \ {0} /\ MaxRuns \in Nat

VARIABLES
  \* on disk
  prefixes,   \* [Env -> Prefix]
  guest,      \* payload executables in Program Files of the Windows guest
  snapshots,  \* rollback snapshots that exist, named [env, run, attempt]
  memory,     \* strategies.json: [Env -> Record]
  clock,      \* the time strategy records are stamped with
  registry,   \* None, or the registered application
  \* of the process
  pc,
  run,        \* number of the invocation
  job,        \* locals of install() that live across strategies
  step,       \* locals of one turn of its loop over strategies
  pending,    \* None, or the application register() is about to write
  \* history
  fate,       \* [Env -> what last happened to the installation in it]
  ended       \* how the last invocation ended

disk    == << prefixes, guest, snapshots, memory, clock, registry >>
process == << pc, run, job, step, pending >>
history == << fate, ended >>
vars    == << disk, process, history >>

------------------------------------------------------------------------------
Fate == {"untouched", "prepared", "failed", "interrupted", "succeeded", "removed"}
Ending == {"none", "registered", "exhausted", "repair-failed", "error", "killed", "removed"}
Quality == {"functional", "functional-with-limitations", "unverified"}
Limitation == {"no-executable", "recovered", "other"}
PC == {"idle", "choose", "provision", "recover", "remember", "initialize", "snapshot",
       "run", "reject", "observe", "abandon", "restore", "moved-away", "repair",
       "register", "final", "final-run", "removing"}

Prefix == [present : BOOLEAN, exes : SUBSET Exe, components : SUBSET Component]
Record == [successes : Nat, failures : Nat, lastUsed : Nat]
App == [env : Env, executable : Exe \cup {Source}, quality : Quality,
        limitations : SUBSET Limitation]
Snapshot == [env : Env, run : Nat, attempt : Nat]
Outcome == [ok : BOOLEAN, category : FailureCategory]
PlanState == [graphics : GraphicsBackend, syncDisabled : BOOLEAN,
              windowsVersion : {"win10", "win7"}]
Configuration == [components : SUBSET Component, wined3d : BOOLEAN, syncDisabled : BOOLEAN]
Job == [preferred : Env \cup {None}, remaining : SUBSET DOMAIN Preference,
        kernel : BOOLEAN, logKernel : BOOLEAN]
Step == [env : Env \cup {None}, attempt : Nat, before : SUBSET Exe, saved : Prefix,
         displaced : Prefix, plan : PlanState, outcome : Outcome \cup {None},
         config : Configuration \cup {None}, previous : Configuration \cup {None}]

NoPrefix == [present |-> FALSE, exes |-> {}, components |-> {}]
NoRecord == [successes |-> 0, failures |-> 0, lastUsed |-> 0]
FreshPlan == [graphics |-> PlanGraphics, syncDisabled |-> FALSE, windowsVersion |-> "win10"]
NoJob == [preferred |-> None, remaining |-> {}, kernel |-> FALSE, logKernel |-> FALSE]
NoStep == [env |-> None, attempt |-> 0, before |-> {}, saved |-> NoPrefix,
           displaced |-> NoPrefix, plan |-> FreshPlan, outcome |-> None,
           config |-> None, previous |-> None]

env == step.env     \* the environment of the strategy in progress

------------------------------------------------------------------------------
(***************************************************************************)
(* detector::discover_installed: an executable an uninstall key points to  *)
(* comes first, then those with a positive score; the highest score wins,  *)
(* and equal scores leave the choice open.                                 *)
(***************************************************************************)
Best(S) == {e \in S : \A other \in S : Score[other] <= Score[e]}

Discover(old, new) ==
  LET fresh == new \ old
      icons == fresh \cap DisplayIcon
  IN IF icons # {} THEN Best(icons) ELSE Best({e \in fresh : Score[e] > 0})

(***************************************************************************)
(* analyze() and ensure_application_execution() on the executable to be    *)
(* registered.  The VM mirror holds empty files (vm.rs sync_inventory),    *)
(* which do not parse as executables.                                      *)
(***************************************************************************)
Launchable(e, exe) == exe = Source \/ (exe \notin Refused /\ ~IsVm(e))

(***************************************************************************)
(* StrategyMemory::record_success, record_failure and preferred.           *)
(***************************************************************************)
RecordSuccess(e) ==
  /\ clock' = clock + 1
  /\ memory' = [memory EXCEPT ![e].successes = @ + 1, ![e].lastUsed = clock']

(* Mutant: a failure takes back a success instead of being counted. *)
RecordFailureRevokes(e) ==
  /\ clock' = clock + 1
  /\ memory' = [memory EXCEPT ![e].successes = @ - 1, ![e].lastUsed = clock']

RecordFailure(e) ==
  /\ clock' = clock + 1
  /\ memory' = [memory EXCEPT ![e].failures = @ + 1, ![e].lastUsed = clock']

Margin(r) == IF r.successes > r.failures THEN r.successes - r.failures ELSE 0

PreferredEnv ==
  LET known == {e \in Env : memory[e].successes > 0}
  IN {e \in known : \A other \in known :
        \/ Margin(memory[e]) > Margin(memory[other])
        \/ /\ Margin(memory[e]) = Margin(memory[other])
           /\ memory[e].lastUsed >= memory[other].lastUsed}

(***************************************************************************)
(* The order of the remaining strategies: the learned one first, then the  *)
(* planner's order (MCPlanner!LearningMovesToFront).                       *)
(***************************************************************************)
TriedBefore(i, j) ==
  LET learned(k) == Preference[k] = job.preferred
  IN \/ learned(i) /\ ~learned(j)
     \/ (learned(i) <=> learned(j)) /\ i < j

(***************************************************************************)
(* Executables an environment holds once it is initialized.  UMU boots the *)
(* prefix for winetricks only, so without components Proton's own files    *)
(* appear during the first run.                                            *)
(***************************************************************************)
ComponentFiles(S) == UNION {ComponentExes[c] : c \in S}

InitialExes(e) ==
  IF IsVm(e) THEN BuiltIn \cup guest
  ELSE IF ClassOf(e) = "proton-umu" /\ PlanComponents = {} THEN {}
  ELSE BuiltIn \cup ComponentFiles(PlanComponents)

(***************************************************************************)
(* What reaches the installer: runtime_environment() and the components in *)
(* the prefix.  Only WineEnvironment::initialize reads windows_version.    *)
(***************************************************************************)
RuntimeConfig ==
  [components |-> prefixes[env].components,
   wined3d |-> step.plan.graphics \in {"opengl", "builtin"},
   syncDisabled |-> step.plan.syncDisabled]

(***************************************************************************)
(* diagnostics::classify: the repair that belongs to each category.        *)
(***************************************************************************)
RepairComponent(category) ==
  CASE category = "missing-vc-runtime" -> "vcrun2022"
    [] category = "missing-dotnet" -> "dotnet48"
    [] category = "missing-media-foundation" -> "mf"
    [] category = "missing-d3d-compiler" -> "d3dcompiler_47"
    [] category = "missing-xact" -> "xact"
    [] OTHER -> None

Terminal(category) == category = "firmware-tool-initialization"
Fallback == {"windows-kernel-required", "virtualization-sensitive", "unknown"}

------------------------------------------------------------------------------
Init ==
  /\ prefixes = [e \in Env |-> NoPrefix]
  /\ guest = {}
  /\ snapshots = {}
  /\ memory = [e \in Env |-> NoRecord]
  /\ clock = 0
  /\ registry = None
  /\ pc = "idle" /\ run = 0 /\ job = NoJob /\ step = NoStep /\ pending = None
  /\ fate = [e \in Env |-> "untouched"]
  /\ ended = "none"

(* The process ends; what it held in memory is gone. *)
Exit(how) ==
  /\ pc' = "idle" /\ ended' = how
  /\ job' = NoJob /\ step' = NoStep /\ pending' = None
  /\ UNCHANGED run

Goto(next) == pc' = next /\ UNCHANGED << run, ended >>

(***************************************************************************)
(* `cognac install` on an executable that is registered already: the       *)
(* environment is searched again and the registered program replaced when  *)
(* the search names another one.                                           *)
(***************************************************************************)
Reuse(app) ==
  \/ /\ Launchable(app.env, app.executable)
     /\ app.executable \in prefixes[app.env].exes \cup {Source}
     /\ registry' = app /\ ended' = "registered"
  \/ UNCHANGED registry /\ ended' = "error"

ReuseInstalled ==
  /\ pc = "idle" /\ registry # None
  /\ run < MaxRuns /\ run' = run + 1
  /\ LET found == Discover({}, prefixes[registry.env].exes)
     IN \/ found = {} /\ Reuse(registry)
        \/ registry.executable \in found /\ Reuse(registry)
        \/ \E candidate \in found \ {registry.executable} :
             Reuse([registry EXCEPT !.executable = candidate, !.quality = "unverified",
                                    !.limitations = @ \ {"recovered"}])
  /\ UNCHANGED << prefixes, guest, snapshots, memory, clock, pc, job, step, pending, fate >>

(***************************************************************************)
(* `cognac install` otherwise.  Strategy memory is read once, before the   *)
(* loop over the strategies.  (When Attempted(plan) is empty, install()    *)
(* refuses the application here and nothing changes.)                      *)
(***************************************************************************)
Begin ==
  /\ pc = "idle" /\ registry = None
  /\ run < MaxRuns /\ run' = run + 1
  /\ \E p \in IF PreferredEnv = {} THEN {None} ELSE PreferredEnv :
       job' = [preferred |-> p, remaining |-> DOMAIN Preference,
               kernel |-> KernelApp, logKernel |-> FALSE]
  /\ pc' = "choose"
  /\ UNCHANGED << disk, step, pending, history >>

(* Mutant: an escalation is forgotten when the next strategy is chosen. *)
NoneSkipped(i) == FALSE

(***************************************************************************)
(* The head of the loop: the next strategy, one to skip because a kernel   *)
(* is required, or none left.                                              *)
(***************************************************************************)
Skipped(i) == job.kernel /\ ~IsVm(Preference[i])

Choose ==
  /\ pc = "choose"
  /\ \/ \E i \in job.remaining :
          /\ \A j \in job.remaining \ {i} : TriedBefore(i, j)
          /\ job' = [job EXCEPT !.remaining = @ \ {i}]
          /\ \/ Skipped(i) /\ Goto("choose") /\ step' = NoStep
             \/ /\ ~Skipped(i)
                /\ Goto("provision")
                /\ step' = [NoStep EXCEPT !.env = Preference[i]]
          /\ UNCHANGED pending
     \/ /\ job.remaining = {} /\ job.kernel
        /\ Goto("final")
        /\ UNCHANGED << job, step, pending >>
     \/ job.remaining = {} /\ ~job.kernel /\ Exit("exhausted")
  /\ UNCHANGED << disk, fate >>

(***************************************************************************)
(* ExecutionEnvironment::provision.  Only the VM creates its directory.    *)
(***************************************************************************)
Provision ==
  /\ pc = "provision"
  /\ \/ /\ Goto("recover")
        /\ prefixes' = IF IsVm(env) THEN [prefixes EXCEPT ![env].present = TRUE] ELSE prefixes
        /\ UNCHANGED << memory, clock >>
     \/ Goto("choose") /\ RecordFailure(env) /\ UNCHANGED prefixes
  /\ UNCHANGED << guest, snapshots, registry, job, step, pending, fate >>

(* Mutant: what an interrupted installation left is not looked for. *)
RecoverNothing ==
  /\ pc = "recover"
  /\ Goto("initialize")
  /\ UNCHANGED << disk, job, step, pending, fate >>

(***************************************************************************)
(* recover_interrupted: an executable found in the environment before      *)
(* anything ran in it is taken for the result of an interrupted install.   *)
(* register() can fail in desktop::integrate, before it writes.            *)
(***************************************************************************)
Recover ==
  /\ pc = "recover"
  /\ LET found == Discover({}, prefixes[env].exes)
     IN \/ found = {} /\ Goto("initialize") /\ UNCHANGED << registry, job, step, pending >>
        \/ \E installed \in found :
             /\ Launchable(env, installed)
             /\ registry' = [env |-> env, executable |-> installed,
                             quality |-> "functional-with-limitations",
                             limitations |-> {"recovered"}]
             /\ Goto("remember")
             /\ UNCHANGED << job, step, pending >>
        \/ found # {} /\ Exit("error") /\ UNCHANGED registry
  /\ UNCHANGED << prefixes, guest, snapshots, memory, clock, fate >>

Remember ==
  /\ pc = "remember"
  /\ RecordSuccess(env)
  /\ Exit("registered")
  /\ UNCHANGED << prefixes, guest, snapshots, registry, fate >>

(***************************************************************************)
(* initialize() of the environment and the inventory before the installer. *)
(* A failure can leave some of the files behind (winetricks failed); a     *)
(* VM's mirror is emptied first and then written again.                    *)
(***************************************************************************)
HalfInitialized ==
  LET files == SUBSET InitialExes(env)
  IN IF IsVm(env) THEN files \cup {prefixes[env].exes}
     ELSE {prefixes[env].exes \cup left : left \in files}

Initialized ==
  [present |-> TRUE,
   exes |-> IF IsVm(env) THEN InitialExes(env) ELSE prefixes[env].exes \cup InitialExes(env),
   components |-> prefixes[env].components \cup (IF IsVm(env) THEN {} ELSE PlanComponents)]

Initialize ==
  /\ pc = "initialize"
  /\ \/ /\ Goto("snapshot")
        /\ prefixes' = [prefixes EXCEPT ![env] = Initialized]
        /\ step' = [step EXCEPT !.attempt = 1, !.before = Initialized.exes]
        /\ fate' = [fate EXCEPT ![env] = "prepared"]
        /\ UNCHANGED << memory, clock >>
     \/ \E left \in HalfInitialized :
          /\ Goto("choose")
          /\ prefixes' = [prefixes EXCEPT ![env].present = TRUE, ![env].exes = left]
          /\ RecordFailure(env)
          /\ UNCHANGED << step, fate >>
  /\ UNCHANGED << guest, snapshots, registry, job, pending >>

(***************************************************************************)
(* One attempt: snapshot(), then run().                                    *)
(***************************************************************************)
CurrentSnapshot == [env |-> env, run |-> run, attempt |-> step.attempt]

TakeSnapshot ==
  /\ pc = "snapshot"
  /\ \/ /\ Goto("run")
        /\ snapshots' = snapshots \cup {CurrentSnapshot}
        /\ step' = [step EXCEPT !.saved = prefixes[env], !.outcome = None,
                                !.previous = step.config, !.config = RuntimeConfig]
        /\ UNCHANGED << job, pending >>
     \/ Exit("error") /\ UNCHANGED snapshots
  /\ UNCHANGED << prefixes, guest, memory, clock, registry, fate >>

(* The files a run of the installer in e leaves: `added` and, under Wine   *)
(* and Proton, those of the Windows environment itself.  The VM's mirror   *)
(* is synchronized from the guest.                                         *)
Installs(e, added) ==
  /\ guest' = IF IsVm(e) THEN guest \cup added ELSE guest
  /\ prefixes' = [prefixes EXCEPT ![e].exes = @ \cup BuiltIn \cup added]

(* Mutants: a failed attempt is repaired without a rollback; the last      *)
(* attempt is accepted whatever its exit status.                           *)
AfterRunWithoutRollback(outcome) ==
  IF Terminal(outcome.category) THEN "reject"
  ELSE IF outcome.ok THEN "observe"
  ELSE IF step.attempt = Attempts THEN "abandon"
  ELSE "repair"
AfterRunAcceptsLast(outcome) ==
  IF Terminal(outcome.category) THEN "reject"
  ELSE IF outcome.ok \/ step.attempt = Attempts THEN "observe"
  ELSE "restore"

(* The status and output of the run decide what follows: classify() first, *)
(* then the exit status, then the number of attempts.                      *)
AfterRun(outcome) ==
  IF Terminal(outcome.category) THEN "reject"
  ELSE IF outcome.ok THEN "observe"
  ELSE IF step.attempt = Attempts THEN "abandon"
  ELSE "restore"

(* VmEnvironment::run discards the libvirt snapshot when the status is ok. *)
RunInstaller ==
  /\ pc = "run"
  /\ \E outcome \in [ok : BOOLEAN, category : Categories],
        added \in SUBSET Payload, trace \in BOOLEAN :
       /\ Installs(env, added)
       /\ step' = [step EXCEPT !.outcome = outcome]
       /\ job' = [job EXCEPT !.logKernel = @ \/ trace]
       /\ fate' = [fate EXCEPT ![env] = IF outcome.ok THEN "succeeded" ELSE "failed"]
       /\ snapshots' = IF IsVm(env) /\ outcome.ok THEN snapshots \ {CurrentSnapshot}
                       ELSE snapshots
       /\ Goto(AfterRun(outcome))
  /\ UNCHANGED << memory, clock, registry, pending >>

(* The backend did not start; in a VM the call can also fail after the     *)
(* installer did something, with or without the mirror synchronized.       *)
CannotStart ==
  /\ pc = "run"
  /\ \/ UNCHANGED << prefixes, guest >>
     \/ /\ IsVm(env)
        /\ \E added \in SUBSET Payload :
             \/ Installs(env, added)
             \/ guest' = guest \cup added /\ UNCHANGED prefixes
  /\ Goto("restore")
  /\ UNCHANGED << snapshots, memory, clock, registry, job, step, pending, fate >>

(* Mutant: the failure is recorded a second time on the way out. *)
RejectThenAbandon ==
  /\ pc = "reject"
  /\ RecordFailure(env)
  /\ Goto("abandon")
  /\ UNCHANGED << prefixes, guest, snapshots, registry, job, step, pending, fate >>

(* A failure that is not retryable ends the installation; its snapshot     *)
(* stays.                                                                  *)
Reject ==
  /\ pc = "reject"
  /\ RecordFailure(env)
  /\ Exit("error")
  /\ UNCHANGED << prefixes, guest, snapshots, registry, fate >>

(***************************************************************************)
(* The installer reported success.  The observer reads the whole log of    *)
(* this invocation, so kernel activity of an earlier attempt or strategy   *)
(* counts too.  A log that cannot be read, an executable that cannot be    *)
(* launched and strategy memory that cannot be saved end the installation. *)
(***************************************************************************)
Installed ==
  LET found == Discover(step.before, prefixes[env].exes)
  IN IF found = {} THEN {Source} ELSE found

Accept(app) ==
  /\ pending' = app
  /\ snapshots' = snapshots \ {CurrentSnapshot}
  /\ RecordSuccess(app.env)
  /\ Goto("register")
  /\ UNCHANGED << job, step >>

Escalates == job.logKernel /\ ClassOf(env) \in {"wine", "proton-umu"}

Observe ==
  /\ pc = "observe"
  /\ \E installed \in Installed :
       \/ /\ Exit("error")
          /\ snapshots' \in {snapshots, snapshots \ {CurrentSnapshot}}
          /\ UNCHANGED << memory, clock >>
       \/ /\ Launchable(env, installed) /\ Escalates
          /\ job' = [job EXCEPT !.kernel = TRUE]
          /\ Goto("abandon")
          /\ UNCHANGED << snapshots, memory, clock, step, pending >>
       \/ /\ Launchable(env, installed) /\ ~Escalates
          /\ \E others \in {{}, {"other"}} :
               LET limitations == others \cup (IF installed = Source
                                               THEN {"no-executable"} ELSE {})
               IN Accept([env |-> env, executable |-> installed, limitations |-> limitations,
                          quality |-> IF limitations = {} THEN "functional"
                                      ELSE "functional-with-limitations"])
  /\ UNCHANGED << prefixes, guest, registry, fate >>

(* Mutant: desktop integration fails after the registry was written, and   *)
(* the prefix is rolled back.                                              *)
RegisterThenRollBack ==
  /\ pc = "register"
  /\ registry' = pending
  /\ \/ Exit("registered") /\ UNCHANGED prefixes
     \/ Exit("error") /\ prefixes' = [prefixes EXCEPT ![env] = step.saved]
  /\ UNCHANGED << guest, snapshots, memory, clock, fate >>

(* register(): desktop::integrate can fail before the registry is written. *)
Register ==
  /\ pc = "register"
  /\ \/ registry' = pending /\ Exit("registered")
     \/ UNCHANGED registry /\ Exit("error")
  /\ UNCHANGED << prefixes, guest, snapshots, memory, clock, fate >>

(* The strategy failed; on with the next one, without a restore.           *)
Abandon ==
  /\ pc = "abandon"
  /\ RecordFailure(env)
  /\ Goto("choose")
  /\ UNCHANGED << prefixes, guest, snapshots, registry, job, step, pending, fate >>

(***************************************************************************)
(* restore_prefix: the failed directory is renamed out of the way, then    *)
(* the snapshot takes its place; the undo of the first rename can fail as  *)
(* well.  VmEnvironment::restore reverts the guest and synchronizes.       *)
(***************************************************************************)
AfterRestore == IF step.outcome = None THEN "abandon" ELSE "repair"

MoveAway ==
  /\ pc = "restore" /\ ~IsVm(env)
  /\ \/ /\ Goto("moved-away")
        /\ prefixes' = [prefixes EXCEPT ![env] = NoPrefix]
        /\ step' = [step EXCEPT !.displaced = prefixes[env]]
        /\ UNCHANGED << job, pending >>
     \/ Exit("error") /\ UNCHANGED prefixes
  /\ UNCHANGED << guest, snapshots, memory, clock, registry, fate >>

(* Mutant: the snapshot is copied back, not moved. *)
CopyBack ==
  /\ pc = "moved-away"
  /\ prefixes' = [prefixes EXCEPT ![env] = step.saved]
  /\ Goto(AfterRestore)
  /\ UNCHANGED << guest, snapshots, memory, clock, registry, job, step, pending, fate >>

MoveBack ==
  /\ pc = "moved-away"
  /\ \/ /\ prefixes' = [prefixes EXCEPT ![env] = step.saved]
        /\ snapshots' = snapshots \ {CurrentSnapshot}
        /\ Goto(AfterRestore)
        /\ UNCHANGED << job, step, pending >>
     \/ \E left \in {step.displaced, NoPrefix} :
          /\ prefixes' = [prefixes EXCEPT ![env] = left]
          /\ Exit("error")
          /\ UNCHANGED snapshots
  /\ UNCHANGED << guest, memory, clock, registry, fate >>

RevertVm ==
  /\ pc = "restore" /\ IsVm(env)
  /\ \/ /\ guest' = step.saved.exes \cap Payload
        /\ prefixes' = [prefixes EXCEPT ![env] = step.saved]
        /\ snapshots' = snapshots \ {CurrentSnapshot}
        /\ Goto(AfterRestore)
        /\ UNCHANGED << job, step, pending >>
     \/ /\ \/ UNCHANGED << guest, snapshots, prefixes >>
           \/ /\ guest' = step.saved.exes \cap Payload
              /\ \/ UNCHANGED << snapshots, prefixes >>
                 \/ /\ snapshots' = snapshots \ {CurrentSnapshot}
                    /\ \E left \in {prefixes[env].exes} \cup SUBSET step.saved.exes :
                         prefixes' = [prefixes EXCEPT ![env].exes = left]
        /\ Exit("error")
  /\ UNCHANGED << memory, clock, registry, fate >>

(***************************************************************************)
(* apply_repair and the next attempt.  A component that cannot be added    *)
(* ends the whole installation; a VM accepts none.                         *)
(***************************************************************************)
Retry == Goto("snapshot") /\ UNCHANGED << job, pending >>

RepairWithComponent ==
  /\ pc = "repair"
  /\ LET component == RepairComponent(step.outcome.category)
     IN /\ component # None
        /\ \/ /\ ~IsVm(env)
              /\ Retry
              /\ prefixes' = [prefixes EXCEPT
                              ![env].exes = @ \cup BuiltIn \cup ComponentExes[component],
                              ![env].components = @ \cup {component}]
              /\ step' = [step EXCEPT !.attempt = @ + 1]
           \/ Exit("repair-failed") /\ UNCHANGED prefixes
  /\ UNCHANGED << guest, snapshots, memory, clock, registry, fate >>

Repaired(plan, category) ==
  CASE category \in {"graphics-vulkan", "graphics-vkd3d"} -> [plan EXCEPT !.graphics = "opengl"]
    [] category = "sync-backend" -> [plan EXCEPT !.syncDisabled = TRUE]
    [] category = "windows-version" ->
         [plan EXCEPT !.windowsVersion = IF @ = "win10" THEN "win7" ELSE "win10"]
    [] OTHER -> plan

RepairPlan ==
  /\ pc = "repair"
  /\ RepairComponent(step.outcome.category) = None
  /\ step.outcome.category \notin Fallback
  /\ step' = [step EXCEPT !.plan = Repaired(@, step.outcome.category), !.attempt = @ + 1]
  /\ Retry
  /\ UNCHANGED << disk, fate >>

(* Mutant: without a repair the same attempt is made again. *)
RetryUnrepaired ==
  /\ pc = "repair"
  /\ step.outcome.category \in Fallback
  /\ Goto("snapshot")
  /\ UNCHANGED << disk, job, step, pending, fate >>

NextStrategy ==
  /\ pc = "repair"
  /\ step.outcome.category \in Fallback
  /\ Goto("abandon")
  /\ UNCHANGED << disk, job, step, pending, fate >>

(***************************************************************************)
(* No strategy is left and a kernel is required: vm::prepare, provision,   *)
(* initialize and snapshot of the closing VM attempt, then its only run.   *)
(* Every failure ends the installation; none is recorded.                  *)
(***************************************************************************)
PrepareFinal ==
  /\ pc = "final"
  /\ LET mirrored == [present |-> TRUE, exes |-> BuiltIn \cup guest, components |-> {}]
     IN \/ /\ prefixes' = [prefixes EXCEPT ![FinalVm] = mirrored]
           /\ fate' = [fate EXCEPT ![FinalVm] = "prepared"]
           /\ step' = [NoStep EXCEPT !.env = FinalVm, !.attempt = 1,
                                     !.before = mirrored.exes, !.saved = mirrored]
           /\ snapshots' = snapshots \cup {[env |-> FinalVm, run |-> run, attempt |-> 1]}
           /\ Goto("final-run")
           /\ UNCHANGED << job, pending >>
        \/ /\ prefixes' \in {prefixes, [prefixes EXCEPT ![FinalVm] = mirrored]}
           /\ Exit("error")
           /\ UNCHANGED << snapshots, fate >>
  /\ UNCHANGED << guest, memory, clock, registry >>

FinalRun ==
  /\ pc = "final-run"
  /\ \E outcome \in [ok : BOOLEAN, category : Categories], added \in SUBSET Payload :
       LET good == outcome.ok /\ ~Terminal(outcome.category)
           found == Discover(step.before, prefixes'[env].exes)
           installed == IF found = {} THEN {Source} ELSE found
       IN /\ Installs(env, added)
          /\ fate' = [fate EXCEPT ![env] = IF outcome.ok THEN "succeeded" ELSE "failed"]
          /\ \E executable \in installed :
               \/ /\ good /\ Launchable(env, executable)
                  /\ Accept([env |-> env, executable |-> executable,
                             quality |-> "functional", limitations |-> {}])
               \/ /\ snapshots' = IF outcome.ok THEN snapshots \ {CurrentSnapshot}
                                  ELSE snapshots
                  /\ Exit("error")
                  /\ UNCHANGED << memory, clock >>
  /\ UNCHANGED registry

(***************************************************************************)
(* The process is killed, or ends because it cannot write a log or its     *)
(* strategy memory.  A running installer may have written part of its      *)
(* files; a prefix being created may be there already.                     *)
(***************************************************************************)
Crash ==
  /\ pc # "idle"
  /\ \/ /\ pc \in {"run", "final-run"}
        /\ \E added \in SUBSET Payload : Installs(env, added)
        /\ fate' = [fate EXCEPT ![env] = "interrupted"]
     \/ /\ pc = "initialize"
        /\ \E left \in HalfInitialized :
             prefixes' = [prefixes EXCEPT ![env].present = TRUE, ![env].exes = left]
        /\ UNCHANGED << guest, fate >>
     \/ pc \notin {"run", "final-run"} /\ UNCHANGED << prefixes, guest, fate >>
  /\ Exit("killed")
  /\ UNCHANGED << snapshots, memory, clock, registry >>

(***************************************************************************)
(* `cognac remove`: first the application's directory under environments/, *)
(* then the registry entry.  Snapshots and the guest stay.                 *)
(***************************************************************************)
RemoveEnvironments ==
  /\ pc = "idle" /\ registry # None
  /\ prefixes' = [e \in Env |-> NoPrefix]
  /\ fate' = [e \in Env |-> "removed"]
  /\ Goto("removing")
  /\ UNCHANGED << guest, snapshots, memory, clock, registry, job, step, pending >>

RemoveEntry ==
  /\ pc = "removing"
  /\ registry' = None
  /\ Exit("removed")
  /\ UNCHANGED << prefixes, guest, snapshots, memory, clock, fate >>

------------------------------------------------------------------------------
Attempt ==
  TakeSnapshot \/ RunInstaller \/ CannotStart \/ Reject \/ Observe \/ Register \/ Abandon
Rollback == MoveAway \/ MoveBack \/ RevertVm
Repairs == RepairWithComponent \/ RepairPlan \/ NextStrategy

(* What the process does by itself once it was started. *)
Proceed ==
  \/ Choose \/ Provision \/ Recover \/ Remember \/ Initialize
  \/ Attempt \/ Rollback \/ Repairs
  \/ PrepareFinal \/ FinalRun \/ RemoveEntry

Next == ReuseInstalled \/ Begin \/ Proceed \/ RemoveEnvironments \/ Crash

Spec == Init /\ [][Next]_vars
FairSpec == Spec /\ WF_vars(Proceed)

------------------------------------------------------------------------------
(* Every variable has its type.                                            *)
TypeOK ==
  /\ prefixes \in [Env -> Prefix]
  /\ guest \subseteq Payload
  /\ snapshots \subseteq Snapshot
  /\ memory \in [Env -> Record] /\ clock \in Nat
  /\ registry \in App \cup {None}
  /\ pc \in PC /\ run \in Nat
  /\ job \in Job /\ step \in Step /\ pending \in App \cup {None}
  /\ fate \in [Env -> Fate]
  /\ ended \in Ending

(***************************************************************************)
(* An installer is never started in a Wine or Proton prefix in which an    *)
(* earlier run already left a program the detector would pick: recovery    *)
(* and rollback come first, on every path, kills included.                 *)
(***************************************************************************)
Pickable(e) == e \in DisplayIcon \/ Score[e] > 0

NoReinstallOverPayload ==
  pc \in {"snapshot", "run"} /\ ~IsVm(env) =>
    \A e \in prefixes[env].exes \cap Payload : ~Pickable(e)

(***************************************************************************)
(* A retry sees what the first attempt saw: apart from files that Windows  *)
(* and the added components bring along, nothing a failed attempt wrote    *)
(* survives into the next one.                                             *)
(***************************************************************************)
RetryFromCleanState ==
  pc = "run" /\ step.attempt > 1 =>
    prefixes[env].exes \ step.before
      \subseteq BuiltIn \cup ComponentFiles(prefixes[env].components)

(***************************************************************************)
(* The registered executable exists, whatever was tried and rolled back    *)
(* before and whatever later invocations do, unless its removal was begun. *)
(***************************************************************************)
RegisteredIntact ==
  registry # None =>
    \/ registry.executable = Source
    \/ registry.executable \in prefixes[registry.env].exes
    \/ fate[registry.env] = "removed"

(***************************************************************************)
(* Once a kernel is known to be required, from the imports or from the     *)
(* behaviour of an installer, this invocation runs nothing outside a VM.   *)
(***************************************************************************)
EscalationSticks == job.kernel /\ pc = "run" => IsVm(env)

(***************************************************************************)
(* At most one rollback snapshot per strategy and invocation is ever on    *)
(* disk, however attempts, rollbacks and kills interleave.  (A plan that   *)
(* lists an environment twice is MCPlanner!SeparateEnvironments.)          *)
(***************************************************************************)
Distinct == \A i, j \in DOMAIN Preference : Preference[i] = Preference[j] => i = j

SnapshotBudget ==
  Distinct =>
    \A s, t \in snapshots : s.env = t.env /\ s.run = t.run => s = t

(***************************************************************************)
(* Strategy memory counts one verdict per strategy and invocation at most: *)
(* no path records a turn as a failure and again as something else.        *)
(***************************************************************************)
OneVerdictPerRun ==
  Distinct => \A e \in Env : memory[e].successes + memory[e].failures <= run

(***************************************************************************)
(* An application registered as functional comes from an installer run     *)
(* that reported success in that environment, and nothing ran there since. *)
(***************************************************************************)
FunctionalFromSuccess ==
  registry # None /\ registry.quality = "functional" =>
    fate[registry.env] \in {"succeeded", "removed"}

(***************************************************************************)
(* Every invocation ends, whatever fails, as long as the programs it       *)
(* starts end and it is scheduled.                                         *)
(***************************************************************************)
InstallTerminates == pc # "idle" ~> pc = "idle"

------------------------------------------------------------------------------
(* What documents, comments and texts of the repository say, and the code  *)
(* does not keep.                                                          *)

(***************************************************************************)
(* CONTRIBUTING.md:46, "observe -> diagnose -> mutate -> retry": a retry   *)
(* runs the installer in a configuration the last attempt did not have.    *)
(***************************************************************************)
RetryMutates == pc = "run" /\ step.attempt > 1 => step.config # step.previous

==============================================================================
