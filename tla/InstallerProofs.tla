---------------------------- MODULE InstallerProofs ----------------------------
(***************************************************************************)
(* Theorems about Installer: for any environments, order of strategies,    *)
(* executables, components and scores, and any number of attempts and      *)
(* invocations.                                                            *)
(***************************************************************************)
EXTENDS Installer, FiniteSetTheorems, WellFoundedInduction, TLAPS

(***************************************************************************)
(* Where a strategy of the plan is in progress, and where install() is on  *)
(* its way through the list.                                               *)
(***************************************************************************)
Turn == {"provision", "recover", "remember", "initialize", "snapshot", "run", "reject",
         "observe", "restore", "moved-away", "repair", "abandon"}
Underway == Turn \cup {"choose", "final", "final-run"}

(* The strategy in progress comes from the list and is off it. *)
Located ==
  /\ pc \in Turn => \E i \in DOMAIN Preference \ job.remaining : env = Preference[i]
  /\ pc = "final-run" => env = FinalVm

Typed == TypeOK /\ Located

(* An escalation leads to "abandon" and the head of the loop, nowhere else. *)
KernelInv == job.kernel /\ pc \in Turn \ {"abandon"} => IsVm(env)

(* Environments this invocation may still come to. *)
Ahead(e) == (\E i \in job.remaining : Preference[i] = e) \/ e = FinalVm

Verdicts(e) == memory[e].successes + memory[e].failures

VerdictInv ==
  Distinct =>
    /\ \A e \in Env : Verdicts(e) <= run
    /\ pc \in Underway => \A e \in Env : Ahead(e) => Verdicts(e) < run
    /\ pc \in Turn => Verdicts(env) < run

(* Where the environment in progress has no snapshot of this invocation,   *)
(* and where it can only have that of the current attempt.                 *)
Unsaved == {"provision", "recover", "remember", "initialize", "snapshot", "repair"}
Attempting == {"run", "reject", "observe", "restore", "moved-away"}

SnapshotInv ==
  Distinct =>
    /\ \A s \in snapshots : s.run <= run
    /\ pc \in Underway \ {"final-run"} => \A s \in snapshots : s.run = run => ~Ahead(s.env)
    /\ pc \in Unsaved => \A s \in snapshots : s.run = run => s.env # env
    /\ pc \in Attempting => \A s \in snapshots : s.run = run /\ s.env = env => s = CurrentSnapshot
    /\ SnapshotBudget

(***************************************************************************)
(* What an attempt starts from and what its rollback puts back: a prefix   *)
(* without anything the detector would pick of the installer's own files,  *)
(* and without files nobody accounts for.                                  *)
(***************************************************************************)
Untouched(p) == \A e \in p.exes \cap Payload : ~Pickable(e)
Accounted(p) == p.exes \ step.before \subseteq BuiltIn \cup ComponentFiles(p.components)

CleanInv ==
  /\ pc \in {"initialize", "snapshot", "run", "repair"} /\ ~IsVm(env) => Untouched(prefixes[env])
  /\ pc \in Attempting /\ ~IsVm(env) => Untouched(step.saved)

RetryInv ==
  /\ pc \in {"snapshot", "run", "repair"} => Accounted(prefixes[env])
  /\ pc \in Attempting => Accounted(step.saved)

(* What is registered, and what is about to be. *)
RegistryInv ==
  /\ pc \notin {"idle", "remember", "removing"} => registry = None
  /\ RegisteredIntact
  /\ FunctionalFromSuccess
  /\ pc = "observe" => fate[env] = "succeeded"
  /\ pc = "register" => \/ pending.executable = Source
                        \/ pending.executable \in prefixes[pending.env].exes
  /\ pc = "register" /\ pending.quality = "functional" => fate[pending.env] = "succeeded"

------------------------------------------------------------------------------
(* Types of what the actions write. *)
ProcessType ==
  /\ pc \in PC /\ run \in Nat
  /\ job \in Job /\ step \in Step /\ pending \in App \cup {None}
  /\ ended \in Ending

DiskType ==
  /\ prefixes \in [Env -> Prefix]
  /\ guest \subseteq Payload
  /\ snapshots \subseteq Snapshot
  /\ memory \in [Env -> Record] /\ clock \in Nat
  /\ registry \in App \cup {None}
  /\ fate \in [Env -> Fate]

LEMMA Blank ==
  /\ NoPrefix \in Prefix /\ NoRecord \in Record /\ NoJob \in Job
  /\ FreshPlan \in PlanState /\ NoStep \in Step
  /\ \A e \in Env : [NoStep EXCEPT !.env = e] \in Step /\ [NoStep EXCEPT !.env = e].env = e
<1>1. NoPrefix \in Prefix /\ NoRecord \in Record
  BY DEF NoPrefix, Prefix, NoRecord, Record
<1>2. NoJob \in Job
  BY DEF NoJob, Job
<1>3. FreshPlan \in PlanState
  BY PlanAssumption DEF FreshPlan, PlanState
<1>4. NoStep \in Step
  BY <1>1, <1>3 DEF NoStep, Step
<1>5. ASSUME NEW e \in Env
      PROVE  [NoStep EXCEPT !.env = e] \in Step /\ [NoStep EXCEPT !.env = e].env = e
  BY <1>4 DEF Step
<1> QED
  BY <1>1, <1>2, <1>3, <1>4, <1>5

LEMMA EnvType ==
  ASSUME Located, pc \in Turn \cup {"final-run"}
  PROVE  env \in Env
<1>1. CASE pc \in Turn
  BY <1>1, EnvAssumption DEF Located
<1>2. CASE pc = "final-run"
  BY <1>2, EnvAssumption DEF Located
<1> QED
  BY <1>1, <1>2

LEMMA ExitType ==
  ASSUME ProcessType, NEW how \in Ending, Exit(how)
  PROVE  ProcessType' /\ Located'
BY Blank DEF ProcessType, Exit, Located, PC, Turn

LEMMA Counted ==
  ASSUME NEW m \in Record, NEW n \in Nat, NEW t \in Nat
  PROVE  /\ [m EXCEPT !.successes = n, !.lastUsed = t] \in Record
         /\ [m EXCEPT !.failures = n, !.lastUsed = t] \in Record
BY DEF Record

LEMMA RecordType ==
  ASSUME DiskType, NEW e \in Env, RecordSuccess(e) \/ RecordFailure(e)
  PROVE  /\ memory' \in [Env -> Record] /\ clock' \in Nat
         /\ \A f \in Env : Verdicts(f)' = IF f = e THEN Verdicts(f) + 1 ELSE Verdicts(f)
<1>1. clock' \in Nat /\ memory[e] \in Record /\ memory \in [Env -> Record]
  BY DEF RecordSuccess, RecordFailure, DiskType
<1>2. CASE RecordSuccess(e)
  <2> DEFINE n == memory[e].successes + 1
             r == [memory[e] EXCEPT !.successes = n, !.lastUsed = clock']
  <2>1. memory' = [memory EXCEPT ![e] = r]
    BY <1>2 DEF RecordSuccess
  <2>2. /\ n \in Nat /\ n = memory[e].successes + 1
        /\ memory[e].successes \in Nat /\ memory[e].failures \in Nat
    BY <1>1 DEF Record
  <2> HIDE DEF n
  <2>3. r \in Record
    BY <1>1, <2>2, Counted
  <2>4. r.successes = n /\ r.failures = memory[e].failures
    BY <1>1 DEF Record
  <2> HIDE DEF r
  <2>5. ASSUME NEW f \in Env
        PROVE  Verdicts(f)' = IF f = e THEN Verdicts(f) + 1 ELSE Verdicts(f)
    BY <1>1, <2>1, <2>2, <2>4 DEF Verdicts
  <2> QED
    BY <1>1, <2>1, <2>3, <2>5
<1>3. CASE RecordFailure(e)
  <2> DEFINE n == memory[e].failures + 1
             r == [memory[e] EXCEPT !.failures = n, !.lastUsed = clock']
  <2>1. memory' = [memory EXCEPT ![e] = r]
    BY <1>3 DEF RecordFailure
  <2>2. /\ n \in Nat /\ n = memory[e].failures + 1
        /\ memory[e].successes \in Nat /\ memory[e].failures \in Nat
    BY <1>1 DEF Record
  <2> HIDE DEF n
  <2>3. r \in Record
    BY <1>1, <2>2, Counted
  <2>4. r.failures = n /\ r.successes = memory[e].successes
    BY <1>1 DEF Record
  <2> HIDE DEF r
  <2>5. ASSUME NEW f \in Env
        PROVE  Verdicts(f)' = IF f = e THEN Verdicts(f) + 1 ELSE Verdicts(f)
    BY <1>1, <2>1, <2>2, <2>4 DEF Verdicts
  <2> QED
    BY <1>1, <2>1, <2>3, <2>5
<1> QED
  BY <1>2, <1>3

(* A prefix whose executables change is still a prefix. *)
LEMMA ExesType ==
  ASSUME DiskType, NEW e \in Env, NEW files \in SUBSET Exe
  PROVE  /\ [prefixes EXCEPT ![e].exes = files] \in [Env -> Prefix]
         /\ [prefixes EXCEPT ![e].present = TRUE, ![e].exes = files] \in [Env -> Prefix]
         /\ [prefixes EXCEPT ![e].present = TRUE] \in [Env -> Prefix]
         /\ prefixes[e] \in Prefix /\ prefixes[e].exes \subseteq Exe
BY DEF DiskType, Prefix

LEMMA InstallsType ==
  ASSUME DiskType, NEW e \in Env, NEW added \in SUBSET Payload, Installs(e, added)
  PROVE  /\ prefixes' \in [Env -> Prefix] /\ guest' \subseteq Payload
         /\ prefixes'[e].exes \subseteq Exe
<1> DEFINE files == prefixes[e].exes \cup BuiltIn \cup added
<1>1. files \in SUBSET Exe
  BY ExesType, ExeAssumption
<1>2. prefixes' = [prefixes EXCEPT ![e].exes = files] /\ prefixes \in [Env -> Prefix]
  BY DEF Installs, DiskType
<1>3. prefixes' \in [Env -> Prefix]
  BY <1>1, <1>2, ExesType
<1>4. prefixes'[e].exes = files
  BY <1>2 DEF Prefix
<1>5. guest' \subseteq Payload
  BY DEF Installs, DiskType
<1> QED
  BY <1>1, <1>3, <1>4, <1>5

LEMMA DiscoverType ==
  ASSUME NEW old, NEW new
  PROVE  Discover(old, new) \subseteq new \ old
BY DEF Discover, Best

LEMMA InitialType ==
  ASSUME DiskType, NEW e \in Env
  PROVE  InitialExes(e) \subseteq Exe
<1>1. ComponentFiles(PlanComponents) \subseteq Exe
  BY PlanAssumption DEF ComponentFiles
<1> QED
  BY <1>1, ExeAssumption DEF InitialExes, DiskType

(* Where a turn that goes on stays located. *)
LEMMA StaysLocated ==
  ASSUME Located, pc \in Turn, step'.env = step.env, job'.remaining = job.remaining,
         pc' # "final-run"
  PROVE  Located'
BY DEF Located, Turn, env

LEMMA TypedParts == Typed <=> ProcessType /\ DiskType /\ Located
BY DEF Typed, TypeOK, ProcessType, DiskType

LEMMA TypedNext ==
  ASSUME ProcessType', DiskType', Located'
  PROVE  Typed'
BY DEF Typed, TypeOK, ProcessType, DiskType

------------------------------------------------------------------------------
(* Every action keeps the types. *)
LEMMA ReuseTyped ==
  ASSUME Typed, ReuseInstalled
  PROVE  Typed'
<1>1. ProcessType /\ DiskType /\ registry # None /\ registry \in App
  BY TypedParts DEF ReuseInstalled, DiskType
<1>2. ASSUME NEW app \in App, Reuse(app)
      PROVE  registry' \in App \cup {None} /\ ended' \in Ending
  BY <1>1, <1>2 DEF Reuse, DiskType, Ending
<1>3. ASSUME NEW candidate \in Discover({}, prefixes[registry.env].exes)
      PROVE  [registry EXCEPT !.executable = candidate, !.quality = "unverified",
                              !.limitations = @ \ {"recovered"}] \in App
  <2>1. candidate \in Exe
    BY <1>1, DiscoverType DEF DiskType, Prefix, App
  <2> QED
    BY <1>1, <2>1 DEF App, Quality
<1>4. registry' \in App \cup {None} /\ ended' \in Ending
  BY <1>1, <1>2, <1>3 DEF ReuseInstalled
<1>5. ProcessType' /\ DiskType'
  <2>1. /\ run' = run + 1
        /\ UNCHANGED << prefixes, guest, snapshots, memory, clock, pc, job, step, pending, fate >>
    BY DEF ReuseInstalled
  <2> QED
    BY <1>1, <1>4, <2>1 DEF ProcessType, DiskType
<1>6. Located'
  BY TypedParts DEF ReuseInstalled, Located, Turn, env
<1> QED
  BY <1>5, <1>6, TypedNext

LEMMA BeginTyped ==
  ASSUME Typed, Begin
  PROVE  Typed'
<1>1. job' \in Job
  BY PlanAssumption DEF Begin, PreferredEnv, Job
<1>2. ProcessType' /\ DiskType' /\ Located'
  BY <1>1, TypedParts DEF Begin, ProcessType, DiskType, Located, Turn, PC, disk, history
<1> QED
  BY <1>2, TypedNext

LEMMA ChooseTyped ==
  ASSUME Typed, Choose
  PROVE  Typed'
<1>1. ProcessType /\ DiskType /\ job \in Job
  BY TypedParts DEF ProcessType
<1>2. DiskType'
  BY <1>1 DEF Choose, DiskType, disk
<1>3. ASSUME NEW i \in job.remaining, job' = [job EXCEPT !.remaining = @ \ {i}],
             \/ Skipped(i) /\ Goto("choose") /\ step' = NoStep
             \/ ~Skipped(i) /\ Goto("provision") /\ step' = [NoStep EXCEPT !.env = Preference[i]],
             UNCHANGED pending
      PROVE  ProcessType' /\ Located'
  <2>1. i \in DOMAIN Preference /\ job' \in Job /\ i \notin job'.remaining
    BY <1>1, <1>3 DEF Job
  <2>2. Preference[i] \in Env
    BY <2>1, EnvAssumption
  <2>3. step' \in Step /\ (pc' = "provision" => step'.env = Preference[i])
    BY <1>3, <2>2, Blank DEF Goto
  <2>4. ProcessType'
    BY <1>1, <1>3, <2>1, <2>3 DEF ProcessType, Goto, PC
  <2>5. Located'
    BY <1>3, <2>1, <2>3 DEF Located, Goto, Turn, env
  <2> QED
    BY <2>4, <2>5
<1>4. ASSUME Goto("final"), UNCHANGED << job, step, pending >>
      PROVE  ProcessType' /\ Located'
  BY <1>1, <1>4 DEF Goto, ProcessType, PC, Located, Turn, env
<1>5. ASSUME Exit("exhausted")
      PROVE  ProcessType' /\ Located'
  BY <1>1, <1>5, ExitType DEF Ending
<1>6. ProcessType' /\ Located'
  BY <1>3, <1>4, <1>5 DEF Choose
<1> QED
  BY <1>2, <1>6, TypedNext

LEMMA ProvisionTyped ==
  ASSUME Typed, Provision
  PROVE  Typed'
<1>1. ProcessType /\ DiskType /\ Located /\ env \in Env /\ pc \in Turn
  BY TypedParts, EnvType DEF Provision, Turn
<1>2. prefixes' \in [Env -> Prefix]
  BY <1>1, ExesType DEF Provision, DiskType
<1>3. memory' \in [Env -> Record] /\ clock' \in Nat
  BY <1>1, RecordType DEF Provision, DiskType
<1>4. ProcessType' /\ DiskType'
  BY <1>1, <1>2, <1>3 DEF Provision, ProcessType, DiskType, Goto, PC
<1>5. Located'
  BY <1>1, StaysLocated DEF Provision, Goto
<1> QED
  BY <1>4, <1>5, TypedNext

LEMMA RecoverTyped ==
  ASSUME Typed, Recover
  PROVE  Typed'
<1>1. ProcessType /\ DiskType /\ Located /\ env \in Env /\ pc \in Turn
  BY TypedParts, EnvType DEF Recover, Turn
<1>2. Discover({}, prefixes[env].exes) \subseteq Exe
  <2>1. prefixes[env].exes \subseteq Exe
    BY <1>1, ExesType
  <2>2. Discover({}, prefixes[env].exes) \subseteq prefixes[env].exes \ {}
    BY DiscoverType
  <2> QED
    BY <2>1, <2>2
<1>3. registry' \in App \cup {None}
  BY <1>1, <1>2 DEF Recover, DiskType, App, Quality, Limitation
<1>4. DiskType'
  BY <1>1, <1>3 DEF Recover, DiskType
<1>5. CASE Exit("error")
  BY <1>1, <1>4, <1>5, ExitType, TypedNext DEF Ending
<1>6. CASE (Goto("initialize") \/ Goto("remember")) /\ UNCHANGED << job, step, pending >>
  <2>1. ProcessType'
    BY <1>1, <1>6 DEF ProcessType, Goto, PC
  <2>2. Located'
    BY <1>1, <1>6, StaysLocated DEF Goto
  <2> QED
    BY <1>4, <2>1, <2>2, TypedNext
<1> QED
  BY <1>5, <1>6 DEF Recover

LEMMA RememberTyped ==
  ASSUME Typed, Remember
  PROVE  Typed'
<1>1. ProcessType /\ DiskType /\ env \in Env
  BY TypedParts, EnvType DEF Remember, Turn
<1>2. DiskType'
  BY <1>1, RecordType DEF Remember, DiskType
<1> QED
  BY <1>1, <1>2, ExitType, TypedNext DEF Remember, Ending

LEMMA InitializedType ==
  ASSUME DiskType, env \in Env
  PROVE  Initialized \in Prefix /\ \A left \in HalfInitialized : left \subseteq Exe
<1>1. InitialExes(env) \subseteq Exe /\ prefixes[env] \in Prefix
  BY InitialType, ExesType
<1>2. Initialized \in Prefix
  BY <1>1, PlanAssumption DEF Initialized, Prefix
<1>3. \A left \in HalfInitialized : left \subseteq Exe
  BY <1>1 DEF HalfInitialized, Prefix
<1> QED
  BY <1>2, <1>3

LEMMA InitializeTyped ==
  ASSUME Typed, Initialize
  PROVE  Typed'
<1>1. ProcessType /\ DiskType /\ Located /\ env \in Env /\ pc \in Turn
  BY TypedParts, EnvType DEF Initialize, Turn
<1>2. prefixes' \in [Env -> Prefix]
  <2>1. CASE prefixes' = [prefixes EXCEPT ![env] = Initialized]
    BY <1>1, <2>1, InitializedType DEF DiskType
  <2>2. ASSUME NEW left \in HalfInitialized,
               prefixes' = [prefixes EXCEPT ![env].present = TRUE, ![env].exes = left]
        PROVE  prefixes' \in [Env -> Prefix]
    <3>1. left \in SUBSET Exe
      BY <1>1, InitializedType
    <3> QED
      BY <1>1, <2>2, <3>1, ExesType
  <2> QED
    BY <2>1, <2>2 DEF Initialize
<1>3. memory' \in [Env -> Record] /\ clock' \in Nat
  BY <1>1, RecordType DEF Initialize, DiskType
<1>4. fate' \in [Env -> Fate]
  BY <1>1 DEF Initialize, DiskType, Fate
<1>5. DiskType'
  BY <1>1, <1>2, <1>3, <1>4 DEF Initialize, DiskType
<1>6. step' \in Step /\ step'.env = step.env
  <2>1. Initialized.exes \subseteq Exe
    BY <1>1, InitializedType DEF Prefix
  <2>2. step \in Step
    BY <1>1 DEF ProcessType
  <2>3. CASE step' = [step EXCEPT !.attempt = 1, !.before = Initialized.exes]
    BY <2>1, <2>2, <2>3 DEF Step
  <2>4. CASE step' = step
    BY <2>2, <2>4
  <2> QED
    BY <2>3, <2>4 DEF Initialize
<1>7. ProcessType'
  BY <1>1, <1>6 DEF Initialize, ProcessType, Goto, PC
<1>8. Located'
  BY <1>1, <1>6, StaysLocated DEF Initialize, Goto
<1> QED
  BY <1>5, <1>7, <1>8, TypedNext

LEMMA TakeSnapshotTyped ==
  ASSUME Typed, TakeSnapshot
  PROVE  Typed'
<1>1. ProcessType /\ DiskType /\ Located /\ env \in Env /\ pc \in Turn
  BY TypedParts, EnvType DEF TakeSnapshot, Turn
<1>2. CurrentSnapshot \in Snapshot
  BY <1>1 DEF CurrentSnapshot, Snapshot, ProcessType, Step
<1>3. DiskType'
  BY <1>1, <1>2 DEF TakeSnapshot, DiskType
<1>4. CASE /\ Goto("run")
           /\ step' = [step EXCEPT !.saved = prefixes[env], !.outcome = None,
                                   !.previous = step.config, !.config = RuntimeConfig]
           /\ UNCHANGED << job, pending >>
  <2>1. RuntimeConfig \in Configuration
    BY <1>1 DEF RuntimeConfig, Configuration, ProcessType, DiskType, Step, Prefix, PlanState
  <2>2. prefixes[env] \in Prefix /\ step \in Step
    BY <1>1 DEF DiskType, ProcessType
  <2>3. step' \in Step /\ step'.env = step.env
    BY <1>4, <2>1, <2>2 DEF Step
  <2>4. ProcessType'
    BY <1>1, <1>4, <2>3 DEF ProcessType, Goto, PC
  <2>5. Located'
    BY <1>1, <1>4, <2>3, StaysLocated DEF Goto
  <2> QED
    BY <1>3, <2>4, <2>5, TypedNext
<1>5. CASE Exit("error")
  BY <1>1, <1>3, <1>5, ExitType, TypedNext DEF Ending
<1> QED
  BY <1>4, <1>5 DEF TakeSnapshot

LEMMA RunTyped ==
  ASSUME Typed, RunInstaller
  PROVE  Typed'
<1>1. ProcessType /\ DiskType /\ Located /\ env \in Env /\ pc \in Turn
  BY TypedParts, EnvType DEF RunInstaller, Turn
<1>2. PICK outcome \in [ok : BOOLEAN, category : Categories],
           added \in SUBSET Payload, trace \in BOOLEAN :
             /\ Installs(env, added)
             /\ step' = [step EXCEPT !.outcome = outcome]
             /\ job' = [job EXCEPT !.logKernel = @ \/ trace]
             /\ fate' = [fate EXCEPT ![env] = IF outcome.ok THEN "succeeded" ELSE "failed"]
             /\ snapshots' = IF IsVm(env) /\ outcome.ok THEN snapshots \ {CurrentSnapshot}
                             ELSE snapshots
             /\ Goto(AfterRun(outcome))
  BY DEF RunInstaller
<1>3. outcome \in Outcome
  BY PlanAssumption DEF Outcome
<1>4. step' \in Step /\ step'.env = step.env
  BY <1>1, <1>2, <1>3 DEF ProcessType, Step
<1>5. job' \in Job /\ job'.remaining = job.remaining
  BY <1>1, <1>2 DEF ProcessType, Job
<1>6. AfterRun(outcome) \in PC \ {"final-run"}
  BY DEF AfterRun, PC
<1>7. ProcessType'
  BY <1>1, <1>2, <1>4, <1>5, <1>6 DEF RunInstaller, ProcessType, Goto
<1>8. DiskType'
  BY <1>1, <1>2, InstallsType DEF RunInstaller, DiskType, Fate
<1>9. Located'
  BY <1>1, <1>2, <1>4, <1>5, <1>6, StaysLocated DEF Goto
<1> QED
  BY <1>7, <1>8, <1>9, TypedNext

LEMMA CannotStartTyped ==
  ASSUME Typed, CannotStart
  PROVE  Typed'
<1>1. ProcessType /\ DiskType /\ Located /\ env \in Env /\ pc \in Turn
  BY TypedParts, EnvType DEF CannotStart, Turn
<1>2. prefixes' \in [Env -> Prefix] /\ guest' \subseteq Payload
  BY <1>1, InstallsType DEF CannotStart, DiskType
<1>3. ProcessType' /\ DiskType'
  BY <1>1, <1>2 DEF CannotStart, ProcessType, DiskType, Goto, PC
<1>4. Located'
  BY <1>1, StaysLocated DEF CannotStart, Goto
<1> QED
  BY <1>3, <1>4, TypedNext

LEMMA RejectTyped ==
  ASSUME Typed, Reject
  PROVE  Typed'
<1>1. ProcessType /\ DiskType /\ Located /\ env \in Env /\ pc \in Turn
  BY TypedParts, EnvType DEF Reject, Turn
<1>2. DiskType'
  BY <1>1, RecordType DEF Reject, DiskType
<1> QED
  BY <1>1, <1>2, ExitType, TypedNext DEF Reject, Ending

(* Accept leaves only the registration to be done. *)
LEMMA AcceptType ==
  ASSUME ProcessType, DiskType, NEW app \in App, Accept(app)
  PROVE  /\ ProcessType' /\ Located'
         /\ memory' \in [Env -> Record] /\ clock' \in Nat /\ snapshots' \subseteq Snapshot
<1>1. app.env \in Env
  BY DEF App
<1>2. memory' \in [Env -> Record] /\ clock' \in Nat
  BY <1>1, RecordType DEF Accept
<1>3. ProcessType' /\ Located'
  BY DEF Accept, ProcessType, Goto, PC, Located, Turn
<1> QED
  BY <1>2, <1>3 DEF Accept, DiskType

LEMMA InstalledType ==
  ASSUME DiskType, env \in Env
  PROVE  Installed \subseteq prefixes[env].exes \cup {Source}
<1>1. Discover(step.before, prefixes[env].exes) \subseteq prefixes[env].exes \ step.before
  BY DiscoverType
<1> QED
  BY <1>1 DEF Installed

LEMMA ObserveTyped ==
  ASSUME Typed, Observe
  PROVE  Typed'
<1>1. ProcessType /\ DiskType /\ Located /\ env \in Env /\ pc \in Turn
  BY TypedParts, EnvType DEF Observe, Turn
<1>2. PICK installed \in Installed :
       \/ /\ Exit("error")
          /\ snapshots' \in {snapshots, snapshots \ {CurrentSnapshot}}
          /\ UNCHANGED << memory, clock >>
       \/ /\ job' = [job EXCEPT !.kernel = TRUE]
          /\ Goto("abandon")
          /\ UNCHANGED << snapshots, memory, clock, step, pending >>
       \/ \E others \in {{}, {"other"}} :
            LET limitations == others \cup (IF installed = Source
                                            THEN {"no-executable"} ELSE {})
            IN Accept([env |-> env, executable |-> installed, limitations |-> limitations,
                       quality |-> IF limitations = {} THEN "functional"
                                   ELSE "functional-with-limitations"])
  BY DEF Observe
<1>3. installed \in Exe \cup {Source}
  BY <1>1, InstalledType, ExesType
<1>4. UNCHANGED << prefixes, guest, registry, fate >>
  BY DEF Observe
<1>5. CASE /\ Exit("error")
           /\ snapshots' \in {snapshots, snapshots \ {CurrentSnapshot}}
           /\ UNCHANGED << memory, clock >>
  <2>1. DiskType'
    BY <1>1, <1>4, <1>5 DEF DiskType
  <2> QED
    BY <1>1, <1>5, <2>1, ExitType, TypedNext DEF Ending
<1>6. CASE /\ job' = [job EXCEPT !.kernel = TRUE]
           /\ Goto("abandon")
           /\ UNCHANGED << snapshots, memory, clock, step, pending >>
  <2>1. job' \in Job /\ job'.remaining = job.remaining
    BY <1>1, <1>6 DEF ProcessType, Job
  <2>2. ProcessType' /\ DiskType'
    BY <1>1, <1>4, <1>6, <2>1 DEF ProcessType, DiskType, Goto, PC
  <2>3. Located'
    BY <1>1, <1>6, <2>1, StaysLocated DEF Goto
  <2> QED
    BY <2>2, <2>3, TypedNext
<1>7. ASSUME NEW others \in {{}, {"other"}},
             NEW limitations, limitations = others \cup (IF installed = Source
                                                         THEN {"no-executable"} ELSE {}),
             Accept([env |-> env, executable |-> installed, limitations |-> limitations,
                     quality |-> IF limitations = {} THEN "functional"
                                 ELSE "functional-with-limitations"])
      PROVE  Typed'
  <2> DEFINE app == [env |-> env, executable |-> installed, limitations |-> limitations,
                     quality |-> IF limitations = {} THEN "functional"
                                 ELSE "functional-with-limitations"]
  <2>1. app \in App
    BY <1>1, <1>3, <1>7 DEF App, Quality, Limitation
  <2>2. Accept(app)
    BY <1>7
  <2> HIDE DEF app
  <2>3. /\ ProcessType' /\ Located'
        /\ memory' \in [Env -> Record] /\ clock' \in Nat /\ snapshots' \subseteq Snapshot
    BY <1>1, <2>1, <2>2, AcceptType
  <2>4. DiskType'
    BY <1>1, <1>4, <2>3 DEF DiskType
  <2> QED
    BY <2>3, <2>4, TypedNext
<1> QED
  BY <1>2, <1>5, <1>6, <1>7

LEMMA RegisterTyped ==
  ASSUME Typed, Register
  PROVE  Typed'
<1>1. ProcessType /\ DiskType
  BY TypedParts
<1>2. DiskType'
  BY <1>1 DEF Register, DiskType, ProcessType
<1> QED
  BY <1>1, <1>2, ExitType, TypedNext DEF Register, Ending

LEMMA AbandonTyped ==
  ASSUME Typed, Abandon
  PROVE  Typed'
<1>1. ProcessType /\ DiskType /\ Located /\ env \in Env /\ pc \in Turn
  BY TypedParts, EnvType DEF Abandon, Turn
<1>2. DiskType'
  BY <1>1, RecordType DEF Abandon, DiskType
<1>3. ProcessType'
  BY <1>1 DEF Abandon, ProcessType, Goto, PC
<1>4. Located'
  BY <1>1, StaysLocated DEF Abandon, Goto
<1> QED
  BY <1>2, <1>3, <1>4, TypedNext

(* A rollback ends in the next attempt, the next strategy or an error. *)
LEMMA RolledBack ==
  ASSUME Typed, pc \in Turn, DiskType',
         \/ Exit("error")
         \/ Goto(AfterRestore) /\ UNCHANGED << job, step, pending >>
  PROVE  Typed'
<1>1. ProcessType /\ Located
  BY TypedParts
<1>2. CASE Exit("error")
  BY <1>1, <1>2, ExitType, TypedNext DEF Ending
<1>3. CASE Goto(AfterRestore) /\ UNCHANGED << job, step, pending >>
  <2>1. AfterRestore \in {"abandon", "repair"}
    BY DEF AfterRestore
  <2>2. ProcessType'
    BY <1>1, <1>3, <2>1 DEF ProcessType, Goto, PC
  <2>3. Located'
    BY <1>1, <1>3, <2>1, StaysLocated DEF Goto
  <2> QED
    BY <2>2, <2>3, TypedNext
<1> QED
  BY <1>2, <1>3

LEMMA MoveAwayTyped ==
  ASSUME Typed, MoveAway
  PROVE  Typed'
<1>1. ProcessType /\ DiskType /\ Located /\ env \in Env /\ pc \in Turn
  BY TypedParts, EnvType DEF MoveAway, Turn
<1>2. DiskType'
  BY <1>1, Blank DEF MoveAway, DiskType
<1>3. CASE Exit("error")
  BY <1>1, <1>2, <1>3, ExitType, TypedNext DEF Ending
<1>4. CASE /\ Goto("moved-away")
           /\ step' = [step EXCEPT !.displaced = prefixes[env]]
           /\ UNCHANGED << job, pending >>
  <2>1. step' \in Step /\ step'.env = step.env
    BY <1>1, <1>4 DEF ProcessType, DiskType, Step
  <2>2. ProcessType'
    BY <1>1, <1>4, <2>1 DEF ProcessType, Goto, PC
  <2>3. Located'
    BY <1>1, <1>4, <2>1, StaysLocated DEF Goto
  <2> QED
    BY <1>2, <2>2, <2>3, TypedNext
<1> QED
  BY <1>3, <1>4 DEF MoveAway

LEMMA MoveBackTyped ==
  ASSUME Typed, MoveBack
  PROVE  Typed'
<1>1. ProcessType /\ DiskType /\ Located /\ env \in Env /\ pc \in Turn
  BY TypedParts, EnvType DEF MoveBack, Turn
<1>2. step.saved \in Prefix /\ step.displaced \in Prefix
  BY <1>1 DEF ProcessType, Step
<1>3. DiskType'
  BY <1>1, <1>2, Blank DEF MoveBack, DiskType
<1> QED
  BY <1>1, <1>3, RolledBack DEF MoveBack

LEMMA RevertVmTyped ==
  ASSUME Typed, RevertVm
  PROVE  Typed'
<1>1. ProcessType /\ DiskType /\ Located /\ env \in Env /\ pc \in Turn
  BY TypedParts, EnvType DEF RevertVm, Turn
<1>2. step.saved \in Prefix /\ step.saved.exes \subseteq Exe
  BY <1>1 DEF ProcessType, Step, Prefix
<1>3. prefixes' \in [Env -> Prefix]
  <2>1. ASSUME NEW left \in {prefixes[env].exes} \cup SUBSET step.saved.exes,
               prefixes' = [prefixes EXCEPT ![env].exes = left]
        PROVE  prefixes' \in [Env -> Prefix]
    <3>1. left \in SUBSET Exe
      BY <1>1, <1>2, ExesType
    <3> QED
      BY <1>1, <2>1, <3>1, ExesType
  <2> QED
    BY <1>1, <1>2, <2>1 DEF RevertVm, DiskType
<1>4. guest' \subseteq Payload /\ snapshots' \subseteq Snapshot
  BY <1>1 DEF RevertVm, DiskType
<1>5. DiskType'
  BY <1>1, <1>3, <1>4 DEF RevertVm, DiskType
<1> QED
  BY <1>1, <1>5, RolledBack DEF RevertVm

LEMMA StepType ==
  ASSUME NEW s \in Step, NEW n \in Nat, NEW q \in PlanState
  PROVE  /\ [s EXCEPT !.attempt = n] \in Step /\ [s EXCEPT !.attempt = n].env = s.env
         /\ [s EXCEPT !.plan = q, !.attempt = n] \in Step
         /\ [s EXCEPT !.plan = q, !.attempt = n].env = s.env
BY DEF Step

LEMMA ComponentTyped ==
  ASSUME Typed, RepairWithComponent
  PROVE  Typed'
<1>1. ProcessType /\ DiskType /\ Located /\ env \in Env /\ pc \in Turn
  BY TypedParts, EnvType DEF RepairWithComponent, Turn
<1> DEFINE component == RepairComponent(step.outcome.category)
           files == prefixes[env].exes \cup BuiltIn \cup ComponentExes[component]
           added == prefixes[env].components \cup {component}
<1>2. component \in Component
  BY PlanAssumption DEF RepairWithComponent, RepairComponent
<1> HIDE DEF component
<1>3. files \subseteq Exe
  BY <1>1, <1>2, ExesType, ExeAssumption, PlanAssumption
<1>4. added \subseteq Component
  BY <1>1, <1>2 DEF DiskType, Prefix
<1>5. prefixes' \in [Env -> Prefix]
  <2>1. CASE prefixes' = [prefixes EXCEPT ![env].exes = files, ![env].components = added]
    <3> HIDE DEF files, added
    <3> QED
      BY <1>1, <1>3, <1>4, <2>1 DEF DiskType, Prefix
  <2>2. CASE prefixes' = prefixes
    BY <1>1, <2>2 DEF DiskType
  <2> QED
    BY <2>1, <2>2 DEF RepairWithComponent, component
<1>6. DiskType'
  BY <1>1, <1>5 DEF RepairWithComponent, DiskType
<1>7. CASE Retry /\ step' = [step EXCEPT !.attempt = @ + 1]
  <2>1. step \in Step /\ step.attempt + 1 \in Nat
    BY <1>1 DEF ProcessType, Step
  <2>2. step' \in Step /\ step'.env = step.env
    BY <1>7, <2>1, StepType, Blank
  <2>3. ProcessType'
    BY <1>1, <1>7, <2>2 DEF Retry, ProcessType, Goto, PC
  <2>4. Located'
    BY <1>1, <1>7, <2>2, StaysLocated DEF Retry, Goto
  <2> QED
    BY <1>6, <2>3, <2>4, TypedNext
<1>8. CASE Exit("repair-failed")
  BY <1>1, <1>6, <1>8, ExitType, TypedNext DEF Ending
<1> QED
  BY <1>7, <1>8 DEF RepairWithComponent, component

LEMMA RepairPlanTyped ==
  ASSUME Typed, RepairPlan
  PROVE  Typed'
<1>1. ProcessType /\ DiskType /\ Located /\ env \in Env /\ pc \in Turn
  BY TypedParts, EnvType DEF RepairPlan, Turn
<1> DEFINE q == Repaired(step.plan, step.outcome.category)
           n == step.attempt + 1
<1>2. step \in Step /\ n \in Nat /\ step.plan \in PlanState
  BY <1>1 DEF ProcessType, Step
<1>3. q \in PlanState
  BY <1>2 DEF Repaired, PlanState, GraphicsBackend
<1>4. step' = [step EXCEPT !.plan = q, !.attempt = n]
  BY DEF RepairPlan
<1> HIDE DEF q, n
<1>5. step' \in Step /\ step'.env = step.env
  BY <1>2, <1>3, <1>4, StepType
<1>6. ProcessType' /\ DiskType'
  BY <1>1, <1>5 DEF RepairPlan, Retry, ProcessType, DiskType, Goto, PC, disk
<1>7. Located'
  BY <1>1, <1>5, StaysLocated DEF RepairPlan, Retry, Goto
<1> QED
  BY <1>6, <1>7, TypedNext

LEMMA NextStrategyTyped ==
  ASSUME Typed, NextStrategy
  PROVE  Typed'
<1>1. ProcessType /\ DiskType /\ Located /\ env \in Env /\ pc \in Turn
  BY TypedParts, EnvType DEF NextStrategy, Turn
<1>2. ProcessType' /\ DiskType'
  BY <1>1 DEF NextStrategy, ProcessType, DiskType, Goto, PC, disk
<1>3. Located'
  BY <1>1, StaysLocated DEF NextStrategy, Goto
<1> QED
  BY <1>2, <1>3, TypedNext

LEMMA PrepareFinalTyped ==
  ASSUME Typed, PrepareFinal
  PROVE  Typed'
<1> DEFINE mirrored == [present |-> TRUE, exes |-> BuiltIn \cup guest, components |-> {}]
<1>1. ProcessType /\ DiskType /\ FinalVm \in Env
  BY TypedParts, EnvAssumption
<1>2. mirrored \in Prefix
  BY <1>1, ExeAssumption DEF DiskType, Prefix
<1>3. mirrored.exes \subseteq Exe
  BY <1>2 DEF Prefix
<1>4. [env |-> FinalVm, run |-> run, attempt |-> 1] \in Snapshot
  BY <1>1 DEF ProcessType, Snapshot
<1>5. /\ \/ /\ prefixes' = [prefixes EXCEPT ![FinalVm] = mirrored]
            /\ fate' = [fate EXCEPT ![FinalVm] = "prepared"]
            /\ step' = [NoStep EXCEPT !.env = FinalVm, !.attempt = 1,
                                      !.before = mirrored.exes, !.saved = mirrored]
            /\ snapshots' = snapshots \cup {[env |-> FinalVm, run |-> run, attempt |-> 1]}
            /\ Goto("final-run")
            /\ UNCHANGED << job, pending >>
         \/ /\ prefixes' \in {prefixes, [prefixes EXCEPT ![FinalVm] = mirrored]}
            /\ Exit("error")
            /\ UNCHANGED << snapshots, fate >>
      /\ UNCHANGED << guest, memory, clock, registry >>
  BY DEF PrepareFinal
<1> HIDE DEF mirrored
<1>6. DiskType'
  BY <1>1, <1>2, <1>4, <1>5 DEF DiskType, Fate
<1>7. CASE /\ step' = [NoStep EXCEPT !.env = FinalVm, !.attempt = 1,
                                     !.before = mirrored.exes, !.saved = mirrored]
           /\ Goto("final-run")
           /\ UNCHANGED << job, pending >>
  <2>1. step' \in Step /\ step'.env = FinalVm
    BY <1>1, <1>2, <1>3, <1>7, Blank DEF Step
  <2>2. ProcessType'
    BY <1>1, <1>7, <2>1 DEF ProcessType, Goto, PC
  <2>3. Located'
    BY <1>7, <2>1 DEF Located, Goto, Turn, env
  <2> QED
    BY <1>6, <2>2, <2>3, TypedNext
<1>8. CASE Exit("error")
  BY <1>1, <1>6, <1>8, ExitType, TypedNext DEF Ending
<1> QED
  BY <1>5, <1>7, <1>8

LEMMA FinalRunTyped ==
  ASSUME Typed, FinalRun
  PROVE  Typed'
<1>1. ProcessType /\ DiskType /\ env \in Env
  BY TypedParts, EnvType DEF FinalRun
<1>2. PICK outcome \in [ok : BOOLEAN, category : Categories], added \in SUBSET Payload :
        LET good == outcome.ok /\ ~Terminal(outcome.category)
            found == Discover(step.before, prefixes'[env].exes)
            installed == IF found = {} THEN {Source} ELSE found
        IN /\ Installs(env, added)
           /\ fate' = [fate EXCEPT ![env] = IF outcome.ok THEN "succeeded" ELSE "failed"]
           /\ \E executable \in installed :
                \/ /\ good /\ Launchable(env, executable)
                   /\ Accept([env |-> env, executable |-> executable,
                              quality |-> "functional", limitations |-> {}])
                \/ /\ snapshots' = IF outcome.ok THEN snapshots \ {CurrentSnapshot}
                                   ELSE snapshots
                   /\ Exit("error")
                   /\ UNCHANGED << memory, clock >>
  BY DEF FinalRun
<1>3. /\ prefixes' \in [Env -> Prefix] /\ guest' \subseteq Payload
      /\ prefixes'[env].exes \subseteq Exe
  BY <1>1, <1>2, InstallsType
<1>4. fate' \in [Env -> Fate] /\ registry' = registry
  BY <1>1, <1>2 DEF FinalRun, DiskType, Fate
<1>5. Discover(step.before, prefixes'[env].exes) \subseteq prefixes'[env].exes \ step.before
  BY DiscoverType
<1>6. PICK executable \in Exe \cup {Source} :
        \/ Accept([env |-> env, executable |-> executable,
                   quality |-> "functional", limitations |-> {}])
        \/ /\ snapshots' \subseteq snapshots
           /\ Exit("error")
           /\ UNCHANGED << memory, clock >>
  BY <1>2, <1>3, <1>5
<1>7. CASE Accept([env |-> env, executable |-> executable,
                   quality |-> "functional", limitations |-> {}])
  <2> DEFINE app == [env |-> env, executable |-> executable,
                     quality |-> "functional", limitations |-> {}]
  <2>1. app \in App
    BY <1>1, <1>6 DEF App, Quality
  <2>2. Accept(app)
    BY <1>7
  <2> HIDE DEF app
  <2>3. /\ ProcessType' /\ Located'
        /\ memory' \in [Env -> Record] /\ clock' \in Nat /\ snapshots' \subseteq Snapshot
    BY <1>1, <2>1, <2>2, AcceptType
  <2>4. DiskType'
    BY <1>1, <1>3, <1>4, <2>3 DEF DiskType
  <2> QED
    BY <2>3, <2>4, TypedNext
<1>8. CASE /\ snapshots' \subseteq snapshots
           /\ Exit("error")
           /\ UNCHANGED << memory, clock >>
  <2>1. DiskType'
    BY <1>1, <1>3, <1>4, <1>8 DEF DiskType
  <2> QED
    BY <1>1, <1>8, <2>1, ExitType, TypedNext DEF Ending
<1> QED
  BY <1>6, <1>7, <1>8

LEMMA CrashTyped ==
  ASSUME Typed, Crash
  PROVE  Typed'
<1>1. ProcessType /\ DiskType /\ Located
  BY TypedParts
<1>2. pc \in Turn \cup {"final-run"} => env \in Env
  BY <1>1, EnvType
<1>3. prefixes' \in [Env -> Prefix] /\ guest' \subseteq Payload /\ fate' \in [Env -> Fate]
  <2>1. ASSUME pc \in {"run", "final-run"}, NEW added \in SUBSET Payload, Installs(env, added),
               fate' = [fate EXCEPT ![env] = "interrupted"]
        PROVE  prefixes' \in [Env -> Prefix] /\ guest' \subseteq Payload /\ fate' \in [Env -> Fate]
    <3>1. env \in Env
      BY <1>2, <2>1 DEF Turn
    <3> QED
      BY <1>1, <2>1, <3>1, InstallsType DEF DiskType, Fate
  <2>2. ASSUME pc = "initialize", NEW left \in HalfInitialized,
               prefixes' = [prefixes EXCEPT ![env].present = TRUE, ![env].exes = left],
               UNCHANGED << guest, fate >>
        PROVE  prefixes' \in [Env -> Prefix] /\ guest' \subseteq Payload /\ fate' \in [Env -> Fate]
    <3>1. env \in Env
      BY <1>2, <2>2 DEF Turn
    <3>2. left \in SUBSET Exe
      BY <1>1, <3>1, InitializedType
    <3>3. prefixes' \in [Env -> Prefix]
      BY <1>1, <2>2, <3>1, <3>2, ExesType
    <3> QED
      BY <1>1, <2>2, <3>3 DEF DiskType
  <2>3. CASE UNCHANGED << prefixes, guest, fate >>
    BY <1>1, <2>3 DEF DiskType
  <2> QED
    BY <2>1, <2>2, <2>3 DEF Crash
<1>4. DiskType'
  BY <1>1, <1>3 DEF Crash, DiskType
<1> QED
  BY <1>1, <1>4, ExitType, TypedNext DEF Crash, Ending

LEMMA RemovalTyped ==
  ASSUME Typed, RemoveEnvironments \/ RemoveEntry
  PROVE  Typed'
<1>1. ProcessType /\ DiskType
  BY TypedParts
<1>2. CASE RemoveEnvironments
  BY <1>1, <1>2, Blank, TypedNext
     DEF RemoveEnvironments, ProcessType, DiskType, Goto, PC, Fate, Located, Turn
<1>3. CASE RemoveEntry
  <2>1. DiskType'
    BY <1>1, <1>3 DEF RemoveEntry, DiskType
  <2> QED
    BY <1>1, <1>3, <2>1, ExitType, TypedNext DEF RemoveEntry, Ending
<1> QED
  BY <1>2, <1>3

LEMMA TypedInit == Init => Typed
BY Blank DEF Init, Typed, TypeOK, Located, Turn, PC, Fate, Ending

LEMMA TypedStep == Typed /\ [Next]_vars => Typed'
<1> SUFFICES ASSUME Typed, [Next]_vars
             PROVE  Typed'
  OBVIOUS
<1>1. CASE UNCHANGED vars
  BY <1>1 DEF vars, disk, process, history, Typed, TypeOK, Located, env
<1>2. CASE Attempt
  BY <1>2, TakeSnapshotTyped, RunTyped, CannotStartTyped, RejectTyped, ObserveTyped,
     RegisterTyped, AbandonTyped DEF Attempt
<1>3. CASE Rollback
  BY <1>3, MoveAwayTyped, MoveBackTyped, RevertVmTyped DEF Rollback
<1>4. CASE Repairs
  BY <1>4, ComponentTyped, RepairPlanTyped, NextStrategyTyped DEF Repairs
<1>5. CASE Proceed
  BY <1>2, <1>3, <1>4, <1>5, ChooseTyped, ProvisionTyped, RecoverTyped, RememberTyped,
     InitializeTyped, PrepareFinalTyped, FinalRunTyped, RemovalTyped DEF Proceed
<1> QED
  BY <1>1, <1>5, ReuseTyped, BeginTyped, RemovalTyped, CrashTyped DEF Next

LEMMA AlwaysTyped == Spec => []Typed
BY TypedInit, TypedStep, PTL DEF Spec

(***************************************************************************)
(* Every variable of an installation has its type, and the strategy in     *)
(* progress is one the loop over the plan has taken off its list.          *)
(***************************************************************************)
THEOREM TypeCorrect == Spec => []TypeOK
<1>1. Typed => TypeOK
  BY DEF Typed
<1> QED
  BY <1>1, AlwaysTyped, PTL

------------------------------------------------------------------------------
(***************************************************************************)
(* An escalation sticks.                                                   *)
(***************************************************************************)
LEMMA KernelKept ==
  ASSUME KernelInv, pc \in Turn \ {"abandon"}, step'.env = step.env, job'.kernel = job.kernel
  PROVE  KernelInv'
BY DEF KernelInv, env

LEMMA KernelElsewhere ==
  ASSUME pc' \notin Turn \ {"abandon"}
  PROVE  KernelInv'
BY DEF KernelInv

LEMMA KernelAttempt ==
  ASSUME Typed, KernelInv, Attempt
  PROVE  KernelInv'
<1>1. job \in Job /\ step \in Step
  BY TypedParts DEF ProcessType
<1>2. CASE TakeSnapshot
  BY <1>1, <1>2, KernelKept, KernelElsewhere DEF TakeSnapshot, Goto, Exit, Turn, Step
<1>3. CASE RunInstaller
  <2>1. step'.env = step.env /\ job'.kernel = job.kernel
    BY <1>1, <1>3 DEF RunInstaller, Step, Job
  <2> QED
    BY <1>3, <2>1, KernelKept DEF RunInstaller, Turn
<1>4. CASE CannotStart
  BY <1>4, KernelKept DEF CannotStart, Turn
<1>5. CASE Reject \/ Register \/ Abandon
  BY <1>5, KernelElsewhere DEF Reject, Register, Abandon, Goto, Exit, Turn
<1>6. CASE Observe
  BY <1>6, KernelElsewhere DEF Observe, Accept, Goto, Exit, Turn
<1> QED
  BY <1>2, <1>3, <1>4, <1>5, <1>6 DEF Attempt

LEMMA KernelAfter ==
  ASSUME Typed, KernelInv, Rollback \/ Repairs
  PROVE  KernelInv'
<1>1. step \in Step
  BY TypedParts DEF ProcessType
<1>2. CASE MoveAway
  BY <1>1, <1>2, KernelKept, KernelElsewhere DEF MoveAway, Goto, Exit, Turn, Step
<1>3. CASE MoveBack \/ RevertVm
  BY <1>3, KernelKept, KernelElsewhere DEF MoveBack, RevertVm, Goto, Exit, Turn
<1>4. CASE RepairWithComponent
  BY <1>1, <1>4, KernelKept, KernelElsewhere DEF RepairWithComponent, Retry, Exit, Turn, Step
<1>5. CASE RepairPlan
  BY <1>1, <1>5, KernelKept DEF RepairPlan, Retry, Turn, Step
<1>6. CASE NextStrategy
  BY <1>6, KernelElsewhere DEF NextStrategy, Goto, Turn
<1> QED
  BY <1>2, <1>3, <1>4, <1>5, <1>6 DEF Rollback, Repairs

LEMMA KernelChoose ==
  ASSUME Typed, KernelInv, Choose
  PROVE  KernelInv'
<1>1. CASE pc' # "provision"
  BY <1>1, KernelElsewhere DEF Choose, Goto, Exit, Turn
<1>2. CASE pc' = "provision"
  <2>1. PICK i \in job.remaining :
          /\ job' = [job EXCEPT !.remaining = @ \ {i}]
          /\ ~Skipped(i) /\ step' = [NoStep EXCEPT !.env = Preference[i]]
    BY <1>2 DEF Choose, Goto, Exit
  <2>2. job \in Job
    BY TypedParts DEF ProcessType
  <2>3. job'.kernel = job.kernel /\ Preference[i] \in Env
    BY <2>1, <2>2, EnvAssumption DEF Job
  <2>4. step'.env = Preference[i]
    BY <2>1, <2>3, Blank
  <2> QED
    BY <2>1, <2>3, <2>4 DEF Skipped, KernelInv, env
<1> QED
  BY <1>1, <1>2

LEMMA KernelStep == Typed /\ KernelInv /\ [Next]_vars => KernelInv'
<1> SUFFICES ASSUME Typed, KernelInv, [Next]_vars
             PROVE  KernelInv'
  OBVIOUS
<1>1. CASE UNCHANGED vars
  BY <1>1 DEF vars, process, KernelInv, env
<1>2. CASE Provision
  BY <1>2, KernelKept DEF Provision, Turn
<1>3. CASE Recover
  BY <1>3, KernelKept, KernelElsewhere DEF Recover, Exit, Turn
<1>4. CASE Initialize
  <2>1. step \in Step
    BY TypedParts DEF ProcessType
  <2> QED
    BY <1>4, <2>1, KernelKept DEF Initialize, Turn, Step
<1>5. CASE Remember \/ PrepareFinal \/ RemoveEntry \/ Crash \/ Begin
  BY <1>5, KernelElsewhere DEF Remember, PrepareFinal, RemoveEntry, Crash, Begin, Goto, Exit, Turn
<1>6. CASE FinalRun
  BY <1>6, KernelElsewhere DEF FinalRun, Accept, Goto, Exit, Turn
<1>7. CASE ReuseInstalled \/ RemoveEnvironments
  BY <1>7, KernelElsewhere DEF ReuseInstalled, RemoveEnvironments, Goto, Turn
<1> QED
  BY <1>1, <1>2, <1>3, <1>4, <1>5, <1>6, <1>7, KernelChoose, KernelAttempt, KernelAfter
     DEF Next, Proceed

(***************************************************************************)
(* Once a kernel is known to be required, from the imports or from the     *)
(* behaviour of an installer, this invocation runs no installer outside a  *)
(* virtual machine (install(), the test at the head of its loop).          *)
(***************************************************************************)
THEOREM EscalationHolds == Spec => []EscalationSticks
<1>1. Init => KernelInv
  BY DEF Init, KernelInv, Turn
<1>2. KernelInv => EscalationSticks
  BY DEF KernelInv, EscalationSticks, Turn
<1> QED
  BY <1>1, <1>2, KernelStep, AlwaysTyped, PTL DEF Spec

------------------------------------------------------------------------------
(***************************************************************************)
(* One verdict per strategy and invocation.                                *)
(***************************************************************************)

(* The strategy in progress does not come again. *)
LEMMA Behind ==
  ASSUME Typed, Distinct, pc \in Turn
  PROVE  ~Ahead(env) /\ env \in Env
<1>1. PICK i \in DOMAIN Preference \ job.remaining : env = Preference[i]
  BY DEF Typed, Located
<1>2. job.remaining \subseteq DOMAIN Preference
  BY TypedParts DEF ProcessType, Job
<1> QED
  BY <1>1, <1>2, EnvAssumption DEF Distinct, Ahead

LEMMA VerdictsType ==
  ASSUME Typed, NEW e \in Env
  PROVE  Verdicts(e) \in Nat /\ run \in Nat
BY TypedParts DEF DiskType, ProcessType, Record, Verdicts

LEMMA VerdictKept ==
  ASSUME VerdictInv, memory' = memory, run' = run,
         pc' \in Underway => pc \in Underway /\ job'.remaining \subseteq job.remaining,
         pc' \in Turn => pc \in Turn /\ step'.env = step.env
  PROVE  VerdictInv'
BY DEF VerdictInv, Verdicts, Ahead, env

(* A verdict on a strategy that has none yet, and does not come again. *)
LEMMA VerdictGiven ==
  ASSUME Typed, VerdictInv, run' = run, pc' \notin Turn,
         NEW e \in Env, RecordSuccess(e) \/ RecordFailure(e),
         Distinct => Verdicts(e) < run,
         Distinct /\ pc' \in Underway =>
           pc \in Underway /\ job'.remaining = job.remaining /\ ~Ahead(e)
  PROVE  VerdictInv'
<1>1. \A f \in Env : Verdicts(f)' = IF f = e THEN Verdicts(f) + 1 ELSE Verdicts(f)
  BY RecordType, TypedParts
<1>2. SUFFICES ASSUME Distinct
               PROVE  /\ \A f \in Env : Verdicts(f)' <= run'
                      /\ pc' \in Underway => \A f \in Env : Ahead(f)' => Verdicts(f)' < run'
  BY DEF VerdictInv
<1>3. ASSUME NEW f \in Env
      PROVE  Verdicts(f)' <= run'
  BY <1>1, <1>2, <1>3, VerdictsType DEF VerdictInv
<1>4. ASSUME NEW f \in Env, pc' \in Underway, Ahead(f)'
      PROVE  Verdicts(f)' < run'
  <2>1. Ahead(f) /\ f # e
    BY <1>2, <1>4 DEF Ahead
  <2> QED
    BY <1>1, <1>2, <1>4, <2>1, VerdictsType DEF VerdictInv
<1> QED
  BY <1>3, <1>4

LEMMA VerdictOfTurn ==
  ASSUME Typed, VerdictInv, pc \in Turn, RecordSuccess(env) \/ RecordFailure(env),
         run' = run, pc' \notin Turn, pc' \in Underway => job'.remaining = job.remaining
  PROVE  VerdictInv'
<1>1. env \in Env /\ pc \in Underway
  BY TypedParts, EnvType DEF Underway
<1>2. Distinct => Verdicts(env) < run /\ ~Ahead(env)
  BY Behind DEF VerdictInv
<1> QED
  BY <1>1, <1>2, VerdictGiven

LEMMA VerdictAttempt ==
  ASSUME Typed, VerdictInv, Attempt
  PROVE  VerdictInv'
<1>1. job \in Job /\ step \in Step
  BY TypedParts DEF ProcessType
<1>2. CASE TakeSnapshot
  BY <1>1, <1>2, VerdictKept DEF TakeSnapshot, Goto, Exit, Turn, Underway, Step
<1>3. CASE RunInstaller
  <2>1. step'.env = step.env /\ job'.remaining = job.remaining
    BY <1>1, <1>3 DEF RunInstaller, Step, Job
  <2>2. pc \in Turn /\ memory' = memory /\ run' = run
    BY <1>3 DEF RunInstaller, Goto, Turn
  <2> QED
    BY <2>1, <2>2, VerdictKept DEF Underway
<1>4. CASE CannotStart
  BY <1>4, VerdictKept DEF CannotStart, Goto, Turn, Underway
<1>5. CASE Register
  BY <1>5, VerdictKept DEF Register, Exit, Turn, Underway
<1>6. CASE Reject \/ Abandon
  BY <1>6, VerdictOfTurn DEF Reject, Abandon, Goto, Exit, Turn, Underway
<1>7. CASE Observe
  <2>1. \/ Exit("error") /\ memory' = memory
        \/ /\ job' = [job EXCEPT !.kernel = TRUE] /\ Goto("abandon")
           /\ UNCHANGED << memory, step >>
        \/ RecordSuccess(env) /\ Goto("register")
    BY <1>7 DEF Observe, Accept
  <2>2. pc = "observe"
    BY <1>7 DEF Observe
  <2>3. CASE Exit("error") /\ memory' = memory
    BY <2>3, VerdictKept DEF Exit, Turn, Underway
  <2>4. CASE /\ job' = [job EXCEPT !.kernel = TRUE] /\ Goto("abandon")
             /\ UNCHANGED << memory, step >>
    BY <1>1, <2>2, <2>4, VerdictKept DEF Goto, Turn, Underway, Job
  <2>5. CASE RecordSuccess(env) /\ Goto("register")
    BY <2>2, <2>5, VerdictOfTurn DEF Goto, Turn, Underway
  <2> QED
    BY <2>1, <2>3, <2>4, <2>5
<1> QED
  BY <1>2, <1>3, <1>4, <1>5, <1>6, <1>7 DEF Attempt

LEMMA VerdictAfter ==
  ASSUME Typed, VerdictInv, Rollback \/ Repairs
  PROVE  VerdictInv'
<1>1. step \in Step
  BY TypedParts DEF ProcessType
<1>2. CASE MoveAway
  BY <1>1, <1>2, VerdictKept DEF MoveAway, Goto, Exit, Turn, Underway, Step
<1>3. CASE MoveBack \/ RevertVm
  BY <1>3, VerdictKept DEF MoveBack, RevertVm, Goto, Exit, Turn, Underway
<1>4. CASE RepairWithComponent
  BY <1>1, <1>4, VerdictKept DEF RepairWithComponent, Retry, Goto, Exit, Turn, Underway, Step
<1>5. CASE RepairPlan
  BY <1>1, <1>5, VerdictKept DEF RepairPlan, Retry, Goto, Turn, Underway, Step, disk
<1>6. CASE NextStrategy
  BY <1>6, VerdictKept DEF NextStrategy, Goto, Turn, Underway, disk
<1> QED
  BY <1>2, <1>3, <1>4, <1>5, <1>6 DEF Rollback, Repairs

LEMMA VerdictChoose ==
  ASSUME Typed, VerdictInv, Choose
  PROVE  VerdictInv'
<1>1. job \in Job /\ pc \in Underway /\ memory' = memory /\ run' = run
  BY TypedParts DEF ProcessType, Choose, Underway, disk, Goto, Exit
<1>2. job'.remaining \subseteq job.remaining \/ pc' = "idle"
  BY <1>1 DEF Choose, Job, Exit
<1>3. CASE pc' \notin Turn
  BY <1>1, <1>2, <1>3, VerdictKept DEF Underway, Turn
<1>4. CASE pc' \in Turn
  <2>1. PICK i \in job.remaining :
          /\ job' = [job EXCEPT !.remaining = @ \ {i}]
          /\ step' = [NoStep EXCEPT !.env = Preference[i]]
    BY <1>4 DEF Choose, Goto, Exit, Turn
  <2>2. Preference[i] \in Env /\ Ahead(Preference[i])
    BY <1>1, <2>1, EnvAssumption DEF Job, Ahead
  <2>3. step'.env = Preference[i]
    BY <2>1, <2>2, Blank
  <2>4. job'.remaining \subseteq job.remaining
    BY <1>1, <2>1 DEF Job
  <2> QED
    BY <1>1, <2>2, <2>3, <2>4 DEF VerdictInv, Verdicts, Ahead, env
<1> QED
  BY <1>3, <1>4

LEMMA VerdictEntry ==
  ASSUME Typed, VerdictInv, Provision \/ Recover \/ Remember \/ Initialize
  PROVE  VerdictInv'
<1>1. step \in Step
  BY TypedParts DEF ProcessType
<1>2. CASE Provision
  <2>1. CASE Goto("recover") /\ memory' = memory
    BY <1>2, <2>1, VerdictKept DEF Provision, Goto, Turn, Underway
  <2>2. CASE Goto("choose") /\ RecordFailure(env)
    BY <1>2, <2>2, VerdictOfTurn DEF Provision, Goto, Turn, Underway
  <2> QED
    BY <1>2, <2>1, <2>2 DEF Provision
<1>3. CASE Recover
  BY <1>3, VerdictKept DEF Recover, Goto, Exit, Turn, Underway
<1>4. CASE Remember
  BY <1>4, VerdictOfTurn DEF Remember, Exit, Turn, Underway
<1>5. CASE Initialize
  <2>1. CASE Goto("snapshot") /\ memory' = memory /\ step'.env = step.env
    BY <1>5, <2>1, VerdictKept DEF Initialize, Goto, Turn, Underway
  <2>2. CASE Goto("choose") /\ RecordFailure(env)
    BY <1>5, <2>2, VerdictOfTurn DEF Initialize, Goto, Turn, Underway
  <2> QED
    BY <1>1, <1>5, <2>1, <2>2 DEF Initialize, Step
<1> QED
  BY <1>2, <1>3, <1>4, <1>5

LEMMA VerdictFinal ==
  ASSUME Typed, VerdictInv, PrepareFinal \/ FinalRun
  PROVE  VerdictInv'
<1>1. CASE PrepareFinal
  BY <1>1, VerdictKept DEF PrepareFinal, Goto, Exit, Turn, Underway
<1>2. CASE FinalRun
  <2>1. pc = "final-run" /\ env = FinalVm /\ FinalVm \in Env
    BY <1>2, EnvAssumption DEF FinalRun, Typed, Located
  <2>2. \/ RecordSuccess(env) /\ Goto("register")
        \/ Exit("error") /\ memory' = memory
    BY <1>2 DEF FinalRun, Accept
  <2>3. CASE RecordSuccess(env) /\ Goto("register")
    <3>1. Distinct => Verdicts(env) < run
      BY <2>1 DEF VerdictInv, Underway, Ahead
    <3> QED
      BY <2>1, <2>3, <3>1, VerdictGiven DEF Goto, Turn, Underway
  <2>4. CASE Exit("error") /\ memory' = memory
    BY <2>4, VerdictKept DEF Exit, Turn, Underway
  <2> QED
    BY <2>2, <2>3, <2>4
<1> QED
  BY <1>1, <1>2

LEMMA VerdictIdle ==
  ASSUME Typed, VerdictInv, ReuseInstalled \/ Begin \/ RemoveEnvironments \/ RemoveEntry \/ Crash
  PROVE  VerdictInv'
<1>1. \A e \in Env : Verdicts(e) \in Nat /\ run \in Nat
  BY VerdictsType
<1>2. CASE ReuseInstalled \/ Begin
  <2>1. memory' = memory /\ run' = run + 1 /\ pc' \notin Turn
    BY <1>2 DEF ReuseInstalled, Begin, disk, Turn
  <2>2. \A e \in Env : Verdicts(e)' = Verdicts(e)
    BY <2>1 DEF Verdicts
  <2> QED
    BY <1>1, <2>1, <2>2 DEF VerdictInv
<1>3. CASE RemoveEnvironments \/ RemoveEntry \/ Crash
  BY <1>3, VerdictKept DEF RemoveEnvironments, RemoveEntry, Crash, Goto, Exit, Turn, Underway
<1> QED
  BY <1>2, <1>3

LEMMA VerdictStep == Typed /\ VerdictInv /\ [Next]_vars => VerdictInv'
<1> SUFFICES ASSUME Typed, VerdictInv, [Next]_vars
             PROVE  VerdictInv'
  OBVIOUS
<1>1. CASE UNCHANGED vars
  BY <1>1, VerdictKept DEF vars, disk, process
<1> QED
  BY <1>1, VerdictAttempt, VerdictAfter, VerdictChoose, VerdictEntry, VerdictFinal, VerdictIdle
     DEF Next, Proceed

(***************************************************************************)
(* Strategy memory counts at most one verdict per strategy and invocation: *)
(* no path through install() records a turn as a failure and again as      *)
(* something else (record_success and record_failure of strategy memory).  *)
(***************************************************************************)
THEOREM OneVerdict == Spec => []OneVerdictPerRun
<1>1. Init => VerdictInv
  BY DEF Init, VerdictInv, Verdicts, NoRecord, Turn, Underway
<1>2. VerdictInv => OneVerdictPerRun
  BY DEF VerdictInv, OneVerdictPerRun, Verdicts
<1> QED
  BY <1>1, <1>2, VerdictStep, AlwaysTyped, PTL DEF Spec

------------------------------------------------------------------------------
(***************************************************************************)
(* One snapshot per strategy and invocation.                               *)
(***************************************************************************)
LEMMA SnapshotsType ==
  ASSUME Typed
  PROVE  run \in Nat /\ \A s \in snapshots : s.run \in Nat
BY TypedParts DEF DiskType, ProcessType, Snapshot

(* Nothing is added, and no position is reached that promises more.        *)
LEMMA SnapshotKept ==
  ASSUME SnapshotInv, snapshots' \subseteq snapshots, run' = run,
         pc' \in Underway \ {"final-run"} =>
           pc \in Underway \ {"final-run"} /\ job'.remaining \subseteq job.remaining,
         Distinct /\ pc' \in Unsaved =>
           \/ pc \in Unsaved /\ step'.env = step.env
           \/ \A s \in snapshots' : s.run = run => s.env # step'.env,
         pc' \in Attempting =>
           pc \in Attempting /\ step'.env = step.env /\ step'.attempt = step.attempt
  PROVE  SnapshotInv'
<1>1. SUFFICES ASSUME Distinct
               PROVE  /\ \A s \in snapshots' : s.run <= run'
                      /\ pc' \in Underway \ {"final-run"} =>
                           \A s \in snapshots' : s.run = run' => ~Ahead(s.env)'
                      /\ pc' \in Unsaved => \A s \in snapshots' : s.run = run' => s.env # env'
                      /\ pc' \in Attempting =>
                           \A s \in snapshots' :
                             s.run = run' /\ s.env = env' => s = CurrentSnapshot'
                      /\ SnapshotBudget'
  BY DEF SnapshotInv
<1>2. \A s \in snapshots' : s.run <= run'
  BY <1>1 DEF SnapshotInv
<1>3. ASSUME pc' \in Underway \ {"final-run"}, NEW s \in snapshots', s.run = run'
      PROVE  ~Ahead(s.env)'
  BY <1>1, <1>3 DEF SnapshotInv, Ahead
<1>4. ASSUME pc' \in Unsaved, NEW s \in snapshots', s.run = run'
      PROVE  s.env # env'
  BY <1>1, <1>4 DEF SnapshotInv, env
<1>5. ASSUME pc' \in Attempting, NEW s \in snapshots', s.run = run', s.env = env'
      PROVE  s = CurrentSnapshot'
  BY <1>1, <1>5 DEF SnapshotInv, CurrentSnapshot, env
<1>6. SnapshotBudget'
  BY <1>1 DEF SnapshotInv, SnapshotBudget
<1> QED
  BY <1>2, <1>3, <1>4, <1>5, <1>6

LEMMA SnapshotTaken ==
  ASSUME Typed, SnapshotInv, TakeSnapshot
  PROVE  SnapshotInv'
<1>1. step \in Step /\ pc = "snapshot" /\ run' = run
  BY TypedParts DEF ProcessType, TakeSnapshot, Goto, Exit
<1>2. CASE Exit("error") /\ snapshots' = snapshots
  BY <1>2, SnapshotKept DEF Exit, Underway, Turn, Unsaved, Attempting
<1>3. CASE /\ Goto("run") /\ snapshots' = snapshots \cup {CurrentSnapshot}
           /\ step' = [step EXCEPT !.saved = prefixes[env], !.outcome = None,
                                   !.previous = step.config, !.config = RuntimeConfig]
           /\ UNCHANGED << job, pending >>
  <2>1. step'.env = step.env /\ step'.attempt = step.attempt /\ pc' = "run" /\ job' = job
    BY <1>1, <1>3 DEF Step, Goto
  <2>2. SUFFICES ASSUME Distinct
                 PROVE  /\ \A s \in snapshots' : s.run <= run'
                        /\ \A s \in snapshots' : s.run = run' => ~Ahead(s.env)'
                        /\ \A s \in snapshots' :
                             s.run = run' /\ s.env = env' => s = CurrentSnapshot'
                        /\ SnapshotBudget'
    BY <2>1 DEF SnapshotInv, Unsaved
  <2>3. CurrentSnapshot.run = run /\ CurrentSnapshot.env = env /\ CurrentSnapshot' = CurrentSnapshot
    BY <1>1, <2>1 DEF CurrentSnapshot, env
  <2>4. ~Ahead(env) /\ run \in Nat
    BY <1>1, <2>2, Behind, SnapshotsType DEF Turn
  <2>5. \A s \in snapshots : s.run = run => s.env # env /\ ~Ahead(s.env)
    BY <1>1, <2>2 DEF SnapshotInv, Unsaved, Underway, Turn
  <2>6. \A s \in snapshots : s.run <= run
    BY <2>2 DEF SnapshotInv
  <2>7. \A s, t \in snapshots : s.env = t.env /\ s.run = t.run => s = t
    BY <2>2 DEF SnapshotInv, SnapshotBudget
  <2> HIDE DEF CurrentSnapshot
  <2>8. \A s \in snapshots' : s.run <= run'
    BY <1>1, <1>3, <2>3, <2>4, <2>6
  <2>9. \A s \in snapshots' : s.run = run' => ~Ahead(s.env)'
    BY <1>1, <1>3, <2>1, <2>3, <2>4, <2>5 DEF Ahead
  <2>10. \A s \in snapshots' : s.run = run' /\ s.env = env' => s = CurrentSnapshot'
    BY <1>1, <1>3, <2>1, <2>3, <2>5 DEF env
  <2>11. SnapshotBudget'
    BY <1>3, <2>3, <2>5, <2>7 DEF SnapshotBudget
  <2> QED
    BY <2>8, <2>9, <2>10, <2>11
<1> QED
  BY <1>2, <1>3 DEF TakeSnapshot

LEMMA SnapshotAttempt ==
  ASSUME Typed, SnapshotInv, Attempt
  PROVE  SnapshotInv'
<1>1. job \in Job /\ step \in Step
  BY TypedParts DEF ProcessType
<1>2. CASE RunInstaller
  <2>1. PICK outcome \in [ok : BOOLEAN, category : Categories], trace \in BOOLEAN :
          /\ step' = [step EXCEPT !.outcome = outcome]
          /\ job' = [job EXCEPT !.logKernel = @ \/ trace]
          /\ snapshots' \subseteq snapshots
          /\ Goto(AfterRun(outcome))
    BY <1>2 DEF RunInstaller
  <2>2. /\ step'.env = step.env /\ step'.attempt = step.attempt
        /\ job'.remaining = job.remaining
    BY <1>1, <2>1 DEF Step, Job
  <2>3. AfterRun(outcome) \in {"reject", "observe", "abandon", "restore"}
    BY DEF AfterRun
  <2>4. pc = "run"
    BY <1>2 DEF RunInstaller
  <2> QED
    BY <2>1, <2>2, <2>3, <2>4, SnapshotKept DEF Goto, Underway, Turn, Unsaved, Attempting
<1>3. CASE CannotStart
  BY <1>3, SnapshotKept DEF CannotStart, Goto, Underway, Turn, Unsaved, Attempting
<1>4. CASE Register
  BY <1>4, SnapshotKept DEF Register, Exit, Underway, Turn, Unsaved, Attempting
<1>5. CASE Reject
  BY <1>5, SnapshotKept DEF Reject, Exit, Underway, Turn, Unsaved, Attempting
<1>6. CASE Abandon
  BY <1>6, SnapshotKept DEF Abandon, Goto, Underway, Turn, Unsaved, Attempting
<1>7. CASE Observe
  <2>1. /\ snapshots' \subseteq snapshots /\ run' = run
        /\ pc' \in {"idle", "register", "abandon"}
        /\ job'.remaining = job.remaining \/ pc' = "idle"
    BY <1>1, <1>7 DEF Observe, Accept, Goto, Exit, Job
  <2>2. pc = "observe"
    BY <1>7 DEF Observe
  <2> QED
    BY <2>1, <2>2, SnapshotKept DEF Underway, Turn, Unsaved, Attempting
<1> QED
  BY <1>2, <1>3, <1>4, <1>5, <1>6, <1>7, SnapshotTaken DEF Attempt

(* A successful rollback takes the snapshot of the attempt away. *)
LEMMA SnapshotUsed ==
  ASSUME SnapshotInv, pc \in Attempting, snapshots' \subseteq snapshots, run' = run,
         \/ Exit("error")
         \/ /\ Goto(AfterRestore) /\ UNCHANGED << job, step >>
            /\ snapshots' = snapshots \ {CurrentSnapshot}
  PROVE  SnapshotInv'
<1>1. CASE Exit("error")
  BY <1>1, SnapshotKept DEF Exit, Underway, Turn, Unsaved, Attempting
<1>2. CASE /\ Goto(AfterRestore) /\ UNCHANGED << job, step >>
           /\ snapshots' = snapshots \ {CurrentSnapshot}
  <2>1. pc' \in {"abandon", "repair"}
    BY <1>2 DEF Goto, AfterRestore
  <2>2. Distinct => \A s \in snapshots' : s.run = run => s.env # step'.env
    BY <1>2 DEF SnapshotInv, env
  <2> QED
    BY <1>2, <2>1, <2>2, SnapshotKept DEF Underway, Turn, Unsaved, Attempting
<1> QED
  BY <1>1, <1>2

LEMMA SnapshotAfter ==
  ASSUME Typed, SnapshotInv, Rollback \/ Repairs
  PROVE  SnapshotInv'
<1>1. step \in Step
  BY TypedParts DEF ProcessType
<1>2. CASE MoveAway
  BY <1>1, <1>2, SnapshotKept
     DEF MoveAway, Goto, Exit, Underway, Turn, Unsaved, Attempting, Step
<1>3. CASE MoveBack
  BY <1>3, SnapshotUsed DEF MoveBack, Goto, Exit, Attempting
<1>4. CASE RevertVm
  BY <1>4, SnapshotUsed DEF RevertVm, Goto, Exit, Attempting
<1>5. CASE RepairWithComponent
  BY <1>1, <1>5, SnapshotKept
     DEF RepairWithComponent, Retry, Goto, Exit, Underway, Turn, Unsaved, Attempting, Step
<1>6. CASE RepairPlan
  BY <1>1, <1>6, SnapshotKept
     DEF RepairPlan, Retry, Goto, Underway, Turn, Unsaved, Attempting, Step, disk
<1>7. CASE NextStrategy
  BY <1>7, SnapshotKept DEF NextStrategy, Goto, Underway, Turn, Unsaved, Attempting, disk
<1> QED
  BY <1>2, <1>3, <1>4, <1>5, <1>6, <1>7 DEF Rollback, Repairs

LEMMA SnapshotChoose ==
  ASSUME Typed, SnapshotInv, Choose
  PROVE  SnapshotInv'
<1>1. /\ job \in Job /\ pc = "choose" /\ snapshots' = snapshots /\ run' = run
      /\ pc' \in {"idle", "choose", "provision", "final"}
  BY TypedParts DEF ProcessType, Choose, disk, Goto, Exit
<1>2. job'.remaining \subseteq job.remaining \/ pc' = "idle"
  BY <1>1 DEF Choose, Job, Exit
<1>3. CASE pc' # "provision"
  BY <1>1, <1>2, <1>3, SnapshotKept DEF Underway, Turn, Unsaved, Attempting
<1>4. CASE pc' = "provision"
  <2>1. PICK i \in job.remaining : step' = [NoStep EXCEPT !.env = Preference[i]]
    BY <1>4 DEF Choose, Goto, Exit
  <2>2. Preference[i] \in Env /\ Ahead(Preference[i])
    BY <1>1, <2>1, EnvAssumption DEF Job, Ahead
  <2>3. step'.env = Preference[i]
    BY <2>1, <2>2, Blank
  <2>4. Distinct => \A s \in snapshots' : s.run = run => s.env # step'.env
    BY <1>1, <2>2, <2>3 DEF SnapshotInv, Underway
  <2> QED
    BY <1>1, <1>2, <1>4, <2>4, SnapshotKept DEF Underway, Turn, Unsaved, Attempting
<1> QED
  BY <1>3, <1>4

LEMMA SnapshotEntry ==
  ASSUME Typed, SnapshotInv, Provision \/ Recover \/ Remember \/ Initialize
  PROVE  SnapshotInv'
<1>1. step \in Step
  BY TypedParts DEF ProcessType
<1>2. CASE Provision
  BY <1>2, SnapshotKept DEF Provision, Goto, Underway, Turn, Unsaved, Attempting
<1>3. CASE Recover
  BY <1>3, SnapshotKept DEF Recover, Goto, Exit, Underway, Turn, Unsaved, Attempting
<1>4. CASE Remember
  BY <1>4, SnapshotKept DEF Remember, Exit, Underway, Turn, Unsaved, Attempting
<1>5. CASE Initialize
  <2>1. step'.env = step.env
    BY <1>1, <1>5 DEF Initialize, Step
  <2> QED
    BY <1>5, <2>1, SnapshotKept DEF Initialize, Goto, Underway, Turn, Unsaved, Attempting
<1> QED
  BY <1>2, <1>3, <1>4, <1>5

LEMMA SnapshotFinal ==
  ASSUME Typed, SnapshotInv, PrepareFinal \/ FinalRun
  PROVE  SnapshotInv'
<1>1. CASE PrepareFinal /\ pc' = "final-run"
  <2> DEFINE taken == [env |-> FinalVm, run |-> run, attempt |-> 1]
  <2>1. pc = "final" /\ snapshots' = snapshots \cup {taken} /\ run' = run
    BY <1>1 DEF PrepareFinal, Goto, Exit
  <2>2. taken.env = FinalVm /\ taken.run = run /\ run \in Nat
    BY SnapshotsType
  <2>3. Distinct => \A s \in snapshots : s.run = run => s.env # FinalVm
    BY <2>1 DEF SnapshotInv, Underway, Ahead
  <2> HIDE DEF taken
  <2>4. Distinct => \A s \in snapshots' : s.run <= run'
    BY <2>1, <2>2 DEF SnapshotInv
  <2>5. SnapshotBudget'
    BY <2>1, <2>2, <2>3 DEF SnapshotInv, SnapshotBudget
  <2> QED
    BY <1>1, <2>4, <2>5 DEF SnapshotInv, Underway, Turn, Unsaved, Attempting
<1>2. CASE PrepareFinal /\ pc' # "final-run"
  BY <1>2, SnapshotKept
     DEF PrepareFinal, Goto, Exit, Underway, Turn, Unsaved, Attempting
<1>3. CASE FinalRun
  <2>1. snapshots' \subseteq snapshots /\ run' = run /\ pc' \in {"idle", "register"}
    BY <1>3 DEF FinalRun, Accept, Goto, Exit
  <2> QED
    BY <2>1, SnapshotKept DEF Underway, Turn, Unsaved, Attempting
<1> QED
  BY <1>1, <1>2, <1>3

LEMMA SnapshotIdle ==
  ASSUME Typed, SnapshotInv,
         ReuseInstalled \/ Begin \/ RemoveEnvironments \/ RemoveEntry \/ Crash
  PROVE  SnapshotInv'
<1>1. CASE ReuseInstalled \/ Begin
  <2>1. /\ snapshots' = snapshots /\ run' = run + 1
        /\ pc' \notin Unsaved \cup Attempting
    BY <1>1 DEF ReuseInstalled, Begin, disk, Unsaved, Attempting
  <2>2. run \in Nat /\ \A s \in snapshots : s.run \in Nat
    BY SnapshotsType
  <2>3. Distinct => \A s \in snapshots' : s.run <= run' /\ s.run # run'
    BY <2>1, <2>2 DEF SnapshotInv
  <2>4. SnapshotBudget'
    BY <2>1 DEF SnapshotInv, SnapshotBudget
  <2> QED
    BY <2>1, <2>3, <2>4 DEF SnapshotInv
<1>2. CASE RemoveEnvironments \/ RemoveEntry \/ Crash
  BY <1>2, SnapshotKept
     DEF RemoveEnvironments, RemoveEntry, Crash, Goto, Exit, Underway, Turn, Unsaved, Attempting
<1> QED
  BY <1>1, <1>2

LEMMA SnapshotStep == Typed /\ SnapshotInv /\ [Next]_vars => SnapshotInv'
<1> SUFFICES ASSUME Typed, SnapshotInv, [Next]_vars
             PROVE  SnapshotInv'
  OBVIOUS
<1>1. CASE UNCHANGED vars
  BY <1>1 DEF vars, disk, process, SnapshotInv, SnapshotBudget, CurrentSnapshot, Ahead, env
<1> QED
  BY <1>1, SnapshotAttempt, SnapshotAfter, SnapshotChoose, SnapshotEntry, SnapshotFinal,
     SnapshotIdle DEF Next, Proceed

(***************************************************************************)
(* At most one rollback snapshot per strategy and invocation is on disk,   *)
(* however attempts, rollbacks and kills interleave (snapshot_prefix and   *)
(* restore_prefix).                                                        *)
(***************************************************************************)
THEOREM SnapshotsBounded == Spec => []SnapshotBudget
<1>1. Init => SnapshotInv
  BY DEF Init, SnapshotInv, SnapshotBudget, Underway, Turn, Unsaved, Attempting
<1>2. SnapshotInv => SnapshotBudget
  BY DEF SnapshotInv, SnapshotBudget
<1> QED
  BY <1>1, <1>2, SnapshotStep, AlwaysTyped, PTL DEF Spec

------------------------------------------------------------------------------
(***************************************************************************)
(* What the detector finds: among finitely many executables one scores     *)
(* best, so finding nothing means that there is nothing to pick.           *)
(***************************************************************************)
LEMMA BestExists ==
  ASSUME NEW S \in SUBSET Exe, S # {}
  PROVE  Best(S) # {}
<1> DEFINE Above(e) == {x \in S : Score[x] > Score[e]}
           T == {Above(e) : e \in S}
<1>1. IsFiniteSet(S) /\ \A e \in S : Score[e] \in Int
  BY ExeAssumption, FS_Subset
<1>2. T \subseteq FiniteSubsetsOf(S) /\ T # {}
  <2>1. FiniteSubsetsOf(S) = SUBSET S
    BY <1>1, FS_FiniteSubsetsOfFinite
  <2>2. T \subseteq SUBSET S
    OBVIOUS
  <2>3. PICK e \in S : TRUE
    OBVIOUS
  <2>4. Above(e) \in T
    BY <2>3
  <2> HIDE DEF T
  <2> QED
    BY <2>1, <2>2, <2>4
<1>3. IsWellFoundedOn(StrictSubsetOrdering(S), FiniteSubsetsOf(S))
  BY FS_StrictSubsetOrderingWellFounded
<1>4. PICK low \in T : \A t \in T : << t, low >> \notin StrictSubsetOrdering(S)
  BY <1>2, <1>3, WFMin
<1>5. PICK e \in S : low = Above(e)
  BY <1>4
<1>6. ASSUME NEW x \in S, Score[x] > Score[e]
      PROVE  FALSE
  <2>1. Above(x) \subseteq Above(e) /\ x \in Above(e) /\ x \notin Above(x)
    BY <1>1, <1>6
  <2>2. << Above(x), Above(e) >> \in StrictSubsetOrdering(S)
    BY <2>1 DEF StrictSubsetOrdering
  <2> QED
    BY <1>4, <1>5, <2>2
<1>7. e \in Best(S)
  BY <1>1, <1>6 DEF Best
<1> QED
  BY <1>7

LEMMA NothingFound ==
  ASSUME NEW new \in SUBSET Exe, Discover({}, new) = {}
  PROVE  \A e \in new : ~Pickable(e)
<1>1. new \ {} = new
  OBVIOUS
<1>2. new \cap DisplayIcon = {}
  BY <1>1, BestExists DEF Discover
<1>3. {e \in new : Score[e] > 0} = {}
  BY <1>1, <1>2, BestExists DEF Discover
<1> QED
  BY <1>2, <1>3 DEF Pickable

------------------------------------------------------------------------------
(***************************************************************************)
(* What an attempt starts from.                                            *)
(***************************************************************************)

(* Only the installer writes the files of the payload. *)
LEMMA NotPayload ==
  /\ BuiltIn \cap Payload = {}
  /\ \A c \in Component : ComponentExes[c] \cap Payload = {}
  /\ \A e \in Env : ~IsVm(e) => InitialExes(e) \cap Payload = {}
<1>1. ComponentFiles(PlanComponents) \cap Payload = {}
  BY PlanAssumption DEF ComponentFiles
<1> QED
  BY <1>1, ExeAssumption, PlanAssumption DEF InitialExes

(* Where neither part of the invariant says anything. *)
LEMMA CleanElsewhere ==
  ASSUME pc' \notin Attempting \cup {"initialize", "snapshot", "repair"}
  PROVE  CleanInv' /\ RetryInv'
BY DEF CleanInv, RetryInv, Attempting

(* An attempt goes on with the snapshot it has. *)
LEMMA CleanAttempting ==
  ASSUME CleanInv, RetryInv, pc \in Attempting, pc' \in Attempting \ {"run"},
         step'.env = step.env, step'.saved = step.saved, step'.before = step.before
  PROVE  CleanInv' /\ RetryInv'
BY DEF CleanInv, RetryInv, Untouched, Accounted, Attempting, env

LEMMA CleanRecover ==
  ASSUME Typed, CleanInv, RetryInv, Recover
  PROVE  CleanInv' /\ RetryInv'
<1>1. CASE pc' = "initialize"
  <2>1. Discover({}, prefixes[env].exes) = {} /\ step' = step /\ prefixes' = prefixes
    BY <1>1 DEF Recover, Goto, Exit
  <2>2. prefixes[env].exes \in SUBSET Exe
    BY TypedParts, EnvType, ExesType DEF Recover, Turn
  <2>3. Untouched(prefixes[env])
    BY <2>1, <2>2, NothingFound DEF Untouched
  <2> QED
    BY <1>1, <2>1, <2>3 DEF CleanInv, RetryInv, Untouched, Attempting, env
<1>2. CASE pc' # "initialize"
  BY <1>2, CleanElsewhere DEF Recover, Goto, Exit, Attempting
<1> QED
  BY <1>1, <1>2

LEMMA CleanInitialize ==
  ASSUME Typed, CleanInv, RetryInv, Initialize
  PROVE  CleanInv' /\ RetryInv'
<1>1. DiskType /\ env \in Env /\ step \in Step /\ pc = "initialize"
  BY TypedParts, EnvType DEF Initialize, Turn, ProcessType
<1>2. CASE pc' = "snapshot"
  <2>1. /\ prefixes' = [prefixes EXCEPT ![env] = Initialized]
        /\ step' = [step EXCEPT !.attempt = 1, !.before = Initialized.exes]
    BY <1>2 DEF Initialize, Goto
  <2>2. prefixes'[env] = Initialized /\ step'.env = step.env /\ step'.before = Initialized.exes
    BY <1>1, <2>1 DEF DiskType, Step
  <2>3. ~IsVm(env) => Untouched(Initialized)
    BY <1>1, NotPayload DEF CleanInv, Untouched, Initialized
  <2>4. Accounted(prefixes[env])'
    BY <2>2 DEF Accounted, env
  <2> QED
    BY <1>2, <2>2, <2>3, <2>4 DEF CleanInv, RetryInv, Untouched, Attempting, env
<1>3. CASE pc' # "snapshot"
  BY <1>3, CleanElsewhere DEF Initialize, Goto, Attempting
<1> QED
  BY <1>2, <1>3

LEMMA CleanAttempt ==
  ASSUME Typed, CleanInv, RetryInv, Attempt
  PROVE  CleanInv' /\ RetryInv'
<1>1. step \in Step
  BY TypedParts DEF ProcessType
<1>2. CASE TakeSnapshot
  <2>1. CASE pc' = "run"
    <3>1. /\ pc = "snapshot" /\ prefixes' = prefixes
          /\ step' = [step EXCEPT !.saved = prefixes[env], !.outcome = None,
                                  !.previous = step.config, !.config = RuntimeConfig]
      BY <1>2, <2>1 DEF TakeSnapshot, Exit
    <3>2. step'.env = step.env /\ step'.saved = prefixes[env] /\ step'.before = step.before
      BY <1>1, <3>1 DEF Step
    <3> QED
      BY <2>1, <3>1, <3>2 DEF CleanInv, RetryInv, Untouched, Accounted, Attempting, env
  <2>2. CASE pc' # "run"
    BY <1>2, <2>2, CleanElsewhere DEF TakeSnapshot, Goto, Exit, Attempting
  <2> QED
    BY <2>1, <2>2
<1>3. CASE RunInstaller
  <2>1. PICK outcome \in [ok : BOOLEAN, category : Categories] :
          step' = [step EXCEPT !.outcome = outcome] /\ Goto(AfterRun(outcome))
    BY <1>3 DEF RunInstaller
  <2>2. /\ step'.env = step.env /\ step'.saved = step.saved /\ step'.before = step.before
        /\ pc = "run" /\ pc' \in {"reject", "observe", "restore", "abandon"}
    BY <1>1, <1>3, <2>1 DEF Step, Goto, AfterRun, RunInstaller
  <2> QED
    BY <2>2, CleanAttempting, CleanElsewhere DEF Attempting
<1>4. CASE CannotStart
  BY <1>4, CleanAttempting DEF CannotStart, Goto, Attempting
<1>5. CASE Reject \/ Observe \/ Register \/ Abandon
  <2>1. pc' \in {"idle", "abandon", "register", "choose"}
    BY <1>5 DEF Reject, Observe, Accept, Register, Abandon, Goto, Exit
  <2> QED
    BY <2>1, CleanElsewhere DEF Attempting
<1> QED
  BY <1>2, <1>3, <1>4, <1>5 DEF Attempt

(* The rollback puts back what the attempt started from. *)
LEMMA CleanRollback ==
  ASSUME Typed, CleanInv, RetryInv, Rollback
  PROVE  CleanInv' /\ RetryInv'
<1>1. step \in Step /\ DiskType
  BY TypedParts DEF ProcessType
<1>2. CASE MoveAway
  <2>1. CASE Goto("moved-away") /\ step' = [step EXCEPT !.displaced = prefixes[env]]
    <3>1. step'.env = step.env /\ step'.saved = step.saved /\ step'.before = step.before
      BY <1>1, <2>1 DEF Step
    <3> QED
      BY <1>2, <2>1, <3>1, CleanAttempting DEF MoveAway, Goto, Attempting
  <2>2. CASE Exit("error")
    BY <2>2, CleanElsewhere DEF Exit, Attempting
  <2> QED
    BY <1>2, <2>1, <2>2 DEF MoveAway
<1>3. CASE MoveBack \/ RevertVm
  <2>1. CASE Exit("error")
    BY <2>1, CleanElsewhere DEF Exit, Attempting
  <2>2. CASE /\ prefixes' = [prefixes EXCEPT ![env] = step.saved]
             /\ Goto(AfterRestore) /\ step' = step
    <3>1. env \in Env /\ pc \in Attempting
      BY <1>3, TypedParts, EnvType DEF MoveBack, RevertVm, Turn, Attempting
    <3>2. prefixes'[env] = step.saved
      BY <1>1, <2>2, <3>1 DEF DiskType
    <3>3. pc' \in {"abandon", "repair"}
      BY <2>2 DEF Goto, AfterRestore
    <3> QED
      BY <2>2, <3>1, <3>2, <3>3
         DEF CleanInv, RetryInv, Untouched, Accounted, Attempting, env
  <2> QED
    BY <1>3, <2>1, <2>2 DEF MoveBack, RevertVm
<1> QED
  BY <1>2, <1>3 DEF Rollback

LEMMA CleanRepairs ==
  ASSUME Typed, CleanInv, RetryInv, Repairs
  PROVE  CleanInv' /\ RetryInv'
<1>1. step \in Step /\ DiskType
  BY TypedParts DEF ProcessType
<1>2. CASE RepairWithComponent
  <2> DEFINE component == RepairComponent(step.outcome.category)
             files == prefixes[env].exes \cup BuiltIn \cup ComponentExes[component]
             added == prefixes[env].components \cup {component}
  <2>1. component \in Component
    BY <1>2, PlanAssumption DEF RepairWithComponent, RepairComponent
  <2> HIDE DEF component
  <2>2. CASE /\ ~IsVm(env) /\ Retry
             /\ prefixes' = [prefixes EXCEPT ![env].exes = files, ![env].components = added]
             /\ step' = [step EXCEPT !.attempt = @ + 1]
    <3>1. /\ env \in Env /\ pc = "repair" /\ pc' = "snapshot"
          /\ step'.env = step.env /\ step'.before = step.before
      BY <1>1, <1>2, <2>2, TypedParts, EnvType DEF RepairWithComponent, Retry, Goto, Turn, Step
    <3>2. prefixes[env] \in Prefix
      BY <1>1, <3>1 DEF DiskType
    <3>3. prefixes'[env].exes = files /\ prefixes'[env].components = added
      <4> HIDE DEF files, added
      <4> QED
        BY <1>1, <2>2, <3>1, <3>2 DEF DiskType, Prefix
    <3>4. Untouched(prefixes'[env])
      BY <2>1, <2>2, <3>1, <3>3, NotPayload DEF CleanInv, Untouched
    <3>5. ComponentFiles(added)
            = ComponentFiles(prefixes[env].components) \cup ComponentExes[component]
      BY DEF ComponentFiles
    <3>6. files \ step.before \subseteq BuiltIn \cup ComponentFiles(added)
      BY <3>1, <3>5 DEF RetryInv, Accounted
    <3> QED
      BY <3>1, <3>3, <3>4, <3>6 DEF CleanInv, RetryInv, Untouched, Accounted, Attempting, env
  <2>3. CASE Exit("repair-failed")
    BY <2>3, CleanElsewhere DEF Exit, Attempting
  <2> QED
    BY <1>2, <2>2, <2>3 DEF RepairWithComponent, component
<1>3. CASE RepairPlan
  <2>1. /\ step'.env = step.env /\ step'.before = step.before /\ prefixes' = prefixes
        /\ pc = "repair" /\ pc' = "snapshot"
    BY <1>1, <1>3 DEF RepairPlan, Retry, Goto, Step, disk
  <2> QED
    BY <2>1 DEF CleanInv, RetryInv, Untouched, Accounted, Attempting, env
<1>4. CASE NextStrategy
  BY <1>4, CleanElsewhere DEF NextStrategy, Goto, Attempting
<1> QED
  BY <1>2, <1>3, <1>4 DEF Repairs

LEMMA CleanStep == Typed /\ CleanInv /\ RetryInv /\ [Next]_vars => CleanInv' /\ RetryInv'
<1> SUFFICES ASSUME Typed, CleanInv, RetryInv, [Next]_vars
             PROVE  CleanInv' /\ RetryInv'
  OBVIOUS
<1>1. CASE UNCHANGED vars
  BY <1>1 DEF vars, disk, process, CleanInv, RetryInv, Untouched, Accounted, env
<1>2. CASE ReuseInstalled \/ Begin \/ RemoveEnvironments \/ RemoveEntry \/ Crash
  BY <1>2, CleanElsewhere
     DEF ReuseInstalled, Begin, RemoveEnvironments, RemoveEntry, Crash, Goto, Exit, Attempting
<1>3. CASE Choose \/ Provision \/ Remember
  BY <1>3, CleanElsewhere DEF Choose, Provision, Remember, Goto, Exit, Attempting
<1>4. CASE PrepareFinal \/ FinalRun
  <2>1. pc' \in {"idle", "final-run", "register"}
    BY <1>4 DEF PrepareFinal, FinalRun, Accept, Goto, Exit
  <2> QED
    BY <2>1, CleanElsewhere DEF Attempting
<1> QED
  BY <1>1, <1>2, <1>3, <1>4, CleanRecover, CleanInitialize, CleanAttempt, CleanRollback,
     CleanRepairs DEF Next, Proceed

LEMMA AlwaysClean == Spec => [](CleanInv /\ RetryInv)
<1>1. Init => CleanInv /\ RetryInv
  BY DEF Init, CleanInv, RetryInv, Attempting
<1> QED
  BY <1>1, CleanStep, AlwaysTyped, PTL DEF Spec

(***************************************************************************)
(* An installer never starts in a Wine or Proton prefix in which an        *)
(* earlier run left a program the detector would pick: recover_interrupted *)
(* and restore_prefix come first, on every path, kills included.           *)
(***************************************************************************)
THEOREM NoReinstall == Spec => []NoReinstallOverPayload
<1>1. CleanInv => NoReinstallOverPayload
  BY DEF CleanInv, NoReinstallOverPayload, Untouched
<1> QED
  BY <1>1, AlwaysClean, PTL

(***************************************************************************)
(* A retry sees what the first attempt saw: apart from files of Windows    *)
(* and of the added components, nothing a failed attempt wrote survives    *)
(* the restore before apply_repair.                                        *)
(***************************************************************************)
THEOREM RetriesClean == Spec => []RetryFromCleanState
<1>1. RetryInv => RetryFromCleanState
  BY DEF RetryInv, RetryFromCleanState, Accounted
<1> QED
  BY <1>1, AlwaysClean, PTL

------------------------------------------------------------------------------
(***************************************************************************)
(* What is registered.  While strategies are tried nothing is, so only the *)
(* steps that write the registry or change what it points to matter.       *)
(***************************************************************************)
LEMMA RegistryNone ==
  ASSUME registry' = None, pc' \notin {"observe", "register"}
  PROVE  RegistryInv'
BY DEF RegistryInv, RegisteredIntact, FunctionalFromSuccess

LEMMA RegistryKept ==
  ASSUME RegistryInv, UNCHANGED << registry, prefixes, fate >>,
         pc' \in {"idle", "remember", "removing"}
  PROVE  RegistryInv'
BY DEF RegistryInv, RegisteredIntact, FunctionalFromSuccess

LEMMA RegistryTried ==
  ASSUME RegistryInv,
         \/ Choose \/ Provision \/ Initialize \/ TakeSnapshot \/ CannotStart \/ Reject
         \/ Abandon \/ Rollback \/ Repairs \/ PrepareFinal
  PROVE  RegistryInv'
<1>1. registry' = None
  BY DEF RegistryInv, Choose, Provision, Initialize, TakeSnapshot, CannotStart, Reject, Abandon,
         Rollback, MoveAway, MoveBack, RevertVm, Repairs, RepairWithComponent, RepairPlan,
         NextStrategy, PrepareFinal, disk
<1>2. CASE Choose \/ Provision \/ Initialize \/ TakeSnapshot \/ CannotStart \/ Reject
           \/ Abandon \/ PrepareFinal
  <2>1. pc' \notin {"observe", "register"}
    BY <1>2 DEF Choose, Provision, Initialize, TakeSnapshot, CannotStart, Reject, Abandon,
                PrepareFinal, Goto, Exit
  <2> QED
    BY <1>1, <2>1, RegistryNone
<1>3. CASE Rollback \/ Repairs
  <2>1. pc' \notin {"observe", "register"}
    BY <1>3 DEF Rollback, MoveAway, MoveBack, RevertVm, Repairs, RepairWithComponent, RepairPlan,
                NextStrategy, Retry, AfterRestore, Goto, Exit
  <2> QED
    BY <1>1, <2>1, RegistryNone
<1> QED
  BY <1>2, <1>3

(* A search that replaces the registered program takes what it found. *)
LEMMA RegistryReuse ==
  ASSUME Typed, RegistryInv, ReuseInstalled
  PROVE  RegistryInv'
<1>1. /\ registry \in App /\ pc = "idle" /\ pc' = "idle"
      /\ prefixes' = prefixes /\ fate' = fate
  BY TypedParts DEF ReuseInstalled, DiskType
<1>2. CASE registry' = registry
  BY <1>1, <1>2, RegistryKept
<1>3. ASSUME NEW candidate,
             Reuse([registry EXCEPT !.executable = candidate, !.quality = "unverified",
                                    !.limitations = @ \ {"recovered"}])
      PROVE  RegistryInv'
  <2> DEFINE app == [registry EXCEPT !.executable = candidate, !.quality = "unverified",
                                     !.limitations = @ \ {"recovered"}]
  <2>1. app.quality = "unverified"
    BY <1>1 DEF App
  <2> HIDE DEF app
  <2>2. Reuse(app)
    BY <1>3 DEF app
  <2>3. CASE registry' = app /\ app.executable \in prefixes[app.env].exes \cup {Source}
    BY <1>1, <2>1, <2>3 DEF RegistryInv, RegisteredIntact, FunctionalFromSuccess
  <2> QED
    BY <1>2, <2>2, <2>3 DEF Reuse
<1>4. CASE Reuse(registry)
  BY <1>2, <1>4 DEF Reuse
<1> QED
  BY <1>3, <1>4 DEF ReuseInstalled

(* A recovered program is in the environment that was searched. *)
LEMMA RegistryRecover ==
  ASSUME Typed, RegistryInv, Recover
  PROVE  RegistryInv'
<1>1. pc = "recover" /\ registry = None /\ prefixes' = prefixes /\ fate' = fate
  BY DEF Recover, RegistryInv
<1>2. ASSUME NEW installed \in Discover({}, prefixes[env].exes), Goto("remember"),
             registry' = [env |-> env, executable |-> installed,
                          quality |-> "functional-with-limitations",
                          limitations |-> {"recovered"}]
      PROVE  RegistryInv'
  <2>1. installed \in prefixes[env].exes
    BY DiscoverType
  <2>2. /\ registry'.env = env /\ registry'.executable = installed
        /\ registry'.quality = "functional-with-limitations" /\ pc' = "remember"
    BY <1>2 DEF Goto
  <2> QED
    BY <1>1, <2>1, <2>2 DEF RegistryInv, RegisteredIntact, FunctionalFromSuccess
<1>3. CASE registry' = registry /\ pc' \in {"initialize", "idle"}
  BY <1>1, <1>3, RegistryNone
<1> QED
  BY <1>2, <1>3 DEF Recover, Goto, Exit

(* Success is what lets a run be observed. *)
LEMMA RegistryRun ==
  ASSUME Typed, RegistryInv, RunInstaller
  PROVE  RegistryInv'
<1>1. registry' = None /\ env \in Env /\ fate \in [Env -> Fate] /\ env' = env
  <2>1. Located /\ pc \in Turn /\ step \in Step /\ fate \in [Env -> Fate]
    BY TypedParts DEF RunInstaller, Turn, ProcessType, DiskType
  <2>2. step'.env = step.env
    BY <2>1 DEF RunInstaller, Step
  <2> QED
    BY <2>1, <2>2, EnvType DEF RunInstaller, RegistryInv, env
<1>2. PICK outcome \in [ok : BOOLEAN, category : Categories] :
        /\ fate' = [fate EXCEPT ![env] = IF outcome.ok THEN "succeeded" ELSE "failed"]
        /\ Goto(AfterRun(outcome))
  BY DEF RunInstaller
<1>3. pc' = "observe" => outcome.ok
  BY <1>2 DEF Goto, AfterRun
<1>4. pc' # "register"
  BY <1>2 DEF Goto, AfterRun
<1>5. pc' = "observe" => fate'[env'] = "succeeded"
  BY <1>1, <1>2, <1>3
<1> QED
  BY <1>1, <1>4, <1>5 DEF RegistryInv, RegisteredIntact, FunctionalFromSuccess

(* What is handed to register() was found where the installer ran. *)
LEMMA RegistryAccept ==
  ASSUME registry' = None, NEW app \in App, Accept(app),
         app.executable = Source \/ app.executable \in prefixes'[app.env].exes,
         app.quality = "functional" => fate'[app.env] = "succeeded"
  PROVE  RegistryInv'
BY DEF Accept, Goto, RegistryInv, RegisteredIntact, FunctionalFromSuccess

LEMMA RegistryObserve ==
  ASSUME Typed, RegistryInv, Observe
  PROVE  RegistryInv'
<1>1. ProcessType /\ DiskType /\ env \in Env
  BY TypedParts, EnvType DEF Observe, Turn
<1>2. /\ registry' = None /\ fate[env] = "succeeded"
      /\ prefixes' = prefixes /\ fate' = fate
  BY DEF Observe, RegistryInv
<1>3. ASSUME NEW installed \in Installed, NEW quality \in Quality,
             NEW limitations \in SUBSET Limitation,
             Accept([env |-> env, executable |-> installed, quality |-> quality,
                     limitations |-> limitations])
      PROVE  RegistryInv'
  <2> DEFINE app == [env |-> env, executable |-> installed, quality |-> quality,
                     limitations |-> limitations]
  <2>1. installed \in prefixes[env].exes \cup {Source} /\ installed \in Exe \cup {Source}
    BY <1>1, InstalledType, ExesType
  <2>2. app \in App /\ app.env = env /\ app.executable = installed
    BY <1>1, <2>1 DEF App
  <2>3. Accept(app)
    BY <1>3
  <2> HIDE DEF app
  <2> QED
    BY <1>2, <2>1, <2>2, <2>3, RegistryAccept
<1>4. CASE pc' \in {"idle", "abandon"}
  BY <1>2, <1>4, RegistryNone
<1>5. PICK installed \in Installed :
        \/ Exit("error")
        \/ Goto("abandon")
        \/ \E others \in {{}, {"other"}} :
             LET limitations == others \cup (IF installed = Source
                                             THEN {"no-executable"} ELSE {})
             IN Accept([env |-> env, executable |-> installed, limitations |-> limitations,
                        quality |-> IF limitations = {} THEN "functional"
                                    ELSE "functional-with-limitations"])
  BY DEF Observe
<1>6. ASSUME NEW others \in {{}, {"other"}}, NEW limitations, NEW quality,
             limitations = others \cup (IF installed = Source THEN {"no-executable"} ELSE {}),
             quality = IF limitations = {} THEN "functional" ELSE "functional-with-limitations",
             Accept([env |-> env, executable |-> installed, quality |-> quality,
                     limitations |-> limitations])
      PROVE  RegistryInv'
  <2>1. limitations \in SUBSET Limitation /\ quality \in Quality
    BY <1>6 DEF Limitation, Quality
  <2> QED
    BY <1>3, <1>6, <2>1
<1> QED
  BY <1>4, <1>5, <1>6 DEF Exit, Goto

LEMMA RegistryFinal ==
  ASSUME Typed, RegistryInv, FinalRun
  PROVE  RegistryInv'
<1>1. ProcessType /\ DiskType /\ env \in Env /\ registry' = None
  BY TypedParts, EnvType DEF FinalRun, RegistryInv
<1>2. PICK outcome \in [ok : BOOLEAN, category : Categories], added \in SUBSET Payload :
        LET good == outcome.ok /\ ~Terminal(outcome.category)
            found == Discover(step.before, prefixes'[env].exes)
            installed == IF found = {} THEN {Source} ELSE found
        IN /\ Installs(env, added)
           /\ fate' = [fate EXCEPT ![env] = IF outcome.ok THEN "succeeded" ELSE "failed"]
           /\ \E executable \in installed :
                \/ /\ good
                   /\ Accept([env |-> env, executable |-> executable,
                              quality |-> "functional", limitations |-> {}])
                \/ Exit("error")
  BY DEF FinalRun
<1>3. prefixes'[env].exes \subseteq Exe
  BY <1>1, <1>2, InstallsType
<1>4. Discover(step.before, prefixes'[env].exes) \subseteq prefixes'[env].exes \ step.before
  BY DiscoverType
<1>5. PICK executable \in prefixes'[env].exes \cup {Source} :
        \/ /\ outcome.ok
           /\ Accept([env |-> env, executable |-> executable,
                      quality |-> "functional", limitations |-> {}])
        \/ Exit("error")
  BY <1>2, <1>4
<1>6. CASE Exit("error")
  BY <1>1, <1>6, RegistryNone DEF Exit
<1>7. ASSUME outcome.ok,
             Accept([env |-> env, executable |-> executable,
                     quality |-> "functional", limitations |-> {}])
      PROVE  RegistryInv'
  <2> DEFINE app == [env |-> env, executable |-> executable,
                     quality |-> "functional", limitations |-> {}]
  <2>1. app \in App /\ app.env = env /\ app.executable = executable
    BY <1>1, <1>3, <1>5 DEF App, Quality
  <2>2. Accept(app)
    BY <1>7
  <2> HIDE DEF app
  <2>3. fate'[env] = "succeeded"
    BY <1>1, <1>2, <1>7 DEF DiskType
  <2> QED
    BY <1>1, <1>5, <2>1, <2>2, <2>3, RegistryAccept
<1> QED
  BY <1>5, <1>6, <1>7

LEMMA RegistryRegister ==
  ASSUME Typed, RegistryInv, Register
  PROVE  RegistryInv'
<1>1. registry = None /\ pc' = "idle" /\ prefixes' = prefixes /\ fate' = fate
  BY DEF Register, Exit, RegistryInv
<1>2. registry' \in {pending, None}
  BY <1>1 DEF Register
<1> QED
  BY <1>1, <1>2 DEF Register, RegistryInv, RegisteredIntact, FunctionalFromSuccess

(* A kill changes files only while nothing is registered. *)
LEMMA RegistryEnd ==
  ASSUME Typed, RegistryInv, Begin \/ Remember \/ Crash \/ RemoveEnvironments \/ RemoveEntry
  PROVE  RegistryInv'
<1>1. CASE Begin
  BY <1>1, RegistryNone DEF Begin, disk
<1>2. CASE Remember
  BY <1>2, RegistryKept DEF Remember, Exit
<1>3. CASE Crash
  <2>1. pc' = "idle" /\ registry' = registry
    BY <1>3 DEF Crash, Exit
  <2>2. CASE registry = None
    BY <2>1, <2>2, RegistryNone
  <2>3. CASE registry # None
    <3>1. pc \notin {"run", "final-run", "initialize"}
      BY <2>3 DEF RegistryInv
    <3>2. UNCHANGED << prefixes, fate >>
      BY <1>3, <3>1 DEF Crash
    <3> QED
      BY <2>1, <3>2, RegistryKept
  <2> QED
    BY <2>2, <2>3
<1>4. CASE RemoveEnvironments
  <2>1. registry \in App /\ registry' = registry /\ pc' = "removing"
    BY <1>4, TypedParts DEF RemoveEnvironments, DiskType, Goto
  <2>2. fate'[registry.env] = "removed"
    BY <1>4, <2>1 DEF RemoveEnvironments, App
  <2> QED
    BY <2>1, <2>2 DEF RegistryInv, RegisteredIntact, FunctionalFromSuccess
<1>5. CASE RemoveEntry
  BY <1>5, RegistryNone DEF RemoveEntry, Exit
<1> QED
  BY <1>1, <1>2, <1>3, <1>4, <1>5

LEMMA RegistryStep == Typed /\ RegistryInv /\ [Next]_vars => RegistryInv'
<1> SUFFICES ASSUME Typed, RegistryInv, [Next]_vars
             PROVE  RegistryInv'
  OBVIOUS
<1>1. CASE UNCHANGED vars
  BY <1>1 DEF vars, disk, process, history, RegistryInv, RegisteredIntact,
              FunctionalFromSuccess, env
<1>2. CASE Attempt
  BY <1>2, RegistryTried, RegistryRun, RegistryObserve, RegistryRegister DEF Attempt
<1>3. CASE Proceed
  BY <1>2, <1>3, RegistryTried, RegistryRecover, RegistryFinal, RegistryEnd DEF Proceed
<1> QED
  BY <1>1, <1>3, RegistryReuse, RegistryEnd DEF Next

LEMMA AlwaysRegistered == Spec => []RegistryInv
<1>1. Init => RegistryInv
  BY DEF Init, RegistryInv, RegisteredIntact, FunctionalFromSuccess
<1> QED
  BY <1>1, RegistryStep, AlwaysTyped, PTL DEF Spec

(***************************************************************************)
(* The registered executable exists until its removal begins, whatever is  *)
(* tried, rolled back, killed or searched again (register, reuse_installed *)
(* and remove).                                                            *)
(***************************************************************************)
THEOREM RegisteredExists == Spec => []RegisteredIntact
<1>1. RegistryInv => RegisteredIntact
  BY DEF RegistryInv
<1> QED
  BY <1>1, AlwaysRegistered, PTL

(***************************************************************************)
(* "Functional" is only ever said of an environment whose last installer   *)
(* run reported success (the loop of install and its closing VM attempt).  *)
(***************************************************************************)
THEOREM FunctionalMeansSuccess == Spec => []FunctionalFromSuccess
<1>1. RegistryInv => FunctionalFromSuccess
  BY DEF RegistryInv
<1> QED
  BY <1>1, AlwaysRegistered, PTL

==============================================================================
