---------------------------- MODULE FirmwareFlash ----------------------------
(***************************************************************************)
(* `cognac flash-firmware` (src/firmware_flash.rs): invocations that run   *)
(* concurrently, each submitting one firmware update to fwupd under an     *)
(* exclusive file lock, with a journal entry per device that is written    *)
(* before the request and updated after it.  Invocations can be killed at  *)
(* any step (the fwupdmgr child then goes on alone), the machine can       *)
(* reboot or lose power, and other fwupd clients may update some devices.  *)
(* The fwupd daemon and the firmware are external: what they may do is     *)
(* taken from what the code and its tests prepare for.                     *)
(***************************************************************************)
EXTENDS Naturals, FiniteSets

CONSTANTS
  Process,    \* concurrent invocations of cognac
  Device,     \* fwupd devices
  Deferred,   \* those with the flag needs-reboot or needs-shutdown
  Shared,     \* those other fwupd clients update as well
  MaxVersion, \* bound: firmware versions 1 .. MaxVersion
  MaxBoot,    \* bound: number of boots
  PowerLoss,  \* the machine may lose power without syncing its file system
  None

ASSUME FlashAssumption ==
  /\ Deferred \subseteq Device /\ Shared \subseteq Device
  /\ MaxVersion \in Nat \ {0} /\ MaxBoot \in Nat
  /\ PowerLoss \in BOOLEAN
  /\ None \notin Nat \cup Process

Version == 1 .. MaxVersion
Phase == {"submitting", "submission-unknown", "submitted",
          "pending-reboot", "unverified", "verified"}
Transaction == [version : Version, boot : Nat, phase : Phase]

ASSUME NoneAssumption == None \notin Version \cup Transaction

PC == {"idle", "check", "archive", "plan", "updates", "intend", "invoke",
       "waiting", "record", "requery", "conclude"}
Result == {"pending", "ok", "failed"}
Request == [owner : Process \cup {None}, device : Device, version : Version,
            result : Result]

VARIABLES
  \* the machine
  boot,      \* boot_id
  flashed,   \* [Device -> Version]: the firmware that runs
  reported,  \* [Device -> Version]: the version fwupd reports
  staged,    \* [Device -> Version \cup {None}]: to be applied by the next boot
  failed,    \* [Device -> BOOLEAN]: update_state 3 or 5
  requests,  \* install requests of fwupdmgr clients that still run
  \* Cognac's state directory
  lock,      \* None, or the invocation that holds update.lock
  journal,   \* [Device -> Transaction \cup {None}]
  durable,   \* what of it survives a power loss for certain
  \* the invocations
  pc, device, version,
  seen,      \* version of the first planning query
  phase      \* phase of the transaction in memory

machine == << boot, flashed, reported, staged, failed, requests >>
files   == << lock, journal, durable >>
locals  == << device, version, seen, phase >>
vars    == << machine, files, pc, locals >>

------------------------------------------------------------------------------
Init ==
  /\ boot = 0
  /\ flashed = [d \in Device |-> 1] /\ reported = flashed
  /\ staged = [d \in Device |-> None] /\ failed = [d \in Device |-> FALSE]
  /\ requests = {}
  /\ lock = None
  /\ journal = [d \in Device |-> None] /\ durable = journal
  /\ pc = [p \in Process |-> "idle"]
  /\ device \in [Process -> Device] /\ version = [p \in Process |-> 1]
  /\ seen = [p \in Process |-> 1] /\ phase = [p \in Process |-> "submitting"]

(* Mutants: the version alone is enough; a phase the journal cannot hold.  *)
VerificationByVersion(d, t) ==
  IF reported[d] = t.version /\ ~failed[d] THEN "verified" ELSE "unverified"
VerificationUnreadable(d, t) ==
  IF reported[d] = t.version /\ ~failed[d] THEN "verified" ELSE "pending-shutdown"

(***************************************************************************)
(* verification(): the phase a transaction has in view of what fwupd       *)
(* reports now.  `t.phase` only distinguishes an unknown submission.       *)
(***************************************************************************)
Verification(d, t) ==
  LET rebooted == t.boot # boot
      deferred == d \in Deferred
  IN IF reported[d] = t.version /\ ~failed[d] /\ (deferred => rebooted) THEN "verified"
     ELSE IF deferred /\ ~rebooted /\ t.phase # "submission-unknown" THEN "pending-reboot"
     ELSE "unverified"

Goto(p, next) == pc' = [pc EXCEPT ![p] = next]

(* Mutant: the file handle of the lock outlives the operation. *)
ExitWithoutUnlock(p) ==
  /\ Goto(p, "idle")
  /\ version' = [version EXCEPT ![p] = 1]
  /\ seen' = [seen EXCEPT ![p] = 1]
  /\ phase' = [phase EXCEPT ![p] = "submitting"]
  /\ UNCHANGED << lock, device >>

(* The invocation ends; the lock goes with its file handle, and what it    *)
(* held in memory is gone.                                                 *)
Exit(p) ==
  /\ Goto(p, "idle")
  /\ lock' = None
  /\ version' = [version EXCEPT ![p] = 1]
  /\ seen' = [seen EXCEPT ![p] = 1]
  /\ phase' = [phase EXCEPT ![p] = "submitting"]
  /\ UNCHANGED device

(* Mutant: the lock is taken whoever holds it. *)
StartAnyway(p, d, v) ==
  /\ pc[p] = "idle"
  /\ lock' = p
  /\ device' = [device EXCEPT ![p] = d]
  /\ version' = [version EXCEPT ![p] = v]
  /\ Goto(p, "check")
  /\ UNCHANGED << machine, journal, durable, seen, phase >>

(***************************************************************************)
(* submit_with, step by step.  While another invocation holds the lock a   *)
(* new one ends at once (try_lock).  A query that fails, a device that     *)
(* cannot be identified and a file that cannot be written end the          *)
(* invocation as well.                                                     *)
(***************************************************************************)
Start(p, d, v) ==
  /\ pc[p] = "idle"
  /\ lock = None /\ lock' = p
  /\ device' = [device EXCEPT ![p] = d]
  /\ version' = [version EXCEPT ![p] = v]
  /\ Goto(p, "check")
  /\ UNCHANGED << machine, journal, durable, seen, phase >>

Holds(p, step) == pc[p] = step /\ lock = p

(* Mutant: a transaction left in its first phase counts as not submitted. *)
CheckJournalRetries(p) ==
  LET d == device[p]
  IN /\ Holds(p, "check")
     /\ \/ /\ journal[d] # None =>
                  journal[d].phase = "submitting" \/ Verification(d, journal[d]) = "verified"
           /\ Goto(p, IF journal[d] = None THEN "plan" ELSE "archive")
           /\ UNCHANGED << lock, locals >>
        \/ journal[d] # None /\ Exit(p)
     /\ UNCHANGED << machine, journal, durable >>

CheckJournal(p) ==
  LET d == device[p]
  IN /\ Holds(p, "check")
     /\ \/ /\ journal[d] # None => Verification(d, journal[d]) = "verified"
           /\ Goto(p, IF journal[d] = None THEN "plan" ELSE "archive")
           /\ UNCHANGED << lock, locals >>
        \/ journal[d] # None /\ Exit(p)
     /\ UNCHANGED << machine, journal, durable >>

(* The transaction is copied to a history file, which nothing reads.       *)
Archive(p) ==
  /\ Holds(p, "archive")
  /\ \/ Goto(p, "plan") /\ UNCHANGED << lock, locals >>
     \/ Exit(p)
  /\ UNCHANGED << machine, journal, durable >>

(* plan_with: get-devices, then get-updates; between the two the device    *)
(* can change.  Only an upgrade is offered.                                *)
PlanDevice(p) ==
  /\ Holds(p, "plan")
  /\ \/ /\ reported[device[p]] # version[p]
        /\ seen' = [seen EXCEPT ![p] = reported[device[p]]]
        /\ Goto(p, "updates")
        /\ UNCHANGED << lock, device, version, phase >>
     \/ Exit(p)
  /\ UNCHANGED << machine, journal, durable >>

(* Mutant: any other version is an update. *)
PlanAnyVersion(p) ==
  /\ Holds(p, "updates")
  /\ \/ /\ reported[device[p]] = seen[p]
        /\ Goto(p, "intend")
        /\ UNCHANGED << lock, locals >>
     \/ Exit(p)
  /\ UNCHANGED << machine, journal, durable >>

PlanUpdates(p) ==
  /\ Holds(p, "updates")
  /\ \/ /\ reported[device[p]] = seen[p]
        /\ version[p] > reported[device[p]]
        /\ Goto(p, "intend")
        /\ UNCHANGED << lock, locals >>
     \/ Exit(p)
  /\ UNCHANGED << machine, journal, durable >>

(* atomic_json(&journal, ..): the file is synced, the rename is not.       *)
WriteJournal(d, t) ==
  /\ journal' = [journal EXCEPT ![d] = t]
  /\ \/ durable' = [durable EXCEPT ![d] = t]
     \/ PowerLoss /\ UNCHANGED durable

(* Mutant: nothing is journaled before the request. *)
IntendSilently(p) ==
  /\ Holds(p, "intend")
  /\ Goto(p, "invoke")
  /\ UNCHANGED << machine, files, locals >>

WriteIntent(p) ==
  /\ Holds(p, "intend")
  /\ \/ /\ WriteJournal(device[p], [version |-> version[p], boot |-> boot,
                                    phase |-> "submitting"])
        /\ phase' = [phase EXCEPT ![p] = "submitting"]
        /\ Goto(p, "invoke")
        /\ UNCHANGED << lock, device, version, seen >>
     \/ Exit(p) /\ UNCHANGED << journal, durable >>
  /\ UNCHANGED machine

InFlight(p, result) ==
  [owner |-> p, device |-> device[p], version |-> version[p], result |-> result]

Invoke(p) ==
  /\ Holds(p, "invoke")
  /\ \/ /\ requests' = requests \cup {InFlight(p, "pending")}
        /\ Goto(p, "waiting")
        /\ UNCHANGED phase
     \/ /\ phase' = [phase EXCEPT ![p] = "submission-unknown"]
        /\ Goto(p, "record")
        /\ UNCHANGED requests
  /\ UNCHANGED << boot, flashed, reported, staged, failed, files, device, version, seen >>

Answer(p) ==
  /\ Holds(p, "waiting")
  /\ \E result \in {"ok", "failed"} :
       /\ InFlight(p, result) \in requests
       /\ requests' = requests \ {InFlight(p, result)}
       /\ phase' = [phase EXCEPT ![p] = IF result = "ok" THEN "submitted"
                                        ELSE "submission-unknown"]
  /\ Goto(p, "record")
  /\ UNCHANGED << boot, flashed, reported, staged, failed, files, device, version, seen >>

Recorded(p) == [journal[device[p]] EXCEPT !.phase = phase[p]]

RecordResult(p) ==
  /\ Holds(p, "record")
  /\ \/ /\ WriteJournal(device[p], Recorded(p))
        /\ \/ phase[p] = "submission-unknown" /\ Exit(p)
           \/ /\ phase[p] # "submission-unknown" /\ Goto(p, "requery")
              /\ UNCHANGED << lock, locals >>
     \/ Exit(p) /\ UNCHANGED << journal, durable >>
  /\ UNCHANGED machine

(* A query that fails leaves the transaction as submitted.                 *)
Requery(p) ==
  /\ Holds(p, "requery")
  /\ \/ /\ phase' = [phase EXCEPT ![p] = Verification(device[p], Recorded(p))]
        /\ Goto(p, "conclude")
        /\ UNCHANGED << lock, device, version, seen >>
     \/ Exit(p)
  /\ UNCHANGED << machine, journal, durable >>

RecordVerification(p) ==
  /\ Holds(p, "conclude")
  /\ \/ WriteJournal(device[p], Recorded(p))
     \/ UNCHANGED << journal, durable >>
  /\ Exit(p)
  /\ UNCHANGED machine

------------------------------------------------------------------------------
(***************************************************************************)
(* fwupd and the firmware (external).  An update of a deferred device is   *)
(* staged for the next boot; its new version may be reported before that   *)
(* (the test journals_before_submission_and_verifies_only_after_reboot).   *)
(***************************************************************************)
Takes(d, v) ==
  /\ v > flashed[d]
  /\ IF d \in Deferred
     THEN /\ staged' = [staged EXCEPT ![d] = v]
          /\ \/ reported' = [reported EXCEPT ![d] = v]
             \/ UNCHANGED reported
          /\ UNCHANGED << flashed, failed >>
     ELSE /\ flashed' = [flashed EXCEPT ![d] = v]
          /\ reported' = [reported EXCEPT ![d] = v]
          /\ failed' = [failed EXCEPT ![d] = FALSE]
          /\ UNCHANGED staged

(* A request is carried out or fails; the exit status may not tell which.  *)
Serve(r) ==
  /\ r.result = "pending"
  /\ \/ Takes(r.device, r.version)
     \/ /\ failed' \in {failed, [failed EXCEPT ![r.device] = TRUE]}
        /\ UNCHANGED << flashed, reported, staged >>
  /\ \/ r.owner = None /\ requests' = requests \ {r}
     \/ /\ r.owner # None
        /\ \E result \in {"ok", "failed"} :
             requests' = (requests \ {r}) \cup {[r EXCEPT !.result = result]}
  /\ UNCHANGED << boot, files, pc, locals >>

OtherClient(d, v) ==
  /\ Takes(d, v)
  /\ UNCHANGED << boot, requests, files, pc, locals >>

(* The invocation is killed; its fwupdmgr child goes on.                   *)
Kill(p) ==
  /\ pc[p] # "idle"
  /\ Exit(p)
  /\ LET orphaned(r) == [r EXCEPT !.owner = None]
         running == {r \in requests : r.owner = p /\ r.result = "pending"}
     IN requests' = {r \in requests : r.owner # p} \cup {orphaned(r) : r \in running}
  /\ UNCHANGED << boot, flashed, reported, staged, failed, journal, durable >>

(* A boot ends every process and applies, or drops, what was staged.       *)
Boot ==
  /\ boot < MaxBoot /\ boot' = boot + 1
  /\ lock' = None /\ requests' = {}
  /\ pc' = [p \in Process |-> "idle"] /\ phase' = [p \in Process |-> "submitting"]
  /\ version' = [p \in Process |-> 1] /\ seen' = version'
  /\ \E applied \in SUBSET {d \in Device : staged[d] # None} :
       /\ flashed' = [d \in Device |-> IF d \in applied THEN staged[d] ELSE flashed[d]]
       /\ failed' = [d \in Device |-> d \notin applied /\ (failed[d] \/ staged[d] # None)]
  /\ reported' = flashed'
  /\ staged' = [d \in Device |-> None]
  /\ UNCHANGED device

Reboot == Boot /\ durable' = journal /\ UNCHANGED journal
LosePower == PowerLoss /\ Boot /\ journal' = durable /\ UNCHANGED durable

------------------------------------------------------------------------------
Submit(p) ==
  \/ CheckJournal(p) \/ Archive(p) \/ PlanDevice(p) \/ PlanUpdates(p) \/ WriteIntent(p)
  \/ Invoke(p) \/ Answer(p) \/ RecordResult(p) \/ Requery(p) \/ RecordVerification(p)

ServeSome == \E r \in requests : Serve(r)

Next ==
  \/ \E p \in Process : \/ Submit(p)
                       \/ Kill(p)
                       \/ \E d \in Device, v \in Version : Start(p, d, v)
  \/ ServeSome
  \/ \E d \in Shared, v \in Version : OtherClient(d, v)
  \/ Reboot
  \/ LosePower

Spec == Init /\ [][Next]_vars
FairSpec == Spec /\ (\A p \in Process : WF_vars(Submit(p))) /\ WF_vars(ServeSome)

------------------------------------------------------------------------------
(* Every variable has its type.                                            *)
TypeOK ==
  /\ boot \in Nat
  /\ flashed \in [Device -> Version] /\ reported \in [Device -> Version]
  /\ staged \in [Device -> Version \cup {None}] /\ failed \in [Device -> BOOLEAN]
  /\ requests \subseteq Request
  /\ lock \in Process \cup {None}
  /\ journal \in [Device -> Transaction \cup {None}]
  /\ durable \in [Device -> Transaction \cup {None}]
  /\ pc \in [Process -> PC]
  /\ device \in [Process -> Device] /\ version \in [Process -> Version]
  /\ seen \in [Process -> Version] /\ phase \in [Process -> Phase]

Owned == Device \ Shared    \* devices only Cognac updates

(***************************************************************************)
(* "Commit intent before issuing a potentially irreversible update         *)
(* request" (line 361): whatever was killed or rebooted in between, the    *)
(* journal names the version of every request fwupd may still carry out.   *)
(***************************************************************************)
IntentCoversRequests ==
  \A r \in requests : r.device \in Owned =>
    journal[r.device] # None /\ journal[r.device].version = r.version

(***************************************************************************)
(* Two install requests for one device are never in flight together, the   *)
(* orphan of a killed invocation included.                                 *)
(***************************************************************************)
AtMostOneInFlight ==
  \A r, s \in requests : r.device \in Owned /\ r.device = s.device => r = s

(***************************************************************************)
(* A transaction the journal calls verified runs: no exit status, early    *)
(* version report or reboot alone makes it so.                             *)
(***************************************************************************)
VerifiedIsApplied ==
  \A d \in Owned : journal[d] # None /\ journal[d].phase = "verified" =>
    flashed[d] = journal[d].version

(***************************************************************************)
(* docs/firmware.md: "An uncertain submission is never automatically       *)
(* retried."  A journaled intent is only replaced by another when the      *)
(* version it names runs.                                                  *)
(***************************************************************************)
NeverResubmitted ==
  [][\A d \in Owned :
       journal[d] # None /\ journal'[d] # None
       /\ journal'[d].phase = "submitting" /\ journal'[d] # journal[d]
       => flashed[d] = journal[d].version]_vars

(***************************************************************************)
(* The journal keeps the promise of UpdateLedger for the owned devices.    *)
(***************************************************************************)
Ledger == INSTANCE UpdateLedger WITH
  Device <- Owned,
  intent <- [d \in Owned |-> IF journal[d] = None THEN None ELSE journal[d].version],
  running <- [d \in Owned |-> flashed[d]]

LedgerKept == Ledger!LedgerSpec

(***************************************************************************)
(* The lock is always given back, so an operation that was refused as busy *)
(* can be repeated.                                                        *)
(***************************************************************************)
LockReleased == \A p \in Process : lock = p ~> lock # p

------------------------------------------------------------------------------
(***************************************************************************)
(* Why these hold: the inductive invariant.  The lock makes its holder the *)
(* only writer of the journal; a request, and an update staged by one, has *)
(* the version and the boot of the journaled transaction; and an           *)
(* invocation that passed the check of the journal found a device on which *)
(* nothing is under way any more.                                          *)
(***************************************************************************)
OneHolder == \A p \in Process : pc[p] # "idle" => lock = p

RequestsOwned ==
  \A r \in requests :
    /\ r.owner = None => r.result = "pending"
    /\ r.owner # None =>
         /\ pc[r.owner] = "waiting"
         /\ device[r.owner] = r.device /\ version[r.owner] = r.version
         /\ \A s \in requests : s.owner = r.owner => s = r

Journaled(d, v) == journal[d] # None /\ journal[d].version = v /\ journal[d].boot = boot

RequestsJournaled ==
  \A r \in requests : r.device \in Owned =>
    /\ Journaled(r.device, r.version)
    /\ r.result = "pending" => r.version > flashed[r.device]

StagedJournaled ==
  \A d \in Device :
    /\ staged[d] # None => d \in Deferred /\ (d \in Owned => Journaled(d, staged[d]))
    /\ staged[d] = None => reported[d] = flashed[d]

WritersJournaled ==
  \A p \in Process : pc[p] \in {"invoke", "waiting", "record", "requery", "conclude"} =>
    Journaled(device[p], version[p])

Quiet(d) == staged[d] = None /\ \A r \in requests : r.device # d

PlannersSettled ==
  \A p \in Process :
    pc[p] \in {"archive", "plan", "updates", "intend", "invoke"} /\ device[p] \in Owned =>
      /\ Quiet(device[p])
      /\ pc[p] # "invoke" /\ journal[device[p]] # None =>
           flashed[device[p]] = journal[device[p]].version
      /\ pc[p] \in {"intend", "invoke"} => version[p] > flashed[device[p]]

PhasesKept ==
  \A p \in Process :
    /\ pc[p] = "record" => phase[p] \in {"submitted", "submission-unknown"}
    /\ pc[p] = "conclude" =>
         /\ phase[p] # "submitting"
         /\ phase[p] = "verified" /\ device[p] \in Owned => flashed[device[p]] = version[p]

FlashInv ==
  /\ OneHolder
  /\ RequestsOwned
  /\ RequestsJournaled
  /\ StagedJournaled
  /\ WritersJournaled
  /\ PlannersSettled
  /\ PhasesKept
  /\ AtMostOneInFlight
  /\ PowerLoss \/ VerifiedIsApplied

------------------------------------------------------------------------------
(***************************************************************************)
(* docs/firmware.md:85, "An exclusive process lock and persistent journal  *)
(* record intent before submission": a version that runs beyond the first  *)
(* was journaled, also after a power loss.                                 *)
(***************************************************************************)
IntentPersists == \A d \in Owned : flashed[d] > 1 => journal[d] # None
==============================================================================
