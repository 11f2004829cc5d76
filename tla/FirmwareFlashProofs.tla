-------------------------- MODULE FirmwareFlashProofs --------------------------
(***************************************************************************)
(* Theorems about FirmwareFlash, for any number of invocations, devices,   *)
(* versions and boots.                                                     *)
(***************************************************************************)
EXTENDS FirmwareFlash, TLAPS

USE DEF Version

(***************************************************************************)
(* Every step keeps the types.                                             *)
(***************************************************************************)
LEMMA InitTypes == Init => TypeOK
BY FlashAssumption DEF Init, TypeOK, PC, Phase

LEMMA StartTypes ==
  ASSUME NEW p \in Process, NEW d \in Device, NEW v \in Version, TypeOK, Start(p, d, v)
  PROVE  TypeOK'
BY FlashAssumption DEF TypeOK, Start, Goto, machine, PC

InvocationTypes ==
  /\ lock \in Process \cup {None}
  /\ pc \in [Process -> PC]
  /\ device \in [Process -> Device] /\ version \in [Process -> Version]
  /\ seen \in [Process -> Version] /\ phase \in [Process -> Phase]

LEMMA ExitTypes ==
  ASSUME NEW p \in Process, TypeOK, Exit(p)
  PROVE  InvocationTypes'
BY FlashAssumption DEF TypeOK, Exit, Goto, PC, Phase, InvocationTypes

LEMMA WriteTypes ==
  ASSUME NEW d \in Device, NEW t \in Transaction, TypeOK, WriteJournal(d, t)
  PROVE  /\ journal' \in [Device -> Transaction \cup {None}]
         /\ durable' \in [Device -> Transaction \cup {None}]
BY DEF TypeOK, WriteJournal

LEMMA VerificationTypes ==
  ASSUME NEW d \in Device, NEW t \in Transaction PROVE Verification(d, t) \in Phase
BY DEF Verification, Phase

(* In the transaction an invocation holds only the phase differs from the  *)
(* journal's.                                                              *)
LEMMA RecordedTypes ==
  ASSUME NEW p \in Process, TypeOK, journal[device[p]] # None
  PROVE  Recorded(p) \in Transaction
<1>1. journal[device[p]] \in Transaction /\ phase[p] \in Phase
  BY DEF TypeOK
<1> QED BY <1>1 DEF Recorded, Transaction

LEMMA SubmitTypes ==
  ASSUME NEW p \in Process, TypeOK, WritersJournaled, Submit(p)
  PROVE  TypeOK'
<1>1. InvocationTypes'
  <2> USE DEF InvocationTypes, TypeOK, files, locals, Goto, PC, Phase
  <2>1. CASE Exit(p)
    BY <2>1, ExitTypes
  <2>2. CASE CheckJournal(p) \/ Archive(p) \/ PlanDevice(p) \/ PlanUpdates(p)
    BY <2>1, <2>2 DEF CheckJournal, Archive, PlanDevice, PlanUpdates
  <2>3. CASE WriteIntent(p) \/ Invoke(p) \/ Answer(p)
    BY <2>1, <2>3 DEF WriteIntent, Invoke, Answer
  <2>4. CASE RecordResult(p) \/ RecordVerification(p)
    BY <2>1, <2>4 DEF RecordResult, RecordVerification
  <2>5. CASE Requery(p)
    <3>1. Recorded(p) \in Transaction
      BY <2>5, RecordedTypes DEF Requery, Holds, WritersJournaled, Journaled
    <3>2. Verification(device[p], Recorded(p)) \in Phase
      BY <3>1, VerificationTypes
    <3> QED BY <2>1, <2>5, <3>2 DEF Requery
  <2> QED BY <2>2, <2>3, <2>4, <2>5 DEF Submit
<1>2. journal' \in [Device -> Transaction \cup {None}]
      /\ durable' \in [Device -> Transaction \cup {None}]
  <2>1. CASE WriteIntent(p)
    <3>1. [version |-> version[p], boot |-> boot, phase |-> "submitting"] \in Transaction
      BY DEF TypeOK, Transaction, Phase
    <3> QED BY <2>1, <3>1, WriteTypes DEF WriteIntent, TypeOK
  <2>2. CASE RecordResult(p) \/ RecordVerification(p)
    <3>1. Recorded(p) \in Transaction /\ device[p] \in Device
      BY <2>2, RecordedTypes
      DEF RecordResult, RecordVerification, Holds, WritersJournaled, Journaled, TypeOK
    <3> QED BY <2>2, <3>1, WriteTypes DEF RecordResult, RecordVerification, TypeOK
  <2>3. CASE UNCHANGED << journal, durable >>
    BY <2>3 DEF TypeOK
  <2> QED BY <2>1, <2>2, <2>3
      DEF Submit, CheckJournal, Archive, PlanDevice, PlanUpdates, Invoke, Answer, Requery,
          files
<1>3. boot' = boot /\ UNCHANGED << flashed, reported, staged, failed >>
  BY DEF Submit, CheckJournal, Archive, PlanDevice, PlanUpdates, WriteIntent, Invoke, Answer,
         RecordResult, Requery, RecordVerification, machine
<1>4. requests' \subseteq Request
  <2>1. InFlight(p, "pending") \in Request
    BY DEF InFlight, Request, Result, TypeOK
  <2>2. requests' \subseteq requests \cup {InFlight(p, "pending")}
    BY DEF Submit, CheckJournal, Archive, PlanDevice, PlanUpdates, WriteIntent, Invoke,
           Answer, RecordResult, Requery, RecordVerification, machine
  <2> QED BY <2>1, <2>2 DEF TypeOK
<1> QED BY <1>1, <1>2, <1>3, <1>4 DEF TypeOK, InvocationTypes

LEMMA TakesTypes ==
  ASSUME NEW d \in Device, NEW v \in Version, TypeOK, Takes(d, v)
  PROVE  /\ flashed' \in [Device -> Version] /\ reported' \in [Device -> Version]
         /\ staged' \in [Device -> Version \cup {None}] /\ failed' \in [Device -> BOOLEAN]
BY DEF TypeOK, Takes

LEMMA WorldTypes ==
  ASSUME TypeOK
  PROVE  /\ ServeSome => TypeOK'
         /\ \A d \in Device, v \in Version : OtherClient(d, v) => TypeOK'
         /\ \A p \in Process : Kill(p) => TypeOK'
         /\ Reboot \/ LosePower => TypeOK'
<1> USE DEF machine, files, locals
<1>1. ASSUME NEW r \in requests, Serve(r) PROVE TypeOK'
  <2>1. r \in Request
    BY DEF TypeOK
  <2>2. r.device \in Device /\ r.version \in Version
    BY <2>1 DEF Request
  <2>3. \A result \in {"ok", "failed"} : [r EXCEPT !.result = result] \in Request
    BY <2>1 DEF Request, Result
  <2>4. requests' \subseteq Request
    BY <1>1, <2>3 DEF Serve, TypeOK
  <2>5. /\ flashed' \in [Device -> Version] /\ reported' \in [Device -> Version]
        /\ staged' \in [Device -> Version \cup {None}] /\ failed' \in [Device -> BOOLEAN]
    <3>1. CASE Takes(r.device, r.version)
      BY <3>1, <2>2, TakesTypes
    <3>2. CASE failed' \in {failed, [failed EXCEPT ![r.device] = TRUE]}
               /\ UNCHANGED << flashed, reported, staged >>
      BY <3>2 DEF TypeOK
    <3> QED BY <1>1, <3>1, <3>2 DEF Serve
  <2> QED BY <1>1, <2>4, <2>5 DEF Serve, TypeOK
<1>2. ASSUME NEW d \in Device, NEW v \in Version, OtherClient(d, v) PROVE TypeOK'
  BY <1>2, TakesTypes DEF OtherClient, TypeOK
<1>3. ASSUME NEW p \in Process, Kill(p) PROVE TypeOK'
  <2>1. \A r \in requests : [r EXCEPT !.owner = None] \in Request
    BY DEF TypeOK, Request
  <2>2. requests' \subseteq Request
    BY <1>3, <2>1 DEF Kill, TypeOK
  <2>3. InvocationTypes'
    BY <1>3, ExitTypes DEF Kill
  <2> QED BY <1>3, <2>2, <2>3 DEF Kill, TypeOK, InvocationTypes
<1>4. ASSUME Reboot \/ LosePower PROVE TypeOK'
  <2>1. Boot
    BY <1>4 DEF Reboot, LosePower
  <2>2. PICK applied \in SUBSET {d \in Device : staged[d] # None} :
          /\ flashed' = [d \in Device |-> IF d \in applied THEN staged[d] ELSE flashed[d]]
          /\ failed' = [d \in Device |-> d \notin applied /\ (failed[d] \/ staged[d] # None)]
    BY <2>1 DEF Boot
  <2>3. flashed' \in [Device -> Version] /\ reported' \in [Device -> Version]
    BY <2>1, <2>2 DEF Boot, TypeOK
  <2>4. failed' \in [Device -> BOOLEAN]
    BY <2>2
  <2>5. boot' \in Nat /\ InvocationTypes'
    BY <2>1, FlashAssumption DEF Boot, TypeOK, InvocationTypes, PC, Phase
  <2>6. journal' \in [Device -> Transaction \cup {None}]
        /\ durable' \in [Device -> Transaction \cup {None}]
    BY <1>4 DEF Reboot, LosePower, TypeOK
  <2> QED BY <2>1, <2>3, <2>4, <2>5, <2>6 DEF Boot, TypeOK, InvocationTypes
<1> QED BY <1>1, <1>2, <1>3, <1>4 DEF ServeSome

LEMMA NextTypes == TypeOK /\ WritersJournaled /\ [Next]_vars => TypeOK'
<1> SUFFICES ASSUME TypeOK, WritersJournaled, [Next]_vars PROVE TypeOK'
  OBVIOUS
<1>1. CASE UNCHANGED vars
  BY <1>1 DEF vars, machine, files, locals, TypeOK
<1>2. CASE Next
  BY <1>2, StartTypes, SubmitTypes, WorldTypes, FlashAssumption DEF Next
<1> QED BY <1>1, <1>2

(***************************************************************************)
(* The initial state satisfies the invariant.                              *)
(***************************************************************************)
LEMMA InitInv == Init => FlashInv
<1> SUFFICES ASSUME Init PROVE FlashInv
  OBVIOUS
<1>1. /\ OneHolder /\ WritersJournaled /\ PlannersSettled /\ PhasesKept
  BY DEF Init, OneHolder, WritersJournaled, PlannersSettled, PhasesKept
<1>2. RequestsOwned /\ RequestsJournaled /\ AtMostOneInFlight
  BY DEF Init, RequestsOwned, RequestsJournaled, AtMostOneInFlight
<1>3. StagedJournaled /\ VerifiedIsApplied
  BY DEF Init, StagedJournaled, VerifiedIsApplied, Owned
<1> QED BY <1>1, <1>2, <1>3 DEF FlashInv

(***************************************************************************)
(* The lock at work: when its holder steps, every other invocation is      *)
(* idle, and when it leaves, all are.                                      *)
(***************************************************************************)
LEMMA HolderSteps ==
  ASSUME NEW p \in Process, NEW next \in PC, TypeOK, OneHolder,
         pc[p] # "idle", Goto(p, next), lock' = lock
  PROVE  /\ OneHolder'
         /\ pc'[p] = next
         /\ \A q \in Process : q # p => pc[q] = "idle" /\ pc'[q] = "idle"
BY DEF TypeOK, OneHolder, Goto

LEMMA HolderLeaves ==
  ASSUME NEW p \in Process, TypeOK, OneHolder, pc[p] # "idle", Exit(p)
  PROVE  /\ \A q \in Process : pc'[q] = "idle"
         /\ OneHolder' /\ WritersJournaled' /\ PlannersSettled' /\ PhasesKept'
<1>1. \A q \in Process : pc'[q] = "idle"
  BY DEF TypeOK, OneHolder, Exit, Goto
<1> QED BY <1>1 DEF OneHolder, WritersJournaled, PlannersSettled, PhasesKept

(* What is said of the machine and the journal alone survives a step that  *)
(* changes neither.                                                        *)
WorldInv == RequestsJournaled /\ StagedJournaled /\ AtMostOneInFlight
            /\ (PowerLoss \/ VerifiedIsApplied)

LEMMA WorldKept == WorldInv /\ UNCHANGED << machine, journal >> => WorldInv'
BY DEF WorldInv, RequestsJournaled, StagedJournaled, AtMostOneInFlight, VerifiedIsApplied,
       Journaled, Owned, machine

(* A request only depends on the step of the invocation that waits for it. *)
LEMMA OwnersKept ==
  ASSUME NEW p \in Process, TypeOK, RequestsOwned, requests' = requests,
         pc[p] # "waiting",
         \A q \in Process : q # p => /\ pc'[q] = pc[q] \/ pc[q] # "waiting"
                                    /\ device'[q] = device[q] /\ version'[q] = version[q]
  PROVE  RequestsOwned'
BY DEF RequestsOwned, TypeOK, Request

------------------------------------------------------------------------------
(***************************************************************************)
(* An invocation that found the transaction verified finds a quiet device  *)
(* that runs the journaled version.                                        *)
(***************************************************************************)
LEMMA SettledIsQuiet ==
  ASSUME NEW p \in Process, TypeOK, FlashInv, Holds(p, "check"), device[p] \in Owned,
         journal[device[p]] # None => Verification(device[p], journal[device[p]]) = "verified"
  PROVE  /\ Quiet(device[p])
         /\ journal[device[p]] # None =>
              flashed[device[p]] = journal[device[p]].version
<1> DEFINE d == device[p]
<1>1. d \in Device /\ d \in Owned
  BY DEF TypeOK
<1>2. \A r \in requests : r.owner = None /\ r.result = "pending"
  BY FlashAssumption DEF FlashInv, RequestsOwned, OneHolder, Holds, TypeOK, Request
<1>3. CASE journal[d] = None
  BY <1>1, <1>3 DEF FlashInv, Quiet, RequestsJournaled, StagedJournaled, Journaled
<1>4. CASE journal[d] # None
  <2>1. reported[d] = journal[d].version /\ (d \in Deferred => journal[d].boot # boot)
    BY <1>4 DEF Verification
  <2>2. staged[d] = None
    BY <1>1, <2>1 DEF FlashInv, StagedJournaled, Journaled
  <2>3. flashed[d] = journal[d].version
    BY <1>1, <2>1, <2>2 DEF FlashInv, StagedJournaled
  <2>4. ASSUME NEW r \in requests, r.device = d PROVE FALSE
    <3>1. r.version = journal[d].version /\ r.version > flashed[d]
      BY <1>1, <1>2, <2>4 DEF FlashInv, RequestsJournaled, Journaled
    <3>2. flashed[d] \in Nat
      BY <1>1, FlashAssumption DEF TypeOK
    <3> QED BY <2>3, <3>1, <3>2
  <2> QED BY <1>4, <2>2, <2>3, <2>4 DEF Quiet
<1> QED BY <1>3, <1>4

------------------------------------------------------------------------------
(***************************************************************************)
(* One lemma per action: it keeps the invariant.                           *)
(***************************************************************************)
LEMMA StartInv ==
  ASSUME NEW p \in Process, NEW d \in Device, NEW v \in Version, TypeOK, FlashInv,
         Start(p, d, v)
  PROVE  FlashInv'
<1> USE DEF FlashInv
<1>1. pc[p] = "idle" /\ pc'[p] \in {"idle", "check"}
  BY DEF Start, Goto, TypeOK
<1>2. \A q \in Process : q # p => /\ pc'[q] = pc[q] /\ device'[q] = device[q]
                                 /\ version'[q] = version[q] /\ phase'[q] = phase[q]
  BY DEF Start, Goto, TypeOK
<1>3. WorldInv' /\ OneHolder'
  BY <1>1, <1>2, WorldKept, FlashAssumption DEF WorldInv, OneHolder, Start, TypeOK
<1>4. RequestsOwned'
  BY <1>1, <1>2, OwnersKept DEF Start, machine
<1>5. WritersJournaled' /\ PhasesKept'
  <2>1. \A q \in Process : pc'[q] \notin {"idle", "check"} => q # p
    BY <1>1
  <2>2. UNCHANGED << boot, flashed, journal >>
    BY DEF Start, machine
  <2>3. WritersJournaled'
    BY <1>2, <2>1, <2>2 DEF WritersJournaled, Journaled
  <2> QED BY <1>2, <2>1, <2>2, <2>3 DEF PhasesKept
<1>6. PlannersSettled'
  <2>1. \A q \in Process : pc'[q] \notin {"idle", "check"} => q # p
    BY <1>1
  <2>2. UNCHANGED << flashed, staged, requests, journal >>
    BY DEF Start, machine
  <2> QED BY <1>2, <2>1, <2>2 DEF PlannersSettled, Quiet
<1> QED BY <1>3, <1>4, <1>5, <1>6 DEF WorldInv

LEMMA OthersKept ==
  ASSUME NEW p \in Process, TypeOK, Exit(p)
  PROVE  \A q \in Process : q # p => device'[q] = device[q] /\ version'[q] = version[q]
BY DEF Exit, TypeOK

(* An invocation that leaves, its last write to the journal included.      *)
LEMMA LeaveInv ==
  ASSUME NEW p \in Process, TypeOK, FlashInv, pc[p] \notin {"idle", "waiting"},
         Exit(p), UNCHANGED machine, UNCHANGED journal \/ WorldInv'
  PROVE  FlashInv'
<1> USE DEF FlashInv
<1>1. WorldInv'
  BY WorldKept DEF WorldInv
<1>2. /\ \A q \in Process : pc'[q] = "idle"
      /\ OneHolder' /\ WritersJournaled' /\ PlannersSettled' /\ PhasesKept'
  BY HolderLeaves
<1>3. \A q \in Process : pc[q] # "waiting"
  BY FlashAssumption DEF OneHolder
<1>4. \A q \in Process : q # p => device'[q] = device[q] /\ version'[q] = version[q]
  BY DEF Exit, TypeOK
<1>5. RequestsOwned'
  BY <1>2, <1>3, <1>4, OwnersKept DEF machine
<1> QED BY <1>1, <1>2, <1>5 DEF WorldInv

LEMMA CheckJournalInv ==
  ASSUME NEW p \in Process, TypeOK, FlashInv, CheckJournal(p)
  PROVE  FlashInv'
<1> USE DEF FlashInv, Holds
<1>1. WorldInv'
  BY WorldKept DEF WorldInv, CheckJournal
<1>2. CASE /\ journal[device[p]] # None => Verification(device[p], journal[device[p]]) = "verified"
           /\ Goto(p, IF journal[device[p]] = None THEN "plan" ELSE "archive")
           /\ UNCHANGED << lock, locals >>
  <2>1. PICK next \in {"plan", "archive"} : Goto(p, next)
    BY <1>2
  <2>2. /\ OneHolder' /\ pc'[p] = next
        /\ \A q \in Process : q # p => pc[q] = "idle" /\ pc'[q] = "idle"
    BY <1>2, <2>1, HolderSteps DEF CheckJournal, PC
  <2>3. RequestsOwned'
    BY <1>2, <2>2, OwnersKept DEF CheckJournal, machine, locals
  <2>4. WritersJournaled' /\ PhasesKept'
    BY <2>2 DEF WritersJournaled, PhasesKept
  <2>5. PlannersSettled'
    BY <1>2, <2>2, SettledIsQuiet DEF PlannersSettled, Quiet, CheckJournal, machine, locals
  <2> QED BY <1>1, <2>2, <2>3, <2>4, <2>5 DEF WorldInv
<1>3. CASE Exit(p)
  BY <1>3, LeaveInv DEF CheckJournal
<1> QED BY <1>2, <1>3 DEF CheckJournal

LEMMA ArchiveInv ==
  ASSUME NEW p \in Process, TypeOK, FlashInv, Archive(p)
  PROVE  FlashInv'
<1> USE DEF Holds
<1>1. CASE Goto(p, "plan") /\ UNCHANGED << lock, locals >>
  <2> USE DEF FlashInv
  <2>1. WorldInv'
    BY WorldKept DEF WorldInv, Archive
  <2>2. /\ OneHolder' /\ pc'[p] = "plan"
        /\ \A q \in Process : q # p => pc[q] = "idle" /\ pc'[q] = "idle"
    BY <1>1, HolderSteps DEF Archive, PC
  <2>3. RequestsOwned'
    BY <1>1, <2>2, OwnersKept DEF Archive, machine, locals
  <2>4. WritersJournaled' /\ PhasesKept'
    BY <2>2 DEF WritersJournaled, PhasesKept
  <2>5. PlannersSettled'
    BY <1>1, <2>2 DEF PlannersSettled, Quiet, Archive, machine, locals
  <2> QED BY <2>1, <2>2, <2>3, <2>4, <2>5 DEF WorldInv
<1>2. CASE Exit(p)
  BY <1>2, LeaveInv DEF Archive
<1> QED BY <1>1, <1>2 DEF Archive

LEMMA PlanDeviceInv ==
  ASSUME NEW p \in Process, TypeOK, FlashInv, PlanDevice(p)
  PROVE  FlashInv'
<1> USE DEF Holds
<1>1. CASE Goto(p, "updates") /\ UNCHANGED << lock, device, version, phase >>
  <2> USE DEF FlashInv
  <2>1. WorldInv'
    BY WorldKept DEF WorldInv, PlanDevice
  <2>2. /\ OneHolder' /\ pc'[p] = "updates"
        /\ \A q \in Process : q # p => pc[q] = "idle" /\ pc'[q] = "idle"
    BY <1>1, HolderSteps DEF PlanDevice, PC
  <2>3. RequestsOwned'
    BY <1>1, <2>2, OwnersKept DEF PlanDevice, machine
  <2>4. WritersJournaled' /\ PhasesKept'
    BY <2>2 DEF WritersJournaled, PhasesKept
  <2>5. PlannersSettled'
    BY <1>1, <2>2 DEF PlannersSettled, Quiet, PlanDevice, machine
  <2> QED BY <2>1, <2>2, <2>3, <2>4, <2>5 DEF WorldInv
<1>2. CASE Exit(p)
  BY <1>2, LeaveInv DEF PlanDevice
<1> QED BY <1>1, <1>2 DEF PlanDevice

(* Only an upgrade is offered: a quiet device reports what it runs.        *)
LEMMA PlanUpdatesInv ==
  ASSUME NEW p \in Process, TypeOK, FlashInv, PlanUpdates(p)
  PROVE  FlashInv'
<1> USE DEF Holds
<1>1. CASE /\ version[p] > reported[device[p]] /\ Goto(p, "intend")
           /\ UNCHANGED << lock, locals >>
  <2> USE DEF FlashInv
  <2>1. WorldInv'
    BY WorldKept DEF WorldInv, PlanUpdates
  <2>2. /\ OneHolder' /\ pc'[p] = "intend"
        /\ \A q \in Process : q # p => pc[q] = "idle" /\ pc'[q] = "idle"
    BY <1>1, HolderSteps DEF PlanUpdates, PC
  <2>3. RequestsOwned'
    BY <1>1, <2>2, OwnersKept DEF PlanUpdates, machine, locals
  <2>4. WritersJournaled' /\ PhasesKept'
    BY <2>2 DEF WritersJournaled, PhasesKept
  <2>5. device[p] \in Owned => version[p] > flashed[device[p]]
    BY <1>1 DEF PlanUpdates, PlannersSettled, Quiet, StagedJournaled, TypeOK
  <2>6. PlannersSettled'
    BY <1>1, <2>2, <2>5 DEF PlannersSettled, Quiet, PlanUpdates, machine, locals
  <2> QED BY <2>1, <2>2, <2>3, <2>4, <2>6 DEF WorldInv
<1>2. CASE Exit(p)
  BY <1>2, LeaveInv DEF PlanUpdates
<1> QED BY <1>1, <1>2 DEF PlanUpdates

(* The intent is written for a quiet device.                               *)
LEMMA WriteIntentInv ==
  ASSUME NEW p \in Process, TypeOK, FlashInv, WriteIntent(p)
  PROVE  FlashInv'
<1> USE DEF Holds
<1> DEFINE d == device[p]
           t == [version |-> version[p], boot |-> boot, phase |-> "submitting"]
<1>1. CASE /\ WriteJournal(d, t) /\ Goto(p, "invoke")
           /\ UNCHANGED << lock, device, version, seen >>
  <2> USE DEF FlashInv
  <2>1. d \in Device /\ t \in Transaction /\ t # None
    BY NoneAssumption DEF TypeOK, Transaction, Phase
  <2>2. journal' = [journal EXCEPT ![d] = t]
    BY <1>1 DEF WriteJournal
  <2>3. /\ OneHolder' /\ pc'[p] = "invoke"
        /\ \A q \in Process : q # p => pc[q] = "idle" /\ pc'[q] = "idle"
    BY <1>1, HolderSteps DEF WriteIntent, PC
  <2>4. RequestsOwned'
    BY <1>1, <2>3, OwnersKept DEF WriteIntent, machine
  <2>5. d \in Owned => Quiet(d)
    BY DEF PlannersSettled, WriteIntent
  <2>6. Journaled(d, version[p])'
    BY <1>1, <2>1, <2>2 DEF Journaled, TypeOK, WriteIntent, machine
  <2>7. RequestsJournaled' /\ AtMostOneInFlight'
    BY <2>2, <2>5 DEF RequestsJournaled, AtMostOneInFlight, Journaled, Quiet, Owned,
                      TypeOK, WriteIntent, machine
  <2>8. StagedJournaled'
    BY <2>2, <2>5 DEF StagedJournaled, Journaled, Quiet, Owned, TypeOK, WriteIntent, machine
  <2>9. PowerLoss \/ VerifiedIsApplied'
    BY <2>1, <2>2 DEF VerifiedIsApplied, Owned, TypeOK, WriteIntent, machine
  <2>10. WritersJournaled' /\ PhasesKept'
    <3>1. version' = version /\ device' = device
      BY <1>1
    <3> QED BY <2>3, <2>6, <3>1 DEF WritersJournaled, PhasesKept, Journaled
  <2>11. PlannersSettled'
    BY <1>1, <2>3 DEF PlannersSettled, Quiet, WriteIntent, machine
  <2> QED BY <2>3, <2>4, <2>7, <2>8, <2>9, <2>10, <2>11
<1>2. CASE Exit(p) /\ UNCHANGED << journal, durable >>
  BY <1>2, LeaveInv DEF WriteIntent
<1> QED BY <1>1, <1>2 DEF WriteIntent

LEMMA InvokeInv ==
  ASSUME NEW p \in Process, TypeOK, FlashInv, Invoke(p)
  PROVE  FlashInv'
<1> USE DEF FlashInv, Holds
<1> DEFINE r == InFlight(p, "pending")
<1>1. device[p] \in Device /\ Journaled(device[p], version[p])
  BY DEF TypeOK, Invoke, WritersJournaled
<1>2. device[p] \in Owned => Quiet(device[p]) /\ version[p] > flashed[device[p]]
  BY DEF PlannersSettled, Invoke
<1>3. PICK next \in {"waiting", "record"} :
        /\ Goto(p, next)
        /\ next = "waiting" => requests' = requests \cup {r}
        /\ next = "record" => requests' = requests /\ phase'[p] = "submission-unknown"
  BY DEF Invoke, TypeOK
<1>4. /\ OneHolder' /\ pc'[p] = next
      /\ \A q \in Process : q # p => pc[q] = "idle" /\ pc'[q] = "idle"
  BY <1>3, HolderSteps DEF Invoke, PC, files
<1>5. /\ r.owner = p /\ r.device = device[p] /\ r.version = version[p]
      /\ \A s \in requests : s.owner = None
  BY <1>4 DEF InFlight, RequestsOwned, TypeOK, Request, Invoke
<1>6. UNCHANGED << boot, flashed, reported, staged, failed, journal, device, version >>
  BY DEF Invoke, files
<1>7. RequestsOwned'
  BY <1>3, <1>4, <1>5, <1>6, FlashAssumption DEF RequestsOwned
<1>8. RequestsJournaled'
  BY <1>1, <1>2, <1>3, <1>5, <1>6 DEF RequestsJournaled, Journaled
<1>9. AtMostOneInFlight'
  BY <1>2, <1>3, <1>5 DEF AtMostOneInFlight, Quiet
<1>10. StagedJournaled' /\ (PowerLoss \/ VerifiedIsApplied')
  BY <1>6 DEF StagedJournaled, VerifiedIsApplied, Journaled
<1>11. WritersJournaled'
  BY <1>1, <1>4, <1>6 DEF WritersJournaled, Journaled
<1>12. PlannersSettled' /\ PhasesKept'
  BY <1>3, <1>4 DEF PlannersSettled, PhasesKept
<1> QED BY <1>4, <1>7, <1>8, <1>9, <1>10, <1>11, <1>12

LEMMA AnswerInv ==
  ASSUME NEW p \in Process, TypeOK, FlashInv, Answer(p)
  PROVE  FlashInv'
<1> USE DEF FlashInv, Holds
<1>1. PICK result \in {"ok", "failed"} :
        /\ InFlight(p, result) \in requests
        /\ requests' = requests \ {InFlight(p, result)}
        /\ phase'[p] \in {"submitted", "submission-unknown"}
  BY DEF Answer, TypeOK
<1>2. /\ OneHolder' /\ pc'[p] = "record"
      /\ \A q \in Process : q # p => pc[q] = "idle" /\ pc'[q] = "idle"
  BY HolderSteps DEF Answer, PC, files
<1>3. UNCHANGED << boot, flashed, reported, staged, failed, journal, device, version >>
  BY DEF Answer, files
<1>4. \A s \in requests' : s \in requests /\ s.owner = None
  BY <1>1, <1>2, FlashAssumption DEF RequestsOwned, InFlight, TypeOK, Request
<1>5. RequestsOwned'
  BY <1>4 DEF RequestsOwned
<1>6. RequestsJournaled' /\ AtMostOneInFlight'
  BY <1>3, <1>4 DEF RequestsJournaled, AtMostOneInFlight, Journaled
<1>7. StagedJournaled' /\ (PowerLoss \/ VerifiedIsApplied')
  BY <1>3 DEF StagedJournaled, VerifiedIsApplied, Journaled
<1>8. WritersJournaled'
  BY <1>2, <1>3 DEF WritersJournaled, Journaled, Answer
<1>9. PlannersSettled' /\ PhasesKept'
  BY <1>1, <1>2 DEF PlannersSettled, PhasesKept
<1> QED BY <1>2, <1>5, <1>6, <1>7, <1>8, <1>9

(* Writing the phase into the journal changes neither the version nor the  *)
(* boot of the transaction.                                                *)
LEMMA RecordedInv ==
  ASSUME NEW p \in Process, TypeOK, FlashInv, pc[p] \in {"record", "conclude"}, lock = p,
         WriteJournal(device[p], Recorded(p)), UNCHANGED machine,
         phase[p] = "verified" /\ device[p] \in Owned => flashed[device[p]] = version[p]
  PROVE  /\ WorldInv'
         /\ UNCHANGED << device, version >> => Journaled(device[p], version[p])'
<1> USE DEF FlashInv
<1> DEFINE d == device[p]
<1>1. d \in Device /\ Journaled(d, version[p])
  BY DEF TypeOK, WritersJournaled
<1>2. Recorded(p) \in Transaction /\ Recorded(p) # None
  BY <1>1, RecordedTypes, NoneAssumption DEF Journaled
<1>3. journal[d] \in Transaction
  BY <1>1 DEF Journaled, TypeOK
<1>4. /\ Recorded(p).version = journal[d].version /\ Recorded(p).boot = journal[d].boot
      /\ Recorded(p).phase = phase[p]
  BY <1>3 DEF Recorded, Transaction
<1>5. journal' = [journal EXCEPT ![d] = Recorded(p)]
  BY DEF WriteJournal
<1>6. /\ journal'[d] # None /\ journal'[d].version = version[p] /\ journal'[d].boot = boot
      /\ journal'[d].phase = phase[p]
  BY <1>1, <1>2, <1>4, <1>5 DEF TypeOK, Journaled
<1>7. \A e \in Device : e # d => journal'[e] = journal[e]
  BY <1>5 DEF TypeOK
<1>8. UNCHANGED << boot, flashed, reported, staged, requests >>
  BY DEF machine
<1>9. \A e \in Device : \A v : Journaled(e, v) =>
        journal'[e] # None /\ journal'[e].version = v /\ journal'[e].boot = boot'
  BY <1>1, <1>6, <1>7, <1>8 DEF Journaled
<1>10. RequestsJournaled'
  BY <1>8, <1>9 DEF RequestsJournaled, Owned, Journaled
<1>11. StagedJournaled'
  BY <1>8, <1>9 DEF StagedJournaled, Owned, Journaled
<1>12. AtMostOneInFlight'
  BY <1>8 DEF AtMostOneInFlight
<1>13. VerifiedIsApplied => VerifiedIsApplied'
  BY <1>6, <1>7, <1>8 DEF VerifiedIsApplied, Owned
<1> QED BY <1>6, <1>8, <1>10, <1>11, <1>12, <1>13 DEF WorldInv, Journaled

LEMMA RecordResultInv ==
  ASSUME NEW p \in Process, TypeOK, FlashInv, RecordResult(p)
  PROVE  FlashInv'
<1> USE DEF Holds
<1>1. phase[p] \in {"submitted", "submission-unknown"}
  BY DEF RecordResult, FlashInv, PhasesKept
<1>2. CASE /\ WriteJournal(device[p], Recorded(p)) /\ Goto(p, "requery")
           /\ UNCHANGED << lock, locals >>
  <2> USE DEF FlashInv
  <2>1. WorldInv' /\ Journaled(device[p], version[p])'
    BY <1>1, <1>2, RecordedInv DEF RecordResult, locals
  <2>2. /\ OneHolder' /\ pc'[p] = "requery"
        /\ \A q \in Process : q # p => pc[q] = "idle" /\ pc'[q] = "idle"
    BY <1>2, HolderSteps DEF RecordResult, PC
  <2>3. RequestsOwned'
    BY <1>2, <2>2, OwnersKept DEF RecordResult, machine, locals
  <2>4. WritersJournaled' /\ PhasesKept' /\ PlannersSettled'
    BY <1>2, <2>1, <2>2 DEF WritersJournaled, PhasesKept, PlannersSettled, Journaled, locals
  <2> QED BY <2>1, <2>2, <2>3, <2>4 DEF WorldInv
<1>3. CASE WriteJournal(device[p], Recorded(p)) /\ Exit(p)
  <2>1. WorldInv'
    BY <1>1, <1>3, RecordedInv DEF RecordResult
  <2> QED BY <1>3, <2>1, LeaveInv DEF RecordResult
<1>4. CASE Exit(p) /\ UNCHANGED << journal, durable >>
  BY <1>4, LeaveInv DEF RecordResult
<1> QED BY <1>2, <1>3, <1>4 DEF RecordResult

(* While the machine has not rebooted only an update that was applied at   *)
(* once can be verified.                                                   *)
LEMMA RequeryInv ==
  ASSUME NEW p \in Process, TypeOK, FlashInv, Requery(p)
  PROVE  FlashInv'
<1> USE DEF Holds
<1>1. CASE phase' = [phase EXCEPT ![p] = Verification(device[p], Recorded(p))]
           /\ Goto(p, "conclude") /\ UNCHANGED << lock, device, version, seen >>
  <2> USE DEF FlashInv
  <2> DEFINE d == device[p]
  <2>1. WorldInv'
    BY WorldKept DEF WorldInv, Requery
  <2>2. /\ OneHolder' /\ pc'[p] = "conclude"
        /\ \A q \in Process : q # p => pc[q] = "idle" /\ pc'[q] = "idle"
    BY <1>1, HolderSteps DEF Requery, PC
  <2>3. UNCHANGED << machine, journal, device, version >>
    BY <1>1 DEF Requery
  <2>4. RequestsOwned'
    BY <2>2, <2>3, OwnersKept DEF Requery, machine
  <2>5. WritersJournaled' /\ PlannersSettled'
    BY <2>2, <2>3 DEF WritersJournaled, PlannersSettled, Journaled, Requery, machine
  <2>6. d \in Device /\ Journaled(d, version[p])
    BY DEF TypeOK, Requery, WritersJournaled
  <2>7. Recorded(p).version = version[p] /\ Recorded(p).boot = boot
    BY <2>6 DEF Recorded, Journaled, TypeOK, Transaction
  <2>8. phase'[p] = Verification(d, Recorded(p))
    BY <1>1 DEF TypeOK
  <2>9. phase'[p] # "submitting"
    BY <2>8 DEF Verification
  <2>10. ASSUME phase'[p] = "verified" PROVE flashed[d] = version[p]
    <3>1. reported[d] = version[p] /\ d \notin Deferred
      BY <2>7, <2>8, <2>10 DEF Verification
    <3> QED BY <2>6, <3>1 DEF StagedJournaled
  <2>11. PhasesKept'
    <3>1. device' = device /\ version' = version /\ flashed' = flashed
      BY <2>3 DEF machine
    <3> QED BY <2>2, <2>9, <2>10, <3>1 DEF PhasesKept
  <2> QED BY <2>1, <2>2, <2>4, <2>5, <2>11 DEF WorldInv
<1>2. CASE Exit(p)
  BY <1>2, LeaveInv DEF Requery
<1> QED BY <1>1, <1>2 DEF Requery

LEMMA RecordVerificationInv ==
  ASSUME NEW p \in Process, TypeOK, FlashInv, RecordVerification(p)
  PROVE  FlashInv'
<1> USE DEF Holds
<1>1. CASE WriteJournal(device[p], Recorded(p))
  <2>1. WorldInv'
    BY <1>1, RecordedInv DEF RecordVerification, FlashInv, PhasesKept
  <2> QED BY <2>1, LeaveInv DEF RecordVerification
<1>2. CASE UNCHANGED << journal, durable >>
  BY <1>2, LeaveInv DEF RecordVerification
<1> QED BY <1>1, <1>2 DEF RecordVerification

LEMMA SubmitInv ==
  ASSUME NEW p \in Process, TypeOK, FlashInv, Submit(p)
  PROVE  FlashInv'
BY CheckJournalInv, ArchiveInv, PlanDeviceInv, PlanUpdatesInv, WriteIntentInv, InvokeInv,
   AnswerInv, RecordResultInv, RequeryInv, RecordVerificationInv DEF Submit

------------------------------------------------------------------------------
(***************************************************************************)
(* fwupd takes an update that a request of the journaled version asks for. *)
(***************************************************************************)
LEMMA ServeInv ==
  ASSUME NEW r \in requests, TypeOK, FlashInv, Serve(r)
  PROVE  FlashInv'
<1> USE DEF FlashInv
<1> DEFINE d == r.device
           v == r.version
           Old(s) == s \in requests /\ s # r
<1>1. d \in Device /\ v \in Version /\ r \in Request
  BY DEF TypeOK, Request
<1>2. UNCHANGED << boot, journal, lock, pc, device, version, phase >>
  BY DEF Serve, files, locals
<1>3. \A s \in requests' :
        \/ Old(s)
        \/ /\ s.owner = r.owner /\ r.owner # None /\ s.device = d /\ s.version = v
           /\ s.result \in {"ok", "failed"}
  BY <1>1 DEF Serve, Request
<1>4. \A s, t \in requests' : ~Old(s) /\ ~Old(t) => s = t
  BY DEF Serve
<1>5. d \in Owned => Journaled(d, v) /\ v > flashed[d]
  BY DEF RequestsJournaled, Serve
<1>6. /\ \A e \in Device : flashed'[e] = flashed[e] \/ (e = d /\ flashed'[e] = v)
      /\ \A e \in Device : staged'[e] = staged[e] \/ (e = d /\ staged'[e] = v /\ d \in Deferred)
      /\ \A e \in Device : staged'[e] = None => reported'[e] = flashed'[e]
  <2>1. CASE Takes(d, v) /\ d \in Deferred
    BY <1>1, <2>1, NoneAssumption DEF Takes, TypeOK, StagedJournaled
  <2>2. CASE Takes(d, v) /\ d \notin Deferred
    BY <1>1, <2>2 DEF Takes, TypeOK, StagedJournaled
  <2>3. CASE UNCHANGED << flashed, reported, staged >>
    BY <2>3 DEF StagedJournaled
  <2> QED BY <2>1, <2>2, <2>3 DEF Serve
<1>7. OneHolder'
  BY <1>2 DEF OneHolder
<1>8. RequestsOwned'
  <2>1. ASSUME NEW s \in requests' PROVE s.owner = None => s.result = "pending"
    BY <1>3, <2>1 DEF RequestsOwned
  <2>2. ASSUME NEW s \in requests', s.owner # None
        PROVE  /\ pc[s.owner] = "waiting"
               /\ device[s.owner] = s.device /\ version[s.owner] = s.version
    BY <1>3, <2>2 DEF RequestsOwned
  <2>3. ASSUME NEW s \in requests', NEW t \in requests', s.owner # None, t.owner = s.owner
        PROVE  t = s
    <3>1. CASE Old(s) /\ Old(t)
      BY <2>3, <3>1 DEF RequestsOwned
    <3>2. CASE Old(s) /\ ~Old(t)
      <4>1. t.owner = r.owner
        BY <1>3, <3>2
      <4> QED BY <2>3, <3>2, <4>1 DEF RequestsOwned
    <3>3. CASE ~Old(s) /\ Old(t)
      <4>1. s.owner = r.owner
        BY <1>3, <3>3
      <4> QED BY <2>3, <3>3, <4>1 DEF RequestsOwned
    <3> QED BY <1>4, <3>1, <3>2, <3>3
  <2> QED BY <1>2, <2>1, <2>2, <2>3 DEF RequestsOwned
<1>9. AtMostOneInFlight'
  <2>1. ASSUME NEW s \in requests', NEW t \in requests', s.device \in Owned, t.device = s.device
        PROVE  s = t
    <3>1. CASE Old(s) /\ Old(t)
      BY <2>1, <3>1 DEF AtMostOneInFlight
    <3>2. CASE Old(s) /\ ~Old(t)
      BY <1>3, <2>1, <3>2 DEF AtMostOneInFlight
    <3>3. CASE ~Old(s) /\ Old(t)
      BY <1>3, <2>1, <3>3 DEF AtMostOneInFlight
    <3> QED BY <1>4, <3>1, <3>2, <3>3
  <2> QED BY <2>1 DEF AtMostOneInFlight
<1>10. RequestsJournaled'
  <2>1. ASSUME NEW s \in requests', s.device \in Owned
        PROVE  /\ Journaled(s.device, s.version)
               /\ s.result = "pending" => s.version > flashed'[s.device]
    <3>1. CASE s \in requests /\ s # r
      <4>1. s.device \in Device /\ s.device # d
        BY <2>1, <3>1 DEF AtMostOneInFlight, Owned
      <4> QED BY <1>6, <2>1, <3>1, <4>1 DEF RequestsJournaled
    <3>2. CASE ~(s \in requests /\ s # r)
      BY <1>3, <1>5, <2>1, <3>2
    <3> QED BY <3>1, <3>2
  <2> QED BY <1>2, <2>1 DEF RequestsJournaled, Journaled
<1>11. StagedJournaled'
  BY <1>2, <1>5, <1>6 DEF StagedJournaled, Journaled
<1>12. VerifiedIsApplied => VerifiedIsApplied'
  <2>1. \A e \in Owned : e \in Device
    BY DEF Owned
  <2> QED BY <1>2, <1>5, <1>6, <2>1 DEF VerifiedIsApplied, Journaled
<1>13. WritersJournaled'
  BY <1>2 DEF WritersJournaled, Journaled
<1>14. PlannersSettled'
  <2>1. ASSUME NEW q \in Process, device[q] \in Owned,
               pc[q] \in {"archive", "plan", "updates", "intend", "invoke"}
        PROVE  /\ device[q] # d /\ device[q] \in Device
               /\ Quiet(device[q])' /\ flashed'[device[q]] = flashed[device[q]]
    <3>1. device[q] # d /\ device[q] \in Device
      BY <2>1 DEF PlannersSettled, Quiet, Owned
    <3>2. staged[device[q]] = None /\ \A s \in requests : s.device # device[q]
      BY <2>1 DEF PlannersSettled, Quiet
    <3>3. staged'[device[q]] = None /\ \A s \in requests' : s.device # device[q]
      BY <1>2, <1>3, <1>6, <3>1, <3>2
    <3> QED BY <1>2, <1>6, <3>1, <3>3 DEF Quiet
  <2> QED BY <1>2, <2>1 DEF PlannersSettled
<1>15. PhasesKept'
  <2>1. \A q \in Process : pc[q] = "conclude" /\ device[q] \in Owned =>
          device[q] \in Device /\ Journaled(device[q], version[q])
    BY DEF WritersJournaled, Owned
  <2> QED BY <1>2, <1>5, <1>6, <2>1 DEF PhasesKept, Journaled
<1> QED BY <1>7, <1>8, <1>9, <1>10, <1>11, <1>12, <1>13, <1>14, <1>15

(* Another client only disturbs a device the invariant leaves open.        *)
LEMMA OtherClientInv ==
  ASSUME NEW d \in Shared, NEW v \in Version, TypeOK, FlashInv, OtherClient(d, v)
  PROVE  FlashInv'
<1> USE DEF FlashInv
<1>1. d \in Device /\ d \notin Owned
  BY FlashAssumption DEF Owned
<1>2. UNCHANGED << boot, requests, journal, lock, pc, device, version, phase >>
  BY DEF OtherClient, files, locals
<1>3. \A e \in Device : e # d => flashed'[e] = flashed[e] /\ staged'[e] = staged[e]
                               /\ reported'[e] = reported[e]
  BY DEF OtherClient, Takes, TypeOK
<1>4. /\ staged'[d] # None => d \in Deferred
      /\ staged'[d] = None => reported'[d] = flashed'[d]
  BY <1>1, NoneAssumption DEF OtherClient, Takes, TypeOK, StagedJournaled
<1>5. \A e \in Owned : e \in Device /\ e # d
  BY <1>1 DEF Owned
<1>6. OneHolder' /\ RequestsOwned' /\ WritersJournaled' /\ AtMostOneInFlight'
  BY <1>2 DEF OneHolder, RequestsOwned, WritersJournaled, AtMostOneInFlight, Journaled
<1>7. RequestsJournaled' /\ StagedJournaled'
  BY <1>2, <1>3, <1>4, <1>5 DEF RequestsJournaled, StagedJournaled, Journaled
<1>8. VerifiedIsApplied => VerifiedIsApplied'
  BY <1>2, <1>3, <1>5 DEF VerifiedIsApplied
<1>9. PlannersSettled' /\ PhasesKept'
  BY <1>2, <1>3, <1>5 DEF PlannersSettled, PhasesKept, Quiet
<1> QED BY <1>6, <1>7, <1>8, <1>9

(* The orphan of a killed invocation is still the journaled request.       *)
LEMMA KillInv ==
  ASSUME NEW p \in Process, TypeOK, FlashInv, Kill(p)
  PROVE  FlashInv'
<1> USE DEF FlashInv
<1>1. UNCHANGED << boot, flashed, reported, staged, journal >>
  BY DEF Kill
<1>2. /\ \A q \in Process : pc'[q] = "idle"
      /\ OneHolder' /\ WritersJournaled' /\ PlannersSettled' /\ PhasesKept'
  BY HolderLeaves DEF Kill
<1>3. \A s \in requests : s.owner \in {p, None}
  BY FlashAssumption DEF RequestsOwned, OneHolder, Kill, TypeOK, Request
<1>4. \A s \in requests' :
        /\ s.owner = None /\ s.result = "pending"
        /\ \E q \in requests : /\ q.device = s.device /\ q.version = s.version
                              /\ q.result = "pending"
                              /\ \/ q.owner # p /\ s = q
                                 \/ q.owner = p /\ s = [q EXCEPT !.owner = None]
  BY <1>3 DEF Kill, RequestsOwned, TypeOK, Request
<1>5. RequestsOwned'
  BY <1>4 DEF RequestsOwned
<1>6. RequestsJournaled' /\ AtMostOneInFlight'
  <2>1. RequestsJournaled'
    <3>1. ASSUME NEW s \in requests', s.device \in Owned
          PROVE  Journaled(s.device, s.version) /\ s.version > flashed[s.device]
      <4>1. PICK q \in requests : /\ q.device = s.device /\ q.version = s.version
                                 /\ q.result = "pending"
        BY <1>4
      <4> QED BY <3>1, <4>1 DEF RequestsJournaled
    <3> QED BY <1>1, <3>1 DEF RequestsJournaled, Journaled
  <2>2. ASSUME NEW s \in requests', NEW t \in requests', s.device \in Owned, t.device = s.device
        PROVE  s = t
    <3>1. PICK q \in requests : /\ q.device = s.device
                               /\ \/ q.owner # p /\ s = q
                                  \/ q.owner = p /\ s = [q EXCEPT !.owner = None]
      BY <1>4
    <3>2. PICK u \in requests : /\ u.device = t.device
                               /\ \/ u.owner # p /\ t = u
                                  \/ u.owner = p /\ t = [u EXCEPT !.owner = None]
      BY <1>4
    <3>3. q = u
      BY <2>2, <3>1, <3>2 DEF AtMostOneInFlight
    <3> QED BY <3>1, <3>2, <3>3
  <2> QED BY <2>1, <2>2 DEF AtMostOneInFlight
<1>7. StagedJournaled' /\ (PowerLoss \/ VerifiedIsApplied')
  BY <1>1 DEF StagedJournaled, VerifiedIsApplied, Journaled
<1> QED BY <1>2, <1>5, <1>6, <1>7

(* After a boot nothing is under way; what it applied was journaled.       *)
LEMMA BootInv ==
  ASSUME TypeOK, FlashInv, Reboot \/ LosePower
  PROVE  FlashInv'
<1> USE DEF FlashInv
<1>1. Boot /\ (journal' = journal \/ PowerLoss)
  BY DEF Reboot, LosePower
<1>2. /\ \A p \in Process : pc'[p] = "idle"
      /\ requests' = {} /\ staged' = [d \in Device |-> None] /\ reported' = flashed'
  BY <1>1 DEF Boot
<1>3. /\ OneHolder' /\ WritersJournaled' /\ PlannersSettled' /\ PhasesKept'
      /\ RequestsOwned' /\ RequestsJournaled' /\ AtMostOneInFlight' /\ StagedJournaled'
  BY <1>2 DEF OneHolder, WritersJournaled, PlannersSettled, PhasesKept, RequestsOwned,
              RequestsJournaled, AtMostOneInFlight, StagedJournaled
<1>4. VerifiedIsApplied /\ journal' = journal => VerifiedIsApplied'
  <2>1. \A d \in Owned : flashed'[d] = flashed[d] \/ (staged[d] # None /\ flashed'[d] = staged[d])
    BY <1>1 DEF Boot, Owned
  <2>2. \A d \in Owned : staged[d] # None => journal[d].version = staged[d]
    BY DEF StagedJournaled, Journaled, Owned
  <2> QED BY <2>1, <2>2 DEF VerifiedIsApplied
<1> QED BY <1>1, <1>3, <1>4

LEMMA NextInv == TypeOK /\ FlashInv /\ [Next]_vars => FlashInv'
<1> SUFFICES ASSUME TypeOK, FlashInv, [Next]_vars PROVE FlashInv'
  OBVIOUS
<1>1. CASE UNCHANGED vars
  BY <1>1 DEF vars, machine, files, locals, FlashInv, OneHolder, RequestsOwned,
       RequestsJournaled, StagedJournaled, WritersJournaled, PlannersSettled, PhasesKept,
       AtMostOneInFlight, VerifiedIsApplied, Journaled, Quiet
<1>2. CASE Next
  BY <1>2, StartInv, SubmitInv, ServeInv, OtherClientInv, KillInv, BootInv
     DEF Next, ServeSome
<1> QED BY <1>1, <1>2

------------------------------------------------------------------------------
(***************************************************************************)
(* Every variable of `flash-firmware`, its files and the machine keeps its *)
(* type (TypeOK).                                                          *)
(***************************************************************************)
THEOREM TypeCorrect == Spec => []TypeOK
<1>1. Init => TypeOK /\ FlashInv
  BY InitTypes, InitInv
<1>2. (TypeOK /\ FlashInv) /\ [Next]_vars => (TypeOK /\ FlashInv)'
  BY NextTypes, NextInv DEF FlashInv
<1> QED BY <1>1, <1>2, PTL DEF Spec

(***************************************************************************)
(* The journal, the requests in flight, the staged updates and the steps   *)
(* of the lock holder always agree (FlashInv, submit_with).                *)
(***************************************************************************)
THEOREM FlashSafe == Spec => []FlashInv
<1>1. Init => TypeOK /\ FlashInv
  BY InitTypes, InitInv
<1>2. (TypeOK /\ FlashInv) /\ [Next]_vars => (TypeOK /\ FlashInv)'
  BY NextTypes, NextInv DEF FlashInv
<1> QED BY <1>1, <1>2, PTL DEF Spec

(***************************************************************************)
(* Every request fwupd may still carry out is in the journal, whatever was *)
(* killed, rebooted or lost power before (IntentCoversRequests).           *)
(***************************************************************************)
THEOREM IntentCovered == Spec => []IntentCoversRequests
<1>1. FlashInv => IntentCoversRequests
  BY DEF FlashInv, RequestsJournaled, Journaled, IntentCoversRequests
<1> QED BY <1>1, FlashSafe, PTL

(***************************************************************************)
(* Two install requests for a device are never in flight together, also    *)
(* after power losses (AtMostOneInFlight).                                 *)
(***************************************************************************)
THEOREM OneInFlight == Spec => []AtMostOneInFlight
<1>1. FlashInv => AtMostOneInFlight
  BY DEF FlashInv
<1> QED BY <1>1, FlashSafe, PTL

(***************************************************************************)
(* Without power losses a transaction the journal calls verified runs      *)
(* (VerifiedIsApplied).                                                    *)
(***************************************************************************)
THEOREM VerifiedRuns == ASSUME ~PowerLoss PROVE Spec => []VerifiedIsApplied
<1>1. FlashInv => VerifiedIsApplied
  BY DEF FlashInv
<1> QED BY <1>1, FlashSafe, PTL

(* Who writes the journal, and what.                                       *)
LEMMA JournalWriters ==
  ASSUME ~PowerLoss, TypeOK, FlashInv, [Next]_vars
  PROVE  \/ UNCHANGED journal
         \/ \E p \in Process : WriteIntent(p)
         \/ \E p \in Process : /\ phase[p] # "submitting"
                             /\ UNCHANGED << machine >>
                             /\ journal' = [journal EXCEPT ![device[p]] = Recorded(p)]
                             /\ Journaled(device[p], version[p])
<1>1. CASE UNCHANGED vars
  BY <1>1 DEF vars, files
<1>2. ASSUME NEW p \in Process, Submit(p) PROVE
        \/ UNCHANGED journal
        \/ WriteIntent(p)
        \/ /\ phase[p] # "submitting"
           /\ UNCHANGED << machine >>
           /\ journal' = [journal EXCEPT ![device[p]] = Recorded(p)]
           /\ Journaled(device[p], version[p])
  <2>1. CASE RecordResult(p) \/ RecordVerification(p)
    BY <2>1 DEF RecordResult, RecordVerification, WriteJournal, Holds, FlashInv, PhasesKept,
                WritersJournaled
  <2>2. CASE CheckJournal(p) \/ Archive(p) \/ PlanDevice(p) \/ PlanUpdates(p)
             \/ Invoke(p) \/ Answer(p) \/ Requery(p)
    BY <2>2 DEF CheckJournal, Archive, PlanDevice, PlanUpdates, Invoke, Answer, Requery, files
  <2> QED BY <1>2, <2>1, <2>2 DEF Submit
<1>3. ASSUME NEW p \in Process, Kill(p) \/ \E d \in Device, v \in Version : Start(p, d, v)
      PROVE  UNCHANGED journal
  BY <1>3 DEF Kill, Start
<1>4. ASSUME ServeSome \/ \E d \in Shared, v \in Version : OtherClient(d, v)
      PROVE  UNCHANGED journal
  BY <1>4 DEF ServeSome, Serve, OtherClient, files
<1>5. ASSUME Reboot \/ LosePower PROVE UNCHANGED journal
  BY <1>5 DEF Reboot, LosePower
<1> QED BY <1>1, <1>2, <1>3, <1>4, <1>5 DEF Next

(***************************************************************************)
(* Without power losses no update is requested while an earlier one, known *)
(* or unknown to have been submitted, does not run (NeverResubmitted).     *)
(***************************************************************************)
THEOREM NotResubmitted == ASSUME ~PowerLoss PROVE Spec => NeverResubmitted
<1> DEFINE Kept == \A d \in Owned :
                     journal[d] # None /\ journal'[d] # None
                     /\ journal'[d].phase = "submitting" /\ journal'[d] # journal[d]
                     => flashed[d] = journal[d].version
<1>1. TypeOK /\ FlashInv /\ [Next]_vars => [Kept]_vars
  <2> SUFFICES ASSUME TypeOK, FlashInv, [Next]_vars, NEW d \in Owned, journal[d] # None,
                      journal'[d].phase = "submitting", journal'[d] # journal[d]
               PROVE  flashed[d] = journal[d].version
    OBVIOUS
  <2>1. d \in Device
    BY DEF Owned
  <2>2. PICK p \in Process :
          \/ WriteIntent(p)
          \/ /\ phase[p] # "submitting"
             /\ journal' = [journal EXCEPT ![device[p]] = Recorded(p)]
             /\ Journaled(device[p], version[p])
    BY JournalWriters
  <2>3. CASE WriteIntent(p)
    BY <2>1, <2>3 DEF WriteIntent, WriteJournal, Holds, FlashInv, PlannersSettled, TypeOK
  <2>4. CASE /\ phase[p] # "submitting"
             /\ journal' = [journal EXCEPT ![device[p]] = Recorded(p)]
             /\ Journaled(device[p], version[p])
    <3>1. device[p] = d /\ journal'[d] = Recorded(p)
      BY <2>1, <2>4 DEF TypeOK
    <3>2. Recorded(p).phase = phase[p]
      BY <2>1, <3>1 DEF Recorded, TypeOK, Transaction
    <3> QED BY <2>4, <3>1, <3>2
  <2> QED BY <2>2, <2>3, <2>4
<1>2. Spec => [][Kept]_vars
  BY <1>1, TypeCorrect, FlashSafe, PTL DEF Spec
<1> QED BY <1>2 DEF NeverResubmitted

------------------------------------------------------------------------------
(***************************************************************************)
(* Refinement: the ledger entry of a device is the version its transaction *)
(* names.                                                                  *)
(***************************************************************************)
Intent == [d \in Owned |-> IF journal[d] = None THEN None ELSE journal[d].version]
Running == [d \in Owned |-> flashed[d]]

LEMMA WriteIntentIntends ==
  ASSUME NEW p \in Process, TypeOK, FlashInv, WriteIntent(p)
  PROVE  [Ledger!LedgerNext]_(Ledger!ledgerVars)
<1> DEFINE d == device[p]
           t == [version |-> version[p], boot |-> boot, phase |-> "submitting"]
<1>1. d \in Device /\ t \in Transaction /\ t # None /\ version[p] \in Version
  BY NoneAssumption DEF TypeOK, Transaction, Phase
<1>2. UNCHANGED flashed
  BY DEF WriteIntent, machine
<1>3. Running' = Running
  BY <1>2 DEF Running, Owned
<1>4. CASE d \in Owned /\ journal' = [journal EXCEPT ![d] = t]
  <2>1. Intent[d] \in {None, Running[d]} /\ version[p] > Running[d]
    BY <1>4 DEF Intent, Running, WriteIntent, Holds, FlashInv, PlannersSettled
  <2>2. Intent' = [Intent EXCEPT ![d] = version[p]]
    BY <1>1, <1>4 DEF Intent, Owned, TypeOK
  <2>3. Ledger!Intend(d, version[p])
    BY <1>3, <2>1, <2>2 DEF Ledger!Intend, Ledger!Settled, Intent, Running
  <2>4. Ledger!LedgerNext
    BY <1>1, <1>4, <2>3 DEF Ledger!LedgerNext, Ledger!Intend, Ledger!Settled
  <2> QED BY <2>4
<1>5. CASE \/ journal' = journal
           \/ d \notin Owned /\ journal' = [journal EXCEPT ![d] = t]
  <2>1. \A e \in Owned : journal'[e] = journal[e]
    BY <1>5 DEF Owned, TypeOK
  <2>2. Intent' = Intent
    BY <2>1 DEF Intent
  <2> QED BY <1>3, <2>2 DEF Ledger!ledgerVars, Intent, Running
<1>6. journal' = journal \/ journal' = [journal EXCEPT ![d] = t]
  BY DEF WriteIntent, WriteJournal
<1> QED BY <1>4, <1>5, <1>6

LEMMA RecordedStutters ==
  ASSUME NEW p \in Process, TypeOK, UNCHANGED machine,
         journal' = [journal EXCEPT ![device[p]] = Recorded(p)], Journaled(device[p], version[p])
  PROVE  UNCHANGED << Intent, Running >>
<1>1. Recorded(p) # None /\ Recorded(p).version = journal[device[p]].version
  BY RecordedTypes, NoneAssumption DEF Journaled, Recorded, TypeOK, Transaction
<1>2. \A d \in Owned : \/ journal[d] = None /\ journal'[d] = None
                      \/ /\ journal[d] # None /\ journal'[d] # None
                         /\ journal'[d].version = journal[d].version
  BY <1>1 DEF TypeOK, Owned, Journaled
<1>3. \A d \in Owned : Intent'[d] = Intent[d]
  BY <1>2 DEF Intent
<1>4. Intent' = Intent
  BY <1>3 DEF Intent
<1> QED BY <1>4 DEF Running, machine, Owned

(* The firmware moves to a journaled version, or stays.                    *)
LEMMA FlashedJournaled ==
  ASSUME TypeOK, FlashInv, UNCHANGED journal,
         \A d \in Owned : flashed'[d] # flashed[d] => Journaled(d, flashed'[d])
  PROVE  [Ledger!LedgerNext]_(Ledger!ledgerVars)
<1> DEFINE moved == {d \in Owned : flashed'[d] # flashed[d]}
<1>1. Intent' = Intent
  BY DEF Intent
<1>2. \A d \in moved : Intent[d] # None /\ Intent[d] = flashed'[d]
  BY NoneAssumption DEF Journaled, Intent, TypeOK, Transaction, Owned
<1>3. Running' = [d \in Owned |-> IF d \in moved THEN Intent[d] ELSE Running[d]]
  BY <1>2 DEF Running
<1>4. Ledger!Flash(moved)
  BY <1>1, <1>2, <1>3 DEF Ledger!Flash, Intent, Running
<1>5. moved \in SUBSET Owned
  OBVIOUS
<1>6. \E D \in SUBSET Owned : Ledger!Flash(D)
  BY <1>4, <1>5 DEF Ledger!Flash
<1> QED BY <1>6 DEF Ledger!LedgerNext

(* Every change of the running firmware is one of a journaled version.     *)
LEMMA MovesJournaled ==
  ASSUME ~PowerLoss, TypeOK, FlashInv, [Next]_vars, NEW d \in Owned, flashed'[d] # flashed[d]
  PROVE  Journaled(d, flashed'[d]) /\ UNCHANGED journal
<1>1. d \in Device /\ d \notin Shared
  BY DEF Owned
<1>2. ~UNCHANGED flashed
  OBVIOUS
<1>3. CASE ServeSome
  <2>1. PICK r \in requests : Serve(r)
    BY <1>3 DEF ServeSome
  <2>2. flashed' = [flashed EXCEPT ![r.device] = r.version]
    BY <1>2, <2>1 DEF Serve, Takes
  <2>3. r.device = d /\ flashed'[d] = r.version
    BY <1>1, <2>2 DEF TypeOK
  <2> QED BY <2>1, <2>3 DEF FlashInv, RequestsJournaled, Serve, files
<1>4. CASE \E e \in Shared, v \in Version : OtherClient(e, v)
  <2>1. PICK e \in Shared, v \in Version : OtherClient(e, v)
    BY <1>4
  <2>2. flashed' = [flashed EXCEPT ![e] = v]
    BY <1>2, <2>1 DEF OtherClient, Takes
  <2> QED BY <1>1, <2>2 DEF TypeOK
<1>5. CASE Reboot \/ LosePower
  <2>1. Boot /\ UNCHANGED journal
    BY <1>5 DEF Reboot, LosePower
  <2>2. staged[d] # None /\ flashed'[d] = staged[d]
    BY <1>1, <2>1 DEF Boot
  <2> QED BY <1>1, <2>1, <2>2 DEF FlashInv, StagedJournaled
<1>6. CASE \E p \in Process : Submit(p) \/ Kill(p) \/ \E e \in Device, v \in Version : Start(p, e, v)
  BY <1>2, <1>6 DEF Submit, CheckJournal, Archive, PlanDevice, PlanUpdates, WriteIntent, Invoke,
                    Answer, RecordResult, Requery, RecordVerification, Kill, Start, machine
<1> QED BY <1>2, <1>3, <1>4, <1>5, <1>6 DEF Next, vars, machine

(***************************************************************************)
(* Without power losses `flash-firmware` keeps the promise of the ledger   *)
(* for every device only Cognac updates (LedgerKept): firmware only moves  *)
(* to the journaled version, and an entry is only replaced when its        *)
(* version runs.                                                           *)
(***************************************************************************)
THEOREM KeepsLedger == ASSUME ~PowerLoss PROVE Spec => LedgerKept
<1>1. Init => Ledger!LedgerInit
  BY FlashAssumption DEF Init, Ledger!LedgerInit, Owned
<1>2. TypeOK /\ FlashInv /\ [Next]_vars => [Ledger!LedgerNext]_(Ledger!ledgerVars)
  <2> SUFFICES ASSUME TypeOK, FlashInv, [Next]_vars
               PROVE  [Ledger!LedgerNext]_(Ledger!ledgerVars)
    OBVIOUS
  <2>1. CASE \E p \in Process : WriteIntent(p)
    BY <2>1, WriteIntentIntends
  <2>2. CASE \E p \in Process : /\ UNCHANGED machine
                             /\ journal' = [journal EXCEPT ![device[p]] = Recorded(p)]
                             /\ Journaled(device[p], version[p])
    <3>1. UNCHANGED << Intent, Running >>
      BY <2>2, RecordedStutters
    <3> QED BY <3>1 DEF Ledger!ledgerVars, Intent, Running
  <2>3. CASE UNCHANGED journal
    BY <2>3, MovesJournaled, FlashedJournaled
  <2> QED BY <2>1, <2>2, <2>3, JournalWriters
<1> QED BY <1>1, <1>2, TypeCorrect, FlashSafe, PTL DEF Spec, LedgerKept, Ledger!LedgerSpec
==============================================================================
