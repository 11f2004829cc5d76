----------------------------- MODULE UpdateLedger -----------------------------
(***************************************************************************)
(* What journaled firmware updates promise (docs/firmware.md, "An          *)
(* exclusive process lock and persistent journal record intent before      *)
(* submission.  An uncertain submission is never automatically retried."): *)
(* a device only ever moves to the version its ledger entry names, and an  *)
(* entry is only replaced once its version runs.                           *)
(***************************************************************************)
EXTENDS Naturals

CONSTANTS Device,  \* the devices nobody else updates
          Version, \* firmware versions
          None

VARIABLES intent,  \* [Device -> Version \cup {None}]: the version journaled last
          running  \* [Device -> Version]: the firmware that runs

ledgerVars == << intent, running >>

LedgerInit ==
  /\ intent = [d \in Device |-> None]
  /\ running \in [Device -> Version]

Settled(d) == intent[d] \in {None, running[d]}

Intend(d, v) ==
  /\ Settled(d)
  /\ v > running[d]
  /\ intent' = [intent EXCEPT ![d] = v]
  /\ UNCHANGED running

Flash(D) ==
  /\ \A d \in D : intent[d] # None
  /\ running' = [d \in Device |-> IF d \in D THEN intent[d] ELSE running[d]]
  /\ UNCHANGED intent

LedgerNext ==
  \/ \E d \in Device, v \in Version : Intend(d, v)
  \/ \E D \in SUBSET Device : Flash(D)

LedgerSpec == LedgerInit /\ [][LedgerNext]_ledgerVars
==============================================================================
