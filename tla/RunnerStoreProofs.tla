-------------------------- MODULE RunnerStoreProofs --------------------------
(***************************************************************************)
(* Theorems about RunnerStore, for any set of channels and any number of   *)
(* releases and, where nothing else is said, of overlapping invocations.   *)
(***************************************************************************)
EXTENDS RunnerStore, TLAPS

(***************************************************************************)
(* The inductive invariants, apart from the types.  Whatever overlaps: an  *)
(* invocation that is about to rename has unpacked something.              *)
(***************************************************************************)
StagedExists == \A p \in Process : pc[p] = "place" => staged[p] # None

(* As long as invocations do not overlap: between the digest and the       *)
(* metadata the verified bytes are where the next step takes them from,    *)
(* and no other bytes were ever renamed into place.                        *)
TreesVerified == \A c \in Channel, r \in Release : tree[c][r] \in {None, "published"}

VerifiedOnTheWay ==
  \A p \in Process :
    /\ pc[p] = "unpack" => Cached(p) = "published"
    /\ pc[p] = "place" => staged[p] = "published"

StoreInv == TypeOK /\ TreesVerified /\ VerifiedOnTheWay /\ ActiveIsVerified

------------------------------------------------------------------------------
(***************************************************************************)
(* Types.                                                                  *)
(***************************************************************************)
LEMMA FirstRelease == 1 \in Release
BY StoreAssumption DEF Release

LEMMA InitTypes == Init => TypeOK
BY FirstRelease DEF Init, TypeOK, PC

ProcessTypes ==
  /\ pc \in [Process -> PC]
  /\ channel \in [Process -> Channel] /\ version \in [Process -> Release]
  /\ staged \in [Process -> Bytes \cup {None}]

LEMMA ExitTypes ==
  ASSUME NEW p \in Process, TypeOK, Exit(p)
  PROVE  ProcessTypes'
BY FirstRelease DEF TypeOK, Exit, Goto, PC, ProcessTypes

(* What a field of the two stores holds and how one release of one channel *)
(* is written.                                                             *)
LEMMA StoreUpdate ==
  ASSUME NEW store \in [Channel -> [Release -> Bytes \cup {None}]],
         NEW c \in Channel, NEW r \in Release, NEW b \in Bytes \cup {None}
  PROVE  /\ [store EXCEPT ![c][r] = b] \in [Channel -> [Release -> Bytes \cup {None}]]
         /\ \A d \in Channel, q \in Release :
              [store EXCEPT ![c][r] = b][d][q] = IF d = c /\ q = r THEN b ELSE store[d][q]
OBVIOUS

LEMMA ProceedTypes ==
  ASSUME NEW p \in Process, TypeOK, Proceed(p)
  PROVE  TypeOK'
<1> USE DEF TypeOK, ProcessTypes, PC, Goto, disk
<1>0. CASE Exit(p) /\ UNCHANGED << latest, archive, tree, metadata >>
  BY <1>0, ExitTypes
<1>1. CASE Select(p)
  BY <1>0, <1>1 DEF Select
<1>2. CASE Fetch(p)
  BY <1>2 DEF Fetch
<1>3. CASE Download(p)
  <2>1. ASSUME NEW bytes \in Bytes,
               archive' = [archive EXCEPT ![channel[p]][version[p]] = bytes]
        PROVE  archive' \in [Channel -> [Release -> Bytes \cup {None}]]
    BY <2>1, StoreUpdate
  <2> QED BY <1>0, <1>3, <2>1 DEF Download
<1>4. CASE Verify(p)
  BY <1>0, <1>4 DEF Verify
<1>5. CASE Unpack(p)
  <2>1. Cached(p) \in Bytes \cup {None}
    BY DEF Cached
  <2> QED BY <1>0, <1>5, <2>1 DEF Unpack
<1>6. CASE Place(p)
  <2>1. CASE tree' = [tree EXCEPT ![channel[p]][version[p]] = staged[p]]
    <3>1. tree' \in [Channel -> [Release -> Bytes \cup {None}]]
      BY <2>1, StoreUpdate
    <3> QED BY <1>0, <1>6, <3>1 DEF Place
  <2>2. CASE UNCHANGED tree
    BY <1>0, <1>6, <2>2 DEF Place
  <2> QED
    <3> HIDE DEF TypeOK, Goto, PC
    <3> QED BY <1>6, <2>1, <2>2 DEF Place
<1>7. CASE Publish(p)
  <2>1. metadata' \in [Channel -> Release \cup {None}]
    BY <1>7 DEF Publish
  <2>2. ProcessTypes' /\ UNCHANGED << latest, archive, tree >>
    <3> HIDE DEF TypeOK, ProcessTypes
    <3> QED BY <1>7, ExitTypes DEF Publish
  <2> QED BY <2>1, <2>2
<1> QED
  <2> HIDE DEF TypeOK
  <2> QED BY <1>1, <1>2, <1>3, <1>4, <1>5, <1>6, <1>7 DEF Proceed

LEMMA NextTypes == TypeOK /\ [Next]_vars => TypeOK'
<1> SUFFICES ASSUME TypeOK, [Next]_vars PROVE TypeOK'
  OBVIOUS
<1>1. ASSUME NEW p \in Process, Proceed(p) PROVE TypeOK'
  BY <1>1, ProceedTypes
<1>2. ASSUME NEW p \in Process, Kill(p) PROVE TypeOK'
  BY <1>2, ExitTypes DEF Kill, TypeOK, ProcessTypes, disk
<1>3. ASSUME NEW p \in Process, NEW c \in Channel, Start(p, c) PROVE TypeOK'
  BY <1>3 DEF Start, Goto, TypeOK, PC, disk
<1>4. ASSUME NEW c \in Channel, NewRelease(c) PROVE TypeOK'
  BY <1>4, StoreAssumption DEF NewRelease, TypeOK, Release, disk
<1>5. CASE UNCHANGED vars
  BY <1>5 DEF vars, disk, TypeOK
<1> QED BY <1>1, <1>2, <1>3, <1>4, <1>5 DEF Next

(* Every variable keeps its type.                                          *)
THEOREM TypeCorrect == Spec => []TypeOK
<1> QED BY InitTypes, NextTypes, PTL DEF Spec

------------------------------------------------------------------------------
(***************************************************************************)
(* What is active stays usable, whatever overlaps.                         *)
(***************************************************************************)
LEMMA ProceedStages ==
  ASSUME NEW p \in Process, TypeOK, StagedExists, Proceed(p)
  PROVE  StagedExists'
<1> SUFFICES ASSUME NEW q \in Process, pc'[q] = "place" PROVE staged'[q] # None
  BY DEF StagedExists
<1> USE DEF TypeOK, Goto, disk
<1>1. CASE q # p
  BY <1>1 DEF StagedExists, Proceed, Select, Fetch, Download, Verify, Unpack, Place, Publish, Exit
<1>2. CASE q = p
  <2>1. Unpack(p)
    BY <1>2 DEF Proceed, Select, Fetch, Download, Verify, Unpack, Place, Publish, Exit
  <2>2. Cached(p) # None /\ staged' = [staged EXCEPT ![p] = Cached(p)]
    BY <1>2, <2>1 DEF Unpack, Exit
  <2> QED BY <1>2, <2>2
<1> QED BY <1>1, <1>2

LEMMA NextStages == TypeOK /\ StagedExists /\ [Next]_vars => StagedExists'
<1> SUFFICES ASSUME TypeOK, StagedExists, [Next]_vars PROVE StagedExists'
  OBVIOUS
<1>1. ASSUME NEW p \in Process, Proceed(p) PROVE StagedExists'
  BY <1>1, ProceedStages
<1>2. ASSUME NEW p \in Process, Kill(p) PROVE StagedExists'
  BY <1>2 DEF Kill, Exit, Goto, TypeOK, StagedExists
<1>3. ASSUME NEW p \in Process, NEW c \in Channel, Start(p, c) PROVE StagedExists'
  BY <1>3 DEF Start, Goto, TypeOK, StagedExists
<1>4. ASSUME NEW c \in Channel, NewRelease(c) PROVE StagedExists'
  BY <1>4 DEF NewRelease, StagedExists
<1>5. CASE UNCHANGED vars
  BY <1>5 DEF vars, StagedExists
<1> QED BY <1>1, <1>2, <1>3, <1>4, <1>5 DEF Next

(* A directory never disappears, and the metadata is only set to one that  *)
(* is there.                                                               *)
LEMMA ProceedKeeps ==
  ASSUME NEW p \in Process, TypeOK, StagedExists, Proceed(p), NEW c \in Channel, Installed(c)
  PROVE  Installed(c)'
<1> DEFINE r == metadata[c]
<1>0. r \in Release /\ tree[c][r] # None
  BY DEF Installed, TypeOK
<1>1. CASE UNCHANGED << tree, metadata >>
  BY <1>1 DEF Installed
<1>2. CASE Place(p)
  <2>1. CASE tree' = [tree EXCEPT ![channel[p]][version[p]] = staged[p]]
    <3>1. staged[p] \in Bytes \cup {None} /\ staged[p] # None
      BY <1>2 DEF Place, StagedExists, TypeOK
    <3>2. tree'[c][r] # None
      BY <1>0, <2>1, <3>1, StoreUpdate DEF TypeOK
    <3> QED BY <1>0, <1>2, <3>2 DEF Place, Installed
  <2> QED BY <1>1, <1>2, <2>1 DEF Place
<1>3. CASE Publish(p)
  <2>1. CASE UNCHANGED metadata
    BY <1>1, <1>3, <2>1 DEF Publish
  <2>2. CASE /\ tree[channel[p]][version[p]] # None
             /\ metadata' = [metadata EXCEPT ![channel[p]] = version[p]]
    <3>1. UNCHANGED tree /\ version[p] \in Release /\ version[p] # None
      BY <1>3, StoreAssumption DEF Publish, TypeOK
    <3> QED BY <2>2, <3>1 DEF Installed, TypeOK
  <2> QED BY <1>3, <2>1, <2>2 DEF Publish
<1>4. CASE Select(p) \/ Fetch(p) \/ Download(p) \/ Verify(p) \/ Unpack(p)
  BY <1>1, <1>4 DEF Select, Fetch, Download, Verify, Unpack, disk
<1> QED BY <1>2, <1>3, <1>4 DEF Proceed

(* The comment in RunnerManager::update: a failed update leaves the        *)
(* current runner usable.                                                  *)
THEOREM RunnerStaysUsable == Spec => StaysUsable
<1>1. Init => StagedExists
  BY DEF Init, StagedExists
<1>2. TypeOK /\ StagedExists /\ [Next]_vars
      => [\A c \in Channel : Installed(c) => Installed(c)']_vars
  <2> SUFFICES ASSUME TypeOK, StagedExists, Next, NEW c \in Channel, Installed(c)
               PROVE  Installed(c)'
    OBVIOUS
  <2>1. ASSUME NEW p \in Process, Proceed(p) PROVE Installed(c)'
    BY <2>1, ProceedKeeps
  <2>2. CASE UNCHANGED << tree, metadata >>
    BY <2>2 DEF Installed
  <2> QED BY <2>1, <2>2 DEF Next, Kill, Start, NewRelease, disk
<1> QED BY InitTypes, NextTypes, <1>1, NextStages, <1>2, PTL DEF Spec, StaysUsable

------------------------------------------------------------------------------
(***************************************************************************)
(* Only verified bytes become active, as long as invocations do not        *)
(* overlap.                                                                *)
(***************************************************************************)
LEMMA ProceedVerifies ==
  ASSUME NEW p \in Process, Process = {p}, StoreInv, TypeOK', Proceed(p)
  PROVE  StoreInv'
<1> DEFINE c == channel[p]
           r == version[p]
<1>0. c \in Channel /\ r \in Release
  BY DEF StoreInv, TypeOK
<1> USE DEF StoreInv, TypeOK, TreesVerified, VerifiedOnTheWay, ActiveIsVerified, Goto, disk
<1>1. CASE Select(p) \/ Fetch(p)
  BY <1>1 DEF Select, Fetch, Exit
<1>2. CASE Download(p)
  BY <1>2 DEF Download, Exit
<1>3. CASE Verify(p)
  BY <1>3 DEF Verify, Exit, Cached
<1>4. CASE Unpack(p)
  BY <1>4 DEF Unpack, Exit, Cached
<1>5. CASE Place(p)
  <2>1. CASE tree' = [tree EXCEPT ![c][r] = staged[p]]
    <3>1. staged[p] = "published" /\ pc'[p] # "place" /\ pc'[p] # "unpack" /\ UNCHANGED metadata
      BY <1>5 DEF Place, Exit
    <3>2. \A d \in Channel, q \in Release :
            tree'[d][q] = IF d = c /\ q = r THEN "published" ELSE tree[d][q]
      BY <1>0, <2>1, <3>1, StoreUpdate
    <3> QED BY <3>1, <3>2
  <2>2. CASE UNCHANGED tree
    BY <1>5, <2>2 DEF Place, Exit
  <2> QED
    <3> HIDE DEF StoreInv, TypeOK, TreesVerified, VerifiedOnTheWay, ActiveIsVerified, Goto
    <3> QED BY <1>5, <2>1, <2>2 DEF Place
<1>6. CASE Publish(p)
  <2>1. pc'[p] = "idle" /\ UNCHANGED tree
    BY <1>6 DEF Publish, Exit
  <2>2. \A d \in Channel : metadata'[d] # None =>
          tree[d][metadata'[d]] # None /\ metadata'[d] \in Release
    <3>1. CASE UNCHANGED metadata
      BY <3>1, StoreAssumption DEF Bytes
    <3>2. CASE tree[c][r] # None /\ metadata' = [metadata EXCEPT ![c] = r]
      BY <1>0, <3>2, StoreAssumption DEF Bytes
    <3> QED
      <4> HIDE DEF StoreInv, TypeOK, TreesVerified, VerifiedOnTheWay, ActiveIsVerified, Goto
      <4> QED BY <1>6, <3>1, <3>2 DEF Publish
  <2> QED BY <2>1, <2>2
<1> QED BY <1>1, <1>2, <1>3, <1>4, <1>5, <1>6 DEF Proceed

LEMMA NextVerifies ==
  ASSUME \A p, q \in Process : p = q
  PROVE  StoreInv /\ [Next]_vars => StoreInv'
<1> SUFFICES ASSUME StoreInv, [Next]_vars PROVE StoreInv'
  OBVIOUS
<1>0. TypeOK'
  BY NextTypes DEF StoreInv
<1> USE DEF StoreInv, TreesVerified, VerifiedOnTheWay, ActiveIsVerified, Cached, disk
<1>1. ASSUME NEW p \in Process, Proceed(p) PROVE StoreInv'
  <2>1. Process = {p}
    OBVIOUS
  <2> QED BY <1>0, <1>1, <2>1, ProceedVerifies
<1>2. ASSUME NEW p \in Process, Kill(p) PROVE StoreInv'
  BY <1>0, <1>2 DEF Kill, Exit, Goto, TypeOK
<1>3. ASSUME NEW p \in Process, NEW c \in Channel, Start(p, c) PROVE StoreInv'
  BY <1>0, <1>3 DEF Start, Goto, TypeOK
<1>4. ASSUME NEW c \in Channel, NewRelease(c) PROVE StoreInv'
  BY <1>0, <1>4 DEF NewRelease
<1>5. CASE UNCHANGED vars
  BY <1>0, <1>5 DEF vars
<1> QED BY <1>1, <1>2, <1>3, <1>4, <1>5 DEF Next

(* SECURITY.md:60: what the metadata names was unpacked from an archive    *)
(* with the published digest.  The run runners_concurrent shows that the   *)
(* assumption is needed.                                                   *)
THEOREM OnlyVerifiedActive ==
  ASSUME \A p, q \in Process : p = q
  PROVE  Spec => []ActiveIsVerified
<1>1. Init => StoreInv
  BY InitTypes DEF Init, StoreInv, TreesVerified, VerifiedOnTheWay, ActiveIsVerified
<1>2. StoreInv => ActiveIsVerified
  BY DEF StoreInv
<1> QED BY <1>1, <1>2, NextVerifies, PTL DEF Spec

==============================================================================
