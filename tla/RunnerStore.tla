----------------------------- MODULE RunnerStore -----------------------------
(***************************************************************************)
(* The managed Wine runners (src/runner.rs) and the managed UMU launcher   *)
(* (src/umu_manager.rs) on disk: a cache of downloaded archives, one       *)
(* directory per unpacked release, and a metadata file per channel that    *)
(* names the release in use.  `install` ensures a runner, `update` fetches *)
(* the current release; invocations are not synchronized and can be        *)
(* killed, a download can deliver anything, and releases appear meanwhile. *)
(***************************************************************************)
EXTENDS Naturals

CONSTANTS
  Process,    \* invocations of cognac
  Wine,       \* channels of RunnerManager
  Umu,        \* the one of UmuManager
  MaxRelease, \* bound: releases 1 .. MaxRelease of each
  None

Channel == Wine \cup Umu
Release == 1 .. MaxRelease

(***************************************************************************)
(* Bytes, as far as the code tells them apart: those with the published    *)
(* digest, others of the same size, others.  A directory is named after    *)
(* the archive it was unpacked from.                                       *)
(***************************************************************************)
Bytes == {"published", "same-size", "other"}
PC == {"idle", "select", "fetch", "download", "verify", "unpack", "place", "publish"}

ASSUME StoreAssumption ==
  /\ Wine \cap Umu = {}
  /\ MaxRelease \in Nat \ {0}
  /\ None \notin Release /\ None \notin Bytes

VARIABLES
  latest,   \* [Channel -> Release]: the release the API names
  archive,  \* [Channel -> [Release -> Bytes \cup {None}]]: cache/downloads
  tree,     \* [Channel -> [Release -> Bytes \cup {None}]]: unpacked releases
  metadata, \* [Channel -> Release \cup {None}]: <channel>.json, umu.json
  pc, channel, version,
  staged    \* what was unpacked in the temporary directory

disk == << archive, tree, metadata >>
vars == << latest, disk, pc, channel, version, staged >>

------------------------------------------------------------------------------
Init ==
  /\ latest = [c \in Channel |-> 1]
  /\ archive = [c \in Channel |-> [r \in Release |-> None]] /\ tree = archive
  /\ metadata = [c \in Channel |-> None]
  /\ pc = [p \in Process |-> "idle"]
  /\ channel \in [Process -> Channel] /\ version = [p \in Process |-> 1]
  /\ staged = [p \in Process |-> None]

Goto(p, step) == pc' = [pc EXCEPT ![p] = step]

(* The operation ends, with a result or an error (the temporary directory  *)
(* and file disappear, or are never looked at again).                      *)
Exit(p) ==
  /\ Goto(p, "idle")
  /\ version' = [version EXCEPT ![p] = 1]
  /\ staged' = [staged EXCEPT ![p] = None]
  /\ UNCHANGED channel

(* installed(): the metadata names a release whose program is there.       *)
Installed(c) == metadata[c] # None /\ tree[c][metadata[c]] # None

(***************************************************************************)
(* ensure() of either manager, when nothing is installed, and update(),    *)
(* which RunnerManager only has.                                           *)
(***************************************************************************)
Start(p, c) ==
  /\ pc[p] = "idle"
  /\ ~Installed(c) \/ c \in Wine
  /\ channel' = [channel EXCEPT ![p] = c]
  /\ Goto(p, "select")
  /\ UNCHANGED << latest, disk, version, staged >>

(* The release, its asset and the published digest are looked up.          *)
Select(p) ==
  /\ pc[p] = "select"
  /\ \/ /\ version' = [version EXCEPT ![p] = latest[channel[p]]]
        /\ Goto(p, "fetch")
        /\ UNCHANGED << channel, staged >>
     \/ Exit(p)
  /\ UNCHANGED << latest, disk >>

Cached(p) == archive[channel[p]][version[p]]

(* download(): a file of the right size is taken for the archive.          *)
Fetch(p) ==
  /\ pc[p] = "fetch"
  /\ Goto(p, IF Cached(p) \in {"published", "same-size"} THEN "verify" ELSE "download")
  /\ UNCHANGED << latest, disk, channel, version, staged >>

(* Only UmuManager compares the size of the response.                      *)
Download(p) ==
  /\ pc[p] = "download"
  /\ \/ \E bytes \in Bytes :
          /\ channel[p] \in Umu => bytes # "other"
          /\ archive' = [archive EXCEPT ![channel[p]][version[p]] = bytes]
          /\ Goto(p, "verify")
          /\ UNCHANGED << channel, version, staged >>
     \/ Exit(p) /\ UNCHANGED archive
  /\ UNCHANGED << latest, tree, metadata >>

(* Mutant: the size was right, the digest is not computed again.           *)
VerifyBySize(p) ==
  /\ pc[p] = "verify"
  /\ \/ /\ Cached(p) # "other"
        /\ Goto(p, IF channel[p] \in Wine /\ tree[channel[p]][version[p]] # None
                   THEN "publish" ELSE "unpack")
        /\ UNCHANGED << channel, version, staged >>
     \/ Exit(p)
  /\ UNCHANGED << latest, disk >>

(* sha256_file(), then RunnerManager skips a release that is unpacked.     *)
Verify(p) ==
  /\ pc[p] = "verify"
  /\ \/ /\ Cached(p) = "published"
        /\ Goto(p, IF channel[p] \in Wine /\ tree[channel[p]][version[p]] # None
                   THEN "publish" ELSE "unpack")
        /\ UNCHANGED << channel, version, staged >>
     \/ Exit(p)
  /\ UNCHANGED << latest, disk >>

(* Mutant: the exit status of tar is not looked at.                        *)
UnpackUnchecked(p) ==
  /\ pc[p] = "unpack"
  /\ \E content \in {Cached(p), "partial"} \ {None} :
       staged' = [staged EXCEPT ![p] = content]
  /\ Goto(p, "place")
  /\ UNCHANGED << latest, disk, channel, version >>

(* tar reads the archive by its name once more.  It can fail, and what it  *)
(* unpacks may not contain the program.                                    *)
Unpack(p) ==
  /\ pc[p] = "unpack"
  /\ \/ /\ Cached(p) # None
        /\ staged' = [staged EXCEPT ![p] = Cached(p)]
        /\ Goto(p, "place")
        /\ UNCHANGED << channel, version >>
     \/ Exit(p)
  /\ UNCHANGED << latest, disk >>

(* Mutant: older releases make room before the metadata names the new one. *)
PlaceAndPrune(p) ==
  /\ pc[p] = "place"
  /\ tree' = [tree EXCEPT ![channel[p]] =
               [r \in Release |-> IF r = version[p] THEN staged[p] ELSE None]]
  /\ Goto(p, "publish")
  /\ UNCHANGED << latest, archive, metadata, channel, version, staged >>

(* rename() does not replace a directory that holds something.  UmuManager *)
(* looks first and uses what is there.                                     *)
Place(p) ==
  /\ pc[p] = "place"
  /\ \/ /\ tree[channel[p]][version[p]] = None
        /\ tree' = [tree EXCEPT ![channel[p]][version[p]] = staged[p]]
        /\ Goto(p, "publish")
        /\ UNCHANGED << channel, version, staged >>
     \/ /\ tree[channel[p]][version[p]] # None /\ channel[p] \in Umu
        /\ Goto(p, "publish")
        /\ UNCHANGED << tree, channel, version, staged >>
     \/ Exit(p) /\ UNCHANGED tree
  /\ UNCHANGED << latest, archive, metadata >>

(* The metadata is written last (atomic_json), if the program is there.    *)
Publish(p) ==
  /\ pc[p] = "publish"
  /\ \/ /\ tree[channel[p]][version[p]] # None
        /\ metadata' = [metadata EXCEPT ![channel[p]] = version[p]]
     \/ UNCHANGED metadata
  /\ Exit(p)
  /\ UNCHANGED << latest, archive, tree >>

Kill(p) ==
  /\ pc[p] # "idle"
  /\ Exit(p)
  /\ UNCHANGED << latest, disk >>

(* A new release is published (external).                                  *)
NewRelease(c) ==
  /\ latest[c] < MaxRelease
  /\ latest' = [latest EXCEPT ![c] = @ + 1]
  /\ UNCHANGED << disk, pc, channel, version, staged >>

------------------------------------------------------------------------------
Proceed(p) ==
  \/ Select(p) \/ Fetch(p) \/ Download(p) \/ Verify(p)
  \/ Unpack(p) \/ Place(p) \/ Publish(p)

Next ==
  \/ \E p \in Process : Proceed(p) \/ Kill(p) \/ \E c \in Channel : Start(p, c)
  \/ \E c \in Channel : NewRelease(c)

Spec == Init /\ [][Next]_vars

------------------------------------------------------------------------------
(* Every variable has its type.                                            *)
TypeOK ==
  /\ latest \in [Channel -> Release]
  /\ archive \in [Channel -> [Release -> Bytes \cup {None}]]
  /\ tree \in [Channel -> [Release -> Bytes \cup {None}]]
  /\ metadata \in [Channel -> Release \cup {None}]
  /\ pc \in [Process -> PC]
  /\ channel \in [Process -> Channel] /\ version \in [Process -> Release]
  /\ staged \in [Process -> Bytes \cup {None}]

(***************************************************************************)
(* SECURITY.md:60, "the unverified artifact must not become the active     *)
(* runtime/tool": what the metadata names was unpacked from an archive     *)
(* with the published digest.                                              *)
(***************************************************************************)
ActiveIsVerified ==
  \A c \in Channel : metadata[c] # None => tree[c][metadata[c]] = "published"

(***************************************************************************)
(* The comment in update(): "a failed update leaves the current runner     *)
(* usable".  Whatever fails or is killed, metadata that once               *)
(* named an unpacked release goes on naming one.                           *)
(***************************************************************************)
StaysUsable == [][\A c \in Channel : Installed(c) => Installed(c)']_vars
==============================================================================
