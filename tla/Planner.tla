------------------------------- MODULE Planner -------------------------------
(***************************************************************************)
(* The planning step of `cognac install` (src/planner.rs), with the        *)
(* profile lookup of src/knowledge.rs that feeds it.  Everything here is a *)
(* function of its arguments: the analysed executable `info`, the detected *)
(* `host`, the matched `profile` and the `learned` record of strategy      *)
(* memory.  Strings that are only displayed (reasons, blockers) are left   *)
(* out.                                                                    *)
(***************************************************************************)
EXTENDS Orders

CONSTANT None      \* Rust's Option::None, for profiles, learned records and fields

(***************************************************************************)
(* ExecutionClass, in the order its derived Ord gives the variants.        *)
(***************************************************************************)
ClassOrder == << "wine", "proton-umu", "containerized-wine",
                 "virtual-machine", "restricted" >>
Class == { ClassOrder[i] : i \in DOMAIN ClassOrder }
ClassRank(c) == CHOOSE i \in DOMAIN ClassOrder : ClassOrder[i] = c

UserspaceClass == {"wine", "proton-umu", "containerized-wine"}

Availability == {"ready", "provisionable", "blocked"}

Entry(class, backend, availability, score) ==
  [class |-> class, backend |-> backend, availability |-> availability, score |-> score]

IsBlocked(s) == s.availability = "blocked"

(***************************************************************************)
(* TrustRequirements: the four signals that make a Windows kernel          *)
(* necessary.  `info.trust` is the set of the signals that were found.     *)
(***************************************************************************)
TrustSignal == {"kernel-driver", "tpm", "secure-boot", "direct-hardware"}
RequiresKernel(info) == info.trust \cap TrustSignal # {}

NativeProtocol(info) == "native-hardware-protocol-required" \in info.indicators
IsFirmware(info) == info.class = "firmware-update"
IsGame(info) == info.class = "game"

(***************************************************************************)
(* KnowledgeBase::identify: the best-scoring profile among those that      *)
(* score at least ProfileThreshold.  max_by_key returns the last of equal  *)
(* maxima.                                                                 *)
(***************************************************************************)
ProfileThreshold == 10

ProfileScore(profile, info) ==
    (IF info.sha256 \in profile.sha256 THEN 100 ELSE 0)
  + (IF info.product \in profile.products THEN 20 ELSE 0)
  + 3 * Cardinality(profile.indicators \cap info.indicators)

Identify(profiles, info) ==
  LET score == [i \in DOMAIN profiles |-> ProfileScore(profiles[i], info)]
      matching == {i \in DOMAIN profiles : score[i] >= ProfileThreshold}
  IN IF matching = {} THEN None
     ELSE profiles[CHOOSE i \in matching :
                     \A j \in matching : \/ score[i] > score[j]
                                         \/ score[i] = score[j] /\ i >= j]

(***************************************************************************)
(* The execution classes a host can offer, as select_execution lists them  *)
(* before profiles and memory adjust the scores.  `host` is the set of     *)
(* detected capabilities; "x86_64" stands for the architecture test.       *)
(***************************************************************************)
VmPrerequisites == {"cpu_virtualization", "kvm_usable", "qemu", "libvirt"}

Wine(info, host, channel) ==
  Entry("wine", channel,
           IF "x86_64" \in host /\ ~RequiresKernel(info) THEN "provisionable" ELSE "blocked",
           IF IsGame(info) THEN 75 ELSE 120)

WineStable(info, host) ==
  [Wine(info, host, "wine-stable") EXCEPT !.score = @ - 10]

Proton(info, host) ==
  Entry("proton-umu", "umu",
           IF ~("x86_64" \in host) \/ RequiresKernel(info) THEN "blocked"
           ELSE IF "umu_launcher" \in host THEN "ready"
           ELSE IF "python3" \in host THEN "provisionable"
           ELSE "blocked",
           IF IsGame(info) THEN 140 ELSE 55)

ProtonGe(info, host) ==
  [Proton(info, host) EXCEPT !.backend = "umu-ge-proton", !.score = @ - 5]

Container(info, host) ==
  Entry("containerized-wine",
           IF "bubblewrap" \in host THEN "bubblewrap-wine" ELSE "podman-wine",
           "blocked",
           IF IsGame(info) THEN 45 ELSE 70)

VirtualMachine(info, host) ==
  Entry("virtual-machine", "libvirt-qemu",
           IF VmPrerequisites \cup {"windows_vm_configured"} \subseteq host
           THEN "ready" ELSE "provisionable",
           IF RequiresKernel(info) THEN 180 ELSE 25)

RestrictedByPolicy == Entry("restricted", "policy", "ready", -100)

(***************************************************************************)
(* Score adjustments: a matching profile adds 300, a learned success 1000. *)
(***************************************************************************)
ProfilePrefers(profile, s) ==
  /\ profile # None
  /\ profile.class = s.class
  /\ (profile.backend = None \/ profile.backend = s.backend)

Learned(learned, s) ==
  /\ learned # None
  /\ learned.class = s.class
  /\ learned.backend = s.backend

(* Mutants: learning weighs less than a profile; a profile is a mere hint. *)
AdjustedTimidly(s, profile, learned) ==
  [s EXCEPT !.score = @ + (IF ProfilePrefers(profile, s) THEN 300 ELSE 0)
                        + (IF Learned(learned, s) THEN 100 ELSE 0)]
AdjustedByHint(s, profile, learned) ==
  [s EXCEPT !.score = @ + (IF ProfilePrefers(profile, s) THEN 30 ELSE 0)
                        + (IF Learned(learned, s) THEN 1000 ELSE 0)]

Adjusted(s, profile, learned) ==
  [s EXCEPT !.score = @ + (IF ProfilePrefers(profile, s) THEN 300 ELSE 0)
                        + (IF Learned(learned, s) THEN 1000 ELSE 0)]

Channel(profile) ==
  IF profile # None /\ profile.runner # None THEN profile.runner ELSE "wine-staging"

Offered(info, host, profile) ==
  << Wine(info, host, Channel(profile)), WineStable(info, host),
     Proton(info, host), ProtonGe(info, host),
     Container(info, host), VirtualMachine(info, host), RestrictedByPolicy >>

Candidates(info, host, profile, learned) ==
  LET offered == Offered(info, host, profile)
      candidate(i) == Adjusted(offered[i], profile, learned)
  IN << candidate(1), candidate(2), candidate(3), candidate(4), candidate(5), candidate(6),
        candidate(7) >>

(***************************************************************************)
(* The stable sort: higher score first, then the class order, then the     *)
(* original position.                                                      *)
(***************************************************************************)
SortsBefore(c, i, j) ==
  \/ c[i].score > c[j].score
  \/ /\ c[i].score = c[j].score
     /\ \/ ClassRank(c[i].class) < ClassRank(c[j].class)
        \/ c[i].class = c[j].class /\ i < j

SortOrder(c) == {p \in (DOMAIN c) \X (DOMAIN c) : SortsBefore(c, p[1], p[2])}

Sorted(c) ==
  LET order == SortOrder(c)
  IN [k \in DOMAIN c |-> c[Nth(DOMAIN c, order, k)]]

FirstUsable(c) ==
  CHOOSE i \in DOMAIN c : /\ ~IsBlocked(c[i])
                          /\ \A j \in DOMAIN c : j < i => IsBlocked(c[j])

(* Mutant: off by one, the entry after the selected one is lost. *)
WithoutNext(c, i) ==
  [k \in 1 .. (Len(c) - 1) |-> IF k <= i THEN c[k] ELSE c[k + 1]]

WithoutIndex(c, i) ==
  [k \in 1 .. (Len(c) - 1) |-> IF k < i THEN c[k] ELSE c[k + 1]]

(***************************************************************************)
(* select_execution.                                                       *)
(***************************************************************************)
RefusalOf(info) ==
  IF IsFirmware(info)
  THEN Entry("restricted", "native-firmware-required", "blocked", 0)
  ELSE Entry("restricted", "native-hardware-protocol-required", "blocked", 0)

Ranking(info, host, profile, learned) ==
  LET ranked == Sorted(Candidates(info, host, profile, learned))
      selected == FirstUsable(ranked)
  IN [execution |-> ranked[selected], fallbacks |-> WithoutIndex(ranked, selected)]

(* Mutant: what was learned is looked at before the hardware route. *)
SelectLearnedFirst(info, host, profile, learned) ==
  IF learned = None /\ (NativeProtocol(info) \/ IsFirmware(info))
  THEN [execution |-> RefusalOf(info), fallbacks |-> << >>]
  ELSE Ranking(info, host, profile, learned)

SelectExecution(info, host, profile, learned) ==
  IF NativeProtocol(info) \/ IsFirmware(info)
  THEN [execution |-> RefusalOf(info), fallbacks |-> << >>]
  ELSE Ranking(info, host, profile, learned)

(***************************************************************************)
(* The rest of build(): graphics backend and components.                   *)
(***************************************************************************)
DetectedGraphics(info, host) ==
  LET wanted == IF "Direct3D 12" \in info.graphics THEN "vkd3d"
                ELSE IF info.graphics \cap {"Direct3D 9", "Direct3D 11", "DXGI"} # {} THEN "dxvk"
                ELSE "builtin"
  IN IF wanted # "builtin" /\ "vulkan" \notin host THEN "opengl" ELSE wanted

Graphics(info, host, profile) ==
  IF profile # None /\ profile.graphics # None
  THEN profile.graphics ELSE DetectedGraphics(info, host)

Components(info, host, profile) ==
       (IF "visual-c++" \in info.frameworks THEN {"vcrun2022"} ELSE {})
  \cup (IF "dotnet" \in info.frameworks THEN {"dotnet48"} ELSE {})
  \cup ({DetectedGraphics(info, host)} \cap {"dxvk", "vkd3d"})
  \cup (IF profile # None THEN profile.components ELSE {})

Build(info, host, profile, learned) ==
  LET selection == SelectExecution(info, host, profile, learned)
  IN [execution  |-> selection.execution,
      fallbacks  |-> selection.fallbacks,
      graphics   |-> Graphics(info, host, profile),
      components |-> Components(info, host, profile)]

(***************************************************************************)
(* What install() makes of a plan: nothing when the selected class is      *)
(* restricted, otherwise the selection and its fallbacks without blocked   *)
(* and restricted entries, in order.                                       *)
(***************************************************************************)
Tried(s) == ~IsBlocked(s) /\ s.class # "restricted"

Attempted(plan) ==
  LET listed == << plan.execution >> \o plan.fallbacks
  IN IF plan.execution.class = "restricted" THEN << >>
     ELSE Picked(listed, {k \in DOMAIN listed : Tried(listed[k])})

(***************************************************************************)
(* The directory of a strategy, strategy_prefix(): the slug of             *)
(* ExecutionStrategy::id(), which class and backend determine.             *)
(***************************************************************************)
PrefixOf(s) == << s.class, s.backend >>
==============================================================================
