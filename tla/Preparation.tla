------------------------------ MODULE Preparation ------------------------------
(***************************************************************************)
(* prepare(), the planning pipeline of `cognac install` (src/installer.rs):*)
(* the resource directory of a package is walked step by step, the package *)
(* is analysed, a profile is identified and the plan is built.             *)
(***************************************************************************)
EXTENDS Planner, Analyzer

CONSTANTS
  Packages,     \* the files that can be analysed
  Contexts(_)   \* for a package: records [host, user, learned], of what else is known

(* Strategy memory holds strategies that were tried, never a refusal.      *)
ASSUME ContextAssumption ==
  \A p \in Packages : \A context \in Contexts(p) :
    context.learned # None => context.learned.class # "restricted"

(* Entries of a resource table lead to offsets and payloads that exist; an *)
(* entry that points outside of the file is unreadable.                    *)
ASSUME PackageAssumption == \A p \in Packages : IsTable(p.table)

VARIABLES package,  \* the file that is analysed
          walk,     \* the walk over its resource directory
          input,    \* None, or [info, host, profiles, learned]
          profile,  \* the profile Identify returned
          plan      \* None, or the plan Build returned

vars == << package, walk, input, profile, plan >>

BuiltInProfiles ==    \* src/data/profiles.json
  << [id |-> "generic-unity", sha256 |-> {}, products |-> {},
      indicators |-> {"unity", "game"}, runner |-> "wine-staging", class |-> "proton-umu",
      backend |-> "umu", components |-> {"vcrun2022"}, graphics |-> "dxvk"],
     [id |-> "generic-electron", sha256 |-> {}, products |-> {},
      indicators |-> {"electron"}, runner |-> "wine-stable", class |-> "wine",
      backend |-> "wine-stable", components |-> {}, graphics |-> "builtin"] >>

Init ==
  /\ package \in Packages
  /\ walk = WalkStart
  /\ input = None /\ profile = None /\ plan = None

WalkResources ==
  /\ Walking(walk)
  /\ walk' = WalkStep(walk, package.table)
  /\ UNCHANGED << package, input, profile, plan >>

Plan ==
  /\ ~Walking(walk) /\ plan = None
  /\ \E context \in Contexts(package) :
       input' = [info |-> Analyze(package, walk), host |-> context.host,
                 learned |-> context.learned,
                 profiles |-> (IF context.user = None THEN << >> ELSE << context.user >>)
                              \o BuiltInProfiles]
  /\ profile' = Identify(input'.profiles, input'.info)
  /\ plan' = Build(input'.info, input'.host, profile', input'.learned)
  /\ UNCHANGED << package, walk >>

Next == WalkResources \/ Plan

Spec == Init /\ [][Next]_vars

------------------------------------------------------------------------------
Planned == plan # None
Order == Attempted(plan)
WithoutLearning == Attempted(Build(input.info, input.host, profile, None))

(***************************************************************************)
(* The walk accepts a resource directory exactly if it is a tree within    *)
(* the limits, in whatever order directories wait on its stack, and has    *)
(* then seen every payload of it.                                          *)
(***************************************************************************)
WalkExact ==
  ~Walking(walk) =>
    /\ walk.failed <=> ~Acceptable(package.table)
    /\ ~walk.failed => walk.payloads = PayloadsAt(package.table, Reached(package.table))

(* What `inspect-hardware` finds in the same file, if its report is whole. *)
Reported ==
  LET report == Inspect(package, walk)
  IN IF report.made /\ ~report.incomplete
     THEN report.capabilities \cup (IF report.kernel THEN {"kernel-image"} ELSE {})
     ELSE ImportedCapabilities(package.symbols)

(***************************************************************************)
(* A firmware updater, or a package in which a complete hardware report    *)
(* shows physical-memory or port-I/O imports, in the file itself or deep   *)
(* in its resources, has no strategy at all, whatever a user profile       *)
(* prefers and whatever was learned (docs/hardware.md:64, "Learned Wine/VM *)
(* preferences cannot override that restriction").                         *)
(***************************************************************************)
HardwareNeverRouted ==
  Planned /\ (DetectsHostFirmware(package) \/ Reported \cap Physical # {}) => Order = << >>

(***************************************************************************)
(* A package that needs a Windows kernel, by its strings or by what a      *)
(* complete report shows (an embedded kernel image, driver loading,        *)
(* firmware variables), is only planned for the virtual machine: neither   *)
(* the +300 of a profile nor the +1000 of a learned Wine success brings a  *)
(* userspace class back into the list.                                     *)
(***************************************************************************)
KernelOnlyVirtualized ==
  /\ Planned
  /\ \/ MarkedTrust(package) \cap TrustSignal # {}
     \/ Reported \cap {"kernel-image", "driver-loading", "firmware-variables"} # {}
  => LET list == Order
     IN \A k \in DOMAIN list : list[k].class = "virtual-machine"

(***************************************************************************)
(* Learning only reorders: strategy memory moves the learned strategy to   *)
(* the front of the list the same inputs give without it, and keeps the    *)
(* rest in order.  A profile that prefers `restricted` refuses the         *)
(* application, until a success was learned.                               *)
(***************************************************************************)
LearningMovesToFront ==
  LET without == WithoutLearning
      isLearned == {k \in DOMAIN without : Learned(input.learned, without[k])}
      others == (DOMAIN without) \ isLearned
      same(a, b) == /\ Len(a) = Len(b)
                    /\ \A k \in DOMAIN a : PrefixOf(a[k]) = PrefixOf(b[k])
  IN Planned /\ without # << >> =>
       same(Order, Picked(without, isLearned) \o Picked(without, others))

(***************************************************************************)
(* A profile decides: when it names a class that is usable and nothing was *)
(* learned, the first strategy tried belongs to that class, whatever the   *)
(* heuristic scores of the others.                                         *)
(***************************************************************************)
ProfileDecides ==
  LET list == Order
  IN /\ Planned
     /\ input.learned = None
     /\ \E k \in DOMAIN list : ProfilePrefers(profile, list[k])
     => ProfilePrefers(profile, list[1])

(***************************************************************************)
(* Sorting loses nothing: every candidate that is neither blocked nor      *)
(* restricted is tried, unless the plan refuses the application.           *)
(***************************************************************************)
NothingUsableDropped ==
  LET list == Order
      candidates == Candidates(input.info, input.host, profile, None)
  IN Planned /\ plan.execution.class # "restricted" =>
       \A i \in DOMAIN candidates :
         Tried(candidates[i]) => \E k \in DOMAIN list : PrefixOf(list[k]) = PrefixOf(candidates[i])

(***************************************************************************)
(* CHANGELOG.md:38: "Isolate runner-family fallbacks in separate           *)
(* environments and remember successful strategies."  Two entries of the   *)
(* list never share an environment.                                        *)
(***************************************************************************)
SeparateEnvironments ==
  LET list == Order
  IN Planned => \A j, k \in DOMAIN list : PrefixOf(list[j]) = PrefixOf(list[k]) => j = k
==============================================================================
