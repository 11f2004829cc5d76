-------------------------- MODULE PreparationProofs --------------------------
(***************************************************************************)
(* The planner's decisions, proved of Preparation for every set of         *)
(* packages, every host, profile and record of strategy memory that        *)
(* Contexts can give, and every limit of the resource walk.                *)
(***************************************************************************)
EXTENDS Preparation, AnalyzerProofs

(* A plan is what Build makes of the analysis of a package whose resources *)
(* have been walked to the end; nothing is learned of a refusal.           *)
FromAnalysis ==
  plan # None =>
    /\ ~Walking(walk)
    /\ input.info = Analyze(package, walk)
    /\ input.learned # None => input.learned.class # "restricted"
    /\ plan = Build(input.info, input.host, profile, input.learned)

PlanInv == package \in Packages /\ FromAnalysis

LEMMA PlanInvariant == Spec => []PlanInv
<1>1. Init => PlanInv
  BY DEF Init, PlanInv, FromAnalysis
<1>2. PlanInv /\ [Next]_vars => PlanInv'
  <2> SUFFICES ASSUME PlanInv, [Next]_vars
               PROVE  PlanInv'
    OBVIOUS
  <2>1. CASE WalkResources
    <3>1. plan' = plan /\ package' = package
      BY <2>1 DEF WalkResources
    <3>2. plan = None
      BY <2>1 DEF WalkResources, PlanInv, FromAnalysis
    <3> QED
      BY <3>1, <3>2 DEF PlanInv, FromAnalysis
  <2>2. CASE Plan
    <3>1. /\ ~Walking(walk) /\ walk' = walk /\ package' = package
          /\ plan' = Build(input'.info, input'.host, profile', input'.learned)
      BY <2>2 DEF Plan
    <3>2. PICK context \in Contexts(package) :
            input' = [info |-> Analyze(package, walk), host |-> context.host,
                      learned |-> context.learned,
                      profiles |-> (IF context.user = None THEN << >> ELSE << context.user >>)
                                   \o BuiltInProfiles]
      BY <2>2 DEF Plan
    <3>3. input'.info = Analyze(package, walk) /\ input'.learned = context.learned
      BY <3>2
    <3>4. package \in Packages
      BY DEF PlanInv
    <3>5. context.learned # None => context.learned.class # "restricted"
      BY <3>4, ContextAssumption
    <3> QED
      BY <3>1, <3>3, <3>4, <3>5 DEF PlanInv, FromAnalysis
  <2>3. CASE UNCHANGED vars
    BY <2>3 DEF PlanInv, FromAnalysis, vars
  <2> QED
    BY <2>1, <2>2, <2>3 DEF Next
<1> QED
  BY <1>1, <1>2, PTL DEF Spec

------------------------------------------------------------------------------
(***************************************************************************)
(* What a complete hardware report shows, the analysis has seen.           *)
(***************************************************************************)
LEMMA ImportsGrow ==
  ASSUME NEW a, NEW b
  PROVE  ImportedCapabilities(a \cup b) = ImportedCapabilities(a) \cup ImportedCapabilities(b)
BY DEF ImportedCapabilities

LEMMA ImportsMonotone ==
  ASSUME NEW a, NEW b, a \subseteq b
  PROVE  ImportedCapabilities(a) \subseteq ImportedCapabilities(b)
BY DEF ImportedCapabilities

LEMMA CatalogNames ==
  ASSUME NEW symbols
  PROVE  "kernel-image" \notin ImportedCapabilities(symbols)
<1>1. \A s \in DOMAIN Catalog : Catalog[s] # "kernel-image"
  BY DEF Catalog
<1> QED
  BY <1>1 DEF ImportedCapabilities

LEMMA ReportSeen ==
  LET embedded == EmbeddedDependencies(walk, package.content)
  IN \A capability \in Reported :
       \/ capability \in Dependencies(package, embedded)
       \/ capability = "kernel-image" /\ embedded.known /\ embedded.kernel
<1> DEFINE embedded == EmbeddedDependencies(walk, package.content)
           report == Inspect(package, walk)
           found == {package.content[p] : p \in walk.payloads}
           images == {image \in found : image.kind = "image"}
           inside == UNION {i.symbols : i \in images}
           all == UNION {image.symbols : image \in found}
<1>1. CASE report.made /\ ~report.incomplete
  <2>1. ~walk.failed /\ Malformed \notin found
    BY <1>1 DEF Inspect
  <2>2. report.capabilities = ImportedCapabilities(package.symbols \cup inside)
    BY <2>1 DEF Inspect
  <2>3. report.kernel <=> \E image \in images : image.kernel
    BY <2>1 DEF Inspect
  <2>4. /\ embedded.known
        /\ embedded.kernel <=> \E image \in found : image.kernel
        /\ embedded.capabilities = ImportedCapabilities(all)
    BY <2>1 DEF EmbeddedDependencies
  <2>5. images \subseteq found /\ inside \subseteq all
    OBVIOUS
  <2> HIDE DEF embedded, report, found, images, inside, all
  <2>6. report.capabilities \subseteq Dependencies(package, embedded)
    <3>1. report.capabilities
            = ImportedCapabilities(package.symbols) \cup ImportedCapabilities(inside)
      BY <2>2, ImportsGrow
    <3>2. ImportedCapabilities(inside) \subseteq embedded.capabilities
      BY <2>4, <2>5, ImportsMonotone
    <3> QED
      BY <2>4, <3>1, <3>2 DEF Dependencies
  <2>7. report.kernel => embedded.kernel
    BY <2>3, <2>4, <2>5
  <2>8. Reported = report.capabilities \cup (IF report.kernel THEN {"kernel-image"} ELSE {})
    BY <1>1 DEF Reported, report
  <2> QED
    BY <2>4, <2>6, <2>7, <2>8 DEF embedded
<1>2. CASE ~(report.made /\ ~report.incomplete)
  BY <1>2 DEF Reported, Dependencies
<1> QED
  BY <1>1, <1>2

------------------------------------------------------------------------------
(***************************************************************************)
(* No strategy for firmware or direct hardware access.                     *)
(***************************************************************************)
LEMMA HardwareRefused ==
  ASSUME DetectsHostFirmware(package) \/ Reported \cap Physical # {}
  PROVE  LET info == Analyze(package, walk)
         IN NativeProtocol(info) \/ IsFirmware(info)
<1> DEFINE embedded == EmbeddedDependencies(walk, package.content)
           info == Analyze(package, walk)
<1>1. /\ info.class = Classify(package, embedded)
      /\ info.indicators = Indicators(package, embedded)
  BY DEF Analyze, Info
<1> HIDE DEF info, embedded
<1>2. CASE DetectsHostFirmware(package)
  BY <1>1, <1>2 DEF Classify, IsFirmware, info
<1>3. CASE Reported \cap Physical # {}
  <2>1. "kernel-image" \notin Physical
    BY DEF Physical
  <2>2. Dependencies(package, embedded) \cap Physical # {}
    BY <1>3, <2>1, ReportSeen DEF embedded
  <2>3. "native-hardware-protocol-required" \in Indicators(package, embedded)
    BY <2>2 DEF Indicators, IndicatorWhen
  <2> QED
    BY <1>1, <2>3 DEF NativeProtocol, info
<1> QED
  BY <1>2, <1>3

(***************************************************************************)
(* HardwareNeverRouted in every reachable state.                           *)
(***************************************************************************)
THEOREM NeverRouted == Spec => []HardwareNeverRouted
<1>1. PlanInv => HardwareNeverRouted
  <2> SUFFICES ASSUME PlanInv, Planned,
                      DetectsHostFirmware(package) \/ Reported \cap Physical # {}
               PROVE  Order = << >>
    BY DEF HardwareNeverRouted
  <2>1. /\ input.info = Analyze(package, walk)
        /\ plan = Build(input.info, input.host, profile, input.learned)
    BY DEF PlanInv, FromAnalysis, Planned
  <2>2. NativeProtocol(input.info) \/ IsFirmware(input.info)
    BY <2>1, HardwareRefused
  <2> QED
    BY <2>1, <2>2, RefusedEmpty DEF Order
<1> QED
  BY <1>1, PlanInvariant, PTL

------------------------------------------------------------------------------
(***************************************************************************)
(* The list of a plan that was not refused for its hardware.               *)
(***************************************************************************)
Usables(learned) == Listing(Candidates(input.info, input.host, profile, learned))

LEMMA OrderOf ==
  ASSUME PlanInv, Planned
  PROVE  \/ Order = << >>
         \/ /\ Order = Usables(input.learned)
            /\ plan.execution.class # "restricted"
            /\ ~NativeProtocol(input.info) /\ ~IsFirmware(input.info)
<1>1. plan = Build(input.info, input.host, profile, input.learned)
  BY DEF PlanInv, FromAnalysis, Planned
<1>2. CASE NativeProtocol(input.info) \/ IsFirmware(input.info)
  BY <1>1, <1>2, RefusedEmpty DEF Order
<1>3. CASE ~NativeProtocol(input.info) /\ ~IsFirmware(input.info)
  BY <1>1, <1>3, TriedInOrder DEF Order, Usables
<1> QED
  BY <1>2, <1>3

LEMMA UsablesFacts ==
  ASSUME NEW learned
  PROVE  LET o == Offered(input.info, input.host, profile)
             c == Candidates(input.info, input.host, profile, learned)
         IN \A k \in DOMAIN Usables(learned) :
              \E i \in 1 .. 6 : /\ Usables(learned)[k] = c[i]
                                /\ c[i].class = o[i].class
                                /\ o[i].availability # "blocked"
<1> DEFINE o == Offered(input.info, input.host, profile)
           c == Candidates(input.info, input.host, profile, learned)
<1>1. 7 \in Nat /\ Sortable(c, 7) /\ DOMAIN c = 1 .. 7
  BY CandidateFacts
<1>2. /\ DOMAIN Usables(learned) = 1 .. Cardinality(Usable(c))
      /\ \A k \in 1 .. Cardinality(Usable(c)) :
           \E i \in Usable(c) : Usables(learned)[k] = c[i]
  BY <1>1, ListingFacts DEF Usables
<1>3. ASSUME NEW i \in Usable(c)
      PROVE  /\ i \in 1 .. 6 /\ c[i].class = o[i].class
             /\ o[i].availability # "blocked"
  <2>1. i \in 1 .. 7 /\ Tried(c[i])
    BY <1>1 DEF Usable
  <2>2. c[i].class = o[i].class /\ c[i].availability = o[i].availability
    BY <2>1, CandidateFacts
  <2>3. i # 7
    BY <2>1, <2>2, OfferedFacts DEF Tried
  <2> QED
    BY <2>1, <2>2, <2>3 DEF Tried, IsBlocked
<1> HIDE DEF o, c
<1>4. \A k \in DOMAIN Usables(learned) :
        \E i \in 1 .. 6 : /\ Usables(learned)[k] = c[i]
                          /\ c[i].class = o[i].class
                          /\ o[i].availability # "blocked"
  BY <1>2, <1>3
<1> QED
  BY <1>4 DEF o, c

LEMMA KernelSeen ==
  ASSUME \/ MarkedTrust(package) \cap TrustSignal # {}
         \/ Reported \cap {"kernel-image", "driver-loading", "firmware-variables"} # {}
  PROVE  RequiresKernel(Analyze(package, walk))
<1> DEFINE embedded == EmbeddedDependencies(walk, package.content)
<1>1. Analyze(package, walk).trust = Trust(package, embedded)
  BY DEF Analyze, Info
<1>2. ASSUME NEW capability \in Reported,
             capability \in {"kernel-image", "driver-loading", "firmware-variables"}
      PROVE  Trust(package, embedded) \cap TrustSignal # {}
  <2>1. \/ capability \in Dependencies(package, embedded)
        \/ capability = "kernel-image" /\ embedded.known /\ embedded.kernel
    BY ReportSeen
  <2>2. "kernel-image" \notin Dependencies(package, embedded)
    BY CatalogNames DEF Dependencies, EmbeddedDependencies
  <2> HIDE DEF embedded
  <2>3. CASE capability \in {"kernel-image", "driver-loading"}
    <3>1. "kernel-driver" \in Trust(package, embedded)
      BY <2>1, <2>2, <2>3 DEF Trust
    <3> QED
      BY <3>1 DEF TrustSignal
  <2>4. CASE capability = "firmware-variables"
    <3>1. "firmware-variables" \in Dependencies(package, embedded)
      BY <2>1, <2>4
    <3>2. "direct-hardware" \in Trust(package, embedded)
      BY <3>1 DEF Trust
    <3> QED
      BY <3>2 DEF TrustSignal
  <2> QED
    BY <1>2, <2>3, <2>4
<1>3. MarkedTrust(package) \subseteq Trust(package, embedded)
  BY DEF Trust
<1>4. Trust(package, embedded) \cap TrustSignal # {}
  BY <1>2, <1>3
<1> QED
  BY <1>1, <1>4 DEF RequiresKernel

(***************************************************************************)
(* KernelOnlyVirtualized in every reachable state.                         *)
(***************************************************************************)
THEOREM KernelVirtualized == Spec => []KernelOnlyVirtualized
<1>1. PlanInv => KernelOnlyVirtualized
  <2> DEFINE shown == Reported \cap {"kernel-image", "driver-loading", "firmware-variables"}
  <2> SUFFICES ASSUME PlanInv, Planned,
                      MarkedTrust(package) \cap TrustSignal # {} \/ shown # {},
                      NEW k \in DOMAIN Order
               PROVE  Order[k].class = "virtual-machine"
    BY DEF KernelOnlyVirtualized
  <2>1. input.info = Analyze(package, walk)
    BY DEF PlanInv, FromAnalysis, Planned
  <2>2. RequiresKernel(input.info)
    BY <2>1, KernelSeen
  <2>3. Order = Usables(input.learned)
    <3>1. Order # << >>
      OBVIOUS
    <3> QED
      BY <3>1, OrderOf
  <2>4. PICK i \in 1 .. 6 :
          LET o == Offered(input.info, input.host, profile)
          IN Order[k].class = o[i].class /\ o[i].availability # "blocked"
    BY <2>3, UsablesFacts
  <2> QED
    BY <2>2, <2>4, OfferedFacts
<1> QED
  BY <1>1, PlanInvariant, PTL

------------------------------------------------------------------------------
(***************************************************************************)
(* NothingUsableDropped in every reachable state: the list is all of the   *)
(* usable candidates, which learning changes nothing about.                *)
(***************************************************************************)
LEMMA UsableListed ==
  ASSUME PlanInv, Planned, plan.execution.class # "restricted"
  PROVE  Order = Usables(input.learned)
<1>1. plan = Build(input.info, input.host, profile, input.learned)
  BY DEF PlanInv, FromAnalysis, Planned
<1>2. CASE NativeProtocol(input.info) \/ IsFirmware(input.info)
  <2>1. plan.execution = RefusalOf(input.info)
    BY <1>1, <1>2 DEF Build, SelectExecution
  <2>2. RefusalOf(input.info).class = "restricted"
    BY DEF RefusalOf, Entry
  <2> QED
    BY <2>1, <2>2
<1>3. CASE ~NativeProtocol(input.info) /\ ~IsFirmware(input.info)
  BY <1>1, <1>3, TriedInOrder DEF Order, Usables
<1> QED
  BY <1>2, <1>3

THEOREM NothingDropped == Spec => []NothingUsableDropped
<1>1. PlanInv => NothingUsableDropped
  <2> DEFINE before == Candidates(input.info, input.host, profile, None)
             after == Candidates(input.info, input.host, profile, input.learned)
  <2> SUFFICES ASSUME PlanInv, Planned, plan.execution.class # "restricted",
                      NEW i \in DOMAIN before, Tried(before[i])
               PROVE  \E k \in DOMAIN Order : PrefixOf(Order[k]) = PrefixOf(before[i])
    BY DEF NothingUsableDropped
  <2>1. Order = Listing(after)
    BY UsableListed DEF Usables
  <2>2. i \in Usable(before)
    BY DEF Usable
  <2>3. i \in Usable(after) /\ PrefixOf(before[i]) = PrefixOf(after[i])
    BY <2>2, SameUsable
  <2>4. 7 \in Nat /\ Sortable(after, 7)
    BY CandidateFacts
  <2> HIDE DEF before, after
  <2>5. PICK k \in DOMAIN Listing(after) : Listing(after)[k] = after[i]
    BY <2>3, <2>4, ListingFacts
  <2> QED
    BY <2>1, <2>3, <2>5
<1> QED
  BY <1>1, PlanInvariant, PTL

------------------------------------------------------------------------------
(***************************************************************************)
(* ProfileDecides in every reachable state: the +300 of a profile is more  *)
(* than the scores of two candidates can differ by.                        *)
(***************************************************************************)
LEMMA PreferredFirst ==
  ASSUME NEW info, NEW host,
         LET list == Listing(Candidates(info, host, profile, None))
         IN \E k \in DOMAIN list : ProfilePrefers(profile, list[k])
  PROVE  ProfilePrefers(profile, Listing(Candidates(info, host, profile, None))[1])
<1> DEFINE o == Offered(info, host, profile)
           c == Candidates(info, host, profile, None)
           U == Usable(c)
           R == SortOrder(c)
           n == Cardinality(U)
<1>1. 7 \in Nat /\ Sortable(c, 7)
  BY CandidateFacts
<1>2. U \in SUBSET (1 .. 6)
  BY SameUsable
<1>3. /\ n \in Nat /\ DOMAIN Listing(c) = 1 .. n
      /\ \A k \in 1 .. n : Nth(U, R, k) \in U /\ Listing(c)[k] = c[Nth(U, R, k)]
      /\ \A j, k \in 1 .. n : j < k => << Nth(U, R, j), Nth(U, R, k) >> \in R
  BY <1>1, ListingFacts
<1>4. PICK k \in 1 .. n : ProfilePrefers(profile, Listing(c)[k])
  BY <1>3
<1> DEFINE first == Nth(U, R, 1)
           preferred == Nth(U, R, k)
<1>5. \A i \in U : /\ i \in 1 .. 6 /\ i \in 1 .. 7
                   /\ ProfilePrefers(profile, c[i]) <=> ProfilePrefers(profile, o[i])
                   /\ c[i].score = o[i].score + Bonus(profile, o[i])
                   /\ o[i].score \in 25 .. 180
  <2> SUFFICES ASSUME NEW i \in U
               PROVE  /\ i \in 1 .. 6 /\ i \in 1 .. 7
                      /\ ProfilePrefers(profile, c[i]) <=> ProfilePrefers(profile, o[i])
                      /\ c[i].score = o[i].score + Bonus(profile, o[i])
                      /\ o[i].score \in 25 .. 180
    OBVIOUS
  <2>1. i \in 1 .. 6 /\ i \in 1 .. 7
    BY <1>2
  <2>2. o[i].score \in 25 .. 180
    BY <2>1, OfferedFacts
  <2>3. /\ c[i].class = o[i].class /\ c[i].backend = o[i].backend
        /\ c[i].score = o[i].score + Bonus(profile, o[i]) + LearnedBonus(None, o[i])
    BY <2>1, CandidateFacts
  <2>4. LearnedBonus(None, o[i]) = 0 /\ Bonus(profile, o[i]) \in {0, 300}
    BY DEF LearnedBonus, Learned, Bonus
  <2> HIDE DEF o, c
  <2> QED
    BY <2>1, <2>2, <2>3, <2>4 DEF ProfilePrefers
<1>6. /\ 1 \in 1 .. n /\ first \in U /\ preferred \in U
      /\ Listing(c)[1] = c[first] /\ Listing(c)[k] = c[preferred]
      /\ first = preferred \/ << first, preferred >> \in R
  BY <1>3, <1>4
<1> HIDE DEF o, c, U, n, first, preferred
<1>7. SUFFICES ASSUME ~ProfilePrefers(profile, c[first])
               PROVE  FALSE
  BY <1>6 DEF c
<1>8. c[first].score <= 180 /\ c[preferred].score >= 325
  <2>1. Bonus(profile, o[first]) = 0 /\ Bonus(profile, o[preferred]) = 300
    BY <1>4, <1>5, <1>6, <1>7 DEF Bonus
  <2> QED
    BY <1>5, <1>6, <2>1
<1>9. first # preferred /\ SortsBefore(c, first, preferred)
  <2>1. first # preferred
    BY <1>4, <1>6, <1>7
  <2> QED
    BY <1>1, <1>5, <1>6, <2>1, SortOrderMeaning
<1>10. c[first].score \in Int /\ c[preferred].score \in Int
  BY <1>1, <1>5, <1>6 DEF Sortable
<1> QED
  BY <1>8, <1>9, <1>10 DEF SortsBefore

THEOREM ProfileFirst == Spec => []ProfileDecides
<1>1. PlanInv => ProfileDecides
  <2> SUFFICES ASSUME PlanInv, Planned, input.learned = None,
                      \E k \in DOMAIN Order : ProfilePrefers(profile, Order[k])
               PROVE  ProfilePrefers(profile, Order[1])
    BY DEF ProfileDecides
  <2>1. Order = Usables(None)
    <3>1. Order # << >>
      OBVIOUS
    <3> QED
      BY <3>1, OrderOf
  <2> QED
    BY <2>1, PreferredFirst DEF Usables
<1> QED
  BY <1>1, PlanInvariant, PTL

------------------------------------------------------------------------------
(***************************************************************************)
(* LearningMovesToFront in every reachable state.                          *)
(***************************************************************************)
THEOREM LearningOnlyPromotes == Spec => []LearningMovesToFront
<1>1. PlanInv => LearningMovesToFront
  <2> DEFINE without == WithoutLearning
             isLearned == {k \in DOMAIN without : Learned(input.learned, without[k])}
             others == (DOMAIN without) \ isLearned
             expected == Picked(without, isLearned) \o Picked(without, others)
  <2> SUFFICES ASSUME PlanInv, Planned, without # << >>
               PROVE  /\ Len(Order) = Len(expected)
                      /\ \A k \in DOMAIN Order : PrefixOf(Order[k]) = PrefixOf(expected[k])
    BY DEF LearningMovesToFront
  <2> DEFINE unlearned == Build(input.info, input.host, profile, None)
             n == Cardinality(Usable(Candidates(input.info, input.host, profile, None)))
  <2>1. /\ input.learned # None => input.learned.class # "restricted"
        /\ plan = Build(input.info, input.host, profile, input.learned)
    BY DEF PlanInv, FromAnalysis, Planned
  <2>2. ~NativeProtocol(input.info) /\ ~IsFirmware(input.info)
    BY RefusedEmpty DEF WithoutLearning
  <2>3. unlearned.execution.class # "restricted" /\ without = Usables(None)
    BY <2>2, TriedInOrder DEF WithoutLearning, Usables
  <2>4. Order = Usables(input.learned)
    <3>1. plan.execution.class # "restricted"
      BY <2>1, <2>2, <2>3, LearningKeepsExecution
    <3> QED
      BY <3>1, UsableListed
  <2>5. LET P == {k \in 1 .. n : Learned(input.learned, without[k])}
        IN /\ n \in Nat /\ DOMAIN without = 1 .. n /\ DOMAIN Order = 1 .. n
           /\ \A k \in 1 .. n : PrefixOf(Order[k]) = PrefixOf(without[Promoted(n, P)[k]])
    BY <2>3, <2>4, LearningPromotes DEF Usables
  <2> HIDE DEF n, without
  <2>6. isLearned = {k \in 1 .. n : Learned(input.learned, without[k])}
    BY <2>5
  <2>7. isLearned \in SUBSET (1 .. n) /\ others = (1 .. n) \ isLearned
    BY <2>5
  <2> HIDE DEF isLearned, others
  <2>8. /\ n \in Nat /\ DOMAIN without = 1 .. n /\ DOMAIN Order = 1 .. n
        /\ \A k \in 1 .. n : PrefixOf(Order[k]) = PrefixOf(without[Promoted(n, isLearned)[k]])
    BY <2>5, <2>6
  <2>9. expected = [k \in 1 .. n |-> without[Promoted(n, isLearned)[k]]]
    BY <2>7, <2>8, PickedPromoted
  <2> HIDE DEF expected
  <2>10. DOMAIN expected = 1 .. n /\ Len(expected) = n /\ Len(Order) = n
    BY <2>8, <2>9
  <2> QED
    BY <2>8, <2>9, <2>10
<1> QED
  BY <1>1, PlanInvariant, PTL


------------------------------------------------------------------------------
(* While the walk goes on, and after it, its invariant holds of the package's table. *)
PrepInv == package \in Packages /\ WalkInv(walk, package.table)

LEMMA PrepInvariant == Spec => []PrepInv
<1>1. Init => PrepInv
  <2> SUFFICES ASSUME Init
               PROVE  PrepInv
    OBVIOUS
  <2>1. package \in Packages /\ walk = WalkStart
    BY DEF Init
  <2>2. Explored(walk, package.table)
    BY <2>1, PackageAssumption, WalkBegins
  <2>3. ~walk.failed
    BY <2>1 DEF WalkStart
  <2> QED
    BY <2>1, <2>2, <2>3 DEF PrepInv, WalkInv
<1>2. PrepInv /\ [Next]_vars => PrepInv'
  <2> SUFFICES ASSUME PrepInv, [Next]_vars
               PROVE  PrepInv'
    OBVIOUS
  <2>1. CASE WalkResources
    <3>1. Walking(walk) /\ walk' = WalkStep(walk, package.table) /\ package' = package
      BY <2>1 DEF WalkResources
    <3>2. WalkInv(WalkStep(walk, package.table), package.table)
      BY <3>1, PackageAssumption, WalkKeeps DEF PrepInv
    <3> QED
      BY <3>1, <3>2 DEF PrepInv
  <2>2. CASE Plan
    BY <2>2 DEF Plan, PrepInv
  <2>3. CASE UNCHANGED vars
    BY <2>3 DEF PrepInv, vars
  <2> QED
    BY <2>1, <2>2, <2>3 DEF Next
<1> QED
  BY <1>1, <1>2, PTL DEF Spec

(* For every resource table and every limit: the walk of resource_payloads  *)
(* ends with an error exactly if the table is not a tree within the limits, *)
(* and otherwise has seen every payload of it, each once.                   *)
THEOREM WalkIsExact == Spec => []WalkExact
<1>1. PrepInv => WalkExact
  <2> SUFFICES ASSUME PrepInv, ~Walking(walk)
               PROVE  /\ walk.failed <=> ~Acceptable(package.table)
                      /\ ~walk.failed =>
                           walk.payloads = PayloadsAt(package.table, Reached(package.table))
    BY DEF WalkExact
  <2>1. CASE walk.failed
    BY <2>1 DEF PrepInv, WalkInv
  <2>2. CASE ~walk.failed
    <3>1. Explored(walk, package.table) /\ walk.pending = << >>
      BY <2>2 DEF PrepInv, WalkInv, Walking
    <3>2. IsTable(package.table)
      BY PackageAssumption DEF PrepInv
    <3> QED
      BY <2>2, <3>1, <3>2, WalkEnds
  <2> QED
    BY <2>1, <2>2
<1> QED
  BY <1>1, PrepInvariant, PTL

==============================================================================
