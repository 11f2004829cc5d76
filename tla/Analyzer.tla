------------------------------- MODULE Analyzer -------------------------------
(***************************************************************************)
(* What Cognac learns about a Windows executable before anything runs:     *)
(* the walk over its resource directory and the two readers of the         *)
(* payloads found there, `inspect-hardware` and the installation planner   *)
(* (src/hardware.rs), and the analysis that turns strings and imports into *)
(* the `info` the planner decides on (src/analyzer.rs).                    *)
(*                                                                         *)
(* A file is a record: the DLLs and symbols it imports, the groups of      *)
(* strings it contains (one name for each needle list of the code), its    *)
(* product name, a resource table and what the payloads hold.  The table   *)
(* maps an offset to the entries of the directory there: a subdirectory, a *)
(* payload or something that cannot be read.                               *)
(***************************************************************************)
EXTENDS Orders

CONSTANTS
  MaxDepth,       \* deepest directory that is read (8)
  MaxResources,   \* MAX_RESOURCES, entries of all directories (1024)
  MaxPayload,     \* MAX_TOTAL, bytes of all payloads
  MaxImages,      \* MAX_FILES, different embedded images a report holds (128)
  PayloadSize     \* bytes of a payload

ASSUME LimitAssumption ==
  /\ MaxDepth \in Nat /\ MaxResources \in Nat /\ MaxPayload \in Nat /\ MaxImages \in Nat
  /\ \A p \in DOMAIN PayloadSize : PayloadSize[p] \in Nat

------------------------------------------------------------------------------
(* imported_capabilities: decorations and the DLL's name are stripped. *)
Catalog ==
  [ntloaddriver |-> "driver-loading", deviceiocontrol |-> "device-ioctl",
   mmmapiospace |-> "physical-memory", write_port_uchar |-> "port-io",
   setfirmwareenvironmentvariablew |-> "firmware-variables",
   winusb_controltransfer |-> "usb", hidd_getfeature |-> "hid"]

ImportedCapabilities(symbols) == {Catalog[s] : s \in symbols \cap DOMAIN Catalog}

Physical == {"physical-memory", "port-io"}

(* An embedded PE; `coff` says that its COFF symbols can be read. *)
Image(kernel, symbols, coff) ==
  [kind |-> "image", kernel |-> kernel, symbols |-> symbols, coff |-> coff]
Malformed == [kind |-> "malformed", kernel |-> FALSE, symbols |-> {}, coff |-> TRUE]
Data == [kind |-> "data", kernel |-> FALSE, symbols |-> {}, coff |-> TRUE]

------------------------------------------------------------------------------
(***************************************************************************)
(* resource_payloads.  Every error ends the walk and loses what was found. *)
(***************************************************************************)
IsDirectory(entry) == entry[1] = "directory"
IsPayload(entry) == entry[1] = "payload"
PayloadsOf(entries) == {entries[i][2] : i \in {k \in DOMAIN entries : IsPayload(entries[k])}}
(* The sum of the sizes: the bytes of different payloads are different.     *)
Bytes(payloads) == Cardinality(UNION {{p} \X (1 .. PayloadSize[p]) : p \in payloads})

WalkStart == [pending |-> << << 0, 0 >> >>, visited |-> {}, entries |-> 0, payloads |-> {},
              failed |-> FALSE]
Walking(w) == w.pending # << >> /\ ~w.failed
Fail(w) == [w EXCEPT !.failed = TRUE]

(* The directory `top` is read: its entries, then where they lead. *)
Enter(w, top, entries) ==
  LET subdirectories == Picked(entries, {k \in DOMAIN entries : IsDirectory(entries[k])})
  IN [w EXCEPT !.pending = SubSeq(@, 1, Len(@) - 1) \o
                 [k \in DOMAIN subdirectories |-> << subdirectories[k][2], top[2] + 1 >>],
               !.visited = @ \cup {top[1]},
               !.entries = @ + Len(entries),
               !.payloads = @ \cup PayloadsOf(entries)]

(* Mutant: the rest of the stack is lost when a directory has been read. *)
WalkStepShallow(w, table) ==
  LET top == w.pending[Len(w.pending)]
      entered == Enter([w EXCEPT !.pending = << top >>], top, table[top[1]])
  IN IF \/ top[2] > MaxDepth \/ top[1] \in w.visited
        \/ \E i \in DOMAIN table[top[1]] : table[top[1]][i][1] = "unreadable"
        \/ entered.entries > MaxResources \/ Bytes(entered.payloads) > MaxPayload
     THEN Fail(w) ELSE entered

WalkStep(w, table) ==
  LET top == w.pending[Len(w.pending)]
      entries == table[top[1]]
      entered == Enter(w, top, entries)
  IN IF \/ top[2] > MaxDepth \/ top[1] \in w.visited
        \/ \E i \in DOMAIN entries : entries[i][1] = "unreadable"
        \/ entered.entries > MaxResources \/ Bytes(entered.payloads) > MaxPayload
     THEN Fail(w) ELSE entered

------------------------------------------------------------------------------
(***************************************************************************)
(* The reference for resource_payloads: the entries of the directories S,  *)
(* which of them are links to a directory (<< 0, 0 >> stands for the one   *)
(* that leads to the root), what the root leads to, in any number of steps *)
(* or in at most n, and which tables are within the limits.                *)
(***************************************************************************)
IsTable(table) ==
  /\ IsFiniteSet(DOMAIN table) /\ 0 \in DOMAIN table
  /\ \A o \in DOMAIN table :
       /\ table[o] \in Seq({"directory", "payload", "unreadable"} \X Nat)
       /\ \A i \in DOMAIN table[o] :
            /\ IsDirectory(table[o][i]) => table[o][i][2] \in DOMAIN table
            /\ IsPayload(table[o][i]) => table[o][i][2] \in DOMAIN PayloadSize

EntryAt(table, e) == table[e[1]][e[2]]
EntriesOf(table, S) == UNION {{o} \X (DOMAIN table[o]) : o \in S}
PayloadsAt(table, S) ==
  {EntryAt(table, e)[2] : e \in {f \in EntriesOf(table, S) : IsPayload(EntryAt(table, f))}}

RootLink == << 0, 0 >>
Links(table, S) == {RootLink} \cup {e \in EntriesOf(table, S) : IsDirectory(EntryAt(table, e))}
Target(table, link) == IF link = RootLink THEN 0 ELSE EntryAt(table, link)[2]

Closed(table, S) == \A link \in Links(table, S) : Target(table, link) \in S
Reached(table) ==
  {o \in DOMAIN table : \A S \in SUBSET DOMAIN table : Closed(table, S) => o \in S}

Follows(table, o, q) == \E link \in Links(table, {o}) \ {RootLink} : Target(table, link) = q
Paths(table, n) ==
  {p \in [0 .. n -> DOMAIN table] : p[0] = 0 /\ \A i \in 1 .. n : Follows(table, p[i - 1], p[i])}
ReachedWithin(table, n) ==
  {o \in DOMAIN table : \E k \in 0 .. n : \E p \in Paths(table, k) : p[k] = o}

IsTree(table, S) ==
  \A a, b \in Links(table, S) : Target(table, a) = Target(table, b) => a = b

Acceptable(table) ==
  LET reached == Reached(table)
      entries == EntriesOf(table, reached)
  IN /\ IsTree(table, reached)
     /\ reached \subseteq ReachedWithin(table, MaxDepth)
     /\ \A e \in entries : EntryAt(table, e)[1] # "unreadable"
     /\ Cardinality(entries) <= MaxResources
     /\ Bytes(PayloadsAt(table, reached)) <= MaxPayload

------------------------------------------------------------------------------
(***************************************************************************)
(* embedded_dependencies, for the planner: one malformed image spoils all. *)
(***************************************************************************)
EmbeddedDependencies(w, content) ==
  LET found == {content[p] : p \in w.payloads}
  IN [known |-> ~w.failed /\ Malformed \notin found,
      kernel |-> \E image \in found : image.kernel,
      capabilities |-> ImportedCapabilities(UNION {image.symbols : image \in found})]

(***************************************************************************)
(* inspect() of one executable: image() of the file, image() of each       *)
(* embedded PE, then collect().  Too many embedded images end it.          *)
(***************************************************************************)
Inspect(file, w) ==
  LET found == IF w.failed THEN {} ELSE {file.content[p] : p \in w.payloads}
      images == {image \in found : image.kind = "image"}
  IN [made |-> Cardinality(images) <= MaxImages,
      kernel |-> \E image \in images : image.kernel,
      capabilities |-> ImportedCapabilities(file.symbols \cup UNION {i.symbols : i \in images}),
      incomplete |-> w.failed \/ Malformed \in found \/ \E image \in images : ~image.coff]

------------------------------------------------------------------------------
(* analyze_trust: signals of the strings and of the imported DLLs. *)
AntiCheat(file) == file.strings \cap {"kernel-anticheat", "user-anticheat"}

MarkedDriver(file) ==
  \/ file.strings \cap {"kernel-driver", "kernel-anticheat"} # {}
  \/ "setupapi" \in file.dlls /\ "driver-file" \in file.strings

MarkedTrust(file) ==
       (file.strings \cap {"elevation", "windows-service", "tpm", "secure-boot"})
  \cup (IF MarkedDriver(file) THEN {"kernel-driver"} ELSE {})
  \cup (IF MarkedDriver(file) /\ "device-interface" \in file.strings
        THEN {"direct-hardware"} ELSE {})

DetectsHostFirmware(file) ==
  file.product = "bios update" \/ {"flash-tool", "firmware"} \subseteq file.strings

(* What analyze() adds from the imports of the file and of embedded images. *)
Dependencies(file, embedded) ==
  ImportedCapabilities(file.symbols) \cup (IF embedded.known THEN embedded.capabilities ELSE {})

Trust(file, embedded) ==
  LET dependencies == Dependencies(file, embedded)
  IN MarkedTrust(file)
     \cup (IF "driver-loading" \in dependencies \/ (embedded.known /\ embedded.kernel)
           THEN {"kernel-driver"} ELSE {})
     \cup (IF dependencies \cap (Physical \cup {"firmware-variables"}) # {}
              \/ DetectsHostFirmware(file)
           THEN {"direct-hardware"} ELSE {})

IndicatorWhen(condition, indicator) == IF condition THEN {indicator} ELSE {}

Indicators(file, embedded) ==
  LET trust == Trust(file, embedded)
  IN IndicatorWhen("unity" \in file.strings, "unity")
     \cup IndicatorWhen("unreal" \in file.strings \/ "xinput1_3" \in file.dlls, "game")
     \cup IndicatorWhen("electron" \in file.strings, "electron")
     \cup IndicatorWhen(Dependencies(file, embedded) \cap Physical # {},
                        "native-hardware-protocol-required")
     \cup IndicatorWhen(DetectsHostFirmware(file), "host-firmware-update")
     \cup IndicatorWhen("elevation" \in trust, "driver-or-elevation")
     \cup (trust \cap {"kernel-driver", "windows-service"})
     \cup IndicatorWhen(AntiCheat(file) # {}, "anti-cheat")

GraphicsDlls == [d3d12 |-> "Direct3D 12", d3d11 |-> "Direct3D 11", d3d9 |-> "Direct3D 9",
                 dxgi |-> "DXGI", opengl32 |-> "OpenGL"]
GraphicsApis(file) ==
  LET gameMarker == file.strings \cap {"unity", "unreal"} # {} \/ "xinput1_3" \in file.dlls
      named == file.dlls \cup (IF gameMarker THEN file.strings ELSE {})
  IN {GraphicsDlls[d] : d \in named \cap DOMAIN GraphicsDlls}

Frameworks(file) ==
       IndicatorWhen("mscoree" \in file.dlls \/ "dotnet" \in file.strings, "dotnet")
  \cup IndicatorWhen("vcruntime" \in file.dlls, "visual-c++")
  \cup IndicatorWhen("mfplat" \in file.dlls \/ "media-foundation" \in file.strings,
                     "media-foundation")

(* classify_application, after the firmware test that precedes it. *)
Classify(file, embedded) ==
  LET indicators == Indicators(file, embedded)
      trust == Trust(file, embedded)
  IN IF DetectsHostFirmware(file) THEN "firmware-update"
     ELSE IF "game" \in indicators \/ AntiCheat(file) # {} THEN "game"
     ELSE IF trust \cap {"kernel-driver", "direct-hardware"} # {} THEN "driver-package"
     ELSE IF "windows-service" \in indicators \/ "utility" \in file.strings THEN "system-utility"
     ELSE IF "media-foundation" \in Frameworks(file) \/ "player" \in file.strings THEN "media"
     ELSE IF "office" \in file.strings THEN "productivity"
     ELSE IF "old-windows" \in file.strings THEN "legacy"
     ELSE "general"

Info(file, embedded) ==
  [class |-> Classify(file, embedded), trust |-> Trust(file, embedded),
   indicators |-> Indicators(file, embedded), sha256 |-> file.sha256,
   product |-> file.product, graphics |-> GraphicsApis(file),
   frameworks |-> Frameworks(file)]

(* Mutant: the imports of embedded images are not looked at. *)
AnalyzeOutside(file, w) ==
  Info(file, [known |-> FALSE, kernel |-> FALSE, capabilities |-> {}])

Analyze(file, w) == Info(file, EmbeddedDependencies(w, file.content))

==============================================================================
