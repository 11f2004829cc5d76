------------------------------ MODULE MCPlanner ------------------------------
(***************************************************************************)
(* Preparation for TLC.  The packages cover every signal of the analysis   *)
(* and every small resource table; the rest of the input covers every      *)
(* availability a candidate can have, every class and backend a user       *)
(* profile can prefer, and every record strategy memory can hold.          *)
(***************************************************************************)
EXTENDS Preparation

UserProfile(runner, class, backend) ==
  [id |-> "user", sha256 |-> {"app"}, products |-> {}, indicators |-> {},
   runner |-> runner, class |-> class, backend |-> backend,
   components |-> {}, graphics |-> None]

UserProfiles ==
       { UserProfile(None, c, None) : c \in Class \cup {None} }
  \cup { UserProfile("wine-stable", c, None) : c \in {None, "wine", "virtual-machine"} }
  \cup { UserProfile(None, "proton-umu", "umu-ge-proton"),
         UserProfile(None, "wine", "wine-stable") }

LearnedRecords ==
  { [class |-> "wine", backend |-> "wine-staging"],
    [class |-> "wine", backend |-> "wine-stable"],
    [class |-> "proton-umu", backend |-> "umu"],
    [class |-> "proton-umu", backend |-> "umu-ge-proton"],
    [class |-> "virtual-machine", backend |-> "libvirt-qemu"],
    [class |-> "virtual-machine", backend |-> "libvirt-qemu:win11"] }

Hosts ==
  { a \cup u \cup v :
      a \in {{}, {"x86_64"}},
      u \in {{}, {"python3"}, {"umu_launcher"}},
      v \in {{}, VmPrerequisites \cup {"windows_vm_configured"}} }

MCPayloadSize == << 1, 1, 2 >>

(* Packages without resources, and what each group of strings adds. *)
Offset == 0 .. 2
Plain ==
  [dlls |-> {"d3d11", "vcruntime"}, strings |-> {}, symbols |-> {"deviceiocontrol"},
   sha256 |-> "app", product |-> "app", table |-> [o \in Offset |-> << >>],
   content |-> << Data, Data, Data >>]

Signals ==
  { {"unreal"}, {"tpm"}, {"secure-boot", "electron"}, {"electron"}, {"unreal", "tpm"},
    {"unity", "electron"}, {"kernel-driver"}, {"kernel-driver", "device-interface"},
    {"kernel-anticheat", "unreal"}, {"user-anticheat"}, {"driver-file"},
    {"device-interface"}, {"windows-service", "elevation"}, {"flash-tool"},
    {"flash-tool", "firmware"}, {"firmware", "utility"} }

SignalPackages ==
  {Plain} \cup
  { [Plain EXCEPT !.strings = s, !.symbols = y, !.dlls = @ \cup d] :
      s \in Signals,
      y \in {{"deviceiocontrol"}, {"write_port_uchar"}},
      d \in {{}, {"setupapi"}} } \cup
  { [Plain EXCEPT !.symbols = {y}] : y \in DOMAIN Catalog } \cup
  { [Plain EXCEPT !.product = "bios update", !.strings = s] : s \in {{}, {"unreal"}} }

(* Packages with a kernel driver, a port-I/O image and a third payload. *)
ResourceEntry ==
  ({"directory"} \X Offset) \cup ({"payload"} \X (1 .. 3)) \cup {<< "unreadable", 0 >>}
UpTo(n) == UNION {[1 .. k -> ResourceEntry] : k \in 0 .. n}

Tables ==
  { [o \in Offset |-> IF o = 0 THEN root ELSE IF o = 1 THEN one ELSE two] :
      root \in UpTo(2), one \in UpTo(1), two \in UpTo(1) }

Contents ==
  { << Image(TRUE, {"deviceiocontrol"}, TRUE), Image(FALSE, {"write_port_uchar"}, TRUE), c >> :
      c \in {Malformed, Image(FALSE, {"setfirmwareenvironmentvariablew"}, FALSE)} }

ResourcePackages == {[Plain EXCEPT !.table = t, !.content = c] : t \in Tables, c \in Contents}

MCPackages == SignalPackages \cup ResourcePackages

(* The planning of packages with resources is tried on one able host. *)
MCContexts(file) ==
  IF file \in SignalPackages
  THEN [host : Hosts, user : UserProfiles \cup {None}, learned : LearnedRecords \cup {None}]
  ELSE [host : {{"x86_64", "python3"} \cup VmPrerequisites \cup {"windows_vm_configured"}},
        user : {None, UserProfile(None, "wine", "wine-stable")},
        learned : {None, [class |-> "wine", backend |-> "wine-staging"]}]
==============================================================================
