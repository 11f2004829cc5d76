------------------------------- MODULE AppStore -------------------------------
(***************************************************************************)
(* The installed-application store: the registry apps.json                 *)
(* (src/registry.rs), the desktop entries and icons of src/desktop.rs, and *)
(* the environments they belong to, under the commands that change them:   *)
(* `cognac install` of something new or of something installed already     *)
(* (src/installer.rs) and `cognac remove` (src/main.rs).  Commands of      *)
(* several processes interleave: the registry is loaded, changed and       *)
(* replaced without a lock.  A command can stop between any two steps,     *)
(* because it is killed or because a file operation fails.  A registry of  *)
(* schema 1 is backed up and replaced by the first command that saves it.  *)
(***************************************************************************)
EXTENDS Naturals, FiniteSets

CONSTANTS
  App,          \* application ids
  Query,        \* what a user types that is not an id
  Matching,     \* [Query -> SUBSET App], applications whose name contains it
  Proc,         \* commands that can be active at once
  Legacy,       \* applications a registry of schema 1 lists
  Unmanaged,    \* those of them whose prefix is outside Cognac's directories
  MaxCommands,  \* bound: commands that are ever started
  None

ASSUME StoreAssumption ==
  /\ App # {} /\ None \notin App /\ Query \cap App = {}
  /\ Matching \in [Query -> SUBSET App]
  /\ Legacy \subseteq App /\ Unmanaged \subseteq Legacy
  /\ MaxCommands \in Nat

VARIABLES
  file,      \* apps.json
  backup,    \* apps.v1.json
  launchers, \* cognac-<id>.desktop files
  icons,     \* cognac-<id>.svg files
  dirs,      \* directories that hold an installation
  me,        \* [Proc -> locals of the command]
  commands,  \* number of commands started
  history    \* what happened to the store so far

vars == << file, backup, launchers, icons, dirs, me, commands, history >>

------------------------------------------------------------------------------
Home == {"environments", "prefixes", "elsewhere"}
Entry == [home : Home, icon : BOOLEAN, hash : BOOLEAN]
Apps == [App -> Entry \cup {None}]
ASSUME NoneAssumption == None \notin Entry

Schema == {"absent", "legacy", "current"}
At == {"idle", "installing", "icon", "desktop", "load", "save", "copying", "persist",
       "undesktop", "unicon", "undirectory"}
Command == [at : At, verb : {"install", "reuse", "remove"}, app : App, entry : Entry \cup {None},
            apps : Apps, legacy : BOOLEAN, version : Nat, source : Schema,
            during : SUBSET App]

Installed == [home |-> "environments", icon |-> TRUE, hash |-> TRUE]
Nothing == [a \in App |-> None]
Listed(apps) == {a \in App : apps[a] # None}

Idle == [at |-> "idle", verb |-> "install", app |-> CHOOSE a \in App : TRUE, entry |-> None,
         apps |-> Nothing, legacy |-> FALSE, version |-> 0, source |-> "absent", during |-> {}]

at(p) == me[p].at
store == << launchers, icons, dirs >>

(***************************************************************************)
(* A fresh store, or one an earlier version left: its applications have no *)
(* digest of their installer, and only some have an icon of their own.     *)
(***************************************************************************)
LegacyHome(a) == IF a \in Unmanaged THEN "elsewhere" ELSE "prefixes"

Init ==
  /\ \E schema \in {"absent", "legacy"}, iconic \in SUBSET Legacy :
       LET old == IF schema = "legacy" THEN Legacy ELSE {}
       IN /\ file = [schema |-> schema, version |-> 0,
                     apps |-> [a \in App |->
                       IF a \in old
                       THEN [home |-> LegacyHome(a), icon |-> a \in iconic, hash |-> FALSE]
                       ELSE None]]
          /\ launchers = old /\ icons = old \cap iconic
          /\ dirs = {<< a, LegacyHome(a) >> : a \in old}
          /\ history = [born |-> schema, raced |-> FALSE, torn |-> FALSE,
                        interrupted |-> {}, contended |-> {}, removed |-> None]
  /\ backup = "absent"
  /\ me = [p \in Proc |-> Idle]
  /\ commands = 0

------------------------------------------------------------------------------
(***************************************************************************)
(* AppRegistry::load: what the file holds and whether it is of schema 1.   *)
(* (A newer schema, or a file that does not parse, ends the command.)      *)
(***************************************************************************)
Loaded(c) == [c EXCEPT !.apps = file.apps, !.legacy = file.schema = "legacy",
                       !.version = file.version]

(* Mutant: an id is taken as it is. *)
ResolveUnchecked(query, apps) == IF query \in App THEN {query} ELSE {}

(* AppRegistry::get: by id, else the only name that contains the query. *)
Resolve(query, apps) ==
  IF query \in Listed(apps) THEN {query}
  ELSE LET matches == IF query \in Query THEN Matching[query] \cap Listed(apps) ELSE {}
       IN IF Cardinality(matches) = 1 THEN matches ELSE {}

Fresh(verb, a) == [Idle EXCEPT !.verb = verb, !.app = a]
Active(a) == {p \in Proc : at(p) # "idle" /\ me[p].app = a}

(* Another command on the same application is in progress: for the history. *)
Started(a) ==
  history' = [history EXCEPT !.contended = IF Active(a) = {} THEN @ ELSE @ \cup {a}]

(***************************************************************************)
(* `cognac install`: an application with this installer's digest is        *)
(* integrated again when its environment shows another program, with the   *)
(* registry loaded here; any other one is installed.                       *)
(***************************************************************************)
StartInstall(p) ==
  /\ at(p) = "idle"
  /\ commands < MaxCommands /\ commands' = commands + 1
  /\ \E a \in App :
       LET known == file.apps[a] # None /\ file.apps[a].hash
       IN /\ known => << a, file.apps[a].home >> \in dirs
          /\ Started(a)
          /\ me' = [me EXCEPT ![p] =
               IF known
               THEN [Loaded(Fresh("reuse", a)) EXCEPT
                       !.at = "icon", !.entry = [file.apps[a] EXCEPT !.icon = TRUE]]
               ELSE [Loaded(Fresh("install", a)) EXCEPT !.at = "installing",
                                                        !.entry = Installed]]
  /\ UNCHANGED << file, backup, store >>

(* The installation: a directory appears; it succeeds or is given up. *)
RunInstaller(p) ==
  /\ at(p) = "installing"
  /\ dirs' = dirs \cup {<< me[p].app, "environments" >>}
  /\ me' = [me EXCEPT ![p].at = "icon"]
  /\ UNCHANGED << file, backup, launchers, icons, commands, history >>

(* desktop::integrate: the icon, then the desktop entry. *)
WriteIcon(p) ==
  /\ at(p) = "icon"
  /\ icons' = icons \cup {me[p].app}
  /\ me' = [me EXCEPT ![p].at = "desktop"]
  /\ UNCHANGED << file, backup, launchers, dirs, commands, history >>

WriteDesktop(p) ==
  /\ at(p) = "desktop"
  /\ launchers' = launchers \cup {me[p].app}
  /\ me' = [me EXCEPT ![p].at = IF me[p].verb = "install" THEN "load" ELSE "save",
                      ![p].apps = [@ EXCEPT ![me[p].app] = me[p].entry]]
  /\ UNCHANGED << file, backup, icons, dirs, commands, history >>

(* Mutant: the registry loaded when the command began is saved. *)
SaveWithoutReload(p) ==
  /\ at(p) = "load"
  /\ me' = [me EXCEPT ![p].at = "save"]
  /\ UNCHANGED << file, backup, store, commands, history >>

(* Mutant: the application is inserted before the registry is loaded again. *)
ReloadOverInsert(p) ==
  /\ at(p) = "load"
  /\ me' = [me EXCEPT ![p] = [Loaded(@) EXCEPT !.at = "save"]]
  /\ UNCHANGED << file, backup, store, commands, history >>

(* register() loads the registry again, now that the installer has ended. *)
Reload(p) ==
  /\ at(p) = "load"
  /\ me' = [me EXCEPT ![p] =
              [Loaded(@) EXCEPT !.at = "save",
                                !.apps = [file.apps EXCEPT ![me[p].app] = me[p].entry]]]
  /\ UNCHANGED << file, backup, store, commands, history >>

------------------------------------------------------------------------------
(***************************************************************************)
(* `cognac remove`: the entry leaves the loaded registry; then the desktop *)
(* entry, the icon the entry names, and the environment are deleted.  One  *)
(* outside the managed directories is refused at that point.               *)
(***************************************************************************)
StartRemove(p) ==
  /\ at(p) = "idle"
  /\ commands < MaxCommands /\ commands' = commands + 1
  /\ \E query \in App \cup Query : \E a \in Resolve(query, file.apps) :
       /\ Started(a)
       /\ me' = [me EXCEPT ![p] =
            [Loaded(Fresh("remove", a)) EXCEPT
               !.at = "undesktop", !.entry = file.apps[a], !.apps = [@ EXCEPT ![a] = None]]]
  /\ UNCHANGED << file, backup, store >>

RemoveDesktop(p) ==
  /\ at(p) = "undesktop"
  /\ launchers' = launchers \ {me[p].app}
  /\ me' = [me EXCEPT ![p].at = "unicon"]
  /\ UNCHANGED << file, backup, icons, dirs, commands, history >>

RemoveIcon(p) ==
  /\ at(p) = "unicon"
  /\ icons' = IF me[p].entry.icon THEN icons \ {me[p].app} ELSE icons
  /\ me' = [me EXCEPT ![p].at = "undirectory"]
  /\ UNCHANGED << file, backup, launchers, dirs, commands, history >>

(* Mutants: the check comes after the removal; a legacy prefix is forgotten. *)
RemoveThenRefuse(p) ==
  /\ at(p) = "undirectory"
  /\ LET dir == << me[p].app, me[p].entry.home >>
     IN /\ dirs' = dirs \ {dir}
        /\ me' = IF me[p].entry.home = "elsewhere" /\ dir \in dirs
                 THEN [me EXCEPT ![p] = Idle] ELSE [me EXCEPT ![p].at = "save"]
  /\ UNCHANGED << file, backup, launchers, icons, commands, history >>

RemoveCurrent(p) ==
  /\ at(p) = "undirectory"
  /\ dirs' = dirs \ {<< me[p].app, "environments" >>}
  /\ me' = [me EXCEPT ![p].at = "save"]
  /\ UNCHANGED << file, backup, launchers, icons, commands, history >>

RemoveDirectory(p) ==
  /\ at(p) = "undirectory"
  /\ LET dir == << me[p].app, me[p].entry.home >>
     IN IF me[p].entry.home = "elsewhere" /\ dir \in dirs
        THEN UNCHANGED dirs /\ me' = [me EXCEPT ![p] = Idle]
        ELSE dirs' = dirs \ {dir} /\ me' = [me EXCEPT ![p].at = "save"]
  /\ UNCHANGED << file, backup, launchers, icons, commands, history >>

------------------------------------------------------------------------------
(***************************************************************************)
(* AppRegistry::save: a registry that was loaded as schema 1 is copied to  *)
(* the backup unless there is one, then the file is replaced.              *)
(***************************************************************************)
Stale(p) == me[p].version # file.version

(* Mutant: nothing is backed up. *)
SaveUnpreserved(p) ==
  /\ at(p) = "save"
  /\ me' = [me EXCEPT ![p].at = "persist"]
  /\ UNCHANGED << file, backup, store, commands, history >>

CheckBackup(p) ==
  /\ at(p) = "save"
  /\ IF me[p].legacy /\ backup = "absent"
     THEN /\ backup' = "partial"
          /\ me' = [me EXCEPT ![p].at = "copying", ![p].source = file.schema]
     ELSE UNCHANGED backup /\ me' = [me EXCEPT ![p].at = "persist"]
  /\ history' = [history EXCEPT !.raced = @ \/ Stale(p)]
  /\ UNCHANGED << file, store, commands >>

CopyBackup(p) ==
  /\ at(p) = "copying"
  /\ backup' = me[p].source
  /\ me' = [me EXCEPT ![p].at = "persist"]
  /\ UNCHANGED << file, store, commands, history >>

(* What an installer in progress remembers of others: for InstallKeepsOthers. *)
Noticed(q, p) ==
  IF me[p].verb = "remove" THEN me[q].during \ {me[p].app}
  ELSE IF at(q) = "installing" THEN me[q].during \cup {me[p].app} ELSE me[q].during

Persist(p) ==
  /\ at(p) = "persist"
  /\ file' = [schema |-> "current", version |-> file.version + 1, apps |-> me[p].apps]
  /\ me' = [q \in Proc |-> IF q = p THEN Idle ELSE [me[q] EXCEPT !.during = Noticed(q, p)]]
  /\ history' = [history EXCEPT
       !.raced = @ \/ Stale(p),
       !.interrupted = IF me[p].verb = "reuse" THEN @ ELSE @ \ {me[p].app},
       !.removed = IF me[p].verb = "remove" THEN [app |-> me[p].app, entry |-> me[p].entry]
                   ELSE None]
  /\ UNCHANGED << backup, store, commands >>

(* The command stops where it is. *)
Stop(p) ==
  /\ at(p) # "idle"
  /\ me' = [me EXCEPT ![p] = Idle]
  /\ history' = [history EXCEPT
       !.torn = @ \/ at(p) = "copying",
       !.interrupted = @ \cup {me[p].app}]
  /\ UNCHANGED << file, backup, commands >>
  /\ \/ UNCHANGED store
     \/ /\ at(p) = "installing"
        /\ dirs' = dirs \cup {<< me[p].app, "environments" >>}
        /\ UNCHANGED << launchers, icons >>

------------------------------------------------------------------------------
Installing(p) == StartInstall(p) \/ RunInstaller(p) \/ WriteIcon(p) \/ WriteDesktop(p) \/ Reload(p)
Removing(p) == StartRemove(p) \/ RemoveDesktop(p) \/ RemoveIcon(p) \/ RemoveDirectory(p)
Saving(p) == CheckBackup(p) \/ CopyBackup(p) \/ Persist(p)

Next == \E p \in Proc : Installing(p) \/ Removing(p) \/ Saving(p) \/ Stop(p)

Spec == Init /\ [][Next]_vars

------------------------------------------------------------------------------
(* Every variable has its type; a command knows the entry it works on. *)
TypeOK ==
  /\ \A p \in Proc : at(p) # "idle" => me[p].entry # None
  /\ file \in [schema : Schema, version : Nat, apps : Apps]
  /\ backup \in Schema \cup {"partial"}
  /\ launchers \subseteq App /\ icons \subseteq App
  /\ dirs \subseteq App \X Home
  /\ me \in [Proc -> Command]
  /\ commands \in 0 .. MaxCommands
  /\ history \in [born : Schema, raced : BOOLEAN, torn : BOOLEAN, interrupted : SUBSET App,
                  contended : SUBSET App,
                  removed : [app : App, entry : Entry] \cup {None}]

(***************************************************************************)
(* An installer may run for an hour; what another command registers in     *)
(* that time is not undone when its own application is registered.  (Of    *)
(* two others the later save may undo the earlier; this is about one.)     *)
(***************************************************************************)
InstallKeepsOthers ==
  [][\A p \in Proc :
       at(p) = "persist" /\ me[p].verb = "install" /\ Persist(p) =>
         me[p].during \cap Listed(file.apps) \subseteq Listed(file'.apps)]_vars

(***************************************************************************)
(* The store can be out of step about an application only while a command  *)
(* works on it, after one stopped half-way (until one on it is completed), *)
(* when two commands worked on it at once, or after a command saved a      *)
(* registry that another one had replaced since it was loaded.             *)
(***************************************************************************)
Settled(a) ==
  /\ Active(a) = {} /\ a \notin history.interrupted \cup history.contended
  /\ ~history.raced

(* A registered application can be opened: its environment exists. *)
EntryUsable ==
  \A a \in App :
    Settled(a) /\ file.apps[a] # None => << a, file.apps[a].home >> \in dirs

(* A launcher runs `cognac run <id>`, and that finds the application. *)
LauncherRegistered ==
  \A a \in launchers : Settled(a) => file.apps[a] # None

(***************************************************************************)
(* `cognac remove` that reports success has left nothing of what the entry *)
(* named, even if earlier attempts to remove it stopped half-way.          *)
(***************************************************************************)
RemoveLeavesNothing ==
  history.removed # None /\ Settled(history.removed.app) =>
    LET a == history.removed.app
    IN /\ file.apps[a] = None /\ a \notin launchers
       /\ << a, history.removed.entry.home >> \notin dirs
       /\ history.removed.entry.icon => a \notin icons

(***************************************************************************)
(* A registry of schema 1 is replaced only once its copy is complete, and  *)
(* the copy is never replaced, unless copying stopped half-way or two      *)
(* commands migrated it at once.                                           *)
(***************************************************************************)
LegacyPreserved ==
  history.born = "legacy" /\ file.schema = "current" =>
    \/ backup = "legacy"
    \/ history.torn \/ history.raced
    \/ \E p \in Proc : at(p) = "copying"

==============================================================================
