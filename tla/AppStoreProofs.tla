---------------------------- MODULE AppStoreProofs ----------------------------
(***************************************************************************)
(* Theorems about AppStore: for any applications, any number of commands   *)
(* and of overlapping processes, but for InstallKeepsOthers, which is      *)
(* about two commands at a time.                                           *)
(***************************************************************************)
EXTENDS AppStore, TLAPS

------------------------------------------------------------------------------
(***************************************************************************)
(* The inductive invariant.  First, what a command holds in memory.        *)
(***************************************************************************)
Saves(p) == at(p) \in {"save", "copying", "persist"}
Deletes(p) == at(p) \in {"undesktop", "unicon", "undirectory"}
Integrates(p) == at(p) \in {"icon", "desktop"}

(* The registry in memory is the one that will be saved. *)
Holds(p) == Saves(p) \/ Deletes(p) \/ (me[p].verb = "reuse" /\ Integrates(p))

(* A command is where its verb leads it, and its own entry is in place. *)
Shape ==
  \A p \in Proc :
    /\ at(p) \in {"installing", "load"} => me[p].verb = "install"
    /\ Integrates(p) => me[p].verb \in {"install", "reuse"}
    /\ Deletes(p) => me[p].verb = "remove"
    /\ at(p) # "idle" /\ me[p].verb = "install" => me[p].entry = Installed
    /\ Holds(p) /\ me[p].verb = "remove" => me[p].apps[me[p].app] = None
    /\ Saves(p) /\ me[p].verb # "remove" => me[p].apps[me[p].app] = me[p].entry

(* As long as nobody replaced the file, memory agrees with it but for the  *)
(* command's own application.                                              *)
Fresher ==
  \A p \in Proc : Holds(p) =>
    /\ me[p].version <= file.version
    /\ me[p].version = file.version =>
         /\ me[p].legacy <=> file.schema = "legacy"
         /\ \A a \in App \ {me[p].app} : me[p].apps[a] = file.apps[a]

(* Without a contender the command that works on an application is alone.  *)
Alone ==
  \A p, q \in Proc :
    at(p) # "idle" /\ at(q) # "idle" /\ me[p].app = me[q].app =>
      p = q \/ me[p].app \in history.contended

(* What such a command has put on disk stays there until it is done,       *)
InPlace ==
  \A p \in Proc :
    at(p) \notin {"idle", "installing"} /\ me[p].verb # "remove"
      /\ me[p].app \notin history.contended =>
        << me[p].app, me[p].entry.home >> \in dirs

(* what it has deleted stays away,                                         *)
Deleted ==
  \A p \in Proc :
    at(p) # "idle" /\ me[p].verb = "remove" /\ me[p].app \notin history.contended =>
      /\ at(p) # "undesktop" => me[p].app \notin launchers
      /\ at(p) = "undirectory" \/ Saves(p) => (me[p].entry.icon => me[p].app \notin icons)
      /\ Saves(p) => << me[p].app, me[p].entry.home >> \notin dirs

(* and the entry that a removal or an integration began with is registered. *)
Known ==
  \A p \in Proc :
    at(p) # "idle" /\ me[p].verb # "install"
      /\ me[p].app \notin history.contended /\ ~history.raced =>
        file.apps[me[p].app] # None

(***************************************************************************)
(* Then the store: what holds of an application nothing went wrong about,  *)
(* with or without a command at work on it.                                *)
(***************************************************************************)
Calm(a) == a \notin history.interrupted \cup history.contended /\ ~history.raced

UsableMeanwhile ==
  \A a \in App : Calm(a) /\ file.apps[a] # None =>
    \/ << a, file.apps[a].home >> \in dirs
    \/ \E p \in Active(a) : me[p].verb = "remove" /\ Saves(p)

RegisteredMeanwhile ==
  \A a \in launchers : Calm(a) =>
    file.apps[a] # None \/ \E p \in Active(a) : me[p].verb = "install"

RemovedMeanwhile ==
  history.removed # None /\ Calm(history.removed.app) =>
    LET a == history.removed.app
    IN /\ file.apps[a] = None
       /\ Active(a) # {} \/
            /\ a \notin launchers /\ << a, history.removed.entry.home >> \notin dirs
            /\ history.removed.entry.icon => a \notin icons

(* And the registry an earlier version left.                               *)
Migration ==
  history.born = "legacy" /\ ~history.torn /\ ~history.raced =>
    LET kept == backup = "legacy" \/ \E p \in Proc : at(p) = "copying"
    IN /\ file.schema = "legacy" \/ kept
       /\ \A p \in Proc : at(p) = "persist" => kept
       /\ \A p \in Proc : at(p) = "copying" => me[p].source = "legacy"
       /\ backup = "absent" \/ kept

StoreInv ==
  /\ TypeOK /\ Shape /\ Fresher /\ Alone /\ InPlace /\ Deleted /\ Known
  /\ UsableMeanwhile /\ RegisteredMeanwhile /\ RemovedMeanwhile /\ Migration

------------------------------------------------------------------------------
(***************************************************************************)
(* Types.                                                                  *)
(***************************************************************************)
LEMMA IdleType == Idle \in Command
<1>1. (CHOOSE a \in App : TRUE) \in App
  BY StoreAssumption
<1>2. Nothing \in Apps
  BY DEF Nothing, Apps
<1> QED BY <1>1, <1>2 DEF Idle, Command, At, Schema

LEMMA InstalledType == Installed \in Entry /\ Installed # None
<1>1. Installed \in Entry
  BY DEF Installed, Entry, Home
<1> QED BY <1>1, NoneAssumption

LEMMA ResolveListed ==
  ASSUME NEW query, NEW apps \in Apps, NEW a \in Resolve(query, apps)
  PROVE  a \in App /\ apps[a] # None
BY DEF Resolve, Listed

LEMMA InitTypes == Init => TypeOK
<1> SUFFICES ASSUME Init PROVE TypeOK
  OBVIOUS
<1>1. me \in [Proc -> Command] /\ \A p \in Proc : at(p) = "idle"
  BY IdleType DEF Init, Idle, at
<1>2. commands \in 0 .. MaxCommands
  BY StoreAssumption DEF Init
<1>3. PICK schema \in {"absent", "legacy"}, iconic \in SUBSET Legacy :
        LET old == IF schema = "legacy" THEN Legacy ELSE {}
        IN /\ file = [schema |-> schema, version |-> 0,
                      apps |-> [a \in App |->
                        IF a \in old
                        THEN [home |-> LegacyHome(a), icon |-> a \in iconic, hash |-> FALSE]
                        ELSE None]]
           /\ launchers = old /\ icons = old \cap iconic
           /\ dirs = {<< a, LegacyHome(a) >> : a \in old}
           /\ history = [born |-> schema, raced |-> FALSE, torn |-> FALSE,
                         interrupted |-> {}, contended |-> {}, removed |-> None]
  BY DEF Init
<1> DEFINE old == IF schema = "legacy" THEN Legacy ELSE {}
<1>4. old \subseteq App /\ \A a \in App : LegacyHome(a) \in Home
  BY StoreAssumption DEF LegacyHome, Home
<1>5. file.apps \in Apps
  BY <1>3, <1>4 DEF Apps, Entry
<1>6. file \in [schema : Schema, version : Nat, apps : Apps]
  BY <1>3, <1>5 DEF Schema
<1>7. launchers \subseteq App /\ icons \subseteq App /\ dirs \subseteq App \X Home
  BY <1>3, <1>4
<1>8. history \in [born : Schema, raced : BOOLEAN, torn : BOOLEAN, interrupted : SUBSET App,
                   contended : SUBSET App,
                   removed : [app : App, entry : Entry] \cup {None}]
  BY <1>3 DEF Schema
<1>9. backup \in Schema \cup {"partial"}
  BY DEF Init, Schema
<1> QED BY <1>1, <1>2, <1>6, <1>7, <1>8, <1>9 DEF TypeOK, at

(* Of a command that is not idle. *)
LEMMA CommandTypes ==
  ASSUME NEW p \in Proc, TypeOK
  PROVE  /\ me[p] \in Command /\ me[p].app \in App /\ me[p].apps \in Apps
         /\ me[p].entry \in Entry \cup {None} /\ me[p].version \in Nat
         /\ at(p) # "idle" => me[p].entry \in Entry
BY DEF TypeOK, Command, at

LEMMA LoadedFields ==
  ASSUME TypeOK, NEW c \in Command
  PROVE  /\ Loaded(c) \in Command /\ Loaded(c).at = c.at /\ Loaded(c).verb = c.verb
         /\ Loaded(c).app = c.app /\ Loaded(c).entry = c.entry /\ Loaded(c).during = c.during
         /\ Loaded(c).apps = file.apps /\ Loaded(c).version = file.version
         /\ Loaded(c).legacy = (file.schema = "legacy")
BY DEF TypeOK, Loaded, Command

LEMMA AppsUpdate ==
  ASSUME NEW apps \in Apps, NEW a \in App, NEW e \in Entry \cup {None}
  PROVE  /\ [apps EXCEPT ![a] = e] \in Apps
         /\ [apps EXCEPT ![a] = e][a] = e
         /\ \A b \in App \ {a} : [apps EXCEPT ![a] = e][b] = apps[b]
BY DEF Apps

------------------------------------------------------------------------------
(***************************************************************************)
(* What each step does to the commands, field by field.  Where nothing is  *)
(* said the other variables are as in the action.                          *)
(***************************************************************************)
Keeps(p) ==
  /\ me'[p].verb = me[p].verb /\ me'[p].app = me[p].app /\ me'[p].entry = me[p].entry
  /\ me'[p].legacy = me[p].legacy /\ me'[p].version = me[p].version

OthersKeep(p) ==
  /\ me' \in [Proc -> Command]
  /\ \A q \in Proc \ {p} :
       Keeps(q) /\ me'[q].at = me[q].at /\ me'[q].apps = me[q].apps
                /\ me'[q].source = me[q].source

(* The command goes on, with the same registry in memory, or ends. *)
Advances(p, next) ==
  OthersKeep(p) /\ Keeps(p) /\ me'[p].at = next /\ me'[p].apps = me[p].apps

Ends(p) == OthersKeep(p) /\ me'[p] = Idle

LEMMA Move ==
  ASSUME NEW p \in Proc, TypeOK, NEW c \in Command, me' = [me EXCEPT ![p] = c]
  PROVE  OthersKeep(p) /\ me'[p] = c
BY DEF TypeOK, OthersKeep, Keeps

LEMMA EndEffect ==
  ASSUME NEW p \in Proc, TypeOK, me' = [me EXCEPT ![p] = Idle]
  PROVE  Ends(p)
BY Move, IdleType DEF Ends

LEMMA EndsIdle ==
  ASSUME NEW p \in Proc, Ends(p)
  PROVE  OthersKeep(p) /\ me'[p].at = "idle" /\ at(p)' = "idle"
BY DEF Ends, Idle, at

LEMMA AdvanceEffect ==
  ASSUME NEW p \in Proc, TypeOK, NEW next \in At, me' = [me EXCEPT ![p].at = next]
  PROVE  Advances(p, next)
<1> DEFINE c == [me[p] EXCEPT !.at = next]
<1>1. me[p] \in Command
  BY CommandTypes
<1>2. c \in Command
  BY <1>1 DEF Command
<1>3. me' = [me EXCEPT ![p] = c]
  BY DEF TypeOK
<1>4. /\ c.at = next /\ c.verb = me[p].verb /\ c.app = me[p].app /\ c.entry = me[p].entry
      /\ c.legacy = me[p].legacy /\ c.version = me[p].version /\ c.apps = me[p].apps
  BY <1>1 DEF Command
<1> HIDE DEF c
<1>5. OthersKeep(p) /\ me'[p] = c
  BY <1>2, <1>3, Move
<1> QED BY <1>4, <1>5 DEF Advances, Keeps

(* A command that starts with a registry it has just loaded. *)
LEMMA FreshFields ==
  ASSUME NEW a \in App, TypeOK, NEW verb \in {"install", "reuse", "remove"}
  PROVE  LET c == Loaded(Fresh(verb, a))
         IN /\ c \in Command /\ c.verb = verb /\ c.app = a /\ c.apps = file.apps
            /\ c.version = file.version /\ c.legacy = (file.schema = "legacy")
            /\ c.during = {}
<1>1. Idle \in Command /\ Idle.during = {}
  BY IdleType DEF Idle
<1>2. /\ Fresh(verb, a) \in Command /\ Fresh(verb, a).verb = verb /\ Fresh(verb, a).app = a
      /\ Fresh(verb, a).during = {}
  BY <1>1 DEF Fresh, Command
<1> QED BY <1>2, LoadedFields

LEMMA StartInstallEffect ==
  ASSUME NEW p \in Proc, TypeOK, StartInstall(p)
  PROVE  \E a \in App :
           /\ OthersKeep(p) /\ Started(a) /\ me'[p].app = a /\ me'[p].during = {}
           /\ \/ /\ me'[p].at = "installing" /\ me'[p].verb = "install"
                 /\ me'[p].entry = Installed
              \/ /\ file.apps[a] \in Entry /\ << a, file.apps[a].home >> \in dirs
                 /\ me'[p].at = "icon" /\ me'[p].verb = "reuse"
                 /\ me'[p].entry \in Entry /\ me'[p].entry.home = file.apps[a].home
                 /\ me'[p].apps = file.apps /\ me'[p].version = file.version
                 /\ me'[p].legacy = (file.schema = "legacy")
<1>1. PICK a \in App :
        LET known == file.apps[a] # None /\ file.apps[a].hash
        IN /\ known => << a, file.apps[a].home >> \in dirs
           /\ Started(a)
           /\ me' = [me EXCEPT ![p] =
                IF known
                THEN [Loaded(Fresh("reuse", a)) EXCEPT
                        !.at = "icon", !.entry = [file.apps[a] EXCEPT !.icon = TRUE]]
                ELSE [Loaded(Fresh("install", a)) EXCEPT !.at = "installing",
                                                         !.entry = Installed]]
  BY DEF StartInstall
<1> DEFINE known == file.apps[a] # None /\ file.apps[a].hash
<1>2. CASE known
  <2> DEFINE e == [file.apps[a] EXCEPT !.icon = TRUE]
             l == Loaded(Fresh("reuse", a))
             c == [l EXCEPT !.at = "icon", !.entry = e]
  <2>1. file.apps[a] \in Entry
    BY <1>2 DEF TypeOK, Apps
  <2>2. e \in Entry /\ e.home = file.apps[a].home
    BY <2>1 DEF Entry
  <2>3. /\ l \in Command /\ l.verb = "reuse" /\ l.app = a /\ l.apps = file.apps
        /\ l.version = file.version /\ l.legacy = (file.schema = "legacy") /\ l.during = {}
    BY FreshFields
  <2>4. /\ c \in Command /\ c.at = "icon" /\ c.entry = e /\ c.verb = l.verb /\ c.app = l.app
        /\ c.apps = l.apps /\ c.version = l.version /\ c.legacy = l.legacy
        /\ c.during = l.during
    <3> HIDE DEF e, l
    <3> QED BY <2>2, <2>3 DEF Command, At
  <2>5. OthersKeep(p) /\ me'[p] = c
    <3>1. me' = [me EXCEPT ![p] = c]
      BY <1>1, <1>2
    <3> HIDE DEF c
    <3> QED BY <2>4, <3>1, Move
  <2> HIDE DEF c, e, l
  <2> QED BY <1>1, <1>2, <2>1, <2>2, <2>3, <2>4, <2>5
<1>3. CASE ~known
  <2> DEFINE l == Loaded(Fresh("install", a))
             c == [l EXCEPT !.at = "installing", !.entry = Installed]
  <2>1. l \in Command /\ l.verb = "install" /\ l.app = a /\ l.during = {}
    BY FreshFields
  <2>2. /\ c \in Command /\ c.at = "installing" /\ c.entry = Installed
        /\ c.verb = l.verb /\ c.app = l.app /\ c.during = l.during
    <3> HIDE DEF l
    <3> QED BY <2>1, InstalledType DEF Command, At
  <2>3. OthersKeep(p) /\ me'[p] = c
    <3>1. me' = [me EXCEPT ![p] = c]
      BY <1>1, <1>3
    <3> HIDE DEF c
    <3> QED BY <2>2, <3>1, Move
  <2> HIDE DEF c, l
  <2> QED BY <1>1, <2>1, <2>2, <2>3
<1> QED BY <1>2, <1>3

LEMMA StartRemoveEffect ==
  ASSUME NEW p \in Proc, TypeOK, StartRemove(p)
  PROVE  \E a \in App :
           /\ OthersKeep(p) /\ Started(a) /\ file.apps[a] \in Entry
           /\ me'[p].at = "undesktop" /\ me'[p].verb = "remove" /\ me'[p].app = a
           /\ me'[p].entry = file.apps[a] /\ me'[p].apps = [file.apps EXCEPT ![a] = None]
           /\ me'[p].version = file.version /\ me'[p].legacy = (file.schema = "legacy")
           /\ me'[p].during = {}
<1>1. PICK query \in App \cup Query : \E a \in Resolve(query, file.apps) :
        /\ Started(a)
        /\ me' = [me EXCEPT ![p] =
             [Loaded(Fresh("remove", a)) EXCEPT
                !.at = "undesktop", !.entry = file.apps[a], !.apps = [@ EXCEPT ![a] = None]]]
  BY DEF StartRemove
<1>2. PICK a \in Resolve(query, file.apps) :
        /\ Started(a)
        /\ me' = [me EXCEPT ![p] =
             [Loaded(Fresh("remove", a)) EXCEPT
                !.at = "undesktop", !.entry = file.apps[a], !.apps = [@ EXCEPT ![a] = None]]]
  BY <1>1
<1>3. file.apps \in Apps
  BY DEF TypeOK
<1>4. a \in App /\ file.apps[a] \in Entry
  BY <1>3, ResolveListed DEF Apps
<1> DEFINE l == Loaded(Fresh("remove", a))
           c == [l EXCEPT !.at = "undesktop", !.entry = file.apps[a],
                          !.apps = [@ EXCEPT ![a] = None]]
<1>5. /\ l \in Command /\ l.verb = "remove" /\ l.app = a /\ l.apps = file.apps
      /\ l.version = file.version /\ l.legacy = (file.schema = "legacy") /\ l.during = {}
  BY <1>4, FreshFields
<1>6. [file.apps EXCEPT ![a] = None] \in Apps
  BY <1>3, <1>4, AppsUpdate
<1>7. /\ c \in Command /\ c.at = "undesktop" /\ c.verb = l.verb /\ c.app = l.app
      /\ c.entry = file.apps[a] /\ c.apps = [file.apps EXCEPT ![a] = None]
      /\ c.version = l.version /\ c.legacy = l.legacy /\ c.during = l.during
  <2> HIDE DEF l
  <2> QED BY <1>4, <1>5, <1>6 DEF Command, At
<1>8. OthersKeep(p) /\ me'[p] = c
  <2>1. me' = [me EXCEPT ![p] = c]
    BY <1>2
  <2> HIDE DEF c
  <2> QED BY <1>7, <2>1, Move
<1> HIDE DEF c, l
<1> QED BY <1>2, <1>4, <1>5, <1>7, <1>8

LEMMA WriteDesktopEffect ==
  ASSUME NEW p \in Proc, TypeOK, WriteDesktop(p)
  PROVE  /\ OthersKeep(p) /\ Keeps(p)
         /\ me'[p].at = IF me[p].verb = "install" THEN "load" ELSE "save"
         /\ me'[p].apps = [me[p].apps EXCEPT ![me[p].app] = me[p].entry]
<1> DEFINE next == IF me[p].verb = "install" THEN "load" ELSE "save"
           apps == [me[p].apps EXCEPT ![me[p].app] = me[p].entry]
           c == [me[p] EXCEPT !.at = next, !.apps = apps]
<1>1. me[p] \in Command /\ apps \in Apps
  BY CommandTypes, AppsUpdate
<1>2. me' = [me EXCEPT ![p] = c]
  BY DEF TypeOK, WriteDesktop
<1> HIDE DEF apps
<1>3. c \in Command /\ c.at = next /\ c.verb = me[p].verb /\ c.app = me[p].app
      /\ c.entry = me[p].entry /\ c.legacy = me[p].legacy /\ c.version = me[p].version
      /\ c.apps = apps
  BY <1>1 DEF Command, At
<1> HIDE DEF c
<1>4. OthersKeep(p) /\ me'[p] = c
  BY <1>2, <1>3, Move
<1> QED BY <1>3, <1>4 DEF Keeps, apps

LEMMA ReloadEffect ==
  ASSUME NEW p \in Proc, TypeOK, Reload(p)
  PROVE  /\ OthersKeep(p) /\ me'[p].at = "save"
         /\ me'[p].verb = me[p].verb /\ me'[p].app = me[p].app /\ me'[p].entry = me[p].entry
         /\ me'[p].apps = [file.apps EXCEPT ![me[p].app] = me[p].entry]
         /\ me'[p].version = file.version /\ me'[p].legacy = (file.schema = "legacy")
<1> DEFINE l == Loaded(me[p])
           apps == [file.apps EXCEPT ![me[p].app] = me[p].entry]
           c == [l EXCEPT !.at = "save", !.apps = apps]
<1>1. apps \in Apps
  BY CommandTypes, AppsUpdate DEF TypeOK
<1>2. /\ l \in Command /\ l.verb = me[p].verb /\ l.app = me[p].app /\ l.entry = me[p].entry
      /\ l.apps = file.apps /\ l.version = file.version
      /\ l.legacy = (file.schema = "legacy")
  BY CommandTypes, LoadedFields
<1>3. me' = [me EXCEPT ![p] = c]
  BY DEF Reload
<1> HIDE DEF apps, l
<1>4. c \in Command /\ c.at = "save" /\ c.verb = l.verb /\ c.app = l.app /\ c.entry = l.entry
      /\ c.legacy = l.legacy /\ c.version = l.version /\ c.apps = apps
  BY <1>1, <1>2 DEF Command, At
<1> HIDE DEF c
<1>5. OthersKeep(p) /\ me'[p] = c
  BY <1>3, <1>4, Move
<1> QED BY <1>2, <1>4, <1>5 DEF apps

LEMMA CheckBackupEffect ==
  ASSUME NEW p \in Proc, TypeOK, CheckBackup(p)
  PROVE  \/ /\ Advances(p, "copying") /\ me'[p].source = file.schema
            /\ me[p].legacy /\ backup = "absent" /\ backup' = "partial"
         \/ Advances(p, "persist") /\ UNCHANGED backup /\ ~(me[p].legacy /\ backup = "absent")
<1>1. CASE me[p].legacy /\ backup = "absent"
  <2> DEFINE c == [me[p] EXCEPT !.at = "copying", !.source = file.schema]
  <2>1. me[p] \in Command /\ file.schema \in Schema
    BY CommandTypes DEF TypeOK
  <2>2. me' = [me EXCEPT ![p] = c]
    BY <1>1 DEF TypeOK, CheckBackup
  <2>3. c \in Command /\ c.at = "copying" /\ c.verb = me[p].verb /\ c.app = me[p].app
        /\ c.entry = me[p].entry /\ c.legacy = me[p].legacy /\ c.version = me[p].version
        /\ c.apps = me[p].apps /\ c.source = file.schema
    BY <2>1 DEF Command, At
  <2> HIDE DEF c
  <2>4. OthersKeep(p) /\ me'[p] = c
    BY <2>2, <2>3, Move
  <2> QED BY <1>1, <2>3, <2>4 DEF Keeps, Advances, CheckBackup
<1>2. CASE ~(me[p].legacy /\ backup = "absent")
  <2>1. me' = [me EXCEPT ![p].at = "persist"] /\ UNCHANGED backup
    BY <1>2 DEF CheckBackup
  <2> QED BY <1>2, <2>1, AdvanceEffect DEF At
<1> QED BY <1>1, <1>2

LEMMA PersistEffect ==
  ASSUME NEW p \in Proc, TypeOK, Persist(p)
  PROVE  Ends(p)
<1>1. me[p].app \in App
  BY CommandTypes
<1>2. \A q \in Proc : me[q] \in Command /\ Noticed(q, p) \in SUBSET App
  BY <1>1 DEF TypeOK, Noticed, Command
<1>3. \A q \in Proc : [me[q] EXCEPT !.during = Noticed(q, p)] \in Command
  <2>1. \A c \in Command, d \in SUBSET App : [c EXCEPT !.during = d] \in Command
    BY DEF Command
  <2> QED BY <1>2, <2>1
<1>4. me' = [q \in Proc |-> IF q = p THEN Idle ELSE [me[q] EXCEPT !.during = Noticed(q, p)]]
  BY DEF Persist
<1>5. me' \in [Proc -> Command] /\ me'[p] = Idle
  BY <1>3, <1>4, IdleType
<1>6. ASSUME NEW q \in Proc \ {p}
      PROVE  Keeps(q) /\ me'[q].at = me[q].at /\ me'[q].apps = me[q].apps
                      /\ me'[q].source = me[q].source
  <2>1. me[q] \in Command
    BY <1>2
  <2>2. me'[q] = [me[q] EXCEPT !.during = Noticed(q, p)]
    BY <1>4
  <2> QED BY <2>1, <2>2 DEF Keeps, Command
<1> QED BY <1>5, <1>6 DEF Ends, OthersKeep

LEMMA SimpleEffects ==
  ASSUME NEW p \in Proc, TypeOK
  PROVE  /\ RunInstaller(p) => Advances(p, "icon")
         /\ WriteIcon(p) => Advances(p, "desktop")
         /\ RemoveDesktop(p) => Advances(p, "unicon")
         /\ RemoveIcon(p) => Advances(p, "undirectory")
         /\ RemoveDirectory(p) =>
              \/ UNCHANGED dirs /\ Ends(p)
              \/ dirs' = dirs \ {<< me[p].app, me[p].entry.home >>} /\ Advances(p, "save")
         /\ CopyBackup(p) => Advances(p, "persist")
         /\ Stop(p) => Ends(p)
BY AdvanceEffect, EndEffect
   DEF At, RunInstaller, WriteIcon, RemoveDesktop, RemoveIcon, RemoveDirectory, CopyBackup, Stop

Step(p) == Installing(p) \/ Removing(p) \/ Saving(p) \/ Stop(p)

(* All of it in one fact, for the proofs that go through the actions. *)
LEMMA StepEffects ==
  ASSUME NEW p \in Proc, TypeOK, Step(p)
  PROVE  /\ OthersKeep(p)
         /\ \/ Ends(p) /\ at(p) # "idle"
            \/ Keeps(p) /\ at(p) # "idle"
            \/ /\ Reload(p) /\ me'[p].verb = me[p].verb /\ me'[p].app = me[p].app
               /\ me'[p].entry = me[p].entry
            \/ at(p) = "idle" /\ (StartInstall(p) \/ StartRemove(p))
<1>1. CASE StartInstall(p) \/ StartRemove(p)
  BY <1>1, StartInstallEffect, StartRemoveEffect DEF StartInstall, StartRemove
<1>2. CASE WriteDesktop(p) \/ Reload(p) \/ CheckBackup(p) \/ Persist(p)
  BY <1>2, WriteDesktopEffect, ReloadEffect, CheckBackupEffect, PersistEffect
     DEF Advances, Ends, WriteDesktop, CheckBackup, Persist
<1>3. CASE \/ RunInstaller(p) \/ WriteIcon(p) \/ RemoveDesktop(p) \/ RemoveIcon(p)
           \/ RemoveDirectory(p) \/ CopyBackup(p) \/ Stop(p)
  BY <1>3, SimpleEffects
     DEF Advances, Ends, RunInstaller, WriteIcon, RemoveDesktop, RemoveIcon, RemoveDirectory,
         CopyBackup, Stop
<1> QED BY <1>1, <1>2, <1>3 DEF Step, Installing, Removing, Saving

------------------------------------------------------------------------------
(* Types, continued. *)
LEMMA StepTypes ==
  ASSUME NEW p \in Proc, TypeOK, Step(p)
  PROVE  TypeOK'
<1>0. /\ me[p].app \in App /\ me[p].apps \in Apps /\ me[p].entry \in Entry \cup {None}
      /\ me[p].source \in Schema /\ (at(p) # "idle" => me[p].entry \in Entry)
  BY CommandTypes DEF Command
<1>1. me' \in [Proc -> Command]
  BY StepEffects DEF OthersKeep
<1>2. \A q \in Proc : at(q)' # "idle" => me'[q].entry # None
  <2>1. ASSUME NEW q \in Proc, q # p PROVE at(q)' # "idle" => me'[q].entry # None
    BY <2>1, StepEffects DEF OthersKeep, Keeps, TypeOK, at
  <2>2. at(p)' # "idle" => me'[p].entry # None
    <3>1. CASE StartInstall(p)
      BY <3>1, StartInstallEffect, InstalledType, NoneAssumption DEF at
    <3>2. CASE StartRemove(p)
      BY <3>2, StartRemoveEffect, NoneAssumption DEF at
    <3>3. CASE Ends(p)
      BY <3>3 DEF Ends, at, Idle
    <3>4. CASE Keeps(p) /\ at(p) # "idle"
      BY <3>4 DEF Keeps, TypeOK, at
    <3>5. CASE Reload(p)
      BY <3>5, ReloadEffect DEF Reload, TypeOK, at
    <3> QED BY <3>1, <3>2, <3>3, <3>4, <3>5, StepEffects
  <2> QED BY <2>1, <2>2
<1>3. file' \in [schema : Schema, version : Nat, apps : Apps]
  <2>1. CASE Persist(p)
    BY <1>0, <2>1 DEF Persist, TypeOK, Schema
  <2>2. CASE UNCHANGED file
    BY <2>2 DEF TypeOK
  <2> QED BY <2>1, <2>2
          DEF Step, Installing, Removing, Saving, Stop, StartInstall, RunInstaller, WriteIcon,
              WriteDesktop, Reload, StartRemove, RemoveDesktop, RemoveIcon, RemoveDirectory,
              CheckBackup, CopyBackup
<1>4. backup' \in Schema \cup {"partial"} /\ commands' \in 0 .. MaxCommands
  <2>1. CASE StartInstall(p) \/ StartRemove(p)
    <3>1. commands < MaxCommands /\ commands' = commands + 1 /\ UNCHANGED backup
      BY <2>1 DEF StartInstall, StartRemove
    <3> QED BY <3>1, StoreAssumption DEF TypeOK
  <2>2. CASE CheckBackup(p)
    <3>1. backup' \in {backup, "partial"}
      BY <2>2, CheckBackupEffect
    <3> QED BY <2>2, <3>1 DEF CheckBackup, TypeOK
  <2>3. CASE CopyBackup(p)
    BY <1>0, <2>3 DEF CopyBackup, TypeOK
  <2>4. CASE UNCHANGED << backup, commands >>
    BY <2>4 DEF TypeOK
  <2> QED BY <2>1, <2>2, <2>3, <2>4
          DEF Step, Installing, Removing, Saving, Stop, RunInstaller, WriteIcon, WriteDesktop,
              Reload, RemoveDesktop, RemoveIcon, RemoveDirectory, Persist
<1>5. launchers' \subseteq App /\ icons' \subseteq App /\ dirs' \subseteq App \X Home
  <2>1. CASE RunInstaller(p) \/ Stop(p)
    BY <1>0, <2>1 DEF RunInstaller, Stop, store, TypeOK, Home
  <2>2. CASE WriteIcon(p) \/ WriteDesktop(p)
    BY <1>0, <2>2 DEF WriteIcon, WriteDesktop, TypeOK
  <2>3. CASE RemoveDesktop(p) \/ RemoveIcon(p) \/ RemoveDirectory(p)
    BY <2>3 DEF RemoveDesktop, RemoveIcon, RemoveDirectory, TypeOK
  <2>4. CASE UNCHANGED << launchers, icons, dirs >>
    BY <2>4 DEF TypeOK
  <2> QED BY <2>1, <2>2, <2>3, <2>4
          DEF Step, Installing, Removing, Saving, StartInstall, Reload, StartRemove,
              CheckBackup, CopyBackup, Persist, store
<1>6. history' \in [born : Schema, raced : BOOLEAN, torn : BOOLEAN, interrupted : SUBSET App,
                    contended : SUBSET App,
                    removed : [app : App, entry : Entry] \cup {None}]
  <2>1. CASE StartInstall(p) \/ StartRemove(p)
    <3>1. PICK a \in App : Started(a)
      BY <2>1, StartInstallEffect, StartRemoveEffect
    <3>2. \/ history' = [history EXCEPT !.contended = @]
          \/ history' = [history EXCEPT !.contended = @ \cup {a}]
      BY <3>1 DEF Started
    <3> QED BY <3>2 DEF TypeOK
  <2>2. CASE CheckBackup(p)
    BY <2>2 DEF CheckBackup, Stale, TypeOK
  <2>3. CASE Persist(p)
    BY <1>0, <2>3 DEF Persist, Stale, TypeOK
  <2>4. CASE Stop(p)
    BY <1>0, <2>4 DEF Stop, TypeOK
  <2>5. CASE UNCHANGED history
    BY <2>5 DEF TypeOK
  <2> QED BY <2>1, <2>2, <2>3, <2>4, <2>5
          DEF Step, Installing, Removing, Saving, RunInstaller, WriteIcon, WriteDesktop, Reload,
              RemoveDesktop, RemoveIcon, RemoveDirectory, CopyBackup
<1> QED BY <1>1, <1>2, <1>3, <1>4, <1>5, <1>6 DEF TypeOK

LEMMA NextTypes == TypeOK /\ [Next]_vars => TypeOK'
<1> SUFFICES ASSUME TypeOK, [Next]_vars PROVE TypeOK'
  OBVIOUS
<1>1. ASSUME NEW p \in Proc, Step(p) PROVE TypeOK'
  BY <1>1, StepTypes
<1>2. CASE UNCHANGED vars
  BY <1>2 DEF vars, TypeOK, at
<1> QED BY <1>1, <1>2 DEF Next, Step

(* Every variable keeps its type, and a command at work knows its entry. *)
THEOREM TypeCorrect == Spec => []TypeOK
<1> QED BY InitTypes, NextTypes, PTL DEF Spec

------------------------------------------------------------------------------
(***************************************************************************)
(* What the history tells.                                                 *)
(***************************************************************************)
LEMMA PersistHistory ==
  ASSUME NEW p \in Proc, TypeOK, Persist(p)
  PROVE  /\ history.contended' = history.contended /\ history.born' = history.born
         /\ history.torn' = history.torn
         /\ history.raced' = (history.raced \/ Stale(p))
         /\ history.interrupted' = IF me[p].verb = "reuse" THEN history.interrupted
                                   ELSE history.interrupted \ {me[p].app}
         /\ history.removed' = IF me[p].verb = "remove"
                               THEN [app |-> me[p].app, entry |-> me[p].entry] ELSE None
BY DEF Persist, TypeOK

LEMMA StopHistory ==
  ASSUME NEW p \in Proc, TypeOK, Stop(p)
  PROVE  /\ history.contended' = history.contended /\ history.born' = history.born
         /\ history.raced' = history.raced /\ history.removed' = history.removed
         /\ history.torn' = (history.torn \/ at(p) = "copying")
         /\ history.interrupted' = history.interrupted \cup {me[p].app}
BY DEF Stop, TypeOK

LEMMA CheckBackupHistory ==
  ASSUME NEW p \in Proc, TypeOK, CheckBackup(p)
  PROVE  /\ history.contended' = history.contended /\ history.born' = history.born
         /\ history.torn' = history.torn /\ history.removed' = history.removed
         /\ history.interrupted' = history.interrupted
         /\ history.raced' = (history.raced \/ Stale(p))
BY DEF CheckBackup, TypeOK

LEMMA StartedHistory ==
  ASSUME NEW p \in Proc, TypeOK, NEW a \in App, Started(a)
  PROVE  /\ history.contended \subseteq history.contended' /\ history.born' = history.born
         /\ history.torn' = history.torn /\ history.removed' = history.removed
         /\ history.interrupted' = history.interrupted /\ history.raced' = history.raced
         /\ Active(a) = {} \/ a \in history.contended'
<1>1. \/ history' = [history EXCEPT !.contended = @] /\ Active(a) = {}
      \/ history' = [history EXCEPT !.contended = @ \cup {a}]
  BY DEF Started
<1> QED BY <1>1 DEF TypeOK

(* Nothing the history has recorded is forgotten, but for an interruption  *)
(* that a later command on the same application has made up for.           *)
LEMMA HistoryGrows ==
  ASSUME NEW p \in Proc, TypeOK, Step(p)
  PROVE  /\ history.contended \subseteq history.contended' /\ history.born' = history.born
         /\ history.torn => history.torn'
         /\ history.raced => history.raced'
         /\ \/ Persist(p)
            \/ /\ UNCHANGED file /\ history.removed' = history.removed
               /\ history.interrupted \subseteq history.interrupted'
<1>1. CASE StartInstall(p) \/ StartRemove(p)
  <2>1. PICK a \in App : Started(a)
    BY <1>1, StartInstallEffect, StartRemoveEffect
  <2>2. UNCHANGED file
    BY <1>1 DEF StartInstall, StartRemove
  <2> QED BY <2>1, <2>2, StartedHistory
<1>2. CASE CheckBackup(p)
  BY <1>2, CheckBackupHistory DEF CheckBackup
<1>3. CASE Persist(p)
  BY <1>3, PersistHistory
<1>4. CASE Stop(p)
  BY <1>4, StopHistory DEF Stop
<1>5. CASE UNCHANGED << history, file >>
  BY <1>5
<1> QED BY <1>1, <1>2, <1>3, <1>4, <1>5
        DEF Step, Installing, Removing, Saving, RunInstaller, WriteIcon, WriteDesktop, Reload,
            RemoveDesktop, RemoveIcon, RemoveDirectory, CopyBackup

------------------------------------------------------------------------------
(***************************************************************************)
(* What a command holds in memory.                                         *)
(***************************************************************************)
Shaped(p) ==
  /\ at(p) \in {"installing", "load"} => me[p].verb = "install"
  /\ Integrates(p) => me[p].verb \in {"install", "reuse"}
  /\ Deletes(p) => me[p].verb = "remove"
  /\ at(p) # "idle" /\ me[p].verb = "install" => me[p].entry = Installed
  /\ Holds(p) /\ me[p].verb = "remove" => me[p].apps[me[p].app] = None
  /\ Saves(p) /\ me[p].verb # "remove" => me[p].apps[me[p].app] = me[p].entry

LEMMA ShapeParts == Shape <=> \A p \in Proc : Shaped(p)
BY DEF Shape, Shaped

Recorded(p) ==
  /\ OthersKeep(p) /\ Keeps(p)
  /\ me'[p].at = IF me[p].verb = "install" THEN "load" ELSE "save"
  /\ me'[p].apps = [me[p].apps EXCEPT ![me[p].app] = me[p].entry]

Reloaded(p) ==
  /\ OthersKeep(p) /\ me'[p].at = "save"
  /\ me'[p].verb = me[p].verb /\ me'[p].app = me[p].app /\ me'[p].entry = me[p].entry
  /\ me'[p].apps = [file.apps EXCEPT ![me[p].app] = me[p].entry]
  /\ me'[p].version = file.version /\ me'[p].legacy = (file.schema = "legacy")

(* Where each action starts and leads, and what it does to the memory.     *)
LEMMA Steps ==
  ASSUME NEW p \in Proc, TypeOK, Step(p)
  PROVE  \/ StartInstall(p)
         \/ StartRemove(p)
         \/ RunInstaller(p) /\ at(p) = "installing" /\ Advances(p, "icon")
         \/ WriteIcon(p) /\ at(p) = "icon" /\ Advances(p, "desktop")
         \/ WriteDesktop(p) /\ at(p) = "desktop" /\ Recorded(p)
         \/ Reload(p) /\ at(p) = "load" /\ Reloaded(p)
         \/ RemoveDesktop(p) /\ at(p) = "undesktop" /\ Advances(p, "unicon")
         \/ RemoveIcon(p) /\ at(p) = "unicon" /\ Advances(p, "undirectory")
         \/ /\ RemoveDirectory(p) /\ at(p) = "undirectory" /\ Advances(p, "save")
            /\ dirs' = dirs \ {<< me[p].app, me[p].entry.home >>}
         \/ RemoveDirectory(p) /\ at(p) = "undirectory" /\ Ends(p) /\ UNCHANGED dirs
         \/ CheckBackup(p) /\ at(p) = "save" /\ Advances(p, "copying")
         \/ CheckBackup(p) /\ at(p) = "save" /\ Advances(p, "persist")
         \/ CopyBackup(p) /\ at(p) = "copying" /\ Advances(p, "persist")
         \/ Persist(p) /\ at(p) = "persist" /\ Ends(p)
         \/ Stop(p) /\ at(p) # "idle" /\ Ends(p)
<1>1. \/ StartInstall(p) \/ StartRemove(p) \/ RunInstaller(p) \/ WriteIcon(p) \/ WriteDesktop(p)
      \/ Reload(p) \/ RemoveDesktop(p) \/ RemoveIcon(p) \/ RemoveDirectory(p)
      \/ CheckBackup(p) \/ CopyBackup(p) \/ Persist(p) \/ Stop(p)
  BY DEF Step, Installing, Removing, Saving
<1>2. /\ RunInstaller(p) => at(p) = "installing"
      /\ WriteIcon(p) => at(p) = "icon"
      /\ WriteDesktop(p) => at(p) = "desktop"
      /\ Reload(p) => at(p) = "load"
      /\ RemoveDesktop(p) => at(p) = "undesktop"
      /\ RemoveIcon(p) => at(p) = "unicon"
      /\ RemoveDirectory(p) => at(p) = "undirectory"
      /\ CheckBackup(p) => at(p) = "save"
      /\ CopyBackup(p) => at(p) = "copying"
      /\ Persist(p) => at(p) = "persist"
      /\ Stop(p) => at(p) # "idle"
  BY DEF RunInstaller, WriteIcon, WriteDesktop, Reload, RemoveDesktop, RemoveIcon,
         RemoveDirectory, CheckBackup, CopyBackup, Persist, Stop
<1>3. (WriteDesktop(p) => Recorded(p)) /\ (Reload(p) => Reloaded(p))
  BY WriteDesktopEffect, ReloadEffect DEF Recorded, Reloaded
<1> QED BY <1>1, <1>2, <1>3, SimpleEffects, CheckBackupEffect, PersistEffect

LEMMA StepShape ==
  ASSUME NEW p \in Proc, TypeOK, Shape, Step(p)
  PROVE  Shape'
<1> USE DEF at, Holds, Saves, Deletes, Integrates, Shaped
<1>0. /\ OthersKeep(p) /\ Shaped(p) /\ me[p].app \in App /\ me[p].apps \in Apps
      /\ me[p].entry \in Entry \cup {None} /\ file.apps \in Apps
  BY StepEffects, ShapeParts, CommandTypes DEF TypeOK
<1>1. ASSUME NEW q \in Proc, q # p PROVE Shaped(q)'
  BY <1>0, <1>1, ShapeParts DEF OthersKeep, Keeps
<1>2. Shaped(p)'
  <2>1. CASE StartInstall(p)
    BY <2>1, StartInstallEffect
  <2>2. CASE StartRemove(p)
    <3>1. PICK a \in App :
            /\ me'[p].at = "undesktop" /\ me'[p].verb = "remove" /\ me'[p].app = a
            /\ me'[p].apps = [file.apps EXCEPT ![a] = None]
      BY <2>2, StartRemoveEffect
    <3> QED BY <1>0, <3>1, AppsUpdate
  <2>3. CASE at(p) = "desktop" /\ Recorded(p)
    <3>1. me'[p].apps[me[p].app] = me[p].entry
      BY <1>0, <2>3, AppsUpdate DEF Recorded
    <3> QED BY <1>0, <2>3, <3>1 DEF Keeps, Recorded
  <2>4. CASE at(p) = "load" /\ Reloaded(p)
    <3>1. me'[p].apps[me[p].app] = me[p].entry
      BY <1>0, <2>4, AppsUpdate DEF Reloaded
    <3> QED BY <1>0, <2>4, <3>1 DEF Reloaded
  <2>5. CASE Ends(p)
    BY <2>5, EndsIdle
  <2>6. ASSUME NEW next, Advances(p, next),
               \/ << at(p), next >> \in {<< "installing", "icon" >>, << "icon", "desktop" >>,
                    << "undesktop", "unicon" >>, << "unicon", "undirectory" >>,
                    << "undirectory", "save" >>, << "save", "copying" >>,
                    << "save", "persist" >>, << "copying", "persist" >>}
        PROVE  Shaped(p)'
    BY <1>0, <2>6 DEF Advances, Keeps
  <2> QED BY <2>1, <2>2, <2>3, <2>4, <2>5, <2>6, Steps
<1> QED BY <1>1, <1>2 DEF Shape

(* A command of which the registry in memory is as fresh as Fresher says.  *)
Fresh1(q) ==
  Holds(q) =>
    /\ me[q].version <= file.version
    /\ me[q].version = file.version =>
         /\ me[q].legacy <=> file.schema = "legacy"
         /\ \A a \in App \ {me[q].app} : me[q].apps[a] = file.apps[a]

LEMMA FresherParts == Fresher <=> \A p \in Proc : Fresh1(p)
BY DEF Fresher, Fresh1

LEMMA StepFresher ==
  ASSUME NEW p \in Proc, TypeOK, Shape, Fresher, Step(p)
  PROVE  Fresher'
<1> USE DEF at, Holds, Saves, Deletes, Integrates, Fresh1
<1>0. /\ OthersKeep(p) /\ Shaped(p) /\ Fresh1(p) /\ me[p].app \in App /\ me[p].apps \in Apps
      /\ me[p].entry \in Entry \cup {None} /\ file.version \in Nat /\ file.apps \in Apps
      /\ \A q \in Proc : me[q].version \in Nat
  BY StepEffects, ShapeParts, FresherParts, CommandTypes DEF TypeOK
<1>1. CASE Persist(p)
  <2>1. file'.version = file.version + 1
    BY <1>1 DEF Persist
  <2>2. ASSUME NEW q \in Proc PROVE Fresh1(q)'
    <3>1. CASE q = p
      BY <1>1, <3>1, PersistEffect, EndsIdle
    <3>2. CASE q # p
      BY <1>0, <2>1, <3>2, FresherParts DEF OthersKeep, Keeps
    <3> QED BY <3>1, <3>2
  <2> QED BY <2>2 DEF Fresher
<1>2. CASE UNCHANGED file
  <2>1. ASSUME NEW q \in Proc, q # p PROVE Fresh1(q)'
    BY <1>0, <1>2, <2>1, FresherParts DEF OthersKeep, Keeps
  <2>2. Fresh1(p)'
    <3>1. CASE StartInstall(p)
      <4>1. \/ me'[p].at = "installing" /\ me'[p].verb = "install"
            \/ /\ me'[p].apps = file.apps /\ me'[p].version = file.version
               /\ me'[p].legacy = (file.schema = "legacy")
        BY <3>1, StartInstallEffect
      <4>2. CASE /\ me'[p].apps = file.apps /\ me'[p].version = file.version
                 /\ me'[p].legacy = (file.schema = "legacy")
        <5>1. me'[p].legacy <=> file.schema = "legacy"
          BY <4>2
        <5> QED BY <1>0, <1>2, <4>2, <5>1
      <4> QED BY <4>1, <4>2
    <3>2. CASE StartRemove(p)
      <4>1. PICK a \in App :
              /\ me'[p].at = "undesktop" /\ me'[p].app = a
              /\ me'[p].apps = [file.apps EXCEPT ![a] = None]
              /\ me'[p].version = file.version /\ me'[p].legacy = (file.schema = "legacy")
        BY <3>2, StartRemoveEffect
      <4>2. me'[p].legacy <=> file.schema = "legacy"
        BY <4>1
      <4>3. \A b \in App \ {me'[p].app} : me'[p].apps[b] = file.apps[b]
        BY <1>0, <4>1, AppsUpdate
      <4> QED BY <1>0, <1>2, <4>1, <4>2, <4>3
    <3>3. CASE at(p) = "desktop" /\ Recorded(p)
      <4>1. \A a \in App \ {me[p].app} : me'[p].apps[a] = me[p].apps[a]
        BY <1>0, <3>3, AppsUpdate DEF Recorded
      <4> QED BY <1>0, <1>2, <3>3, <4>1 DEF Keeps, Shaped, Recorded
    <3>4. CASE at(p) = "load" /\ Reloaded(p)
      <4>1. \A a \in App \ {me[p].app} : me'[p].apps[a] = file.apps[a]
        BY <1>0, <3>4, AppsUpdate DEF Reloaded
      <4>2. me'[p].legacy <=> file.schema = "legacy"
        BY <3>4 DEF Reloaded
      <4> QED BY <1>0, <1>2, <3>4, <4>1, <4>2 DEF Reloaded
    <3>5. CASE Ends(p)
      BY <3>5, EndsIdle
    <3>6. ASSUME NEW next, Advances(p, next),
                 \/ << at(p), next >> \in {<< "installing", "icon" >>, << "icon", "desktop" >>,
                      << "undesktop", "unicon" >>, << "unicon", "undirectory" >>,
                      << "undirectory", "save" >>, << "save", "copying" >>,
                      << "save", "persist" >>, << "copying", "persist" >>}
          PROVE  Fresh1(p)'
      BY <1>0, <1>2, <3>6 DEF Advances, Keeps, Shaped
    <3> QED BY <3>1, <3>2, <3>3, <3>4, <3>5, <3>6, Steps
  <2> QED BY <2>1, <2>2 DEF Fresher
<1> QED BY <1>1, <1>2, HistoryGrows

------------------------------------------------------------------------------
(***************************************************************************)
(* What a command without a contender may rely on.                         *)
(***************************************************************************)
LEMMA StepAlone ==
  ASSUME NEW p \in Proc, TypeOK, Alone, Step(p)
  PROVE  Alone'
<1> SUFFICES ASSUME NEW q \in Proc, NEW r \in Proc,
                    at(q)' # "idle", at(r)' # "idle", me'[q].app = me'[r].app, q # r,
                    me'[q].app \notin history'.contended
             PROVE  FALSE
  BY DEF Alone
<1> USE DEF at
<1>0. OthersKeep(p) /\ history.contended \subseteq history.contended'
  BY StepEffects, HistoryGrows
<1>1. CASE q # p /\ r # p
  BY <1>0, <1>1 DEF OthersKeep, Keeps, Alone
<1>2. CASE StartInstall(p) \/ StartRemove(p)
  <2>1. PICK a \in App : Started(a) /\ me'[p].app = a
    BY <1>2, StartInstallEffect, StartRemoveEffect
  <2>2. Active(a) = {} \/ a \in history.contended'
    BY <2>1, StartedHistory
  <2>3. \A s \in Proc \ {p} : me'[s].at # "idle" /\ me'[s].app = a => s \in Active(a)
    BY <1>0 DEF OthersKeep, Keeps, Active
  <2> QED BY <1>1, <2>1, <2>2, <2>3
<1>3. CASE at(p) # "idle" /\ me'[p].app = me[p].app
  BY <1>0, <1>1, <1>3 DEF OthersKeep, Keeps, Alone
<1>4. CASE Ends(p)
  BY <1>1, <1>4, EndsIdle
<1> QED BY <1>2, <1>3, <1>4, Steps DEF Advances, Keeps, Recorded, Reloaded

(* A step leaves alone what belongs to an application it is not about: on  *)
(* disk, in the history and, unless it saves a stale registry, in the file. *)
LEMMA Elsewhere ==
  ASSUME NEW p \in Proc, TypeOK, Fresher, Step(p), NEW a \in App,
         at(p) = "idle" \/ a # me[p].app
  PROVE  /\ \A h : << a, h >> \in dirs' <=> << a, h >> \in dirs
         /\ a \in launchers' <=> a \in launchers
         /\ a \in icons' <=> a \in icons
         /\ ~history.raced' => file'.apps[a] = file.apps[a]
         /\ a \in history.interrupted => a \in history.interrupted'
<1>1. CASE at(p) = "idle"
  <2>1. StartInstall(p) \/ StartRemove(p)
    BY <1>1, Steps
  <2>2. UNCHANGED << dirs, launchers, icons, file >>
    BY <2>1 DEF StartInstall, StartRemove, store
  <2>3. \E b \in App : Started(b)
    BY <2>1, StartInstallEffect, StartRemoveEffect
  <2> QED BY <2>2, <2>3, StartedHistory
<1>2. CASE a # me[p].app /\ at(p) # "idle"
  <2>1. \A h : << a, h >> \in dirs' <=> << a, h >> \in dirs
    <3>1. \/ UNCHANGED dirs
          \/ dirs' = dirs \cup {<< me[p].app, "environments" >>}
          \/ dirs' = dirs \ {<< me[p].app, me[p].entry.home >>}
      BY Steps
         DEF StartInstall, StartRemove, RunInstaller, WriteIcon, WriteDesktop, Reload,
             RemoveDesktop, RemoveIcon, CheckBackup, CopyBackup, Persist, Stop, store
    <3> QED BY <1>2, <3>1
  <2>2. a \in launchers' <=> a \in launchers
    BY <1>2, Steps
       DEF StartInstall, StartRemove, RunInstaller, WriteIcon, WriteDesktop, Reload,
           RemoveDesktop, RemoveIcon, RemoveDirectory, CheckBackup, CopyBackup, Persist, Stop, store
  <2>3. a \in icons' <=> a \in icons
    BY <1>2, Steps
       DEF StartInstall, StartRemove, RunInstaller, WriteIcon, WriteDesktop, Reload,
           RemoveDesktop, RemoveIcon, RemoveDirectory, CheckBackup, CopyBackup, Persist, Stop, store
  <2>4. ~history.raced' => file'.apps[a] = file.apps[a]
    <3>1. CASE Persist(p)
      <4>1. file'.apps = me[p].apps /\ at(p) = "persist"
        BY <3>1 DEF Persist
      <4>2. ~history.raced' => me[p].version = file.version
        BY <3>1, PersistHistory DEF Stale
      <4> QED BY <1>2, <4>1, <4>2 DEF Fresher, Holds, Saves
    <3>2. CASE UNCHANGED file
      BY <3>2
    <3> QED BY <3>1, <3>2, HistoryGrows
  <2>5. a \in history.interrupted => a \in history.interrupted'
    <3>1. CASE Persist(p)
      BY <1>2, <3>1, PersistHistory
    <3> QED BY <3>1, HistoryGrows
  <2> QED BY <2>1, <2>2, <2>3, <2>4, <2>5
<1> QED BY <1>1, <1>2

(* Another command, if its application has no contender, is not about the  *)
(* same application.                                                       *)
LEMMA Apart ==
  ASSUME NEW p \in Proc, NEW q \in Proc, q # p, TypeOK, Alone, Step(p),
         at(q) # "idle", me[q].app \notin history'.contended
  PROVE  at(p) = "idle" \/ me[q].app # me[p].app
BY HistoryGrows DEF Alone

LEMMA StepInPlace ==
  ASSUME NEW p \in Proc, TypeOK, Shape, Fresher, Alone, InPlace, Step(p)
  PROVE  InPlace'
<1> SUFFICES ASSUME NEW q \in Proc, at(q)' \notin {"idle", "installing"}, me'[q].verb # "remove",
                    me'[q].app \notin history'.contended
             PROVE  << me'[q].app, me'[q].entry.home >> \in dirs'
  BY DEF InPlace
<1>0. OthersKeep(p) /\ history.contended \subseteq history.contended' /\ Shaped(p)
      /\ me[p].app \in App /\ me[q].app \in App
  BY StepEffects, HistoryGrows, ShapeParts, CommandTypes
<1>1. CASE q # p
  <2>1. at(q)' = at(q) /\ Keeps(q)
    BY <1>0, <1>1 DEF OthersKeep, at
  <2>2. << me[q].app, me[q].entry.home >> \in dirs
    BY <1>0, <2>1 DEF InPlace, Keeps
  <2>3. at(p) = "idle" \/ me[q].app # me[p].app
    BY <1>1, <2>1, Apart DEF Keeps
  <2> QED BY <1>0, <2>1, <2>2, <2>3, Elsewhere DEF Keeps
<1>2. CASE q = p
  <2>1. CASE StartInstall(p)
    <3>1. UNCHANGED dirs
      BY <2>1 DEF StartInstall, store
    <3> QED BY <1>2, <2>1, <3>1, StartInstallEffect DEF at
  <2>2. CASE StartRemove(p)
    BY <1>2, <2>2, StartRemoveEffect
  <2>3. CASE RunInstaller(p) /\ at(p) = "installing" /\ Advances(p, "icon")
    <3>1. me'[p].entry.home = "environments" /\ me'[p].app = me[p].app
      BY <1>0, <2>3 DEF Shaped, Advances, Keeps, Installed
    <3> QED BY <1>2, <2>3, <3>1 DEF RunInstaller
  <2>4. CASE Ends(p)
    BY <1>2, <2>4, EndsIdle
  <2>5. CASE Deletes(p) /\ Keeps(p)
    BY <1>0, <1>2, <2>5 DEF Shaped, Keeps
  <2>6. CASE at(p) \notin {"idle", "installing"} /\ UNCHANGED dirs /\ me'[p].verb = me[p].verb
             /\ me'[p].app = me[p].app /\ me'[p].entry = me[p].entry
    BY <1>0, <1>2, <2>6 DEF InPlace
  <2> QED BY <2>1, <2>2, <2>3, <2>4, <2>5, <2>6, Steps
          DEF Advances, Keeps, Recorded, Reloaded, Deletes, WriteIcon, WriteDesktop, Reload,
              CheckBackup, CopyBackup, store
<1> QED BY <1>1, <1>2

LEMMA StepDeleted ==
  ASSUME NEW p \in Proc, TypeOK, Shape, Fresher, Alone, Deleted, Step(p)
  PROVE  Deleted'
<1> SUFFICES ASSUME NEW q \in Proc, at(q)' # "idle", me'[q].verb = "remove",
                    me'[q].app \notin history'.contended
             PROVE  /\ at(q)' # "undesktop" => me'[q].app \notin launchers'
                    /\ at(q)' = "undirectory" \/ Saves(q)' =>
                         (me'[q].entry.icon => me'[q].app \notin icons')
                    /\ Saves(q)' => << me'[q].app, me'[q].entry.home >> \notin dirs'
  BY DEF Deleted
<1> USE DEF at, Saves
<1>0. OthersKeep(p) /\ history.contended \subseteq history.contended' /\ Shaped(p)
      /\ me[p].app \in App /\ me[q].app \in App
  BY StepEffects, HistoryGrows, ShapeParts, CommandTypes
<1>1. CASE q # p
  <2>1. me'[q].at = me[q].at /\ Keeps(q)
    BY <1>0, <1>1 DEF OthersKeep
  <2>2. at(p) = "idle" \/ me[q].app # me[p].app
    BY <1>1, <2>1, Apart DEF Keeps
  <2> QED BY <1>0, <2>1, <2>2, Elsewhere DEF Keeps, Deleted
<1>2. CASE q = p
  <2>1. CASE StartInstall(p)
    BY <1>2, <2>1, StartInstallEffect
  <2>2. CASE StartRemove(p)
    BY <1>2, <2>2, StartRemoveEffect
  <2>3. CASE RemoveDesktop(p) /\ Advances(p, "unicon")
    BY <1>2, <2>3 DEF RemoveDesktop, Advances, Keeps
  <2>4. CASE RemoveIcon(p) /\ at(p) = "unicon" /\ Advances(p, "undirectory")
    <3>1. UNCHANGED launchers /\ (me[p].entry.icon => icons' = icons \ {me[p].app})
      BY <2>4 DEF RemoveIcon
    <3>2. me[p].app \notin launchers
      BY <1>0, <1>2, <2>4 DEF Advances, Keeps, Deleted
    <3> QED BY <1>2, <2>4, <3>1, <3>2 DEF Advances, Keeps
  <2>5. CASE /\ RemoveDirectory(p) /\ at(p) = "undirectory" /\ Advances(p, "save")
             /\ dirs' = dirs \ {<< me[p].app, me[p].entry.home >>}
    <3>1. UNCHANGED << launchers, icons >>
      BY <2>5 DEF RemoveDirectory
    <3> QED BY <1>0, <1>2, <2>5, <3>1 DEF Advances, Keeps, Deleted
  <2>6. CASE Ends(p)
    BY <1>2, <2>6, EndsIdle
  <2>7. CASE at(p) \in {"installing", "icon", "desktop", "load"} /\ me'[p].verb = me[p].verb
    BY <1>0, <1>2, <2>7 DEF Shaped, Integrates
  <2>8. CASE at(p) \in {"save", "copying"} /\ Keeps(p) /\ UNCHANGED << launchers, icons, dirs >>
    BY <1>0, <1>2, <2>8 DEF Keeps, Deleted
  <2> QED BY <2>1, <2>2, <2>3, <2>4, <2>5, <2>6, <2>7, <2>8, Steps
          DEF Advances, Keeps, Recorded, Reloaded, CheckBackup, CopyBackup, store
<1> QED BY <1>1, <1>2

LEMMA StepKnown ==
  ASSUME NEW p \in Proc, TypeOK, Shape, Fresher, Alone, Known, Step(p)
  PROVE  Known'
<1> SUFFICES ASSUME NEW q \in Proc, at(q)' # "idle", me'[q].verb # "install",
                    me'[q].app \notin history'.contended, ~history'.raced
             PROVE  file'.apps[me'[q].app] # None
  BY DEF Known
<1> USE DEF at
<1>0. /\ OthersKeep(p) /\ history.contended \subseteq history.contended' /\ ~history.raced
      /\ me[p].app \in App /\ me[q].app \in App
  BY StepEffects, HistoryGrows, CommandTypes
<1>1. CASE q # p
  <2>1. me'[q].at = me[q].at /\ Keeps(q)
    BY <1>0, <1>1 DEF OthersKeep
  <2>2. at(p) = "idle" \/ me[q].app # me[p].app
    BY <1>1, <2>1, Apart DEF Keeps
  <2> QED BY <1>0, <2>1, <2>2, Elsewhere DEF Keeps, Known
<1>2. CASE q = p
  <2>1. CASE StartInstall(p)
    <3>1. UNCHANGED file
      BY <2>1 DEF StartInstall
    <3> QED BY <1>2, <2>1, <3>1, StartInstallEffect, NoneAssumption
  <2>2. CASE StartRemove(p)
    <3>1. UNCHANGED file
      BY <2>2 DEF StartRemove
    <3> QED BY <1>2, <2>2, <3>1, StartRemoveEffect, NoneAssumption
  <2>3. CASE Ends(p)
    BY <1>2, <2>3, EndsIdle
  <2>4. CASE at(p) # "idle" /\ UNCHANGED file /\ me'[p].app = me[p].app
             /\ me'[p].verb = me[p].verb
    BY <1>0, <1>2, <2>4 DEF Known
  <2> QED BY <2>1, <2>2, <2>3, <2>4, Steps, HistoryGrows, PersistEffect
          DEF Advances, Keeps, Recorded, Reloaded
<1> QED BY <1>1, <1>2

------------------------------------------------------------------------------
(***************************************************************************)
(* The store meanwhile.                                                    *)
(***************************************************************************)
LEMMA CalmBefore ==
  ASSUME NEW p \in Proc, TypeOK, Fresher, Step(p), NEW a \in App, Calm(a)'
  PROVE  /\ ~history.raced /\ a \notin history.contended /\ ~history'.raced
         /\ Calm(a) \/ (Persist(p) /\ a = me[p].app)
         /\ at(p) # "idle" /\ a = me[p].app => ~Stop(p)
<1>1. at(p) # "idle" /\ a = me[p].app => ~Stop(p)
  BY StopHistory DEF Calm
<1>2. CASE Persist(p)
  BY <1>1, <1>2, PersistHistory DEF Calm
<1>3. CASE ~Persist(p)
  BY <1>1, <1>3, HistoryGrows DEF Calm
<1> QED BY <1>2, <1>3

(* A command in progress saves, gives up, is refused its directory, or     *)
(* goes on; what it goes on with.                                          *)
GoesOn(p) ==
  /\ me'[p].verb = me[p].verb /\ me'[p].app = me[p].app /\ me'[p].entry = me[p].entry
  /\ me'[p].at # "idle" /\ (Saves(p) => Saves(p)')
  /\ UNCHANGED file
  /\ \/ dirs \subseteq dirs'
     \/ at(p) = "undirectory" /\ Saves(p)'
  /\ \/ launchers' \subseteq launchers
     \/ at(p) = "desktop" /\ launchers' = launchers \cup {me[p].app}

LEMMA ActiveSteps ==
  ASSUME NEW p \in Proc, TypeOK, Step(p), at(p) # "idle"
  PROVE  \/ Persist(p) /\ at(p) = "persist" /\ Ends(p)
         \/ Stop(p) /\ Ends(p)
         \/ /\ RemoveDirectory(p) /\ at(p) = "undirectory" /\ Ends(p)
            /\ UNCHANGED << dirs, launchers, icons, file >>
         \/ GoesOn(p)
<1>1. \A next : Advances(p, next) =>
        /\ me'[p].verb = me[p].verb /\ me'[p].app = me[p].app /\ me'[p].entry = me[p].entry
        /\ me'[p].at = next
  BY DEF Advances, Keeps
<1>2. Saves(p)' <=> me'[p].at \in {"save", "copying", "persist"}
  BY DEF Saves, at
<1>3. CASE RunInstaller(p) /\ at(p) = "installing" /\ Advances(p, "icon")
  <2>1. UNCHANGED << file, launchers >> /\ dirs \subseteq dirs'
    BY <1>3 DEF RunInstaller
  <2> QED BY <1>1, <1>3, <2>1 DEF GoesOn, Saves
<1>4. CASE WriteIcon(p) /\ at(p) = "icon" /\ Advances(p, "desktop")
  <2>1. UNCHANGED << file, launchers, dirs >>
    BY <1>4 DEF WriteIcon
  <2> QED BY <1>1, <1>4, <2>1 DEF GoesOn, Saves
<1>5. CASE WriteDesktop(p) /\ at(p) = "desktop" /\ Recorded(p)
  <2>1. UNCHANGED << file, dirs >> /\ launchers' = launchers \cup {me[p].app}
    BY <1>5 DEF WriteDesktop
  <2> QED BY <1>5, <2>1 DEF GoesOn, Saves, Keeps, Recorded
<1>6. CASE Reload(p) /\ at(p) = "load" /\ Reloaded(p)
  <2>1. UNCHANGED << file, launchers, dirs >>
    BY <1>6 DEF Reload, store
  <2> QED BY <1>6, <2>1 DEF GoesOn, Saves, Reloaded
<1>7. CASE RemoveDesktop(p) /\ at(p) = "undesktop" /\ Advances(p, "unicon")
  <2>1. UNCHANGED << file, dirs >> /\ launchers' \subseteq launchers
    BY <1>7 DEF RemoveDesktop
  <2> QED BY <1>1, <1>7, <2>1 DEF GoesOn, Saves
<1>8. CASE RemoveIcon(p) /\ at(p) = "unicon" /\ Advances(p, "undirectory")
  <2>1. UNCHANGED << file, launchers, dirs >>
    BY <1>8 DEF RemoveIcon
  <2> QED BY <1>1, <1>8, <2>1 DEF GoesOn, Saves
<1>9. CASE RemoveDirectory(p) /\ at(p) = "undirectory" /\ Advances(p, "save")
  <2>1. UNCHANGED << file, launchers >>
    BY <1>9 DEF RemoveDirectory
  <2> QED BY <1>1, <1>2, <1>9, <2>1 DEF GoesOn
<1>10. CASE RemoveDirectory(p) /\ at(p) = "undirectory" /\ Ends(p) /\ UNCHANGED dirs
  <2>1. UNCHANGED << file, launchers, icons >>
    BY <1>10 DEF RemoveDirectory
  <2> QED BY <1>10, <2>1
<1>11. CASE CheckBackup(p) /\ at(p) = "save" /\ (Advances(p, "copying") \/ Advances(p, "persist"))
  <2>1. UNCHANGED << file, launchers, dirs >>
    BY <1>11 DEF CheckBackup, store
  <2> QED BY <1>1, <1>2, <1>11, <2>1 DEF GoesOn
<1>12. CASE CopyBackup(p) /\ at(p) = "copying" /\ Advances(p, "persist")
  <2>1. UNCHANGED << file, launchers, dirs >>
    BY <1>12 DEF CopyBackup, store
  <2> QED BY <1>1, <1>2, <1>12, <2>1 DEF GoesOn
<1>13. ~StartInstall(p) /\ ~StartRemove(p)
  BY DEF StartInstall, StartRemove
<1> QED BY <1>3, <1>4, <1>5, <1>6, <1>7, <1>8, <1>9, <1>10, <1>11, <1>12, <1>13, Steps

LEMMA StepUsable ==
  ASSUME NEW p \in Proc, StoreInv, Step(p)
  PROVE  UsableMeanwhile'
<1> SUFFICES ASSUME NEW a \in App, Calm(a)', file'.apps[a] # None,
                    ~\E q \in Active(a)' : me'[q].verb = "remove" /\ Saves(q)'
             PROVE  << a, file'.apps[a].home >> \in dirs'
  BY DEF UsableMeanwhile
<1>0. /\ TypeOK /\ Shaped(p) /\ OthersKeep(p) /\ Fresher /\ Alone /\ InPlace
      /\ ~history.raced /\ a \notin history.contended /\ ~history'.raced
      /\ Calm(a) \/ (Persist(p) /\ a = me[p].app)
  BY ShapeParts, StepEffects, CalmBefore DEF StoreInv
<1>1. Calm(a) /\ file.apps[a] # None =>
        \/ << a, file.apps[a].home >> \in dirs
        \/ \E q \in Active(a) : me[q].verb = "remove" /\ Saves(q)
  BY DEF StoreInv, UsableMeanwhile
<1>2. \A q \in Active(a) \ {p} : q \in Active(a)' /\ Keeps(q) /\ me'[q].at = me[q].at
  BY <1>0 DEF OthersKeep, Keeps, Active, at
<1>3. CASE at(p) = "idle" \/ a # me[p].app
  <2>1. Calm(a) /\ p \notin Active(a)
    BY <1>0, <1>3, Steps DEF Active, Persist
  <2>2. ~\E q \in Active(a) : me[q].verb = "remove" /\ Saves(q)
    BY <1>2, <2>1 DEF Saves, Keeps, at
  <2>3. file'.apps[a] = file.apps[a]
    BY <1>0, <1>3, Elsewhere
  <2> QED BY <1>0, <1>1, <1>3, <2>1, <2>2, <2>3, Elsewhere
<1>4. CASE at(p) # "idle" /\ a = me[p].app
  <2>0. \A q \in Active(a) : q = p
    BY <1>0, <1>4 DEF Alone, Active
  <2>1. CASE Persist(p)
    <3>1. at(p) = "persist" /\ file'.apps = me[p].apps /\ UNCHANGED dirs
      BY <2>1 DEF Persist, store
    <3>2. me[p].verb # "remove" /\ file'.apps[a] = me[p].entry
      BY <1>0, <1>4, <3>1 DEF Shaped, Holds, Saves
    <3> QED BY <1>0, <1>4, <3>1, <3>2 DEF InPlace
  <2>2. CASE RemoveDirectory(p) /\ at(p) = "undirectory" /\ UNCHANGED << dirs, file >>
    <3>1. ~Persist(p) /\ ~Saves(p)
      BY <2>2 DEF Persist, Saves
    <3> QED BY <1>0, <1>1, <2>0, <2>2, <3>1
  <2>3. CASE GoesOn(p)
    <3>1. p \in Active(a)'
      BY <1>4, <2>3 DEF Active, GoesOn, at
    <3>2. at(p) = "undirectory" => me'[p].verb = "remove"
      BY <1>0, <2>3 DEF Shaped, Deletes, GoesOn
    <3>3. ~Persist(p)
      <4>1. me'[p].at # "idle"
        BY <2>3 DEF GoesOn
      <4> QED BY <1>0, <4>1, PersistEffect, EndsIdle
    <3>4. /\ \/ dirs \subseteq dirs'
             \/ at(p) = "undirectory" /\ Saves(p)'
          /\ me'[p].verb = me[p].verb /\ (Saves(p) => Saves(p)') /\ UNCHANGED file
      BY <2>3 DEF GoesOn
    <3> QED BY <1>0, <1>1, <2>0, <3>1, <3>2, <3>3, <3>4
  <2>4. ~Stop(p)
    BY <1>0, <1>4, CalmBefore
  <2> QED BY <1>0, <1>4, <2>1, <2>2, <2>3, <2>4, ActiveSteps
<1> QED BY <1>3, <1>4

LEMMA StepRegistered ==
  ASSUME NEW p \in Proc, StoreInv, Step(p)
  PROVE  RegisteredMeanwhile'
<1> SUFFICES ASSUME NEW a \in App, Calm(a)', a \in launchers',
                    ~\E q \in Active(a)' : me'[q].verb = "install"
             PROVE  file'.apps[a] # None
  <2>1. launchers' \subseteq App
    BY StepTypes DEF StoreInv, TypeOK
  <2> QED BY <2>1 DEF RegisteredMeanwhile
<1>0. /\ TypeOK /\ Shaped(p) /\ OthersKeep(p) /\ Fresher /\ Alone /\ Deleted /\ Known
      /\ ~history.raced /\ a \notin history.contended /\ ~history'.raced
      /\ Calm(a) \/ (Persist(p) /\ a = me[p].app)
  BY ShapeParts, StepEffects, CalmBefore DEF StoreInv
<1>1. Calm(a) /\ a \in launchers =>
        file.apps[a] # None \/ \E q \in Active(a) : me[q].verb = "install"
  BY DEF StoreInv, RegisteredMeanwhile
<1>2. \A q \in Active(a) \ {p} : q \in Active(a)' /\ me'[q].verb = me[q].verb
  BY <1>0 DEF OthersKeep, Keeps, Active, at
<1>3. CASE at(p) = "idle" \/ a # me[p].app
  <2>1. Calm(a) /\ p \notin Active(a)
    BY <1>0, <1>3, Steps DEF Active, Persist
  <2>2. ~\E q \in Active(a) : me[q].verb = "install"
    BY <1>2, <2>1
  <2>3. file'.apps[a] = file.apps[a] /\ a \in launchers
    BY <1>0, <1>3, Elsewhere
  <2> QED BY <1>1, <2>1, <2>2, <2>3
<1>4. CASE at(p) # "idle" /\ a = me[p].app
  <2>0. \A q \in Active(a) : q = p
    BY <1>0, <1>4 DEF Alone, Active
  <2>1. CASE Persist(p) /\ at(p) = "persist"
    <3>1. file'.apps = me[p].apps /\ UNCHANGED launchers
      BY <2>1 DEF Persist, store
    <3>2. me[p].verb # "remove"
      BY <1>0, <1>4, <2>1, <3>1 DEF Deleted
    <3>3. file'.apps[a] = me[p].entry
      BY <1>0, <1>4, <2>1, <3>1, <3>2 DEF Shaped, Saves
    <3> QED BY <1>0, <1>4, <3>3 DEF TypeOK
  <2>2. CASE RemoveDirectory(p) /\ at(p) = "undirectory" /\ UNCHANGED launchers
    BY <1>0, <1>4, <2>2 DEF Shaped, Deletes, Deleted
  <2>3. CASE GoesOn(p)
    <3>1. p \in Active(a)' /\ me'[p].verb = me[p].verb /\ UNCHANGED file
      BY <1>4, <2>3 DEF Active, GoesOn, at
    <3>2. ~Persist(p)
      <4>1. me'[p].at # "idle"
        BY <2>3 DEF GoesOn
      <4> QED BY <1>0, <4>1, PersistEffect, EndsIdle
    <3>3. CASE launchers' \subseteq launchers
      BY <1>0, <1>1, <2>0, <3>1, <3>2, <3>3
    <3>4. CASE at(p) = "desktop"
      BY <1>0, <1>4, <3>1, <3>4 DEF Known
    <3> QED BY <2>3, <3>3, <3>4 DEF GoesOn
  <2>4. ~Stop(p)
    BY <1>0, <1>4, CalmBefore
  <2> QED BY <1>0, <1>4, <2>1, <2>2, <2>3, <2>4, ActiveSteps
<1> QED BY <1>3, <1>4

LEMMA StepRemoved ==
  ASSUME NEW p \in Proc, StoreInv, Step(p)
  PROVE  RemovedMeanwhile'
<1> SUFFICES ASSUME NEW a, NEW entry, history'.removed # None,
                    a = history'.removed.app, entry = history'.removed.entry, Calm(a)'
             PROVE  /\ file'.apps[a] = None
                    /\ \/ Active(a)' # {}
                       \/ /\ a \notin launchers' /\ << a, entry.home >> \notin dirs'
                          /\ entry.icon => a \notin icons'
  BY DEF RemovedMeanwhile
<1>0. /\ TypeOK /\ Shaped(p) /\ OthersKeep(p) /\ Fresher /\ Alone /\ Deleted /\ Known
      /\ a \in App
  <2>1. a \in App
    BY StepTypes DEF StoreInv, TypeOK
  <2> QED BY <2>1, ShapeParts, StepEffects DEF StoreInv
<1>a. /\ ~history.raced /\ a \notin history.contended /\ ~history'.raced
      /\ Calm(a) \/ (Persist(p) /\ a = me[p].app)
  BY <1>0, CalmBefore
<1>1. CASE Persist(p)
  <2>1. /\ me[p].verb = "remove" /\ history'.removed = [app |-> me[p].app, entry |-> me[p].entry]
    BY <1>0, <1>1, PersistHistory
  <2>2. a = me[p].app /\ entry = me[p].entry
    BY <2>1
  <2>3. at(p) = "persist" /\ file'.apps = me[p].apps /\ UNCHANGED << launchers, icons, dirs >>
    BY <1>1 DEF Persist, store
  <2> QED BY <1>0, <1>a, <2>1, <2>2, <2>3 DEF Deleted, Shaped, Holds, Saves
<1>2. CASE ~Persist(p)
  <2>1. UNCHANGED file /\ history'.removed = history.removed /\ Calm(a)
    BY <1>0, <1>2, <1>a, HistoryGrows
  <2>2. /\ file.apps[a] = None
        /\ \/ Active(a) # {}
           \/ /\ a \notin launchers /\ << a, entry.home >> \notin dirs
              /\ entry.icon => a \notin icons
    BY <2>1 DEF StoreInv, RemovedMeanwhile
  <2>3. \A q \in Active(a) \ {p} : q \in Active(a)'
    BY <1>0 DEF OthersKeep, Keeps, Active, at
  <2>4. CASE at(p) = "idle" \/ a # me[p].app
    <3>1. p \notin Active(a)
      BY <2>4 DEF Active
    <3> QED BY <1>0, <2>1, <2>2, <2>3, <2>4, <3>1, Elsewhere
  <2>5. CASE at(p) # "idle" /\ a = me[p].app
    <3>1. CASE RemoveDirectory(p) /\ at(p) = "undirectory"
      BY <1>0, <1>a, <2>2, <2>5, <3>1 DEF Shaped, Deletes, Known
    <3>2. CASE GoesOn(p)
      <4>1. p \in Active(a)'
        BY <2>5, <3>2 DEF Active, GoesOn, at
      <4> QED BY <2>1, <2>2, <4>1
    <3>3. ~Stop(p)
      BY <1>0, <2>5, CalmBefore
    <3> QED BY <1>0, <1>2, <2>5, <3>1, <3>2, <3>3, ActiveSteps
  <2> QED BY <2>4, <2>5
<1> QED BY <1>1, <1>2

Kept == backup = "legacy" \/ \E q \in Proc : at(q) = "copying"

LEMMA StepMigration ==
  ASSUME NEW p \in Proc, StoreInv, Step(p)
  PROVE  Migration'
<1> SUFFICES ASSUME history'.born = "legacy", ~history'.torn, ~history'.raced
             PROVE  /\ file'.schema = "legacy" \/ Kept'
                    /\ \A q \in Proc : at(q)' = "persist" => Kept'
                    /\ \A q \in Proc : at(q)' = "copying" => me'[q].source = "legacy"
                    /\ backup' = "absent" \/ Kept'
  BY DEF Migration, Kept
<1>0. TypeOK /\ OthersKeep(p) /\ Fresher
  BY StepEffects DEF StoreInv
<1>1. /\ file.schema = "legacy" \/ Kept
      /\ \A q \in Proc : at(q) = "persist" => Kept
      /\ \A q \in Proc : at(q) = "copying" => me[q].source = "legacy"
      /\ backup = "absent" \/ Kept
  <2>1. history.born = "legacy" /\ ~history.torn /\ ~history.raced
    BY <1>0, HistoryGrows
  <2> QED BY <2>1 DEF StoreInv, Migration, Kept
<1>2. \A q \in Proc \ {p} : at(q)' = at(q) /\ me'[q].source = me[q].source
  BY <1>0 DEF OthersKeep, at
<1>3. CASE CheckBackup(p)
  <2>1. at(p) = "save" /\ UNCHANGED file
    BY <1>3 DEF CheckBackup
  <2>2. me[p].legacy <=> file.schema = "legacy"
    BY <1>0, <1>3, <2>1, CheckBackupHistory DEF Stale, Fresher, Holds, Saves
  <2>3. CASE /\ Advances(p, "copying") /\ me'[p].source = file.schema /\ me[p].legacy
    <3>1. at(p)' = "copying" /\ me'[p].source = "legacy"
      BY <2>2, <2>3 DEF Advances, at
    <3> QED BY <1>1, <1>2, <3>1 DEF Kept
  <2>4. CASE Advances(p, "persist") /\ UNCHANGED backup /\ ~(me[p].legacy /\ backup = "absent")
    <3>1. at(p)' = "persist"
      BY <2>4 DEF Advances, at
    <3>2. Kept
      BY <1>1, <2>2, <2>4
    <3>3. Kept'
      BY <1>2, <2>1, <2>4, <3>2 DEF Kept
    <3> QED BY <1>1, <1>2, <3>1, <3>3
  <2> QED BY <1>0, <1>3, <2>3, <2>4, CheckBackupEffect
<1>4. CASE CopyBackup(p)
  <2>1. backup' = me[p].source /\ at(p) = "copying"
    BY <1>4 DEF CopyBackup
  <2>2. at(p)' = "persist"
    BY <1>0, <1>4, SimpleEffects DEF Advances, at
  <2> QED BY <1>1, <1>2, <2>1, <2>2 DEF Kept
<1>5. CASE at(p) # "copying" /\ at(p)' \notin {"copying", "persist"} /\ UNCHANGED backup
  <2>1. Kept => Kept'
    BY <1>2, <1>5 DEF Kept
  <2>2. file'.schema = "legacy" \/ Kept'
    BY <1>1, <2>1, HistoryGrows DEF Persist, StoreInv
  <2> QED BY <1>1, <1>2, <1>5, <2>1, <2>2
<1>6. CASE Stop(p)
  <2>1. at(p) # "copying" /\ UNCHANGED << backup, file >>
    BY <1>0, <1>6, StopHistory DEF Stop
  <2>2. at(p)' = "idle"
    BY <1>0, <1>6, SimpleEffects, EndsIdle
  <2> QED BY <1>5, <2>1, <2>2
<1>7. CASE Persist(p)
  <2>1. UNCHANGED backup /\ at(p) = "persist"
    BY <1>7 DEF Persist
  <2>2. at(p)' = "idle"
    BY <1>0, <1>7, PersistEffect, EndsIdle
  <2> QED BY <1>5, <2>1, <2>2
<1>8. CASE StartInstall(p) \/ StartRemove(p)
  <2>1. UNCHANGED backup /\ at(p) = "idle"
    BY <1>8 DEF StartInstall, StartRemove
  <2>2. at(p)' \notin {"copying", "persist"}
    BY <1>0, <1>8, StartInstallEffect, StartRemoveEffect DEF at
  <2> QED BY <1>5, <2>1, <2>2
<1>9. CASE \/ RunInstaller(p) \/ WriteIcon(p)
           \/ RemoveDesktop(p) \/ RemoveIcon(p) \/ RemoveDirectory(p)
  <2>1. UNCHANGED backup /\ at(p) # "copying"
    BY <1>9 DEF RunInstaller, WriteIcon, RemoveDesktop, RemoveIcon, RemoveDirectory
  <2>2. at(p)' \notin {"copying", "persist"}
    BY <1>0, <1>9, SimpleEffects, EndsIdle DEF Advances, at
  <2> QED BY <1>5, <2>1, <2>2
<1>10. CASE WriteDesktop(p) \/ Reload(p)
  <2>1. UNCHANGED backup /\ at(p) # "copying"
    BY <1>10 DEF WriteDesktop, Reload
  <2>2. at(p)' \notin {"copying", "persist"}
    BY <1>0, <1>10, WriteDesktopEffect, ReloadEffect DEF at
  <2> QED BY <1>5, <2>1, <2>2
<1> QED BY <1>3, <1>4, <1>6, <1>7, <1>8, <1>9, <1>10 DEF Step, Installing, Removing, Saving

------------------------------------------------------------------------------
LEMMA InitInv == Init => StoreInv
<1> SUFFICES ASSUME Init PROVE StoreInv
  OBVIOUS
<1>1. TypeOK /\ \A p \in Proc : at(p) = "idle"
  BY InitTypes DEF Init, Idle, at
<1>2. history.removed = None /\ ~history.torn /\ ~history.raced /\ backup = "absent"
      /\ (history.born = "legacy" => file.schema = "legacy")
  BY DEF Init
<1>3. \A a \in App : file.apps[a] # None => << a, file.apps[a].home >> \in dirs
  BY DEF Init
<1>4. \A a \in launchers : file.apps[a] # None
  <2> SUFFICES ASSUME NEW a \in launchers PROVE file.apps[a] # None
    OBVIOUS
  <2>1. PICK old \in SUBSET Legacy, iconic \in SUBSET Legacy :
          /\ launchers = old
          /\ file.apps = [x \in App |->
               IF x \in old
               THEN [home |-> LegacyHome(x), icon |-> x \in iconic, hash |-> FALSE] ELSE None]
    <3>1. PICK schema \in {"absent", "legacy"}, iconic \in SUBSET Legacy :
            LET old == IF schema = "legacy" THEN Legacy ELSE {}
            IN /\ file = [schema |-> schema, version |-> 0,
                          apps |-> [x \in App |->
                            IF x \in old
                            THEN [home |-> LegacyHome(x), icon |-> x \in iconic, hash |-> FALSE]
                            ELSE None]]
               /\ launchers = old
      BY DEF Init
    <3> QED BY <3>1
  <2>2. LegacyHome(a) \in Home
    BY DEF LegacyHome, Home
  <2>3. file.apps[a] \in Entry
    BY <2>1, <2>2, StoreAssumption DEF Entry
  <2> QED BY <2>3, NoneAssumption
<1>5. Shape /\ Fresher /\ Alone /\ InPlace /\ Deleted /\ Known
  BY <1>1 DEF Shape, Fresher, Alone, InPlace, Deleted, Known, Holds, Saves, Deletes, Integrates
<1>6. UsableMeanwhile /\ RegisteredMeanwhile /\ RemovedMeanwhile /\ Migration
  BY <1>1, <1>2, <1>3, <1>4 DEF UsableMeanwhile, RegisteredMeanwhile, RemovedMeanwhile, Migration
<1> QED BY <1>1, <1>5, <1>6 DEF StoreInv

LEMMA NextInv == StoreInv /\ [Next]_vars => StoreInv'
<1> SUFFICES ASSUME StoreInv, [Next]_vars PROVE StoreInv'
  OBVIOUS
<1>1. ASSUME NEW p \in Proc, Step(p) PROVE StoreInv'
  BY <1>1, StepTypes, StepShape, StepFresher, StepAlone, StepInPlace, StepDeleted, StepKnown,
     StepUsable, StepRegistered, StepRemoved, StepMigration DEF StoreInv
<1>2. CASE UNCHANGED vars
  BY <1>2, NextTypes
     DEF vars, StoreInv, Shape, Fresher, Alone, InPlace, Deleted, Known, UsableMeanwhile,
         RegisteredMeanwhile, RemovedMeanwhile, Migration, Calm, Active, Holds, Saves, Deletes,
         Integrates, at
<1> QED BY <1>1, <1>2 DEF Next, Step

(* The results.  A command that ended well, with none stopped half-way or  *)
(* overlapping on the application and no stale registry saved, has left:   *)
(* a registered application that can be opened.                            *)
THEOREM EntriesUsable == Spec => []EntryUsable
<1>1. StoreInv => EntryUsable
  BY DEF StoreInv, UsableMeanwhile, EntryUsable, Settled, Calm
<1> QED BY <1>1, InitInv, NextInv, PTL DEF Spec

(* A launcher whose application `cognac run` finds.                        *)
THEOREM LaunchersRegistered == Spec => []LauncherRegistered
<1>1. StoreInv => LauncherRegistered
  BY DEF StoreInv, RegisteredMeanwhile, LauncherRegistered, Settled, Calm
<1> QED BY <1>1, InitInv, NextInv, PTL DEF Spec

(* After a successful `cognac remove`, nothing the entry named.            *)
THEOREM RemovalComplete == Spec => []RemoveLeavesNothing
<1>1. StoreInv => RemoveLeavesNothing
  BY DEF StoreInv, RemovedMeanwhile, RemoveLeavesNothing, Settled, Calm
<1> QED BY <1>1, InitInv, NextInv, PTL DEF Spec

(* And in place of a registry of schema 1 one whose copy is complete or is *)
(* being made.                                                             *)
THEOREM MigrationPreserves == Spec => []LegacyPreserved
<1>1. StoreInv => LegacyPreserved
  BY DEF StoreInv, Migration, LegacyPreserved
<1> QED BY <1>1, InitInv, NextInv, PTL DEF Spec

------------------------------------------------------------------------------
(***************************************************************************)
(* What others registered while an installer ran: with one other command   *)
(* at a time, it is in the file, in the registry that will be saved, and   *)
(* in the one the other command holds unless it is being removed there.    *)
(***************************************************************************)
Installs(p) == at(p) # "idle" /\ me[p].verb = "install"

Remembered ==
  \A p \in Proc : Installs(p) =>
    /\ me[p].during \subseteq Listed(file.apps)
    /\ Saves(p) => me[p].during \subseteq Listed(me[p].apps)
    /\ \A q \in Proc \ {p} : Holds(q) =>
         \A a \in me[p].during :
           a \in Listed(me[q].apps) \/ (me[q].verb = "remove" /\ a = me[q].app)

(* Only a command that saves is noticed by others. *)
LEMMA DuringOthers ==
  ASSUME NEW p \in Proc, TypeOK, Step(p), ~Persist(p), NEW q \in Proc \ {p}
  PROVE  me'[q].during = me[q].during
<1>1. me'[q] = me[q]
  <2>1. \E c : me' = [me EXCEPT ![p] = c]
    <3>1. CASE StartInstall(p)
      BY <3>1 DEF StartInstall
    <3>2. CASE StartRemove(p)
      BY <3>2 DEF StartRemove
    <3>3. CASE WriteDesktop(p) \/ Reload(p)
      BY <3>3 DEF WriteDesktop, Reload, TypeOK
    <3>4. CASE CheckBackup(p)
      BY <3>4 DEF CheckBackup, TypeOK
    <3>5. CASE \/ RunInstaller(p) \/ WriteIcon(p) \/ RemoveDesktop(p) \/ RemoveIcon(p)
               \/ CopyBackup(p) \/ Stop(p)
      BY <3>5 DEF RunInstaller, WriteIcon, RemoveDesktop, RemoveIcon, CopyBackup, Stop, TypeOK
    <3>6. CASE RemoveDirectory(p)
      BY <3>6 DEF RemoveDirectory, TypeOK
    <3> QED BY <3>1, <3>2, <3>3, <3>4, <3>5, <3>6 DEF Step, Installing, Removing, Saving
  <2> QED BY <2>1 DEF TypeOK
<1> QED BY <1>1

(* And a command keeps what it noticed as long as it goes on. *)
LEMMA DuringOwn ==
  ASSUME NEW p \in Proc, TypeOK, Step(p), at(p) # "idle", me'[p].at # "idle"
  PROVE  me'[p].during = me[p].during
<1>0. me \in [Proc -> Command] /\ me[p] \in Command
  BY DEF TypeOK
<1>1. CASE WriteDesktop(p)
  BY <1>0, <1>1 DEF WriteDesktop, Command
<1>2. CASE Reload(p)
  <2> DEFINE l == Loaded(me[p])
             apps == [file.apps EXCEPT ![me[p].app] = me[p].entry]
  <2>1. l \in Command /\ l.during = me[p].during
    BY <1>0, LoadedFields
  <2>2. me' = [me EXCEPT ![p] = [l EXCEPT !.at = "save", !.apps = apps]]
    BY <1>2 DEF Reload
  <2> HIDE DEF l, apps
  <2>3. me'[p] = [l EXCEPT !.at = "save", !.apps = apps]
    BY <1>0, <2>2
  <2> QED BY <2>1, <2>3 DEF Command
<1>3. CASE CheckBackup(p)
  BY <1>0, <1>3 DEF CheckBackup, Command
<1>4. CASE RunInstaller(p) \/ WriteIcon(p) \/ RemoveDesktop(p) \/ RemoveIcon(p) \/ CopyBackup(p)
  BY <1>0, <1>4 DEF RunInstaller, WriteIcon, RemoveDesktop, RemoveIcon, CopyBackup, Command
<1>5. CASE RemoveDirectory(p)
  <2>1. me' = [me EXCEPT ![p] = Idle] \/ me' = [me EXCEPT ![p].at = "save"]
    BY <1>5 DEF RemoveDirectory
  <2>2. me' # [me EXCEPT ![p] = Idle]
    BY EndEffect, EndsIdle
  <2> QED BY <1>0, <2>1, <2>2 DEF Command
<1>6. ~StartInstall(p) /\ ~StartRemove(p) /\ ~Persist(p) /\ ~Stop(p)
  BY PersistEffect, SimpleEffects, EndsIdle DEF StartInstall, StartRemove
<1> QED BY <1>1, <1>2, <1>3, <1>4, <1>5, <1>6 DEF Step, Installing, Removing, Saving

LEMMA StepRememberedOwn ==
  ASSUME NEW p \in Proc, StoreInv, Remembered, Step(p), Installs(p)'
  PROVE  /\ me'[p].during \subseteq Listed(file'.apps)
         /\ Saves(p)' => me'[p].during \subseteq Listed(me'[p].apps)
         /\ \A q \in Proc \ {p} : Holds(q)' =>
              \A a \in me'[p].during :
                a \in Listed(me'[q].apps) \/ (me'[q].verb = "remove" /\ a = me'[q].app)
<1>0. /\ TypeOK /\ Shaped(p) /\ OthersKeep(p) /\ me[p].app \in App /\ me[p].apps \in Apps
      /\ file.apps \in Apps /\ (at(p) # "idle" => me[p].entry \in Entry)
  BY ShapeParts, StepEffects, CommandTypes DEF StoreInv, TypeOK
<1>1. CASE at(p) = "idle"
  <2>1. StartInstall(p) \/ StartRemove(p)
    BY <1>0, <1>1, Steps
  <2>2. me'[p].during = {}
    BY <1>0, <2>1, StartInstallEffect, StartRemoveEffect
  <2> QED BY <2>2
<1>2. CASE at(p) # "idle"
  <2>1. GoesOn(p)
    BY <1>0, <1>2, ActiveSteps, EndsIdle DEF Installs
  <2>2. me'[p].during = me[p].during /\ UNCHANGED file /\ me[p].verb = "install"
    BY <1>0, <1>2, <2>1, DuringOwn DEF GoesOn, Installs
  <2>3. Installs(p)
    BY <1>2, <2>2 DEF Installs
  <2>4. /\ me[p].during \subseteq Listed(file.apps)
        /\ Saves(p) => me[p].during \subseteq Listed(me[p].apps)
        /\ \A q \in Proc \ {p} : Holds(q) =>
             \A a \in me[p].during :
               a \in Listed(me[q].apps) \/ (me[q].verb = "remove" /\ a = me[q].app)
    BY <2>3 DEF Remembered
  <2>5. Saves(p)' => me'[p].during \subseteq Listed(me'[p].apps)
    <3>1. CASE at(p) = "load" /\ Reloaded(p)
      <4>1. /\ me'[p].apps[me[p].app] = me[p].entry
            /\ \A b \in App \ {me[p].app} : me'[p].apps[b] = file.apps[b]
        BY <1>0, <1>2, <3>1, AppsUpdate DEF Reloaded
      <4>2. me[p].entry # None
        BY <1>0, <1>2 DEF TypeOK
      <4> QED BY <2>2, <2>4, <4>1, <4>2 DEF Listed
    <3>2. CASE Saves(p) /\ me'[p].apps = me[p].apps
      BY <2>2, <2>4, <3>2 DEF Listed
    <3>3. CASE ~Saves(p)'
      BY <3>3
    <3> QED BY <1>0, <1>2, <2>2, <2>3, <3>1, <3>2, <3>3, Steps, EndsIdle
            DEF Advances, Recorded, Saves, Shaped, Deletes, Installs, at, StartInstall, StartRemove
  <2>6. \A q \in Proc \ {p} : Holds(q)' =>
             Holds(q) /\ me'[q].apps = me[q].apps /\ me'[q].verb = me[q].verb
                      /\ me'[q].app = me[q].app
    BY <1>0 DEF OthersKeep, Keeps, Holds, Saves, Deletes, Integrates, at
  <2> QED BY <2>2, <2>4, <2>5, <2>6 DEF Listed
<1> QED BY <1>1, <1>2

LEMMA StepRememberedOther ==
  ASSUME \A x, y, z \in Proc : x = y \/ y = z \/ x = z,
         NEW s \in Proc, NEW p \in Proc, p # s,
         StoreInv, Remembered, Step(s), Installs(p)'
  PROVE  /\ me'[p].during \subseteq Listed(file'.apps)
         /\ Saves(p)' => me'[p].during \subseteq Listed(me'[p].apps)
         /\ \A q \in Proc \ {p} : Holds(q)' =>
              \A a \in me'[p].during :
                a \in Listed(me'[q].apps) \/ (me'[q].verb = "remove" /\ a = me'[q].app)
<1>0. /\ TypeOK /\ Shaped(s) /\ OthersKeep(s) /\ me[s].app \in App /\ me[s].apps \in Apps
      /\ file.apps \in Apps /\ (at(s) # "idle" => me[s].entry \in Entry /\ me[s].entry # None)
  BY ShapeParts, StepEffects, CommandTypes DEF StoreInv, TypeOK
<1>1. Keeps(p) /\ me'[p].at = me[p].at /\ me'[p].apps = me[p].apps
  BY <1>0 DEF OthersKeep
<1>2. Installs(p) /\ (Saves(p)' <=> Saves(p))
  BY <1>1 DEF Installs, Keeps, Saves, at
<1>3. /\ me[p].during \subseteq Listed(file.apps)
      /\ Saves(p) => me[p].during \subseteq Listed(me[p].apps)
      /\ Holds(s) =>
           \A a \in me[p].during :
             a \in Listed(me[s].apps) \/ (me[s].verb = "remove" /\ a = me[s].app)
  BY <1>2 DEF Remembered
<1>4. \A q \in Proc \ {p} : q = s
  OBVIOUS
<1>5. CASE Persist(s)
  <2>1. /\ at(s) = "persist" /\ file'.apps = me[s].apps
        /\ me' = [q \in Proc |-> IF q = s THEN Idle
                               ELSE [me[q] EXCEPT !.during = Noticed(q, s)]]
    BY <1>5 DEF Persist
  <2>2. Holds(s) /\ Saves(s)
    BY <2>1 DEF Holds, Saves
  <2>3. me'[p].during = Noticed(p, s)
    <3>1. me'[p] = [me[p] EXCEPT !.during = Noticed(p, s)]
      BY <2>1
    <3> QED BY <1>0, <3>1 DEF TypeOK, Command
  <2>4. /\ me[s].verb = "remove" => me'[p].during = me[p].during \ {me[s].app}
        /\ me'[p].during \subseteq me[p].during \cup {me[s].app}
        /\ at(p) # "installing" => me'[p].during \subseteq me[p].during
    BY <2>3 DEF Noticed
  <2>5. me[s].verb # "remove" => me[s].app \in Listed(me[s].apps)
    BY <1>0, <2>1, <2>2 DEF Shaped, Listed
  <2>6. me'[p].during \subseteq Listed(me[s].apps)
    BY <1>3, <2>2, <2>4, <2>5
  <2>7. Saves(p) => at(p) # "installing"
    BY DEF Saves
  <2>8. ~Holds(s)'
    BY <1>0, <1>5, PersistEffect, EndsIdle DEF Holds, Saves, Deletes, Integrates
  <2> QED BY <1>1, <1>2, <1>3, <1>4, <2>1, <2>4, <2>6, <2>7, <2>8 DEF Listed
<1>6. CASE ~Persist(s)
  <2>1. me'[p].during = me[p].during /\ UNCHANGED file
    BY <1>0, <1>6, DuringOthers, HistoryGrows
  <2>2. ASSUME Holds(s)', NEW a \in me[p].during
        PROVE  a \in Listed(me'[s].apps) \/ (me'[s].verb = "remove" /\ a = me'[s].app)
    <3>0. a \in Listed(file.apps) /\ a \in App /\ file.apps[a] # None
      BY <1>3 DEF Listed
    <3> USE DEF at, Holds, Saves, Deletes, Integrates
    <3>1. CASE StartInstall(s)
      <4>1. me'[s].apps = file.apps
        BY <1>0, <2>2, <3>1, StartInstallEffect
      <4> QED BY <3>0, <4>1 DEF Listed
    <3>2. CASE StartRemove(s)
      <4>1. PICK b \in App : me'[s].verb = "remove" /\ me'[s].app = b
                            /\ me'[s].apps = [file.apps EXCEPT ![b] = None]
        BY <1>0, <3>2, StartRemoveEffect
      <4> QED BY <1>0, <3>0, <4>1, AppsUpdate DEF Listed
    <3>3. CASE at(s) = "desktop" /\ Recorded(s)
      <4>1. Holds(s) /\ me[s].verb = "reuse"
        BY <1>0, <2>2, <3>3 DEF Recorded, Keeps, Shaped
      <4>2. a \in Listed(me[s].apps)
        BY <1>3, <4>1
      <4>3. /\ me'[s].apps[me[s].app] = me[s].entry
            /\ \A b \in App \ {me[s].app} : me'[s].apps[b] = me[s].apps[b]
        BY <1>0, <3>3, AppsUpdate DEF Recorded
      <4> QED BY <1>0, <3>0, <3>3, <4>2, <4>3 DEF Listed
    <3>4. CASE at(s) = "load" /\ Reloaded(s)
      <4>1. /\ me'[s].apps[me[s].app] = me[s].entry
            /\ \A b \in App \ {me[s].app} : me'[s].apps[b] = file.apps[b]
        BY <1>0, <3>4, AppsUpdate DEF Reloaded
      <4> QED BY <1>0, <3>0, <3>4, <4>1 DEF Listed
    <3>5. CASE Ends(s)
      BY <2>2, <3>5, EndsIdle
    <3>6. ASSUME NEW next, Advances(s, next),
                 \/ << at(s), next >> \in {<< "installing", "icon" >>, << "icon", "desktop" >>,
                      << "undesktop", "unicon" >>, << "unicon", "undirectory" >>,
                      << "undirectory", "save" >>, << "save", "copying" >>,
                      << "save", "persist" >>, << "copying", "persist" >>}
          PROVE  a \in Listed(me'[s].apps) \/ (me'[s].verb = "remove" /\ a = me'[s].app)
      <4>1. Holds(s)
        BY <1>0, <2>2, <3>6 DEF Advances, Keeps, Shaped
      <4>2. me'[s].apps = me[s].apps /\ me'[s].verb = me[s].verb /\ me'[s].app = me[s].app
        BY <3>6 DEF Advances, Keeps
      <4> QED BY <1>3, <4>1, <4>2 DEF Listed
    <3> QED BY <1>0, <3>1, <3>2, <3>3, <3>4, <3>5, <3>6, Steps
  <2> QED BY <1>1, <1>2, <1>3, <1>4, <2>1, <2>2 DEF Listed
<1> QED BY <1>5, <1>6

(* While an installer runs nothing that another command registers is lost, *)
(* as long as no third command is at work.                                 *)
THEOREM InstallsKeepOthers ==
  ASSUME \A x, y, z \in Proc : x = y \/ y = z \/ x = z
  PROVE  Spec => InstallKeepsOthers
<1>1. Init => Remembered
  <2> SUFFICES ASSUME Init PROVE Remembered
    OBVIOUS
  <2>1. \A p \in Proc : at(p) = "idle"
    BY DEF Init, Idle, at
  <2> QED BY <2>1 DEF Remembered, Installs
<1>2. StoreInv /\ Remembered /\ [Next]_vars => Remembered'
  <2> SUFFICES ASSUME StoreInv, Remembered, [Next]_vars PROVE Remembered'
    OBVIOUS
  <2>1. ASSUME NEW s \in Proc, Step(s) PROVE Remembered'
    BY <2>1, StepRememberedOwn, StepRememberedOther DEF Remembered
  <2>2. CASE UNCHANGED vars
    BY <2>2 DEF vars, Remembered, Installs, Holds, Saves, Deletes, Integrates, Listed, at
  <2> QED BY <2>1, <2>2 DEF Next, Step
<1>3. StoreInv /\ Remembered /\ [Next]_vars =>
        [\A p \in Proc :
           at(p) = "persist" /\ me[p].verb = "install" /\ Persist(p) =>
             me[p].during \cap Listed(file.apps) \subseteq Listed(file'.apps)]_vars
  <2> SUFFICES ASSUME Remembered, NEW p \in Proc, at(p) = "persist", me[p].verb = "install",
                      Persist(p)
               PROVE  me[p].during \subseteq Listed(file'.apps)
    OBVIOUS
  <2>1. file'.apps = me[p].apps
    BY DEF Persist
  <2> QED BY <2>1 DEF Remembered, Installs, Saves, Listed
<1> QED BY <1>1, <1>2, <1>3, InitInv, NextInv, PTL DEF Spec, InstallKeepsOthers

==============================================================================
