------------------------------ MODULE VmSession ------------------------------
(***************************************************************************)
(* `cognac` processes and the Windows guest they share (src/vm.rs), driven *)
(* the way install(), `run` and `repair` drive a VmEnvironment.  Every     *)
(* virsh call and every QEMU Guest Agent command is a step of its own: it  *)
(* may fail, and it may have been carried out although it reports a        *)
(* failure.  Waiting for the guest is a bounded number of polls.  The      *)
(* guest works on by itself, also after the process that started something *)
(* in it is gone; its user may pause it or switch it off.                  *)
(***************************************************************************)
EXTENDS Naturals, FiniteSets

CONSTANTS
  Proc,         \* `cognac` processes that can be active at once
  App,          \* applications
  Visible,      \* those whose program appears under Program Files and that the
                \* detector would pick from there
  Attempts,     \* ATTEMPTS_PER_STRATEGY
  MaxPings,     \* guest-ping attempts of ensure_ready (60)
  MaxPolls,     \* guest-exec-status polls of guest_exec_wait (14 400)
  Chunks,       \* 48 KiB pieces of an executable that is uploaded
  MaxSessions,  \* bound: sessions that are ever started
  None

ASSUME SessionAssumption ==
  /\ App # {} /\ Visible \subseteq App
  /\ Attempts \in Nat \ {0} /\ MaxPings \in Nat \ {0} /\ MaxPolls \in Nat \ {0}
  /\ Chunks \in Nat \ {0} /\ MaxSessions \in Nat

VARIABLES
  domain,     \* state libvirt reports
  guest,      \* what the guest holds
  snapshots,  \* libvirt snapshots of the domain
  marker,     \* state_dir/.snapshots/<app>-<attempt>/libvirt-name
  mirror,     \* state_dir/drive_c, the programs it shows
  me,         \* [Proc -> locals of the session]
  sessions,   \* number of sessions started
  ended       \* history: how the last session ended

vars == << domain, guest, snapshots, marker, mirror, me, sessions, ended >>

------------------------------------------------------------------------------
DomainState == {"running", "shut off", "paused"}
At == {"idle", "domstate", "start", "ping", "recover", "exec", "poll", "open", "write",
       "close", "create", "marker", "discard", "verdict", "revert", "delete", "repair"}
Op == {"provision", "initialize", "snapshot", "run", "restore", "update", "launch"}
Task == {"mkdir", "installer", "inventory", "launch"}
Home == App \X BOOLEAN    \* state directories: of a strategy, of the closing attempt

Process == [session : Nat, app : App, task : Task]
Guest == [programs : SUBSET App, staged : SUBSET Nat, open : SUBSET Nat,
          running : SUBSET Process, exited : SUBSET Process]
Name == [home : Home, attempt : Nat, time : Nat]
Snapshot == [name : Name, saved : Guest]
Session == [at : At, op : Op, task : Task, id : Nat, app : App, closing : BOOLEAN,
            attempt : 1 .. Attempts, tries : Nat, chunks : Nat, short : BOOLEAN, ok : BOOLEAN,
            failed : BOOLEAN, active : Name \cup {None}, held : Name \cup {None},
            before : SUBSET App, base : SUBSET App]

at(p) == me[p].at
home(p) == << me[p].app, me[p].closing >>
(* The name's milliseconds: sessions never share one. *)
name(p) == [home |-> home(p), attempt |-> me[p].attempt, time |-> me[p].id]
pid(p) == [session |-> me[p].id, app |-> me[p].app, task |-> me[p].task]

NewSession(op, app, id) ==
  [at |-> "domstate", op |-> op, task |-> "inventory", id |-> id, app |-> app,
   closing |-> FALSE, attempt |-> 1, tries |-> 0, chunks |-> 0, short |-> FALSE,
   ok |-> FALSE, failed |-> FALSE, active |-> None, held |-> None,
   before |-> {}, base |-> {}]

Idle == [NewSession("update", CHOOSE a \in App : TRUE, 0) EXCEPT !.at = "idle"]

Init ==
  /\ domain \in DomainState
  /\ guest = [programs |-> {}, staged |-> {}, open |-> {}, running |-> {}, exited |-> {}]
  /\ snapshots = {}
  /\ marker = [h \in Home |-> [n \in 1 .. Attempts |-> None]]
  /\ mirror = [h \in Home |-> {}]
  /\ me = [p \in Proc |-> Idle]
  /\ sessions = 0
  /\ ended = [session |-> 0, home |-> << Idle.app, FALSE >>, registered |-> FALSE]

host == << marker, mirror >>
libvirt == << domain, guest, snapshots >>

------------------------------------------------------------------------------
(* The session ends; what VmEnvironment held in memory is gone. *)
End(p, registered) ==
  /\ me' = [me EXCEPT ![p] = Idle]
  /\ ended' = [session |-> me[p].id, home |-> home(p), registered |-> registered]

(* The session goes on; the counter of a loop it leaves is gone. *)
Goto(p, next) == me' = [me EXCEPT ![p].at = next, ![p].tries = 0] /\ UNCHANGED ended

Call(p, op) ==
  /\ me' = [me EXCEPT ![p].op = op, ![p].at = "domstate", ![p].tries = 0]
  /\ UNCHANGED ended

GuestCommand(p, task) ==
  /\ me' = [me EXCEPT ![p].at = "exec", ![p].task = task, ![p].tries = 0, ![p].chunks = 0]
  /\ UNCHANGED ended

Restore(p, failed) ==
  /\ me' = [me EXCEPT ![p].op = "restore", ![p].at = "revert", ![p].failed = failed,
                      ![p].tries = 0, ![p].chunks = 0, ![p].short = FALSE, ![p].ok = FALSE,
                      ![p].held = None]
  /\ UNCHANGED ended

(***************************************************************************)
(* The strategy is given up.  When a kernel is known to be required,       *)
(* install() makes a closing attempt with a VmEnvironment of its own.      *)
(***************************************************************************)
LeaveStrategy(p) ==
  \/ End(p, FALSE)
  \/ /\ ~me[p].closing
     /\ me' = [me EXCEPT ![p] = [NewSession("provision", @.app, @.id) EXCEPT !.closing = TRUE]]
     /\ UNCHANGED ended

(* Mutant: a run() that failed is taken for one that did nothing. *)
FailedUnrestored(p) ==
  \/ me[p].op \in {"provision", "initialize", "run"} /\ LeaveStrategy(p)
  \/ me[p].op \notin {"provision", "initialize", "run"} /\ End(p, FALSE)

(***************************************************************************)
(* The method in progress returns an error.  A failed run() is rolled      *)
(* back before the strategy is given up; the closing attempt is not.       *)
(***************************************************************************)
Failed(p) ==
  \/ me[p].op = "run" /\ ~me[p].closing /\ Restore(p, TRUE)
  \/ /\ me[p].op \in {"provision", "initialize"} /\ LeaveStrategy(p)
  \/ /\ me[p].op \notin {"provision", "initialize"}
     /\ me[p].op = "run" => me[p].closing
     /\ End(p, FALSE)

(***************************************************************************)
(* A session starts: `install`, `repair`, or `run` of what is registered.  *)
(***************************************************************************)
Start(p) ==
  /\ at(p) = "idle"
  /\ sessions < MaxSessions /\ sessions' = sessions + 1
  /\ \E a \in App, op \in {"provision", "update", "launch"} :
       me' = [me EXCEPT ![p] = NewSession(op, a, sessions')]
  /\ UNCHANGED << libvirt, host, ended >>

------------------------------------------------------------------------------
(* ensure_ready *)
QueryState(p) ==
  /\ at(p) = "domstate"
  /\ \/ domain = "running" /\ Goto(p, "ping")
     \/ domain # "running" /\ Goto(p, "start")
     \/ Failed(p)
  /\ UNCHANGED << libvirt, host, sessions >>

StartDomain(p) ==
  /\ at(p) = "start"
  /\ \/ domain = "shut off" /\ domain' = "running" /\ Goto(p, "ping")
     \/ UNCHANGED domain /\ Failed(p)
  /\ UNCHANGED << guest, snapshots, host, sessions >>

(* What follows once the agent answered. *)
Ready(p) ==
  CASE me[p].op = "provision" ->
         IF me[p].closing THEN Call(p, "initialize") ELSE Goto(p, "recover")
    [] me[p].op \in {"initialize", "restore", "update"} -> GuestCommand(p, "inventory")
    [] me[p].op = "snapshot" -> Goto(p, "create")
    [] me[p].op = "run" -> GuestCommand(p, "mkdir")
    [] me[p].op = "launch" -> GuestCommand(p, "mkdir") \/ GuestCommand(p, "launch")

Ping(p) ==
  /\ at(p) = "ping"
  /\ \/ domain = "running" /\ Ready(p)
     \/ /\ me[p].tries + 1 < MaxPings
        /\ me' = [me EXCEPT ![p].tries = @ + 1]
        /\ UNCHANGED ended
     \/ me[p].tries + 1 = MaxPings /\ Failed(p)
  /\ UNCHANGED << libvirt, host, sessions >>

(***************************************************************************)
(* recover_interrupted: a program the mirror shows is taken for a finished *)
(* installation, and its analysis fails, for mirrored files are empty.     *)
(***************************************************************************)
RecoverInterrupted(p) ==
  /\ at(p) = "recover"
  /\ IF mirror[home(p)] = {} THEN Call(p, "initialize") ELSE End(p, FALSE)
  /\ UNCHANGED << libvirt, host, sessions >>

------------------------------------------------------------------------------
(* guest-exec, then guest-exec-status until the process exited *)
StartCommand(p) ==
  /\ at(p) = "exec"
  /\ \/ /\ domain = "running"
        /\ guest' = [guest EXCEPT !.running = @ \cup {pid(p)}, !.exited = @ \ {pid(p)}]
        /\ \/ me[p].task = "launch" /\ End(p, FALSE)
           \/ me[p].task # "launch" /\ Goto(p, "poll")
           \/ Failed(p)
     \/ UNCHANGED guest /\ Failed(p)
  /\ UNCHANGED << domain, snapshots, host, sessions >>

(* Mutant: polling goes on until the process exits (the count starts over). *)
PollForever(p) ==
  /\ at(p) = "poll"
  /\ \/ /\ domain = "running" /\ pid(p) \notin guest.exited
        /\ me' = [me EXCEPT ![p].tries = (@ + 1) % MaxPolls]
        /\ UNCHANGED ended
     \/ Failed(p)
  /\ UNCHANGED << libvirt, host, sessions >>

PollAgain(p) ==
  /\ at(p) = "poll"
  /\ \/ /\ domain = "running" /\ pid(p) \notin guest.exited
        /\ me[p].tries + 1 < MaxPolls
        /\ me' = [me EXCEPT ![p].tries = @ + 1]
        /\ UNCHANGED ended
     \/ Failed(p)
  /\ UNCHANGED << libvirt, host, sessions >>

(***************************************************************************)
(* sync_inventory has its listing: the mirror is removed and written anew. *)
(* A successful run() then takes the snapshot's name out of the cell, to   *)
(* delete it (discard_active_snapshot).                                    *)
(***************************************************************************)
Mirrored(p, shown) == mirror' = [mirror EXCEPT ![home(p)] = shown]

InventoryTaken(p) ==
  CASE me[p].op = "initialize" ->
         /\ me' = [me EXCEPT ![p].op = "snapshot", ![p].at = "domstate", ![p].tries = 0,
                             ![p].before = mirror'[home(p)]]
         /\ UNCHANGED ended
    [] me[p].op = "run" ->
         IF me[p].ok
         THEN /\ me' = [me EXCEPT ![p].at = "discard", ![p].tries = 0,
                                  ![p].held = me[p].active, ![p].active = None]
              /\ UNCHANGED ended
         ELSE Goto(p, "verdict")
    [] me[p].op = "restore" -> IF me[p].failed THEN LeaveStrategy(p) ELSE Goto(p, "repair")
    [] me[p].op = "update" -> End(p, FALSE)

(* powershell's exit code is not looked at: any part of the listing counts. *)
PollExited(p) ==
  /\ at(p) = "poll" /\ domain = "running" /\ pid(p) \in guest.exited
  /\ guest' = [guest EXCEPT !.exited = @ \ {pid(p)}]
  /\ \/ me[p].task = "mkdir" /\ Goto(p, "open") /\ UNCHANGED mirror
     \/ /\ me[p].task = "installer"
        /\ \E ok \in BOOLEAN :
             me' = [me EXCEPT ![p].ok = ok, ![p].at = "exec", ![p].task = "inventory",
                              ![p].tries = 0]
        /\ UNCHANGED << ended, mirror >>
     \/ /\ me[p].task = "inventory"
        /\ \E shown \in SUBSET (Visible \cap guest.programs) :
             Mirrored(p, shown) /\ (InventoryTaken(p) \/ Failed(p))
     \/ UNCHANGED mirror /\ Failed(p)
  /\ UNCHANGED << domain, snapshots, marker, sessions >>

------------------------------------------------------------------------------
(* upload_file *)
OpenFile(p) ==
  /\ at(p) = "open"
  /\ \/ /\ domain = "running"
        /\ guest' = [guest EXCEPT !.open = @ \cup {me[p].id}, !.staged = @ \ {me[p].id}]
        /\ Goto(p, "write") \/ Failed(p)
     \/ UNCHANGED guest /\ Failed(p)
  /\ UNCHANGED << domain, snapshots, host, sessions >>

(* Mutant: the count the agent returns is not compared. *)
WriteUnchecked(p) ==
  /\ at(p) = "write"
  /\ \E whole \in BOOLEAN :
       LET last == me[p].chunks + 1 = Chunks
       IN /\ guest' = IF whole /\ last /\ domain = "running"
                      THEN [guest EXCEPT !.staged = @ \cup {me[p].id}] ELSE guest
          /\ me' = [me EXCEPT ![p].chunks = @ + 1, ![p].at = IF last THEN "close" ELSE @]
  /\ UNCHANGED << domain, snapshots, host, sessions, ended >>

WriteChunk(p) ==
  /\ at(p) = "write"
  /\ \/ LET last == me[p].chunks + 1 = Chunks
        IN /\ domain = "running" /\ me[p].id \in guest.open
           /\ guest' = IF last THEN [guest EXCEPT !.staged = @ \cup {me[p].id}] ELSE guest
           /\ me' = [me EXCEPT ![p].chunks = @ + 1, ![p].at = IF last THEN "close" ELSE @]
     \/ /\ me' = [me EXCEPT ![p].short = TRUE, ![p].at = "close"]
        /\ UNCHANGED guest
  /\ UNCHANGED << domain, snapshots, host, sessions, ended >>

CloseFile(p) ==
  /\ at(p) = "close"
  /\ \/ /\ domain = "running" /\ me[p].id \in guest.open
        /\ guest' = [guest EXCEPT !.open = @ \ {me[p].id}]
        /\ \/ /\ ~me[p].short
              /\ GuestCommand(p, IF me[p].op = "run" THEN "installer" ELSE "launch")
           \/ Failed(p)
     \/ UNCHANGED guest /\ Failed(p)
  /\ UNCHANGED << domain, snapshots, host, sessions >>

------------------------------------------------------------------------------
(* snapshot(): the name is kept in memory before the marker is written. *)
CreateSnapshot(p) ==
  /\ at(p) = "create"
  /\ \/ /\ me[p].active = None /\ domain = "running"
        /\ snapshots' = snapshots \cup {[name |-> name(p), saved |-> guest]}
        /\ \/ /\ me' = [me EXCEPT ![p].active = name(p), ![p].base = guest.programs,
                                  ![p].at = "marker"]
              /\ UNCHANGED ended
           \/ Failed(p)
     \/ UNCHANGED snapshots /\ Failed(p)
  /\ UNCHANGED << domain, guest, host, sessions >>

(* Mutant: a marker that is there already is kept. *)
KeepMarker(p) ==
  /\ at(p) = "marker"
  /\ \/ /\ marker' = [marker EXCEPT ![home(p)][me[p].attempt] =
                        IF @ = None THEN me[p].active ELSE @]
        /\ Call(p, "run")
     \/ UNCHANGED marker /\ Failed(p)
  /\ UNCHANGED << libvirt, mirror, sessions >>

WriteMarker(p) ==
  /\ at(p) = "marker"
  /\ \/ /\ marker' = [marker EXCEPT ![home(p)][me[p].attempt] = me[p].active]
        /\ Call(p, "run")
     \/ UNCHANGED marker /\ Failed(p)
  /\ UNCHANGED << libvirt, mirror, sessions >>

(* Mutant: a snapshot that cannot be deleted is not an error. *)
DiscardIgnored(p) ==
  /\ at(p) = "discard"
  /\ snapshots' \in {snapshots, {s \in snapshots : s.name # me[p].held}}
  /\ me' = [me EXCEPT ![p].held = None, ![p].at = "verdict"]
  /\ UNCHANGED << domain, guest, host, sessions, ended >>

(* The rest of discard_active_snapshot: the snapshot is deleted. *)
DiscardSnapshot(p) ==
  /\ at(p) = "discard"
  /\ LET left == {s \in snapshots : s.name # me[p].held}
     IN \/ /\ snapshots' = left
           /\ me' = [me EXCEPT ![p].held = None, ![p].at = "verdict"]
           /\ UNCHANGED ended
        \/ snapshots' \in {snapshots, left} /\ Failed(p)
  /\ UNCHANGED << domain, guest, host, sessions >>

(* Mutant: the attempts are counted from zero. *)
VerdictOneMore(p) ==
  /\ at(p) = "verdict" /\ ~me[p].ok
  /\ \/ me[p].attempt > Attempts /\ LeaveStrategy(p)
     \/ me[p].attempt <= Attempts /\ Restore(p, FALSE)
  /\ UNCHANGED << libvirt, host, sessions >>

(***************************************************************************)
(* install() looks at what run() returned.  A program that is new in the   *)
(* mirror is found and its analysis fails; without one the supplied        *)
(* executable is registered, and the marker goes.                          *)
(***************************************************************************)
Verdict(p) ==
  /\ at(p) = "verdict"
  /\ \/ /\ me[p].ok /\ mirror[home(p)] \subseteq me[p].before
        /\ marker' = [marker EXCEPT ![home(p)][me[p].attempt] = None]
        /\ End(p, TRUE)
     \/ End(p, FALSE) /\ UNCHANGED marker       \* an analysis failed, or not retryable
     \/ /\ ~me[p].ok /\ ~me[p].closing /\ UNCHANGED marker
        /\ \/ me[p].attempt = Attempts /\ LeaveStrategy(p)
           \/ me[p].attempt < Attempts /\ Restore(p, FALSE)
  /\ UNCHANGED << libvirt, mirror, sessions >>

(***************************************************************************)
(* restore(): the guest goes back to the snapshot the marker names.        *)
(* Whether the programs running at that time come back is libvirt's.       *)
(***************************************************************************)
RevertedTo(saved) ==
  /\ domain' = "running"
  /\ guest' \in {saved, [saved EXCEPT !.running = {}, !.exited = {}, !.open = {}]}

RevertGuest(p) ==
  /\ at(p) = "revert"
  /\ LET held == marker[home(p)][me[p].attempt]
     IN \/ \E s \in snapshots :
             /\ s.name = held /\ RevertedTo(s.saved)
             /\ \/ /\ me' = [me EXCEPT ![p].held = held, ![p].at = "delete"]
                   /\ UNCHANGED ended
                \/ Failed(p)
        \/ UNCHANGED << domain, guest >> /\ Failed(p)
  /\ UNCHANGED << snapshots, host, sessions >>

(* Mutants: restore() forgets to clear the cell, or to delete the snapshot. *)
DeleteUncleared(p) ==
  /\ at(p) = "delete"
  /\ LET left == {s \in snapshots : s.name # me[p].held}
     IN \/ /\ snapshots' = left
           /\ me' = [me EXCEPT ![p].held = None, ![p].at = "domstate"]
           /\ UNCHANGED ended
        \/ snapshots' \in {snapshots, left} /\ Failed(p)
  /\ UNCHANGED << domain, guest, host, sessions >>

DeleteIgnored(p) ==
  /\ at(p) = "delete"
  /\ snapshots' \in {snapshots, {s \in snapshots : s.name # me[p].held}}
  /\ me' = [me EXCEPT ![p].active = None, ![p].held = None, ![p].at = "domstate"]
  /\ UNCHANGED << domain, guest, host, sessions, ended >>

DeleteSnapshot(p) ==
  /\ at(p) = "delete"
  /\ LET left == {s \in snapshots : s.name # me[p].held}
     IN \/ /\ snapshots' = left
           /\ me' = [me EXCEPT ![p].active = None, ![p].held = None, ![p].at = "domstate"]
           /\ UNCHANGED ended
        \/ snapshots' \in {snapshots, left} /\ Failed(p)
  /\ UNCHANGED << domain, guest, host, sessions >>

(* apply_repair: another attempt, the next strategy, or (a component) an error. *)
Repair(p) ==
  /\ at(p) = "repair"
  /\ \/ /\ me' = [me EXCEPT ![p].attempt = @ + 1, ![p].op = "snapshot", ![p].at = "domstate"]
        /\ UNCHANGED ended
     \/ LeaveStrategy(p)
  /\ UNCHANGED << libvirt, host, sessions >>

------------------------------------------------------------------------------
(* The guest, its user, and the death of a process. *)
GuestInstalls ==
  /\ domain = "running"
  /\ \E r \in guest.running :
       /\ r.task = "installer"
       /\ guest' = [guest EXCEPT !.programs = @ \cup {r.app}]
  /\ UNCHANGED << domain, snapshots, host, me, sessions, ended >>

(* The agent keeps how a process ended for the session that asks for it. *)
Polling == {p \in Proc : at(p) = "poll"}

GuestExits ==
  /\ domain = "running"
  /\ \E r \in guest.running :
       guest' = [guest EXCEPT !.running = @ \ {r},
                              !.exited = @ \cup ({r} \cap {pid(p) : p \in Polling})]
  /\ UNCHANGED << domain, snapshots, host, me, sessions, ended >>

SwitchOff ==
  /\ domain # "shut off" /\ domain' = "shut off"
  /\ guest' = [guest EXCEPT !.running = {}, !.exited = {}, !.open = {}]
  /\ UNCHANGED << snapshots, host, me, sessions, ended >>

PauseOrResume ==
  /\ domain # "shut off"
  /\ domain' = IF domain = "running" THEN "paused" ELSE "running"
  /\ UNCHANGED << guest, snapshots, host, me, sessions, ended >>

Kill(p) ==
  /\ at(p) # "idle"
  /\ \/ UNCHANGED mirror
     \/ /\ at(p) = "poll" /\ me[p].task = "inventory" /\ pid(p) \in guest.exited
        /\ \E shown \in SUBSET (Visible \cap guest.programs) : Mirrored(p, shown)
  /\ End(p, FALSE)
  /\ UNCHANGED << libvirt, marker, sessions >>

------------------------------------------------------------------------------
EnsureReady(p) == QueryState(p) \/ StartDomain(p) \/ Ping(p)
Upload(p) == OpenFile(p) \/ WriteChunk(p) \/ CloseFile(p)
Execute(p) == StartCommand(p) \/ PollAgain(p) \/ PollExited(p)
Rollback(p) ==
  CreateSnapshot(p) \/ WriteMarker(p) \/ DiscardSnapshot(p) \/ RevertGuest(p) \/ DeleteSnapshot(p)
Install(p) == RecoverInterrupted(p) \/ Verdict(p) \/ Repair(p)

Proceed(p) == EnsureReady(p) \/ Upload(p) \/ Execute(p) \/ Rollback(p) \/ Install(p)
Outside == GuestInstalls \/ GuestExits \/ SwitchOff \/ PauseOrResume

Next == Outside \/ \E p \in Proc : Start(p) \/ Proceed(p) \/ Kill(p)

Spec == Init /\ [][Next]_vars
FairSpec == Spec /\ \A p \in Proc : WF_vars(Proceed(p))

------------------------------------------------------------------------------
(* Every variable has its type; no session counts past its last attempt. *)
TypeOK ==
  /\ domain \in DomainState
  /\ guest \in Guest
  /\ snapshots \subseteq Snapshot
  /\ marker \in [Home -> [1 .. Attempts -> Name \cup {None}]]
  /\ mirror \in [Home -> SUBSET App]
  /\ me \in [Proc -> Session]
  /\ sessions \in 0 .. MaxSessions
  /\ ended \in [session : Nat, home : Home, registered : BOOLEAN]

(***************************************************************************)
(* snapshot() never refuses a retry with "a Cognac VM snapshot is already  *)
(* active": every path to the next attempt has cleared the cell.           *)
(***************************************************************************)
CellFree == \A p \in Proc : at(p) = "create" => me[p].active = None

(***************************************************************************)
(* What is started in the guest was uploaded to its last byte and is not   *)
(* still open for writing, whichever agent call fails or is cut short.     *)
(***************************************************************************)
StagedBeforeRun ==
  \A p \in Proc :
    at(p) = "exec" /\ me[p].task = "installer" =>
      me[p].id \in guest.staged \ guest.open

(***************************************************************************)
(* An installer that ran into the one-hour limit, or whose start only      *)
(* seemed to fail, is gone before its session starts another one: it was   *)
(* reverted away, although nothing ever stops it.                          *)
(***************************************************************************)
InstallerAlone ==
  \A p \in Proc :
    at(p) = "exec" /\ me[p].task = "installer" => pid(p) \notin guest.running

(***************************************************************************)
(* A rollback brings back the programs the guest had when this attempt     *)
(* began, never the state of an older snapshot an earlier attempt or a     *)
(* killed session left behind under the same marker.                       *)
(***************************************************************************)
RollbackExact ==
  [][\A p \in Proc : at(p) = "revert" /\ at(p)' = "delete"
                       => guest'.programs = me[p].base]_vars

(***************************************************************************)
(* However attempts fail, a session never has two snapshots on the domain  *)
(* at once for the same strategy, and one that registers its application   *)
(* leaves none.                                                            *)
(***************************************************************************)
OneSnapshot ==
  \A s, t \in snapshots :
    s.name.time = t.name.time /\ s.name.home = t.name.home => s = t

RegisteredLeavesNone ==
  ended.registered =>
    ~\E s \in snapshots : s.name.time = ended.session /\ s.name.home = ended.home

(***************************************************************************)
(* Every session ends, even if the guest never answers or an installer     *)
(* never exits.                                                            *)
(***************************************************************************)
SessionEnds == \A p \in Proc : at(p) # "idle" ~> at(p) = "idle"

==============================================================================
