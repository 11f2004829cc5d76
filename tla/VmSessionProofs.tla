---------------------------- MODULE VmSessionProofs ----------------------------
(***************************************************************************)
(* Theorems about VmSession: for any applications, attempts, poll limits   *)
(* and chunks, and any number of sessions.                                 *)
(***************************************************************************)
EXTENDS VmSession, TLAPS

EndedType == [session : Nat, home : Home, registered : BOOLEAN]

(***************************************************************************)
(* What the position of a session says of it.  The cell is empty before    *)
(* snapshot() has filled it and once restore() has cleared it; a rollback  *)
(* that is not the last one still has an attempt to go to.                 *)
(***************************************************************************)
Sound(s) ==
  /\ s.op \in {"provision", "initialize", "update", "launch"} => s.active = None
  /\ s.op = "snapshot" /\ s.at # "marker" => s.active = None
  /\ s.op = "restore" /\ s.at \notin {"revert", "delete"} => s.active = None
  /\ s.op = "restore" /\ ~s.failed => s.attempt < Attempts
  /\ s.at \in {"create", "marker"} => s.op = "snapshot"
  /\ s.at \in {"revert", "delete", "repair"} => s.op = "restore"
  /\ s.at \in {"discard", "verdict"} => s.op = "run"
  /\ s.at = "recover" => s.op = "provision"
  /\ s.at = "repair" => ~s.failed
  /\ s.at \in {"exec", "poll"} /\ s.task = "installer" => s.op = "run"
  /\ s.at \in {"exec", "poll"} /\ s.task = "inventory" =>
       s.op \in {"initialize", "run", "restore", "update"}

Local ==
  /\ me \in [Proc -> Session]
  /\ ended \in EndedType
  /\ \A p \in Proc : Sound(me[p])

Shared ==
  /\ domain \in DomainState
  /\ guest \in Guest
  /\ snapshots \subseteq Snapshot
  /\ marker \in [Home -> [1 .. Attempts -> Name \cup {None}]]
  /\ mirror \in [Home -> SUBSET App]
  /\ sessions \in 0 .. MaxSessions

SessionInv == Shared /\ Local

------------------------------------------------------------------------------
(* A step of one session keeps Local when what it leaves is a sound session. *)
LEMMA OneSession ==
  ASSUME NEW p \in Proc, Local, NEW s \in Session, Sound(s),
         me' = [me EXCEPT ![p] = s], ended' \in EndedType
  PROVE  Local'
BY DEF Local

LEMMA NewSound ==
  ASSUME NEW op \in Op, op \in {"provision", "update", "launch"}, NEW a \in App, NEW id \in Nat
  PROVE  /\ NewSession(op, a, id) \in Session /\ Sound(NewSession(op, a, id))
         /\ [NewSession(op, a, id) EXCEPT !.closing = TRUE] \in Session
         /\ Sound([NewSession(op, a, id) EXCEPT !.closing = TRUE])
         /\ [NewSession(op, a, id) EXCEPT !.at = "idle"] \in Session
         /\ Sound([NewSession(op, a, id) EXCEPT !.at = "idle"])
<1> DEFINE s == NewSession(op, a, id)
<1>1. s \in Session
  BY SessionAssumption DEF NewSession, Session, At, Op, Task
<1>2. /\ s.op = op /\ s.active = None /\ s.at = "domstate"
  BY DEF NewSession
<1> HIDE DEF s
<1>3. [s EXCEPT !.closing = TRUE] \in Session /\ [s EXCEPT !.at = "idle"] \in Session
  BY <1>1 DEF Session, At
<1>4. Sound(s)
  BY <1>2 DEF Sound
<1>5. Sound([s EXCEPT !.closing = TRUE])
  BY <1>1, <1>2 DEF Sound, Session
<1>6. Sound([s EXCEPT !.at = "idle"])
  BY <1>1, <1>2 DEF Sound, Session
<1> QED
  BY <1>1, <1>3, <1>4, <1>5, <1>6 DEF s

LEMMA IdleSound == Idle \in Session /\ Sound(Idle) /\ Idle.app \in App
<1>1. (CHOOSE a \in App : TRUE) \in App
  BY SessionAssumption
<1>2. Idle \in Session /\ Sound(Idle)
  BY <1>1, NewSound DEF Idle, Op
<1> QED
  BY <1>2 DEF Session

LEMMA HomeType == ASSUME NEW p \in Proc, Local PROVE home(p) \in Home
BY DEF Local, home, Home, Session

LEMMA EndLocal ==
  ASSUME NEW p \in Proc, NEW r \in BOOLEAN, Local, End(p, r)
  PROVE  Local'
<1>1. ended' \in EndedType
  BY HomeType DEF End, Local, EndedType, Session
<1> QED
  BY <1>1, OneSession, IdleSound DEF End

LEMMA LeaveLocal ==
  ASSUME NEW p \in Proc, Local, LeaveStrategy(p)
  PROVE  Local'
<1>1. CASE End(p, FALSE)
  BY <1>1, EndLocal
<1>2. CASE /\ me' = [me EXCEPT ![p] = [NewSession("provision", @.app, @.id) EXCEPT !.closing = TRUE]]
           /\ UNCHANGED ended
  <2>1. me[p].app \in App /\ me[p].id \in Nat
    BY DEF Local, Session
  <2> DEFINE s == [NewSession("provision", me[p].app, me[p].id) EXCEPT !.closing = TRUE]
  <2>2. s \in Session /\ Sound(s)
    BY <2>1, NewSound DEF Op
  <2>3. me' = [me EXCEPT ![p] = s] /\ ended' \in EndedType
    BY <1>2 DEF Local
  <2> QED
    BY <2>2, <2>3, OneSession
<1> QED
  BY <1>1, <1>2 DEF LeaveStrategy

LEMMA RestoreLocal ==
  ASSUME NEW p \in Proc, NEW failed \in BOOLEAN, Local, Restore(p, failed),
         failed \/ me[p].attempt < Attempts
  PROVE  Local'
<1> DEFINE s == [me[p] EXCEPT !.op = "restore", !.at = "revert", !.failed = failed,
                              !.tries = 0, !.chunks = 0, !.short = FALSE, !.ok = FALSE,
                              !.held = None]
<1>1. me[p] \in Session
  BY DEF Local
<1>2. s \in Session
  BY <1>1 DEF Session, At, Op
<1>3. s.op = "restore" /\ s.at = "revert" /\ s.failed = failed /\ s.attempt = me[p].attempt
  BY <1>1 DEF Session
<1>4. Sound(s)
  <2> HIDE DEF s
  <2> QED
    BY <1>3 DEF Sound
<1>5. me' = [me EXCEPT ![p] = s] /\ ended' \in EndedType
  BY <1>1 DEF Local, Restore, Session
<1> QED
  BY <1>2, <1>4, <1>5, OneSession

LEMMA FailedLocal ==
  ASSUME NEW p \in Proc, Local, Failed(p)
  PROVE  Local'
BY EndLocal, LeaveLocal, RestoreLocal DEF Failed

(* Where the session may go on: to a position that fits its operation. *)
LEMMA GotoLocal ==
  ASSUME NEW p \in Proc, NEW next \in At, Local, Goto(p, next),
         Sound([me[p] EXCEPT !.at = next, !.tries = 0])
  PROVE  Local'
<1> DEFINE s == [me[p] EXCEPT !.at = next, !.tries = 0]
<1>1. me[p] \in Session
  BY DEF Local
<1>2. s \in Session
  BY <1>1 DEF Session
<1>3. me' = [me EXCEPT ![p] = s] /\ ended' \in EndedType
  BY <1>1 DEF Local, Goto, Session
<1> QED
  BY <1>2, <1>3, OneSession

(* Positions of ensure_ready, guest-exec and upload fit every operation    *)
(* whose cell is as it should be.                                          *)
Anywhere == {"domstate", "start", "ping", "exec", "poll", "open", "write", "close"}

LEMMA GotoAnywhere ==
  ASSUME NEW p \in Proc, NEW next \in Anywhere, Local, Goto(p, next),
         me[p].at \in Anywhere,
         next \in {"exec", "poll"} => me[p].at \in {"exec", "poll"}
  PROVE  Local'
<1>1. next \in At /\ me[p] \in Session /\ Sound(me[p])
  BY DEF Anywhere, At, Local
<1>2. Sound([me[p] EXCEPT !.at = next, !.tries = 0])
  BY <1>1 DEF Anywhere, Sound, Session
<1> QED
  BY <1>1, <1>2, GotoLocal

LEMMA CallLocal ==
  ASSUME NEW p \in Proc, NEW op \in Op, Local, Call(p, op),
         op \in {"initialize", "snapshot"} => me[p].active = None,
         op \in {"initialize", "snapshot", "run"}
  PROVE  Local'
<1> DEFINE s == [me[p] EXCEPT !.op = op, !.at = "domstate", !.tries = 0]
<1>1. me[p] \in Session
  BY DEF Local
<1>2. s \in Session /\ Sound(s)
  BY <1>1 DEF Session, Sound, At, Op
<1>3. me' = [me EXCEPT ![p] = s] /\ ended' \in EndedType
  BY <1>1 DEF Local, Call, Session
<1> QED
  BY <1>2, <1>3, OneSession

LEMMA CommandLocal ==
  ASSUME NEW p \in Proc, NEW task \in Task, Local, GuestCommand(p, task),
         me[p].at \in Anywhere,
         task = "installer" => me[p].op = "run",
         task = "inventory" => me[p].op \in {"initialize", "run", "restore", "update"}
  PROVE  Local'
<1> DEFINE s == [me[p] EXCEPT !.at = "exec", !.task = task, !.tries = 0, !.chunks = 0]
<1>1. me[p] \in Session /\ Sound(me[p])
  BY DEF Local
<1>2. s \in Session
  BY <1>1 DEF Session, At
<1>3. /\ s.at = "exec" /\ s.task = task /\ s.op = me[p].op /\ s.active = me[p].active
      /\ s.failed = me[p].failed /\ s.attempt = me[p].attempt
  BY <1>1 DEF Session
<1>4. Sound(s)
  <2> HIDE DEF s
  <2> QED
    BY <1>1, <1>3 DEF Sound, Anywhere
<1>5. me' = [me EXCEPT ![p] = s] /\ ended' \in EndedType
  BY <1>1 DEF Local, GuestCommand, Session
<1> QED
  BY <1>2, <1>4, <1>5, OneSession

------------------------------------------------------------------------------
(* Every action keeps the invariant. *)
LEMMA StartKeeps ==
  ASSUME SessionInv, NEW p \in Proc, Start(p)
  PROVE  SessionInv'
<1> USE DEF SessionInv
<1>1. PICK a \in App, op \in {"provision", "update", "launch"} :
        me' = [me EXCEPT ![p] = NewSession(op, a, sessions')]
  BY DEF Start
<1>2. sessions' \in 0 .. MaxSessions /\ sessions' \in Nat
  BY SessionAssumption DEF Start, Shared
<1>3. NewSession(op, a, sessions') \in Session /\ Sound(NewSession(op, a, sessions'))
  BY <1>2, NewSound DEF Op
<1>4. ended' \in EndedType
  BY DEF Start, Local
<1>5. Local'
  BY <1>1, <1>3, <1>4, OneSession
<1>6. Shared'
  BY <1>2 DEF Start, Shared, libvirt, host
<1> QED
  BY <1>5, <1>6

LEMMA QueryKeeps ==
  ASSUME SessionInv, NEW p \in Proc, QueryState(p)
  PROVE  SessionInv'
<1>1. Local'
  BY GotoAnywhere, FailedLocal DEF SessionInv, QueryState, at, Anywhere
<1>2. Shared'
  BY DEF SessionInv, Shared, QueryState, libvirt, host
<1> QED
  BY <1>1, <1>2 DEF SessionInv

LEMMA StartDomainKeeps ==
  ASSUME SessionInv, NEW p \in Proc, StartDomain(p)
  PROVE  SessionInv'
<1>1. Local'
  BY GotoAnywhere, FailedLocal DEF SessionInv, StartDomain, at, Anywhere
<1>2. Shared'
  BY DEF SessionInv, Shared, StartDomain, DomainState, host
<1> QED
  BY <1>1, <1>2 DEF SessionInv

LEMMA ReadyLocal ==
  ASSUME NEW p \in Proc, Local, at(p) = "ping", Ready(p)
  PROVE  Local'
<1>1. me[p] \in Session /\ Sound(me[p]) /\ me[p].at = "ping" /\ me[p].op \in Op
  BY DEF Local, at, Session
<1>2. CASE me[p].op = "provision" /\ me[p].closing
  BY <1>1, <1>2, CallLocal DEF Ready, Sound, Op
<1>3. CASE me[p].op = "provision" /\ ~me[p].closing
  <2>1. Goto(p, "recover")
    BY <1>3 DEF Ready
  <2>2. Sound([me[p] EXCEPT !.at = "recover", !.tries = 0])
    BY <1>1, <1>3 DEF Sound, Session
  <2> QED
    BY <2>1, <2>2, GotoLocal DEF At
<1>4. CASE me[p].op = "snapshot"
  <2>1. Goto(p, "create")
    BY <1>4 DEF Ready
  <2>2. Sound([me[p] EXCEPT !.at = "create", !.tries = 0])
    BY <1>1, <1>4 DEF Sound, Session
  <2> QED
    BY <2>1, <2>2, GotoLocal DEF At
<1>5. CASE me[p].op \in {"initialize", "restore", "update"}
  BY <1>1, <1>5, CommandLocal DEF Ready, Anywhere, Task
<1>6. CASE me[p].op \in {"run", "launch"}
  BY <1>1, <1>6, CommandLocal DEF Ready, Anywhere, Task
<1> QED
  BY <1>1, <1>2, <1>3, <1>4, <1>5, <1>6 DEF Op

LEMMA PingKeeps ==
  ASSUME SessionInv, NEW p \in Proc, Ping(p)
  PROVE  SessionInv'
<1>1. ASSUME me' = [me EXCEPT ![p].tries = @ + 1], UNCHANGED ended
      PROVE  Local'
  <2> DEFINE s == [me[p] EXCEPT !.tries = @ + 1]
  <2>1. me[p] \in Session /\ Sound(me[p])
    BY DEF SessionInv, Local
  <2>2. s \in Session /\ Sound(s)
    BY <2>1 DEF Session, Sound
  <2>3. me' = [me EXCEPT ![p] = s] /\ ended' \in EndedType
    BY <1>1, <2>1 DEF SessionInv, Local, Session
  <2> QED
    BY <2>2, <2>3, OneSession DEF SessionInv
<1>2. Local'
  BY <1>1, ReadyLocal, FailedLocal DEF SessionInv, Ping
<1>3. Shared'
  BY DEF SessionInv, Shared, Ping, libvirt, host
<1> QED
  BY <1>2, <1>3 DEF SessionInv

LEMMA RecoverKeeps ==
  ASSUME SessionInv, NEW p \in Proc, RecoverInterrupted(p)
  PROVE  SessionInv'
<1>1. me[p].active = None
  BY DEF SessionInv, Local, RecoverInterrupted, at, Sound
<1>2. Local'
  BY <1>1, CallLocal, EndLocal DEF SessionInv, RecoverInterrupted, Op
<1>3. Shared'
  BY DEF SessionInv, Shared, RecoverInterrupted, libvirt, host
<1> QED
  BY <1>2, <1>3 DEF SessionInv

LEMMA ProcessType ==
  ASSUME SessionInv, NEW p \in Proc
  PROVE  pid(p) \in Process
BY DEF SessionInv, Local, pid, Process, Session

LEMMA CommandKeeps ==
  ASSUME SessionInv, NEW p \in Proc, StartCommand(p)
  PROVE  SessionInv'
<1>1. Local'
  BY GotoAnywhere, EndLocal, FailedLocal DEF SessionInv, StartCommand, at, Anywhere
<1>2. guest' \in Guest
  BY ProcessType DEF SessionInv, Shared, StartCommand, Guest
<1>3. Shared'
  BY <1>2 DEF SessionInv, Shared, StartCommand, host
<1> QED
  BY <1>1, <1>3 DEF SessionInv

LEMMA PollAgainKeeps ==
  ASSUME SessionInv, NEW p \in Proc, PollAgain(p)
  PROVE  SessionInv'
<1>1. ASSUME me' = [me EXCEPT ![p].tries = @ + 1], UNCHANGED ended
      PROVE  Local'
  <2> DEFINE s == [me[p] EXCEPT !.tries = @ + 1]
  <2>1. me[p] \in Session /\ Sound(me[p])
    BY DEF SessionInv, Local
  <2>2. s \in Session /\ Sound(s)
    BY <2>1 DEF Session, Sound
  <2>3. me' = [me EXCEPT ![p] = s] /\ ended' \in EndedType
    BY <1>1, <2>1 DEF SessionInv, Local, Session
  <2> QED
    BY <2>2, <2>3, OneSession DEF SessionInv
<1>2. Local'
  BY <1>1, FailedLocal DEF SessionInv, PollAgain
<1>3. Shared'
  BY DEF SessionInv, Shared, PollAgain, libvirt, host
<1> QED
  BY <1>2, <1>3 DEF SessionInv

(* The inventory is in the mirror before the session looks at it. *)
LEMMA MirrorType ==
  ASSUME SessionInv, NEW p \in Proc, NEW shown \in SUBSET (Visible \cap guest.programs),
         Mirrored(p, shown)
  PROVE  mirror' \in [Home -> SUBSET App]
BY SessionAssumption DEF SessionInv, Shared, Mirrored

LEMMA InventoryLocal ==
  ASSUME SessionInv, NEW p \in Proc, at(p) = "poll", me[p].task = "inventory",
         InventoryTaken(p),
         mirror' \in [Home -> SUBSET App]
  PROVE  Local'
<1>1. Local /\ me[p] \in Session /\ Sound(me[p]) /\ me[p].at = "poll" /\ me[p].op \in Op
  BY DEF SessionInv, Local, at, Session
<1>2. CASE me[p].op = "initialize"
  <2> DEFINE s == [me[p] EXCEPT !.op = "snapshot", !.at = "domstate", !.tries = 0,
                                !.before = mirror'[home(p)]]
  <2>1. mirror'[home(p)] \in SUBSET App
    BY <1>1, HomeType
  <2>2. s \in Session /\ Sound(s)
    BY <1>1, <1>2, <2>1 DEF Session, Sound, At, Op
  <2>3. me' = [me EXCEPT ![p] = s] /\ ended' \in EndedType
    BY <1>1, <1>2 DEF InventoryTaken, Local, Session
  <2> QED
    BY <1>1, <2>2, <2>3, OneSession
<1>3. CASE me[p].op = "run" /\ me[p].ok
  <2> DEFINE s == [me[p] EXCEPT !.at = "discard", !.tries = 0, !.held = me[p].active,
                                !.active = None]
  <2>1. s \in Session /\ Sound(s)
    BY <1>1, <1>3 DEF Session, Sound, At
  <2>2. me' = [me EXCEPT ![p] = s] /\ ended' \in EndedType
    BY <1>1, <1>3 DEF InventoryTaken, Local, Session
  <2> QED
    BY <1>1, <2>1, <2>2, OneSession
<1>4. CASE me[p].op = "run" /\ ~me[p].ok
  <2>1. Goto(p, "verdict")
    BY <1>4 DEF InventoryTaken
  <2>2. Sound([me[p] EXCEPT !.at = "verdict", !.tries = 0])
    BY <1>1, <1>4 DEF Sound, Session
  <2> QED
    BY <1>1, <2>1, <2>2, GotoLocal DEF At
<1>5. CASE me[p].op = "restore" /\ ~me[p].failed
  <2>1. Goto(p, "repair")
    BY <1>5 DEF InventoryTaken
  <2>2. Sound([me[p] EXCEPT !.at = "repair", !.tries = 0])
    BY <1>1, <1>5 DEF Sound, Session
  <2> QED
    BY <1>1, <2>1, <2>2, GotoLocal DEF At
<1>6. CASE me[p].op = "restore" /\ me[p].failed
  BY <1>1, <1>6, LeaveLocal DEF InventoryTaken
<1>7. CASE me[p].op = "update"
  BY <1>1, <1>7, EndLocal DEF InventoryTaken
<1>8. me[p].op \in {"initialize", "run", "restore", "update"} /\ me[p].ok \in BOOLEAN
      /\ me[p].failed \in BOOLEAN
  BY <1>1 DEF Sound, Session
<1> QED
  BY <1>2, <1>3, <1>4, <1>5, <1>6, <1>7, <1>8

LEMMA PollExitedKeeps ==
  ASSUME SessionInv, NEW p \in Proc, PollExited(p)
  PROVE  SessionInv'
<1>1. Local /\ me[p] \in Session /\ Sound(me[p]) /\ me[p].at = "poll"
  BY DEF SessionInv, Local, PollExited, at
<1>2. guest' \in Guest
  BY DEF SessionInv, Shared, PollExited, Guest
<1>3. CASE me[p].task = "mkdir" /\ Goto(p, "open") /\ UNCHANGED mirror
  <2>1. Local'
    BY <1>1, <1>3, GotoAnywhere DEF Anywhere
  <2>2. Shared'
    BY <1>2, <1>3 DEF SessionInv, Shared, PollExited
  <2> QED
    BY <2>1, <2>2 DEF SessionInv
<1>4. CASE /\ me[p].task = "installer"
           /\ \E ok \in BOOLEAN :
                me' = [me EXCEPT ![p].ok = ok, ![p].at = "exec", ![p].task = "inventory",
                                 ![p].tries = 0]
           /\ UNCHANGED << ended, mirror >>
  <2>1. PICK ok \in BOOLEAN :
          me' = [me EXCEPT ![p].ok = ok, ![p].at = "exec", ![p].task = "inventory",
                           ![p].tries = 0]
    BY <1>4
  <2> DEFINE s == [me[p] EXCEPT !.ok = ok, !.at = "exec", !.task = "inventory", !.tries = 0]
  <2>2. s \in Session
    BY <1>1 DEF Session, At, Task
  <2>3. Sound(s)
    BY <1>1, <1>4 DEF Session, Sound
  <2>4. me' = [me EXCEPT ![p] = s] /\ ended' \in EndedType
    BY <1>1, <1>4, <2>1 DEF Local, Session
  <2>5. Local'
    BY <1>1, <2>2, <2>3, <2>4, OneSession
  <2>6. Shared'
    BY <1>2, <1>4 DEF SessionInv, Shared, PollExited
  <2> QED
    BY <2>5, <2>6 DEF SessionInv
<1>5. CASE /\ me[p].task = "inventory"
           /\ \E shown \in SUBSET (Visible \cap guest.programs) :
                Mirrored(p, shown) /\ (InventoryTaken(p) \/ Failed(p))
  <2>1. mirror' \in [Home -> SUBSET App]
    BY <1>5, MirrorType
  <2>2. Local'
    BY <1>1, <1>5, <2>1, InventoryLocal, FailedLocal DEF at
  <2>3. Shared'
    BY <1>2, <2>1 DEF SessionInv, Shared, PollExited
  <2> QED
    BY <2>2, <2>3 DEF SessionInv
<1>6. CASE UNCHANGED mirror /\ Failed(p)
  <2>1. Local'
    BY <1>1, <1>6, FailedLocal
  <2>2. Shared'
    BY <1>2, <1>6 DEF SessionInv, Shared, PollExited
  <2> QED
    BY <2>1, <2>2 DEF SessionInv
<1> QED
  BY <1>3, <1>4, <1>5, <1>6 DEF PollExited

LEMMA OpenKeeps ==
  ASSUME SessionInv, NEW p \in Proc, OpenFile(p)
  PROVE  SessionInv'
<1>1. Local'
  BY GotoAnywhere, FailedLocal DEF SessionInv, OpenFile, at, Anywhere
<1>2. guest' \in Guest
  <2>1. me[p].id \in Nat /\ guest \in Guest
    BY DEF SessionInv, Shared, Local, Session
  <2> QED
    BY <2>1 DEF OpenFile, Guest
<1>3. Shared'
  BY <1>2 DEF SessionInv, Shared, OpenFile, host
<1> QED
  BY <1>1, <1>3 DEF SessionInv

LEMMA WriteKeeps ==
  ASSUME SessionInv, NEW p \in Proc, WriteChunk(p)
  PROVE  SessionInv'
<1>1. me[p] \in Session /\ Sound(me[p]) /\ me[p].at = "write"
  BY DEF SessionInv, Local, WriteChunk, at
<1>2. guest' \in Guest
  BY <1>1 DEF SessionInv, Shared, Session, WriteChunk, Guest
<1>3. PICK s \in Session :
        Sound(s) /\ me' = [me EXCEPT ![p] = s]
  <2>1. CASE me' = [me EXCEPT ![p].short = TRUE, ![p].at = "close"]
    <3> DEFINE s == [me[p] EXCEPT !.short = TRUE, !.at = "close"]
    <3>1. s \in Session /\ Sound(s)
      BY <1>1 DEF Session, Sound, At
    <3> QED
      BY <1>1, <2>1, <3>1 DEF Session
  <2>2. CASE me' = [me EXCEPT ![p].chunks = @ + 1,
                              ![p].at = IF me[p].chunks + 1 = Chunks THEN "close" ELSE @]
    <3>1. PICK next \in {"write", "close"} :
            me' = [me EXCEPT ![p].chunks = @ + 1, ![p].at = next]
      BY <1>1, <2>2
    <3> DEFINE s == [me[p] EXCEPT !.chunks = @ + 1, !.at = next]
    <3>2. next \in At
      BY DEF At
    <3>3. s \in Session
      <4> DEFINE c == me[p].chunks + 1
      <4>1. c \in Nat
        BY <1>1 DEF Session
      <4> HIDE DEF c
      <4>2. [me[p] EXCEPT !.chunks = c, !.at = next] \in Session
        BY <1>1, <3>2, <4>1 DEF Session
      <4> QED
        BY <4>2 DEF c
    <3>4. Sound(s)
      BY <1>1 DEF Session, Sound
    <3> QED
      BY <1>1, <3>1, <3>3, <3>4 DEF Session
  <2> QED
    BY <2>1, <2>2 DEF WriteChunk
<1>4. Local'
  BY <1>3, OneSession DEF SessionInv, Local, WriteChunk
<1>5. Shared'
  BY <1>2 DEF SessionInv, Shared, WriteChunk, host
<1> QED
  BY <1>4, <1>5 DEF SessionInv

LEMMA CloseKeeps ==
  ASSUME SessionInv, NEW p \in Proc, CloseFile(p)
  PROVE  SessionInv'
<1>1. Local'
  <2>1. me[p].at \in Anywhere /\ Local
    BY DEF SessionInv, CloseFile, at, Anywhere
  <2>2. (IF me[p].op = "run" THEN "installer" ELSE "launch") \in Task
    BY DEF Task
  <2> QED
    BY <2>1, <2>2, CommandLocal, FailedLocal DEF CloseFile
<1>2. guest' \in Guest
  BY DEF SessionInv, Shared, CloseFile, Guest
<1>3. Shared'
  BY <1>2 DEF SessionInv, Shared, CloseFile, host
<1> QED
  BY <1>1, <1>3 DEF SessionInv

LEMMA NameType ==
  ASSUME SessionInv, NEW p \in Proc
  PROVE  name(p) \in Name
BY HomeType DEF SessionInv, Local, name, Name, Session

LEMMA CreateKeeps ==
  ASSUME SessionInv, NEW p \in Proc, CreateSnapshot(p)
  PROVE  SessionInv'
<1>1. me[p] \in Session /\ Sound(me[p]) /\ me[p].at = "create" /\ name(p) \in Name
  BY NameType DEF SessionInv, Local, CreateSnapshot, at
<1>2. Local'
  <2>1. CASE me' = [me EXCEPT ![p].active = name(p), ![p].base = guest.programs,
                              ![p].at = "marker"] /\ UNCHANGED ended
    <3> DEFINE s == [me[p] EXCEPT !.active = name(p), !.base = guest.programs, !.at = "marker"]
    <3>1. guest.programs \in SUBSET App
      BY DEF SessionInv, Shared, Guest
    <3>2. s \in Session
      BY <1>1, <3>1 DEF Session, At
    <3>3. s.at = "marker" /\ s.op = "snapshot"
      BY <1>1 DEF Session, Sound
    <3>4. Sound(s)
      <4> HIDE DEF s
      <4> QED
        BY <3>3 DEF Sound
    <3>5. me' = [me EXCEPT ![p] = s] /\ ended' \in EndedType
      BY <1>1, <2>1 DEF SessionInv, Local, Session
    <3> QED
      BY <3>2, <3>4, <3>5, OneSession DEF SessionInv
  <2> QED
    BY <2>1, FailedLocal DEF SessionInv, CreateSnapshot
<1>3. snapshots' \subseteq Snapshot
  BY <1>1 DEF SessionInv, Shared, CreateSnapshot, Snapshot
<1>4. Shared'
  BY <1>3 DEF SessionInv, Shared, CreateSnapshot, host
<1> QED
  BY <1>2, <1>4 DEF SessionInv

LEMMA MarkerType ==
  ASSUME NEW m \in [Home -> [1 .. Attempts -> Name \cup {None}]],
         NEW h \in Home, NEW n \in 1 .. Attempts, NEW v \in Name \cup {None},
         NEW q, q = [m EXCEPT ![h][n] = v]
  PROVE  q \in [Home -> [1 .. Attempts -> Name \cup {None}]]
<1> DEFINE row == [m[h] EXCEPT ![n] = v]
<1>1. row \in [1 .. Attempts -> Name \cup {None}]
  OBVIOUS
<1>2. q = [m EXCEPT ![h] = row]
  OBVIOUS
<1> HIDE DEF row
<1> QED
  BY <1>1, <1>2

LEMMA MarkerKeeps ==
  ASSUME SessionInv, NEW p \in Proc, WriteMarker(p)
  PROVE  SessionInv'
<1>1. Local'
  BY CallLocal, FailedLocal DEF SessionInv, WriteMarker, Op
<1>2. me[p].attempt \in 1 .. Attempts /\ me[p].active \in Name \cup {None} /\ home(p) \in Home
  BY HomeType DEF SessionInv, Local, Session
<1>3. marker' \in [Home -> [1 .. Attempts -> Name \cup {None}]]
  <2>1. CASE UNCHANGED marker
    BY <2>1 DEF SessionInv, Shared
  <2>2. CASE marker' = [marker EXCEPT ![home(p)][me[p].attempt] = me[p].active]
    BY <1>2, <2>2, MarkerType DEF SessionInv, Shared
  <2> QED
    BY <2>1, <2>2 DEF WriteMarker
<1>4. Shared'
  BY <1>3 DEF SessionInv, Shared, WriteMarker, libvirt
<1> QED
  BY <1>1, <1>4 DEF SessionInv

LEMMA DiscardKeeps ==
  ASSUME SessionInv, NEW p \in Proc, DiscardSnapshot(p)
  PROVE  SessionInv'
<1>1. me[p] \in Session /\ Sound(me[p]) /\ me[p].at = "discard"
  BY DEF SessionInv, Local, DiscardSnapshot, at
<1>2. Local'
  <2>1. CASE me' = [me EXCEPT ![p].held = None, ![p].at = "verdict"] /\ UNCHANGED ended
    <3> DEFINE s == [me[p] EXCEPT !.held = None, !.at = "verdict"]
    <3>1. s \in Session /\ Sound(s)
      BY <1>1 DEF Session, Sound, At
    <3>2. me' = [me EXCEPT ![p] = s] /\ ended' \in EndedType
      BY <1>1, <2>1 DEF SessionInv, Local, Session
    <3> QED
      BY <3>1, <3>2, OneSession DEF SessionInv
  <2> QED
    BY <2>1, FailedLocal DEF SessionInv, DiscardSnapshot
<1>3. Shared'
  BY DEF SessionInv, Shared, DiscardSnapshot, host
<1> QED
  BY <1>2, <1>3 DEF SessionInv

LEMMA VerdictKeeps ==
  ASSUME SessionInv, NEW p \in Proc, Verdict(p)
  PROVE  SessionInv'
<1>1. me[p].attempt \in 1 .. Attempts /\ home(p) \in Home
  BY HomeType DEF SessionInv, Local, Session
<1>2. Local'
  BY <1>1, EndLocal, LeaveLocal, RestoreLocal DEF SessionInv, Verdict
<1>3. marker' \in [Home -> [1 .. Attempts -> Name \cup {None}]]
  <2>1. CASE UNCHANGED marker
    BY <2>1 DEF SessionInv, Shared
  <2>2. CASE marker' = [marker EXCEPT ![home(p)][me[p].attempt] = None]
    BY <1>1, <2>2, MarkerType DEF SessionInv, Shared
  <2> QED
    BY <2>1, <2>2 DEF Verdict
<1>4. Shared'
  BY <1>3 DEF SessionInv, Shared, Verdict, libvirt
<1> QED
  BY <1>2, <1>4 DEF SessionInv

LEMMA RevertKeeps ==
  ASSUME SessionInv, NEW p \in Proc, RevertGuest(p)
  PROVE  SessionInv'
<1>1. me[p] \in Session /\ Sound(me[p]) /\ me[p].at = "revert"
  BY DEF SessionInv, Local, RevertGuest, at
<1>2. CASE \E s \in snapshots :
             /\ s.name = marker[home(p)][me[p].attempt] /\ RevertedTo(s.saved)
             /\ \/ /\ me' = [me EXCEPT ![p].held = marker[home(p)][me[p].attempt],
                                       ![p].at = "delete"]
                   /\ UNCHANGED ended
                \/ Failed(p)
  <2>1. PICK s \in snapshots :
             /\ s.name = marker[home(p)][me[p].attempt] /\ RevertedTo(s.saved)
             /\ \/ /\ me' = [me EXCEPT ![p].held = marker[home(p)][me[p].attempt],
                                       ![p].at = "delete"]
                   /\ UNCHANGED ended
                \/ Failed(p)
    BY <1>2
  <2>2. s.name \in Name /\ s.saved \in Guest
    BY DEF SessionInv, Shared, Snapshot
  <2>3. domain' \in DomainState /\ guest' \in Guest
    BY <2>1, <2>2 DEF RevertedTo, DomainState, Guest
  <2>4. CASE me' = [me EXCEPT ![p].held = marker[home(p)][me[p].attempt], ![p].at = "delete"]
             /\ UNCHANGED ended
    <3> DEFINE t == [me[p] EXCEPT !.held = marker[home(p)][me[p].attempt], !.at = "delete"]
    <3>1. t \in Session
      BY <1>1, <2>1, <2>2 DEF Session, At
    <3>2. Sound(t)
      BY <1>1 DEF Session, Sound
    <3>3. me' = [me EXCEPT ![p] = t] /\ ended' \in EndedType
      BY <1>1, <2>4 DEF SessionInv, Local, Session
    <3> QED
      BY <3>1, <3>2, <3>3, <2>3, OneSession DEF SessionInv, Shared, RevertGuest, host
  <2>5. CASE Failed(p)
    BY <2>5, <2>3, FailedLocal DEF SessionInv, Shared, RevertGuest, host
  <2> QED
    BY <2>1, <2>4, <2>5
<1>3. CASE UNCHANGED << domain, guest >> /\ Failed(p)
  BY <1>3, FailedLocal DEF SessionInv, Shared, RevertGuest, host
<1> QED
  BY <1>2, <1>3 DEF RevertGuest

LEMMA DeleteKeeps ==
  ASSUME SessionInv, NEW p \in Proc, DeleteSnapshot(p)
  PROVE  SessionInv'
<1>1. me[p] \in Session /\ Sound(me[p]) /\ me[p].at = "delete"
  BY DEF SessionInv, Local, DeleteSnapshot, at
<1>2. Local'
  <2>1. CASE me' = [me EXCEPT ![p].active = None, ![p].held = None, ![p].at = "domstate"]
             /\ UNCHANGED ended
    <3> DEFINE s == [me[p] EXCEPT !.active = None, !.held = None, !.at = "domstate"]
    <3>1. s \in Session
      BY <1>1 DEF Session, At
    <3>2. /\ s.at = "domstate" /\ s.op = "restore" /\ s.active = None
          /\ s.failed = me[p].failed /\ s.attempt = me[p].attempt
      BY <1>1 DEF Session, Sound
    <3>3. Sound(s)
      <4> HIDE DEF s
      <4> QED
        BY <1>1, <3>2 DEF Sound
    <3>4. me' = [me EXCEPT ![p] = s] /\ ended' \in EndedType
      BY <1>1, <2>1 DEF SessionInv, Local, Session
    <3> QED
      BY <3>1, <3>3, <3>4, OneSession DEF SessionInv
  <2> QED
    BY <2>1, FailedLocal DEF SessionInv, DeleteSnapshot
<1>3. Shared'
  BY DEF SessionInv, Shared, DeleteSnapshot, host
<1> QED
  BY <1>2, <1>3 DEF SessionInv

LEMMA RepairKeeps ==
  ASSUME SessionInv, NEW p \in Proc, Repair(p)
  PROVE  SessionInv'
<1>1. me[p] \in Session /\ Sound(me[p]) /\ me[p].at = "repair"
  BY DEF SessionInv, Local, Repair, at
<1>2. Local'
  <2>1. CASE me' = [me EXCEPT ![p].attempt = @ + 1, ![p].op = "snapshot", ![p].at = "domstate"]
             /\ UNCHANGED ended
    <3> DEFINE s == [me[p] EXCEPT !.attempt = @ + 1, !.op = "snapshot", !.at = "domstate"]
    <3>1. me[p].attempt < Attempts /\ me[p].active = None
      BY <1>1 DEF Sound
    <3>2. s \in Session
      <4>1. me[p].attempt \in 1 .. Attempts /\ me[p].attempt + 1 \in 1 .. Attempts
        BY <1>1, <3>1, SessionAssumption DEF Session
      <4> QED
        BY <1>1, <4>1 DEF Session, At, Op
    <3>3. s.at = "domstate" /\ s.op = "snapshot" /\ s.active = None
      BY <1>1, <3>1 DEF Session
    <3>4. Sound(s)
      <4> HIDE DEF s
      <4> QED
        BY <3>3 DEF Sound
    <3>5. me' = [me EXCEPT ![p] = s] /\ ended' \in EndedType
      BY <1>1, <2>1 DEF SessionInv, Local, Session
    <3> QED
      BY <3>2, <3>4, <3>5, OneSession DEF SessionInv
  <2> QED
    BY <2>1, LeaveLocal DEF SessionInv, Repair
<1>3. Shared'
  BY DEF SessionInv, Shared, Repair, libvirt, host
<1> QED
  BY <1>2, <1>3 DEF SessionInv

LEMMA KillKeeps ==
  ASSUME SessionInv, NEW p \in Proc, Kill(p)
  PROVE  SessionInv'
<1>1. Local'
  BY EndLocal DEF SessionInv, Kill
<1>2. mirror' \in [Home -> SUBSET App]
  BY MirrorType DEF SessionInv, Shared, Kill
<1>3. Shared'
  BY <1>2 DEF SessionInv, Shared, Kill, libvirt
<1> QED
  BY <1>1, <1>3 DEF SessionInv

LEMMA OutsideKeeps ==
  ASSUME SessionInv, Outside
  PROVE  SessionInv'
<1>1. Local'
  BY DEF SessionInv, Local, Outside, GuestInstalls, GuestExits, SwitchOff, PauseOrResume
<1>2. CASE GuestInstalls
  BY <1>1, <1>2 DEF SessionInv, Shared, GuestInstalls, host, Guest, Process
<1>3. CASE GuestExits
  <2>1. PICK r \in guest.running :
          guest' = [guest EXCEPT !.running = @ \ {r},
                                 !.exited = @ \cup ({r} \cap {pid(p) : p \in Polling})]
    BY <1>3 DEF GuestExits
  <2>2. ({r} \cap {pid(p) : p \in Polling}) \subseteq guest.running
    OBVIOUS
  <2> HIDE <2>2
  <2> DEFINE asked == {r} \cap {pid(p) : p \in Polling}
  <2>3. asked \subseteq guest.running
    BY <2>2
  <2>4. guest' = [guest EXCEPT !.running = @ \ {r}, !.exited = @ \cup asked]
    BY <2>1
  <2> HIDE DEF asked
  <2>5. guest' \in Guest
    BY <2>3, <2>4 DEF SessionInv, Shared, Guest
  <2> QED
    BY <1>1, <1>3, <2>5 DEF SessionInv, Shared, GuestExits, host
<1>4. CASE SwitchOff
  BY <1>1, <1>4 DEF SessionInv, Shared, SwitchOff, host, Guest, DomainState
<1>5. CASE PauseOrResume
  BY <1>1, <1>5 DEF SessionInv, Shared, PauseOrResume, host, DomainState
<1> QED
  BY <1>2, <1>3, <1>4, <1>5 DEF Outside

------------------------------------------------------------------------------
LEMMA InvInit == Init => SessionInv
<1> SUFFICES ASSUME Init PROVE SessionInv
  OBVIOUS
<1>1. Local
  <2>1. ended \in EndedType
    BY IdleSound DEF Init, EndedType, Home
  <2> QED
    BY <2>1, IdleSound DEF Init, Local
<1>2. guest \in Guest
  BY DEF Init, Guest
<1>3. Shared
  BY <1>2, SessionAssumption DEF Init, Shared
<1> QED
  BY <1>1, <1>3 DEF SessionInv

LEMMA InvStep == SessionInv /\ [Next]_vars => SessionInv'
<1> SUFFICES ASSUME SessionInv, [Next]_vars PROVE SessionInv'
  OBVIOUS
<1>1. CASE UNCHANGED vars
  BY <1>1 DEF SessionInv, Shared, Local, vars
<1>2. CASE Outside
  BY <1>2, OutsideKeeps
<1>3. ASSUME NEW p \in Proc, Start(p) \/ Kill(p)
      PROVE  SessionInv'
  BY <1>3, StartKeeps, KillKeeps
<1>4. ASSUME NEW p \in Proc, Proceed(p)
      PROVE  SessionInv'
  <2>1. CASE EnsureReady(p)
    BY <2>1, QueryKeeps, StartDomainKeeps, PingKeeps DEF EnsureReady
  <2>2. CASE Upload(p)
    BY <2>2, OpenKeeps, WriteKeeps, CloseKeeps DEF Upload
  <2>3. CASE Execute(p)
    BY <2>3, CommandKeeps, PollAgainKeeps, PollExitedKeeps DEF Execute
  <2>4. CASE Rollback(p)
    BY <2>4, CreateKeeps, MarkerKeeps, DiscardKeeps, RevertKeeps, DeleteKeeps DEF Rollback
  <2>5. CASE Install(p)
    BY <2>5, RecoverKeeps, VerdictKeeps, RepairKeeps DEF Install
  <2> QED
    BY <1>4, <2>1, <2>2, <2>3, <2>4, <2>5 DEF Proceed
<1> QED
  BY <1>1, <1>2, <1>3, <1>4 DEF Next

(* The invariant holds throughout, with any number of overlapping sessions. *)
THEOREM SessionsSound == Spec => []SessionInv
BY InvInit, InvStep, PTL DEF Spec

(***************************************************************************)
(* Every variable keeps its type: attempts, the cell, markers and mirror   *)
(* of vm.rs, with any number of sessions on the guest.                     *)
(***************************************************************************)
THEOREM TypeCorrect == Spec => []TypeOK
<1>1. SessionInv => TypeOK
  BY DEF SessionInv, Shared, Local, TypeOK, EndedType
<1> QED
  BY <1>1, SessionsSound, PTL

(***************************************************************************)
(* snapshot() (vm.rs:155) never meets a cell that is still set, whichever  *)
(* way the attempt before it ended.                                        *)
(***************************************************************************)
THEOREM CellAlwaysFree == Spec => []CellFree
<1>1. SessionInv => CellFree
  BY DEF SessionInv, Local, Sound, CellFree, at
<1> QED
  BY <1>1, SessionsSound, PTL

------------------------------------------------------------------------------
(***************************************************************************)
(* The other properties are about one session at a time: a second one may  *)
(* take the guest back to a state of its own at any moment.  What follows  *)
(* relates a session s to what it finds in the guest (G), among the        *)
(* snapshots (S), in the markers (M) and in the history (N, E).            *)
(***************************************************************************)
OneAtATime == \A p, q \in Proc : p = q

Place(s) == << s.app, s.closing >>
Label(s) == [home |-> Place(s), attempt |-> s.attempt, time |-> s.id]
Installer(s) == [session |-> s.id, app |-> s.app, task |-> "installer"]
Mine(s, S) == {x \in S : x.name.time = s.id /\ x.name.home = Place(s)}

(* The session keeps no snapshot: none was taken yet, or it was deleted. *)
Bare(s) ==
  \/ s.op \in {"provision", "initialize", "update", "launch"}
  \/ s.op = "snapshot" /\ s.at # "marker"
  \/ s.op = "restore" /\ s.at \notin {"revert", "delete"}
  \/ s.at = "verdict" /\ s.ok

Current(s, N, E) == s.id = N /\ E.session < N

Unopened(s, S) ==
  ~s.closing => \A x \in S : x.name.time = s.id => x.name.home # << s.app, TRUE >>

Cleared(s, S) == Bare(s) => Mine(s, S) = {}

(* A snapshot of this session is the one of this attempt: it holds the     *)
(* programs the attempt began with and no installer of this session.       *)
Exact(s, S) ==
  \A x \in Mine(s, S) :
    x.name = Label(s) /\ x.saved.programs = s.base /\ Installer(s) \notin x.saved.running

Kept(s, S, N, E) == Current(s, N, E) /\ Unopened(s, S) /\ Cleared(s, S) /\ Exact(s, S)

Named(s, M) ==
  /\ s.at = "marker" \/ (s.op = "run" /\ s.at \notin {"discard", "verdict"}) =>
       s.active = Label(s)
  /\ s.at \in {"discard", "delete"} => s.held = Label(s)
  /\ s.op = "run" \/ s.at = "revert" => M[Place(s)][s.attempt] = Label(s)

(* The installer only runs while its run() waits, or until it is reverted. *)
Gone(s, G) ==
  ~(s.op = "run" /\ s.at = "poll" /\ s.task = "installer") /\ s.at # "revert" =>
    Installer(s) \notin G.running

Uploaded(s, G) ==
  /\ s.at = "close" /\ ~s.short => s.id \in G.staged
  /\ s.at = "exec" /\ s.task = "installer" => s.id \in G.staged \ G.open

Own(s, G, S, M, N, E) ==
  s.at # "idle" => Kept(s, S, N, E) /\ Named(s, M) /\ Gone(s, G) /\ Uploaded(s, G)

(* And what holds of the guest and of every snapshot. *)
Past(G, S, N, E) ==
  /\ E.session <= N
  /\ \A r \in G.running : r.session <= N
  /\ \A x \in S : x.name.time <= N /\ \A r \in x.saved.running : r.session <= N

Apart(G, S) ==
  /\ G.running \cap G.exited = {}
  /\ \A x \in S : x.saved.running \cap x.saved.exited = {}

Rest ==
  /\ Past(guest, snapshots, sessions, ended)
  /\ Apart(guest, snapshots)
  /\ OneSnapshot
  /\ RegisteredLeavesNone
  /\ \A p \in Proc : Own(me[p], guest, snapshots, marker, sessions, ended)

OwnInv == SessionInv /\ Rest

------------------------------------------------------------------------------
SamePlace(s, t) ==
  /\ t.id = s.id /\ t.app = s.app /\ t.closing = s.closing
  /\ t.attempt = s.attempt /\ t.base = s.base

LEMMA KeptStep ==
  ASSUME NEW s, NEW t, SamePlace(s, t), NEW S, NEW T, T \subseteq S, NEW N, NEW E,
         Kept(s, S, N, E), Bare(t) => Mine(s, T) = {}
  PROVE  Kept(t, T, N, E)
<1>1. /\ Place(t) = Place(s) /\ Label(t) = Label(s) /\ Installer(t) = Installer(s)
      /\ Mine(t, T) = Mine(s, T) /\ Mine(s, T) \subseteq Mine(s, S)
  BY DEF SamePlace, Place, Label, Installer, Mine
<1>2. Current(t, N, E)
  BY DEF SamePlace, Kept, Current
<1>3. Unopened(t, T)
  BY DEF SamePlace, Kept, Unopened
<1>4. Cleared(t, T)
  BY <1>1 DEF Kept, Cleared
<1>5. Exact(t, T)
  BY <1>1 DEF SamePlace, Kept, Exact
<1> QED
  BY <1>2, <1>3, <1>4, <1>5 DEF Kept

(* A session that is rid of snapshots under a new place starts there anew. *)
LEMMA KeptClosing ==
  ASSUME NEW s \in Session, ~s.closing, NEW S, NEW T, T \subseteq S, NEW N, NEW E,
         Kept(s, S, N, E)
  PROVE  Kept([NewSession("provision", s.app, s.id) EXCEPT !.closing = TRUE], T, N, E)
<1> DEFINE t == [NewSession("provision", s.app, s.id) EXCEPT !.closing = TRUE]
<1>1. /\ t.id = s.id /\ t.app = s.app /\ t.closing
      /\ t.op = "provision" /\ t.at = "domstate"
  BY DEF NewSession
<1> HIDE DEF t
<1>2. Mine(t, T) = {}
  BY <1>1 DEF Kept, Unopened, Mine, Place
<1>3. Current(t, N, E) /\ Unopened(t, T) /\ Cleared(t, T) /\ Exact(t, T)
  BY <1>1, <1>2 DEF Kept, Current, Unopened, Cleared, Exact
<1> QED
  BY <1>3 DEF Kept, t

------------------------------------------------------------------------------
(* The step of one session, when it goes on as t and when it ends. *)
LEMMA StepRest ==
  ASSUME OwnInv, OneAtATime, NEW p \in Proc, NEW t \in Session,
         me' = [me EXCEPT ![p] = t], ended' = ended, sessions' = sessions,
         Past(guest', snapshots', sessions, ended), Apart(guest', snapshots'), OneSnapshot',
         snapshots' \subseteq snapshots \/ Current(me[p], sessions, ended),
         \A x \in snapshots' \ snapshots : x.name.time = me[p].id,
         Own(t, guest', snapshots', marker', sessions, ended)
  PROVE  Rest'
<1>1. me'[p] = t /\ \A q \in Proc : q = p
  BY DEF OwnInv, SessionInv, Local, OneAtATime
<1>2. \A q \in Proc : Own(me'[q], guest', snapshots', marker', sessions', ended')
  BY <1>1
<1>3. RegisteredLeavesNone'
  <2>1. ended.session \in Nat /\ sessions \in Nat
    BY SessionAssumption DEF OwnInv, SessionInv, Shared, Local, EndedType
  <2>2. \A x \in snapshots' \ snapshots : ended.session < x.name.time
    BY <2>1 DEF Current
  <2>3. \A x \in snapshots' \ snapshots : x.name.time # ended.session
    BY <2>1, <2>2
  <2> QED
    BY <2>3 DEF OwnInv, Rest, RegisteredLeavesNone
<1> QED
  BY <1>2, <1>3 DEF Rest

LEMMA EndRest ==
  ASSUME OwnInv, OneAtATime, NEW p \in Proc, NEW r \in BOOLEAN, End(p, r), sessions' = sessions,
         at(p) # "idle",
         Past(guest', snapshots', sessions, ended), Apart(guest', snapshots'), OneSnapshot',
         r => Mine(me[p], snapshots') = {}
  PROVE  Rest'
<1>1. me'[p].at = "idle" /\ \A q \in Proc : q = p
  BY DEF OwnInv, SessionInv, Local, OneAtATime, End, Idle, NewSession, Session
<1>2. \A q \in Proc : Own(me'[q], guest', snapshots', marker', sessions', ended')
  BY <1>1 DEF Own
<1>3. /\ ended'.session = me[p].id /\ ended'.home = Place(me[p]) /\ ended'.registered = r
      /\ me[p].id = sessions /\ sessions \in Nat
  BY SessionAssumption
     DEF OwnInv, Rest, Own, Kept, Current, at, End, Place, home, SessionInv, Shared
<1>4. RegisteredLeavesNone'
  BY <1>3 DEF RegisteredLeavesNone, Mine
<1>5. Past(guest', snapshots', sessions', ended')
  BY <1>3 DEF Past
<1> QED
  BY <1>2, <1>4, <1>5 DEF Rest

(* Only the session's position and counters move, and what runs in the guest. *)
LEMMA MoveGuestRest ==
  ASSUME OwnInv, OneAtATime, NEW p \in Proc, NEW t \in Session, at(p) # "idle",
         me' = [me EXCEPT ![p] = t], UNCHANGED << snapshots, marker, sessions, ended >>,
         Past(guest', snapshots, sessions, ended), Apart(guest', snapshots),
         SamePlace(me[p], t), Bare(t) => Bare(me[p]),
         Named(t, marker), Gone(t, guest'), Uploaded(t, guest')
  PROVE  Rest'
<1>1. Kept(me[p], snapshots, sessions, ended)
  BY DEF OwnInv, Rest, Own, at
<1>2. Kept(t, snapshots, sessions, ended)
  BY <1>1, KeptStep DEF Kept, Cleared
<1>3. Own(t, guest', snapshots', marker', sessions, ended)
  BY <1>2 DEF Own
<1>4. OneSnapshot'
  BY DEF OwnInv, Rest, OneSnapshot
<1> QED
  BY <1>3, <1>4, StepRest

LEMMA MoveRest ==
  ASSUME OwnInv, OneAtATime, NEW p \in Proc, NEW t \in Session, at(p) # "idle",
         me' = [me EXCEPT ![p] = t], UNCHANGED << guest, snapshots, marker, sessions, ended >>,
         SamePlace(me[p], t), Bare(t) => Bare(me[p]),
         Named(t, marker), Gone(t, guest), Uploaded(t, guest)
  PROVE  Rest'
BY MoveGuestRest DEF OwnInv, Rest

(* install() leaves the strategy. *)
LEMMA LeaveRest ==
  ASSUME OwnInv, OneAtATime, NEW p \in Proc, LeaveStrategy(p), at(p) # "idle",
         sessions' = sessions, snapshots' \subseteq snapshots,
         Past(guest', snapshots', sessions, ended), Apart(guest', snapshots'),
         Installer(me[p]) \notin guest'.running
  PROVE  Rest'
<1>1. me[p] \in Session /\ Kept(me[p], snapshots, sessions, ended)
  BY DEF OwnInv, Rest, Own, at, SessionInv, Local
<1>2. OneSnapshot'
  BY DEF OwnInv, Rest, OneSnapshot
<1>3. CASE End(p, FALSE)
  BY <1>2, <1>3, EndRest
<1>4. CASE /\ ~me[p].closing
           /\ me' = [me EXCEPT ![p] = [NewSession("provision", @.app, @.id) EXCEPT !.closing = TRUE]]
           /\ UNCHANGED ended
  <2> DEFINE t == [NewSession("provision", me[p].app, me[p].id) EXCEPT !.closing = TRUE]
  <2>1. me[p].app \in App /\ me[p].id \in Nat
    BY <1>1 DEF Session
  <2>2. t \in Session
    BY <2>1, NewSound DEF Op
  <2>3. me' = [me EXCEPT ![p] = t]
    BY <1>4 DEF OwnInv, SessionInv, Local
  <2>4. Kept(t, snapshots', sessions, ended)
    BY <1>1, <1>4, KeptClosing
  <2>5. Installer(t) = Installer(me[p]) /\ t.op = "provision" /\ t.at = "domstate"
    BY DEF NewSession, Installer
  <2> HIDE DEF t
  <2>6. Own(t, guest', snapshots', marker', sessions, ended)
    BY <2>4, <2>5 DEF Own, Named, Gone, Uploaded
  <2> QED
    BY <1>2, <1>4, <2>2, <2>3, <2>6, StepRest DEF Kept
<1> QED
  BY <1>3, <1>4 DEF LeaveStrategy

(* A rollback begins after a run(). *)
LEMMA RestoreRest ==
  ASSUME OwnInv, OneAtATime, NEW p \in Proc, NEW failed \in BOOLEAN, Restore(p, failed),
         me[p].op = "run", at(p) # "idle", UNCHANGED << sessions, marker >>,
         snapshots' \subseteq snapshots,
         Past(guest', snapshots', sessions, ended), Apart(guest', snapshots')
  PROVE  Rest'
<1> DEFINE t == [me[p] EXCEPT !.op = "restore", !.at = "revert", !.failed = failed,
                              !.tries = 0, !.chunks = 0, !.short = FALSE, !.ok = FALSE,
                              !.held = None]
<1>1. me[p] \in Session /\ Kept(me[p], snapshots, sessions, ended) /\ Named(me[p], marker)
  BY DEF OwnInv, Rest, Own, at, SessionInv, Local
<1>2. t \in Session
  BY <1>1 DEF Session, At, Op
<1>3. me' = [me EXCEPT ![p] = t] /\ ended' = ended
  BY DEF Restore, OwnInv, SessionInv, Local, Session
<1>4. /\ SamePlace(me[p], t) /\ t.op = "restore" /\ t.at = "revert"
      /\ t.attempt = me[p].attempt
  BY <1>1 DEF Session, SamePlace
<1> HIDE DEF t
<1>5. ~Bare(t) /\ Label(t) = Label(me[p]) /\ Place(t) = Place(me[p])
  BY <1>4 DEF Bare, Label, Place, SamePlace
<1>6. Kept(t, snapshots', sessions, ended)
  BY <1>1, <1>4, <1>5, KeptStep
<1>7. Named(t, marker') /\ Gone(t, guest') /\ Uploaded(t, guest')
  BY <1>1, <1>4, <1>5 DEF Named, Gone, Uploaded
<1>8. OneSnapshot'
  BY DEF OwnInv, Rest, OneSnapshot
<1> QED
  BY <1>2, <1>3, <1>6, <1>7, <1>8, StepRest DEF Own

LEMMA FailedRest ==
  ASSUME OwnInv, OneAtATime, NEW p \in Proc, Failed(p), at(p) # "idle",
         UNCHANGED << sessions, marker >>, OneSnapshot',
         me[p].op # "snapshot" => snapshots' \subseteq snapshots,
         me[p].op # "run" => Installer(me[p]) \notin guest'.running,
         Past(guest', snapshots', sessions, ended), Apart(guest', snapshots')
  PROVE  Rest'
<1>1. CASE me[p].op = "run" /\ Restore(p, TRUE)
  BY <1>1, RestoreRest
<1>2. CASE me[p].op \in {"provision", "initialize"} /\ LeaveStrategy(p)
  BY <1>2, LeaveRest
<1>3. CASE End(p, FALSE)
  BY <1>3, EndRest
<1> QED
  BY <1>1, <1>2, <1>3 DEF Failed

(* The same when the call that failed changed nothing. *)
LEMMA FailedQuietly ==
  ASSUME OwnInv, OneAtATime, NEW p \in Proc, Failed(p), at(p) # "idle",
         UNCHANGED << guest, snapshots, sessions, marker >>, me[p].at # "revert"
  PROVE  Rest'
<1>1. me[p].op # "run" => Installer(me[p]) \notin guest'.running
  BY DEF OwnInv, Rest, Own, Gone, at
<1>2. OneSnapshot'
  BY DEF OwnInv, Rest, OneSnapshot
<1> QED
  BY <1>1, <1>2, FailedRest DEF OwnInv, Rest

------------------------------------------------------------------------------
(* Every action keeps the rest of the invariant. *)
LEMMA Grounds ==
  ASSUME OwnInv, NEW p \in Proc, at(p) # "idle"
  PROVE  /\ me[p] \in Session /\ Sound(me[p])
         /\ Kept(me[p], snapshots, sessions, ended) /\ Named(me[p], marker)
         /\ Gone(me[p], guest) /\ Uploaded(me[p], guest)
BY DEF OwnInv, Rest, Own, at, SessionInv, Local

(* Goto between positions that are alike to the invariant. *)
LEMMA GotoRest ==
  ASSUME OwnInv, OneAtATime, NEW p \in Proc, NEW next \in At, Goto(p, next), at(p) # "idle",
         UNCHANGED << guest, snapshots, marker, sessions >>,
         Bare([me[p] EXCEPT !.at = next, !.tries = 0]) => Bare(me[p]),
         Named([me[p] EXCEPT !.at = next, !.tries = 0], marker),
         Gone([me[p] EXCEPT !.at = next, !.tries = 0], guest),
         Uploaded([me[p] EXCEPT !.at = next, !.tries = 0], guest)
  PROVE  Rest'
<1> DEFINE t == [me[p] EXCEPT !.at = next, !.tries = 0]
<1>1. me[p] \in Session
  BY Grounds
<1>2. t \in Session /\ SamePlace(me[p], t)
  BY <1>1 DEF Session, SamePlace
<1>3. me' = [me EXCEPT ![p] = t] /\ ended' = ended
  BY DEF Goto, OwnInv, SessionInv, Local, Session
<1> QED
  BY <1>2, <1>3, MoveRest

(* From and to the positions of ensure_ready, and on to recover, create,   *)
(* verdict and repair.                                                     *)
LEMMA WaitRest ==
  ASSUME OwnInv, OneAtATime, NEW p \in Proc, NEW next \in At, Goto(p, next), at(p) # "idle",
         UNCHANGED << guest, snapshots, marker, sessions >>,
         at(p) \in {"domstate", "start", "ping"},
         next \in {"start", "ping", "recover", "create"}
  PROVE  Rest'
<1> DEFINE t == [me[p] EXCEPT !.at = next, !.tries = 0]
<1>1. /\ me[p] \in Session /\ Sound(me[p]) /\ Named(me[p], marker) /\ Gone(me[p], guest)
      /\ me[p].at \in {"domstate", "start", "ping"}
  BY Grounds DEF at
<1>2. /\ t.at = next /\ t.op = me[p].op /\ t.active = me[p].active /\ t.held = me[p].held
      /\ SamePlace(me[p], t) /\ t.ok = me[p].ok /\ t.task = me[p].task
  BY <1>1 DEF Session, SamePlace
<1>3. (Bare(t) => Bare(me[p])) /\ Named(t, marker) /\ Gone(t, guest) /\ Uploaded(t, guest)
  <2> HIDE DEF t
  <2>1. Place(t) = Place(me[p]) /\ Label(t) = Label(me[p]) /\ Installer(t) = Installer(me[p])
    BY <1>2 DEF SamePlace, Place, Label, Installer
  <2>2. Bare(t) => Bare(me[p])
    BY <1>1, <1>2 DEF Bare
  <2>3. Named(t, marker)
    BY <1>1, <1>2, <2>1 DEF Named, SamePlace
  <2>4. Gone(t, guest) /\ Uploaded(t, guest)
    BY <1>1, <1>2, <2>1 DEF Gone, Uploaded
  <2> QED
    BY <2>2, <2>3, <2>4
<1> QED
  BY <1>3, GotoRest

LEMMA QueryRest ==
  ASSUME OwnInv, OneAtATime, NEW p \in Proc, QueryState(p)
  PROVE  Rest'
<1>1. at(p) # "idle" /\ me[p].at # "revert" /\ at(p) \in {"domstate", "start", "ping"}
  BY DEF QueryState, at
<1> QED
  BY <1>1, WaitRest, FailedQuietly DEF QueryState, libvirt, host, At

LEMMA StartDomainRest ==
  ASSUME OwnInv, OneAtATime, NEW p \in Proc, StartDomain(p)
  PROVE  Rest'
<1>1. at(p) # "idle" /\ me[p].at # "revert" /\ at(p) \in {"domstate", "start", "ping"}
  BY DEF StartDomain, at
<1> QED
  BY <1>1, WaitRest, FailedQuietly DEF StartDomain, host, At

(* A guest command is prepared: its task decides what may follow. *)
LEMMA CommandRest ==
  ASSUME OwnInv, OneAtATime, NEW p \in Proc, NEW task \in Task, GuestCommand(p, task),
         UNCHANGED << guest, snapshots, marker, sessions >>,
         at(p) = "ping", task # "installer"
  PROVE  Rest'
<1> DEFINE t == [me[p] EXCEPT !.at = "exec", !.task = task, !.tries = 0, !.chunks = 0]
<1>1. /\ me[p] \in Session /\ Sound(me[p]) /\ Named(me[p], marker) /\ Gone(me[p], guest)
      /\ me[p].at = "ping"
  BY Grounds DEF at
<1>2. t \in Session
  BY <1>1 DEF Session, At
<1>3. me' = [me EXCEPT ![p] = t] /\ ended' = ended
  BY DEF GuestCommand, OwnInv, SessionInv, Local, Session
<1>4. /\ t.at = "exec" /\ t.op = me[p].op /\ t.active = me[p].active /\ t.held = me[p].held
      /\ SamePlace(me[p], t) /\ t.ok = me[p].ok /\ t.task = task
  BY <1>1 DEF Session, SamePlace
<1> HIDE DEF t
<1>5. Place(t) = Place(me[p]) /\ Label(t) = Label(me[p]) /\ Installer(t) = Installer(me[p])
  BY <1>4 DEF SamePlace, Place, Label, Installer
<1>6. Bare(t) => Bare(me[p])
  BY <1>1, <1>4 DEF Bare
<1>7. Named(t, marker)
  BY <1>1, <1>4, <1>5 DEF Named, SamePlace
<1>8. Gone(t, guest) /\ Uploaded(t, guest)
  BY <1>1, <1>4, <1>5 DEF Gone, Uploaded
<1> QED
  BY <1>2, <1>3, <1>4, <1>6, <1>7, <1>8, MoveRest DEF at

(* A loop goes round once more. *)
LEMMA CountRest ==
  ASSUME OwnInv, OneAtATime, NEW p \in Proc, at(p) # "idle",
         me' = [me EXCEPT ![p].tries = @ + 1],
         UNCHANGED << guest, snapshots, marker, sessions, ended >>
  PROVE  Rest'
<1> DEFINE t == [me[p] EXCEPT !.tries = @ + 1]
<1>1. /\ me[p] \in Session /\ Named(me[p], marker) /\ Gone(me[p], guest)
      /\ Uploaded(me[p], guest)
  BY Grounds
<1>2. /\ t \in Session /\ SamePlace(me[p], t) /\ t.at = me[p].at /\ t.op = me[p].op
      /\ t.active = me[p].active /\ t.task = me[p].task /\ t.held = me[p].held
      /\ t.ok = me[p].ok /\ t.short = me[p].short
  BY <1>1 DEF Session, SamePlace
<1>3. me' = [me EXCEPT ![p] = t]
  BY DEF OwnInv, SessionInv, Local, Session
<1> HIDE DEF t
<1>4. Place(t) = Place(me[p]) /\ Label(t) = Label(me[p]) /\ Installer(t) = Installer(me[p])
  BY <1>2 DEF SamePlace, Place, Label, Installer
<1>5. Bare(t) => Bare(me[p])
  BY <1>2 DEF Bare
<1>6. Named(t, marker)
  BY <1>1, <1>2, <1>4 DEF Named, SamePlace
<1>7. Gone(t, guest) /\ Uploaded(t, guest)
  BY <1>1, <1>2, <1>4 DEF Gone, Uploaded, SamePlace
<1> QED
  BY <1>2, <1>3, <1>5, <1>6, <1>7, MoveRest

LEMMA PingRest ==
  ASSUME OwnInv, OneAtATime, NEW p \in Proc, Ping(p)
  PROVE  Rest'
<1>1. /\ at(p) = "ping" /\ at(p) # "idle" /\ me[p].at # "revert"
      /\ UNCHANGED << guest, snapshots, marker, sessions >>
  BY DEF Ping, at, libvirt, host
<1>2. /\ me[p] \in Session /\ Sound(me[p]) /\ Named(me[p], marker) /\ Gone(me[p], guest)
      /\ me[p].at = "ping"
  BY <1>1, Grounds DEF at
<1>3. ASSUME Ready(p) PROVE Rest'
  <2>1. CASE me[p].op = "provision" /\ me[p].closing
    <3> DEFINE t == [me[p] EXCEPT !.op = "initialize", !.at = "domstate", !.tries = 0]
    <3>1. t \in Session
      BY <1>2 DEF Session, Op, At
    <3>2. me' = [me EXCEPT ![p] = t] /\ ended' = ended
      BY <1>3, <2>1 DEF Ready, Call, OwnInv, SessionInv, Local, Session
    <3>3. /\ t.at = "domstate" /\ t.op = "initialize" /\ SamePlace(me[p], t)
      BY <1>2 DEF Session, SamePlace
    <3> HIDE DEF t
    <3>4. Installer(t) = Installer(me[p])
      BY <3>3 DEF SamePlace, Installer
    <3>5. Bare(me[p]) /\ Named(t, marker) /\ Gone(t, guest) /\ Uploaded(t, guest)
      BY <1>2, <2>1, <3>3, <3>4 DEF Bare, Named, Gone, Uploaded
    <3> QED
      BY <1>1, <3>1, <3>2, <3>3, <3>5, MoveRest
  <2>2. CASE Goto(p, "recover") \/ Goto(p, "create")
    BY <1>1, <2>2, WaitRest DEF At
  <2>3. CASE \E task \in {"mkdir", "inventory", "launch"} : GuestCommand(p, task)
    BY <1>1, <2>3, CommandRest DEF Task
  <2> QED
    BY <1>2, <1>3, <2>1, <2>2, <2>3 DEF Ready, Session, Op
<1> QED
  BY <1>1, <1>3, CountRest, FailedQuietly DEF Ping

LEMMA RecoverRest ==
  ASSUME OwnInv, OneAtATime, NEW p \in Proc, RecoverInterrupted(p)
  PROVE  Rest'
<1>1. /\ at(p) = "recover" /\ at(p) # "idle"
      /\ UNCHANGED << guest, snapshots, marker, sessions >>
  BY DEF RecoverInterrupted, at, libvirt, host
<1>2. /\ me[p] \in Session /\ Sound(me[p]) /\ Named(me[p], marker) /\ Gone(me[p], guest)
      /\ me[p].at = "recover"
  BY <1>1, Grounds DEF at
<1>3. CASE Call(p, "initialize")
    <2> DEFINE t == [me[p] EXCEPT !.op = "initialize", !.at = "domstate", !.tries = 0]
    <2>1. t \in Session
      BY <1>2 DEF Session, Op, At
    <2>2. me' = [me EXCEPT ![p] = t] /\ ended' = ended
      BY <1>3 DEF Call, OwnInv, SessionInv, Local, Session
    <2>3. /\ t.at = "domstate" /\ t.op = "initialize" /\ SamePlace(me[p], t)
      BY <1>2 DEF Session, SamePlace
    <2> HIDE DEF t
    <2>4. Installer(t) = Installer(me[p]) /\ me[p].op = "provision"
      BY <1>2, <2>3 DEF SamePlace, Installer, Sound
    <2>5. Bare(me[p]) /\ Named(t, marker) /\ Gone(t, guest) /\ Uploaded(t, guest)
      BY <1>2, <2>3, <2>4 DEF Bare, Named, Gone, Uploaded
    <2> QED
      BY <1>1, <2>1, <2>2, <2>3, <2>5, MoveRest
<1>4. CASE End(p, FALSE)
  <2>1. OneSnapshot'
    BY <1>1 DEF OwnInv, Rest, OneSnapshot
  <2> QED
    BY <1>1, <1>4, <2>1, EndRest DEF OwnInv, Rest
<1> QED
  BY <1>3, <1>4 DEF RecoverInterrupted

LEMMA StartCommandRest ==
  ASSUME OwnInv, OneAtATime, NEW p \in Proc, StartCommand(p)
  PROVE  Rest'
<1>1. at(p) = "exec" /\ at(p) # "idle" /\ UNCHANGED << snapshots, marker, sessions >>
  BY DEF StartCommand, at, host
<1>2. /\ me[p] \in Session /\ Sound(me[p]) /\ Kept(me[p], snapshots, sessions, ended)
      /\ Named(me[p], marker) /\ Gone(me[p], guest) /\ me[p].at = "exec"
  BY <1>1, Grounds DEF at
<1>3. OneSnapshot'
  BY <1>1 DEF OwnInv, Rest, OneSnapshot
<1>4. CASE UNCHANGED guest /\ Failed(p)
  BY <1>1, <1>4, FailedQuietly DEF at
<1>5. CASE guest' = [guest EXCEPT !.running = @ \cup {pid(p)}, !.exited = @ \ {pid(p)}]
  <2>1. guest \in Guest
    BY DEF OwnInv, SessionInv, Shared
  <2>2. guest'.running = guest.running \cup {pid(p)} /\ guest'.exited = guest.exited \ {pid(p)}
    BY <1>5, <2>1 DEF Guest
  <2>3. pid(p).session = sessions /\ sessions \in Nat
    BY <1>2, SessionAssumption DEF pid, Kept, Current, OwnInv, SessionInv, Shared
  <2>4. Past(guest', snapshots', sessions, ended)
    BY <1>1, <2>2, <2>3 DEF OwnInv, Rest, Past
  <2>5. Apart(guest', snapshots')
    BY <1>1, <2>2 DEF OwnInv, Rest, Apart
  <2>6. me[p].task # "installer" => Installer(me[p]) \notin guest'.running
    BY <1>2, <2>2 DEF Gone, Installer, pid
  <2>7. me[p].task = "installer" => me[p].op = "run"
    BY <1>2 DEF Sound
  <2>8. CASE Goto(p, "poll")
    <3> DEFINE t == [me[p] EXCEPT !.at = "poll", !.tries = 0]
    <3>1. t \in Session
      BY <1>2 DEF Session, At
    <3>2. me' = [me EXCEPT ![p] = t] /\ ended' = ended
      BY <2>8 DEF Goto, OwnInv, SessionInv, Local, Session
    <3>3. /\ t.at = "poll" /\ t.op = me[p].op /\ t.active = me[p].active
          /\ t.held = me[p].held /\ SamePlace(me[p], t) /\ t.task = me[p].task
      BY <1>2 DEF Session, SamePlace
    <3> HIDE DEF t
    <3>4. Place(t) = Place(me[p]) /\ Label(t) = Label(me[p]) /\ Installer(t) = Installer(me[p])
      BY <3>3 DEF SamePlace, Place, Label, Installer
    <3>5. Bare(t) => Bare(me[p])
      BY <1>2, <3>3 DEF Bare
    <3>6. Named(t, marker)
      BY <1>2, <3>3, <3>4 DEF Named, SamePlace
    <3>7. Gone(t, guest') /\ Uploaded(t, guest')
      BY <2>6, <2>7, <3>3, <3>4 DEF Gone, Uploaded
    <3> QED
      BY <1>1, <2>4, <2>5, <3>1, <3>2, <3>3, <3>5, <3>6, <3>7, MoveGuestRest
  <2>9. CASE Failed(p)
    BY <1>1, <1>3, <2>4, <2>5, <2>6, <2>7, <2>9, FailedRest
  <2>10. CASE End(p, FALSE)
    BY <1>1, <1>3, <2>4, <2>5, <2>10, EndRest
  <2> QED
    BY <1>5, <1>4, <2>8, <2>9, <2>10 DEF StartCommand
<1> QED
  BY <1>4, <1>5 DEF StartCommand

LEMMA PollAgainRest ==
  ASSUME OwnInv, OneAtATime, NEW p \in Proc, PollAgain(p)
  PROVE  Rest'
<1>1. /\ at(p) # "idle" /\ me[p].at # "revert"
      /\ UNCHANGED << guest, snapshots, marker, sessions >>
  BY DEF PollAgain, at, libvirt, host
<1> QED
  BY <1>1, CountRest, FailedQuietly DEF PollAgain

(* sync_inventory is done: what comes next. *)
LEMMA InventoryRest ==
  ASSUME OwnInv, OneAtATime, NEW p \in Proc, at(p) = "poll", me[p].task = "inventory",
         UNCHANGED << snapshots, marker, sessions >>, mirror' \in [Home -> SUBSET App],
         guest'.running = guest.running,
         Past(guest', snapshots, sessions, ended), Apart(guest', snapshots),
         InventoryTaken(p)
  PROVE  Rest'
<1>1. /\ me[p] \in Session /\ Sound(me[p]) /\ Kept(me[p], snapshots, sessions, ended)
      /\ Named(me[p], marker) /\ Gone(me[p], guest) /\ me[p].at = "poll" /\ at(p) # "idle"
  BY Grounds DEF at
<1>2. Installer(me[p]) \notin guest'.running
  BY <1>1 DEF Gone
<1>3. OneSnapshot'
  BY DEF OwnInv, Rest, OneSnapshot
<1>4. CASE me[p].op = "initialize"
  <2> DEFINE t == [me[p] EXCEPT !.op = "snapshot", !.at = "domstate", !.tries = 0,
                                !.before = mirror'[home(p)]]
  <2>1. mirror'[home(p)] \in SUBSET App
    BY HomeType DEF OwnInv, SessionInv
  <2>2. t \in Session
    BY <1>1, <2>1 DEF Session, At, Op
  <2>3. me' = [me EXCEPT ![p] = t] /\ ended' = ended
    BY <1>1, <1>4 DEF InventoryTaken, OwnInv, SessionInv, Local, Session
  <2>4. t.op = "snapshot" /\ t.at = "domstate" /\ SamePlace(me[p], t)
    BY <1>1 DEF Session, SamePlace
  <2> HIDE DEF t
  <2>5. Installer(t) = Installer(me[p])
    BY <2>4 DEF SamePlace, Installer
  <2>6. Bare(me[p]) /\ Named(t, marker) /\ Gone(t, guest') /\ Uploaded(t, guest')
    BY <1>2, <1>4, <2>4, <2>5 DEF Bare, Named, Gone, Uploaded
  <2> QED
    BY <1>1, <2>2, <2>3, <2>4, <2>6, MoveGuestRest
<1>5. CASE me[p].op = "run" /\ me[p].ok
  <2> DEFINE t == [me[p] EXCEPT !.at = "discard", !.tries = 0, !.held = me[p].active,
                                !.active = None]
  <2>1. t \in Session
    BY <1>1 DEF Session, At
  <2>2. me' = [me EXCEPT ![p] = t] /\ ended' = ended
    BY <1>1, <1>5 DEF InventoryTaken, OwnInv, SessionInv, Local, Session
  <2>3. /\ t.op = "run" /\ t.at = "discard" /\ SamePlace(me[p], t)
        /\ t.held = me[p].active
    BY <1>1, <1>5 DEF Session, SamePlace
  <2> HIDE DEF t
  <2>4. Place(t) = Place(me[p]) /\ Label(t) = Label(me[p]) /\ Installer(t) = Installer(me[p])
    BY <2>3 DEF SamePlace, Place, Label, Installer
  <2>5. ~Bare(t)
    BY <2>3 DEF Bare
  <2>6. Named(t, marker)
    BY <1>1, <1>5, <2>3, <2>4 DEF Named, SamePlace
  <2>7. Gone(t, guest') /\ Uploaded(t, guest')
    BY <1>2, <2>3, <2>4 DEF Gone, Uploaded
  <2> QED
    BY <1>1, <2>1, <2>2, <2>3, <2>5, <2>6, <2>7, MoveGuestRest
<1>6. CASE me[p].op = "run" /\ ~me[p].ok
  <2> DEFINE t == [me[p] EXCEPT !.at = "verdict", !.tries = 0]
  <2>1. t \in Session
    BY <1>1 DEF Session, At
  <2>2. me' = [me EXCEPT ![p] = t] /\ ended' = ended
    BY <1>1, <1>6 DEF InventoryTaken, Goto, OwnInv, SessionInv, Local, Session
  <2>3. /\ t.op = "run" /\ t.at = "verdict" /\ SamePlace(me[p], t) /\ t.ok = me[p].ok
    BY <1>1, <1>6 DEF Session, SamePlace
  <2> HIDE DEF t
  <2>4. Place(t) = Place(me[p]) /\ Label(t) = Label(me[p]) /\ Installer(t) = Installer(me[p])
    BY <2>3 DEF SamePlace, Place, Label, Installer
  <2>5. ~Bare(t)
    BY <1>6, <2>3 DEF Bare
  <2>6. Named(t, marker)
    BY <1>1, <1>6, <2>3, <2>4 DEF Named, SamePlace
  <2>7. Gone(t, guest') /\ Uploaded(t, guest')
    BY <1>2, <2>3, <2>4 DEF Gone, Uploaded
  <2> QED
    BY <1>1, <2>1, <2>2, <2>3, <2>5, <2>6, <2>7, MoveGuestRest
<1>7. CASE me[p].op = "restore" /\ me[p].failed
  BY <1>1, <1>2, <1>7, LeaveRest DEF InventoryTaken
<1>8. CASE me[p].op = "restore" /\ ~me[p].failed
  <2> DEFINE t == [me[p] EXCEPT !.at = "repair", !.tries = 0]
  <2>1. t \in Session
    BY <1>1 DEF Session, At
  <2>2. me' = [me EXCEPT ![p] = t] /\ ended' = ended
    BY <1>1, <1>8 DEF InventoryTaken, Goto, OwnInv, SessionInv, Local, Session
  <2>3. t.op = "restore" /\ t.at = "repair" /\ SamePlace(me[p], t)
    BY <1>1, <1>8 DEF Session, SamePlace
  <2> HIDE DEF t
  <2>4. Installer(t) = Installer(me[p])
    BY <2>3 DEF SamePlace, Installer
  <2>5. Bare(me[p]) /\ Named(t, marker) /\ Gone(t, guest') /\ Uploaded(t, guest')
    BY <1>1, <1>2, <1>8, <2>3, <2>4 DEF Bare, Named, Gone, Uploaded
  <2> QED
    BY <1>1, <2>1, <2>2, <2>3, <2>5, MoveGuestRest
<1>9. CASE me[p].op = "update"
  BY <1>1, <1>3, <1>9, EndRest DEF InventoryTaken
<1>10. /\ me[p].op \in {"initialize", "run", "restore", "update"}
       /\ me[p].ok \in BOOLEAN /\ me[p].failed \in BOOLEAN
  BY <1>1 DEF Sound, Session
<1> QED
  BY <1>4, <1>5, <1>6, <1>7, <1>8, <1>9, <1>10

LEMMA PollExitedRest ==
  ASSUME OwnInv, OneAtATime, NEW p \in Proc, PollExited(p)
  PROVE  Rest'
<1>1. /\ at(p) = "poll" /\ at(p) # "idle" /\ UNCHANGED << snapshots, marker, sessions >>
      /\ pid(p) \in guest.exited
  BY DEF PollExited, at
<1>2. /\ me[p] \in Session /\ Sound(me[p]) /\ Kept(me[p], snapshots, sessions, ended)
      /\ Named(me[p], marker) /\ Gone(me[p], guest) /\ me[p].at = "poll"
  BY <1>1, Grounds DEF at
<1>3. OneSnapshot'
  BY <1>1 DEF OwnInv, Rest, OneSnapshot
<1>4. guest'.running = guest.running /\ guest'.exited \subseteq guest.exited
  BY DEF PollExited, OwnInv, SessionInv, Shared, Guest
<1>5. Past(guest', snapshots, sessions, ended) /\ Apart(guest', snapshots)
  BY <1>4 DEF OwnInv, Rest, Past, Apart
<1>6. CASE me[p].task = "mkdir" /\ Goto(p, "open")
  <2> DEFINE t == [me[p] EXCEPT !.at = "open", !.tries = 0]
  <2>1. t \in Session
    BY <1>2 DEF Session, At
  <2>2. me' = [me EXCEPT ![p] = t] /\ ended' = ended
    BY <1>6 DEF Goto, OwnInv, SessionInv, Local, Session
  <2>3. /\ t.op = me[p].op /\ t.at = "open" /\ SamePlace(me[p], t) /\ t.active = me[p].active
    BY <1>2 DEF Session, SamePlace
  <2> HIDE DEF t
  <2>4. Place(t) = Place(me[p]) /\ Label(t) = Label(me[p]) /\ Installer(t) = Installer(me[p])
    BY <2>3 DEF SamePlace, Place, Label, Installer
  <2>5. Bare(t) => Bare(me[p])
    BY <1>2, <2>3 DEF Bare
  <2>6. Named(t, marker)
    BY <1>2, <2>3, <2>4 DEF Named, SamePlace
  <2>7. Gone(t, guest') /\ Uploaded(t, guest')
    BY <1>2, <1>4, <1>6, <2>3, <2>4 DEF Gone, Uploaded
  <2> QED
    BY <1>1, <1>5, <2>1, <2>2, <2>3, <2>5, <2>6, <2>7, MoveGuestRest
<1>7. CASE /\ me[p].task = "installer"
           /\ \E ok \in BOOLEAN :
                me' = [me EXCEPT ![p].ok = ok, ![p].at = "exec", ![p].task = "inventory",
                                 ![p].tries = 0]
           /\ UNCHANGED << ended, mirror >>
  <2>1. PICK ok \in BOOLEAN :
          me' = [me EXCEPT ![p].ok = ok, ![p].at = "exec", ![p].task = "inventory",
                           ![p].tries = 0]
    BY <1>7
  <2> DEFINE t == [me[p] EXCEPT !.ok = ok, !.at = "exec", !.task = "inventory", !.tries = 0]
  <2>2. t \in Session
    BY <1>2 DEF Session, At, Task
  <2>3. me' = [me EXCEPT ![p] = t] /\ ended' = ended
    BY <1>7, <2>1 DEF OwnInv, SessionInv, Local, Session
  <2>4. /\ t.op = me[p].op /\ t.at = "exec" /\ SamePlace(me[p], t) /\ t.active = me[p].active
        /\ t.task = "inventory"
    BY <1>2 DEF Session, SamePlace
  <2> HIDE DEF t
  <2>5. Place(t) = Place(me[p]) /\ Label(t) = Label(me[p]) /\ Installer(t) = Installer(me[p])
    BY <2>4 DEF SamePlace, Place, Label, Installer
  <2>6. Bare(t) => Bare(me[p])
    BY <1>2, <2>4 DEF Bare
  <2>7. Named(t, marker)
    BY <1>2, <2>4, <2>5 DEF Named, SamePlace
  <2>8. Installer(me[p]) \notin guest.running
    BY <1>1, <1>7 DEF pid, Installer, OwnInv, Rest, Apart
  <2>9. Gone(t, guest') /\ Uploaded(t, guest')
    BY <1>4, <2>4, <2>5, <2>8 DEF Gone, Uploaded
  <2> QED
    BY <1>1, <1>5, <2>2, <2>3, <2>4, <2>6, <2>7, <2>9, MoveGuestRest
<1>8. ASSUME Failed(p) PROVE Rest'
  <2>1. me[p].op # "run" => Installer(me[p]) \notin guest'.running
    BY <1>2, <1>4 DEF Gone
  <2> QED
    BY <1>1, <1>3, <1>5, <1>8, <2>1, FailedRest
<1>9. CASE /\ me[p].task = "inventory"
           /\ \E shown \in SUBSET (Visible \cap guest.programs) :
                Mirrored(p, shown) /\ (InventoryTaken(p) \/ Failed(p))
  <2>1. mirror' \in [Home -> SUBSET App]
    BY <1>9, MirrorType DEF OwnInv
  <2> QED
    BY <1>1, <1>4, <1>5, <1>8, <1>9, <2>1, InventoryRest
<1> QED
  BY <1>6, <1>7, <1>8, <1>9 DEF PollExited

LEMMA OpenRest ==
  ASSUME OwnInv, OneAtATime, NEW p \in Proc, OpenFile(p)
  PROVE  Rest'
<1>1. at(p) = "open" /\ at(p) # "idle" /\ UNCHANGED << snapshots, marker, sessions >>
  BY DEF OpenFile, at, host
<1>2. /\ me[p] \in Session /\ Sound(me[p]) /\ Kept(me[p], snapshots, sessions, ended)
      /\ Named(me[p], marker) /\ Gone(me[p], guest) /\ me[p].at = "open"
  BY <1>1, Grounds DEF at
<1>3. OneSnapshot'
  BY <1>1 DEF OwnInv, Rest, OneSnapshot
<1>4. guest'.running = guest.running /\ guest'.exited = guest.exited
  BY DEF OpenFile, OwnInv, SessionInv, Shared, Guest
<1>5. Past(guest', snapshots, sessions, ended) /\ Apart(guest', snapshots)
  BY <1>4 DEF OwnInv, Rest, Past, Apart
<1>6. Installer(me[p]) \notin guest'.running
  BY <1>2, <1>4 DEF Gone
<1>7. CASE Goto(p, "write")
  <2> DEFINE t == [me[p] EXCEPT !.at = "write", !.tries = 0]
  <2>1. t \in Session
    BY <1>2 DEF Session, At
  <2>2. me' = [me EXCEPT ![p] = t] /\ ended' = ended
    BY <1>7 DEF Goto, OwnInv, SessionInv, Local, Session
  <2>3. /\ t.op = me[p].op /\ t.at = "write" /\ SamePlace(me[p], t) /\ t.active = me[p].active
    BY <1>2 DEF Session, SamePlace
  <2> HIDE DEF t
  <2>4. Place(t) = Place(me[p]) /\ Label(t) = Label(me[p]) /\ Installer(t) = Installer(me[p])
    BY <2>3 DEF SamePlace, Place, Label, Installer
  <2>5. Bare(t) => Bare(me[p])
    BY <1>2, <2>3 DEF Bare
  <2>6. Named(t, marker)
    BY <1>2, <2>3, <2>4 DEF Named, SamePlace
  <2>7. Gone(t, guest') /\ Uploaded(t, guest')
    BY <1>6, <2>3, <2>4 DEF Gone, Uploaded
  <2> QED
    BY <1>1, <1>5, <2>1, <2>2, <2>3, <2>5, <2>6, <2>7, MoveGuestRest
<1>8. CASE Failed(p)
  BY <1>1, <1>3, <1>5, <1>6, <1>8, FailedRest
<1> QED
  BY <1>7, <1>8 DEF OpenFile

LEMMA WriteRest ==
  ASSUME OwnInv, OneAtATime, NEW p \in Proc, WriteChunk(p)
  PROVE  Rest'
<1>1. /\ at(p) = "write" /\ at(p) # "idle" /\ UNCHANGED << snapshots, marker, sessions >>
      /\ ended' = ended
  BY DEF WriteChunk, at, host
<1>2. /\ me[p] \in Session /\ Sound(me[p]) /\ Kept(me[p], snapshots, sessions, ended)
      /\ Named(me[p], marker) /\ Gone(me[p], guest) /\ me[p].at = "write"
  BY <1>1, Grounds DEF at
<1>3. guest'.running = guest.running /\ guest'.exited = guest.exited
  BY DEF WriteChunk, OwnInv, SessionInv, Shared, Guest
<1>4. Past(guest', snapshots, sessions, ended) /\ Apart(guest', snapshots)
  BY <1>3 DEF OwnInv, Rest, Past, Apart
<1>5. Installer(me[p]) \notin guest'.running
  BY <1>2, <1>3 DEF Gone
<1>6. ASSUME NEW t \in Session, t.op = me[p].op, t.at \in {"write", "close"},
             SamePlace(me[p], t), t.active = me[p].active, me' = [me EXCEPT ![p] = t],
             t.at = "close" /\ ~t.short => t.id \in guest'.staged
      PROVE  Rest'
  <2>1. Place(t) = Place(me[p]) /\ Label(t) = Label(me[p]) /\ Installer(t) = Installer(me[p])
    BY <1>6 DEF SamePlace, Place, Label, Installer
  <2>2. Bare(t) => Bare(me[p])
    BY <1>2, <1>6 DEF Bare
  <2>3. Named(t, marker)
    BY <1>2, <1>6, <2>1 DEF Named, SamePlace
  <2>4. Gone(t, guest') /\ Uploaded(t, guest')
    BY <1>5, <1>6, <2>1 DEF Gone, Uploaded
  <2> QED
    BY <1>1, <1>4, <1>6, <2>2, <2>3, <2>4, MoveGuestRest
<1>7. CASE me' = [me EXCEPT ![p].short = TRUE, ![p].at = "close"]
  <2> DEFINE t == [me[p] EXCEPT !.short = TRUE, !.at = "close"]
  <2>1. t \in Session
    BY <1>2 DEF Session, At
  <2>2. me' = [me EXCEPT ![p] = t]
    BY <1>7 DEF OwnInv, SessionInv, Local, Session
  <2>3. /\ t.op = me[p].op /\ t.at = "close" /\ SamePlace(me[p], t) /\ t.active = me[p].active
        /\ t.short
    BY <1>2 DEF Session, SamePlace
  <2> QED
    BY <1>6, <2>1, <2>2, <2>3
<1>8. CASE /\ guest' = IF me[p].chunks + 1 = Chunks
                       THEN [guest EXCEPT !.staged = @ \cup {me[p].id}] ELSE guest
           /\ me' = [me EXCEPT ![p].chunks = @ + 1,
                               ![p].at = IF me[p].chunks + 1 = Chunks THEN "close" ELSE @]
  <2>1. PICK next \in {"write", "close"} :
          /\ me' = [me EXCEPT ![p].chunks = @ + 1, ![p].at = next]
          /\ next = "close" => me[p].chunks + 1 = Chunks
    BY <1>2, <1>8
  <2> DEFINE t == [me[p] EXCEPT !.chunks = me[p].chunks + 1, !.at = next]
  <2>2. t \in Session
    <3> DEFINE c == me[p].chunks + 1
    <3>1. c \in Nat /\ next \in At
      BY <1>2 DEF Session, At
    <3> HIDE DEF c
    <3>2. [me[p] EXCEPT !.chunks = c, !.at = next] \in Session
      BY <1>2, <3>1 DEF Session
    <3> QED
      BY <3>2 DEF c
  <2>3. me' = [me EXCEPT ![p] = t]
    BY <2>1 DEF OwnInv, SessionInv, Local, Session
  <2>4. t.op = me[p].op /\ t.at = next /\ SamePlace(me[p], t) /\ t.active = me[p].active
        /\ t.id = me[p].id
    BY <1>2 DEF Session, SamePlace
  <2>5. next = "close" => t.id \in guest'.staged
    BY <1>8, <2>1, <2>4 DEF OwnInv, SessionInv, Shared, Guest
  <2> HIDE DEF t
  <2> QED
    BY <1>6, <2>2, <2>3, <2>4, <2>5
<1> QED
  BY <1>7, <1>8 DEF WriteChunk

LEMMA CloseRest ==
  ASSUME OwnInv, OneAtATime, NEW p \in Proc, CloseFile(p)
  PROVE  Rest'
<1>1. at(p) = "close" /\ at(p) # "idle" /\ UNCHANGED << snapshots, marker, sessions >>
  BY DEF CloseFile, at, host
<1>2. /\ me[p] \in Session /\ Sound(me[p]) /\ Kept(me[p], snapshots, sessions, ended)
      /\ Named(me[p], marker) /\ Gone(me[p], guest) /\ Uploaded(me[p], guest)
      /\ me[p].at = "close"
  BY <1>1, Grounds DEF at
<1>3. OneSnapshot'
  BY <1>1 DEF OwnInv, Rest, OneSnapshot
<1>4. guest'.running = guest.running /\ guest'.exited = guest.exited
      /\ guest'.staged = guest.staged
  BY DEF CloseFile, OwnInv, SessionInv, Shared, Guest
<1>5. Past(guest', snapshots, sessions, ended) /\ Apart(guest', snapshots)
  BY <1>4 DEF OwnInv, Rest, Past, Apart
<1>6. Installer(me[p]) \notin guest'.running
  BY <1>2, <1>4 DEF Gone
<1>7. CASE /\ guest' = [guest EXCEPT !.open = @ \ {me[p].id}]
           /\ ~me[p].short
           /\ GuestCommand(p, IF me[p].op = "run" THEN "installer" ELSE "launch")
  <2> DEFINE task == IF me[p].op = "run" THEN "installer" ELSE "launch"
             t == [me[p] EXCEPT !.at = "exec", !.task = task, !.tries = 0, !.chunks = 0]
  <2>1. t \in Session
    <3>1. task \in Task
      BY DEF Task
    <3> HIDE DEF task
    <3> QED
      BY <1>2, <3>1 DEF Session, At
  <2>2. me' = [me EXCEPT ![p] = t] /\ ended' = ended
    BY <1>7 DEF GuestCommand, OwnInv, SessionInv, Local, Session
  <2>3. /\ t.op = me[p].op /\ t.at = "exec" /\ SamePlace(me[p], t) /\ t.active = me[p].active
        /\ t.id = me[p].id
    BY <1>2 DEF Session, SamePlace
  <2> HIDE DEF t
  <2>4. Place(t) = Place(me[p]) /\ Label(t) = Label(me[p]) /\ Installer(t) = Installer(me[p])
    BY <2>3 DEF SamePlace, Place, Label, Installer
  <2>5. Bare(t) => Bare(me[p])
    BY <1>2, <2>3 DEF Bare
  <2>6. Named(t, marker)
    BY <1>2, <2>3, <2>4 DEF Named, SamePlace
  <2>7. Gone(t, guest')
    BY <1>6, <2>3, <2>4 DEF Gone
  <2>8. me[p].id \in guest'.staged \ guest'.open
    BY <1>2, <1>4, <1>7 DEF Uploaded, OwnInv, SessionInv, Shared, Guest
  <2>9. Uploaded(t, guest')
    BY <2>3, <2>8 DEF Uploaded
  <2> QED
    BY <1>1, <1>5, <2>1, <2>2, <2>3, <2>5, <2>6, <2>7, <2>9, MoveGuestRest
<1>8. CASE Failed(p)
  BY <1>1, <1>3, <1>5, <1>6, <1>8, FailedRest
<1> QED
  BY <1>7, <1>8 DEF CloseFile

LEMMA CreateRest ==
  ASSUME OwnInv, OneAtATime, NEW p \in Proc, CreateSnapshot(p)
  PROVE  Rest'
<1>1. at(p) = "create" /\ at(p) # "idle" /\ UNCHANGED << guest, marker, sessions >>
  BY DEF CreateSnapshot, at, host
<1>2. /\ me[p] \in Session /\ Sound(me[p]) /\ Kept(me[p], snapshots, sessions, ended)
      /\ Gone(me[p], guest) /\ me[p].at = "create" /\ me[p].op = "snapshot"
  BY <1>1, Grounds DEF at, Sound
<1>3. CASE UNCHANGED snapshots /\ Failed(p)
  BY <1>1, <1>2, <1>3, FailedQuietly
<1>4. CASE snapshots' = snapshots \cup {[name |-> name(p), saved |-> guest]}
  <2> DEFINE new == [name |-> name(p), saved |-> guest]
  <2>1. /\ new.name = Label(me[p]) /\ new.saved = guest
        /\ new.name.time = me[p].id /\ new.name.home = Place(me[p])
    BY DEF name, home, Label, Place
  <2>2. Mine(me[p], snapshots) = {} /\ me[p].id = sessions /\ sessions \in Nat
        /\ Installer(me[p]) \notin guest.running
    BY <1>2, SessionAssumption
       DEF Kept, Cleared, Bare, Current, Gone, OwnInv, SessionInv, Shared
  <2>3. snapshots' = snapshots \cup {new}
    BY <1>4
  <2> HIDE DEF new
  <2>4. Past(guest', snapshots', sessions, ended) /\ Apart(guest', snapshots')
    BY <1>1, <2>1, <2>2, <2>3 DEF OwnInv, Rest, Past, Apart
  <2>5. OneSnapshot'
    BY <2>1, <2>2, <2>3 DEF OwnInv, Rest, OneSnapshot, Mine
  <2>6. CASE Failed(p)
    BY <1>1, <1>2, <2>2, <2>4, <2>5, <2>6, FailedRest
  <2>7. CASE /\ me' = [me EXCEPT ![p].active = name(p), ![p].base = guest.programs,
                                 ![p].at = "marker"]
             /\ UNCHANGED ended
    <3> DEFINE t == [me[p] EXCEPT !.active = name(p), !.base = guest.programs, !.at = "marker"]
    <3>1. name(p) \in Name /\ guest.programs \in SUBSET App
      BY NameType DEF OwnInv, SessionInv, Shared, Guest
    <3>2. t \in Session
      BY <1>2, <3>1 DEF Session, At
    <3>3. me' = [me EXCEPT ![p] = t] /\ ended' = ended
      BY <2>7 DEF OwnInv, SessionInv, Local, Session
    <3>4. /\ t.at = "marker" /\ t.op = "snapshot" /\ t.active = Label(me[p])
          /\ t.base = guest.programs /\ t.id = me[p].id /\ t.app = me[p].app
          /\ t.closing = me[p].closing /\ t.attempt = me[p].attempt
      BY <1>2 DEF Session, name, home, Label, Place
    <3> HIDE DEF t
    <3>5. Place(t) = Place(me[p]) /\ Label(t) = Label(me[p]) /\ Installer(t) = Installer(me[p])
      BY <3>4 DEF Place, Label, Installer
    <3>6. Mine(t, snapshots') \subseteq {new}
      BY <2>2, <2>3, <3>4, <3>5 DEF Mine
    <3>7. Current(t, sessions, ended)
      BY <1>2, <3>4 DEF Kept, Current
    <3>8. Unopened(t, snapshots')
      <4> SUFFICES ASSUME ~t.closing, NEW x \in snapshots', x.name.time = t.id
                   PROVE  x.name.home # << t.app, TRUE >>
        BY DEF Unopened
      <4>1. CASE x \in snapshots
        BY <1>2, <3>4, <4>1 DEF Kept, Unopened
      <4>2. CASE x = new
        <5>1. << me[p].app, me[p].closing >> # << t.app, TRUE >>
          BY <3>4
        <5> QED
          BY <2>1, <4>2, <5>1 DEF Place
      <4> QED
        BY <2>3, <4>1, <4>2
    <3>9. Cleared(t, snapshots')
      BY <3>4 DEF Cleared, Bare
    <3>10. Exact(t, snapshots')
      BY <2>1, <2>2, <3>4, <3>5, <3>6 DEF Exact
    <3>11. Named(t, marker') /\ Gone(t, guest') /\ Uploaded(t, guest')
      BY <1>1, <2>2, <3>4, <3>5 DEF Named, Gone, Uploaded
    <3>12. Own(t, guest', snapshots', marker', sessions, ended)
      BY <3>7, <3>8, <3>9, <3>10, <3>11 DEF Own, Kept
    <3>13. \A x \in snapshots' \ snapshots : x.name.time = me[p].id
      BY <2>1, <2>3
    <3> QED
      BY <1>1, <1>2, <2>4, <2>5, <3>2, <3>3, <3>12, <3>13, StepRest DEF Kept
  <2> QED
    BY <1>3, <1>4, <2>6, <2>7 DEF CreateSnapshot
<1> QED
  BY <1>3, <1>4 DEF CreateSnapshot

LEMMA MarkerRest ==
  ASSUME OwnInv, OneAtATime, NEW p \in Proc, WriteMarker(p)
  PROVE  Rest'
<1>1. at(p) = "marker" /\ at(p) # "idle" /\ UNCHANGED << guest, snapshots, sessions >>
  BY DEF WriteMarker, at, libvirt
<1>2. /\ me[p] \in Session /\ Sound(me[p]) /\ Kept(me[p], snapshots, sessions, ended)
      /\ Named(me[p], marker) /\ Gone(me[p], guest) /\ me[p].at = "marker"
  BY <1>1, Grounds DEF at
<1>3. CASE UNCHANGED marker /\ Failed(p)
  BY <1>1, <1>2, <1>3, FailedQuietly
<1>4. CASE marker' = [marker EXCEPT ![home(p)][me[p].attempt] = me[p].active] /\ Call(p, "run")
  <2> DEFINE t == [me[p] EXCEPT !.op = "run", !.at = "domstate", !.tries = 0]
  <2>1. t \in Session
    BY <1>2 DEF Session, At, Op
  <2>2. me' = [me EXCEPT ![p] = t] /\ ended' = ended
    BY <1>4 DEF Call, OwnInv, SessionInv, Local, Session
  <2>3. /\ t.op = "run" /\ t.at = "domstate" /\ SamePlace(me[p], t) /\ t.active = me[p].active
    BY <1>2 DEF Session, SamePlace
  <2> HIDE DEF t
  <2>4. Place(t) = Place(me[p]) /\ Label(t) = Label(me[p]) /\ Installer(t) = Installer(me[p])
    BY <2>3 DEF SamePlace, Place, Label, Installer
  <2>5. Kept(t, snapshots', sessions, ended)
    BY <1>1, <1>2, <2>3, KeptStep DEF Bare
  <2>6. marker'[home(p)][me[p].attempt] = me[p].active
    <3>1. home(p) \in Home /\ me[p].attempt \in 1 .. Attempts
      BY <1>2, HomeType DEF OwnInv, SessionInv, Session
    <3>2. marker \in [Home -> [1 .. Attempts -> Name \cup {None}]]
      BY DEF OwnInv, SessionInv, Shared
    <3> QED
      BY <1>4, <3>1, <3>2
  <2>7. Named(t, marker')
    BY <1>2, <2>3, <2>4, <2>6 DEF Named, SamePlace, home, Place
  <2>8. Gone(t, guest') /\ Uploaded(t, guest')
    BY <1>1, <1>2, <2>3, <2>4 DEF Gone, Uploaded
  <2>9. OneSnapshot' /\ Past(guest', snapshots', sessions, ended) /\ Apart(guest', snapshots')
    BY <1>1 DEF OwnInv, Rest, OneSnapshot
  <2> QED
    BY <1>1, <2>1, <2>2, <2>5, <2>7, <2>8, <2>9, StepRest DEF Own
<1> QED
  BY <1>3, <1>4 DEF WriteMarker

(* Without the snapshot it holds, a session has none. *)
LEMMA HeldLast ==
  ASSUME NEW s, NEW S, Exact(s, S)
  PROVE  Mine(s, {x \in S : x.name # Label(s)}) = {}
BY DEF Exact, Mine

LEMMA DiscardRest ==
  ASSUME OwnInv, OneAtATime, NEW p \in Proc, DiscardSnapshot(p)
  PROVE  Rest'
<1>1. at(p) = "discard" /\ at(p) # "idle" /\ UNCHANGED << guest, marker, sessions >>
  BY DEF DiscardSnapshot, at, host
<1>2. /\ me[p] \in Session /\ Sound(me[p]) /\ Kept(me[p], snapshots, sessions, ended)
      /\ Named(me[p], marker) /\ Gone(me[p], guest) /\ me[p].at = "discard"
      /\ me[p].op = "run" /\ me[p].held = Label(me[p])
  BY <1>1, Grounds DEF at, Sound, Named
<1>3. snapshots' \subseteq snapshots
  BY DEF DiscardSnapshot
<1>4. OneSnapshot' /\ Past(guest', snapshots', sessions, ended) /\ Apart(guest', snapshots')
  BY <1>1, <1>3 DEF OwnInv, Rest, OneSnapshot, Past, Apart
<1>5. CASE /\ snapshots' = {s \in snapshots : s.name # me[p].held}
           /\ me' = [me EXCEPT ![p].held = None, ![p].at = "verdict"]
           /\ UNCHANGED ended
  <2> DEFINE t == [me[p] EXCEPT !.held = None, !.at = "verdict"]
  <2>1. t \in Session
    BY <1>2 DEF Session, At
  <2>2. me' = [me EXCEPT ![p] = t] /\ ended' = ended
    BY <1>5 DEF OwnInv, SessionInv, Local, Session
  <2>3. t.op = "run" /\ t.at = "verdict" /\ SamePlace(me[p], t)
    BY <1>2 DEF Session, SamePlace
  <2> HIDE DEF t
  <2>4. Place(t) = Place(me[p]) /\ Label(t) = Label(me[p]) /\ Installer(t) = Installer(me[p])
    BY <2>3 DEF SamePlace, Place, Label, Installer
  <2>5. Mine(me[p], snapshots') = {}
    BY <1>2, <1>5, HeldLast DEF Kept
  <2>6. Kept(t, snapshots', sessions, ended)
    BY <1>2, <1>3, <2>3, <2>5, KeptStep
  <2>7. Named(t, marker')
    BY <1>1, <1>2, <2>3, <2>4 DEF Named, SamePlace
  <2>8. Gone(t, guest') /\ Uploaded(t, guest')
    BY <1>1, <1>2, <2>3, <2>4 DEF Gone, Uploaded
  <2> QED
    BY <1>1, <1>3, <1>4, <2>1, <2>2, <2>6, <2>7, <2>8, StepRest DEF Own
<1>6. CASE Failed(p)
  BY <1>1, <1>2, <1>3, <1>4, <1>6, FailedRest
<1> QED
  BY <1>5, <1>6 DEF DiscardSnapshot

LEMMA VerdictRest ==
  ASSUME OwnInv, OneAtATime, NEW p \in Proc, Verdict(p)
  PROVE  Rest'
<1>1. at(p) = "verdict" /\ at(p) # "idle" /\ UNCHANGED << guest, snapshots, sessions >>
  BY DEF Verdict, at, libvirt
<1>2. /\ Sound(me[p]) /\ Kept(me[p], snapshots, sessions, ended)
      /\ Gone(me[p], guest) /\ me[p].at = "verdict" /\ me[p].op = "run"
  BY <1>1, Grounds DEF at, Sound
<1>3. OneSnapshot' /\ Past(guest', snapshots', sessions, ended) /\ Apart(guest', snapshots')
  BY <1>1 DEF OwnInv, Rest, OneSnapshot
<1>4. CASE me[p].ok /\ End(p, TRUE)
  <2>1. Mine(me[p], snapshots') = {}
    BY <1>1, <1>2, <1>4 DEF Kept, Cleared, Bare
  <2> QED
    BY <1>1, <1>3, <1>4, <2>1, EndRest
<1>5. CASE End(p, FALSE)
  BY <1>1, <1>3, <1>5, EndRest
<1>6. CASE LeaveStrategy(p) /\ UNCHANGED marker
  <2>1. Installer(me[p]) \notin guest'.running
    BY <1>1, <1>2 DEF Gone
  <2> QED
    BY <1>1, <1>3, <1>6, <2>1, LeaveRest
<1>7. CASE Restore(p, FALSE) /\ UNCHANGED marker
  BY <1>1, <1>2, <1>3, <1>7, RestoreRest
<1> QED
  BY <1>4, <1>5, <1>6, <1>7 DEF Verdict

LEMMA RevertRest ==
  ASSUME OwnInv, OneAtATime, NEW p \in Proc, RevertGuest(p)
  PROVE  Rest'
<1>1. at(p) = "revert" /\ at(p) # "idle" /\ UNCHANGED << snapshots, marker, sessions >>
  BY DEF RevertGuest, at, host
<1>2. /\ me[p] \in Session /\ Sound(me[p]) /\ Kept(me[p], snapshots, sessions, ended)
      /\ Named(me[p], marker) /\ me[p].at = "revert" /\ me[p].op = "restore"
  BY <1>1, Grounds DEF at, Sound
<1>3. marker[home(p)][me[p].attempt] = Label(me[p])
  BY <1>2 DEF Named, home, Place
<1>4. OneSnapshot'
  BY <1>1 DEF OwnInv, Rest, OneSnapshot
<1>5. CASE UNCHANGED << domain, guest >> /\ Failed(p)
  <2>1. End(p, FALSE)
    BY <1>2, <1>5 DEF Failed
  <2> QED
    BY <1>1, <1>4, <1>5, <2>1, EndRest DEF OwnInv, Rest
<1>6. ASSUME NEW s \in snapshots, s.name = marker[home(p)][me[p].attempt],
             RevertedTo(s.saved),
             \/ /\ me' = [me EXCEPT ![p].held = marker[home(p)][me[p].attempt],
                                    ![p].at = "delete"]
                /\ UNCHANGED ended
             \/ Failed(p)
      PROVE  Rest'
  <2>1. s.saved \in Guest /\ s.name \in Name
    BY DEF OwnInv, SessionInv, Shared, Snapshot
  <2>2. guest'.running \subseteq s.saved.running
        /\ (guest'.exited = s.saved.exited \/ guest'.exited = {})
    BY <1>6, <2>1 DEF RevertedTo, Guest
  <2>3. Past(guest', snapshots', sessions, ended) /\ Apart(guest', snapshots')
    BY <1>1, <2>2 DEF OwnInv, Rest, Past, Apart
  <2>4. s \in Mine(me[p], snapshots)
    BY <1>3, <1>6 DEF Mine, Label
  <2>5. Installer(me[p]) \notin guest'.running
    BY <1>2, <2>2, <2>4 DEF Kept, Exact
  <2>6. CASE Failed(p)
    BY <1>1, <1>2, <1>4, <2>3, <2>5, <2>6, FailedRest
  <2>7. CASE /\ me' = [me EXCEPT ![p].held = marker[home(p)][me[p].attempt],
                                 ![p].at = "delete"]
             /\ UNCHANGED ended
    <3> DEFINE t == [me[p] EXCEPT !.held = s.name, !.at = "delete"]
    <3>1. t \in Session
      BY <1>2, <2>1 DEF Session, At
    <3>2. me' = [me EXCEPT ![p] = t] /\ ended' = ended
      BY <1>6, <2>7 DEF OwnInv, SessionInv, Local, Session
    <3>3. /\ t.op = "restore" /\ t.at = "delete" /\ SamePlace(me[p], t)
          /\ t.held = Label(me[p])
      BY <1>2, <1>3, <1>6 DEF Session, SamePlace
    <3> HIDE DEF t
    <3>4. Place(t) = Place(me[p]) /\ Label(t) = Label(me[p]) /\ Installer(t) = Installer(me[p])
      BY <3>3 DEF SamePlace, Place, Label, Installer
    <3>5. ~Bare(t)
      BY <3>3 DEF Bare
    <3>6. Named(t, marker) /\ Gone(t, guest') /\ Uploaded(t, guest')
      BY <2>5, <3>3, <3>4 DEF Named, Gone, Uploaded
    <3> QED
      BY <1>1, <2>3, <3>1, <3>2, <3>3, <3>5, <3>6, MoveGuestRest
  <2> QED
    BY <1>6, <2>6, <2>7
<1> QED
  BY <1>5, <1>6 DEF RevertGuest

LEMMA DeleteRest ==
  ASSUME OwnInv, OneAtATime, NEW p \in Proc, DeleteSnapshot(p)
  PROVE  Rest'
<1>1. at(p) = "delete" /\ at(p) # "idle" /\ UNCHANGED << guest, marker, sessions >>
  BY DEF DeleteSnapshot, at, host
<1>2. /\ me[p] \in Session /\ Sound(me[p]) /\ Kept(me[p], snapshots, sessions, ended)
      /\ Gone(me[p], guest) /\ me[p].at = "delete"
      /\ me[p].op = "restore" /\ me[p].held = Label(me[p])
  BY <1>1, Grounds DEF at, Sound, Named
<1>3. snapshots' \subseteq snapshots
  BY DEF DeleteSnapshot
<1>4. OneSnapshot' /\ Past(guest', snapshots', sessions, ended) /\ Apart(guest', snapshots')
  BY <1>1, <1>3 DEF OwnInv, Rest, OneSnapshot, Past, Apart
<1>5. Installer(me[p]) \notin guest'.running
  BY <1>1, <1>2 DEF Gone
<1>6. CASE /\ snapshots' = {s \in snapshots : s.name # me[p].held}
           /\ me' = [me EXCEPT ![p].active = None, ![p].held = None, ![p].at = "domstate"]
           /\ UNCHANGED ended
  <2> DEFINE t == [me[p] EXCEPT !.active = None, !.held = None, !.at = "domstate"]
  <2>1. t \in Session
    BY <1>2 DEF Session, At
  <2>2. me' = [me EXCEPT ![p] = t] /\ ended' = ended
    BY <1>6 DEF OwnInv, SessionInv, Local, Session
  <2>3. t.op = "restore" /\ t.at = "domstate" /\ SamePlace(me[p], t)
    BY <1>2 DEF Session, SamePlace
  <2> HIDE DEF t
  <2>4. Installer(t) = Installer(me[p])
    BY <2>3 DEF SamePlace, Installer
  <2>5. Mine(me[p], snapshots') = {}
    BY <1>2, <1>6, HeldLast DEF Kept
  <2>6. Kept(t, snapshots', sessions, ended)
    BY <1>2, <1>3, <2>3, <2>5, KeptStep
  <2>7. Named(t, marker') /\ Gone(t, guest') /\ Uploaded(t, guest')
    BY <1>5, <2>3, <2>4 DEF Named, Gone, Uploaded
  <2> QED
    BY <1>1, <1>3, <1>4, <2>1, <2>2, <2>6, <2>7, StepRest DEF Own
<1>7. CASE Failed(p)
  BY <1>1, <1>2, <1>3, <1>4, <1>5, <1>7, FailedRest
<1> QED
  BY <1>6, <1>7 DEF DeleteSnapshot

LEMMA RepairRest ==
  ASSUME OwnInv, OneAtATime, NEW p \in Proc, Repair(p)
  PROVE  Rest'
<1>1. /\ at(p) = "repair" /\ at(p) # "idle"
      /\ UNCHANGED << guest, snapshots, marker, sessions >>
  BY DEF Repair, at, libvirt, host
<1>2. /\ me[p] \in Session /\ Sound(me[p]) /\ Kept(me[p], snapshots, sessions, ended)
      /\ Gone(me[p], guest) /\ me[p].at = "repair" /\ me[p].op = "restore"
  BY <1>1, Grounds DEF at, Sound
<1>3. Installer(me[p]) \notin guest'.running /\ Mine(me[p], snapshots) = {}
  BY <1>1, <1>2 DEF Gone, Kept, Cleared, Bare
<1>4. OneSnapshot' /\ Past(guest', snapshots', sessions, ended) /\ Apart(guest', snapshots')
  BY <1>1 DEF OwnInv, Rest, OneSnapshot
<1>5. CASE me' = [me EXCEPT ![p].attempt = @ + 1, ![p].op = "snapshot", ![p].at = "domstate"]
           /\ UNCHANGED ended
  <2> DEFINE t == [me[p] EXCEPT !.attempt = @ + 1, !.op = "snapshot", !.at = "domstate"]
  <2>1. t \in Session
    <3>1. me[p].attempt \in 1 .. Attempts /\ me[p].attempt + 1 \in 1 .. Attempts
      BY <1>2, SessionAssumption DEF Session, Sound
    <3> QED
      BY <1>2, <3>1 DEF Session, At, Op
  <2>2. me' = [me EXCEPT ![p] = t] /\ ended' = ended
    BY <1>5 DEF OwnInv, SessionInv, Local, Session
  <2>3. /\ t.op = "snapshot" /\ t.at = "domstate" /\ t.id = me[p].id
        /\ t.app = me[p].app /\ t.closing = me[p].closing
    BY <1>2 DEF Session
  <2> HIDE DEF t
  <2>4. Installer(t) = Installer(me[p]) /\ Mine(t, snapshots') = {}
    BY <1>1, <1>3, <2>3 DEF Installer, Mine, Place
  <2>5. Kept(t, snapshots', sessions, ended)
    BY <1>1, <1>2, <2>3, <2>4 DEF Kept, Current, Unopened, Cleared, Exact
  <2>6. Named(t, marker') /\ Gone(t, guest') /\ Uploaded(t, guest')
    BY <1>3, <2>3, <2>4 DEF Named, Gone, Uploaded
  <2> QED
    BY <1>1, <1>4, <2>1, <2>2, <2>5, <2>6, StepRest DEF Own
<1>6. CASE LeaveStrategy(p)
  BY <1>1, <1>3, <1>4, <1>6, LeaveRest
<1> QED
  BY <1>5, <1>6 DEF Repair

LEMMA StartRest ==
  ASSUME OwnInv, OneAtATime, NEW p \in Proc, Start(p)
  PROVE  Rest'
<1>1. /\ UNCHANGED << guest, snapshots, marker, ended >> /\ sessions' = sessions + 1
      /\ sessions \in Nat
  BY SessionAssumption DEF Start, libvirt, host, OwnInv, SessionInv, Shared
<1>2. PICK a \in App, op \in {"provision", "update", "launch"} :
        me' = [me EXCEPT ![p] = NewSession(op, a, sessions')]
  BY DEF Start
<1> DEFINE t == NewSession(op, a, sessions')
<1>3. /\ t.op \in {"provision", "update", "launch"} /\ t.at = "domstate"
      /\ t.id = sessions + 1 /\ t.app = a
  BY <1>1 DEF NewSession
<1>4. me'[p] = t /\ \A q \in Proc : q = p
  BY <1>2 DEF OwnInv, SessionInv, Local, OneAtATime
<1> HIDE DEF t
<1>5. ended.session \in Nat
  BY DEF OwnInv, SessionInv, Local, EndedType
<1>6. /\ \A x \in snapshots : x.name.time \in Nat
      /\ \A r \in guest.running : r.session \in Nat
      /\ \A x \in snapshots : \A r \in x.saved.running : r.session \in Nat
  BY DEF OwnInv, SessionInv, Shared, Snapshot, Name, Guest, Process
<1>7. Past(guest', snapshots', sessions', ended')
  BY <1>1, <1>5, <1>6 DEF OwnInv, Rest, Past
<1>8. Mine(t, snapshots) = {} /\ Installer(t) \notin guest.running
      /\ \A x \in snapshots : x.name.time # t.id
  <2>1. \A x \in snapshots : x.name.time # t.id
    BY <1>1, <1>3, <1>6 DEF OwnInv, Rest, Past
  <2>2. \A r \in guest.running : r.session # t.id
    BY <1>1, <1>3, <1>6 DEF OwnInv, Rest, Past
  <2> QED
    BY <2>1, <2>2 DEF Mine, Installer
<1>9. Current(t, sessions', ended')
  BY <1>1, <1>3, <1>5 DEF OwnInv, Rest, Past, Current
<1>10. Kept(t, snapshots', sessions', ended')
  BY <1>1, <1>8, <1>9 DEF Kept, Unopened, Cleared, Exact
<1>11. Named(t, marker') /\ Gone(t, guest') /\ Uploaded(t, guest')
  BY <1>1, <1>3, <1>8 DEF Named, Gone, Uploaded
<1>12. \A q \in Proc : Own(me'[q], guest', snapshots', marker', sessions', ended')
  BY <1>4, <1>10, <1>11 DEF Own
<1>13. Apart(guest', snapshots') /\ OneSnapshot' /\ RegisteredLeavesNone'
  BY <1>1 DEF OwnInv, Rest, OneSnapshot, RegisteredLeavesNone
<1> QED
  BY <1>7, <1>12, <1>13 DEF Rest

LEMMA KillRest ==
  ASSUME OwnInv, OneAtATime, NEW p \in Proc, Kill(p)
  PROVE  Rest'
<1>1. at(p) # "idle" /\ UNCHANGED << guest, snapshots, sessions >> /\ End(p, FALSE)
  BY DEF Kill, libvirt
<1>2. OneSnapshot' /\ Past(guest', snapshots', sessions, ended) /\ Apart(guest', snapshots')
  BY <1>1 DEF OwnInv, Rest, OneSnapshot
<1> QED
  BY <1>1, <1>2, EndRest

(* What the guest and its user do starts no installer and deletes no file. *)
LEMMA GuestRest ==
  ASSUME OwnInv, UNCHANGED << snapshots, marker, me, sessions, ended >>,
         guest'.running \subseteq guest.running, guest'.staged = guest.staged,
         guest'.open \subseteq guest.open, guest'.running \cap guest'.exited = {}
  PROVE  Rest'
<1>1. Past(guest', snapshots', sessions', ended') /\ Apart(guest', snapshots')
  BY DEF OwnInv, Rest, Past, Apart
<1>2. OneSnapshot' /\ RegisteredLeavesNone'
  BY DEF OwnInv, Rest, OneSnapshot, RegisteredLeavesNone
<1>3. ASSUME NEW p \in Proc
      PROVE  Own(me[p], guest', snapshots, marker, sessions, ended)
  <2>1. Own(me[p], guest, snapshots, marker, sessions, ended)
    BY DEF OwnInv, Rest
  <2> QED
    BY <2>1 DEF Own, Gone, Uploaded
<1> QED
  BY <1>1, <1>2, <1>3 DEF Rest

LEMMA OutsideRest ==
  ASSUME OwnInv, Outside
  PROVE  Rest'
<1>1. UNCHANGED << snapshots, marker, me, sessions, ended >>
  BY DEF Outside, GuestInstalls, GuestExits, SwitchOff, PauseOrResume, host
<1>2. guest \in Guest /\ guest.running \cap guest.exited = {}
  BY DEF OwnInv, SessionInv, Shared, Rest, Apart
<1>3. CASE GuestInstalls
  BY <1>1, <1>2, <1>3, GuestRest DEF GuestInstalls, Guest
<1>4. CASE GuestExits
  <2>1. PICK r \in guest.running :
          guest' = [guest EXCEPT !.running = @ \ {r},
                                 !.exited = @ \cup ({r} \cap {pid(p) : p \in Polling})]
    BY <1>4 DEF GuestExits
  <2> DEFINE asked == {r} \cap {pid(p) : p \in Polling}
  <2>2. asked \subseteq {r}
    OBVIOUS
  <2>3. guest' = [guest EXCEPT !.running = @ \ {r}, !.exited = @ \cup asked]
    BY <2>1
  <2> HIDE DEF asked
  <2>4. /\ guest'.running = guest.running \ {r} /\ guest'.exited = guest.exited \cup asked
        /\ guest'.staged = guest.staged /\ guest'.open = guest.open
    BY <1>2, <2>3 DEF Guest
  <2>5. guest'.running \cap guest'.exited = {}
    BY <1>2, <2>2, <2>4
  <2> QED
    BY <1>1, <2>4, <2>5, GuestRest
<1>5. CASE SwitchOff
  BY <1>1, <1>2, <1>5, GuestRest DEF SwitchOff, Guest
<1>6. CASE PauseOrResume
  BY <1>1, <1>2, <1>6, GuestRest DEF PauseOrResume, Guest
<1> QED
  BY <1>3, <1>4, <1>5, <1>6 DEF Outside

------------------------------------------------------------------------------
LEMMA OwnInit == Init => OwnInv
<1> SUFFICES ASSUME Init PROVE OwnInv
  OBVIOUS
<1>1. \A p \in Proc : me[p].at = "idle"
  BY DEF Init, Idle, NewSession
<1>2. \A p \in Proc : Own(me[p], guest, snapshots, marker, sessions, ended)
  BY <1>1 DEF Own
<1>3. Past(guest, snapshots, sessions, ended) /\ Apart(guest, snapshots)
  BY DEF Init, Past, Apart
<1>4. OneSnapshot /\ RegisteredLeavesNone
  BY DEF Init, OneSnapshot, RegisteredLeavesNone
<1> QED
  BY <1>2, <1>3, <1>4, InvInit DEF OwnInv, Rest

LEMMA OwnStep == ASSUME OneAtATime PROVE OwnInv /\ [Next]_vars => OwnInv'
<1> SUFFICES ASSUME OwnInv, [Next]_vars PROVE Rest'
  BY InvStep DEF OwnInv
<1>1. CASE UNCHANGED vars
  BY <1>1 DEF OwnInv, Rest, OneSnapshot, RegisteredLeavesNone, vars
<1>2. CASE Outside
  BY <1>2, OutsideRest
<1>3. ASSUME NEW p \in Proc, Start(p) \/ Kill(p)
      PROVE  Rest'
  BY <1>3, StartRest, KillRest
<1>4. ASSUME NEW p \in Proc, Proceed(p)
      PROVE  Rest'
  <2>1. CASE EnsureReady(p)
    BY <2>1, QueryRest, StartDomainRest, PingRest DEF EnsureReady
  <2>2. CASE Upload(p)
    BY <2>2, OpenRest, WriteRest, CloseRest DEF Upload
  <2>3. CASE Execute(p)
    BY <2>3, StartCommandRest, PollAgainRest, PollExitedRest DEF Execute
  <2>4. CASE Rollback(p)
    BY <2>4, CreateRest, MarkerRest, DiscardRest, RevertRest, DeleteRest DEF Rollback
  <2>5. CASE Install(p)
    BY <2>5, RecoverRest, VerdictRest, RepairRest DEF Install
  <2> QED
    BY <1>4, <2>1, <2>2, <2>3, <2>4, <2>5 DEF Proceed
<1> QED
  BY <1>1, <1>2, <1>3, <1>4 DEF Next

(* The invariant of a guest that one session at a time works in. *)
THEOREM OwnSessions == ASSUME OneAtATime PROVE Spec => []OwnInv
BY OwnInit, OwnStep, PTL DEF Spec

(***************************************************************************)
(* What run() starts (vm.rs:183) is in the guest to its last byte.         *)
(***************************************************************************)
THEOREM UploadComplete == ASSUME OneAtATime PROVE Spec => []StagedBeforeRun
<1>1. OwnInv => StagedBeforeRun
  BY DEF OwnInv, Rest, Own, Uploaded, StagedBeforeRun, at
<1> QED
  BY <1>1, OwnSessions, PTL

(***************************************************************************)
(* No second installer of a session is started beside one that still runs, *)
(* though run() never stops the one it gave up waiting for.                *)
(***************************************************************************)
THEOREM NoSecondInstaller == ASSUME OneAtATime PROVE Spec => []InstallerAlone
<1>1. OwnInv => InstallerAlone
  <2> SUFFICES ASSUME OwnInv, NEW p \in Proc, at(p) = "exec", me[p].task = "installer"
               PROVE  pid(p) \notin guest.running
    BY DEF InstallerAlone
  <2>1. Gone(me[p], guest)
    BY Grounds
  <2> QED
    BY <2>1 DEF Gone, Installer, pid, at
<1> QED
  BY <1>1, OwnSessions, PTL

(***************************************************************************)
(* At most one snapshot of a strategy is on the domain for a session, and  *)
(* none once it registered its application (vm.rs:131-149, 204-225).       *)
(***************************************************************************)
THEOREM SnapshotsBounded == ASSUME OneAtATime PROVE Spec => []OneSnapshot
<1>1. OwnInv => OneSnapshot
  BY DEF OwnInv, Rest
<1> QED
  BY <1>1, OwnSessions, PTL

THEOREM RegisteredClean == ASSUME OneAtATime PROVE Spec => []RegisteredLeavesNone
<1>1. OwnInv => RegisteredLeavesNone
  BY DEF OwnInv, Rest
<1> QED
  BY <1>1, OwnSessions, PTL

(* Only restore() of this session moves it from "revert" to "delete". *)
LEMMA RevertsItself ==
  ASSUME OwnInv, OneAtATime, NEW p \in Proc, at(p) = "revert", at(p)' = "delete", [Next]_vars
  PROVE  guest'.programs = me[p].base
<1>1. me' # me /\ \A q \in Proc : q = p
  BY DEF OneAtATime, at
<1>2. ~Outside /\ ~Start(p)
  BY <1>1 DEF Outside, GuestInstalls, GuestExits, SwitchOff, PauseOrResume, Start
<1>3. \A r \in BOOLEAN : ~End(p, r)
  <2>1. ASSUME NEW r \in BOOLEAN, End(p, r) PROVE FALSE
    BY <2>1 DEF End, at, OwnInv, SessionInv, Local, Idle, NewSession
  <2> QED
    BY <2>1
<1>4. ~Kill(p)
  BY <1>3 DEF Kill
<1>5. RevertGuest(p)
  BY <1>1, <1>2, <1>4
     DEF Next, vars, Proceed, EnsureReady, Upload, Execute, Rollback, Install,
         QueryState, StartDomain, Ping, OpenFile, WriteChunk, CloseFile, StartCommand,
         PollAgain, PollExited, CreateSnapshot, WriteMarker, DiscardSnapshot,
         DeleteSnapshot, RecoverInterrupted, Verdict, Repair
<1>6. me[p] \in Session /\ me[p].op = "restore" /\ Named(me[p], marker)
      /\ Exact(me[p], snapshots) /\ me[p].at = "revert"
  BY Grounds DEF at, Sound, Kept
<1>7. ~Failed(p)
  BY <1>3, <1>6 DEF Failed
<1>8. PICK s \in snapshots :
        s.name = marker[home(p)][me[p].attempt] /\ RevertedTo(s.saved)
  BY <1>5, <1>7 DEF RevertGuest
<1>9. s \in Mine(me[p], snapshots)
  BY <1>6, <1>8 DEF Named, Mine, Label, home, Place
<1>10. s.saved \in Guest
  BY DEF OwnInv, SessionInv, Shared, Snapshot
<1>11. guest'.programs = s.saved.programs
  BY <1>8, <1>10 DEF RevertedTo, Guest
<1> QED
  BY <1>6, <1>9, <1>11 DEF Exact

(***************************************************************************)
(* restore() brings back the programs the attempt began with, not those of *)
(* a snapshot an earlier attempt left under the same marker.               *)
(***************************************************************************)
THEOREM RollsBackExactly == ASSUME OneAtATime PROVE Spec => RollbackExact
<1>1. OwnInv /\ [Next]_vars =>
        [\A p \in Proc : at(p) = "revert" /\ at(p)' = "delete"
           => guest'.programs = me[p].base]_vars
  BY RevertsItself
<1> QED
  BY <1>1, OwnSessions, PTL DEF Spec, RollbackExact
==============================================================================
