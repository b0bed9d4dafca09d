---------------------------- MODULE Daemon_proofs ----------------------------
(***************************************************************************)
(* TLAPS proofs about Daemon, for any number of processes and alerts: the  *)
(* instance lock covers all that a process does but the end of its server, *)
(* and is enough for the socket path and the receipts to be used by one    *)
(* process at a time.                                                      *)
(***************************************************************************)
EXTENDS Daemon, TLAPS

-----------------------------------------------------------------------------
(* The inductive invariant *)

Active    == {"scan", "sleep", "join"}
Preparing == {"subscribe", "look", "connect", "remove", "bind"}
Owning    == {"loop", "wait", "connected", "inspect", "unlink"}

\* The usage task and the preparation of the socket end before the runtime does.
TasksInside ==
  \A p \in Process :
    /\ usage[p] # "finished" => runtime[p] \in Active
    /\ server[p] # "finished" => runtime[p] \in Active \cup {"ended"}
    /\ server[p] \in Preparing => runtime[p] \in Active

LockHeld == \A p \in Process : runtime[p] \in {"resolve"} \cup Active => lock = p

\* The path is the listener's until it is unlinked; what is removed to make room
\* for another is dead.
SocketHeld ==
  \A p \in Process :
    /\ server[p] \in Owning => socket = p
    /\ server[p] = "remove" => socket \notin Process

\* An alert that is about to be delivered is new; one that was has its receipt,
\* or somebody is writing it.
AlertsNew ==
  /\ \A p \in Process : usage[p] = "deliver" => alert[p] \notin told
  /\ \A k \in told : receipt[k] = "none" =>
       \E p \in Process : usage[p] = "record" /\ alert[p] = k
  /\ repeated = {}

IInv ==
  /\ TypeOK
  /\ TasksInside
  /\ LockHeld
  /\ SocketHeld
  /\ AlertsNew
  /\ LastStatusIsFinal

LEMMA InitIInv == Init => IInv
BY NothingAssumption
DEF Init, IInv, TypeOK, RuntimePlace, ServerPlace, Listening, UsagePlace, TasksInside, LockHeld,
    SocketHeld, AlertsNew, LastStatusIsFinal, Active, Preparing, Owning

-----------------------------------------------------------------------------
(* Types *)

StatusTyped ==
  /\ stopping \in [Process -> BOOLEAN]
  /\ next \in [Process -> SUBSET {"monitoring", "usage"}]
  /\ cancelled \in [Process -> BOOLEAN]
  /\ announced \in [Process -> BOOLEAN]

LEMMA ShutdownTyped ==
  ASSUME TypeOK, NEW p \in Process, Shutdown(p)
  PROVE  StatusTyped'
BY DEF TypeOK, Shutdown, Set, Subscribed, StatusTyped

LEMMA PublishTyped ==
  ASSUME TypeOK, NEW p \in Process, Publish(p)
  PROVE  announced' \in [Process -> BOOLEAN]
BY DEF TypeOK, Publish, Set, Subscribed

\* A step of the server keeps to its own variable, the socket's and the status.
LEMMA ServerStepTyped ==
  ASSUME TypeOK, NEW p \in Process, NEW place \in ServerPlace, ServerGoes(p, place),
         UNCHANGED status \/ Shutdown(p),
         socket' \in Process \cup {"stale", Nothing}, KeepRest
  PROVE  TypeOK'
<1>1. StatusTyped'
  BY ShutdownTyped DEF TypeOK, StatusTyped, status
<1>2. server' \in [Process -> ServerPlace]
  BY DEF TypeOK, ServerGoes, Set
<1> QED
  BY <1>1, <1>2 DEF TypeOK, StatusTyped, KeepRest, alerts

LEMMA RuntimeKeepsTypes ==
  ASSUME TypeOK, NEW p \in Process, Launch(p) \/ Runtime(p) \/ Wake(p)
  PROVE  TypeOK'
<1> USE DEF TypeOK, Set, RuntimePlace, ServerPlace, Listening, UsagePlace, status, alerts
<1>1. CASE Launch(p) \/ AcquireLock(p) \/ Wake(p)
  BY <1>1 DEF Launch, AcquireLock, Wake
<1>2. CASE Resolve(p)
  <2>1. runtime' \in [Process -> RuntimePlace] /\ lock' \in Process \cup {Nothing}
    BY <1>2 DEF Resolve, Release
  <2>2. /\ usage' \in [Process -> UsagePlace]
        /\ \A q \in Process : usage'[q] \in {"deliver", "record"} => usage'[q] = usage[q]
    BY <1>2 DEF Resolve
  <2>3. /\ server' \in [Process -> ServerPlace]
        /\ next' \in [Process -> SUBSET {"monitoring", "usage"}]
    BY <1>2 DEF Resolve
  <2>4. armed' \in [Process -> BOOLEAN]
    BY <1>2 DEF Resolve
  <2> QED
    BY <1>2, <2>1, <2>2, <2>3, <2>4 DEF Resolve
<1>3. CASE Scan(p)
  <2>1. announced' \in [Process -> BOOLEAN]
    BY <1>3, PublishTyped DEF Scan
  <2>2. next' \in [Process -> SUBSET {"monitoring", "usage"}]
    BY <1>3 DEF Scan
  <2>3. /\ runtime' \in [Process -> RuntimePlace]
        /\ cancelled' \in [Process -> BOOLEAN]
        /\ armed' \in [Process -> BOOLEAN]
    BY <1>3 DEF Scan, Join
  <2> QED
    BY <1>3, <2>1, <2>2, <2>3 DEF Scan
<1>6. CASE StopScheduler(p)
  BY <1>6 DEF StopScheduler, Join
<1>4. CASE Finish(p)
  BY <1>4, ShutdownTyped DEF Finish, StatusTyped, Release
<1>5. CASE Exit(p)
  BY <1>5 DEF Exit, Vanish
<1> QED
  BY <1>1, <1>2, <1>3, <1>4, <1>5, <1>6 DEF Runtime, OwnRuntime

LEMMA ServerKeepsTypes ==
  ASSUME TypeOK, NEW p \in Process, Server(p) \/ Hear(p)
  PROVE  TypeOK'
<1>1. /\ UNCHANGED status \/ Shutdown(p)
      /\ KeepRest
      /\ socket' \in Process \cup {"stale", Nothing}
  BY DEF TypeOK, Server, OwnServer, CheckState, Subscribe, Look, Connect, Remove, Bind, Loop, HearStopping,
         Hear, HandleConnection, Inspect, Unlink, CloseServer, CloseListener, ServerFails
<1>2. \E place \in ServerPlace : ServerGoes(p, place)
  BY DEF Server, OwnServer, CheckState, Subscribe, Look, Connect, Remove, Bind, Loop, HearStopping,
         Hear, HandleConnection, Inspect, Unlink, CloseServer, ServerFails, ServerPlace, Listening
<1> QED
  BY <1>1, <1>2, ServerStepTyped

LEMMA UsageKeepsTypes ==
  ASSUME TypeOK, NEW p \in Process, Usage(p)
  PROVE  TypeOK'
<1> USE DEF TypeOK, Set, RuntimePlace, ServerPlace, Listening, UsagePlace, status, alerts,
            KeepTasks, UsageGoes, Settled
<1>1. CASE BeginCycle(p) \/ EndNotifications(p)
  BY <1>1 DEF BeginCycle, EndNotifications
<1>2. CASE Poll(p)
  BY <1>2 DEF Poll
<1>3. CASE Lookup(p)
  BY <1>3 DEF Lookup
<1>4. CASE Deliver(p)
  BY <1>4 DEF Deliver
<1>5. CASE Record(p)
  BY <1>5 DEF Record
<1>6. CASE RecordCycle(p)
  BY <1>6, PublishTyped DEF RecordCycle
<1> QED
  BY <1>1, <1>2, <1>3, <1>4, <1>5, <1>6 DEF Usage, OwnUsage

LEMMA OthersKeepTypes ==
  ASSUME TypeOK,
         (\E p \in Process : CtrlC(p) \/ Kill(p)) \/ \E k \in Key : Damage(k)
  PROVE  TypeOK'
<1> USE DEF TypeOK, Set, RuntimePlace, ServerPlace, Listening, UsagePlace, status, alerts
<1>1. ASSUME NEW p \in Process, CtrlC(p) PROVE TypeOK'
  BY <1>1, ShutdownTyped DEF CtrlC, StatusTyped
<1>2. ASSUME NEW p \in Process, Kill(p) PROVE TypeOK'
  BY <1>2 DEF Kill, Vanish, Release, CloseListener
<1>3. ASSUME NEW k \in Key, Damage(k) PROVE TypeOK'
  BY <1>3 DEF Damage
<1> QED
  BY <1>1, <1>2, <1>3

LEMMA TypesKept == TypeOK /\ [Next]_vars => TypeOK'
<1> SUFFICES ASSUME TypeOK, [Next]_vars PROVE TypeOK'
  OBVIOUS
<1>1. CASE UNCHANGED vars
  BY <1>1 DEF TypeOK, vars, status, alerts
<1>2. CASE Next
  BY <1>2, RuntimeKeepsTypes, ServerKeepsTypes, UsageKeepsTypes, OthersKeepTypes DEF Next
<1> QED
  BY <1>1, <1>2

-----------------------------------------------------------------------------
(* Tasks and the instance lock *)

Locking == TasksInside /\ LockHeld

\* What a step of p leaves alone of the other processes.
OthersStay(p) ==
  \A q \in Process \ {p} :
    runtime'[q] = runtime[q] /\ server'[q] = server[q] /\ usage'[q] = usage[q]

\* Locking after a step of p, from what holds of p and the lock after it.
LEMMA LockingAfter ==
  ASSUME IInv, NEW p \in Process, OthersStay(p),
         lock' = lock \/ (lock = Nothing /\ lock' = p) \/ (lock = p /\ lock' = Nothing),
         usage'[p] # "finished" => runtime'[p] \in Active,
         server'[p] # "finished" => runtime'[p] \in Active \cup {"ended"},
         server'[p] \in Preparing => runtime'[p] \in Active,
         runtime'[p] \in {"resolve"} \cup Active => lock' = p
  PROVE  Locking'
<1>1. TasksInside'
  BY DEF IInv, TasksInside, OthersStay
<1>2. LockHeld'
  BY NothingAssumption DEF IInv, LockHeld, OthersStay
<1> QED
  BY <1>1, <1>2 DEF Locking

LEMMA RuntimeKeepsLocking ==
  ASSUME IInv, NEW p \in Process, Launch(p) \/ Runtime(p) \/ Wake(p)
  PROVE  Locking'
<1> USE DEF IInv, TypeOK, Set, Active, Preparing, TasksInside, LockHeld, OthersStay
<1>1. CASE Launch(p) \/ AcquireLock(p) \/ Wake(p)
  BY <1>1, LockingAfter DEF Launch, AcquireLock, Wake
<1>2. CASE Resolve(p)
  <2>1. OthersStay(p)
    BY <1>2 DEF Resolve
  <2>2. CASE runtime' = Set(runtime, p, "scan") /\ UNCHANGED lock
    BY <1>2, <2>1, <2>2, LockingAfter DEF Resolve
  <2>3. CASE runtime' = Set(runtime, p, "off") /\ Release(p) /\ UNCHANGED <<usage, server>>
    BY <1>2, <2>1, <2>3, LockingAfter DEF Resolve, Release
  <2> QED
    BY <1>2, <2>2, <2>3 DEF Resolve
<1>3. CASE Scan(p)
  BY <1>3, LockingAfter DEF Scan, Join
<1>4. CASE StopScheduler(p)
  BY <1>4, LockingAfter DEF StopScheduler, Join
<1>5. CASE Finish(p)
  BY <1>5, LockingAfter DEF Finish, Release, ServerRuns
<1>6. CASE Exit(p)
  BY <1>6, LockingAfter DEF Exit, Vanish
<1> QED
  BY <1>1, <1>2, <1>3, <1>4, <1>5, <1>6 DEF Runtime, OwnRuntime

\* The server that begins to prepare its socket has found that its daemon is not
\* stopping, so the runtime has not ended.
LEMMA ServerKeepsLocking ==
  ASSUME IInv, NEW p \in Process, Server(p) \/ Hear(p)
  PROVE  Locking'
<1>1. UNCHANGED <<lock, runtime, usage>>
  BY DEF Server, OwnServer, CheckState, Subscribe, Look, Connect, Remove, Bind, Loop, HearStopping,
         Hear, HandleConnection, Inspect, Unlink, CloseServer, KeepRest
<1>2. /\ server[p] # "finished"
      /\ \A q \in Process \ {p} : server'[q] = server[q]
      /\ server'[p] \in Preparing => server[p] \in Preparing \/ (server[p] = "check" /\ ~stopping[p])
  BY DEF IInv, TypeOK, Set, Server, OwnServer, CheckState, Subscribe, Look, Connect, Remove, Bind, Loop,
         HearStopping, Hear, HandleConnection, Inspect, Unlink, CloseServer, ServerGoes,
         ServerFails, Preparing
<1>3. server'[p] \in Preparing => runtime[p] \in Active
  BY <1>2 DEF IInv, TasksInside, LastStatusIsFinal
<1> QED
  BY <1>1, <1>2, <1>3, LockingAfter DEF IInv, TasksInside, LockHeld, OthersStay

LEMMA UsageKeepsLocking ==
  ASSUME IInv, NEW p \in Process, Usage(p)
  PROVE  Locking'
<1>1. UNCHANGED <<lock, runtime, server>>
  BY DEF Usage, OwnUsage, BeginCycle, Poll, Lookup, Deliver, Record, EndNotifications, RecordCycle, KeepTasks
<1>2. /\ usage[p] # "finished"
      /\ \A q \in Process \ {p} : usage'[q] = usage[q]
  BY DEF IInv, TypeOK, Set, Usage, OwnUsage, BeginCycle, Poll, Lookup, Deliver, Record, EndNotifications,
         RecordCycle, UsageGoes, Settled
<1> QED
  BY <1>1, <1>2, LockingAfter DEF IInv, TasksInside, LockHeld, OthersStay

LEMMA OthersKeepLocking ==
  ASSUME IInv,
         (\E p \in Process : CtrlC(p) \/ Kill(p)) \/ \E k \in Key : Damage(k)
  PROVE  Locking'
<1>1. ASSUME UNCHANGED <<lock, runtime, server, usage>> PROVE Locking'
  BY <1>1 DEF IInv, Locking, TasksInside, LockHeld
<1>2. ASSUME NEW p \in Process, Kill(p) PROVE Locking'
  BY <1>2, LockingAfter
  DEF Kill, Vanish, Release, IInv, TypeOK, Set, OthersStay, Active, Preparing
<1> QED
  BY <1>1, <1>2 DEF CtrlC, Damage

LEMMA LockingKept == IInv /\ [Next]_vars => Locking'
<1> SUFFICES ASSUME IInv, [Next]_vars PROVE Locking'
  OBVIOUS
<1>1. CASE UNCHANGED vars
  BY <1>1 DEF IInv, Locking, TasksInside, LockHeld, vars
<1>2. CASE Next
  BY <1>2, RuntimeKeepsLocking, ServerKeepsLocking, UsageKeepsLocking, OthersKeepLocking DEF Next
<1> QED
  BY <1>1, <1>2

-----------------------------------------------------------------------------
(* The socket *)

\* Two processes never prepare the path at the same time.
LEMMA OnePrepares ==
  ASSUME IInv, NEW p \in Process, NEW q \in Process,
         server[p] \in Preparing, server[q] \in Preparing
  PROVE  p = q
BY DEF IInv, TasksInside, LockHeld

\* A process whose socket the path names is not about to remove it for itself.
LEMMA ServerKeepsSocket ==
  ASSUME IInv, NEW p \in Process, Server(p) \/ Hear(p)
  PROVE  SocketHeld'
<1> USE DEF IInv, TypeOK, Set, SocketHeld, ServerGoes, ServerFails
<1>1. CASE CheckState(p) \/ Subscribe(p) \/ Look(p) \/ Loop(p) \/ HearStopping(p) \/ Hear(p)
           \/ HandleConnection(p)
  BY <1>1 DEF CheckState, Subscribe, Look, Loop, HearStopping, Hear, HandleConnection, Owning
<1>2. CASE Connect(p)
  BY <1>2 DEF Connect, Owning
<1>3. CASE Remove(p)
  <2>1. socket \notin Process /\ socket' = Nothing
    BY <1>3 DEF Remove
  <2>2. server'[p] \in {"finished", "bind"} /\ \A q \in Process \ {p} : server'[q] = server[q]
    BY <1>3 DEF Remove
  <2> QED
    BY <2>1, <2>2, NothingAssumption DEF Owning
<1>4. CASE Bind(p)
  <2>1. \A q \in Process \ {p} : server'[q] = server[q] /\ server[q] # "remove"
    BY <1>4, OnePrepares DEF Bind, Preparing
  <2>2. CASE socket # Nothing
    BY <1>4, <2>1, <2>2 DEF Bind, Owning
  <2>3. CASE socket = Nothing
    <3>1. \A q \in Process : server[q] \notin Owning
      BY <2>3, NothingAssumption
    <3>2. \/ server'[p] = "loop" /\ socket' = p
          \/ server'[p] = "finished"
      BY <1>4, <2>3 DEF Bind
    <3> QED
      BY <2>1, <3>1, <3>2 DEF Owning
  <2> QED
    BY <2>2, <2>3
<1>5. CASE Inspect(p)
  BY <1>5 DEF Inspect, Owning
<1>6. CASE Unlink(p) \/ CloseServer(p)
  <2>1. \/ socket' = socket
        \/ socket = p /\ socket' \in {Nothing, "stale"}
    BY <1>6 DEF Unlink, CloseServer, CloseListener, Owning
  <2>2. /\ server'[p] \in {"close", "finished"}
        /\ \A q \in Process \ {p} : server'[q] = server[q]
    BY <1>6 DEF Unlink, CloseServer
  <2> QED
    BY <2>1, <2>2, NothingAssumption DEF Owning
<1> QED
  BY <1>1, <1>2, <1>3, <1>4, <1>5, <1>6 DEF Server, OwnServer

LEMMA SocketKept == IInv /\ [Next]_vars => SocketHeld'
<1> SUFFICES ASSUME IInv, [Next]_vars PROVE SocketHeld'
  OBVIOUS
<1>1. ASSUME UNCHANGED <<server, socket>> PROVE SocketHeld'
  BY <1>1 DEF IInv, SocketHeld
<1>2. ASSUME NEW p \in Process, Resolve(p) PROVE SocketHeld'
  <2>1. /\ socket' = socket
        /\ server'[p] \in {"check", "finished", server[p]}
        /\ \A q \in Process \ {p} : server'[q] = server[q]
    BY <1>2 DEF Resolve, IInv, TypeOK, Set
  <2> QED
    BY <2>1 DEF IInv, SocketHeld, Owning
<1>3. ASSUME NEW p \in Process, Exit(p) \/ Kill(p) PROVE SocketHeld'
  <2>1. /\ socket' = socket \/ (socket = p /\ socket' = "stale")
        /\ server'[p] = "finished"
        /\ \A q \in Process \ {p} : server'[q] = server[q]
    BY <1>3 DEF Exit, Kill, Vanish, CloseListener, IInv, TypeOK, Set
  <2> QED
    BY <2>1, NothingAssumption DEF IInv, SocketHeld, Owning
<1>4. ASSUME NEW p \in Process, Launch(p) \/ Runtime(p) \/ Wake(p) PROVE SocketHeld'
  BY <1>1, <1>2, <1>3, <1>4
  DEF Launch, Runtime, OwnRuntime, Wake, AcquireLock, Scan, StopScheduler, Finish
<1>5. ASSUME NEW p \in Process, Usage(p) PROVE SocketHeld'
  BY <1>1, <1>5 DEF Usage, OwnUsage, BeginCycle, Poll, Lookup, Deliver, Record, EndNotifications,
                   RecordCycle, KeepTasks
<1>6. ASSUME NEW p \in Process, CtrlC(p) PROVE SocketHeld'
  BY <1>1, <1>6 DEF CtrlC
<1>7. ASSUME NEW k \in Key, Damage(k) PROVE SocketHeld'
  BY <1>1, <1>7 DEF Damage
<1>8. CASE UNCHANGED vars
  BY <1>1, <1>8 DEF vars
<1> QED
  BY <1>3, <1>4, <1>5, <1>6, <1>7, <1>8, ServerKeepsSocket DEF Next

-----------------------------------------------------------------------------
(* The alerts *)

\* The usage tasks of two processes never run at the same time.
LEMMA OnePolls ==
  ASSUME IInv, NEW p \in Process, NEW q \in Process,
         usage[p] # "finished", usage[q] # "finished"
  PROVE  p = q
BY DEF IInv, TasksInside, LockHeld

\* A key that is found new has not been told: nobody else is writing its receipt.
LEMMA NewIsUntold ==
  ASSUME IInv, NEW p \in Process, usage[p] = "notify", NEW k \in Key, NotDelivered(k)
  PROVE  k \notin told
<1>1. receipt[k] = "none"
  BY DEF IInv, TypeOK, NotDelivered, Delivered
<1>2. \A q \in Process : usage[q] # "record"
  BY OnePolls
<1> QED
  BY <1>1, <1>2 DEF IInv, AlertsNew

LEMMA UsageKeepsAlerts ==
  ASSUME IInv, NEW p \in Process, Usage(p)
  PROVE  AlertsNew'
<1> USE DEF IInv, TypeOK, Set, AlertsNew, UsageGoes
<1>0. /\ \A q \in Process \ {p} : usage[q] = "finished" /\ usage'[q] = "finished"
  BY OnePolls DEF Usage, OwnUsage, BeginCycle, Poll, Lookup, Deliver, Record, EndNotifications, RecordCycle,
         Settled
<1>1. CASE BeginCycle(p) \/ Poll(p) \/ EndNotifications(p) \/ RecordCycle(p)
  <2>1. UNCHANGED <<alert, receipt, told, repeated>>
    BY <1>1 DEF BeginCycle, Poll, EndNotifications, RecordCycle, alerts
  <2>2. usage[p] \notin {"deliver", "record"} /\ usage'[p] \notin {"deliver", "record"}
    BY <1>1 DEF BeginCycle, Poll, EndNotifications, RecordCycle
  <2> QED
    BY <1>0, <2>1, <2>2
<1>2. CASE Lookup(p)
  <2>1. UNCHANGED <<receipt, told, repeated>> /\ usage[p] = "notify"
    BY <1>2 DEF Lookup
  <2>2. \A k \in told : receipt[k] # "none"
    BY <1>0, <2>1
  <2>3. usage'[p] = "deliver" => alert'[p] \notin told
    BY <1>2, NewIsUntold DEF Lookup
  <2> QED
    BY <1>0, <2>1, <2>2, <2>3
<1>3. CASE Deliver(p)
  <2>0. usage[p] = "deliver" /\ alert[p] \notin told /\ receipt' = receipt
    BY <1>3 DEF Deliver
  <2>1. \A k \in told : receipt[k] # "none"
    BY <1>0, <2>0
  <2>2. CASE UsageGoes(p, "record")
    <3>1. usage'[p] = "record" /\ alert' = alert /\ told' = told \cup {alert[p]} /\ repeated' = {}
      BY <1>3, <2>0, <2>2 DEF Deliver, Settled
    <3> QED
      BY <1>0, <2>0, <2>1, <3>1
  <2>3. CASE Settled(p) /\ UNCHANGED <<told, repeated>>
    <3>1. usage'[p] = "notify"
      BY <2>3 DEF Settled
    <3> QED
      BY <1>0, <2>0, <2>1, <2>3, <3>1
  <2> QED
    BY <1>3, <2>2, <2>3 DEF Deliver
<1>4. CASE Record(p)
  <2>0. usage[p] = "record" /\ usage'[p] = "notify" /\ repeated' = {} /\ alert[p] \in Key
    BY <1>4 DEF Record, Settled
  <2>1. \A k \in told : receipt[k] = "none" => k = alert[p]
    BY <1>0
  <2>2. \/ /\ receipt'[alert[p]] = "whole" /\ told' = told
           /\ \A k \in Key \ {alert[p]} : receipt'[k] = receipt[k]
        \/ told' = told \ {alert[p]} /\ receipt' = receipt
    BY <1>4, <2>0 DEF Record
  <2> QED
    BY <1>0, <2>0, <2>1, <2>2
<1> QED
  BY <1>1, <1>2, <1>3, <1>4 DEF Usage, OwnUsage

\* A process that ends or begins: no usage task of it delivers.
LEMMA VanishKeepsAlerts ==
  ASSUME IInv, NEW p \in Process, usage'[p] \in {"check", "finished", usage[p]},
         usage'[p] \in {"deliver", "record"} => alert'[p] = alert[p],
         \A q \in Process \ {p} : usage'[q] = usage[q] /\ alert'[q] = alert[q],
         UNCHANGED <<receipt, repeated>>,
         told' = IF usage[p] = "record" /\ usage'[p] # "record" THEN told \ {alert[p]} ELSE told
  PROVE  AlertsNew'
<1>1. told' \subseteq told
  OBVIOUS
<1>2. \A q \in Process : usage'[q] = "deliver" => alert'[q] \notin told'
  BY <1>1 DEF IInv, AlertsNew
<1>3. ASSUME NEW k \in told', receipt'[k] = "none"
      PROVE  \E q \in Process : usage'[q] = "record" /\ alert'[q] = k
  <2>1. PICK q \in Process : usage[q] = "record" /\ alert[q] = k
    BY <1>1, <1>3 DEF IInv, AlertsNew
  <2>2. usage'[q] = "record" /\ alert'[q] = k
    BY <1>3, <2>1
  <2> QED
    BY <2>2
<1> QED
  BY <1>2, <1>3 DEF IInv, AlertsNew

LEMMA AlertsKept == IInv /\ [Next]_vars => AlertsNew'
<1> SUFFICES ASSUME IInv, [Next]_vars PROVE AlertsNew'
  OBVIOUS
<1>1. ASSUME UNCHANGED <<usage, alerts>> PROVE AlertsNew'
  BY <1>1 DEF IInv, AlertsNew, alerts
<1>2. ASSUME NEW p \in Process, Resolve(p) PROVE AlertsNew'
  BY <1>2, VanishKeepsAlerts DEF Resolve, IInv, TypeOK, Set, TasksInside, Active, alerts
<1>3. ASSUME NEW p \in Process, Exit(p) PROVE AlertsNew'
  BY <1>3, VanishKeepsAlerts DEF Exit, Vanish, IInv, TypeOK, Set, TasksInside, Active
<1>4. ASSUME NEW p \in Process, Kill(p) PROVE AlertsNew'
  BY <1>4, VanishKeepsAlerts DEF Kill, Vanish, IInv, TypeOK, Set
<1>5. ASSUME NEW p \in Process, Launch(p) \/ Runtime(p) \/ Wake(p) PROVE AlertsNew'
  BY <1>1, <1>2, <1>3, <1>5
  DEF Launch, Runtime, OwnRuntime, Wake, AcquireLock, Scan, StopScheduler, Finish
<1>6. ASSUME NEW p \in Process, Server(p) \/ Hear(p) PROVE AlertsNew'
  BY <1>1, <1>6
  DEF Server, OwnServer, CheckState, Subscribe, Look, Connect, Remove, Bind, Loop, HearStopping,
      Hear, HandleConnection, Inspect, Unlink, CloseServer, KeepRest
<1>7. ASSUME NEW p \in Process, CtrlC(p) PROVE AlertsNew'
  BY <1>1, <1>7 DEF CtrlC
<1>8. ASSUME NEW k \in Key, Damage(k) PROVE AlertsNew'
  BY <1>8 DEF Damage, IInv, TypeOK, AlertsNew, Set
<1>9. CASE UNCHANGED vars
  BY <1>1, <1>9 DEF vars
<1> QED
  BY <1>4, <1>5, <1>6, <1>7, <1>8, <1>9, UsageKeepsAlerts DEF Next

-----------------------------------------------------------------------------
(* The status *)

\* Only Resolve, scans and usage cycles set a next check, and none of them runs
\* in a process whose runtime has ended.
LEMMA StatusKept == IInv /\ [Next]_vars => LastStatusIsFinal'
<1> SUFFICES ASSUME IInv, [Next]_vars PROVE LastStatusIsFinal'
  OBVIOUS
<1> USE DEF IInv, TypeOK, Set, LastStatusIsFinal
<1>1. ASSUME UNCHANGED <<runtime, stopping, next>> PROVE LastStatusIsFinal'
  BY <1>1
<1>2. ASSUME NEW p \in Process, Launch(p) \/ AcquireLock(p) \/ Wake(p) \/ StopScheduler(p)
      PROVE  LastStatusIsFinal'
  BY <1>2 DEF Launch, AcquireLock, Wake, StopScheduler, Join, status
<1>3. ASSUME NEW p \in Process, Resolve(p) \/ Scan(p) PROVE LastStatusIsFinal'
  <2>1. /\ runtime'[p] # "ended" /\ stopping' = stopping
        /\ \A q \in Process \ {p} : runtime'[q] = runtime[q] /\ next'[q] = next[q]
    BY <1>3 DEF Resolve, Scan, Join
  <2> QED
    BY <2>1
<1>4. ASSUME NEW p \in Process, UNCHANGED runtime \/ runtime' = Set(runtime, p, "ended"), Shutdown(p)
      PROVE  LastStatusIsFinal'
  BY <1>4 DEF Shutdown
<1>5. ASSUME NEW p \in Process, Vanish(p) PROVE LastStatusIsFinal'
  <2>1. /\ runtime'[p] = "off"
        /\ \A q \in Process \ {p} :
             runtime'[q] = runtime[q] /\ next'[q] = next[q] /\ stopping'[q] = stopping[q]
    BY <1>5 DEF Vanish
  <2> QED
    BY <2>1
<1>6. ASSUME NEW p \in Process, Launch(p) \/ Runtime(p) \/ Wake(p) PROVE LastStatusIsFinal'
  BY <1>2, <1>3, <1>4, <1>5, <1>6 DEF Runtime, OwnRuntime, Finish, Exit
<1>7. ASSUME NEW p \in Process, Server(p) \/ Hear(p) PROVE LastStatusIsFinal'
  <2>1. UNCHANGED runtime /\ (UNCHANGED status \/ Shutdown(p))
    BY <1>7
    DEF Server, OwnServer, CheckState, Subscribe, Look, Connect, Remove, Bind, Loop, HearStopping, Hear,
        HandleConnection, Inspect, Unlink, CloseServer, KeepRest, ServerFails
  <2> QED
    BY <1>1, <1>4, <2>1 DEF status
<1>8. ASSUME NEW p \in Process, Usage(p) PROVE LastStatusIsFinal'
  <2>1. UNCHANGED <<runtime, stopping>> /\ runtime[p] # "ended"
    BY <1>8 DEF Usage, OwnUsage, BeginCycle, Poll, Lookup, Deliver, Record, EndNotifications, RecordCycle,
                KeepTasks, TasksInside, Active, status
  <2>2. \A q \in Process \ {p} : next'[q] = next[q]
    BY <1>8 DEF Usage, OwnUsage, BeginCycle, Poll, Lookup, Deliver, Record, EndNotifications, RecordCycle,
                status
  <2> QED
    BY <2>1, <2>2
<1>9. ASSUME NEW p \in Process, CtrlC(p) \/ Kill(p) PROVE LastStatusIsFinal'
  BY <1>4, <1>5, <1>9 DEF CtrlC, Kill
<1>10. ASSUME NEW k \in Key, Damage(k) PROVE LastStatusIsFinal'
  BY <1>1, <1>10 DEF Damage, status
<1>11. CASE UNCHANGED vars
  BY <1>1, <1>11 DEF vars, status
<1> QED
  BY <1>6, <1>7, <1>8, <1>9, <1>10, <1>11 DEF Next

-----------------------------------------------------------------------------
(* The theorems *)

LEMMA Invariance == Spec => []IInv
<1>1. IInv /\ [Next]_vars => IInv'
  BY TypesKept, LockingKept, SocketKept, AlertsKept, StatusKept DEF IInv, Locking
<1> QED
  BY <1>1, InitIInv, PTL DEF Spec

\* Every variable of the daemon keeps its type, and an alert that is being
\* delivered or recorded is one of its cycle's candidates.
THEOREM TypeCorrect == Spec => []TypeOK
BY Invariance, PTL DEF IInv

\* The instance lock covers the usage task of a runtime that ends.
THEOREM WorkIsUnderLock == Spec => []WorkUnderLock
<1>1. IInv => WorkUnderLock
  BY DEF IInv, TasksInside, LockHeld, WorkUnderLock, Active
<1> QED
  BY <1>1, Invariance, PTL

\* Receipts that are looked up before and written after a delivery are enough.
THEOREM AlertsAreDeliveredOnce == Spec => []NeverDeliveredTwice
<1>1. IInv => NeverDeliveredTwice
  BY DEF IInv, AlertsNew, NeverDeliveredTwice
<1> QED
  BY <1>1, Invariance, PTL

\* Neither a start nor a cleanup takes the socket of a server away.
THEOREM ServersAreReachable == Spec => []ServerIsReachable
<1>1. IInv => ServerIsReachable
  BY DEF IInv, SocketHeld, ServerIsReachable, Owning
<1> QED
  BY <1>1, Invariance, PTL

\* No check is promised by a daemon that has ended.
THEOREM LastStatusesAreFinal == Spec => []LastStatusIsFinal
<1>1. IInv => LastStatusIsFinal
  BY DEF IInv
<1> QED
  BY <1>1, Invariance, PTL

=============================================================================
