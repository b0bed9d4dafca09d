------------------------------- MODULE Daemon -------------------------------
(***************************************************************************)
(* The foreground daemon: `gh-housekeeperd --foreground` and `monitor      *)
(* watch`.  Processes of one user are started, shut down and killed; they  *)
(* share the instance lock, the control socket's path and the receipts of  *)
(* the quota alerts that have been delivered.                              *)
(*                                                                         *)
(* In a process three tasks run at the same time: the main task, which     *)
(* polls the runtime (lock, scheduler, shutdown) and the local IPC server  *)
(* in turn, so that neither moves while the other is between two awaits;   *)
(* the account-usage task; and the task that waits for Ctrl-C.             *)
(*                                                                         *)
(* Left out: what a scan finds and what its events say, protocol frames,   *)
(* and power losses, which RecordStore looks at.                           *)
(***************************************************************************)
CONSTANTS
  Process,  \* processes of one user
  Key,      \* UsageQuotaAlertKey: owner, resource, period and threshold
  Nothing   \* no process, no key, no socket

ASSUME NothingAssumption ==
  /\ Nothing \notin Process /\ Nothing \notin Key
  /\ "stale" \notin Process /\ Nothing # "stale"

VARIABLES
  lock,       \* the holder of daemon/instance.lock
  socket,     \* what the socket path names: a process's listener, a dead one, nothing
  runtime,    \* where run_foreground_daemon_with_control is
  server,     \* where run_local_daemon_server is
  usage,      \* where run_account_usage_polling_loop is
  stopping,   \* DaemonStatus.state is Stopping
  next,       \* the next_*_at of DaemonStatus that are Some
  cancelled,  \* the cancellation has been sent
  armed,      \* the signal task waits for Ctrl-C
  announced,  \* the server's subscription holds the event that says Stopping
  due,        \* candidates of the cycle that are still to be notified
  alert,      \* the one that is being notified
  receipt,    \* the receipt of each key
  told,       \* keys delivered, but for those whose receipt was lost with a crash or an error
  repeated    \* keys of told that were delivered again

status == <<stopping, next, cancelled, announced>>
alerts == <<due, alert, receipt, told, repeated>>
vars == <<lock, socket, runtime, server, usage, status, armed, alerts>>

-----------------------------------------------------------------------------
(* Types *)

RuntimePlace == {"off", "lock", "resolve", "scan", "sleep", "join", "ended"}

\* The server's places, the listener being open at those of Listening.
Listening == {"loop", "wait", "connected", "inspect", "unlink", "close"}
ServerPlace == {"check", "subscribe", "look", "connect", "remove", "bind", "finished"}
                 \cup Listening

UsagePlace == {"check", "poll", "notify", "deliver", "record", "status", "sleep", "finished"}

TypeOK ==
  /\ lock \in Process \cup {Nothing}
  /\ socket \in Process \cup {"stale", Nothing}
  /\ runtime \in [Process -> RuntimePlace]
  /\ server \in [Process -> ServerPlace]
  /\ usage \in [Process -> UsagePlace]
  /\ stopping \in [Process -> BOOLEAN]
  /\ next \in [Process -> SUBSET {"monitoring", "usage"}]
  /\ cancelled \in [Process -> BOOLEAN]
  /\ armed \in [Process -> BOOLEAN]
  /\ announced \in [Process -> BOOLEAN]
  /\ due \in [Process -> SUBSET Key]
  /\ alert \in [Process -> Key \cup {Nothing}]
  /\ \A p \in Process : usage[p] \in {"deliver", "record"} => alert[p] \in due[p]
  /\ receipt \in [Key -> {"none", "whole", "damaged"}]
  /\ told \in SUBSET Key
  /\ repeated \in SUBSET Key

Init ==
  /\ lock = Nothing
  /\ socket \in {"stale", Nothing}
  /\ runtime = [p \in Process |-> "off"]
  /\ server = [p \in Process |-> "finished"]
  /\ usage = [p \in Process |-> "finished"]
  /\ stopping = [p \in Process |-> FALSE]
  /\ next = [p \in Process |-> {}]
  /\ cancelled = [p \in Process |-> FALSE]
  /\ armed = [p \in Process |-> FALSE]
  /\ announced = [p \in Process |-> FALSE]
  /\ due = [p \in Process |-> {}]
  /\ alert = [p \in Process |-> Nothing]
  /\ receipt = [k \in Key |-> "none"]
  /\ told = {}
  /\ repeated = {}

-----------------------------------------------------------------------------
(* Helpers *)

Set(f, p, value) == [f EXCEPT ![p] = value]

Release(p) == lock' = IF lock = p THEN Nothing ELSE lock

\* The listener closes; the file stays behind unless it has been removed.
CloseListener(p) == socket' = IF socket = p THEN "stale" ELSE socket

\* The process is gone, and what it had with it.
Vanish(p) ==
  /\ runtime' = Set(runtime, p, "off")
  /\ server' = Set(server, p, "finished")
  /\ usage' = Set(usage, p, "finished")
  /\ stopping' = Set(stopping, p, FALSE)
  /\ next' = Set(next, p, {})
  /\ cancelled' = Set(cancelled, p, FALSE)
  /\ announced' = Set(announced, p, FALSE)
  /\ armed' = Set(armed, p, FALSE)
  /\ due' = Set(due, p, {})
  /\ alert' = Set(alert, p, Nothing)
  /\ UNCHANGED <<receipt, repeated>>

\* Where the server listens for events; what it hears of an earlier one is nothing.
Subscribed(p) == server[p] \notin {"check", "subscribe", "finished"}

\* A status is published, which the server hears if it says Stopping.
Publish(p) == announced' = Set(announced, p, announced[p] \/ (stopping[p] /\ Subscribed(p)))

\* DaemonControlHandle::shutdown, which publishes a status only the first time.
Shutdown(p) ==
  /\ stopping' = Set(stopping, p, TRUE)
  /\ next' = Set(next, p, {})
  /\ cancelled' = Set(cancelled, p, TRUE)
  /\ announced' = Set(announced, p, announced[p] \/ (~stopping[p] /\ Subscribed(p)))

\* The server is between two awaits, and the main task with it.
ServerRuns(p) ==
  server[p] \in {"subscribe", "look", "connect", "remove", "bind", "inspect", "unlink", "close"}

-----------------------------------------------------------------------------
(* The runtime *)

Launch(p) ==
  /\ runtime[p] = "off"
  /\ runtime' = Set(runtime, p, "lock")
  /\ UNCHANGED <<lock, socket, server, usage, status, armed, alerts>>

\* DaemonInstanceLock::acquire: a lock that is held ends the process at once.
AcquireLock(p) ==
  /\ runtime[p] = "lock"
  /\ \/ /\ lock = Nothing
        /\ lock' = p
        /\ runtime' = Set(runtime, p, "resolve")
     \/ UNCHANGED lock /\ runtime' = Set(runtime, p, "off")
  /\ UNCHANGED <<socket, server, usage, status, armed, alerts>>

\* Configuration, account and baseline; then status, signal and usage tasks.
\* Without allowances there is no usage task, in `monitor watch` no server.
Resolve(p) ==
  /\ runtime[p] = "resolve"
  /\ \/ /\ runtime' = Set(runtime, p, "scan")
        /\ \E allowances \in BOOLEAN :
             /\ usage' = Set(usage, p, IF allowances THEN "check" ELSE "finished")
             /\ next' = Set(next, p, {"monitoring"} \cup IF allowances THEN {"usage"} ELSE {})
        /\ \E place \in {"check", "finished"} : server' = Set(server, p, place)
        /\ armed' = Set(armed, p, TRUE)
        /\ UNCHANGED lock
     \/ /\ runtime' = Set(runtime, p, "off")
        /\ Release(p)
        /\ UNCHANGED <<usage, next, server, armed>>
  /\ UNCHANGED <<socket, stopping, cancelled, announced, alerts>>

\* The scheduler is done: the usage task is told, the signal task aborted.
Join(p) ==
  /\ runtime' = Set(runtime, p, "join")
  /\ cancelled' = Set(cancelled, p, TRUE)
  /\ armed' = Set(armed, p, FALSE)

\* A scan ends, well or not, and its event sets the next one; the scheduler
\* sleeps, or has reached its attempt limit.
Scan(p) ==
  /\ runtime[p] = "scan" /\ ~ServerRuns(p)
  /\ next' = Set(next, p, next[p] \cup {"monitoring"})
  /\ \/ runtime' = Set(runtime, p, "sleep") /\ UNCHANGED <<cancelled, armed>>
     \/ Join(p)
  /\ Publish(p)
  /\ UNCHANGED <<lock, socket, server, usage, stopping, alerts>>

Wake(p) ==
  /\ runtime[p] = "sleep" /\ ~ServerRuns(p) /\ ~cancelled[p]
  /\ runtime' = Set(runtime, p, "scan")
  /\ UNCHANGED <<lock, socket, server, usage, status, armed, alerts>>

\* The scheduler's select hears the cancellation.
StopScheduler(p) ==
  /\ runtime[p] \in {"scan", "sleep"} /\ ~ServerRuns(p) /\ cancelled[p]
  /\ Join(p)
  /\ UNCHANGED <<lock, socket, server, usage, stopping, next, announced, alerts>>

\* Mutation of Finish: the runtime does not wait for the usage task.
FinishUnjoined(p) ==
  /\ runtime[p] = "join" /\ ~ServerRuns(p)
  /\ Shutdown(p)
  /\ runtime' = Set(runtime, p, "ended")
  /\ Release(p)
  /\ UNCHANGED <<socket, server, usage, armed, alerts>>

\* Mutation of Finish: a shutdown that was asked for already is not repeated.
FinishOnce(p) ==
  /\ runtime[p] = "join" /\ ~ServerRuns(p)
  /\ usage[p] = "finished"
  /\ IF stopping[p] THEN UNCHANGED status ELSE Shutdown(p)
  /\ runtime' = Set(runtime, p, "ended")
  /\ Release(p)
  /\ UNCHANGED <<socket, server, usage, armed, alerts>>

\* The usage task is awaited; the instance lock is dropped with the runtime.
Finish(p) ==
  /\ runtime[p] = "join" /\ ~ServerRuns(p)
  /\ usage[p] = "finished"
  /\ Shutdown(p)
  /\ runtime' = Set(runtime, p, "ended")
  /\ Release(p)
  /\ UNCHANGED <<socket, server, usage, armed, alerts>>

\* run_foreground_daemon_with_local_ipc returns after both its parts, or after
\* the runtime when it ends before the server has begun.
Exit(p) ==
  /\ runtime[p] = "ended" /\ server[p] \in {"check", "finished"}
  /\ Vanish(p)
  /\ UNCHANGED <<lock, socket, told>>

-----------------------------------------------------------------------------
(* The local IPC server *)

\* The server's next place, and what a step of it leaves alone.
ServerGoes(p, place) == server' = Set(server, p, place)
KeepRest == UNCHANGED <<lock, runtime, usage, armed, alerts>>

\* An error of the server shuts the daemon down.
ServerFails(p) == ServerGoes(p, "finished") /\ Shutdown(p)

CheckState(p) ==
  /\ server[p] = "check"
  /\ ServerGoes(p, IF stopping[p] THEN "finished" ELSE "subscribe")
  /\ UNCHANGED <<socket, status>>
  /\ KeepRest

Subscribe(p) ==
  /\ server[p] = "subscribe"
  /\ ServerGoes(p, "look")
  /\ UNCHANGED <<socket, status>>
  /\ KeepRest

\* prepare_socket_path: is there a socket, does it accept connections, away with it.
Look(p) ==
  /\ server[p] = "look"
  /\ ServerGoes(p, IF socket = Nothing THEN "bind" ELSE "connect")
  /\ UNCHANGED <<socket, status>>
  /\ KeepRest

Connect(p) ==
  /\ server[p] = "connect"
  /\ IF socket \in Process
     THEN ServerFails(p)
     ELSE ServerGoes(p, "remove") /\ UNCHANGED status
  /\ UNCHANGED socket
  /\ KeepRest

Remove(p) ==
  /\ server[p] = "remove"
  /\ IF socket = Nothing
     THEN ServerFails(p)
     ELSE ServerGoes(p, "bind") /\ UNCHANGED status
  /\ socket' = Nothing
  /\ KeepRest

\* bind refuses a path that exists.  Without the right permissions the listener
\* is closed again, and its file left.
Bind(p) ==
  /\ server[p] = "bind"
  /\ \/ socket = Nothing /\ socket' = p /\ ServerGoes(p, "loop") /\ UNCHANGED status
     \/ socket = Nothing /\ socket' = "stale" /\ ServerFails(p)
     \/ socket # Nothing /\ UNCHANGED socket /\ ServerFails(p)
  /\ KeepRest

\* Mutation of Loop: only the event ends the loop.
LoopUnchecked(p) ==
  /\ server[p] = "loop"
  /\ ServerGoes(p, "wait")
  /\ UNCHANGED <<socket, status>>
  /\ KeepRest

Loop(p) ==
  /\ server[p] = "loop"
  /\ ServerGoes(p, IF stopping[p] THEN "inspect" ELSE "wait")
  /\ UNCHANGED <<socket, status>>
  /\ KeepRest

\* The event that says Stopping.
HearStopping(p) ==
  /\ server[p] = "wait" /\ announced[p]
  /\ ServerGoes(p, "inspect")
  /\ UNCHANGED <<socket, status>>
  /\ KeepRest

\* A client connects, another event comes, or accept fails.
Hear(p) ==
  /\ server[p] = "wait"
  /\ \E place \in {"connected", "loop", "inspect"} : ServerGoes(p, place)
  /\ UNCHANGED <<socket, status>>
  /\ KeepRest

\* handle_connection: a shutdown request, or any other, a bad frame, a hang-up.
HandleConnection(p) ==
  /\ server[p] = "connected"
  /\ ServerGoes(p, "loop")
  /\ Shutdown(p) \/ UNCHANGED status
  /\ UNCHANGED socket
  /\ KeepRest

\* Mutation of Inspect: the listener is dropped before its SocketCleanup.
InspectClosed(p) ==
  /\ server[p] = "inspect"
  /\ ServerGoes(p, IF socket = Nothing THEN "close" ELSE "unlink")
  /\ CloseListener(p)
  /\ UNCHANGED status
  /\ KeepRest

\* SocketCleanup: whatever socket the path names is removed.
Inspect(p) ==
  /\ server[p] = "inspect"
  /\ ServerGoes(p, IF socket = Nothing THEN "close" ELSE "unlink")
  /\ UNCHANGED <<socket, status>>
  /\ KeepRest

Unlink(p) ==
  /\ server[p] = "unlink"
  /\ socket' = Nothing
  /\ ServerGoes(p, "close")
  /\ UNCHANGED status
  /\ KeepRest

\* The listener is dropped after the cleanup.  A server that was not told to
\* stop comes here by an error of accept, one that was may do so.
CloseServer(p) ==
  /\ server[p] = "close"
  /\ CloseListener(p)
  /\ \/ stopping[p] /\ ServerGoes(p, "finished") /\ UNCHANGED status
     \/ ServerFails(p)
  /\ KeepRest

-----------------------------------------------------------------------------
(* The account-usage task *)

UsageGoes(p, place) == usage' = Set(usage, p, place)
KeepTasks == UNCHANGED <<lock, socket, runtime, server, armed>>

\* The candidate is dealt with, however it went.
Settled(p) ==
  /\ due' = Set(due, p, due[p] \ {alert[p]})
  /\ alert' = Set(alert, p, Nothing)
  /\ UsageGoes(p, "notify")

\* The top of the loop, also after a sleep.
BeginCycle(p) ==
  /\ usage[p] \in {"check", "sleep"}
  /\ UsageGoes(p, IF cancelled[p] THEN "finished" ELSE "poll")
  /\ UNCHANGED <<status, alerts>>
  /\ KeepTasks

\* The billing call and the sample; without a persisted sample nobody is notified.
Poll(p) ==
  /\ usage[p] = "poll"
  /\ due' \in {Set(due, p, candidates) : candidates \in SUBSET Key}
  /\ UsageGoes(p, "notify")
  /\ UNCHANGED <<status, alert, receipt, told, repeated>>
  /\ KeepTasks

\* UsageQuotaAlertStore::lookup: a key without a receipt is only new when all
\* receipts can be read.
Delivered(k) == receipt[k] = "whole"

\* Mutation of NotDelivered: a receipt that cannot be read is skipped.
NotSeen(k) == ~Delivered(k)

NotDelivered(k) == ~Delivered(k) /\ \A other \in Key : receipt[other] # "damaged"

\* delivery_lookup of a candidate: new, or suppressed (also when indeterminate).
Lookup(p) ==
  /\ usage[p] = "notify"
  /\ \E k \in due[p] :
       IF NotDelivered(k)
       THEN UsageGoes(p, "deliver") /\ alert' = Set(alert, p, k) /\ UNCHANGED due
       ELSE due' = Set(due, p, due[p] \ {k}) /\ UNCHANGED <<usage, alert>>
  /\ UNCHANGED <<status, receipt, told, repeated>>
  /\ KeepTasks

Deliver(p) ==
  /\ usage[p] = "deliver"
  /\ \/ /\ UsageGoes(p, "record")
        /\ told' = told \cup {alert[p]}
        /\ repeated' = repeated \cup ({alert[p]} \cap told)
        /\ UNCHANGED <<due, alert>>
     \/ Settled(p) /\ UNCHANGED <<told, repeated>>
  /\ UNCHANGED <<status, receipt>>
  /\ KeepTasks

\* record_delivery_if_new looks the key up again and appends its receipt.  An
\* indeterminate history or an I/O error loses the receipt, and is reported.
Record(p) ==
  /\ usage[p] = "record"
  /\ \/ /\ Delivered(alert[p]) \/ NotDelivered(alert[p])
        /\ receipt' = Set(receipt, alert[p], "whole")
        /\ UNCHANGED told
     \/ told' = told \ {alert[p]} /\ UNCHANGED receipt
  /\ Settled(p)
  /\ UNCHANGED <<status, repeated>>
  /\ KeepTasks

EndNotifications(p) ==
  /\ usage[p] = "notify" /\ due[p] = {}
  /\ UsageGoes(p, "status")
  /\ UNCHANGED <<status, alerts>>
  /\ KeepTasks

\* record_account_usage_cycle, whatever the state.
RecordCycle(p) ==
  /\ usage[p] = "status"
  /\ next' = Set(next, p, next[p] \cup {"usage"})
  /\ UsageGoes(p, "sleep")
  /\ Publish(p)
  /\ UNCHANGED <<stopping, cancelled, alerts>>
  /\ KeepTasks

-----------------------------------------------------------------------------
(* The environment *)

\* Ctrl-C, once: the signal task is not started again.
CtrlC(p) ==
  /\ armed[p]
  /\ armed' = Set(armed, p, FALSE)
  /\ Shutdown(p)
  /\ UNCHANGED <<lock, socket, runtime, server, usage, alerts>>

\* The process is killed.  A delivery without its receipt will be repeated.
Kill(p) ==
  /\ runtime[p] # "off"
  /\ told' = IF usage[p] = "record" THEN told \ {alert[p]} ELSE told
  /\ Release(p)
  /\ CloseListener(p)
  /\ Vanish(p)

\* A receipt goes bad.
Damage(k) ==
  /\ receipt[k] = "whole"
  /\ receipt' = Set(receipt, k, "damaged")
  /\ UNCHANGED <<lock, socket, runtime, server, usage, status, armed, due, alert, told, repeated>>

-----------------------------------------------------------------------------
(* Specifications *)

\* What the tasks do on their own, and what waits for the provider or a client.
OwnRuntime(p) == AcquireLock(p) \/ StopScheduler(p) \/ Finish(p) \/ Exit(p)

Runtime(p) == OwnRuntime(p) \/ Resolve(p) \/ Scan(p)

OwnServer(p) ==
  \/ CheckState(p) \/ Subscribe(p) \/ Look(p) \/ Connect(p) \/ Remove(p) \/ Bind(p)
  \/ Loop(p) \/ HearStopping(p) \/ Inspect(p) \/ Unlink(p) \/ CloseServer(p)

Server(p) == OwnServer(p) \/ HandleConnection(p)

OwnUsage(p) ==
  \/ BeginCycle(p) \/ Lookup(p) \/ Deliver(p) \/ Record(p)
  \/ EndNotifications(p) \/ RecordCycle(p)

Usage(p) == OwnUsage(p) \/ Poll(p)

Next ==
  \/ \E p \in Process :
       \/ Launch(p) \/ Runtime(p) \/ Wake(p)
       \/ Server(p) \/ Hear(p)
       \/ Usage(p)
       \/ CtrlC(p) \/ Kill(p)
  \/ \E k \in Key : Damage(k)

Spec == Init /\ [][Next]_vars

\* A task goes on with what it does itself.  Nothing is asked of the others: a scan or
\* a billing call may never return, since the HTTP client has no timeout, and a client
\* that connected may neither send a frame nor hang up.
FairSpec ==
  /\ Spec
  /\ \A p \in Process :
       /\ WF_vars(OwnRuntime(p))
       /\ WF_vars(OwnServer(p))
       /\ WF_vars(OwnUsage(p))

-----------------------------------------------------------------------------
(* Properties *)

\* Whatever scans, polls or delivers does so under the instance lock, the usage
\* task of a runtime that is about to return included.
WorkUnderLock ==
  \A p \in Process :
    runtime[p] \in {"resolve", "scan", "sleep", "join"} \/ usage[p] # "finished" => lock = p

\* No alert is delivered twice, in one process or another, before or after its
\* receipt went bad; unless its receipt was lost to a kill or an error.
NeverDeliveredTwice == repeated = {}

\* A server that serves is the one clients reach: neither a process that prepares
\* the path for itself nor one that still cleans up takes the socket away.
ServerIsReachable ==
  \A p \in Process : server[p] \in {"loop", "wait", "connected"} => socket = p

\* The last status of a runtime is Stopping and promises no further check,
\* although scans and cycles that end after a shutdown set their next one.
LastStatusIsFinal ==
  \A p \in Process : runtime[p] = "ended" => stopping[p] /\ next[p] = {}

\* A shutdown, from whomever, ends the process: the server learns of it whether it
\* comes before its subscription or after, and no scan is waited for.  The two waits
\* that the code does not bound are for a billing call and for a connected client.
ShutdownEnds ==
  \A p \in Process :
    stopping[p] ~> \/ runtime[p] = "off"
                   \/ [](usage[p] = "poll")
                   \/ [](server[p] = "connected")
=============================================================================
