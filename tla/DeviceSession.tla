--------------------------- MODULE DeviceSession ---------------------------
(***************************************************************************)
(* The BLE sessions of slimhub/ble/device_session.py: one asyncio task per *)
(* peripheral that connects, subscribes, runs a command worker, winds the  *)
(* connection down and waits for the next advertisement.  All sessions and *)
(* the scan loop of slimhub/daemon.py share one adapter lock.              *)
(*                                                                         *)
(* asyncio runs one task at a time and switches only at an await that      *)
(* suspends, so an action is the code between two such awaits and pc[n]    *)
(* names the await at which the task of session n is suspended.  An await  *)
(* that never suspends is not a switching point: a lock that is free, a    *)
(* put on an unbounded queue, a coroutine that awaits only such things.    *)
(***************************************************************************)
EXTENDS Integers, SequencesExt

CONSTANTS
  Nodes,         \* the peripherals; the registry keeps one session for each
  Scanner,       \* the scan loop as a user of the adapter lock
  ScanEnabled,   \* daemon.run(scan=...): is there a scan loop?
  OtherErrors,   \* may a BLE call raise an exception the session's suppress()
                 \* clauses do not list (TimeoutError, EOFError, D-Bus errors)?
  Lingering,     \* peripherals whose link, if a disconnect() has failed to end it,
                 \* may be lost as late as in a later session
  MaxCommands    \* bound: commands issued to one session

ASSUME ScannerIsNotANode == Scanner \notin Nodes
ASSUME FlagsAreBoolean == ScanEnabled \in BOOLEAN /\ OtherErrors \in BOOLEAN
ASSUME MaxCommandsIsNat == MaxCommands \in Nat

VARIABLES
  pc,           \* where the task of each session is suspended
  updated,      \* _target_updated_event of each session
  connected,    \* the flag status() reports
  waiting,      \* waiting_for_advertisement, also in status()
  unavailable,  \* _unavailable_logged
  adapter,      \* the adapter lock: its holder (or next holder), then the waiters
  link,         \* the radio link to the peripheral, owned by the environment
  leftover,     \* an earlier client has left a link that may be lost later
  scan,         \* where the scan loop is suspended
  daemon,       \* progress of SlimHubDaemon.run through its shutdown
  stopping,     \* _stop_event of each session
  queue,        \* _command_queue
  worker,       \* where the command worker of the session is suspended
  inflight,     \* the command a write is carrying, until the radio takes it
  issued,       \* number of commands put in the session's queue so far
  delivered     \* commands the radio took, in that order

taskVars == <<pc, updated, connected, waiting, unavailable>>
daemonVars == <<scan, daemon, stopping>>
radio == <<link, leftover>>
workerVars == <<queue, worker, inflight>>
commandVars == <<workerVars, issued, delivered>>
vars == <<taskVars, adapter, radio, daemonVars, commandVars>>

-----------------------------------------------------------------------------
(* States *)

Locations ==
  { "absent",         \* no session object in the registry
    "new",            \* start() created the task, it has not run yet
    "lockwait",       \* async with self.adapter_lock
    "connecting",     \* await client.connect(), lock held
    "subscribing",    \* await client.start_notify(), lock held
    "active",         \* await asyncio.wait({stop, disconnected})
    "unwinding",      \* gathering the cancelled waiters, worker still alive
    "stopnotify",     \* await client.stop_notify()
    "disconnecting",  \* await client.disconnect() in the body
    "finaldisc",      \* await client.disconnect() in the finally clause
    "waitadv",        \* await self._wait_for_target_update()
    "canceldisc",     \* await client.disconnect() in the finally clause, cancelled
    "done",           \* the task returned
    "crashed" }       \* the task ended with an exception, or cancelled

Alive(n) == pc[n] \notin {"absent", "done", "crashed"}
HoldsAdapter(n) == pc[n] \in {"connecting", "subscribing"}
AwaitsAdapter(n) == pc[n] = "lockwait"

\* self._client is assigned when connect() returns, reset in the finally clause.
HasClient(n) ==
  Alive(n) /\ pc[n] \notin {"new", "lockwait", "connecting", "waitadv"}

Init ==
  /\ pc = [n \in Nodes |-> "absent"]
  /\ updated = [n \in Nodes |-> FALSE]
  /\ connected = [n \in Nodes |-> FALSE]
  /\ waiting = [n \in Nodes |-> FALSE]
  /\ unavailable = [n \in Nodes |-> FALSE]
  /\ adapter = <<>>
  /\ link = [n \in Nodes |-> FALSE]
  /\ leftover = [n \in Nodes |-> FALSE]
  /\ scan = IF ScanEnabled THEN "sleep" ELSE "off"
  /\ daemon = "running"
  /\ stopping = [n \in Nodes |-> FALSE]
  /\ queue = [n \in Nodes |-> <<>>]
  /\ worker = [n \in Nodes |-> "none"]
  /\ inflight = [n \in Nodes |-> <<>>]
  /\ issued = [n \in Nodes |-> 0]
  /\ delivered = [n \in Nodes |-> <<>>]

-----------------------------------------------------------------------------
(* Parts of the session's task; lock is the adapter lock as the step so far  *)
(* leaves it.                                                                *)

Goto(n, location) == pc' = [pc EXCEPT ![n] = location]

\* Mutant: every session has an adapter lock of its own (the default of
\* DeviceSession, if the registry did not pass the shared one).
BeginAttemptWithOwnLock(n, lock) ==
  /\ updated' = [updated EXCEPT ![n] = FALSE]
  /\ adapter' = Append(lock, n)
  /\ Goto(n, "connecting")

\* _wait_for_target_update consumes the event, and the loop makes a client for
\* self.target and asks for the adapter, without suspending in between.  The
\* lock is first come first served: it is had at once only if it is idle.
BeginAttempt(n, lock) ==
  /\ updated' = [updated EXCEPT ![n] = FALSE]
  /\ adapter' = Append(lock, n)
  /\ Goto(n, IF lock = <<>> THEN "connecting" ELSE "lockwait")

\* Mutant: the event is cleared before the wait, as if only news counted.
NextAttemptClearsFirst(n, lock) ==
  /\ adapter' = lock
  /\ IF stopping[n]
     THEN Goto(n, "done") /\ UNCHANGED <<updated, waiting>>
     ELSE /\ Goto(n, "waitadv")
          /\ waiting' = [waiting EXCEPT ![n] = TRUE]
          /\ updated' = [updated EXCEPT ![n] = FALSE]

\* The end of an iteration of _run: leave on stop, try again at once if the
\* target was updated meanwhile, else wait for the next advertisement.
NextAttempt(n, lock) ==
  \/ /\ stopping[n]
     /\ Goto(n, "done")
     /\ adapter' = lock
     /\ UNCHANGED <<updated, waiting>>
  \/ /\ ~stopping[n]
     /\ waiting' = [waiting EXCEPT ![n] = TRUE]
     /\ \/ updated[n] /\ BeginAttempt(n, lock)
        \/ ~updated[n] /\ Goto(n, "waitadv") /\ adapter' = lock /\ UNCHANGED updated

\* Mutant: the finally clause does not reset the flag.
ForgetKeepsConnected(n, lock) ==
  NextAttempt(n, lock) /\ UNCHANGED connected

\* The last lines of the finally clause, then the end of the iteration.
Forget(n, lock) ==
  /\ connected' = [connected EXCEPT ![n] = FALSE]
  /\ NextAttempt(n, lock)

\* The finally clause: a client that is still connected is disconnected first.
Finally(n, lock) ==
  \/ /\ HasClient(n) /\ link[n]
     /\ Goto(n, "finaldisc")
     /\ adapter' = lock
     /\ UNCHANGED <<updated, connected, waiting>>
  \/ /\ ~(HasClient(n) /\ link[n])
     /\ Forget(n, lock)

\* Mutant: acquire() and release() instead of async with, and an exception in
\* between skips the release.
FailureKeepsLock(n, lock) ==
  Finally(n, adapter) /\ UNCHANGED <<radio, unavailable>>

\* except Exception, then finally: a timeout or "not found" logs "unavailable;
\* waiting for next advertisement before reconnect" and remembers that it did.
Failure(n, lock) ==
  /\ \/ unavailable' = [unavailable EXCEPT ![n] = TRUE]
     \/ UNCHANGED unavailable
  /\ Finally(n, lock)
  /\ UNCHANGED radio

-----------------------------------------------------------------------------
(* Steps of the session's task *)

\* Mutant: the wait is for the target alone, not for the stop event.
TargetUpdatedIgnoresStop(n) ==
  /\ pc[n] \in {"new", "waitadv"}
  /\ updated[n] /\ BeginAttempt(n, adapter)
  /\ UNCHANGED <<connected, waiting, unavailable, radio, daemonVars, commandVars>>

\* The wait for a target is over; the first one does not wait, start() having
\* left the event set.  On stop the loop is left without looking at the event.
TargetUpdated(n) ==
  /\ pc[n] \in {"new", "waitadv"}
  /\ \/ stopping[n] /\ Goto(n, "done") /\ UNCHANGED <<adapter, updated>>
     \/ ~stopping[n] /\ updated[n] /\ BeginAttempt(n, adapter)
  /\ UNCHANGED <<connected, waiting, unavailable, radio, daemonVars, commandVars>>

\* The lock was passed on to this waiter; stop is not looked at here.
LockGranted(n) ==
  /\ AwaitsAdapter(n)
  /\ Head(adapter) = n
  /\ Goto(n, "connecting")
  /\ UNCHANGED <<updated, connected, waiting, unavailable, adapter, radio,
                 daemonVars, commandVars>>

\* connect() returned, and the link may be lost again before the task runs, or
\* it raised, which releases the lock.
Connect(n) ==
  /\ pc[n] = "connecting"
  /\ \/ \E up \in BOOLEAN :
          /\ link' = [link EXCEPT ![n] = up]
          /\ connected' = [connected EXCEPT ![n] = up]
          /\ waiting' = [waiting EXCEPT ![n] = FALSE]
          /\ unavailable' = [unavailable EXCEPT ![n] = FALSE]
          /\ Goto(n, "subscribing")
          /\ UNCHANGED <<updated, adapter, leftover>>
     \/ Failure(n, Tail(adapter))
  /\ UNCHANGED <<daemonVars, commandVars>>

\* Mutant: the async with block spans the whole connection.
SubscribeKeepsLock(n) ==
  /\ pc[n] = "subscribing" /\ link[n]
  /\ worker' = [worker EXCEPT ![n] = "start"]
  /\ Goto(n, "active")
  /\ UNCHANGED <<updated, connected, waiting, unavailable, adapter, radio,
                 daemonVars, queue, inflight, issued, delivered>>

\* start_notify() returned, and the worker is created, or it raised; the lock
\* is released either way.
Subscribe(n) ==
  /\ pc[n] = "subscribing"
  /\ \/ /\ link[n]
        /\ adapter' = Tail(adapter)
        /\ worker' = [worker EXCEPT ![n] = "start"]
        /\ Goto(n, "active")
        /\ UNCHANGED <<updated, connected, waiting, unavailable, radio>>
     \/ Failure(n, Tail(adapter)) /\ UNCHANGED worker
  /\ UNCHANGED <<daemonVars, queue, inflight, issued, delivered>>

\* asyncio.wait returned: stop was requested or the disconnect callback fired.
Wake(n) ==
  /\ pc[n] = "active"
  /\ stopping[n] \/ ~link[n]
  /\ Goto(n, "unwinding")
  /\ UNCHANGED <<updated, connected, waiting, unavailable, adapter, radio,
                 daemonVars, commandVars>>

\* Mutant: the worker is not cancelled.
KeepWorker(n) ==
  /\ pc[n] = "unwinding"
  /\ Goto(n, "stopnotify")
  /\ UNCHANGED <<updated, connected, waiting, unavailable, adapter, radio,
                 daemonVars, commandVars>>

\* command_task.cancel() and its gather: a write in progress is abandoned, and
\* the command it carries is gone unless the radio already took it.
CancelWorker(n) ==
  /\ pc[n] = "unwinding"
  /\ worker' = [worker EXCEPT ![n] = "none"]
  /\ inflight' = [inflight EXCEPT ![n] = <<>>]
  /\ Goto(n, "stopnotify")
  /\ UNCHANGED <<updated, connected, waiting, unavailable, adapter, radio,
                 daemonVars, queue, issued, delivered>>

\* What suppress(BleakError, RuntimeError) lets through ends the body.
StopNotify(n) ==
  /\ pc[n] = "stopnotify"
  /\ \/ /\ Goto(n, "disconnecting")
        /\ UNCHANGED <<updated, connected, waiting, unavailable, adapter, radio>>
     \/ OtherErrors /\ Failure(n, adapter)
  /\ UNCHANGED <<daemonVars, commandVars>>

\* disconnect() ended the link, or failed and left it as it is.
Disconnect(n) ==
  /\ pc[n] = "disconnecting"
  /\ \/ link' = [link EXCEPT ![n] = FALSE] /\ Forget(n, adapter)
        /\ UNCHANGED <<unavailable, leftover>>
     \/ Finally(n, adapter) /\ UNCHANGED <<radio, unavailable>>
     \/ OtherErrors /\ Failure(n, adapter)
  /\ UNCHANGED <<daemonVars, commandVars>>

\* disconnect() in the finally clause: an exception that is not suppressed here
\* leaves _run itself, past the two assignments that follow.
FinalDisconnect(n) ==
  /\ pc[n] = "finaldisc"
  /\ \/ /\ link' \in {link, [link EXCEPT ![n] = FALSE]}
        /\ leftover' = [leftover EXCEPT ![n] = @ \/ (link'[n] /\ n \in Lingering)]
        /\ Forget(n, adapter)
     \/ /\ OtherErrors
        /\ Goto(n, "crashed")
        /\ UNCHANGED <<updated, connected, waiting, adapter, radio>>
  /\ UNCHANGED <<unavailable, daemonVars, commandVars>>

TaskStep(n) ==
  /\ daemon # "exiting"
  /\ \/ TargetUpdated(n) \/ LockGranted(n) \/ Connect(n) \/ Subscribe(n)
     \/ Wake(n) \/ CancelWorker(n)
     \/ StopNotify(n) \/ Disconnect(n) \/ FinalDisconnect(n)

-----------------------------------------------------------------------------
(* Steps of the command worker *)

\* _command_queue.get(): takes the oldest command, or suspends if there is none.
GetCommand(n) ==
  \/ /\ queue[n] # <<>>
     /\ worker' = [worker EXCEPT ![n] = "writing"]
     /\ inflight' = [inflight EXCEPT ![n] = <<Head(queue[n])>>]
     /\ queue' = [queue EXCEPT ![n] = Tail(@)]
  \/ /\ queue[n] = <<>>
     /\ worker' = [worker EXCEPT ![n] = "get"]
     /\ inflight' = [inflight EXCEPT ![n] = <<>>]
     /\ UNCHANGED queue

\* Mutant: a write that failed puts its command back in the queue.
WorkerLoopRetries(n) ==
  /\ worker[n] \in {"start", "writing"}
  /\ LET todo == queue[n] \o inflight[n]
         next == IF todo = <<>> THEN <<>> ELSE <<Head(todo)>>
     IN  /\ worker' = [worker EXCEPT ![n] = IF todo = <<>> THEN "get" ELSE "writing"]
         /\ inflight' = [inflight EXCEPT ![n] = next]
         /\ queue' = [queue EXCEPT ![n] = SubSeq(todo, 2, Len(todo))]
  /\ UNCHANGED <<taskVars, adapter, radio, daemonVars, issued, delivered>>

\* The worker starts, or write_gatt_char(response=False) returned or raised: the
\* command is not put back, an exception is logged and the loop goes on, which
\* is the only place where it looks at stop.
WorkerLoop(n) ==
  /\ worker[n] \in {"start", "writing"}
  /\ \/ /\ stopping[n]
        /\ worker' = [worker EXCEPT ![n] = "none"]
        /\ inflight' = [inflight EXCEPT ![n] = <<>>]
        /\ UNCHANGED queue
     \/ ~stopping[n] /\ GetCommand(n)
  /\ UNCHANGED <<taskVars, adapter, radio, daemonVars, issued, delivered>>

\* The worker was suspended in get() and a command arrived, stop or no stop.
WorkerWake(n) ==
  /\ worker[n] = "get"
  /\ queue[n] # <<>>
  /\ GetCommand(n)
  /\ UNCHANGED <<taskVars, adapter, radio, daemonVars, issued, delivered>>

\* registry.send_command finds the session, whatever became of its task.
SendCommand(n) ==
  /\ pc[n] # "absent"
  /\ issued[n] < MaxCommands
  /\ issued' = [issued EXCEPT ![n] = @ + 1]
  /\ queue' = [queue EXCEPT ![n] = Append(@, issued[n] + 1)]
  /\ UNCHANGED <<taskVars, adapter, radio, daemonVars, worker, inflight, delivered>>

-----------------------------------------------------------------------------
(* Steps of the daemon *)

\* ensure_target for every node of S: a session that does not exist is created
\* and started, one that exists is given the new target; no await suspends.
EnsureTargets(S) ==
  /\ pc' = [n \in Nodes |-> IF n \in S /\ pc[n] = "absent" THEN "new" ELSE pc[n]]
  /\ updated' = [n \in Nodes |-> n \in S \/ updated[n]]
  /\ waiting' = [n \in Nodes |-> n \notin S /\ waiting[n]]
  /\ UNCHANGED <<connected, unavailable, radio, daemon, stopping, commandVars>>

\* A connect request: run() closes the socket last, so one may arrive any time.
ConnectRequest(n) == EnsureTargets({n}) /\ UNCHANGED <<adapter, scan>>

\* The scan loop asks for the adapter, at its start or after an interval.
ScanStart ==
  /\ scan = "sleep" /\ daemon = "running"
  /\ adapter' = Append(adapter, Scanner)
  /\ scan' = IF adapter = <<>> THEN "scanning" ELSE "lockwait"
  /\ UNCHANGED <<taskVars, radio, daemon, stopping, commandVars>>

ScanGranted ==
  /\ scan = "lockwait" /\ Head(adapter) = Scanner
  /\ scan' = "scanning"
  /\ UNCHANGED <<taskVars, adapter, radio, daemon, stopping, commandVars>>

\* discover() returned: the lock is released and the devices found are handled
\* in the same step.  S is empty if discover() raised, and a part of what was
\* found if handling one device raised, which ends the round for the others.
ScanDone(S) ==
  /\ scan = "scanning"
  /\ adapter' = Tail(adapter)
  /\ scan' = "sleep"
  /\ EnsureTargets(S)

\* The stop request of the CLI, or a signal.
RequestStop ==
  /\ daemon = "running"
  /\ daemon' = "stopping"
  /\ UNCHANGED <<taskVars, adapter, radio, scan, stopping, commandVars>>

\* run() wakes up, cancels the scan task wherever it is and gathers it, then
\* stop_all() sets the stop event of the sessions in the registry at that time.
StopAll ==
  /\ daemon = "stopping"
  /\ daemon' = "joining"
  /\ scan' = "off"
  /\ adapter' = RemoveFirst(adapter, Scanner)
  /\ stopping' = [n \in Nodes |-> pc[n] # "absent"]
  /\ UNCHANGED <<taskVars, radio, commandVars>>

\* stop_all() returns when the task of every session it stopped has ended.
AllJoined ==
  /\ daemon = "joining"
  /\ \A n \in Nodes : stopping[n] => ~Alive(n)
  /\ daemon' = "joined"
  /\ UNCHANGED <<taskVars, adapter, radio, scan, stopping, commandVars>>

\* run() has returned, and asyncio.run cancels all tasks that are left: those of
\* sessions made after stop_all() looked, and their workers.
Exit ==
  /\ daemon = "joined"
  /\ daemon' = "exiting"
  /\ UNCHANGED <<taskVars, adapter, radio, scan, stopping, commandVars>>

\* The lock is left, whether it was held or awaited, and the worker ends.
LetGo(n) ==
  /\ adapter' = RemoveFirst(adapter, n)
  /\ worker' = [worker EXCEPT ![n] = "none"]
  /\ inflight' = [inflight EXCEPT ![n] = <<>>]

\* Mutant: the cancellation is taken for an exception of the session.
CancelledGoesOn(n) ==
  /\ daemon = "exiting"
  /\ Alive(n) /\ pc[n] # "canceldisc"
  /\ LetGo(n)
  /\ Goto(n, "waitadv")
  /\ connected' = [connected EXCEPT ![n] = FALSE]
  /\ UNCHANGED <<updated, waiting, unavailable, radio, daemonVars, queue, issued, delivered>>

\* CancelledError at the await of the task: the finally clause is all that runs, and
\* not even the rest of it if that is where the task was.
Cancelled(n) ==
  /\ daemon = "exiting"
  /\ Alive(n) /\ pc[n] # "canceldisc"
  /\ LetGo(n)
  /\ \/ pc[n] = "finaldisc" /\ Goto(n, "crashed") /\ UNCHANGED connected
     \/ /\ pc[n] # "finaldisc" /\ HasClient(n) /\ link[n]
        /\ Goto(n, "canceldisc") /\ UNCHANGED connected
     \/ /\ pc[n] # "finaldisc" /\ ~(HasClient(n) /\ link[n])
        /\ Goto(n, "crashed") /\ connected' = [connected EXCEPT ![n] = FALSE]
  /\ UNCHANGED <<updated, waiting, unavailable, radio, daemonVars, queue, issued, delivered>>

\* disconnect() returned or raised, and with it the task ends.
CancelledDisconnect(n) ==
  /\ pc[n] = "canceldisc"
  /\ Goto(n, "crashed")
  /\ link' \in {link, [link EXCEPT ![n] = FALSE]}
  /\ \/ connected' = [connected EXCEPT ![n] = FALSE]
     \/ OtherErrors /\ UNCHANGED connected
  /\ UNCHANGED <<updated, waiting, unavailable, leftover, adapter, daemonVars, commandVars>>

\* The process has ended.
Ended ==
  /\ daemon = "exiting" /\ \A n \in Nodes : ~Alive(n)
  /\ UNCHANGED vars

-----------------------------------------------------------------------------
(* Steps of the environment *)

LinkDrop(n) ==
  /\ link[n]
  /\ link' = [link EXCEPT ![n] = FALSE]
  /\ UNCHANGED <<taskVars, leftover, adapter, daemonVars, commandVars>>

\* on_disconnect sets the disconnect event of the iteration that _run has reached, so
\* the loss of a link that an earlier client has left ends the session of the client
\* of now, whose own link is up.  There may be another such link.
LateLoss(n) ==
  /\ leftover[n] /\ pc[n] = "active"
  /\ leftover' \in {leftover, [leftover EXCEPT ![n] = FALSE]}
  /\ Goto(n, "unwinding")
  /\ UNCHANGED <<updated, connected, waiting, unavailable, adapter, link,
                 daemonVars, commandVars>>

\* The radio takes the command of a write in progress.
RadioTakes(n) ==
  /\ inflight[n] # <<>> /\ link[n]
  /\ delivered' = [delivered EXCEPT ![n] = Append(@, Head(inflight[n]))]
  /\ inflight' = [inflight EXCEPT ![n] = <<>>]
  /\ UNCHANGED <<taskVars, adapter, radio, daemonVars, queue, worker, issued>>

-----------------------------------------------------------------------------
DaemonStep ==
  \/ ScanStart \/ ScanGranted \/ \E S \in SUBSET Nodes : ScanDone(S)
  \/ RequestStop \/ StopAll \/ AllJoined \/ Exit \/ Ended

WorkerStep(n) == daemon # "exiting" /\ (WorkerLoop(n) \/ WorkerWake(n))

ExitStep(n) == Cancelled(n) \/ CancelledDisconnect(n)

NodeStep(n) ==
  \/ TaskStep(n) \/ WorkerStep(n) \/ ExitStep(n)
  \/ daemon # "exiting" /\ (SendCommand(n) \/ ConnectRequest(n) \/ LateLoss(n))
  \/ LinkDrop(n) \/ RadioTakes(n)

Next == DaemonStep \/ \E n \in Nodes : NodeStep(n)

Spec == Init /\ [][Next]_vars

\* The event loop runs every task that can go on, and every BLE call returns or
\* raises in the end; the radio, the operator and the peripherals owe nothing.
Fairness ==
  /\ \A n \in Nodes : WF_vars(TaskStep(n)) /\ WF_vars(WorkerStep(n)) /\ WF_vars(ExitStep(n))
  /\ WF_vars(ScanGranted \/ \E S \in SUBSET Nodes : ScanDone(S))
  /\ WF_vars(StopAll) /\ WF_vars(AllJoined)

FairSpec == Spec /\ Fairness

-----------------------------------------------------------------------------
(* Properties *)

\* Every variable keeps its type: one task, worker, queue and status per
\* session, one lock queue for the adapter.
TypeOK ==
  /\ pc \in [Nodes -> Locations]
  /\ {updated, connected, waiting, unavailable, link, leftover, stopping}
       \subseteq [Nodes -> BOOLEAN]
  /\ adapter \in Seq(Nodes \cup {Scanner})
  /\ scan \in {"off", "sleep", "lockwait", "scanning"}
  /\ daemon \in {"running", "stopping", "joining", "joined", "exiting"}
  /\ worker \in [Nodes -> {"none", "start", "get", "writing"}]
  /\ issued \in [Nodes -> Nat]
  /\ {queue, inflight, delivered} \subseteq [Nodes -> Seq(Nat)]

\* The BLE adapter does one thing at a time: no two sessions connect or
\* subscribe at once, and none does while the scan loop is discovering.
AdapterExclusive ==
  \A n \in Nodes : HoldsAdapter(n) =>
    /\ scan # "scanning"
    /\ \A m \in Nodes \ {n} : ~HoldsAdapter(m)

\* The lock is never leaked and never lost: it is queued for by exactly the
\* tasks that await or hold it, each once.  A task that ended, crashed, was
\* cancelled or waits for an advertisement holds up nobody.
AdapterAccounted ==
  /\ ToSet(adapter) = { n \in Nodes : HoldsAdapter(n) \/ AwaitsAdapter(n) }
                        \cup { s \in {Scanner} : scan \in {"lockwait", "scanning"} }
  /\ IsInjective(adapter)

\* A command worker never outlives the connection it writes to: a second one on
\* the same queue would reorder the commands of the peripheral.
WorkerConfined ==
  \A n \in Nodes :
    /\ worker[n] # "none" => pc[n] \in {"active", "unwinding"}
    /\ inflight[n] # <<>> => worker[n] = "writing"

\* What status() reports: only a session that has a client is connected, and it
\* does not wait for an advertisement; one that is parked says that it waits.  The
\* exception is a task that has ended with an exception of the disconnect() in its
\* finally clause: it says connected for ever (see UnavailableSessionWaits).
StatusTruthful ==
  \A n \in Nodes :
    /\ connected[n] => (HasClient(n) \/ pc[n] = "crashed") /\ ~waiting[n]
    /\ pc[n] = "waitadv" /\ ~updated[n] => waiting[n]

\* An advertisement or connect request is used up only by an attempt to connect
\* that starts after it: the session that consumes the event has just asked for
\* the adapter, whatever it was doing when the event was set.
AdvertisementNotLost ==
  [][\A n \in Nodes : updated[n] /\ ~updated'[n]
       => adapter' # <<>> /\ Last(adapter') = n]_vars

\* The commands of a peripheral go through a first-in first-out channel that
\* may lose only the oldest one, across disconnects, retries and shutdown.
Channel == INSTANCE CommandChannel
  WITH pending <- [n \in Nodes |-> inflight[n] \o queue[n]]

CommandsInOrder == Channel!Spec

\* Once a stop is requested, stop_all() returns: no session task is left waiting
\* for an advertisement, for the adapter or for a link that is gone.
StopTerminates == daemon = "stopping" ~> daemon = "joined"

\* A session that was told of a new target while waiting for one, or that waits
\* for the adapter, gets to connect, unless it is stopped or the process ends.
AttemptFollows ==
  \A n \in Nodes :
    (pc[n] = "waitadv" /\ updated[n]) \/ AwaitsAdapter(n)
      ~> pc[n] \in {"connecting", "done"} \/ daemon = "exiting"

\* A session that nobody stopped, because a connect request came after stop_all()
\* had looked, does not keep the process from ending, wherever it is by then.
ProcessEnds == \A n \in Nodes : daemon = "exiting" ~> ~Alive(n)

\* After "<address> unavailable; waiting for next advertisement before reconnect"
\* was logged, the session's task is there to see the next advertisement.
UnavailableSessionWaits ==
  \A n \in Nodes : unavailable[n] => pc[n] # "crashed"
=============================================================================
