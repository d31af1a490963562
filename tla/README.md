# SLIMHUB_v2: a verification project in TLA+

SLIMHUB_v2 is a daemon in Python that keeps BLE connections to a set of
`DEAN_NODE_V2` peripherals, logs the frames they notify, estimates from them
where the occupant of a space is, and sends commands back.  A command line talks
to it over a Unix socket.  Everything in the daemon runs on one asyncio loop; the
peripherals, the radio, the command lines and other daemons run concurrently.

The modules here are models of that code, checked by TLC on small instances, and
theorems about them, checked by TLAPS for every instance.  `PROJECT.json` lists
the runs, the mutants each property detects, the source lines of each definition,
the hazards the properties are aimed at, the findings and the theorems.

## 1. Inventory

| component | state | operations | hard behaviour |
|---|---|---|---|
| BLE session (`ble/device_session.py`) | task, stop and target events, command queue, client, the flags of `status()` | `_run`, `_command_worker`, `update_target`, `stop`, `send_command`, notify handler | exceptions at every await, cancellation in mid-write, events set while the task is elsewhere |
| adapter lock and scan loop (`daemon.py`) | one `asyncio.Lock`, the scan task | `_scan_loop`, `_start_or_update_session` | the scan is cancelled while it awaits or holds the lock |
| central (`ble/central.py`) | none of its own | `ensure_target`, `ensure_address` | two ways to name a peripheral |
| registry (`ble/registry.py`) | sessions by BLE address, aliases by frame MAC | `add`, `get`, `register_alias`, `send_command`, `stop_all` | sessions and aliases of the same name; a snapshot taken at shutdown |
| frame handling (`daemon.py`) | tasks of `handle_frame` in creation order | `handle_frame`, `send_command` | works with addresses that were true earlier |
| estimator (`unitspace/estimator.py`) | the node heard last | `handle` | commands for a node that is not the one heard |
| protocol (`protocol/nus.py`) | the assembler's buffer | `push`, `parse_frame`, `build_frame` | any cut of the stream, bad lengths, resynchronization |
| raw logger (`logging/raw_logger.py`) | queue, worker task, files | `log`, `log_alert`, `_run`, `stop` | a write that raises, events behind the sentinel |
| daemon (`daemon.py`) | stop event, server, socket path | `run`, `_start_server`, `_stop_server`, `_handle_client`, `dispatch` | requests during shutdown, crash, a second daemon at the same path |
| command line (`cli/`) | one request | `send_request`, `run_cli` | the daemon ends before it answers |
| device configuration (`config.py`) | one file per device | `load`, `save`, `ensure`, `set_field`, `list_all` | a file cut off by a crash or a full disk, and what depends on it |
| hub configuration (`config.py`) | one file | `load_or_create`, `set_field` | two processes at work on the file at once |
| compatibility reader (`ble_nus_central.py`) | stop and disconnect events, one client, one assembler | `run` | a signal or a lost link at any await, callbacks of earlier clients |

How they interact: the scan loop and connect requests call `ensure_target`, which
creates a session or gives an existing one a new target.  A session's notify
handler pushes chunks into the assembler of its connection and starts one task of
`handle_frame` for each frame that parses.  That task registers the alias of the
frame's MAC, touches the device's configuration, queues an event for the logger,
asks the estimator for commands and puts them into the queues of the sessions the
registry finds.  `run` waits for a stop request, then cancels the scan, stops the
sessions, the logger and the server, in this order.

What makes each component correct is stated in the properties of its module;
section 3 goes through them.

## 2. Modules

| module | models | composed of |
|---|---|---|
| `DeviceSession` | sessions, workers, adapter lock, scan loop, shutdown of both | implements `CommandChannel` |
| `CommandChannel` | abstract: a lossy first-in first-out channel of commands | |
| `FrameRouting` | frames from sessions through the daemon and commands back | `Registry`, `Unitspace` |
| `Registry`, `Unitspace` | the registry's tables; the estimator | |
| `FrameAssembler` | bytes to frames in one connection after the other | |
| `RawDataLogger` | the logger and its worker | implements `EventLog` |
| `EventLog` | abstract: a log that is open until it is stopped or a write fails | |
| `DaemonLifecycle` | daemons, command lines, the socket and its path | |
| `HubConfigFile` | the hub's configuration file, system call by system call | |
| `HubData` | device files, settings, scans, frames and data files, across crashes and restarts | `Registry`, `DeviceConfigStore` |
| `DeviceConfigStore` | what the store makes of one device file | |
| `CompatReader` | the stand-alone reader | |
| `*_proofs` | lemmas and theorems | |
| `MC*` | values of constants for TLC that a `.cfg` cannot write | |

A word on **atomicity**, which decides what an action is.  asyncio switches tasks
only at an `await` that really suspends.  Putting into an unbounded queue, taking
a lock that is free, and calling a coroutine that awaits only such things suspend
nowhere.  So all of `handle_frame`, the operations of the registry (whose lock is
never contended), the notify handler and a turn of the logger's worker are one
step each, and the sessions are suspended exactly at the places that
`DeviceSession!Locations` names.

**`DeviceSession`.**  `pc[n]` says at which await the task of session `n` is
suspended, and an action is the code from one await to the next:
`TargetUpdated` (after `_wait_for_target_update`), `LockGranted` and `Connect`
and `Subscribe` (the `async with` block), `Wake` and `CancelWorker` (the wait for
stop or disconnect and the gather behind it), `StopNotify`, `Disconnect`,
`FinalDisconnect` (the unwinding and the `finally` clause).  `Failure` is the
`except` clause; it, `Finally`, `Forget`, `NextAttempt` and `BeginAttempt` are the
parts of the loop that several actions run through.  `Exit` is the end of
`asyncio.run`: the sessions that connect requests made after `stop_all` had looked are
cancelled at the await they have reached (`Cancelled`, `CancelledDisconnect`).  `on_disconnect` sets
the variable of the loop, not the event of its own client, so the loss of a link that an earlier client
could not end (`leftover`) ends a session whose own link is up (`LateLoss`).  `adapter` is the FIFO of
`asyncio.Lock`: its head holds the lock or will be the next to run with it.  The
worker is a second task, with `worker`, `queue` and `inflight`; `RadioTakes` is the
moment at which the radio has the command, before or after which the write may
fail or be cancelled.  The exceptions of a BLE call are split into those the
`suppress()` clauses list and others (`OtherErrors`); `Lingering` are the peripherals whose links may outlive
a failed disconnect into a later session.

**`FrameRouting`.**  `Registry` and `Unitspace` are instantiated, and one
`HandleFrame` is a step of both.  Sessions are reduced to the address they
connect to and the peripheral they are connected to.  Peripherals have a BLE
address and a frame MAC, the same or not.  A connect request may name any address, which
may create a session that never finds an advertiser (`BleSessions` is that none was) or
rename an existing one.

**`FrameAssembler`.**  `Assemble` is the loop of `push` as a recursive function on
byte sequences, `Parses` the verdict of `parse_frame`.  Bytes have `Base` values and
MAC and type take one byte each; the length has two bytes, little-endian, and the
checks on it are the code's.  `ThatParse` is what `handle_notify` makes of the frames
`push` returns: those that do not parse are logged and dropped.  Notifications bring anything, so the peripherals that
behave and those that do not are the same model; what was received says which it was.

**`RawDataLogger`.**  Events are numbered in the order of logging, which makes order
and loss visible in `file`.  `Worker` is a whole turn: writing suspends nowhere, so
the worker runs until the queue is empty, the sentinel is reached or a write raises.
`EventLog` is what remains of the logger for those who log: events it has taken are
pending (`Ahead`: the queue up to the sentinel, while the worker runs) until they are
written, and once it is closed, by a stop or by a failed write, it takes no more.

**`DaemonLifecycle`.**  Daemons and command lines are processes; `path` is the one
entry of the file system they share.  `wait_closed` differs between Python versions
(`AwaitsClients`), and so does who removes the path (`LoggerStopped`).

**`HubConfigFile`.**  Nothing locks the file, so here the steps are system calls: look,
read, open (which truncates) and write.  `settled`, `alone` and `disturbed` are history:
what was set by a process that had the file to itself, and whether any two overlapped or
one ended in a write.

**`HubData`.**  A device has a file for its BLE address, made when it is found, and one
for the MAC in its frames, made when a frame is handled, and only the latter says where
its data goes.  Only the daemon uses them and nothing suspends on the way, so a scan
round, a request and a frame are one step, unless a save fails or the daemon is killed
in it: `Interrupted` is what that leaves, the old file, a torn one, or the whole new text of
which nobody was told.  So `asked`, the history of what operators know of a field, is a set: the value
acknowledged last, and those asked for since whose save raised, whose daemon was killed before
the answer, or whose client had gone.  `Crash` is a kill of the process: what the system was
given stays.  `ScanCut` is the round that ends at a device
whose file is torn.  An event carries the place it is for (`path`) and, as history, what
operators had asked for when its frame was handled (`due`); `log` is all that data
files have, in the order of writing, with what a failed write left.

**`CompatReader`.**  Every await of `run` is a step that ends it, by its result or by an
exception.  `on_disconnect` sets the variable of the loop and so the event of the session
of the moment, whichever client calls it; `leftover` counts the links that a failed
disconnect left up and that may still be lost later.

## 3. What is checked

Every property has a mutant in `PROJECT.json`: an operator in the module, marked
"Mutant", that changes one definition as a plausible bug would and with which TLC
finds the property violated.  The type invariants are proved (section 4) and not checked
again in a run.

| run | properties | what it shows |
|---|---|---|
| `adapter` | `AdapterExclusive`, `AdapterAccounted`, `StatusTruthful`, `AdvertisementNotLost`, `StopTerminates`, `AttemptFollows`, `ProcessEnds` | sessions and scan share the adapter: never two users, never a leaked or lost lock; no advertisement is consumed without an attempt; the shutdown ends, no session starves, and one that nobody stopped ends with the process; status is right but for a task that has ended with an exception (finding 1) |
| `commands` | `WorkerConfined`, `CommandsInOrder` | commands of a peripheral arrive in order and at most once across failures, reconnects and shutdown; only the oldest may be lost |
| `unavailable` | `UnavailableSessionWaits` | **violated**, finding 1 |
| `routing` | `NoCommandDropped`, `RoutedToOwner`, `LastIsReachable`, `DevicesTruthful` | no command finds no session, whatever connect requests name; while no session lacks an advertiser, every command goes to the peripheral it names, the exit command of the node heard last included; `devices` tells which peripherals are connected |
| `shadow_session` | `LastRoutesToPeripheral` | **violated**, finding 2 |
| `frames` | `HandedAsSent`, `NothingWithheld`, `ChunkingInvisible`, `BufferBounded` | frames arrive as sent and as soon as complete, over any cut and any reconnect; for any bytes the result does not depend on the cut, and the buffer is bounded |
| `logger` | `FileInOrder`, `StopFlushes`, `NothingForgotten`, `LogsAsPromised`, `StopEnds`, `WrittenEventually` | order, flush at stop, progress, also with writes that raise; the logger is a log of which only a failed write or a stop ever loses anything |
| `lifecycle` | `RequestIsHeard`, `NotRunningIsTrue`, `StopEnds`, `RequestEnds` | one daemon at a time: every stop and every request ends, because no request is ever left to nobody; the command line tells the truth |
| `restart_overlap` | `NotRunningIsTrue` | **violated**, finding 3 |
| `hub_config` | `SettledSurvives`, `UnreadableHasCause`, `UnreadableIsKept` | a value set in peace is never lost; an unreadable file has overlap or an interrupted write as its cause, and nothing replaces it |
| `hub_data` | `SettingsSurvive`, `LoggedWhereAsked`, `HeaderFirst`, `TornIsKept`, `MissedForAnother`, `TypeIsNoName` | a file that can be read has the setting acknowledged last, or one asked for since and not acknowledged; data goes where such a setting before its frame says; data files start with their header, unless it was the header that was cut off; a torn file is kept, has lost its settings, and makes a scan miss those found after it and nobody else (saves that raise without tearing apart); a configured name does not become a type as long as new files can be opened |
| `reader` | `ListensWhileItCan`, `StopEnds`, `SearchesAgain` | the reader ends after a signal and searches again after every failure, and sessions do not disturb each other, except by a link that a failed disconnect left |

### Bounds

- `adapter`: two sessions and the scan loop.  Contention for the lock, a waiter
  behind a waiter and a cancelled waiter between two others all occur; the safety
  properties are proved for any number.  No commands, because the task never looks
  at the queue.  One of the two peripherals is `Lingering`, which suffices to have a session
  ended by the link of an earlier one beside a session that is not.
- `commands`: one session, because sessions share no queue and no worker; three
  commands, so that one can be in flight, one queued and one issued later.
- `routing`: two peripherals, one with a frame MAC of its own.  Three frames wait at
  a time, so one may be handled with what was true before two others.
- `frames`: streams of up to 16 bytes, twice the largest frame, among them two frames of
  every shape; a third would be cut like the second.
- `logger`: five events, so that several are on both sides of the sentinel.
- `lifecycle`: two command lines.  One daemon may run, die and be started again
  without end.  `restart_overlap` allows the next daemon to start while the one
  before shuts down, never two that both run.
- `hub_config`: three processes, so that a third finds what two that overlap have left;
  one field that has a default for the empty text and one that does not.
- `hub_data`: two peripherals, one with a frame MAC of its own; three settings or frames in all,
  which is setting, frame, setting, and one failure: a save that raises, a write that fails, an
  answer that is lost or a kill.  Scans, connect requests and restarts
  are not bounded.  The settings are one of each field and one that empties the location.
- `reader`: up to two links left by disconnects that raised.

### Fairness

Only what the event loop and the operating system give: a task that can go on runs
(`WF` of `TaskStep`, of the worker's steps, of `Worker`, `DaemonStep`, ...), a BLE
call returns or raises in the end, and a process that is connected writes its
request or is killed (`WF` of `Ask`; the command line does so at once, but the daemon has no
timeout against a client that connects and idles for ever, and then `stop()` would not end).  Weak fairness is enough, because nothing in these steps is
disabled by others once it is enabled, the lock being first come first served; only the
end of the process disables them all, and `ExitStep` takes over.  Nobody is
obliged to advertise, to ask anything, to start or to stop a daemon, to lose a link,
or to take a command.  In `CompatReader` the one fair step is the end of the await that
`run` is at: scans and pauses have timeouts, calls of bleak theirs, and an event that is
set stays set.  The end of the process is not owed, but once it has begun every session that is
left is cancelled (`WF` of `ExitStep`).  `DaemonLifecycle` assumes that stopping the sessions and the
logger ends, which is what `StopTerminates` and `RawDataLogger!StopEnds` show.

### Findings

1. `unavailable`: after the log line "unavailable; waiting for next advertisement
   before reconnect" a second time-out, in the `finally` clause
   (`device_session.py:179`), ends the session's task.  Nothing restarts it.
2. `shadow_session`: a session created by a connect request for a frame MAC hides the
   alias of that MAC (`registry.py:22`); commands go to a session that never connects,
   against `README.md:75-77`.
3. `restart_overlap`: a daemon that ends removes the socket path of its successor
   (`daemon.py:291`); the command line then says "Slimhub server is not running" of a
   daemon that is.

## 4. What is proved

For every value of the constants, from the named `ASSUME`s of the modules and nothing else:
the scanner is not a node, flags are Boolean, bounds are natural numbers, `None` and the
like are no values, peripherals are finitely many and share no address, the default type and
location are not empty, settings are of fields that exist.  Every property proved here is also
checked by a run, but for the type invariants; every safety property that a passing run checks
is proved here.

| module | theorem | property |
|---|---|---|
| `DeviceSession_proofs` | `TypeCorrect` | `TypeOK` |
| | `AdapterLockAccounted` | `AdapterAccounted` |
| | `AdapterIsExclusive` | `AdapterExclusive` |
| | `AdvertisementsAreNotLost` | `AdvertisementNotLost` (action property) |
| | `WorkerIsConfined` | `WorkerConfined` |
| | `StatusIsTruthful` | `StatusTruthful` |
| | `CommandsAreInOrder` | `CommandsInOrder`: `DeviceSession` implements `CommandChannel` |
| `FrameRouting_proofs` | `TypeCorrect` | `TypeOK` |
| | `CommandsAreNotDropped` | `NoCommandDropped` |
| | `CommandsReachTheirPeripheral` | `RoutedToOwner`: if no session lacks an advertiser |
| | `LastStaysReachable` | `LastIsReachable`: `LastRoutesToPeripheral` under the same condition |
| | `DevicesStayTruthful` | `DevicesTruthful`: if moreover no session was renamed |
| `FrameAssembler_proofs` | `TypeCorrect` | `TypeOK` |
| | `CutsDoNotMatter` | `ChunkingInvisible` |
| | `BufferStaysShort` | `BufferBounded` |
| | `NothingIsWithheld` | `NothingWithheld` |
| | `FramesAsSent` | `HandedAsSent` |
| `RawDataLogger_proofs` | `TypeCorrect` | `TypeOK` |
| | `FilesAreInOrder` | `FileInOrder` |
| | `StopHasFlushed` | `StopFlushes` |
| | `NothingIsForgotten` | `NothingForgotten` |
| | `LogsLikeALog` | `LogsAsPromised`: `RawDataLogger` implements `EventLog` |
| `DaemonLifecycle_proofs` | `TypeCorrect` | `TypeOK` |
| | `NotRunningIsTold` | `NotRunningIsTrue`, if no daemon is started while another shuts down |
| | `RequestsAreHeard` | `RequestIsHeard`, overlapping daemons included |
| `HubConfigFile_proofs` | `TypeCorrect` | `TypeOK` |
| | `SettledAlwaysSurvives` | `SettledSurvives` |
| | `UnreadableAlwaysHasCause` | `UnreadableHasCause` |
| | `UnreadableIsAlwaysKept` | `UnreadableIsKept` (action property) |
| `HubData_proofs` | `TypeCorrect` | `TypeOK` |
| | `SettingsAlwaysSurvive` | `SettingsSurvive` |
| | `AlwaysLoggedWhereAsked` | `LoggedWhereAsked` |
| | `TornIsAlwaysKept` | `TornIsKept` (action property) |
| | `HeaderIsAlwaysFirst` | `HeaderFirst` |
| | `MissedOnlyForAnother` | `MissedForAnother` |
| | `TypeIsNeverAName` | `TypeIsNoName` |
| `CompatReader_proofs` | `TypeCorrect` | `TypeOK` |
| | `AlwaysListensWhileItCan` | `ListensWhileItCan` (action property) |

The conditions of `LastStaysReachable` and `NotRunningIsTold` are exactly what findings 2 and 3 violate: the
runs show that the property fails without the condition, the theorems that it is enough.

**Sessions.**  `TypeOK` alone is not inductive, because a step that releases the lock takes
the head off the queue and must know that it is not empty.  The invariant is
`TypeOK /\ LockInv`: who uses the adapter is at the head of its queue (`HolderAtHead`), and
the queue names each task that awaits or holds the lock exactly once
(`AdapterAccounted`).  A step of a session first takes it out of the queue, if it was in it
(`Released`), then either leaves it out (`LeaveQueue`) or puts it at the end (`JoinQueue`),
and every location change is one of these; the lemmas at the beginning of the module have
the facts about `RemoveFirst`, `Tail` and `Append` this needs.  A session that is cancelled
leaves the queue from wherever in it it is (`ReleasedByCancel`).  Mutual exclusion follows, because two users would both be the
head.  `WorkerInv` adds that a worker exists only at the locations of a connection and holds
one command at most; with it each step is a send, a delivery, a loss or a stutter of
`CommandChannel` when the channel of a peripheral is mapped to the command in flight, as long as the radio
has not taken it, followed by the queue (`NextImplementsChannel`).

**Routing.**  `Resolved` says of every table and of every frame on its way whose it is: an
alias leads from a frame MAC to the session of the BLE address of the same peripheral; a
session's address is its key or, if a connect request for its alias replaced it, that
alias, and then no session has the alias as its key; a client is the peripheral of its
session's key; a waiting frame has the one address or the other.  The last two are needed because
`handle_notify` puts into a frame the address its session has at that time, which
need not be the key of a session: such a frame teaches no alias, and it is harmless only
because the alias must be known already.  With it no lookup fails.  Where there are only
sessions of BLE addresses there never were others (`SessionsStay`), and so no session has
ever hidden an alias (`OwnLookup`): the condition is about the present state and the history
follows from it.

**Frames.**  `Assemble` is defined by recursion on a buffer that gets shorter, and the
provers know of such a function only that it is the one that satisfies its equation, if there
is one.  `SolutionExists` and `SolutionIsUnique` show that for buffers of fewer than n bytes there is
exactly one, by the least n for which there would not be (`Least`), and so `Assemble` satisfies
its equation (`AssembleIs`).  The same argument, on the shortest buffer that would not comply,
gives what everything else rests on, `AssembleContinues`: what the loop takes out of a buffer is
the same whatever follows, and what it keeps is where it goes on when more arrives.
With it `ChunkingInvisible` is inductive with the types alone: a notification is more of the
same stream (`AfterNotify`).  `BufferBounded` is then a fact about one push of everything
(`RestIsShort`), and a stream of frames, whose headers say their own lengths
(`FrameIsWhole`), is taken apart into these frames without a rest (`AssembleStream`), whence
`NothingWithheld` and `HandedAsSent`, for streams of any number of frames.  `FlattenSeq` is
treated like `Assemble`.

**Logger.**  `OrderInv` joins the file and the queue: the file is increasing and has no number
that was not logged; while the worker runs the queue, the sentinel apart, continues it.
Once the worker is gone the direct writes continue it instead, and what is left in the
queue is never written.  `FlushInv` says where flushing ends: while the worker
runs and a stop was requested there is one sentinel, and each event logged before
the stop is on disk or before it (`FlushedBefore`).  `StopFlushes` alone is not inductive: it says
nothing until `stop()` returns.  With `FlushInv` the refinement goes step by step: an event is
taken by `EventLog` while nobody has called `stop()` and the worker lives, and is late else;
a turn of the worker is one `Write` of a beginning of what is pending, or `Fail`, and if it finds
the sentinel first it is none; `Stop` is `Close`, because the sentinel goes behind all that
is pending (`LogTakes`, `WorkerWrites`, `StopCloses`).

**Daemon.**  `Solo`: one daemon at most is up, and while it accepts connections the path is its
own.  The second half fails without the first, by the removal of the path at the end.
`RequestIsHeard` does not need it.  It is inductive once it is said of invocations that are
connected and have not asked yet as well (`HeardInv`), with the types, which say which phases
accept: whoever leaves such a phase, or ends, cuts the connections that are left.

**Hub file.**  `SettledSurvives` is made inductive by what the processes at work hold: each
that is about to save has the settled value of every other field in its configuration
(`SettledFor`), because it has read the file since the value was set, and one that has been
alone still is (`AloneIsAlone`).  `Peace`: while nothing was disturbed one process at most is at
work, and the text it writes is alone in the file it has truncated.  `UnreadableIsKept` needs no
more than the types.

**Hub data.**  All that a step may do to a device file unless an operator's request reaches it is to
leave it, to tear it, to make a new one, or to fill in an empty name (`Follows`), and what operators know
may have come true only grows by it (`Grows`).  Every step is shown to do only this, or to set one field and
to record it as acknowledged or not (`Sets`), a kill in the middle of a save or before its answer included
(`FilesStep`); what follows keeps what was set (`FollowedBySettings`).
`LoggedWhereAsked` is about what was written; it is inductive with the same of what is still
queued (`QueuedWhereAsked`), which follows from `SettingsSurvive` at the frame.

What the daemon knows must agree with the files (`Known`): an alias leads from the MAC of a peripheral
to the BLE address of the same one (`AliasesOwned`); who has a session or an alias has a file, torn or not,
as long as no file could not be opened (`KnownHaveFile`); names are those of sessions
(`NamedAreSessions`).  `TypeIsNoName` needs all of it: `connect_address` does hand the name of a session
to `ensure` as the type of a new file, and only because a session with a name has its file already is
that name never stored (`RequestedType`; `TypesFor` carries it through `Follows`).
`MissedForAnother` follows because files once there stay there (`FilesStay`) and the one at which a
round was cut is torn, unless its save raised without tearing it (`FailedSave`, `MissedStep`).  `HeaderFirst` is inductive item by item (`HeadedAt`):
the log only grows, and whether a part of it needs a header is told by what is before it
(`HeaderIsThere`).

**Reader.**  `CauseKnown`: when the disconnect event is set in a session, its link is down, or an
earlier client has lost a link since the session began.

**Only model-checked**: liveness (`StopTerminates`, `AttemptFollows`, `ProcessEnds`, `StopEnds`,
`WrittenEventually`, `RequestEnds`, `SearchesAgain`), which the prover cannot do with
fairness, and the three findings, each of which is a counterexample.


## 5. What is not modelled

- **The requests that change nothing** (`raw.tail`, `service`, `unitspace.status`, the
  legacy commands that are answered as unsupported): they are the request "other" of
  `DaemonLifecycle`.
- **Argument parsing, printing, log texts, columns of files, the fields of a RAWDATA
  payload**: formatting.  Of the paths of data files the day is left out: all of `HubData`
  happens on one day, and a file of another day is just another file.
- **A power failure**: `save()` never syncs, so nothing is certain after one, and no text says it
  is.  `Crash` is a kill of the daemon, by which only the file being saved can suffer.
- **Which of its two files `devices` shows of a peripheral**: the one listed last, by the order of two
  addresses; no text says which it should be.
- **Which texts JSON can carry and which names a file system accepts**: the settings of
  `HubData` are texts that both take.
- **`_handle_client` after the answer** (drain, close): part of `Handle`; a client
  that does not read its answer holds up nobody's state.
- **A cancellation of the compatibility reader's `run` itself**: nothing in the script does it.
- **Locations and times of the estimator**: they label its answers and decide nothing.
- **A second daemon started while the first runs undisturbed**: `DaemonLifecycle`
  excludes it, because the disagreement it could show is already the one of a quick restart.
- `reconnect_delay` is accepted and passed on, and never used by the code.

## 6. What is left

Every component is modelled but for what section 5 names.  What would add most:

1. `Hub`: `FrameRouting` over the sessions of `DeviceSession`, so that what `RoutedToOwner`
   says of a queue is said of the peripheral; today the two meet at the queue of a session, where
   one ends and the other begins.
2. An abstract specification of the socket path (a lease that one daemon holds), with
   `DaemonLifecycle` as its implementation.
