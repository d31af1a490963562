--------------------------- MODULE RawDataLogger ---------------------------
(***************************************************************************)
(* The logger of slimhub/logging/raw_logger.py as the daemon uses it: a    *)
(* queue, a worker task that writes its events to files, and a stop that   *)
(* puts a sentinel behind them and joins the worker.  The daemon starts it *)
(* before anything can log and stops it once; sessions that outlive their  *)
(* stop, and frames still on their way, may log at any time.               *)
(*                                                                         *)
(* Writing suspends nowhere, so once the worker runs it goes on until the  *)
(* queue is empty, the sentinel is reached or a write raises.              *)
(***************************************************************************)
EXTENDS Integers, SequencesExt

CONSTANTS
  MaxEvents,     \* bound: events logged
  WriteErrors    \* may a write raise (disk full, no permission, a bad row)?

ASSUME ParametersOK == MaxEvents \in Nat /\ WriteErrors \in BOOLEAN

VARIABLES
  queue,         \* _queue, with Sentinel for the None of stop()
  task,          \* the worker, "none" when _task is None
  stop,          \* progress of the one call of stop()
  logged,        \* history: number of events logged, which are numbered 1, 2, ...
  file,          \* the events on disk, in the order they were written
  flushed        \* history: number of events logged before stop() was called

vars == <<queue, task, stop, logged, file, flushed>>

Sentinel == 0
Events == Nat \ {Sentinel}

\* start() has been called.
Init ==
  /\ queue = <<>>
  /\ task = "running"
  /\ stop = "no"
  /\ logged = 0
  /\ file = <<>>
  /\ flushed = 0

\* Mutant: once a stop was requested the caller writes, the queue empty or not.
LogShortcut ==
  /\ logged < MaxEvents
  /\ logged' = logged + 1
  /\ \/ stop = "no" /\ queue' = Append(queue, logged + 1) /\ UNCHANGED file
     \/ stop # "no" /\ file' = Append(file, logged + 1) /\ UNCHANGED queue
  /\ UNCHANGED <<task, stop, flushed>>

\* log() and log_alert(): queued while _task is set, even if that task is over,
\* else written by the caller, where an exception is the caller's.
Log ==
  /\ logged < MaxEvents
  /\ logged' = logged + 1
  /\ \/ task # "none" /\ queue' = Append(queue, logged + 1) /\ UNCHANGED file
     \/ task = "none" /\ file' = Append(file, logged + 1) /\ UNCHANGED queue
     \/ task = "none" /\ WriteErrors /\ UNCHANGED <<file, queue>>
  /\ UNCHANGED <<task, stop, flushed>>

\* What the worker has before it when it has written n entries.
Before(n) == SubSeq(queue, 1, n)
After(n) == SubSeq(queue, n + 2, Len(queue))

\* Mutant: an exception of a write is caught in the loop, which goes on.
WorkerSwallows ==
  /\ task = "running" /\ queue # <<>> /\ Sentinel \notin ToSet(queue)
  /\ queue' = <<>>
  /\ file' \in { file \o queue, file \o Tail(queue) }
  /\ UNCHANGED <<task, stop, logged, flushed>>

\* Mutant: the worker leaves as soon as a stop was requested.
WorkerLeavesEarly ==
  /\ task = "running" /\ queue # <<>>
  /\ queue' = <<>>
  /\ IF Sentinel \in ToSet(queue)
     THEN task' = "ended" /\ UNCHANGED file
     ELSE file' = file \o queue /\ UNCHANGED task
  /\ UNCHANGED <<stop, logged, flushed>>

\* One turn of _run: it writes the first n entries, all of them events, and ends
\* where the queue does, at the sentinel, or at a write that raises; the event of
\* that write is gone and may or may not have reached the file.
Worker ==
  /\ task = "running" /\ queue # <<>>
  /\ \E n \in 0..Len(queue) :
       /\ Sentinel \notin ToSet(Before(n))
       /\ queue' = After(n)
       /\ \/ n = Len(queue) /\ file' = file \o Before(n) /\ UNCHANGED task
          \/ /\ n < Len(queue) /\ queue[n + 1] = Sentinel
             /\ file' = file \o Before(n)
             /\ task' = "ended"
          \/ /\ WriteErrors /\ n < Len(queue) /\ queue[n + 1] # Sentinel
             /\ file' \in { file \o Before(n), file \o Before(n + 1) }
             /\ task' = "failed"
  /\ UNCHANGED <<stop, logged, flushed>>

\* Mutant: stop() does not wait for the worker.
StopWithoutJoin ==
  /\ stop = "no"
  /\ stop' = "returned"
  /\ queue' = Append(queue, Sentinel)
  /\ flushed' = logged
  /\ UNCHANGED <<task, logged, file>>

\* Mutant: stop() joins the worker without telling it to end.
StopWithoutSentinel ==
  /\ stop = "no"
  /\ stop' = "joining"
  /\ flushed' = logged
  /\ UNCHANGED <<queue, task, logged, file>>

\* stop() puts the sentinel behind what is queued.
Stop ==
  /\ stop = "no"
  /\ stop' = "joining"
  /\ queue' = Append(queue, Sentinel)
  /\ flushed' = logged
  /\ UNCHANGED <<task, logged, file>>

\* await self._task: returns, or raises what the worker raised and leaves _task.
Joined ==
  /\ stop = "joining"
  /\ \/ task = "ended" /\ task' = "none" /\ stop' = "returned"
     \/ task = "failed" /\ stop' = "raised" /\ UNCHANGED task
  /\ UNCHANGED <<queue, logged, file, flushed>>

Next == Log \/ Worker \/ Stop \/ Joined

Spec == Init /\ [][Next]_vars

\* The event loop runs the worker and what waits for it.
FairSpec == Spec /\ WF_vars(Worker) /\ WF_vars(Joined)

-----------------------------------------------------------------------------
(* Properties *)

\* Every variable keeps its type; in particular no sentinel reaches a file.
TypeOK ==
  /\ queue \in Seq(Nat)
  /\ task \in {"none", "running", "ended", "failed"}
  /\ stop \in {"no", "joining", "returned", "raised"}
  /\ logged \in Nat /\ flushed \in Nat
  /\ file \in Seq(Events)

\* The files are written in the order of logging and no event is written twice,
\* whether the worker or the caller writes it.
FileInOrder == \A i, j \in DOMAIN file : i < j => file[i] < file[j]

\* If stop() returns, and does not raise, every event that was logged before it
\* was called is on disk.
StopFlushes == stop = "returned" => 1..flushed \subseteq ToSet(file)

\* While the worker lives, an event that is not on disk is still queued.
NothingForgotten ==
  task = "running" => 1..logged \subseteq ToSet(file) \cup ToSet(queue)

UpToSentinel(q) ==
  IF Sentinel \in ToSet(q)
  THEN SubSeq(q, 1, (CHOOSE k \in DOMAIN q : q[k] = Sentinel) - 1) ELSE q

\* What the worker will still write, unless a write fails.
Ahead == IF task = "running" THEN UpToSentinel(queue) ELSE <<>>

Promise ==
  INSTANCE EventLog WITH pending <- Ahead, written <- file,
                         closed <- (stop # "no" \/ task = "failed")

\* The logger is a log that takes events until it is stopped or a write fails: what
\* it has taken is written in order and once, only a failed write loses any of it,
\* and neither the sentinel nor what is queued behind it makes a difference.
LogsAsPromised == Promise!Spec

\* stop() ends, with or without an exception, also if the worker failed before.
StopEnds == stop = "joining" ~> stop \in {"returned", "raised"}

\* Every event logged before stop() gets to the disk, unless a write raises.
WrittenEventually ==
  \A e \in 1..MaxEvents :
    logged >= e /\ stop = "no" ~> e \in ToSet(file) \/ task = "failed"
=============================================================================
