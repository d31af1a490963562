------------------------------ MODULE EventLog ------------------------------
(***************************************************************************)
(* What the logger promises to those who log: a log that is open until it  *)
(* is stopped or a write fails.  An event it has taken while it was open   *)
(* stays pending until it is written, in the order of taking and once,     *)
(* unless a write before or of it fails; one that comes later may be lost, *)
(* and is written only behind all that was pending.  Neither the queue nor *)
(* the task that empties it is visible.                                    *)
(***************************************************************************)
EXTENDS Naturals, Sequences

VARIABLES
  logged,        \* number of events logged so far
  pending,       \* events taken and not yet written
  written,       \* the events on disk, in the order they were written
  closed         \* was the log stopped, or has a write failed?

logVars == <<logged, pending, written, closed>>

Init == logged = 0 /\ pending = <<>> /\ written = <<>> /\ closed = FALSE

Take ==
  /\ ~closed
  /\ logged' = logged + 1
  /\ pending' = Append(pending, logged + 1)
  /\ UNCHANGED <<written, closed>>

\* An event that is logged once the log is closed.
TakeLate ==
  /\ closed
  /\ logged' = logged + 1
  /\ \/ UNCHANGED written
     \/ pending = <<>> /\ written' = Append(written, logged + 1)
  /\ UNCHANGED <<pending, closed>>

\* The first n pending events are written; the others are what is left of them.
WriteFirst(n) == written' = written \o SubSeq(pending, 1, n)

Write ==
  /\ \E n \in 1..Len(pending) :
       WriteFirst(n) /\ pending' = SubSeq(pending, n + 1, Len(pending))
  /\ UNCHANGED <<logged, closed>>

Close == ~closed /\ closed' = TRUE /\ UNCHANGED <<logged, pending, written>>

\* A write fails, and with it all that is pending behind it is lost.
Fail ==
  /\ pending # <<>>
  /\ \E n \in 0..Len(pending) : WriteFirst(n)
  /\ pending' = <<>> /\ closed' = TRUE
  /\ UNCHANGED logged

Next == Take \/ TakeLate \/ Write \/ Close \/ Fail

Spec == Init /\ [][Next]_logVars
=============================================================================
