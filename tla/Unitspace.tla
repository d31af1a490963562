----------------------------- MODULE Unitspace -----------------------------
(***************************************************************************)
(* The estimator of slimhub/unitspace/estimator.py: it remembers the node  *)
(* heard last and answers an event with the commands that move the         *)
(* occupant from there.  The location and the time it also remembers only  *)
(* label those commands; its noise threshold separates two branches that   *)
(* do the same, so time is left out.                                       *)
(***************************************************************************)
EXTENDS Sequences

CONSTANTS
  Addresses,     \* the frame MAC addresses of the nodes
  None           \* nobody was heard yet

VARIABLE last    \* status.last_address

\* What handle() tells apart: somebody present and an enter signal (1 or 10) or
\* the exit signal (20), or anything else, an alert included.
Signals == {"enter", "exit", "other"}

Init == last = None

Command(a, action) == [address |-> a, action |-> action]

\* The commands handle() returns; an exit is answered whoever was heard last.
Commands(a, signal) ==
  CASE signal = "exit" -> << Command(a, "strong_exit") >>
    [] signal = "enter" /\ last = None -> << Command(a, "strong_enter") >>
    [] signal = "enter" /\ last \notin {None, a} ->
         << Command(a, "strong_enter"), Command(last, "strong_exit") >>
    [] OTHER -> << >>

\* _remember(), on every path but the one that ignores the event.
Remember(a, signal) ==
  last' = IF signal = "other" THEN last ELSE a
=============================================================================
