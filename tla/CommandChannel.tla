--------------------------- MODULE CommandChannel ---------------------------
(***************************************************************************)
(* What the hub promises of the commands it queues for a peripheral: a     *)
(* first-in first-out channel that may lose a command but never repeats,   *)
(* reorders or invents one, and that loses only the oldest command still   *)
(* pending.  Neither a reconnection nor the end of a session is visible:   *)
(* what was not attempted stays pending, however long that lasts.          *)
(***************************************************************************)
EXTENDS Naturals, Sequences

CONSTANT Nodes         \* the peripherals, one channel each

VARIABLES
  issued,              \* number of commands sent to each peripheral so far
  pending,             \* commands sent and neither delivered nor lost
  delivered            \* commands delivered, in that order

channelVars == <<issued, pending, delivered>>

Init ==
  /\ issued = [n \in Nodes |-> 0]
  /\ pending = [n \in Nodes |-> <<>>]
  /\ delivered = [n \in Nodes |-> <<>>]

Send(n) ==
  /\ issued' = [issued EXCEPT ![n] = @ + 1]
  /\ pending' = [pending EXCEPT ![n] = Append(@, issued[n] + 1)]
  /\ UNCHANGED delivered

Deliver(n) ==
  /\ pending[n] # <<>>
  /\ delivered' = [delivered EXCEPT ![n] = Append(@, Head(pending[n]))]
  /\ pending' = [pending EXCEPT ![n] = Tail(@)]
  /\ UNCHANGED issued

Lose(n) ==
  /\ pending[n] # <<>>
  /\ pending' = [pending EXCEPT ![n] = Tail(@)]
  /\ UNCHANGED <<issued, delivered>>

Next == \E n \in Nodes : Send(n) \/ Deliver(n) \/ Lose(n)

Spec == Init /\ [][Next]_channelVars
=============================================================================
