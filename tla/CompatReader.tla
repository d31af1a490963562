---------------------------- MODULE CompatReader ----------------------------
(***************************************************************************)
(* The single-device reader, src/ble_nus_central.py: a loop that looks for *)
(* a device, listens to it until the link is lost or a signal asks it to   *)
(* stop, and pauses before it looks again.                                 *)
(*                                                                         *)
(* Every await of run() ends in a step of its own.  The signals and the    *)
(* loss of a link may come at each of them.  What the assembler of a       *)
(* session makes of notifications is the subject of FrameAssembler.        *)
(***************************************************************************)
EXTENDS Integers

CONSTANT MaxLeftover   \* bound: links that exist at a time after their disconnect raised
ASSUME MaxLeftoverOK == MaxLeftover \in Nat

VARIABLES
  byAddress,      \* --address is given; else the device is searched for by its name
  pc,             \* the await at which run() is
  stop,           \* stop_event
  disconnected,   \* disconnected_event
  link,           \* the link of the client of the session is up
  leftover,       \* links of earlier clients that are still up
  lateLoss        \* history: in this session an earlier client lost its link

vars == <<byAddress, pc, stop, disconnected, link, leftover, lateLoss>>

InSession == {"subscribing", "listening", "unsubscribing", "disconnecting"}
Finished == {"ended", "raised"}

Init ==
  /\ byAddress \in BOOLEAN
  /\ pc = "finding" /\ stop = FALSE
  /\ disconnected = FALSE /\ link = FALSE /\ leftover = 0
  /\ lateLoss = FALSE

-----------------------------------------------------------------------------
(* run() *)

\* The condition of the loop.
LoopHead == pc' = IF stop THEN "ended" ELSE "finding"

\* After a scan that found nothing: an address that was not seen is connected to all
\* the same, and what a scan raises nobody catches.
NothingFound == IF byAddress THEN {"raised"} ELSE {"raised", "pausing"}

\* Mutant: the event is made once, before the loop.
FindEndsKeepingEvent ==
  /\ pc = "finding"
  /\ \/ pc' = "connecting" /\ lateLoss' = FALSE
     \/ pc' \in NothingFound /\ UNCHANGED lateLoss
  /\ UNCHANGED <<byAddress, stop, disconnected, link, leftover>>

\* The scan returns, or raises outside of the try.  The session gets an event.
FindEnds ==
  /\ pc = "finding"
  /\ \/ pc' = "connecting" /\ disconnected' = FALSE /\ lateLoss' = FALSE
     \/ /\ pc' \in NothingFound
        /\ UNCHANGED <<disconnected, lateLoss>>
  /\ UNCHANGED <<byAddress, stop, link, leftover>>

\* wait_or_stop() returns; the pause may end at any time, and does if stop is set.
PauseEnds ==
  /\ pc = "pausing"
  /\ LoopHead
  /\ UNCHANGED <<byAddress, stop, disconnected, link, leftover, lateLoss>>

\* Mutant: an exception of a session is not caught.
SessionFails == pc' = "raised"

\* What follows the try, however it was left.
SessionOver == pc' = IF stop THEN "ended" ELSE "pausing"

\* __aenter__() connects or raises.  Nothing asks for stop_event before.
ConnectEnds ==
  /\ pc = "connecting"
  /\ \/ pc' = "subscribing" /\ link' = TRUE
     \/ SessionOver /\ UNCHANGED link
  /\ UNCHANGED <<byAddress, stop, disconnected, leftover, lateLoss>>

\* start_notify() returns or raises.
SubscribeEnds ==
  /\ pc = "subscribing"
  /\ pc' \in {"listening", "disconnecting"}
  /\ UNCHANGED <<byAddress, stop, disconnected, link, leftover, lateLoss>>

\* Mutant: only the loss of the link is waited for.
ToldOfLoss == disconnected

Told == stop \/ disconnected

ListenEnds ==
  /\ pc = "listening" /\ Told
  /\ pc' = "unsubscribing"
  /\ UNCHANGED <<byAddress, stop, disconnected, link, leftover, lateLoss>>

\* stop_notify() returns or raises, and whatever it raises __aexit__() is next.
UnsubscribeEnds ==
  /\ pc = "unsubscribing"
  /\ pc' = "disconnecting"
  /\ UNCHANGED <<byAddress, stop, disconnected, link, leftover, lateLoss>>

\* __aexit__() disconnects, which calls on_disconnect(), or raises and leaves the link.
DisconnectEnds ==
  /\ pc = "disconnecting"
  /\ link' = FALSE
  /\ \/ leftover' = leftover /\ disconnected' = (disconnected \/ link)
     \/ /\ link /\ leftover < MaxLeftover /\ leftover' = leftover + 1
        /\ UNCHANGED disconnected
  /\ SessionOver
  /\ UNCHANGED <<byAddress, stop, lateLoss>>

Step ==
  \/ FindEnds \/ PauseEnds \/ ConnectEnds \/ SubscribeEnds
  \/ ListenEnds \/ UnsubscribeEnds \/ DisconnectEnds

-----------------------------------------------------------------------------
(* What happens to it *)

\* request_shutdown(), called for SIGINT and SIGTERM.
RequestShutdown ==
  /\ pc \notin Finished
  /\ stop' = TRUE
  /\ UNCHANGED <<byAddress, pc, disconnected, link, leftover, lateLoss>>

\* A link is lost.  on_disconnect() sets what run() knows as disconnected_event then,
\* whichever client calls it.
LinkLost ==
  /\ pc \notin Finished
  /\ \/ link /\ link' = FALSE /\ UNCHANGED <<leftover, lateLoss>>
     \/ /\ leftover > 0 /\ leftover' = leftover - 1 /\ lateLoss' = TRUE
        /\ UNCHANGED link
  /\ disconnected' = TRUE
  /\ UNCHANGED <<byAddress, pc, stop>>

\* run() has returned or raised, and main() with it.
Done == pc \in Finished /\ UNCHANGED vars

Next == Step \/ RequestShutdown \/ LinkLost \/ Done

\* Every await ends: scans and pauses by their timeouts, calls of the client by those
\* of bleak, and the events stay set.
Spec == Init /\ [][Next]_vars /\ WF_vars(Step)

-----------------------------------------------------------------------------
(* Properties *)

\* Every variable keeps its type, and the client of a session has a link only in it.
TypeOK ==
  /\ byAddress \in BOOLEAN /\ stop \in BOOLEAN /\ disconnected \in BOOLEAN
  /\ pc \in {"finding", "pausing", "connecting"} \cup InSession \cup Finished
  /\ link \in BOOLEAN /\ (link => pc \in InSession) /\ leftover \in 0..MaxLeftover
  /\ lateLoss \in BOOLEAN

\* Listening ends with the link up only if a signal came, or if a link that could not
\* be disconnected was lost later: its client sets the event of the present session.
ListensWhileItCan ==
  [][pc = "listening" /\ pc' # pc /\ link => stop \/ lateLoss]_vars

\* A signal ends the reader, at whichever await it comes.
StopEnds == stop ~> pc \in Finished

\* A lost link, a failed attempt and a device that is not found are followed by
\* another search, unless a signal comes.
SearchesAgain ==
  /\ (pc = "listening" /\ ~link) ~> (pc = "finding" \/ stop)
  /\ (pc \in {"pausing", "connecting", "disconnecting"}) ~> (pc \in {"finding", "listening"} \/ stop)
=============================================================================
