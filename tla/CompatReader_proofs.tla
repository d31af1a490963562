------------------------ MODULE CompatReader_proofs -------------------------
(***************************************************************************)
(* Proofs about CompatReader: a session is not disturbed by those before   *)
(* it, but for the links that their disconnect has left.                   *)
(*                                                                         *)
(* disconnected_event, once it is set in a session, has a cause in that    *)
(* session (CauseKnown): its own link is gone, or that of an earlier       *)
(* client was lost since.                                                  *)
(***************************************************************************)
EXTENDS CompatReader, TLAPS

\* While there is a session the event is set for a reason of that session.
CauseKnown ==
  /\ pc = "connecting" /\ disconnected => lateLoss
  /\ pc \in InSession /\ disconnected /\ link => lateLoss

Inv == TypeOK /\ CauseKnown

LEMMA Initially ==
  ASSUME Init
  PROVE  Inv
<1>1. TypeOK
  <2>1. leftover \in 0..MaxLeftover
    BY MaxLeftoverOK DEF Init
  <2>2. QED
    BY <2>1, Zenon DEF Init, TypeOK
<1>2. CauseKnown
  BY DEF Init, CauseKnown, InSession
<1>3. QED
  BY <1>1, <1>2 DEF Inv

LEMMA Inductive ==
  ASSUME Inv, [Next]_vars
  PROVE  Inv'
<1> USE MaxLeftoverOK DEF Inv, TypeOK, CauseKnown, InSession, Finished
<1>1. CASE FindEnds
  <2>1. TypeOK'
    BY <1>1 DEF FindEnds, NothingFound
  <2>2. CauseKnown'
    BY <1>1 DEF FindEnds, NothingFound
  <2>3. QED
    BY <2>1, <2>2
<1>2. CASE PauseEnds
  BY <1>2 DEF PauseEnds, LoopHead
<1>3. CASE ConnectEnds
  <2>1. TypeOK'
    <3>1. \/ pc' = "subscribing" /\ link' = TRUE
          \/ pc' \in {"ended", "pausing"} /\ link' = link
      BY <1>3 DEF ConnectEnds, SessionOver
    <3>2. ~link /\ UNCHANGED <<byAddress, stop, disconnected, leftover, lateLoss>>
      BY <1>3 DEF ConnectEnds
    <3>3. pc' \in {"finding", "pausing", "connecting"} \cup InSession \cup Finished
      BY <3>1
    <3>4. link' \in BOOLEAN /\ (link' => pc' \in InSession)
      <4>1. link \in BOOLEAN /\ (link => pc \in InSession)
        OBVIOUS
      <4>2. link' \in BOOLEAN
        BY <3>1, <3>2, <4>1
      <4>3. link' => pc' \in InSession
        BY <3>1, <3>2, <4>1
      <4>4. QED
        BY <4>2, <4>3
    <3>5. QED
      BY <3>2, <3>3, <3>4, Zenon
  <2>2. CauseKnown'
    BY <1>3 DEF ConnectEnds, SessionOver
  <2>3. QED
    BY <2>1, <2>2
<1>4. CASE SubscribeEnds
  BY <1>4 DEF SubscribeEnds
<1>5. CASE ListenEnds
  <2>1. TypeOK'
    BY <1>5 DEF ListenEnds
  <2>2. CauseKnown'
    BY <1>5 DEF ListenEnds
  <2>3. QED
    BY <2>1, <2>2
<1>6. CASE UnsubscribeEnds
  BY <1>6 DEF UnsubscribeEnds
<1>7. CASE DisconnectEnds
  <2>1. TypeOK'
    <3>1. leftover' \in 0..MaxLeftover
      BY <1>7 DEF DisconnectEnds
    <3>2. pc' \in {"ended", "pausing"} /\ link' = FALSE
      BY <1>7 DEF DisconnectEnds, SessionOver
    <3>3. disconnected' \in BOOLEAN
      BY <1>7, Zenon DEF DisconnectEnds
    <3>4. UNCHANGED <<byAddress, stop, lateLoss>>
      BY <1>7 DEF DisconnectEnds
    <3>5. QED
      BY <3>1, <3>2, <3>3, <3>4
  <2>2. CauseKnown'
    BY <1>7 DEF DisconnectEnds, SessionOver
  <2>3. QED
    BY <2>1, <2>2
<1>8. CASE RequestShutdown
  BY <1>8 DEF RequestShutdown
<1>9. CASE LinkLost
  <2>1. TypeOK'
    <3>1. leftover' \in 0..MaxLeftover
      BY <1>9 DEF LinkLost
    <3>2. disconnected' = TRUE /\ (link' = link \/ link' = FALSE) /\ lateLoss' \in {lateLoss, TRUE}
      BY <1>9, Zenon DEF LinkLost
    <3>3. byAddress' = byAddress /\ pc' = pc /\ stop' = stop
      BY <1>9 DEF LinkLost
    <3>4. link' \in BOOLEAN /\ (link' => pc' \in InSession)
      <4>1. link \in BOOLEAN /\ (link => pc \in InSession)
        OBVIOUS
      <4>2. link' \in BOOLEAN
        BY <3>2, <3>3, <4>1
      <4>3. link' => pc' \in InSession
        BY <3>2, <3>3, <4>1
      <4>4. QED
        BY <4>2, <4>3
    <3>5. QED
      BY <3>1, <3>2, <3>3, <3>4, Zenon
  <2>2. CauseKnown'
    BY <1>9 DEF LinkLost
  <2>3. QED
    BY <2>1, <2>2
<1>10. CASE Done \/ UNCHANGED vars
  BY <1>10 DEF Done, vars
<1>11. QED
  BY <1>1, <1>2, <1>3, <1>4, <1>5, <1>6, <1>7, <1>8, <1>9, <1>10 DEF Next, Step

LEMMA Invariant == Spec => []Inv
BY Initially, Inductive, PTL DEF Spec

\* Every variable of CompatReader keeps its type, for any number of leftover links.
THEOREM TypeCorrect == Spec => []TypeOK
<1>1. Inv => TypeOK
  BY DEF Inv
<1>2. QED
  BY <1>1, Invariant, PTL

\* Listening ends for a signal, for the loss of the link of the session, or for that
\* of a link that an earlier disconnect left.
THEOREM AlwaysListensWhileItCan == Spec => ListensWhileItCan
<1>1. ASSUME Inv, [Next]_vars
      PROVE  [pc = "listening" /\ pc' # pc /\ link => stop \/ lateLoss]_vars
  <2>1. SUFFICES ASSUME pc = "listening", pc' # pc, link, Next
                 PROVE  stop \/ lateLoss
    BY <1>1 DEF vars
  <2>2. Told
    BY <2>1 DEF Next, Step, FindEnds, PauseEnds, ConnectEnds, SubscribeEnds, ListenEnds, UnsubscribeEnds,
                DisconnectEnds, RequestShutdown, LinkLost, Done, Finished, vars
  <2>3. QED
    BY <1>1, <2>1, <2>2 DEF Told, Inv, CauseKnown, InSession
<1>2. QED
  BY <1>1, Invariant, PTL DEF Spec, ListensWhileItCan
=============================================================================
