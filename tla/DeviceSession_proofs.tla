------------------------ MODULE DeviceSession_proofs ------------------------
(***************************************************************************)
(* Proofs about DeviceSession, for any number of peripherals and commands. *)
(***************************************************************************)
EXTENDS DeviceSession, SequenceTheorems, WellFoundedInduction, TLAPS

(* Sequences used as queues whose elements are all different *)

\* Removing the first occurrence of one element of a sequence leaves the other
\* elements in the order they had: those before it in place, those behind it one
\* place further to the front.
LEMMA RemoveFirstProperties ==
  ASSUME NEW S, NEW s \in Seq(S), NEW e
  PROVE  \/ /\ RemoveFirst(s, e) = s
            /\ \A i \in 1..Len(s) : s[i] # e
         \/ \E k \in 1..Len(s) :
              /\ s[k] = e
              /\ \A i \in 1..(k-1) : s[i] # e
              /\ RemoveFirst(s, e) \in Seq(S)
              /\ Len(RemoveFirst(s, e)) = Len(s) - 1
              /\ \A i \in 1..(Len(s) - 1) :
                   RemoveFirst(s, e)[i] = IF i < k THEN s[i] ELSE s[i+1]
<1>1. CASE \A i \in 1..Len(s) : s[i] # e
  BY <1>1 DEF RemoveFirst
<1>2. CASE \E i \in 1..Len(s) : s[i] = e
  <2> DEFINE I == { i \in 1..Len(s) : s[i] = e }
             k == CHOOSE i \in I : \A j \in I : i <= j
  <2>1. Len(s) \in Nat /\ \A i \in 1..Len(s) : s[i] \in S
    BY LenProperties, ElementOfSeq
  <2>2. I \in SUBSET Nat /\ I # {}
    BY <1>2, <2>1
  <2>3. k \in I /\ \A i \in I : k <= i
    <3>1. PICK m \in I : \A i \in I : ~ (<<i, m>> \in OpToRel(<, Nat))
      BY <2>2, NatLessThanWellFounded, WFMin
    <3>2. \A i, j \in Nat : i < j => <<i, j>> \in OpToRel(<, Nat)
      <4>1. \A p \in Nat \X Nat : p[1] < p[2] => p \in OpToRel(<, Nat)
        BY DEF OpToRel
      <4>2. QED
        BY <4>1
    <3>3. \A i \in I : i \in Nat /\ m \in Nat /\ ~ (i < m)
      BY <2>2, <3>1, <3>2
    <3>4. \A i \in I : m <= i
      BY <3>3
    <3>5. QED
      BY <3>4
  <2>4. RemoveFirst(s, e) = SubSeq(s, 1, k-1) \o SubSeq(s, k+1, Len(s))
    <3>1. SelectInSeq(s, LAMBDA v : v = e) = k
      BY <2>2 DEF SelectInSeq, Min
    <3>2. QED
      BY <1>2, <3>1 DEF RemoveFirst, RemoveAt
  <2> HIDE DEF k
  <2> DEFINE front == SubSeq(s, 1, k-1)
             back == SubSeq(s, k+1, Len(s))
  <2>5. k \in 1..Len(s) /\ s[k] = e /\ \A i \in 1..(k-1) : s[i] # e
    BY <2>1, <2>3
  <2>6. front \in Seq(S) /\ Len(front) = k-1 /\ \A i \in 1..(k-1) : front[i] = s[i]
    BY <2>1, <2>5, SubSeqProperties
  <2>7. /\ back \in Seq(S) /\ Len(back) = Len(s) - k
        /\ \A i \in 1..(Len(s) - k) : back[i] = s[k+i]
    <3>1. \A i \in (k+1)..Len(s) : s[i] \in S
      BY <2>1, <2>5
    <3>2. QED
      BY <2>1, <2>5, <3>1, SubSeqProperties
  <2> HIDE DEF front, back
  <2>8. /\ front \o back \in Seq(S) /\ Len(front \o back) = Len(s) - 1
        /\ \A i \in 1..(Len(s) - 1) :
             (front \o back)[i] = IF i <= k-1 THEN front[i] ELSE back[i - (k-1)]
    <3>1. Len(front) + Len(back) = Len(s) - 1
      BY <2>1, <2>5, <2>6, <2>7
    <3>2. QED
      BY <2>6, <2>7, <3>1, ConcatProperties
  <2>9. RemoveFirst(s, e) = front \o back
    BY <2>4 DEF front, back
  <2>10. \A i \in 1..(Len(s) - 1) :
           RemoveFirst(s, e)[i] = IF i < k THEN s[i] ELSE s[i+1]
    BY <2>1, <2>5, <2>6, <2>7, <2>8, <2>9
  <2>11. QED
    BY <2>5, <2>8, <2>9, <2>10
<1>3. QED
  BY <1>1, <1>2

\* A user joins the queue at its end.
LEMMA AppendUser ==
  ASSUME NEW S, NEW s \in Seq(S), NEW e \in S, IsInjective(s), e \notin ToSet(s)
  PROVE  /\ IsInjective(Append(s, e))
         /\ ToSet(Append(s, e)) = ToSet(s) \cup {e}
         /\ Append(s, e) # <<>>
         /\ Head(Append(s, e)) = IF s = <<>> THEN e ELSE Head(s)
<1>1. /\ Append(s, e) \in Seq(S) /\ Append(s, e) # <<>>
      /\ Len(Append(s, e)) = Len(s) + 1
      /\ \A i \in 1..Len(s) : Append(s, e)[i] = s[i]
      /\ Append(s, e)[Len(s) + 1] = e
  BY AppendProperties
<1>2. /\ DOMAIN s = 1..Len(s) /\ Len(s) \in Nat
      /\ DOMAIN Append(s, e) = 1..(Len(s) + 1)
  BY <1>1, LenProperties
<1>3. IsInjective(Append(s, e))
  BY <1>1, <1>2 DEF IsInjective, ToSet
<1>4. ToSet(Append(s, e)) = ToSet(s) \cup {e}
  BY <1>1, <1>2 DEF ToSet
<1>5. QED
  BY <1>1, <1>3, <1>4, HeadTailAppend

\* The holder leaves the queue at its head.
LEMMA TailUsers ==
  ASSUME NEW S, NEW s \in Seq(S), s # <<>>, IsInjective(s)
  PROVE  /\ Tail(s) \in Seq(S)
         /\ IsInjective(Tail(s))
         /\ ToSet(Tail(s)) = ToSet(s) \ {Head(s)}
<1>1. /\ Tail(s) \in Seq(S) /\ Len(Tail(s)) = Len(s) - 1
      /\ \A i \in 1..(Len(s) - 1) : Tail(s)[i] = s[i+1]
      /\ Head(s) = s[1]
  BY HeadTailProperties
<1>2. /\ DOMAIN s = 1..Len(s) /\ Len(s) \in Nat \ {0}
      /\ DOMAIN Tail(s) = 1..(Len(s) - 1)
  BY <1>1, LenProperties, EmptySeq
<1>3. IsInjective(Tail(s))
  BY <1>1, <1>2 DEF IsInjective
<1>4. \A i \in 2..Len(s) : s[i] = Tail(s)[i-1] /\ i-1 \in 1..(Len(s) - 1)
  BY <1>1, <1>2
<1>5. ToSet(Tail(s)) \subseteq ToSet(s) \ {Head(s)}
  BY <1>1, <1>2 DEF IsInjective, ToSet
<1>6. ToSet(s) \ {Head(s)} \subseteq ToSet(Tail(s))
  <2>1. \A i \in 2..Len(s) : s[i] \in ToSet(Tail(s))
    BY <1>2, <1>4 DEF ToSet
  <2>2. QED
    BY <1>1, <1>2, <2>1 DEF ToSet
<1>7. QED
  BY <1>1, <1>3, <1>5, <1>6

\* A user that is cancelled leaves the queue wherever it is; the head of the
\* queue stays what it is unless it is that user.
LEMMA RemoveUser ==
  ASSUME NEW S, NEW s \in Seq(S), NEW e, IsInjective(s)
  PROVE  /\ RemoveFirst(s, e) \in Seq(S)
         /\ IsInjective(RemoveFirst(s, e))
         /\ ToSet(RemoveFirst(s, e)) = ToSet(s) \ {e}
         /\ s # <<>> /\ Head(s) # e =>
              RemoveFirst(s, e) # <<>> /\ Head(RemoveFirst(s, e)) = Head(s)
<1> DEFINE r == RemoveFirst(s, e)
<1>1. DOMAIN s = 1..Len(s) /\ Len(s) \in Nat
  BY LenProperties
<1>2. CASE r = s /\ \A i \in 1..Len(s) : s[i] # e
  BY <1>1, <1>2 DEF ToSet
<1>3. ASSUME NEW k \in 1..Len(s), s[k] = e,
             r \in Seq(S), Len(r) = Len(s) - 1,
             \A i \in 1..(Len(s) - 1) : r[i] = IF i < k THEN s[i] ELSE s[i+1]
      PROVE  /\ IsInjective(r)
             /\ ToSet(r) = ToSet(s) \ {e}
             /\ s # <<>> /\ Head(s) # e => r # <<>> /\ Head(r) = Head(s)
  <2> HIDE DEF r
  <2>1. DOMAIN r = 1..(Len(s) - 1)
    BY <1>3, LenProperties
  <2>0. \A j \in DOMAIN r : \E i \in 1..Len(s) :
          i # k /\ i = (IF j < k THEN j ELSE j + 1) /\ r[j] = s[i]
    BY <1>1, <1>3, <2>1
  <2>2. IsInjective(r)
    <3>1. SUFFICES ASSUME NEW a \in DOMAIN r, NEW b \in DOMAIN r, r[a] = r[b] PROVE a = b
      BY DEF IsInjective
    <3>2. PICK i \in 1..Len(s) : i = (IF a < k THEN a ELSE a + 1) /\ r[a] = s[i]
      BY <2>0
    <3>3. PICK j \in 1..Len(s) : j = (IF b < k THEN b ELSE b + 1) /\ r[b] = s[j]
      BY <2>0
    <3>4. i = j
      BY <1>1, <3>1, <3>2, <3>3 DEF IsInjective
    <3>5. QED
      BY <1>1, <1>3, <2>1, <3>2, <3>3, <3>4
  <2>3. ToSet(r) \subseteq ToSet(s) \ {e}
    <3>1. \A j \in DOMAIN r : \E i \in DOMAIN s : i # k /\ r[j] = s[i]
      BY <1>1, <2>0
    <3>2. \A i \in DOMAIN s : i # k => s[i] # e
      BY <1>1, <1>3 DEF IsInjective
    <3>3. QED
      BY <3>1, <3>2 DEF ToSet
  <2>4. ASSUME NEW i \in 1..Len(s), i # k
        PROVE  s[i] \in ToSet(r)
    <3>1. CASE i < k
      BY <1>1, <1>3, <2>1, <3>1 DEF ToSet
    <3>2. CASE i > k
      <4>1. i-1 \in 1..(Len(s) - 1) /\ r[i-1] = s[i]
        BY <1>1, <1>3, <3>2
      <4>2. QED
        BY <2>1, <4>1 DEF ToSet
    <3>3. QED
      BY <1>1, <2>4, <3>1, <3>2
  <2>5. ToSet(s) \ {e} \subseteq ToSet(r)
    BY <1>1, <1>3, <2>4 DEF ToSet
  <2>6. ASSUME s # <<>>, Head(s) # e
        PROVE  r # <<>> /\ Head(r) = Head(s)
    <3>1. Head(s) = s[1] /\ k # 1
      BY <1>3, <2>6
    <3>2. 1 \in 1..(Len(s) - 1) /\ r[1] = s[1]
      BY <1>1, <1>3, <3>1
    <3>3. r # <<>>
      BY <1>3, <3>2, EmptySeq
    <3>4. QED
      BY <1>3, <3>1, <3>2, <3>3
  <2>7. QED
    BY <2>2, <2>3, <2>5, <2>6
<1>4. QED
  BY <1>2, <1>3, RemoveFirstProperties

-----------------------------------------------------------------------------
(* The adapter and the sessions *)

Users == Nodes \cup {Scanner}

\* Who uses the adapter is at the head of the lock's queue.
HolderAtHead ==
  /\ \A n \in Nodes : HoldsAdapter(n) => adapter # <<>> /\ Head(adapter) = n
  /\ scan = "scanning" => adapter # <<>> /\ Head(adapter) = Scanner

-----------------------------------------------------------------------------
(* The variables the session's task assigns, and their types.                *)

TaskTyped ==
  /\ pc \in [Nodes -> Locations]
  /\ updated \in [Nodes -> BOOLEAN]
  /\ connected \in [Nodes -> BOOLEAN]
  /\ waiting \in [Nodes -> BOOLEAN]
  /\ unavailable \in [Nodes -> BOOLEAN]
  /\ link \in [Nodes -> BOOLEAN]
  /\ leftover \in [Nodes -> BOOLEAN]
  /\ adapter \in Seq(Users)

DaemonTyped ==
  /\ scan \in {"off", "sleep", "lockwait", "scanning"}
  /\ daemon \in {"running", "stopping", "joining", "joined", "exiting"}
  /\ stopping \in [Nodes -> BOOLEAN]

CommandTyped ==
  /\ worker \in [Nodes -> {"none", "start", "get", "writing"}]
  /\ issued \in [Nodes -> Nat]
  /\ queue \in [Nodes -> Seq(Nat)]
  /\ inflight \in [Nodes -> Seq(Nat)]
  /\ delivered \in [Nodes -> Seq(Nat)]

\* The three groups together are TypeOK, in the current and in the next state.
LEMMA TypeSplit ==
  /\ TypeOK <=> TaskTyped /\ DaemonTyped /\ CommandTyped
  /\ TypeOK' <=> TaskTyped' /\ DaemonTyped' /\ CommandTyped'
BY DEF TypeOK, TaskTyped, DaemonTyped, CommandTyped, Users

\* Joining the lock's queue keeps it a sequence of users of the adapter.
LEMMA BeginAttemptTyped ==
  ASSUME TaskTyped, NEW n \in Nodes, NEW lock \in Seq(Users), BeginAttempt(n, lock)
  PROVE  /\ pc' \in [Nodes -> Locations]
         /\ updated' \in [Nodes -> BOOLEAN]
         /\ adapter' \in Seq(Users)
<1>1. adapter' \in Seq(Users)
  BY AppendProperties DEF BeginAttempt, Users
<1>2. QED
  BY <1>1 DEF BeginAttempt, TaskTyped, Goto, Locations

\* The end of an iteration keeps the types.
LEMMA NextAttemptTyped ==
  ASSUME TaskTyped, NEW n \in Nodes, NEW lock \in Seq(Users), NextAttempt(n, lock)
  PROVE  /\ pc' \in [Nodes -> Locations]
         /\ updated' \in [Nodes -> BOOLEAN]
         /\ waiting' \in [Nodes -> BOOLEAN]
         /\ adapter' \in Seq(Users)
<1>1. CASE BeginAttempt(n, lock) /\ waiting' = [waiting EXCEPT ![n] = TRUE]
  BY <1>1, BeginAttemptTyped DEF TaskTyped
<1>2. CASE ~ BeginAttempt(n, lock)
  BY <1>2 DEF NextAttempt, TaskTyped, Goto, Locations
<1>3. QED
  BY <1>1, <1>2 DEF NextAttempt, TaskTyped, Goto, Locations

\* So do the finally clause and an exception in the body.
LEMMA FinallyTyped ==
  ASSUME TaskTyped, NEW n \in Nodes, NEW lock \in Seq(Users), Finally(n, lock)
  PROVE  /\ pc' \in [Nodes -> Locations]
         /\ updated' \in [Nodes -> BOOLEAN]
         /\ connected' \in [Nodes -> BOOLEAN]
         /\ waiting' \in [Nodes -> BOOLEAN]
         /\ adapter' \in Seq(Users)
<1>1. CASE Forget(n, lock)
  BY <1>1, NextAttemptTyped DEF Forget, TaskTyped
<1>2. CASE ~ Forget(n, lock)
  BY <1>2 DEF Finally, TaskTyped, Goto, Locations
<1>3. QED
  BY <1>1, <1>2

LEMMA FailureTyped ==
  ASSUME TaskTyped, NEW n \in Nodes, NEW lock \in Seq(Users), Failure(n, lock)
  PROVE  TaskTyped'
BY FinallyTyped DEF Failure, radio, TaskTyped

-----------------------------------------------------------------------------
(* Type correctness                                                          *)

\* Every step of a session's task keeps the types.  The tail of the lock's
\* queue is taken only by its holder, so the queue is not empty then.
LEMMA TaskStepTyped ==
  ASSUME TypeOK, HolderAtHead, NEW n \in Nodes, TaskStep(n)
  PROVE  TypeOK'
<1> USE TypeSplit
<1>1. HoldsAdapter(n) => Tail(adapter) \in Seq(Users)
  BY HeadTailProperties DEF HolderAtHead, TaskTyped
<1>2. CASE TargetUpdated(n)
  <2>1. TaskTyped'
    BY <1>2, BeginAttemptTyped DEF TargetUpdated, radio, TaskTyped, Goto, Locations
  <2>2. QED
    BY <1>2, <2>1 DEF TargetUpdated, DaemonTyped, CommandTyped, daemonVars, commandVars, workerVars
<1>3. CASE LockGranted(n)
  BY <1>3 DEF LockGranted, radio, TaskTyped, DaemonTyped, CommandTyped, Goto, Locations,
              daemonVars, commandVars, workerVars
<1>4. CASE Connect(n)
  <2>1. TaskTyped'
    <3>1. CASE Failure(n, Tail(adapter))
      BY <1>1, <1>4, <3>1, FailureTyped DEF Connect, HoldsAdapter
    <3>2. CASE ~ Failure(n, Tail(adapter))
      <4>1. PICK up \in BOOLEAN :
              /\ link' = [link EXCEPT ![n] = up]
              /\ connected' = [connected EXCEPT ![n] = up]
        BY <1>4, <3>2 DEF Connect
      <4>2. link' \in [Nodes -> BOOLEAN] /\ connected' \in [Nodes -> BOOLEAN]
        BY <4>1, Zenon DEF TaskTyped
      <4>3. QED
        BY <1>4, <3>2, <4>2 DEF Connect, TaskTyped, Goto, Locations
    <3>3. QED
      BY <3>1, <3>2
  <2>2. QED
    BY <1>4, <2>1 DEF Connect, DaemonTyped, CommandTyped, daemonVars, commandVars, workerVars
<1>5. CASE Subscribe(n)
  <2>1. TaskTyped'
    <3>1. CASE Failure(n, Tail(adapter))
      BY <1>1, <1>5, <3>1, FailureTyped DEF Subscribe, HoldsAdapter
    <3>2. CASE ~ Failure(n, Tail(adapter))
      BY <1>1, <1>5, <3>2 DEF Subscribe, HoldsAdapter, radio, TaskTyped, Goto, Locations
    <3>3. QED
      BY <3>1, <3>2
  <2>2. QED
    BY <1>5, <2>1 DEF Subscribe, DaemonTyped, CommandTyped, daemonVars
<1>6. CASE Wake(n)
  BY <1>6 DEF Wake, radio, TaskTyped, DaemonTyped, CommandTyped, Goto, Locations,
              daemonVars, commandVars, workerVars
<1>7. CASE CancelWorker(n)
  BY <1>7, EmptySeq DEF CancelWorker, radio, TaskTyped, DaemonTyped, CommandTyped, Goto, Locations,
                        daemonVars
<1>8. CASE StopNotify(n)
  <2>1. TaskTyped'
    <3>1. CASE Failure(n, adapter)
      BY <3>1, FailureTyped DEF TaskTyped
    <3>2. CASE ~ Failure(n, adapter)
      BY <1>8, <3>2 DEF StopNotify, radio, TaskTyped, Goto, Locations
    <3>3. QED
      BY <3>1, <3>2
  <2>2. QED
    BY <1>8, <2>1 DEF StopNotify, DaemonTyped, CommandTyped, daemonVars, commandVars, workerVars
<1>9. CASE Disconnect(n)
  <2>1. TaskTyped'
    <3>1. CASE Failure(n, adapter)
      BY <3>1, FailureTyped DEF TaskTyped
    <3>2. CASE Finally(n, adapter) /\ UNCHANGED <<radio, unavailable>>
      BY <3>2, FinallyTyped DEF radio, TaskTyped
    <3>3. CASE /\ link' = [link EXCEPT ![n] = FALSE] /\ Forget(n, adapter)
               /\ UNCHANGED <<unavailable, leftover>>
      BY <3>3, NextAttemptTyped DEF Forget, TaskTyped
    <3>4. QED
      BY <1>9, <3>1, <3>2, <3>3 DEF Disconnect
  <2>2. QED
    BY <1>9, <2>1 DEF Disconnect, DaemonTyped, CommandTyped, daemonVars, commandVars, workerVars
<1>10. CASE FinalDisconnect(n)
  <2>1. TaskTyped'
    <3>1. CASE Forget(n, adapter)
      <4>1. link' \in [Nodes -> BOOLEAN] /\ leftover' \in [Nodes -> BOOLEAN]
        BY <1>10, <3>1 DEF FinalDisconnect, radio, TaskTyped
      <4>2. QED
        BY <1>10, <3>1, <4>1, NextAttemptTyped DEF FinalDisconnect, Forget, TaskTyped
    <3>2. CASE ~ Forget(n, adapter)
      BY <1>10, <3>2 DEF FinalDisconnect, radio, TaskTyped, Goto, Locations
    <3>3. QED
      BY <3>1, <3>2
  <2>2. QED
    BY <1>10, <2>1 DEF FinalDisconnect, DaemonTyped, CommandTyped, daemonVars, commandVars, workerVars
<1>11. QED
  BY <1>2, <1>3, <1>4, <1>5, <1>6, <1>7, <1>8, <1>9, <1>10 DEF TaskStep

-----------------------------------------------------------------------------
(* Steps of the command worker and of the daemon                             *)

LEMMA GetCommandTyped ==
  ASSUME CommandTyped, NEW n \in Nodes, GetCommand(n)
  PROVE  /\ worker' \in [Nodes -> {"none", "start", "get", "writing"}]
         /\ queue' \in [Nodes -> Seq(Nat)]
         /\ inflight' \in [Nodes -> Seq(Nat)]
<1>1. CASE queue[n] # <<>>
  <2>1. Head(queue[n]) \in Nat /\ Tail(queue[n]) \in Seq(Nat)
    BY <1>1, HeadTailProperties DEF CommandTyped
  <2>2. <<Head(queue[n])>> \in Seq(Nat)
    BY <2>1
  <2>3. QED
    BY <1>1, <2>1, <2>2 DEF GetCommand, CommandTyped
<1>2. CASE queue[n] = <<>>
  BY <1>2, EmptySeq DEF GetCommand, CommandTyped
<1>3. QED
  BY <1>1, <1>2

\* The worker, the sender and the radio keep the types.
LEMMA CommandStepTyped ==
  ASSUME TypeOK, NEW n \in Nodes,
         WorkerLoop(n) \/ WorkerWake(n) \/ SendCommand(n) \/ RadioTakes(n)
  PROVE  TypeOK'
<1> USE TypeSplit
<1>1. TaskTyped' /\ DaemonTyped'
  BY DEF WorkerLoop, WorkerWake, SendCommand, RadioTakes, radio, TaskTyped, DaemonTyped, Users,
         taskVars, daemonVars, Locations
<1>2. CASE WorkerLoop(n)
  <2>1. CASE GetCommand(n)
    BY <1>1, <1>2, <2>1, GetCommandTyped DEF WorkerLoop, CommandTyped
  <2>2. CASE ~ GetCommand(n)
    <3>1. /\ worker' = [worker EXCEPT ![n] = "none"]
          /\ inflight' = [inflight EXCEPT ![n] = <<>>]
          /\ UNCHANGED <<queue, issued, delivered>>
      BY <1>2, <2>2 DEF WorkerLoop
    <3>2. CommandTyped'
      BY <3>1, EmptySeq DEF CommandTyped
    <3>3. QED
      BY <1>1, <3>2
  <2>3. QED
    BY <2>1, <2>2
<1>3. CASE WorkerWake(n)
  BY <1>1, <1>3, GetCommandTyped DEF WorkerWake, CommandTyped
<1>4. CASE SendCommand(n)
  <2>1. Append(queue[n], issued[n] + 1) \in Seq(Nat)
    BY AppendProperties DEF CommandTyped
  <2>2. QED
    BY <1>1, <1>4, <2>1 DEF SendCommand, CommandTyped
<1>5. CASE RadioTakes(n)
  <2>1. Append(delivered[n], Head(inflight[n])) \in Seq(Nat)
    BY <1>5, HeadTailProperties, AppendProperties DEF RadioTakes, CommandTyped
  <2>2. QED
    BY <1>1, <1>5, <2>1, EmptySeq DEF RadioTakes, CommandTyped
<1>6. QED
  BY <1>2, <1>3, <1>4, <1>5

LEMMA EnsureTargetsTyped ==
  ASSUME TaskTyped, NEW S \in SUBSET Nodes, EnsureTargets(S), adapter' \in Seq(Users)
  PROVE  TaskTyped'
<1>1. pc' \in [Nodes -> Locations]
  BY DEF EnsureTargets, TaskTyped, Locations
<1>2. updated' \in [Nodes -> BOOLEAN]
  BY Zenon DEF EnsureTargets, TaskTyped
<1>3. waiting' \in [Nodes -> BOOLEAN]
  BY Zenon DEF EnsureTargets, TaskTyped
<1>4. QED
  BY <1>1, <1>2, <1>3 DEF EnsureTargets, radio, TaskTyped

-----------------------------------------------------------------------------
(* The queue of the adapter lock                                             *)

AdapterUsers ==
  { n \in Nodes : HoldsAdapter(n) \/ AwaitsAdapter(n) }
    \cup { s \in {Scanner} : scan \in {"lockwait", "scanning"} }

LockInv == HolderAtHead /\ AdapterAccounted

\* The queue as it is for a step of session n that does not use the adapter, or
\* that has just released it: the other users and nobody else.
Released(n, lock) ==
  /\ lock \in Seq(Users)
  /\ IsInjective(lock)
  /\ ToSet(lock) = AdapterUsers \ {n}
  /\ \A m \in Nodes \ {n} : HoldsAdapter(m) => lock # <<>> /\ Head(lock) = m
  /\ scan = "scanning" => lock # <<>> /\ Head(lock) = Scanner

\* A session that does not use the adapter is not in the queue, and one that
\* holds it leaves the queue by releasing it.
LEMMA ReleasedByUser ==
  ASSUME TypeOK, LockInv, NEW n \in Nodes
  PROVE  /\ ~HoldsAdapter(n) /\ ~AwaitsAdapter(n) => Released(n, adapter)
         /\ HoldsAdapter(n) => Released(n, Tail(adapter))
<1>1. adapter \in Seq(Users)
  BY TypeSplit DEF TaskTyped
<1>2. IsInjective(adapter) /\ ToSet(adapter) = AdapterUsers
  BY DEF LockInv, AdapterAccounted, AdapterUsers
<1>3. n # Scanner
  BY ScannerIsNotANode
<1>4. ASSUME ~HoldsAdapter(n), ~AwaitsAdapter(n)
      PROVE  Released(n, adapter)
  <2>1. n \notin AdapterUsers
    BY <1>3, <1>4 DEF AdapterUsers
  <2>2. QED
    BY <1>1, <1>2, <2>1 DEF Released, LockInv, HolderAtHead
<1>5. ASSUME HoldsAdapter(n)
      PROVE  Released(n, Tail(adapter))
  <2>1. adapter # <<>> /\ Head(adapter) = n
    BY <1>5 DEF LockInv, HolderAtHead
  <2>2. scan # "scanning" /\ \A m \in Nodes \ {n} : ~HoldsAdapter(m)
    BY <1>3, <2>1 DEF LockInv, HolderAtHead
  <2>3. QED
    BY <1>1, <1>2, <2>1, <2>2, TailUsers DEF Released
<1>6. QED
  BY <1>4, <1>5

\* A step of n that neither takes the adapter nor asks for it.
LEMMA LeaveQueue ==
  ASSUME TypeOK, NEW n \in Nodes, NEW lock, Released(n, lock), adapter' = lock,
         NEW location \in Locations \ {"lockwait", "connecting", "subscribing"},
         Goto(n, location), scan' = scan
  PROVE  LockInv'
<1>1. pc \in [Nodes -> Locations]
  BY TypeSplit DEF TaskTyped
<1>2. \A m \in Nodes : pc'[m] = IF m = n THEN location ELSE pc[m]
  BY <1>1 DEF Goto
<1>3. \A m \in Nodes : /\ HoldsAdapter(m)' <=> m # n /\ HoldsAdapter(m)
                       /\ AwaitsAdapter(m)' <=> m # n /\ AwaitsAdapter(m)
  BY <1>2 DEF HoldsAdapter, AwaitsAdapter
<1>4. HolderAtHead'
  BY <1>3 DEF Released, HolderAtHead
<1>5. AdapterUsers' = AdapterUsers \ {n}
  BY <1>3, ScannerIsNotANode DEF AdapterUsers
<1>6. AdapterAccounted'
  BY <1>5 DEF Released, AdapterAccounted, AdapterUsers
<1>7. QED
  BY <1>4, <1>6 DEF LockInv

\* A step of n that asks for the adapter, and gets it if nobody uses it.
LEMMA JoinQueue ==
  ASSUME TypeOK, NEW n \in Nodes, NEW lock, Released(n, lock),
         BeginAttempt(n, lock), scan' = scan
  PROVE  LockInv'
<1> DEFINE location == IF lock = <<>> THEN "connecting" ELSE "lockwait"
<1>1. pc \in [Nodes -> Locations]
  BY TypeSplit DEF TaskTyped
<1>2. \A m \in Nodes : pc'[m] = IF m = n THEN location ELSE pc[m]
  BY <1>1 DEF BeginAttempt, Goto
<1>3. \A m \in Nodes : /\ HoldsAdapter(m)' <=> \/ m # n /\ HoldsAdapter(m)
                                               \/ m = n /\ lock = <<>>
                       /\ AwaitsAdapter(m)' <=> \/ m # n /\ AwaitsAdapter(m)
                                                \/ m = n /\ lock # <<>>
  BY <1>2 DEF HoldsAdapter, AwaitsAdapter
<1>4. /\ IsInjective(adapter')
      /\ ToSet(adapter') = ToSet(lock) \cup {n}
      /\ adapter' # <<>>
      /\ Head(adapter') = IF lock = <<>> THEN n ELSE Head(lock)
  <2>1. n \in Users /\ n \notin ToSet(lock) /\ lock \in Seq(Users) /\ IsInjective(lock)
    BY DEF Users, Released
  <2>2. QED
    BY <2>1, AppendUser DEF BeginAttempt
<1>5. HolderAtHead'
  BY <1>3, <1>4 DEF Released, HolderAtHead
<1>6. AdapterUsers' = (AdapterUsers \ {n}) \cup {n}
  BY <1>3 DEF AdapterUsers
<1>7. AdapterAccounted'
  BY <1>4, <1>6 DEF Released, AdapterAccounted, AdapterUsers
<1>8. QED
  BY <1>5, <1>7 DEF LockInv

\* So the end of an iteration, the finally clause and an exception in the body
\* keep the queue right.
LEMMA NextAttemptLock ==
  ASSUME TypeOK, NEW n \in Nodes, NEW lock, Released(n, lock),
         NextAttempt(n, lock), scan' = scan
  PROVE  LockInv'
<1>1. CASE BeginAttempt(n, lock)
  BY <1>1, JoinQueue
<1>2. CASE adapter' = lock /\ (Goto(n, "done") \/ Goto(n, "waitadv"))
  <2>1. {"done", "waitadv"} \subseteq Locations \ {"lockwait", "connecting", "subscribing"}
    BY DEF Locations
  <2>2. QED
    BY <1>2, <2>1, LeaveQueue
<1>3. QED
  BY <1>1, <1>2 DEF NextAttempt

LEMMA FinallyLock ==
  ASSUME TypeOK, NEW n \in Nodes, NEW lock, Released(n, lock),
         Finally(n, lock), scan' = scan
  PROVE  LockInv'
<1>1. CASE Forget(n, lock)
  BY <1>1, NextAttemptLock DEF Forget
<1>2. CASE adapter' = lock /\ Goto(n, "finaldisc")
  <2>1. "finaldisc" \in Locations \ {"lockwait", "connecting", "subscribing"}
    BY DEF Locations
  <2>2. QED
    BY <1>2, <2>1, LeaveQueue
<1>3. QED
  BY <1>1, <1>2 DEF Finally

\* A step that changes neither the queue nor who uses the adapter.
LEMMA SameUsers ==
  ASSUME LockInv, adapter' = adapter, scan' = scan,
         \A m \in Nodes : /\ HoldsAdapter(m)' <=> HoldsAdapter(m)
                          /\ AwaitsAdapter(m)' <=> AwaitsAdapter(m)
  PROVE  LockInv'
<1>1. HolderAtHead'
  BY DEF LockInv, HolderAtHead
<1>2. AdapterAccounted'
  BY DEF LockInv, AdapterAccounted
<1>3. QED
  BY <1>1, <1>2 DEF LockInv

\* Every step of a session's task keeps the queue right.
LEMMA TaskStepLock ==
  ASSUME TypeOK, LockInv, NEW n \in Nodes, TaskStep(n)
  PROVE  LockInv'
<1>1. pc \in [Nodes -> Locations]
  BY TypeSplit DEF TaskTyped
<1>2. scan' = scan
  BY DEF TaskStep, TargetUpdated, LockGranted, Connect, Subscribe, Wake, CancelWorker,
         StopNotify, Disconnect, FinalDisconnect, daemonVars
<1>3. ASSUME pc[n] \notin {"lockwait", "connecting", "subscribing"}
      PROVE  Released(n, adapter)
  BY <1>3, ReleasedByUser DEF HoldsAdapter, AwaitsAdapter
<1>4. ASSUME pc[n] \in {"connecting", "subscribing"}
      PROVE  Released(n, Tail(adapter))
  BY <1>4, ReleasedByUser DEF HoldsAdapter
<1>5. CASE TargetUpdated(n)
  <2>1. CASE BeginAttempt(n, adapter)
    BY <1>2, <1>3, <1>5, <2>1, JoinQueue DEF TargetUpdated
  <2>2. CASE Goto(n, "done") /\ adapter' = adapter
    BY <1>2, <1>3, <1>5, <2>2, LeaveQueue DEF TargetUpdated, Locations
  <2>3. QED
    BY <1>5, <2>1, <2>2 DEF TargetUpdated
<1>6. CASE LockGranted(n)
  <2>1. \A m \in Nodes : /\ HoldsAdapter(m)' <=> m = n \/ HoldsAdapter(m)
                         /\ AwaitsAdapter(m)' <=> m # n /\ AwaitsAdapter(m)
    BY <1>1, <1>6 DEF LockGranted, Goto, HoldsAdapter, AwaitsAdapter
  <2>2. adapter # <<>> /\ Head(adapter) = n /\ adapter' = adapter
    <3>1. n \in ToSet(adapter)
      BY <1>6 DEF LockGranted, LockInv, AdapterAccounted
    <3>2. adapter # <<>>
      BY <3>1 DEF ToSet
    <3>3. QED
      BY <1>6, <3>2 DEF LockGranted
  <2>3. HolderAtHead'
    BY <1>2, <2>1, <2>2 DEF LockInv, HolderAtHead
  <2>4. AdapterUsers' = AdapterUsers
    BY <1>2, <1>6, <2>1 DEF AdapterUsers, LockGranted
  <2>5. QED
    BY <2>2, <2>3, <2>4 DEF LockInv, AdapterAccounted, AdapterUsers
<1>7. CASE Connect(n)
  <2>1. CASE Failure(n, Tail(adapter))
    BY <1>2, <1>4, <1>7, <2>1, FinallyLock DEF Connect, Failure
  <2>2. CASE Goto(n, "subscribing") /\ adapter' = adapter
    <3>1. \A m \in Nodes : /\ HoldsAdapter(m)' <=> HoldsAdapter(m)
                           /\ AwaitsAdapter(m)' <=> AwaitsAdapter(m)
      BY <1>1, <1>7, <2>2 DEF Connect, Goto, HoldsAdapter, AwaitsAdapter
    <3>2. QED
      BY <1>2, <2>2, <3>1, SameUsers
  <2>3. QED
    BY <1>7, <2>1, <2>2 DEF Connect
<1>8. CASE Subscribe(n)
  <2>1. CASE Failure(n, Tail(adapter))
    BY <1>2, <1>4, <1>8, <2>1, FinallyLock DEF Subscribe, Failure
  <2>2. CASE Goto(n, "active") /\ adapter' = Tail(adapter)
    BY <1>2, <1>4, <1>8, <2>2, LeaveQueue DEF Subscribe, Locations
  <2>3. QED
    BY <1>8, <2>1, <2>2 DEF Subscribe
<1>9. CASE Wake(n)
  BY <1>2, <1>3, <1>9, LeaveQueue DEF Wake, Locations
<1>10. CASE CancelWorker(n)
  BY <1>2, <1>3, <1>10, LeaveQueue DEF CancelWorker, Locations
<1>11. CASE StopNotify(n)
  <2>1. CASE Failure(n, adapter)
    BY <1>2, <1>3, <1>11, <2>1, FinallyLock DEF StopNotify, Failure
  <2>2. CASE Goto(n, "disconnecting") /\ adapter' = adapter
    BY <1>2, <1>3, <1>11, <2>2, LeaveQueue DEF StopNotify, Locations
  <2>3. QED
    BY <1>11, <2>1, <2>2 DEF StopNotify
<1>12. CASE Disconnect(n)
  <2>1. CASE Finally(n, adapter)
    BY <1>2, <1>3, <1>12, <2>1, FinallyLock DEF Disconnect
  <2>2. CASE NextAttempt(n, adapter)
    BY <1>2, <1>3, <1>12, <2>2, NextAttemptLock DEF Disconnect
  <2>3. QED
    BY <1>12, <2>1, <2>2 DEF Disconnect, Failure, Forget
<1>13. CASE FinalDisconnect(n)
  <2>1. CASE NextAttempt(n, adapter)
    BY <1>2, <1>3, <1>13, <2>1, NextAttemptLock DEF FinalDisconnect
  <2>2. CASE Goto(n, "crashed") /\ adapter' = adapter
    BY <1>2, <1>3, <1>13, <2>2, LeaveQueue DEF FinalDisconnect, Locations
  <2>3. QED
    BY <1>13, <2>1, <2>2 DEF FinalDisconnect, Forget
<1>14. QED
  BY <1>5, <1>6, <1>7, <1>8, <1>9, <1>10, <1>11, <1>12, <1>13 DEF TaskStep

\* The end of a session by the loss of an earlier link leaves the queue as it is.
LEMMA LateLossLock ==
  ASSUME TypeOK, LockInv, NEW n \in Nodes, LateLoss(n)
  PROVE  LockInv'
<1>1. "unwinding" \in Locations \ {"lockwait", "connecting", "subscribing"}
  BY DEF Locations
<1>2. Released(n, adapter)
  BY ReleasedByUser DEF LateLoss, HoldsAdapter, AwaitsAdapter
<1>3. QED
  BY <1>1, <1>2, LeaveQueue DEF LateLoss, daemonVars

\* A cancelled session leaves the queue wherever in it it is, and nobody else does.
LEMMA ReleasedByCancel ==
  ASSUME TypeOK, LockInv, NEW n \in Nodes
  PROVE  Released(n, RemoveFirst(adapter, n))
<1>1. adapter \in Seq(Users)
  BY TypeSplit DEF TaskTyped
<1>2. IsInjective(adapter) /\ ToSet(adapter) = AdapterUsers
  BY DEF LockInv, AdapterAccounted, AdapterUsers
<1>3. /\ RemoveFirst(adapter, n) \in Seq(Users)
      /\ IsInjective(RemoveFirst(adapter, n))
      /\ ToSet(RemoveFirst(adapter, n)) = AdapterUsers \ {n}
      /\ adapter # <<>> /\ Head(adapter) # n =>
           /\ RemoveFirst(adapter, n) # <<>>
           /\ Head(RemoveFirst(adapter, n)) = Head(adapter)
  BY <1>1, <1>2, RemoveUser
<1>4. QED
  BY <1>3, ScannerIsNotANode DEF Released, LockInv, HolderAtHead

\* So the end of the process takes the sessions that are left out of the queue.
LEMMA ExitStepLock ==
  ASSUME TypeOK, LockInv, NEW n \in Nodes, ExitStep(n)
  PROVE  LockInv'
<1>1. {"canceldisc", "crashed"} \subseteq Locations \ {"lockwait", "connecting", "subscribing"}
  BY DEF Locations
<1>2. CASE Cancelled(n)
  <2>1. adapter' = RemoveFirst(adapter, n) /\ scan' = scan
    BY <1>2 DEF Cancelled, LetGo, daemonVars
  <2>2. Goto(n, "canceldisc") \/ Goto(n, "crashed")
    BY <1>2 DEF Cancelled
  <2>3. QED
    BY <1>1, <2>1, <2>2, ReleasedByCancel, LeaveQueue
<1>3. CASE CancelledDisconnect(n)
  <2>1. adapter' = adapter /\ scan' = scan /\ Goto(n, "crashed")
    BY <1>3 DEF CancelledDisconnect, daemonVars
  <2>2. Released(n, adapter)
    BY <1>3, ReleasedByUser DEF CancelledDisconnect, HoldsAdapter, AwaitsAdapter
  <2>3. QED
    BY <1>1, <2>1, <2>2, LeaveQueue
<1>4. QED
  BY <1>2, <1>3 DEF ExitStep

\* New sessions and new targets leave the adapter alone.
LEMMA EnsureTargetsUsers ==
  ASSUME TypeOK, NEW S \in SUBSET Nodes, EnsureTargets(S), NEW m \in Nodes
  PROVE  /\ HoldsAdapter(m)' <=> HoldsAdapter(m)
         /\ AwaitsAdapter(m)' <=> AwaitsAdapter(m)
BY DEF EnsureTargets, HoldsAdapter, AwaitsAdapter

\* So do the steps of the scan loop and of the shutdown.
LEMMA DaemonStepLock ==
  ASSUME TypeOK, LockInv, DaemonStep
  PROVE  LockInv'
<1>1. adapter \in Seq(Users) /\ Scanner \in Users /\ Scanner \notin Nodes
  BY TypeSplit, ScannerIsNotANode DEF TaskTyped, Users
<1>2. IsInjective(adapter) /\ ToSet(adapter) = AdapterUsers
  BY DEF LockInv, AdapterAccounted, AdapterUsers
<1>3. ASSUME UNCHANGED pc, NEW m \in Nodes
      PROVE  (HoldsAdapter(m)' <=> HoldsAdapter(m)) /\ (AwaitsAdapter(m)' <=> AwaitsAdapter(m))
  BY <1>3 DEF HoldsAdapter, AwaitsAdapter
<1>4. CASE ScanStart
  <2>1. UNCHANGED pc
    BY <1>4 DEF ScanStart, taskVars
  <2>2. Scanner \notin ToSet(adapter)
    BY <1>1, <1>2, <1>4 DEF ScanStart, AdapterUsers
  <2>3. /\ IsInjective(adapter') /\ ToSet(adapter') = ToSet(adapter) \cup {Scanner}
        /\ adapter' # <<>>
        /\ Head(adapter') = IF adapter = <<>> THEN Scanner ELSE Head(adapter)
    BY <1>1, <1>2, <1>4, <2>2, AppendUser DEF ScanStart
  <2>4. HolderAtHead'
    BY <1>3, <1>4, <2>1, <2>3 DEF ScanStart, LockInv, HolderAtHead
  <2>5. AdapterUsers' = AdapterUsers \cup {Scanner}
    BY <1>3, <1>4, <2>1 DEF ScanStart, AdapterUsers
  <2>6. QED
    BY <1>2, <2>3, <2>4, <2>5 DEF LockInv, AdapterAccounted, AdapterUsers
<1>5. CASE ScanGranted
  <2>1. UNCHANGED pc
    BY <1>5 DEF ScanGranted, taskVars
  <2>2. adapter # <<>>
    <3>1. Scanner \in ToSet(adapter)
      BY <1>2, <1>5 DEF ScanGranted, AdapterUsers
    <3>2. QED
      BY <3>1 DEF ToSet
  <2>3. HolderAtHead'
    BY <1>3, <1>5, <2>1, <2>2 DEF ScanGranted, LockInv, HolderAtHead
  <2>4. AdapterUsers' = AdapterUsers
    BY <1>3, <1>5, <2>1 DEF ScanGranted, AdapterUsers
  <2>5. QED
    BY <1>2, <1>5, <2>3, <2>4 DEF ScanGranted, LockInv, AdapterAccounted, AdapterUsers
<1>6. CASE \E S \in SUBSET Nodes : ScanDone(S)
  <2>1. PICK S \in SUBSET Nodes : ScanDone(S)
    BY <1>6
  <2>2. \A m \in Nodes : /\ HoldsAdapter(m)' <=> HoldsAdapter(m)
                         /\ AwaitsAdapter(m)' <=> AwaitsAdapter(m)
    BY <2>1, EnsureTargetsUsers DEF ScanDone
  <2>3. adapter # <<>> /\ Head(adapter) = Scanner /\ scan = "scanning"
    BY <2>1 DEF ScanDone, LockInv, HolderAtHead
  <2>4. \A m \in Nodes : ~HoldsAdapter(m)
    BY <1>1, <2>3 DEF LockInv, HolderAtHead
  <2>5. HolderAtHead'
    BY <2>1, <2>2, <2>4 DEF ScanDone, HolderAtHead
  <2>6. AdapterUsers' = AdapterUsers \ {Scanner}
    BY <1>1, <2>1, <2>2 DEF ScanDone, AdapterUsers
  <2>7. IsInjective(adapter') /\ ToSet(adapter') = ToSet(adapter) \ {Scanner}
    BY <1>1, <1>2, <2>1, <2>3, TailUsers DEF ScanDone
  <2>8. QED
    BY <1>2, <2>5, <2>6, <2>7 DEF LockInv, AdapterAccounted, AdapterUsers
<1>7. CASE StopAll
  <2>1. UNCHANGED pc /\ scan' = "off" /\ adapter' = RemoveFirst(adapter, Scanner)
    BY <1>7 DEF StopAll, taskVars
  <2>2. /\ IsInjective(adapter') /\ ToSet(adapter') = ToSet(adapter) \ {Scanner}
        /\ adapter # <<>> /\ Head(adapter) # Scanner =>
             adapter' # <<>> /\ Head(adapter') = Head(adapter)
    BY <1>1, <1>2, <2>1, RemoveUser
  <2>3. HolderAtHead'
    BY <1>1, <1>3, <2>1, <2>2 DEF LockInv, HolderAtHead
  <2>4. AdapterUsers' = AdapterUsers \ {Scanner}
    BY <1>1, <1>3, <2>1 DEF AdapterUsers
  <2>5. QED
    BY <1>2, <2>2, <2>3, <2>4 DEF LockInv, AdapterAccounted, AdapterUsers
<1>8. CASE RequestStop \/ AllJoined \/ Exit \/ Ended
  BY <1>3, <1>8, SameUsers DEF RequestStop, AllJoined, Exit, Ended, vars, taskVars, daemonVars
<1>9. QED
  BY <1>4, <1>5, <1>6, <1>7, <1>8 DEF DaemonStep

\* A new target leaves the types alone.
LEMMA ConnectRequestTyped ==
  ASSUME TypeOK, NEW n \in Nodes, ConnectRequest(n)
  PROVE  TypeOK'
<1>1. TaskTyped'
  BY TypeSplit, EnsureTargetsTyped DEF ConnectRequest, TaskTyped
<1>2. QED
  BY <1>1, TypeSplit DEF ConnectRequest, EnsureTargets, DaemonTyped, CommandTyped,
                         commandVars, workerVars

\* So do the steps of the scan loop and of the shutdown.
LEMMA DaemonStepTyped ==
  ASSUME TypeOK, LockInv, DaemonStep
  PROVE  TypeOK'
<1> USE TypeSplit
<1>1. adapter \in Seq(Users) /\ Scanner \in Users
  BY DEF TaskTyped, Users
<1>2. CASE ScanStart
  <2>1. adapter' \in Seq(Users)
    BY <1>1, <1>2, AppendProperties DEF ScanStart
  <2>2. QED
    BY <1>2, <2>1 DEF ScanStart, radio, TaskTyped, DaemonTyped, CommandTyped, taskVars, commandVars,
                      workerVars
<1>3. CASE ScanGranted
  BY <1>3 DEF ScanGranted, radio, TaskTyped, DaemonTyped, CommandTyped, taskVars, commandVars,
              workerVars
<1>4. CASE \E S \in SUBSET Nodes : ScanDone(S)
  <2>1. PICK S \in SUBSET Nodes : ScanDone(S)
    BY <1>4
  <2>2. adapter' \in Seq(Users)
    BY <1>1, <2>1, HeadTailProperties DEF ScanDone, LockInv, HolderAtHead
  <2>3. TaskTyped'
    BY <2>1, <2>2, EnsureTargetsTyped DEF ScanDone
  <2>4. QED
    BY <2>1, <2>3 DEF ScanDone, EnsureTargets, DaemonTyped, CommandTyped, commandVars, workerVars
<1>5. CASE StopAll
  <2>1. adapter' \in Seq(Users)
    BY <1>1, <1>5, RemoveUser DEF StopAll, LockInv, AdapterAccounted
  <2>2. stopping' \in [Nodes -> BOOLEAN]
    BY <1>5 DEF StopAll
  <2>3. QED
    BY <1>5, <2>1, <2>2 DEF StopAll, radio, TaskTyped, DaemonTyped, CommandTyped, taskVars,
                            commandVars, workerVars
<1>6. CASE RequestStop \/ AllJoined \/ Exit \/ Ended
  BY <1>6 DEF RequestStop, AllJoined, Exit, Ended, vars, daemonVars, radio, TaskTyped, DaemonTyped, CommandTyped, taskVars,
              commandVars, workerVars
<1>7. QED
  BY <1>2, <1>3, <1>4, <1>5, <1>6 DEF DaemonStep

\* The end of the process leaves the types alone too.
LEMMA ExitStepTyped ==
  ASSUME TypeOK, LockInv, NEW n \in Nodes, ExitStep(n)
  PROVE  TypeOK'
<1> USE TypeSplit
<1>1. {"canceldisc", "crashed"} \subseteq Locations
  BY DEF Locations
<1>2. CASE Cancelled(n)
  <2>1. adapter' \in Seq(Users)
    BY <1>2, RemoveUser DEF Cancelled, LetGo, LockInv, AdapterAccounted, TaskTyped
  <2>2. pc' \in [Nodes -> Locations] /\ connected' \in [Nodes -> BOOLEAN]
    BY <1>1, <1>2 DEF Cancelled, Goto, TaskTyped
  <2>3. TaskTyped' /\ DaemonTyped'
    BY <1>2, <2>1, <2>2 DEF Cancelled, radio, TaskTyped, DaemonTyped, daemonVars
  <2>4. CommandTyped'
    BY <1>2, EmptySeq DEF Cancelled, LetGo, CommandTyped
  <2>5. QED
    BY <2>3, <2>4
<1>3. CASE CancelledDisconnect(n)
  <2>1. pc' \in [Nodes -> Locations]
    BY <1>1, <1>3 DEF CancelledDisconnect, Goto, TaskTyped
  <2>2. link' \in [Nodes -> BOOLEAN] /\ connected' \in [Nodes -> BOOLEAN]
    BY <1>3 DEF CancelledDisconnect, TaskTyped
  <2>3. QED
    BY <1>3, <2>1, <2>2 DEF CancelledDisconnect, TaskTyped, DaemonTyped, CommandTyped,
                            daemonVars, commandVars, workerVars
<1>4. QED
  BY <1>2, <1>3 DEF ExitStep

LEMMA LinkLossTyped ==
  ASSUME TypeOK, NEW n \in Nodes, LinkDrop(n) \/ LateLoss(n)
  PROVE  TypeOK'
<1>1. CASE LinkDrop(n)
  BY <1>1, TypeSplit DEF LinkDrop, TaskTyped, DaemonTyped, CommandTyped, taskVars, daemonVars,
                         commandVars, workerVars
<1>2. CASE LateLoss(n)
  BY <1>2, TypeSplit DEF LateLoss, Goto, Locations, TaskTyped, DaemonTyped, CommandTyped,
                         daemonVars, commandVars, workerVars
<1>3. QED
  BY <1>1, <1>2

-----------------------------------------------------------------------------
(* The inductive invariant: the lock's queue is what makes the adapter       *)
(* exclusive, because who uses the adapter is the head of the queue.         *)

LEMMA InitLock == Init => TypeOK /\ LockInv
<1> SUFFICES ASSUME Init PROVE TypeOK /\ LockInv
  OBVIOUS
<1>1. TypeOK
  BY TypeSplit, EmptySeq, FlagsAreBoolean
     DEF Init, TaskTyped, DaemonTyped, CommandTyped, Locations, Users
<1>2. scan \notin {"lockwait", "scanning"} /\ DOMAIN adapter = {}
  BY DEF Init
<1>3. \A n \in Nodes : ~HoldsAdapter(n) /\ ~AwaitsAdapter(n)
  BY DEF Init, HoldsAdapter, AwaitsAdapter
<1>4. HolderAtHead
  BY <1>2, <1>3 DEF HolderAtHead
<1>5. AdapterAccounted
  BY <1>2, <1>3 DEF AdapterAccounted, ToSet, IsInjective
<1>6. QED
  BY <1>1, <1>4, <1>5 DEF LockInv

LEMMA NextLock == TypeOK /\ LockInv /\ [Next]_vars => TypeOK' /\ LockInv'
<1> SUFFICES ASSUME TypeOK, LockInv, [Next]_vars PROVE TypeOK' /\ LockInv'
  OBVIOUS
<1>1. CASE DaemonStep
  BY <1>1, DaemonStepTyped, DaemonStepLock
<1>2. ASSUME NEW n \in Nodes, TaskStep(n)
      PROVE  TypeOK' /\ LockInv'
  BY <1>2, TaskStepTyped, TaskStepLock DEF LockInv
<1>3. ASSUME NEW n \in Nodes,
             WorkerLoop(n) \/ WorkerWake(n) \/ SendCommand(n) \/ RadioTakes(n)
      PROVE  TypeOK' /\ LockInv'
  <2>1. UNCHANGED <<pc, adapter, scan>>
    BY <1>3 DEF WorkerLoop, WorkerWake, SendCommand, RadioTakes, taskVars, daemonVars
  <2>2. LockInv'
    BY <2>1, SameUsers DEF HoldsAdapter, AwaitsAdapter
  <2>3. QED
    BY <1>3, <2>2, CommandStepTyped
<1>4. ASSUME NEW n \in Nodes, ConnectRequest(n)
      PROVE  TypeOK' /\ LockInv'
  BY <1>4, ConnectRequestTyped, EnsureTargetsUsers, SameUsers DEF ConnectRequest
<1>5. ASSUME NEW n \in Nodes, LinkDrop(n)
      PROVE  TypeOK' /\ LockInv'
  <2>1. UNCHANGED <<pc, adapter, scan>>
    BY <1>5 DEF LinkDrop, taskVars, daemonVars
  <2>2. QED
    BY <1>5, <2>1, LinkLossTyped, SameUsers DEF HoldsAdapter, AwaitsAdapter
<1>6. CASE UNCHANGED vars
  <2>1. TypeOK'
    BY <1>6, TypeSplit DEF vars, radio, TaskTyped, DaemonTyped, CommandTyped, taskVars, daemonVars,
                           commandVars, workerVars
  <2>2. LockInv'
    BY <1>6, SameUsers DEF vars, taskVars, daemonVars, HoldsAdapter, AwaitsAdapter
  <2>3. QED
    BY <2>1, <2>2
<1>7. ASSUME NEW n \in Nodes, ExitStep(n)
      PROVE  TypeOK' /\ LockInv'
  BY <1>7, ExitStepTyped, ExitStepLock
<1>8. ASSUME NEW n \in Nodes, LateLoss(n)
      PROVE  TypeOK' /\ LockInv'
  BY <1>8, LinkLossTyped, LateLossLock
<1>9. QED
  BY <1>1, <1>2, <1>3, <1>4, <1>5, <1>6, <1>7, <1>8 DEF Next, NodeStep, WorkerStep

\* The invariant of the lock holds in every reachable state.
LEMMA LockInvariant == Spec => [](TypeOK /\ LockInv)
BY InitLock, NextLock, PTL DEF Spec

\* Every variable of a session keeps its type.
THEOREM TypeCorrect == Spec => []TypeOK
BY LockInvariant, PTL

\* The lock is queued for by exactly the tasks that await or hold it: no path
\* through connect, failure, disconnect, stop or cancellation leaks it.
THEOREM AdapterLockAccounted == Spec => []AdapterAccounted
<1>1. LockInv => AdapterAccounted
  BY DEF LockInv
<1>2. QED
  BY <1>1, LockInvariant, PTL

\* No two sessions connect or subscribe at once, and none does during a scan.
THEOREM AdapterIsExclusive == Spec => []AdapterExclusive
<1>1. LockInv => AdapterExclusive
  BY ScannerIsNotANode DEF LockInv, HolderAtHead, AdapterExclusive
<1>2. QED
  BY <1>1, LockInvariant, PTL

-----------------------------------------------------------------------------
(* Advertisements                                                            *)

\* The step that consumes the event is the one that joins the lock's queue.
LEMMA BeginAttemptLast ==
  ASSUME TypeOK, NEW n \in Nodes, NEW lock \in Seq(Users), BeginAttempt(n, lock)
  PROVE  \A m \in Nodes : updated[m] /\ ~updated'[m]
           => adapter' # <<>> /\ Last(adapter') = m
<1>1. n \in Users
  BY DEF Users
<1>2. adapter' # <<>> /\ Len(adapter') = Len(lock) + 1 /\ adapter'[Len(lock) + 1] = n
  BY <1>1, AppendProperties DEF BeginAttempt
<1>3. Last(adapter') = n
  BY <1>2 DEF Last
<1>4. \A m \in Nodes \ {n} : updated'[m] = updated[m]
  BY TypeSplit DEF TaskTyped, BeginAttempt
<1>5. QED
  BY <1>2, <1>3, <1>4

\* No advertisement or connect request is used up by anything but an attempt to
\* connect that starts after it.
THEOREM AdvertisementsAreNotLost == Spec => AdvertisementNotLost
<1> DEFINE Consumed == \A n \in Nodes : updated[n] /\ ~updated'[n]
                         => adapter' # <<>> /\ Last(adapter') = n
<1>1. ASSUME TypeOK, LockInv, [Next]_vars
      PROVE  Consumed
  <2>1. CASE UNCHANGED updated
    BY <2>1
  <2>2. ASSUME NEW n \in Nodes, NEW lock \in Seq(Users), BeginAttempt(n, lock)
        PROVE  Consumed
    BY <1>1, <2>2, BeginAttemptLast
  <2>3. ASSUME NEW n \in Nodes, NEW lock \in Seq(Users), Finally(n, lock)
        PROVE  Consumed
    BY <2>1, <2>2, <2>3 DEF Finally, Forget, NextAttempt
  <2>4. adapter \in Seq(Users)
    BY <1>1, TypeSplit DEF TaskTyped
  <2>5. ASSUME NEW n \in Nodes, TaskStep(n)
        PROVE  Consumed
    <3>1. HoldsAdapter(n) => Tail(adapter) \in Seq(Users)
      BY <1>1, <2>4, TailUsers DEF LockInv, HolderAtHead, AdapterAccounted
    <3>2. CASE TargetUpdated(n)
      BY <2>1, <2>2, <2>4, <3>2 DEF TargetUpdated
    <3>3. CASE Connect(n)
      BY <2>1, <2>3, <3>1, <3>3 DEF Connect, Failure, HoldsAdapter
    <3>4. CASE Subscribe(n)
      BY <2>1, <2>3, <3>1, <3>4 DEF Subscribe, Failure, HoldsAdapter
    <3>5. CASE StopNotify(n) \/ Disconnect(n) \/ FinalDisconnect(n)
      BY <2>1, <2>2, <2>3, <2>4, <3>5
         DEF StopNotify, Disconnect, FinalDisconnect, Failure, Forget, NextAttempt
    <3>6. CASE LockGranted(n) \/ Wake(n) \/ CancelWorker(n)
      BY <2>1, <3>6 DEF LockGranted, Wake, CancelWorker
    <3>7. QED
      BY <2>5, <3>2, <3>3, <3>4, <3>5, <3>6 DEF TaskStep
  <2>6. ASSUME NEW S \in SUBSET Nodes, EnsureTargets(S)
        PROVE  Consumed
    BY <2>6 DEF EnsureTargets
  <2>7. CASE DaemonStep
    BY <2>1, <2>6, <2>7
       DEF DaemonStep, ScanStart, ScanGranted, ScanDone, RequestStop, StopAll, AllJoined, Exit,
           Ended, vars, taskVars
  <2>8. ASSUME NEW n \in Nodes, NodeStep(n)
        PROVE  Consumed
    BY <2>1, <2>5, <2>6, <2>8
       DEF NodeStep, WorkerStep, WorkerLoop, WorkerWake, ExitStep, Cancelled,
           CancelledDisconnect, SendCommand, ConnectRequest, LinkDrop, LateLoss, RadioTakes,
           taskVars
  <2>9. QED
    BY <1>1, <2>1, <2>7, <2>8 DEF Next, vars, taskVars
<1>2. QED
  BY <1>1, LockInvariant, PTL DEF Spec, AdvertisementNotLost

-----------------------------------------------------------------------------
(* The command worker lives inside the connection                            *)

\* WorkerConfined with what it needs to be inductive: nothing is in flight but
\* the one command of a write.
WorkerInv ==
  /\ WorkerConfined
  /\ \A n \in Nodes : inflight[n] = <<>> \/ \E c \in Nat : inflight[n] = <<c>>

LEMMA WorkerInitNext ==
  /\ Init => WorkerInv
  /\ TypeOK /\ WorkerInv /\ [Next]_vars => WorkerInv'
<1>1. Init => WorkerInv
  BY DEF Init, WorkerInv, WorkerConfined
<1> SUFFICES ASSUME TypeOK, WorkerInv, [Next]_vars PROVE WorkerInv'
  BY <1>1
<1>2. TaskTyped /\ DaemonTyped /\ CommandTyped
  BY TypeSplit
<1>3. ASSUME UNCHANGED <<worker, inflight>>,
             \A n \in Nodes : pc[n] \in {"active", "unwinding"} =>
                pc'[n] \in {"active", "unwinding"} \/ worker[n] = "none"
      PROVE  WorkerInv'
  BY <1>3 DEF WorkerInv, WorkerConfined
<1>4. ASSUME NEW n \in Nodes, TaskStep(n)
      PROVE  WorkerInv'
  <2>1. \A m \in Nodes \ {n} : pc'[m] = pc[m]
    BY <1>2, <1>4
       DEF TaskTyped, TaskStep, TargetUpdated, LockGranted, Connect, Subscribe, Wake,
           CancelWorker, StopNotify, Disconnect, FinalDisconnect, Failure, Finally, Forget,
           NextAttempt, BeginAttempt, Goto
  <2>2. CASE Subscribe(n)
    <3>1. worker' = worker \/ (worker' = [worker EXCEPT ![n] = "start"] /\ Goto(n, "active"))
      BY <2>2 DEF Subscribe
    <3>2. worker[n] = "none" /\ inflight[n] = <<>> /\ inflight' = inflight
      BY <1>2, <2>2 DEF Subscribe, WorkerInv, WorkerConfined, CommandTyped
    <3>3. QED
      BY <1>2, <2>1, <3>1, <3>2 DEF WorkerInv, WorkerConfined, TaskTyped, CommandTyped, Goto
  <2>3. CASE CancelWorker(n)
    BY <1>2, <2>1, <2>3 DEF CancelWorker, WorkerInv, WorkerConfined, CommandTyped
  <2>4. CASE Wake(n)
    <3>1. pc'[n] = "unwinding" /\ UNCHANGED <<worker, inflight>>
      BY <1>2, <2>4 DEF Wake, Goto, TaskTyped, commandVars, workerVars
    <3>2. QED
      BY <1>3, <2>1, <3>1
  <2>5. CASE \/ TargetUpdated(n) \/ LockGranted(n) \/ Connect(n)
             \/ StopNotify(n) \/ Disconnect(n) \/ FinalDisconnect(n)
    <3>1. pc[n] \notin {"active", "unwinding"} /\ UNCHANGED <<worker, inflight>>
      BY <2>5 DEF TargetUpdated, LockGranted, Connect, StopNotify, Disconnect, FinalDisconnect,
                  AwaitsAdapter, commandVars, workerVars
    <3>2. QED
      BY <1>3, <2>1, <3>1
  <2>6. QED
    BY <1>4, <2>2, <2>3, <2>4, <2>5 DEF TaskStep
<1>5. ASSUME NEW n \in Nodes, WorkerLoop(n) \/ WorkerWake(n) \/ RadioTakes(n)
      PROVE  WorkerInv'
  <2>1. /\ UNCHANGED pc
        /\ \A m \in Nodes \ {n} : worker'[m] = worker[m] /\ inflight'[m] = inflight[m]
    BY <1>2, <1>5 DEF WorkerLoop, WorkerWake, RadioTakes, GetCommand, CommandTyped, taskVars
  <2>2. /\ worker[n] # "none"
        /\ \/ worker'[n] = worker[n] /\ inflight'[n] = <<>>
           \/ worker'[n] \in {"none", "get"} /\ inflight'[n] = <<>>
           \/ worker'[n] = "writing" /\ inflight'[n] = <<Head(queue[n])>> /\ queue[n] # <<>>
    BY <1>2, <1>5 DEF WorkerLoop, WorkerWake, RadioTakes, GetCommand, CommandTyped,
                      WorkerInv, WorkerConfined
  <2>3. queue[n] # <<>> => Head(queue[n]) \in Nat
    BY <1>2, HeadTailProperties DEF CommandTyped
  <2>4. QED
    BY <2>1, <2>2, <2>3 DEF WorkerInv, WorkerConfined
<1>6. ASSUME NEW n \in Nodes, SendCommand(n) \/ LinkDrop(n)
      PROVE  WorkerInv'
  BY <1>3, <1>6 DEF SendCommand, LinkDrop, taskVars, commandVars, workerVars
<1>7. ASSUME NEW S \in SUBSET Nodes, EnsureTargets(S)
      PROVE  WorkerInv'
  BY <1>3, <1>7 DEF EnsureTargets, commandVars, workerVars
<1>8. CASE DaemonStep
  BY <1>3, <1>7, <1>8
     DEF DaemonStep, ScanStart, ScanGranted, ScanDone, RequestStop, StopAll, AllJoined, Exit,
         Ended, vars, taskVars, commandVars, workerVars
<1>9. CASE UNCHANGED vars
  BY <1>3, <1>9 DEF vars, taskVars, commandVars, workerVars
<1>10. ASSUME NEW n \in Nodes, Cancelled(n)
       PROVE  WorkerInv'
  <2>1. /\ worker' = [worker EXCEPT ![n] = "none"]
        /\ inflight' = [inflight EXCEPT ![n] = <<>>]
        /\ \A m \in Nodes \ {n} : pc'[m] = pc[m]
    BY <1>2, <1>10 DEF Cancelled, LetGo, Goto, TaskTyped
  <2>2. QED
    BY <1>2, <2>1 DEF WorkerInv, WorkerConfined, CommandTyped
<1>11. ASSUME NEW n \in Nodes, CancelledDisconnect(n)
       PROVE  WorkerInv'
  <2>1. /\ UNCHANGED <<worker, inflight>>
        /\ pc[n] = "canceldisc" /\ \A m \in Nodes \ {n} : pc'[m] = pc[m]
    BY <1>2, <1>11 DEF CancelledDisconnect, Goto, TaskTyped, commandVars, workerVars
  <2>2. QED
    BY <1>3, <2>1
<1>12. ASSUME NEW n \in Nodes, LateLoss(n)
       PROVE  WorkerInv'
  <2>1. /\ pc'[n] = "unwinding" /\ UNCHANGED <<worker, inflight>>
        /\ \A m \in Nodes \ {n} : pc'[m] = pc[m]
    BY <1>2, <1>12 DEF LateLoss, Goto, TaskTyped, commandVars, workerVars
  <2>2. QED
    BY <1>3, <2>1
<1>13. QED
  BY <1>4, <1>5, <1>6, <1>7, <1>8, <1>9, <1>10, <1>11, <1>12
     DEF Next, NodeStep, WorkerStep, ExitStep, ConnectRequest

\* No command worker outlives the connection it writes to.
THEOREM WorkerIsConfined == Spec => []WorkerConfined
<1>1. WorkerInv => WorkerConfined
  BY DEF WorkerInv
<1>2. QED
  BY <1>1, WorkerInitNext, TypeCorrect, PTL DEF Spec

-----------------------------------------------------------------------------
(* The session implements the command channel                                *)

Pending(n) == inflight[n] \o queue[n]

\* What one step does to the channel of n.
ChannelKept(n) ==
  /\ issued'[n] = issued[n]
  /\ Pending(n)' = Pending(n)
  /\ delivered'[n] = delivered[n]

ChannelSends(n) ==
  /\ issued'[n] = issued[n] + 1
  /\ Pending(n)' = Append(Pending(n), issued[n] + 1)
  /\ delivered'[n] = delivered[n]

ChannelDelivers(n) ==
  /\ Pending(n) # <<>>
  /\ issued'[n] = issued[n]
  /\ Pending(n)' = Tail(Pending(n))
  /\ delivered'[n] = Append(delivered[n], Head(Pending(n)))

ChannelLoses(n) ==
  /\ Pending(n) # <<>>
  /\ issued'[n] = issued[n]
  /\ Pending(n)' = Tail(Pending(n))
  /\ delivered'[n] = delivered[n]

\* If one channel makes such a step and the others are left alone, then so does
\* the abstract specification.
LEMMA ChannelStep ==
  ASSUME TypeOK, TypeOK', NEW n \in Nodes,
         ChannelKept(n) \/ ChannelSends(n) \/ ChannelDelivers(n) \/ ChannelLoses(n),
         \A m \in Nodes \ {n} : ChannelKept(m)
  PROVE  [Channel!Next]_(Channel!channelVars)
<1> DEFINE pending == [m \in Nodes |-> inflight[m] \o queue[m]]
<1>1. /\ issued \in [Nodes -> Nat] /\ issued' \in [Nodes -> Nat]
      /\ delivered \in [Nodes -> Seq(Nat)] /\ delivered' \in [Nodes -> Seq(Nat)]
  BY TypeSplit DEF CommandTyped
<1>2. \A m \in Nodes : pending[m] = Pending(m) /\ pending'[m] = Pending(m)'
  BY DEF Pending
<1>3. pending = [m \in Nodes |-> pending[m]] /\ pending' = [m \in Nodes |-> pending'[m]]
  OBVIOUS
<1> HIDE DEF pending
<1>4. CASE ChannelKept(n)
  <2>1. \A m \in Nodes : ChannelKept(m)
    BY <1>4
  <2>2. issued' = issued /\ delivered' = delivered
    BY <1>1, <2>1 DEF ChannelKept
  <2>3. pending' = pending
    BY <1>2, <1>3, <2>1 DEF ChannelKept
  <2>4. QED
    BY <2>2, <2>3 DEF Channel!channelVars, pending
<1>5. CASE ChannelSends(n)
  <2>1. issued' = [issued EXCEPT ![n] = @ + 1] /\ delivered' = delivered
    BY <1>1, <1>5 DEF ChannelSends, ChannelKept
  <2>2. pending' = [pending EXCEPT ![n] = Append(@, issued[n] + 1)]
    BY <1>2, <1>3, <1>5 DEF ChannelSends, ChannelKept
  <2>3. QED
    BY <2>1, <2>2 DEF Channel!Next, Channel!Send, pending
<1>6. CASE ChannelDelivers(n)
  <2>1. /\ issued' = issued
        /\ delivered' = [delivered EXCEPT ![n] = Append(@, Head(pending[n]))]
    BY <1>1, <1>2, <1>6 DEF ChannelDelivers, ChannelKept
  <2>2. pending' = [pending EXCEPT ![n] = Tail(@)] /\ pending[n] # <<>>
    BY <1>2, <1>3, <1>6 DEF ChannelDelivers, ChannelKept
  <2>3. QED
    BY <2>1, <2>2 DEF Channel!Next, Channel!Deliver, pending
<1>7. CASE ChannelLoses(n)
  <2>1. issued' = issued /\ delivered' = delivered
    BY <1>1, <1>7 DEF ChannelLoses, ChannelKept
  <2>2. pending' = [pending EXCEPT ![n] = Tail(@)] /\ pending[n] # <<>>
    BY <1>2, <1>3, <1>7 DEF ChannelLoses, ChannelKept
  <2>3. QED
    BY <2>1, <2>2 DEF Channel!Next, Channel!Lose, pending
<1>8. QED
  BY <1>4, <1>5, <1>6, <1>7

\* A command that leaves the front of the channel.
LEMMA FrontOfChannel ==
  ASSUME NEW c \in Nat, NEW q \in Seq(Nat)
  PROVE  /\ <<c>> \o q # <<>>
         /\ Head(<<c>> \o q) = c
         /\ Tail(<<c>> \o q) = q
         /\ <<>> \o q = q
         /\ q # <<>> => <<Head(q)>> \o Tail(q) = q
<1>1. <<c>> \in Seq(Nat) /\ Len(<<c>>) = 1 /\ <<c>>[1] = c
  OBVIOUS
<1>2. /\ <<c>> \o q \in Seq(Nat) /\ Len(<<c>> \o q) = 1 + Len(q)
      /\ \A i \in 1..(1 + Len(q)) : (<<c>> \o q)[i] = IF i <= 1 THEN c ELSE q[i-1]
  BY <1>1, ConcatProperties
<1>3. <<c>> \o q # <<>> /\ Head(<<c>> \o q) = c
  BY <1>2, LenProperties, EmptySeq
<1>4. Tail(<<c>> \o q) = q
  <2>1. /\ Tail(<<c>> \o q) \in Seq(Nat) /\ Len(Tail(<<c>> \o q)) = Len(q)
        /\ \A i \in 1..Len(q) : Tail(<<c>> \o q)[i] = (<<c>> \o q)[i+1]
    BY <1>2, <1>3, HeadTailProperties, LenProperties
  <2>2. \A i \in 1..Len(q) : Tail(<<c>> \o q)[i] = q[i]
    BY <1>2, <2>1, LenProperties
  <2>3. QED
    BY <2>1, <2>2, SeqEqual
<1>5. <<>> \o q = q
  BY ConcatEmptySeq
<1>6. ASSUME q # <<>>
      PROVE  <<Head(q)>> \o Tail(q) = q
  <2>1. /\ Head(q) \in Nat /\ Head(q) = q[1] /\ Tail(q) \in Seq(Nat)
        /\ Len(Tail(q)) = Len(q) - 1
        /\ \A i \in 1..(Len(q) - 1) : Tail(q)[i] = q[i+1]
    BY <1>6, HeadTailProperties
  <2>2. <<Head(q)>> \in Seq(Nat) /\ Len(<<Head(q)>>) = 1 /\ <<Head(q)>>[1] = q[1]
    BY <2>1
  <2>3. /\ <<Head(q)>> \o Tail(q) \in Seq(Nat)
        /\ Len(<<Head(q)>> \o Tail(q)) = Len(q)
        /\ \A i \in 1..Len(q) :
             (<<Head(q)>> \o Tail(q))[i] = IF i <= 1 THEN q[1] ELSE Tail(q)[i-1]
    BY <2>1, <2>2, ConcatProperties, LenProperties
  <2>4. \A i \in 1..Len(q) : (<<Head(q)>> \o Tail(q))[i] = q[i]
    BY <2>1, <2>3, LenProperties
  <2>5. QED
    BY <2>3, <2>4, SeqEqual
<1>7. QED
  BY <1>3, <1>4, <1>5, <1>6

\* The worker's loop loses the command of the write that ended, and takes the
\* next one without any change to the channel.
LEMMA WorkerChannel ==
  ASSUME TypeOK, WorkerInv, NEW n \in Nodes, WorkerLoop(n) \/ WorkerWake(n)
  PROVE  ChannelKept(n) \/ ChannelLoses(n)
<1>1. CommandTyped
  BY TypeSplit
<1>2. queue[n] \in Seq(Nat) /\ Pending(n)' = inflight'[n] \o queue'[n]
  BY <1>1 DEF CommandTyped, Pending
<1>3. issued'[n] = issued[n] /\ delivered'[n] = delivered[n]
  BY DEF WorkerLoop, WorkerWake
<1>4. \/ inflight'[n] = <<>> /\ queue'[n] = queue[n]
      \/ queue[n] # <<>> /\ inflight'[n] = <<Head(queue[n])>> /\ queue'[n] = Tail(queue[n])
  BY <1>1 DEF WorkerLoop, WorkerWake, GetCommand, CommandTyped
<1>5. Pending(n)' = queue[n]
  BY <1>2, <1>4, FrontOfChannel
<1>6. CASE inflight[n] = <<>>
  BY <1>2, <1>3, <1>5, <1>6, FrontOfChannel DEF ChannelKept, Pending
<1>7. ASSUME NEW c \in Nat, inflight[n] = <<c>>
      PROVE  ChannelLoses(n)
  BY <1>2, <1>3, <1>5, <1>7, FrontOfChannel DEF ChannelLoses, Pending
<1>8. QED
  BY <1>6, <1>7 DEF WorkerInv

\* Every step is a step of the channel or leaves it alone.
LEMMA NextImplementsChannel ==
  ASSUME TypeOK, TypeOK', WorkerInv, [Next]_vars
  PROVE  [Channel!Next]_(Channel!channelVars)
<1> USE DEF ChannelKept, Pending
<1>1. CommandTyped
  BY TypeSplit
<1>2. ASSUME UNCHANGED <<issued, queue, inflight, delivered>>
      PROVE  [Channel!Next]_(Channel!channelVars)
  BY <1>2 DEF Channel!channelVars
<1>3. ASSUME NEW n \in Nodes, WorkerLoop(n) \/ WorkerWake(n)
      PROVE  [Channel!Next]_(Channel!channelVars)
  <2>1. \A m \in Nodes \ {n} : ChannelKept(m)
    BY <1>1, <1>3 DEF WorkerLoop, WorkerWake, GetCommand, CommandTyped
  <2>2. QED
    BY <1>3, <2>1, WorkerChannel, ChannelStep
<1>4. ASSUME NEW n \in Nodes, CancelWorker(n) \/ Cancelled(n)
      PROVE  [Channel!Next]_(Channel!channelVars)
  <2>1. \A m \in Nodes \ {n} : ChannelKept(m)
    BY <1>1, <1>4 DEF CancelWorker, Cancelled, LetGo, CommandTyped
  <2>2. /\ queue[n] \in Seq(Nat) /\ queue'[n] = queue[n] /\ inflight'[n] = <<>>
        /\ issued'[n] = issued[n] /\ delivered'[n] = delivered[n]
    BY <1>1, <1>4 DEF CancelWorker, Cancelled, LetGo, CommandTyped
  <2>3. CASE inflight[n] = <<>>
    BY <2>1, <2>2, <2>3, ChannelStep
  <2>4. ASSUME NEW c \in Nat, inflight[n] = <<c>>
        PROVE  ChannelLoses(n)
    BY <2>2, <2>4, FrontOfChannel DEF ChannelLoses
  <2>5. QED
    BY <2>1, <2>3, <2>4, ChannelStep DEF WorkerInv
<1>5. ASSUME NEW n \in Nodes, RadioTakes(n)
      PROVE  [Channel!Next]_(Channel!channelVars)
  <2>1. \A m \in Nodes \ {n} : ChannelKept(m)
    BY <1>1, <1>5 DEF RadioTakes, CommandTyped
  <2>2. /\ queue[n] \in Seq(Nat) /\ queue'[n] = queue[n] /\ inflight'[n] = <<>>
        /\ issued'[n] = issued[n] /\ delivered'[n] = Append(delivered[n], Head(inflight[n]))
    BY <1>1, <1>5 DEF RadioTakes, CommandTyped
  <2>3. PICK c \in Nat : inflight[n] = <<c>>
    BY <1>5 DEF RadioTakes, WorkerInv
  <2>4. ChannelDelivers(n)
    BY <2>2, <2>3, FrontOfChannel DEF ChannelDelivers
  <2>5. QED
    BY <2>1, <2>4, ChannelStep
<1>6. ASSUME NEW n \in Nodes, SendCommand(n)
      PROVE  [Channel!Next]_(Channel!channelVars)
  <2>1. \A m \in Nodes \ {n} : ChannelKept(m)
    BY <1>1, <1>6 DEF SendCommand, CommandTyped
  <2>2. /\ queue[n] \in Seq(Nat) /\ inflight[n] \in Seq(Nat) /\ issued[n] + 1 \in Nat
        /\ queue'[n] = Append(queue[n], issued[n] + 1) /\ inflight'[n] = inflight[n]
        /\ issued'[n] = issued[n] + 1 /\ delivered'[n] = delivered[n]
    BY <1>1, <1>6 DEF SendCommand, CommandTyped
  <2>3. \A p, q \in Seq(Nat), x \in Nat : p \o Append(q, x) = Append(p \o q, x)
    <3>1. TAKE p, q \in Seq(Nat), x \in Nat
    <3>2. p \o q \in Seq(Nat) /\ <<x>> \in Seq(Nat)
      BY ConcatProperties
    <3>3. Append(q, x) = q \o <<x>> /\ Append(p \o q, x) = (p \o q) \o <<x>>
      BY <3>2, AppendIsConcat
    <3>4. QED
      BY <3>2, <3>3, ConcatAssociative
  <2>4. ChannelSends(n)
    BY <2>2, <2>3 DEF ChannelSends
  <2>5. QED
    BY <2>1, <2>4, ChannelStep
<1>7. ASSUME NEW n \in Nodes,
             \/ TargetUpdated(n) \/ LockGranted(n) \/ Connect(n) \/ Subscribe(n) \/ Wake(n)
             \/ StopNotify(n) \/ Disconnect(n) \/ FinalDisconnect(n)
             \/ ConnectRequest(n) \/ LinkDrop(n) \/ LateLoss(n) \/ CancelledDisconnect(n)
      PROVE  [Channel!Next]_(Channel!channelVars)
  BY <1>2, <1>7
     DEF TargetUpdated, LockGranted, Connect, Subscribe, Wake, StopNotify, Disconnect,
         FinalDisconnect, ConnectRequest, EnsureTargets, LinkDrop, LateLoss, CancelledDisconnect,
         commandVars, workerVars
<1>8. CASE DaemonStep
  BY <1>2, <1>8
     DEF DaemonStep, ScanStart, ScanGranted, ScanDone, EnsureTargets, RequestStop, StopAll,
         AllJoined, Exit, Ended, vars, commandVars, workerVars
<1>9. CASE UNCHANGED vars
  BY <1>2, <1>9 DEF vars, commandVars, workerVars
<1>10. QED
  BY <1>3, <1>4, <1>5, <1>6, <1>7, <1>8, <1>9
     DEF Next, NodeStep, TaskStep, WorkerStep, ExitStep

\* The commands of a peripheral arrive in the order they were sent, none twice
\* and none invented: the session implements the channel.
THEOREM CommandsAreInOrder == Spec => CommandsInOrder
<1>1. Init => Channel!Init
  <2>1. <<>> \o <<>> = <<>>
    BY ConcatEmptySeq, EmptySeq
  <2>2. QED
    BY <2>1 DEF Init, Channel!Init
<1>2. TypeOK /\ TypeOK' /\ WorkerInv /\ [Next]_vars => [Channel!Next]_(Channel!channelVars)
  BY NextImplementsChannel
<1>3. QED
  BY <1>1, <1>2, WorkerInitNext, TypeCorrect, PTL DEF Spec, CommandsInOrder, Channel!Spec

-----------------------------------------------------------------------------
(* Status                                                                    *)

\* What a session's step may do to its status.
StatusOf(n) ==
  /\ connected[n] => (HasClient(n) \/ pc[n] = "crashed") /\ ~waiting[n]
  /\ pc[n] = "waitadv" /\ ~updated[n] => waiting[n]

StatusKept(n) == pc'[n] = pc[n] /\ UNCHANGED <<connected[n], waiting[n], updated[n]>>

\* The end of an iteration leaves a session that is not connected.
LEMMA FinallyStatus ==
  ASSUME TypeOK, NEW n \in Nodes, NEW lock, StatusOf(n), Finally(n, lock)
  PROVE  StatusOf(n)' /\ \A m \in Nodes \ {n} : StatusKept(m)
<1>1. TaskTyped /\ DaemonTyped
  BY TypeSplit
<1>2. CASE HasClient(n) /\ link[n]
  BY <1>1, <1>2 DEF Finally, StatusOf, StatusKept, HasClient, Alive, TaskTyped, Goto
<1>3. CASE Forget(n, lock)
  BY <1>1, <1>3 DEF Forget, NextAttempt, BeginAttempt, StatusOf, StatusKept, HasClient, Alive,
                    TaskTyped, Goto
<1>4. QED
  BY <1>2, <1>3 DEF Finally

\* A status never says that a session without a client is connected, unless its task has
\* ended with an exception, nor that one which waits for an advertisement does not.
THEOREM StatusIsTruthful == Spec => []StatusTruthful
<1>1. Init => StatusTruthful
  BY DEF Init, StatusTruthful
<1>2. ASSUME TypeOK, StatusTruthful, [Next]_vars
      PROVE  StatusTruthful'
  <2>1. TaskTyped /\ \A m \in Nodes : StatusOf(m)
    BY <1>2, TypeSplit DEF StatusTruthful, StatusOf
  <2>2. ASSUME NEW n \in Nodes, StatusOf(n)', \A m \in Nodes \ {n} : StatusKept(m)
        PROVE  StatusTruthful'
    BY <2>1, <2>2 DEF StatusKept, StatusOf, StatusTruthful, HasClient, Alive
  <2>3. ASSUME UNCHANGED taskVars
        PROVE  StatusTruthful'
    BY <1>2, <2>3 DEF StatusTruthful, HasClient, Alive, taskVars
  <2>4. ASSUME NEW n \in Nodes, TaskStep(n)
        PROVE  StatusTruthful'
    <3>1. CASE \E lock : Finally(n, lock)
      BY <1>2, <2>1, <2>2, <3>1, FinallyStatus
    <3>2. CASE TargetUpdated(n) \/ LockGranted(n) \/ Wake(n) \/ CancelWorker(n)
      BY <2>1, <2>2, <3>2
         DEF TargetUpdated, LockGranted, Wake, CancelWorker, BeginAttempt, Goto, AwaitsAdapter,
             StatusOf, StatusKept, HasClient, Alive, TaskTyped
    <3>3. CASE Connect(n) /\ ~ Failure(n, Tail(adapter))
      <4>1. pc'[n] = "subscribing" /\ waiting'[n] = FALSE
        BY <2>1, <3>3 DEF Connect, Goto, TaskTyped
      <4>2. \A m \in Nodes \ {n} : StatusKept(m)
        BY <2>1, <3>3 DEF Connect, Goto, TaskTyped, StatusKept
      <4>3. QED
        BY <2>2, <4>1, <4>2 DEF StatusOf, HasClient, Alive
    <3>4. CASE Subscribe(n) /\ ~ Failure(n, Tail(adapter))
      BY <2>1, <2>2, <3>4 DEF Subscribe, Goto, StatusOf, StatusKept, HasClient, Alive, TaskTyped
    <3>5. CASE StopNotify(n) /\ ~ Failure(n, adapter)
      BY <2>1, <2>2, <3>5 DEF StopNotify, Goto, StatusOf, StatusKept, HasClient, Alive, TaskTyped
    <3>6. CASE Forget(n, adapter)
      BY <2>1, <2>2, <3>6
         DEF Forget, NextAttempt, BeginAttempt, Goto, StatusOf, StatusKept, HasClient, Alive, TaskTyped
    <3>7. CASE FinalDisconnect(n) /\ ~ Forget(n, adapter)
      BY <2>1, <2>2, <3>7 DEF FinalDisconnect, Goto, StatusOf, StatusKept, HasClient, Alive, TaskTyped
    <3>8. QED
      BY <2>4, <3>1, <3>2, <3>3, <3>4, <3>5, <3>6, <3>7
         DEF TaskStep, Connect, Subscribe, StopNotify, Disconnect, Failure
  <2>5. ASSUME NEW S \in SUBSET Nodes, EnsureTargets(S)
        PROVE  StatusTruthful'
    BY <2>1, <2>5 DEF EnsureTargets, StatusOf, StatusTruthful, HasClient, Alive, TaskTyped
  <2>6. CASE DaemonStep
    BY <2>3, <2>5, <2>6
       DEF DaemonStep, ScanStart, ScanGranted, ScanDone, RequestStop, StopAll, AllJoined, Exit,
           Ended, vars
  <2>7. ASSUME NEW n \in Nodes, Cancelled(n)
        PROVE  StatusTruthful'
    <3>1. \A m \in Nodes \ {n} : StatusKept(m)
      BY <2>1, <2>7 DEF Cancelled, Goto, StatusKept, TaskTyped
    <3>2. /\ waiting' = waiting
          /\ pc'[n] \in {"canceldisc", "crashed"}
      BY <2>1, <2>7 DEF Cancelled, Goto, TaskTyped
    <3>3. connected'[n] => connected[n]
      BY <2>1, <2>7 DEF Cancelled, TaskTyped
    <3>4. StatusOf(n)'
      BY <2>1, <3>2, <3>3 DEF StatusOf, HasClient, Alive
    <3>5. QED
      BY <2>2, <3>1, <3>4
  <2>8. ASSUME NEW n \in Nodes, CancelledDisconnect(n)
        PROVE  StatusTruthful'
    <3>1. \A m \in Nodes \ {n} : StatusKept(m)
      BY <2>1, <2>8 DEF CancelledDisconnect, Goto, StatusKept, TaskTyped
    <3>2. waiting' = waiting /\ pc'[n] = "crashed"
      BY <2>1, <2>8 DEF CancelledDisconnect, Goto, TaskTyped
    <3>3. connected'[n] => connected[n]
      BY <2>1, <2>8 DEF CancelledDisconnect, TaskTyped
    <3>4. StatusOf(n)'
      BY <2>1, <3>2, <3>3 DEF StatusOf, HasClient, Alive
    <3>5. QED
      BY <2>2, <3>1, <3>4
  <2>9. ASSUME NEW n \in Nodes, LateLoss(n)
        PROVE  StatusTruthful'
    BY <2>1, <2>2, <2>9 DEF LateLoss, Goto, StatusOf, StatusKept, HasClient, Alive, TaskTyped
  <2>10. ASSUME NEW n \in Nodes, NodeStep(n)
         PROVE  StatusTruthful'
    BY <2>3, <2>4, <2>5, <2>7, <2>8, <2>9, <2>10
       DEF NodeStep, WorkerStep, WorkerLoop, WorkerWake, ExitStep, SendCommand, ConnectRequest,
           LinkDrop, RadioTakes
  <2>11. QED
    BY <1>2, <2>3, <2>6, <2>10 DEF Next, vars
<1>3. QED
  BY <1>1, <1>2, TypeCorrect, PTL DEF Spec

=============================================================================
