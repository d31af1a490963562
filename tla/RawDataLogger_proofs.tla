------------------------ MODULE RawDataLogger_proofs ------------------------
(***************************************************************************)
(* Proofs about RawDataLogger, for any number of events, with or without   *)
(* write errors, and that it implements EventLog.                          *)
(***************************************************************************)
EXTENDS RawDataLogger, SequenceTheorems, TLAPS

In(e, s) == \E i \in 1..Len(s) : s[i] = e

LEMMA InIsToSet ==
  ASSUME NEW S, NEW s \in Seq(S), NEW e
  PROVE  e \in ToSet(s) <=> In(e, s)
BY LenProperties DEF ToSet, In

-----------------------------------------------------------------------------
(* Types, and what a turn of the worker does to the two sequences.           *)

\* A turn writes the first m entries of the queue and takes out n or n + 1.
WorkerTurn(n, m) ==
  /\ n <= m /\ m <= n + 1 /\ m <= Len(queue)
  /\ \A i \in 1..m : queue[i] # Sentinel
  /\ file' \in Seq(Events) /\ Len(file') = Len(file) + m
  /\ \A i \in 1..Len(file) : file'[i] = file[i]
  /\ \A i \in 1..m : file'[Len(file) + i] = queue[i]
  /\ queue' \in Seq(Nat)
  /\ \/ n = Len(queue) /\ Len(queue') = 0 /\ task' = task
     \/ /\ n = m /\ n < Len(queue) /\ queue[n + 1] = Sentinel
        /\ task' = "ended"
     \/ task' = "failed"

\* A prefix of the queue without the sentinel is a sequence of events.
LEMMA PrefixOfEvents ==
  ASSUME TypeOK, NEW m \in 0..Len(queue), \A i \in 1..m : queue[i] # Sentinel
  PROVE  /\ SubSeq(queue, 1, m) \in Seq(Events)
         /\ Len(SubSeq(queue, 1, m)) = m
         /\ \A i \in 1..m : SubSeq(queue, 1, m)[i] = queue[i]
<1>1. Len(queue) \in Nat /\ \A i \in 1..Len(queue) : queue[i] \in Nat
  BY LenProperties DEF TypeOK
<1>2. \A i \in 1..m : queue[i] \in Events
  BY <1>1 DEF Events
<1>3. 1 \in Int /\ m \in Int
  BY <1>1
<1>4. /\ SubSeq(queue, 1, m) \in Seq(Events)
      /\ Len(SubSeq(queue, 1, m)) = IF 1 <= m THEN m - 1 + 1 ELSE 0
      /\ \A i \in 1..(m - 1 + 1) : SubSeq(queue, 1, m)[i] = queue[1 + i - 1]
  BY <1>2, <1>3, SubSeqProperties
<1>5. QED
  BY <1>1, <1>4

\* Appending such a prefix to the file.
LEMMA FileGrows ==
  ASSUME TypeOK, NEW m \in 0..Len(queue), \A i \in 1..m : queue[i] # Sentinel,
         file' = file \o SubSeq(queue, 1, m)
  PROVE  /\ file' \in Seq(Events) /\ Len(file') = Len(file) + m
         /\ \A i \in 1..Len(file) : file'[i] = file[i]
         /\ \A i \in 1..m : file'[Len(file) + i] = queue[i]
<1> DEFINE p == SubSeq(queue, 1, m)
<1>1. p \in Seq(Events) /\ Len(p) = m /\ \A i \in 1..m : p[i] = queue[i]
  BY PrefixOfEvents
<1>2. file \in Seq(Events) /\ Len(file) \in Nat
  BY LenProperties DEF TypeOK
<1> HIDE DEF p
<1>3. file' = file \o p
  BY DEF p
<1>4. /\ file' \in Seq(Events) /\ Len(file') = Len(file) + Len(p)
      /\ \A i \in 1..Len(file) + Len(p) :
           file'[i] = IF i <= Len(file) THEN file[i] ELSE p[i - Len(file)]
  BY <1>1, <1>2, <1>3, ConcatProperties
<1>5. QED
  BY <1>1, <1>2, <1>4

LEMMA TurnOfWorker ==
  ASSUME TypeOK, Worker
  PROVE  \E n, m \in 0..Len(queue) : WorkerTurn(n, m)
<1>1. queue \in Seq(Nat) /\ Len(queue) \in Nat /\ DOMAIN queue = 1..Len(queue)
  BY LenProperties DEF TypeOK
<1>2. PICK n \in 0..Len(queue) :
        /\ Sentinel \notin ToSet(Before(n))
        /\ queue' = After(n)
        /\ \/ n = Len(queue) /\ file' = file \o Before(n) /\ UNCHANGED task
           \/ /\ n < Len(queue) /\ queue[n + 1] = Sentinel
              /\ file' = file \o Before(n)
              /\ task' = "ended"
           \/ /\ WriteErrors /\ n < Len(queue) /\ queue[n + 1] # Sentinel
              /\ file' \in { file \o Before(n), file \o Before(n + 1) }
              /\ task' = "failed"
  BY DEF Worker
<1>3. /\ Before(n) \in Seq(Nat) /\ Len(Before(n)) = n
      /\ \A i \in 1..n : Before(n)[i] = queue[i]
  <2>1. \A i \in 1..n : queue[i] \in Nat
    BY <1>1, ElementOfSeq
  <2>2. QED
    BY <1>1, <2>1, SubSeqProperties DEF Before
<1>4. \A i \in 1..n : queue[i] # Sentinel
  BY <1>2, <1>3, InIsToSet DEF In
<1>5. /\ queue' \in Seq(Nat)
      /\ n = Len(queue) => Len(queue') = 0
  <2>1. \A i \in (n + 2)..Len(queue) : queue[i] \in Nat
    BY <1>1, ElementOfSeq
  <2>2. n + 2 \in Int /\ Len(queue) \in Int
    BY <1>1
  <2>3. /\ queue' \in Seq(Nat)
        /\ Len(queue') = IF n + 2 <= Len(queue) THEN Len(queue) - (n + 2) + 1 ELSE 0
    BY <1>2, <2>1, <2>2, SubSeqProperties DEF After
  <2>4. n = Len(queue) => ~(n + 2 <= Len(queue))
    BY <1>1
  <2>5. QED
    BY <2>3, <2>4
<1>6. CASE file' = file \o Before(n)
  <2>1. /\ file' \in Seq(Events) /\ Len(file') = Len(file) + n
        /\ \A i \in 1..Len(file) : file'[i] = file[i]
        /\ \A i \in 1..n : file'[Len(file) + i] = queue[i]
    BY <1>4, <1>6, FileGrows DEF Before
  <2>2. WorkerTurn(n, n)
    <3>1. \/ n = Len(queue) /\ Len(queue') = 0 /\ task' = task
          \/ n < Len(queue) /\ queue[n + 1] = Sentinel /\ task' = "ended"
          \/ task' = "failed"
      BY <1>2, <1>5
    <3>2. n <= n /\ n <= n + 1 /\ n <= Len(queue)
      BY <1>1
    <3>3. QED
      BY <1>4, <1>5, <2>1, <3>1, <3>2 DEF WorkerTurn
  <2>3. QED
    BY <2>2
<1>7. CASE /\ file' = file \o Before(n + 1) /\ task' = "failed"
           /\ n < Len(queue) /\ queue[n + 1] # Sentinel
  <2>1. PICK m \in 0..Len(queue) : m = n + 1
    BY <1>1, <1>7
  <2>2. \A i \in 1..m : queue[i] # Sentinel
    BY <1>1, <1>4, <1>7, <2>1
  <2>3. /\ file' \in Seq(Events) /\ Len(file') = Len(file) + m
        /\ \A i \in 1..Len(file) : file'[i] = file[i]
        /\ \A i \in 1..m : file'[Len(file) + i] = queue[i]
    BY <1>7, <2>1, <2>2, FileGrows DEF Before
  <2>4. n <= m /\ m <= n + 1 /\ m <= Len(queue)
    BY <2>1
  <2>5. WorkerTurn(n, m)
    BY <1>5, <1>7, <2>2, <2>3, <2>4 DEF WorkerTurn
  <2>6. QED
    BY <2>5
<1>8. QED
  BY <1>2, <1>6, <1>7

LEMMA InitTyped == Init => TypeOK
BY EmptySeq DEF Init, TypeOK

LEMMA NextTyped ==
  ASSUME TypeOK, [Next]_vars
  PROVE  TypeOK'
<1>1. CASE Log
  <2>1. logged + 1 \in Nat /\ logged + 1 \in Events
    BY DEF TypeOK, Events, Sentinel
  <2>2. Append(queue, logged + 1) \in Seq(Nat) /\ Append(file, logged + 1) \in Seq(Events)
    BY <2>1, AppendProperties DEF TypeOK
  <2>3. QED
    BY <1>1, <2>1, <2>2 DEF Log, TypeOK
<1>2. CASE Worker
  <2>1. file' \in Seq(Events) /\ queue' \in Seq(Nat) /\ task' \in {task, "ended", "failed"}
    BY <1>2, TurnOfWorker DEF WorkerTurn
  <2>2. UNCHANGED <<stop, logged, flushed>>
    BY <1>2 DEF Worker
  <2>3. QED
    BY <2>1, <2>2 DEF TypeOK
<1>3. CASE Stop
  <2>1. Append(queue, Sentinel) \in Seq(Nat)
    BY AppendProperties DEF TypeOK, Sentinel
  <2>2. QED
    BY <1>3, <2>1 DEF Stop, TypeOK
<1>4. CASE Joined
  BY <1>4 DEF Joined, TypeOK
<1>5. CASE UNCHANGED vars
  BY <1>5 DEF vars, TypeOK
<1>6. QED
  BY <1>1, <1>2, <1>3, <1>4, <1>5 DEF Next

\* Every variable keeps its type, and no sentinel is ever written.
THEOREM TypeCorrect == Spec => []TypeOK
BY InitTyped, NextTyped, PTL DEF Spec

-----------------------------------------------------------------------------
(* The order of the files                                                    *)

\* The file is in the order of logging, and while the worker runs the queue goes
\* on where the file ends.
OrderInv ==
  /\ \A i, j \in 1..Len(file) : i < j => file[i] < file[j]
  /\ \A i \in 1..Len(file) : file[i] <= logged
  /\ task = "running" =>
       /\ \A j \in 1..Len(queue) : queue[j] <= logged
       /\ \A i, j \in 1..Len(queue) :
            i < j /\ queue[i] # Sentinel /\ queue[j] # Sentinel => queue[i] < queue[j]
       /\ \A i \in 1..Len(file), j \in 1..Len(queue) :
            queue[j] # Sentinel => file[i] < queue[j]

LEMMA OrderTyped ==
  ASSUME TypeOK
  PROVE  /\ Len(file) \in Nat /\ Len(queue) \in Nat /\ logged \in Nat
         /\ \A i \in 1..Len(file) : file[i] \in Nat
         /\ \A i \in 1..Len(queue) : queue[i] \in Nat
<1>1. file \in Seq(Events) /\ queue \in Seq(Nat) /\ logged \in Nat
  BY DEF TypeOK
<1>2. Events \subseteq Nat
  BY DEF Events
<1>3. QED
  BY <1>1, <1>2, LenProperties, ElementOfSeq

LEMMA LogOrdered ==
  ASSUME TypeOK, OrderInv, Log
  PROVE  OrderInv'
<1> DEFINE e == logged + 1
<1>1. e \in Nat /\ e \in Events /\ e > logged
  BY DEF TypeOK, Events, Sentinel
<1>2. logged' = e /\ task' = task
  BY DEF Log
<1>3. CASE task # "none" /\ queue' = Append(queue, e) /\ UNCHANGED file
  <2>1. /\ Len(queue') = Len(queue) + 1 /\ queue'[Len(queue) + 1] = e
        /\ \A i \in 1..Len(queue) : queue'[i] = queue[i]
    BY <1>1, <1>3, AppendProperties DEF TypeOK
  <2>2. QED
    BY <1>1, <1>2, <1>3, <2>1, OrderTyped DEF OrderInv
<1>4. CASE task = "none" /\ file' = Append(file, e) /\ UNCHANGED queue
  <2>1. /\ Len(file') = Len(file) + 1 /\ file'[Len(file) + 1] = e
        /\ \A i \in 1..Len(file) : file'[i] = file[i]
    BY <1>1, <1>4, AppendProperties DEF TypeOK
  <2>2. QED
    BY <1>1, <1>2, <1>4, <2>1, OrderTyped DEF OrderInv
<1>5. CASE task = "none" /\ UNCHANGED <<file, queue>>
  BY <1>1, <1>2, <1>5, OrderTyped DEF OrderInv
<1>6. QED
  BY <1>3, <1>4, <1>5 DEF Log

LEMMA WorkerOrdered ==
  ASSUME TypeOK, OrderInv, Worker
  PROVE  OrderInv'
<1>1. PICK n \in 0..Len(queue), m \in 0..Len(queue) : WorkerTurn(n, m)
  BY TurnOfWorker
<1>2. task = "running" /\ logged' = logged
  BY DEF Worker
<1>3. /\ Len(file') = Len(file) + m
      /\ \A i \in 1..Len(file) : file'[i] = file[i]
      /\ \A i \in 1..m : file'[Len(file) + i] = queue[i] /\ queue[i] # Sentinel
  BY <1>1 DEF WorkerTurn
<1>4. \A k \in 1..Len(file') :
        \/ k \in 1..Len(file) /\ file'[k] = file[k]
        \/ \E i \in 1..Len(queue) :
             k = Len(file) + i /\ file'[k] = queue[i] /\ queue[i] # Sentinel
  <2> SUFFICES ASSUME NEW k \in 1..Len(file'), k \notin 1..Len(file)
               PROVE  \E i \in 1..Len(queue) :
                        k = Len(file) + i /\ file'[k] = queue[i] /\ queue[i] # Sentinel
    BY <1>3
  <2> DEFINE d == k - Len(file)
  <2>1. d \in 1..m /\ d \in 1..Len(queue) /\ k = Len(file) + d
    BY <1>3, OrderTyped
  <2> HIDE DEF d
  <2>2. QED
    BY <1>3, <2>1
<1>5. \A k \in 1..Len(file') : file'[k] <= logged'
  BY <1>2, <1>4, OrderTyped DEF OrderInv
<1>6. \A i, j \in 1..Len(file') : i < j => file'[i] < file'[j]
  <2> SUFFICES ASSUME NEW i \in 1..Len(file'), NEW j \in 1..Len(file'), i < j
               PROVE  file'[i] < file'[j]
    OBVIOUS
  <2>1. CASE j \in 1..Len(file)
    <3>1. i \in 1..Len(file)
      BY <2>1, OrderTyped
    <3>2. file'[i] = file[i] /\ file'[j] = file[j]
      BY <1>3, <2>1, <3>1
    <3>3. QED
      BY <2>1, <3>1, <3>2 DEF OrderInv
  <2>2. CASE j \notin 1..Len(file)
    <3>1. PICK b \in 1..Len(queue) :
            j = Len(file) + b /\ file'[j] = queue[b] /\ queue[b] # Sentinel
      BY <1>4, <2>2
    <3>2. CASE i \in 1..Len(file) /\ file'[i] = file[i]
      BY <1>2, <3>1, <3>2 DEF OrderInv
    <3>3. CASE \E a \in 1..Len(queue) :
                 i = Len(file) + a /\ file'[i] = queue[a] /\ queue[a] # Sentinel
      <4>1. PICK a \in 1..Len(queue) :
              i = Len(file) + a /\ file'[i] = queue[a] /\ queue[a] # Sentinel
        BY <3>3
      <4>2. a < b
        BY <3>1, <4>1, OrderTyped
      <4>3. QED
        BY <1>2, <3>1, <4>1, <4>2 DEF OrderInv
    <3>4. QED
      BY <1>4, <3>2, <3>3
  <2>3. QED
    BY <2>1, <2>2
<1>7. task' = "running" => Len(queue') = 0
  BY <1>1 DEF WorkerTurn
<1>8. QED
  BY <1>5, <1>6, <1>7 DEF OrderInv

LEMMA NextOrdered ==
  ASSUME TypeOK, OrderInv, [Next]_vars
  PROVE  OrderInv'
<1>1. CASE Stop
  <2>1. queue \in Seq(Nat) /\ Sentinel \in Nat
    BY DEF TypeOK, Sentinel
  <2>2. /\ Len(queue') = Len(queue) + 1 /\ queue'[Len(queue) + 1] = Sentinel
        /\ \A i \in 1..Len(queue) : queue'[i] = queue[i]
    BY <1>1, <2>1, AppendProperties DEF Stop
  <2>3. UNCHANGED <<task, logged, file>>
    BY <1>1 DEF Stop
  <2>4. \A j \in 1..Len(queue') : j \in 1..Len(queue) \/ queue'[j] = Sentinel
    BY <2>2, OrderTyped
  <2>5. task' = "running" => \A j \in 1..Len(queue') : queue'[j] <= logged'
    BY <2>2, <2>3, <2>4, OrderTyped DEF OrderInv, Sentinel
  <2>6. QED
    BY <2>2, <2>3, <2>4, <2>5 DEF OrderInv
<1>2. CASE Joined
  BY <1>2 DEF Joined, OrderInv
<1>3. CASE UNCHANGED vars
  BY <1>3 DEF vars, OrderInv
<1>4. QED
  BY <1>1, <1>2, <1>3, LogOrdered, WorkerOrdered DEF Next

\* The files are written in the order of logging, nothing is written twice.
THEOREM FilesAreInOrder == Spec => []FileInOrder
<1>1. Init => OrderInv
  BY EmptySeq DEF Init, OrderInv
<1>2. TypeOK /\ OrderInv => FileInOrder
  <2> SUFFICES ASSUME TypeOK, OrderInv PROVE FileInOrder
    OBVIOUS
  <2>1. DOMAIN file = 1..Len(file)
    BY LenProperties DEF TypeOK
  <2>2. QED
    BY <2>1 DEF OrderInv, FileInOrder
<1>3. QED
  BY <1>1, <1>2, NextOrdered, InitTyped, NextTyped, PTL DEF Spec

-----------------------------------------------------------------------------
(* Nothing is forgotten, and stop() flushes                                  *)

\* The sentinel is at k, nowhere else, and what is to be flushed is on disk or
\* before it.
FlushedBefore(k) ==
  /\ queue[k] = Sentinel
  /\ \A j \in 1..Len(queue) : queue[j] = Sentinel => j = k
  /\ \A e \in 1..flushed : In(e, file) \/ \E i \in 1..(k - 1) : queue[i] = e

\* While the worker runs every event is on disk or queued, and from the stop on
\* the queue says where flushing ends; a worker that reached that point, and did
\* not fail, has flushed.
FlushInv ==
  /\ stop = "no" => task \in {"running", "failed"}
  /\ stop = "no" /\ task = "running" => \A i \in 1..Len(queue) : queue[i] # Sentinel
  /\ task = "running" => \A e \in 1..logged : In(e, file) \/ In(e, queue)
  /\ task = "running" /\ stop # "no" => \E k \in 1..Len(queue) : FlushedBefore(k)
  /\ task \in {"ended", "none"} => \A e \in 1..flushed : In(e, file)
  /\ stop = "returned" => task = "none"

\* Logging appends, to the queue or to the file.
LEMMA LogFlush ==
  ASSUME TypeOK, FlushInv, Log
  PROVE  FlushInv'
<1> DEFINE new == logged + 1
<1>1. /\ new \in Nat /\ new \in Events /\ new # Sentinel
      /\ \A e \in 1..new : e \in 1..logged \/ e = new
  BY DEF TypeOK, Events, Sentinel
<1>2. logged' = new /\ task' = task /\ stop' = stop /\ flushed' = flushed
  BY DEF Log
<1>3. CASE task # "none" /\ queue' = Append(queue, new) /\ UNCHANGED file
  <2>1. /\ Len(queue') = Len(queue) + 1 /\ queue'[Len(queue) + 1] = new
        /\ \A i \in 1..Len(queue) : queue'[i] = queue[i]
        /\ Len(queue) \in Nat
    BY <1>1, <1>3, AppendProperties, OrderTyped DEF TypeOK
  <2>2. \A j \in 1..Len(queue') : j \in 1..Len(queue) \/ queue'[j] = new
    BY <2>1
  <2>3. stop' = "no" /\ task' = "running" => \A i \in 1..Len(queue') : queue'[i] # Sentinel
    BY <1>1, <1>2, <2>1, <2>2 DEF FlushInv
  <2>4. task' = "running" => \A e \in 1..logged' : In(e, file') \/ In(e, queue')
    <3>1. In(new, queue') /\ \A e : In(e, queue) => In(e, queue')
      BY <2>1 DEF In
    <3>2. QED
      BY <1>1, <1>2, <1>3, <3>1 DEF FlushInv
  <2>5. ASSUME task' = "running", stop' # "no"
        PROVE  \E k \in 1..Len(queue') : FlushedBefore(k)'
    <3>1. PICK k \in 1..Len(queue) : FlushedBefore(k)
      BY <1>2, <2>5 DEF FlushInv
    <3>2. queue'[k] = Sentinel
      BY <2>1, <3>1 DEF FlushedBefore
    <3>3. \A j \in 1..Len(queue') : queue'[j] = Sentinel => j = k
      BY <1>1, <2>1, <2>2, <3>1 DEF FlushedBefore
    <3>4. \A i \in 1..(k - 1) : queue'[i] = queue[i]
      BY <2>1
    <3>5. FlushedBefore(k)'
      <4>1. \A e \in 1..flushed : In(e, file) \/ \E i \in 1..(k - 1) : queue'[i] = e
        BY <3>1, <3>4 DEF FlushedBefore
      <4>2. \A e \in 1..flushed' : In(e, file)' \/ \E i \in 1..(k - 1) : queue'[i] = e
        BY <1>2, <1>3, <4>1 DEF In
      <4>3. QED
        BY <3>2, <3>3, <4>2 DEF FlushedBefore
    <3>6. QED
      BY <2>1, <3>5
  <2>6. QED
    BY <1>2, <1>3, <2>3, <2>4, <2>5 DEF FlushInv, In
<1>4. CASE task = "none" /\ UNCHANGED queue /\ (file' = Append(file, new) \/ UNCHANGED file)
  <2>1. /\ Len(file) <= Len(file') /\ Len(file) \in Nat /\ Len(file') \in Nat
        /\ \A i \in 1..Len(file) : file'[i] = file[i]
    <3>1. CASE file' = Append(file, new)
      BY <1>1, <3>1, AppendProperties, OrderTyped DEF TypeOK
    <3>2. CASE UNCHANGED file
      BY <3>2, OrderTyped
    <3>3. QED
      BY <1>4, <3>1, <3>2
  <2>2. \A e : In(e, file) => In(e, file')
    BY <2>1 DEF In
  <2>3. QED
    BY <1>2, <1>4, <2>2 DEF FlushInv
<1>5. QED
  BY <1>3, <1>4 DEF Log

\* What the worker wrote is on disk, what it did not write is still queued.
LEMMA WorkerFlush ==
  ASSUME TypeOK, FlushInv, Worker
  PROVE  FlushInv'
<1>1. PICK n \in 0..Len(queue), m \in 0..Len(queue) : WorkerTurn(n, m)
  BY TurnOfWorker
<1>2. /\ task = "running" /\ stop' = stop /\ logged' = logged /\ flushed' = flushed
      /\ Len(queue) \in Nat /\ Len(file) \in Nat
  BY OrderTyped DEF Worker
<1>3. \A e : In(e, file) => In(e, file')
  BY <1>1, <1>2 DEF WorkerTurn, In
<1>4. \A i \in 1..m : In(queue[i], file')
  <2> SUFFICES ASSUME NEW i \in 1..m PROVE In(queue[i], file')
    OBVIOUS
  <2>1. Len(file) + i \in 1..Len(file') /\ file'[Len(file) + i] = queue[i]
    BY <1>1, <1>2 DEF WorkerTurn
  <2>2. QED
    BY <2>1 DEF In
<1>5. CASE n = Len(queue) /\ task' = task
  <2>1. m = Len(queue) /\ \A i \in 1..Len(queue) : queue[i] # Sentinel
    BY <1>1, <1>2, <1>5 DEF WorkerTurn
  <2>2. stop = "no"
    BY <1>2, <2>1 DEF FlushInv, FlushedBefore
  <2>3. \A e \in 1..logged : In(e, file')
    BY <1>2, <1>3, <1>4, <2>1 DEF FlushInv, In
  <2>4. QED
    BY <1>1, <1>2, <1>5, <2>2, <2>3 DEF FlushInv, WorkerTurn
<1>6. CASE n = m /\ n < Len(queue) /\ queue[n + 1] = Sentinel /\ task' = "ended"
  <2>1. n + 1 \in 1..Len(queue)
    BY <1>2, <1>6
  <2>2. stop # "no"
    BY <1>2, <1>6, <2>1 DEF FlushInv
  <2>3. PICK k \in 1..Len(queue) : FlushedBefore(k)
    BY <1>2, <2>2 DEF FlushInv
  <2>4. k = n + 1
    BY <1>6, <2>1, <2>3 DEF FlushedBefore
  <2>5. \A i \in 1..(k - 1) : i \in 1..m
    BY <1>6, <2>4
  <2>6. \A e \in 1..flushed' : In(e, file')
    BY <1>2, <1>3, <1>4, <2>3, <2>5 DEF FlushedBefore
  <2>7. QED
    BY <1>2, <1>6, <2>2, <2>6 DEF FlushInv
<1>7. CASE task' = "failed"
  BY <1>2, <1>7 DEF FlushInv
<1>8. QED
  BY <1>1, <1>5, <1>6, <1>7, <1>2 DEF WorkerTurn

LEMMA StopFlush ==
  ASSUME TypeOK, FlushInv, Stop
  PROVE  FlushInv'
<1>1. /\ stop = "no" /\ stop' = "joining" /\ flushed' = logged /\ logged' = logged
      /\ task' = task /\ file' = file
  BY DEF Stop
<1>2. /\ Len(queue') = Len(queue) + 1 /\ queue'[Len(queue) + 1] = Sentinel
      /\ \A i \in 1..Len(queue) : queue'[i] = queue[i]
      /\ Len(queue) \in Nat
  <2>1. queue \in Seq(Nat) /\ Sentinel \in Nat
    BY DEF TypeOK, Sentinel
  <2>2. QED
    BY <2>1, AppendProperties, OrderTyped DEF Stop
<1>3. task \in {"running", "failed"}
  BY <1>1 DEF FlushInv
<1>4. ASSUME task = "running"
      PROVE  /\ \A e \in 1..logged : In(e, file) \/ In(e, queue')
             /\ \E k \in 1..Len(queue') : FlushedBefore(k)'
  <2>0. PICK k \in Nat : k = Len(queue) + 1
    BY <1>2
  <2>1. k \in 1..Len(queue') /\ \A i \in 1..Len(queue') : i \in 1..(k - 1) \/ i = k
    BY <1>2, <2>0
  <2>2. \A i \in 1..(k - 1) : queue'[i] = queue[i] /\ queue'[i] # Sentinel
    BY <1>1, <1>2, <1>4, <2>0 DEF FlushInv
  <2>3. \A e \in 1..logged : In(e, file) \/ \E i \in 1..(k - 1) : queue'[i] = e
    BY <1>2, <1>4, <2>0, <2>2 DEF FlushInv, In
  <2>4. queue'[k] = Sentinel
    BY <1>2, <2>0
  <2>5. FlushedBefore(k)'
    <3>1. \A j \in 1..Len(queue') : queue'[j] = Sentinel => j = k
      BY <2>1, <2>2
    <3>2. \A e \in 1..flushed' : In(e, file)' \/ \E i \in 1..(k - 1) : queue'[i] = e
      BY <1>1, <2>3 DEF In
    <3>3. QED
      BY <2>4, <3>1, <3>2 DEF FlushedBefore
  <2>6. \A i \in 1..(k - 1) : i \in 1..Len(queue')
    BY <1>2, <2>0
  <2>7. \A e \in 1..logged : In(e, file) \/ In(e, queue')
    BY <2>3, <2>6 DEF In
  <2>8. QED
    BY <2>1, <2>5, <2>7
<1>5. \A e : In(e, file') <=> In(e, file)
  BY <1>1
<1>6. QED
  BY <1>1, <1>3, <1>4, <1>5 DEF FlushInv

LEMMA NextFlush ==
  ASSUME TypeOK, FlushInv, [Next]_vars
  PROVE  FlushInv'
<1>1. CASE Joined
  <2>1. UNCHANGED <<queue, logged, file, flushed>> /\ stop = "joining"
    BY <1>1 DEF Joined
  <2>2. CASE task = "ended" /\ task' = "none" /\ stop' = "returned"
    BY <2>1, <2>2 DEF FlushInv, In
  <2>3. CASE task = "failed" /\ stop' = "raised" /\ UNCHANGED task
    BY <2>1, <2>3 DEF FlushInv
  <2>4. QED
    BY <1>1, <2>2, <2>3 DEF Joined
<1>2. CASE UNCHANGED vars
  BY <1>2 DEF vars, FlushInv, FlushedBefore, In
<1>3. QED
  BY <1>1, <1>2, LogFlush, WorkerFlush, StopFlush DEF Next

LEMMA FlushInvariant == Spec => [](TypeOK /\ FlushInv)
<1>1. Init => FlushInv
  BY EmptySeq DEF Init, FlushInv
<1>2. QED
  BY <1>1, NextFlush, InitTyped, NextTyped, PTL DEF Spec

\* If stop() returns without raising, what was logged before it is on disk.
THEOREM StopHasFlushed == Spec => []StopFlushes
<1>1. TypeOK /\ FlushInv => StopFlushes
  <2> SUFFICES ASSUME TypeOK, FlushInv, stop = "returned", NEW e \in 1..flushed
               PROVE  e \in ToSet(file)
    BY DEF StopFlushes
  <2>1. In(e, file)
    BY DEF FlushInv
  <2>2. QED
    BY <2>1, InIsToSet DEF TypeOK
<1>2. QED
  BY <1>1, FlushInvariant, PTL

\* While the worker lives, every event is on disk or queued for it.
THEOREM NothingIsForgotten == Spec => []NothingForgotten
<1>1. TypeOK /\ FlushInv => NothingForgotten
  <2> SUFFICES ASSUME TypeOK, FlushInv, task = "running", NEW e \in 1..logged
               PROVE  e \in ToSet(file) \cup ToSet(queue)
    BY DEF NothingForgotten
  <2>1. In(e, file) \/ In(e, queue)
    BY DEF FlushInv
  <2>2. QED
    BY <2>1, InIsToSet DEF TypeOK
<1>2. QED
  BY <1>1, FlushInvariant, PTL

-----------------------------------------------------------------------------
(* The logger implements EventLog                                            *)

Closed == stop # "no" \/ task = "failed"

\* Sequences that agree on their first n elements have the same beginning.
LEMMA SameBeginning ==
  ASSUME NEW q \in Seq(Nat), NEW r \in Seq(Nat), NEW n \in 0..Len(q), n <= Len(r),
         \A i \in 1..n : q[i] = r[i]
  PROVE  /\ SubSeq(q, 1, n) = SubSeq(r, 1, n)
         /\ SubSeq(q, 1, n) \in Seq(Nat) /\ Len(SubSeq(q, 1, n)) = n
         /\ \A i \in 1..n : SubSeq(q, 1, n)[i] = q[i]
<1>1. n \in Int /\ 1 \in Int /\ Len(q) \in Nat /\ Len(r) \in Nat
  BY LenProperties
<1>2. (\A i \in 1..n : q[i] \in Nat) /\ (\A i \in 1..n : r[i] \in Nat)
  BY <1>1, ElementOfSeq
<1>3. /\ SubSeq(q, 1, n) \in Seq(Nat)
      /\ Len(SubSeq(q, 1, n)) = n
      /\ \A i \in 1..n : SubSeq(q, 1, n)[i] = q[i]
  BY <1>1, <1>2, SubSeqProperties
<1>4. /\ SubSeq(r, 1, n) \in Seq(Nat)
      /\ Len(SubSeq(r, 1, n)) = n
      /\ \A i \in 1..n : SubSeq(r, 1, n)[i] = r[i]
  BY <1>1, <1>2, SubSeqProperties
<1>5. QED
  BY <1>3, <1>4, SeqEqual

\* What is before the sentinel, when there is none and when there is one.
LEMMA UpToEnd ==
  ASSUME NEW q \in Seq(Nat), \A i \in 1..Len(q) : q[i] # Sentinel
  PROVE  UpToSentinel(q) = q
BY InIsToSet DEF UpToSentinel, In

LEMMA UpToIndex ==
  ASSUME NEW q \in Seq(Nat), NEW k \in 1..Len(q), q[k] = Sentinel,
         \A j \in 1..Len(q) : q[j] = Sentinel => j = k
  PROVE  UpToSentinel(q) = SubSeq(q, 1, k - 1)
<1>1. DOMAIN q = 1..Len(q) /\ Sentinel \in ToSet(q)
  BY LenProperties, InIsToSet DEF In
<1>2. (CHOOSE j \in DOMAIN q : q[j] = Sentinel) = k
  BY <1>1
<1>3. QED
  BY <1>1, <1>2 DEF UpToSentinel

\* While the worker runs, Ahead is the beginning of the queue up to the end or,
\* once a stop was requested, up to the sentinel.
LEMMA AheadIs ==
  ASSUME TypeOK, FlushInv, task = "running"
  PROVE  \E n \in 0..Len(queue) :
           /\ Ahead = SubSeq(queue, 1, n)
           /\ \A i \in 1..n : queue[i] # Sentinel
           /\ \/ stop = "no" /\ n = Len(queue) /\ Ahead = queue
              \/ stop # "no" /\ n < Len(queue) /\ queue[n + 1] = Sentinel
<1>1. queue \in Seq(Nat) /\ Len(queue) \in Nat
  BY OrderTyped DEF TypeOK
<1>2. CASE stop = "no"
  <2>1. \A i \in 1..Len(queue) : queue[i] # Sentinel
    BY <1>2 DEF FlushInv
  <2>2. Ahead = queue /\ SubSeq(queue, 1, Len(queue)) = queue
    BY <1>1, <2>1, UpToEnd, SubSeqFull DEF Ahead
  <2>3. Len(queue) \in 0..Len(queue)
    BY <1>1
  <2>4. WITNESS Len(queue) \in 0..Len(queue)
  <2>5. QED
    BY <1>2, <2>1, <2>2
<1>3. CASE stop # "no"
  <2>1. PICK k \in 1..Len(queue) : FlushedBefore(k)
    BY <1>3 DEF FlushInv
  <2>2. PICK n \in 0..Len(queue) : n = k - 1 /\ n < Len(queue) /\ k = n + 1
    BY <1>1
  <2>3. \A i \in 1..n : i \in 1..Len(queue) /\ i # k
    BY <1>1, <2>2
  <2>4. \A i \in 1..n : queue[i] # Sentinel
    BY <2>1, <2>3 DEF FlushedBefore
  <2>5. Ahead = SubSeq(queue, 1, n)
    BY <1>1, <2>1, <2>2, UpToIndex DEF FlushedBefore, Ahead
  <2>6. queue[n + 1] = Sentinel
    BY <2>1, <2>2 DEF FlushedBefore
  <2>7. n < Len(queue)
    BY <2>2
  <2>8. WITNESS n \in 0..Len(queue)
  <2>9. QED
    BY <1>3, <2>4, <2>5, <2>6, <2>7
<1>4. QED
  BY <1>2, <1>3

\* Logging is Take as long as the log is open, else TakeLate.
LEMMA LogTakes ==
  ASSUME TypeOK, FlushInv, Log
  PROVE  Promise!Take \/ Promise!TakeLate
<1> DEFINE new == logged + 1
<1>1. /\ logged' = new /\ UNCHANGED <<task, stop>>
      /\ queue \in Seq(Nat) /\ new \in Nat /\ new # Sentinel /\ Len(queue) \in Nat
  BY OrderTyped DEF Log, TypeOK, Sentinel
<1>2. CASE task = "running" /\ stop = "no"
  <2>1. queue' = Append(queue, new) /\ UNCHANGED file
    BY <1>2 DEF Log
  <2>2. /\ Append(queue, new) \in Seq(Nat)
        /\ Len(Append(queue, new)) = Len(queue) + 1
        /\ \A i \in 1..Len(queue) : Append(queue, new)[i] = queue[i]
        /\ Append(queue, new)[Len(queue) + 1] = new
    BY <1>1, AppendProperties
  <2>3. \A i \in 1..Len(queue) : queue[i] # Sentinel
    BY <1>2 DEF FlushInv
  <2>4. \A i \in 1..Len(Append(queue, new)) : Append(queue, new)[i] # Sentinel
    BY <1>1, <2>2, <2>3
  <2>5. Ahead = queue
    BY <1>1, <1>2, <2>3, UpToEnd DEF Ahead
  <2>6. Ahead' = Append(queue, new)
    BY <1>1, <1>2, <2>1, <2>2, <2>4, UpToEnd DEF Ahead
  <2>7. QED
    BY <1>1, <1>2, <2>1, <2>5, <2>6 DEF Promise!Take
<1>3. CASE task = "running" /\ stop # "no"
  <2>1. queue' = Append(queue, new) /\ UNCHANGED file
    BY <1>3 DEF Log
  <2>2. /\ queue' \in Seq(Nat)
        /\ Len(queue') = Len(queue) + 1
        /\ \A i \in 1..Len(queue) : queue'[i] = queue[i]
        /\ queue'[Len(queue) + 1] = new
    BY <1>1, <2>1, AppendProperties
  <2>3. PICK k \in 1..Len(queue) : FlushedBefore(k)
    BY <1>3 DEF FlushInv
  <2>4. k \in 1..Len(queue') /\ queue'[k] = Sentinel
        /\ \A j \in 1..Len(queue') : queue'[j] = Sentinel => j = k
    <3>1. queue[k] = Sentinel /\ \A j \in 1..Len(queue) : queue[j] = Sentinel => j = k
      BY <2>3 DEF FlushedBefore
    <3>2. \A j \in 1..Len(queue') : j \in 1..Len(queue) \/ j = Len(queue) + 1
      <4>1. Len(queue') = Len(queue) + 1 /\ Len(queue) \in Nat
        BY <1>1, <2>2
      <4>2. QED
        BY ONLY <4>1
    <3>3. k \in 1..Len(queue') /\ queue'[k] = Sentinel
      BY <1>1, <2>2, <3>1
    <3>4. QED
      BY <1>1, <2>2, <3>1, <3>2, <3>3
  <2>5. Ahead = SubSeq(queue, 1, k - 1)
    BY <1>1, <1>3, <2>3, UpToIndex DEF FlushedBefore, Ahead
  <2>6. Ahead' = SubSeq(queue', 1, k - 1)
    BY <1>1, <1>3, <2>2, <2>4, UpToIndex DEF Ahead
  <2>7. PICK n \in 0..Len(queue) : n = k - 1 /\ n <= Len(queue')
    BY <1>1, <2>2
  <2>8. SubSeq(queue, 1, n) = SubSeq(queue', 1, n)
    BY <1>1, <2>2, <2>7, SameBeginning
  <2>9. Ahead' = Ahead
    BY <2>5, <2>6, <2>7, <2>8
  <2>10. QED
    BY <1>1, <1>3, <2>1, <2>9 DEF Promise!TakeLate
<1>4. CASE task # "running"
  <2>1. Ahead = <<>> /\ Ahead' = <<>> /\ Closed
    BY <1>1, <1>4 DEF Ahead, FlushInv, Closed, TypeOK
  <2>2. file' = file \/ file' = Append(file, new)
    BY DEF Log
  <2>3. QED
    BY <1>1, <2>1, <2>2 DEF Promise!TakeLate, Closed
<1>5. QED
  BY <1>2, <1>3, <1>4

\* A turn of the worker writes a beginning of what is pending.  It fails, or leaves
\* nothing pending; if it finds the sentinel first it has nothing to write.
LEMMA WorkerWrites ==
  ASSUME TypeOK, FlushInv, Worker
  PROVE  Promise!Write \/ Promise!Fail \/ UNCHANGED Promise!logVars
<1>1. /\ task = "running" /\ UNCHANGED <<stop, logged>>
      /\ queue \in Seq(Nat) /\ file \in Seq(Events) /\ Len(queue) \in Nat
  BY OrderTyped DEF Worker, TypeOK
<1>2. PICK n \in 0..Len(queue) :
        /\ Sentinel \notin ToSet(Before(n))
        /\ queue' = After(n)
        /\ \/ n = Len(queue) /\ file' = file \o Before(n) /\ UNCHANGED task
           \/ /\ n < Len(queue) /\ queue[n + 1] = Sentinel
              /\ file' = file \o Before(n)
              /\ task' = "ended"
           \/ /\ WriteErrors /\ n < Len(queue) /\ queue[n + 1] # Sentinel
              /\ file' \in { file \o Before(n), file \o Before(n + 1) }
              /\ task' = "failed"
  BY DEF Worker
<1>3. \A i \in 1..n : queue[i] # Sentinel
  <2>1. /\ Before(n) \in Seq(Nat) /\ Len(Before(n)) = n
        /\ \A i \in 1..n : Before(n)[i] = queue[i]
    BY <1>1, SameBeginning DEF Before
  <2>2. QED
    BY <1>2, <2>1, InIsToSet DEF In
<1>4. PICK k \in 0..Len(queue) :
        /\ Ahead = SubSeq(queue, 1, k)
        /\ \A i \in 1..k : queue[i] # Sentinel
        /\ \/ stop = "no" /\ k = Len(queue) /\ Ahead = queue
           \/ stop # "no" /\ k < Len(queue) /\ queue[k + 1] = Sentinel
  BY <1>1, AheadIs
<1>5. n <= k /\ (n < Len(queue) /\ queue[n + 1] # Sentinel => n < k)
  BY <1>1, <1>3, <1>4
<1>6. Ahead \in Seq(Nat) /\ Len(Ahead) = k /\ \A i \in 1..k : Ahead[i] = queue[i]
  BY <1>1, <1>4, SameBeginning
<1>7. \A m \in 0..Len(Ahead) : Before(m) = SubSeq(Ahead, 1, m)
  <2> SUFFICES ASSUME NEW m \in 0..Len(Ahead) PROVE Before(m) = SubSeq(Ahead, 1, m)
    OBVIOUS
  <2>1. m <= Len(queue) /\ \A i \in 1..m : Ahead[i] = queue[i]
    BY <1>1, <1>6
  <2>2. QED
    BY <1>1, <1>6, <2>1, SameBeginning DEF Before
<1>8. Ahead' = <<>>
  <2>1. CASE task' = "running"
    <3>1. n = Len(queue)
      BY <1>2, <2>1
    <3>2. queue' = <<>>
      BY <1>1, <1>2, <3>1, SubSeqEmpty DEF After
    <3>3. UpToSentinel(queue') = <<>>
      <4>1. <<>> \in Seq(Nat) /\ \A i \in 1..Len(<<>>) : <<>>[i] # Sentinel
        BY EmptySeq
      <4>2. QED
        BY <3>2, <4>1, UpToEnd
    <3>4. QED
      BY <2>1, <3>3 DEF Ahead
  <2>2. CASE task' # "running"
    BY <2>2 DEF Ahead
  <2>3. QED
    BY <2>1, <2>2
<1>9. CASE \/ n = Len(queue) /\ UNCHANGED task
           \/ n < Len(queue) /\ queue[n + 1] = Sentinel /\ task' = "ended"
  <2>1. k = n /\ file' = file \o SubSeq(Ahead, 1, k) /\ task' # "failed" /\ task # "failed"
    <3>1. k = n
      <4>1. n + 1 \in 1..k => queue[n + 1] # Sentinel
        BY <1>4
      <4>2. QED
        BY <1>1, <1>5, <1>9, <4>1
    <3>2. file' = file \o Before(n)
      BY <1>1, <1>2, <1>9
    <3>3. k \in 0..Len(Ahead)
      BY <1>6
    <3>4. task' # "failed" /\ task # "failed"
      BY <1>1, <1>9
    <3>5. QED
      BY <1>7, <3>1, <3>2, <3>3, <3>4
  <2>2. SubSeq(Ahead, k + 1, Len(Ahead)) = <<>>
    BY <1>6, SubSeqEmpty
  <2>3. CASE k = 0
    <3>1. SubSeq(Ahead, 1, k) = <<>> /\ Ahead = <<>>
      BY <1>4, <1>6, <2>3, SubSeqEmpty
    <3>2. file' = file
      BY <1>1, <2>1, <3>1, ConcatEmptySeq
    <3>3. QED
      BY <1>1, <1>8, <2>1, <3>1, <3>2 DEF Promise!logVars
  <2>4. CASE k # 0
    <3>1. k \in 1..Len(Ahead)
      BY <1>6, <2>4
    <3>2. QED
      BY <1>1, <1>8, <2>1, <2>2, <3>1 DEF Promise!Write, Promise!WriteFirst
  <2>5. QED
    BY <2>3, <2>4
<1>10. CASE /\ n < Len(queue) /\ queue[n + 1] # Sentinel /\ task' = "failed"
            /\ file' \in { file \o Before(n), file \o Before(n + 1) }
  <2>1. n \in 0..Len(Ahead) /\ n + 1 \in 0..Len(Ahead) /\ Ahead # <<>>
    BY <1>1, <1>5, <1>6, <1>10, EmptySeq
  <2>2. \E m \in 0..Len(Ahead) : file' = file \o SubSeq(Ahead, 1, m)
    BY <1>7, <1>10, <2>1
  <2>3. QED
    BY <1>1, <1>8, <1>10, <2>1, <2>2 DEF Promise!Fail, Promise!WriteFirst
<1>11. QED
  BY <1>2, <1>9, <1>10

\* The sentinel goes behind everything that is pending.
LEMMA StopCloses ==
  ASSUME TypeOK, FlushInv, Stop
  PROVE  Promise!Close \/ UNCHANGED Promise!logVars
<1>1. /\ stop = "no" /\ stop' = "joining" /\ UNCHANGED <<task, logged, file>>
      /\ queue' = Append(queue, Sentinel)
      /\ queue \in Seq(Nat) /\ Sentinel \in Nat /\ Len(queue) \in Nat
  BY OrderTyped DEF Stop, TypeOK, Sentinel
<1>2. CASE task = "running"
  <2>1. /\ queue' \in Seq(Nat) /\ Len(queue') = Len(queue) + 1
        /\ \A i \in 1..Len(queue) : queue'[i] = queue[i]
        /\ queue'[Len(queue) + 1] = Sentinel
    BY <1>1, AppendProperties
  <2>2. \A i \in 1..Len(queue) : queue[i] # Sentinel
    BY <1>1, <1>2 DEF FlushInv
  <2>3. PICK k \in 1..Len(queue') : k = Len(queue) + 1
    BY <1>1, <2>1
  <2>4. \A j \in 1..Len(queue') : queue'[j] = Sentinel => j = k
    BY <1>1, <2>1, <2>2, <2>3
  <2>5. Ahead' = SubSeq(queue', 1, k - 1)
    BY <1>1, <1>2, <2>1, <2>3, <2>4, UpToIndex DEF Ahead
  <2>6. SubSeq(queue', 1, Len(queue)) = SubSeq(queue, 1, Len(queue))
    <3>1. Len(queue) \in 0..Len(queue) /\ Len(queue) <= Len(queue')
      BY <1>1, <2>1
    <3>2. QED
      BY <1>1, <2>1, <3>1, SameBeginning
  <2>7. Ahead' = queue /\ Ahead = queue
    <3>1. k - 1 = Len(queue)
      BY <1>1, <2>3
    <3>2. QED
      BY <1>1, <1>2, <2>2, <2>5, <2>6, <3>1, SubSeqFull, UpToEnd DEF Ahead
  <2>8. QED
    BY <1>1, <1>2, <2>7 DEF Promise!Close
<1>3. CASE task = "failed"
  BY <1>1, <1>3 DEF Promise!logVars, Ahead
<1>4. QED
  BY <1>1, <1>2, <1>3 DEF FlushInv

LEMMA NextImplementsLog ==
  ASSUME TypeOK, FlushInv, [Next]_vars
  PROVE  [Promise!Next]_(Promise!logVars)
<1>1. CASE Log
  BY <1>1, LogTakes DEF Promise!Next
<1>2. CASE Worker
  BY <1>2, WorkerWrites DEF Promise!Next
<1>3. CASE Stop
  BY <1>3, StopCloses DEF Promise!Next
<1>4. CASE Joined
  BY <1>4 DEF Joined, Promise!logVars, Ahead
<1>5. CASE UNCHANGED vars
  BY <1>5 DEF vars, Promise!logVars, Ahead
<1>6. QED
  BY <1>1, <1>2, <1>3, <1>4, <1>5 DEF Next

\* The logger is a log that loses nothing it took while it was open unless a write
\* fails, and that writes in order: its queue, worker and sentinel are invisible.
THEOREM LogsLikeALog == Spec => LogsAsPromised
<1>1. Init => Promise!Init
  <2>1. <<>> \in Seq(Nat) /\ \A i \in 1..Len(<<>>) : <<>>[i] # Sentinel
    BY EmptySeq
  <2>2. QED
    BY <2>1, UpToEnd DEF Init, Promise!Init, Ahead
<1>2. QED
  BY <1>1, NextImplementsLog, FlushInvariant, PTL DEF Spec, LogsAsPromised, Promise!Spec
=============================================================================
