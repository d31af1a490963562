----------------------- MODULE DaemonLifecycle_proofs -----------------------
(***************************************************************************)
(* Proofs about DaemonLifecycle, for any daemons and any invocations: the  *)
(* type invariant, that the command line tells the truth about the daemon  *)
(* as long as nobody starts one while another one shuts down, and that no  *)
(* request is lost.                                                        *)
(***************************************************************************)
EXTENDS DaemonLifecycle, TLAPS

Accepting == {"running", "stopping", "flushing"}

(* Types                                                                     *)

ConnStates == {"none", "backlog", "reading", "answered", "cut"}

LEMMA CutTyped ==
  ASSUME TypeOK, NEW d, NEW states, Cut(d, states)
  PROVE  conn' \in [Clients -> ConnStates]
BY DEF TypeOK, Cut, ConnStates

\* A step of a daemon keeps the types.
LEMMA DaemonTyped ==
  ASSUME TypeOK, NEW d \in Daemons, Start(d) \/ Signal(d) \/ Crash(d) \/ DaemonStep(d)
  PROVE  TypeOK'
<1>1. CASE Start(d)
  BY <1>1 DEF TypeOK, Start, Goto, clientVars, Phases
<1>2. CASE Unlink(d)
  BY <1>2 DEF TypeOK, Unlink, Goto, clientVars, Phases
<1>3. CASE Bind(d)
  BY <1>3 DEF TypeOK, Bind, Goto, clientVars, Phases
<1>4. CASE Signal(d)
  BY <1>4 DEF TypeOK, Signal, clientVars
<1>5. CASE Stopping(d)
  BY <1>5 DEF TypeOK, Stopping, Goto, clientVars, Phases
<1>6. CASE SessionsStopped(d)
  BY <1>6 DEF TypeOK, SessionsStopped, Goto, clientVars, Phases
<1>7. CASE LoggerStopped(d)
  <2>1. PICK phase \in {"closing", "down"}, states \in SUBSET ConnStates :
          Goto(d, phase) /\ Cut(d, states) /\ path' \in {path, None}
    BY <1>7 DEF LoggerStopped, ConnStates
  <2>2. /\ listening' = [listening EXCEPT ![d] = FALSE]
        /\ UNCHANGED <<stopEvent, cli, request, server>>
    BY <1>7 DEF LoggerStopped
  <2>3. conn' \in [Clients -> ConnStates]
    BY <2>1, CutTyped
  <2>4. QED
    BY <2>1, <2>2, <2>3 DEF TypeOK, Goto, Phases, ConnStates
<1>8. CASE ServerClosed(d)
  BY <1>8 DEF TypeOK, ServerClosed, Goto, Cut, Phases
<1>9. CASE Crash(d)
  <2>1. conn' \in [Clients -> ConnStates]
    BY <1>9, CutTyped DEF Crash
  <2>2. QED
    BY <1>9, <2>1 DEF TypeOK, Crash, Goto, Phases, ConnStates
<1>10. QED
  BY <1>1, <1>2, <1>3, <1>4, <1>5, <1>6, <1>7, <1>8, <1>9 DEF DaemonStep

\* A step of a request keeps the types.
LEMMA RequestTyped ==
  ASSUME TypeOK, NEW c \in Clients, Connect(c) \/ RequestStep(c)
  PROVE  TypeOK'
<1>1. CASE Connect(c)
  <2>1. request' \in [Clients -> Requests] /\ UNCHANGED daemonVars
    BY <1>1 DEF TypeOK, Connect
  <2>2. /\ cli' \in [Clients -> Outcomes \cup {"connected", "asked"}]
        /\ server' \in [Clients -> Daemons \cup {None}]
        /\ conn' \in [Clients -> {"none", "backlog", "reading", "answered", "cut"}]
    <3>1. CASE path # None /\ cli' = [cli EXCEPT ![c] = "connected"]
               /\ server' = [server EXCEPT ![c] = path] /\ conn' = [conn EXCEPT ![c] = "backlog"]
      BY <3>1 DEF TypeOK
    <3>2. CASE UNCHANGED <<server, conn>> /\ \E s \in Outcomes : cli' = [cli EXCEPT ![c] = s]
      BY <3>2 DEF TypeOK
    <3>3. QED
      BY <1>1, <3>1, <3>2 DEF Connect, Outcomes
  <2>3. QED
    BY <2>1, <2>2 DEF TypeOK, daemonVars
<1>2. CASE Ask(c)
  BY <1>2 DEF TypeOK, Ask, daemonVars, Outcomes
<1>3. CASE Accept(c)
  BY <1>3 DEF TypeOK, Accept, daemonVars
<1>4. CASE Handle(c)
  BY <1>4 DEF TypeOK, Handle
<1>5. CASE Answered(c)
  BY <1>5 DEF TypeOK, Answered, daemonVars, Outcomes
<1>6. QED
  BY <1>1, <1>2, <1>3, <1>4, <1>5 DEF RequestStep

LEMMA NextTyped == TypeOK /\ [Next]_vars => TypeOK'
<1> SUFFICES ASSUME TypeOK, [Next]_vars PROVE TypeOK'
  OBVIOUS
<1>1. CASE UNCHANGED vars
  BY <1>1 DEF TypeOK, vars, daemonVars, clientVars
<1>2. QED
  BY <1>1, DaemonTyped, RequestTyped DEF Next

LEMMA InitTyped == Init => TypeOK
BY DEF Init, TypeOK, Phases, Outcomes, Requests

\* Every variable keeps its type, and a daemon accepts connections exactly from
\* its start to the end of its logger.
THEOREM TypeCorrect == Spec => []TypeOK
BY InitTyped, NextTyped, PTL DEF Spec

-----------------------------------------------------------------------------
(* The answer "not running"                                                  *)

\* One daemon at most is up, and while it accepts connections the path is its own.
Solo ==
  /\ \A d, e \in Daemons : pc[d] # "down" /\ pc[e] # "down" => d = e
  /\ \A d \in Daemons : pc[d] \in Accepting => path = d

\* Only a step of a daemon could disturb this, and nobody else can be up then.
LEMMA DaemonSolo ==
  ASSUME TypeOK, Solo, ~Overlap, NEW d \in Daemons,
         Start(d) \/ Signal(d) \/ Crash(d) \/ DaemonStep(d)
  PROVE  Solo'
<1>1. \A e \in Daemons : e # d => pc[e] = "down" /\ pc'[e] = "down"
  <2>1. CASE Start(d)
    BY <2>1 DEF Start, Goto, TypeOK
  <2>2. CASE Signal(d) \/ Crash(d) \/ DaemonStep(d)
    <3>1. pc[d] # "down"
      BY <2>2 DEF Signal, Crash, DaemonStep, Unlink, Bind, Stopping, SessionsStopped,
                  LoggerStopped, ServerClosed
    <3>2. \A e \in Daemons : e # d => pc'[e] = pc[e]
      BY <2>2 DEF Signal, Crash, DaemonStep, Unlink, Bind, Stopping, SessionsStopped,
                  LoggerStopped, ServerClosed, Goto, TypeOK
    <3>3. QED
      BY <3>1, <3>2 DEF Solo
  <2>3. QED
    BY <2>1, <2>2
<1>2. pc'[d] \in Accepting => path' = d
  <2>1. CASE Start(d) \/ Unlink(d)
    BY <2>1 DEF Start, Unlink, Goto, TypeOK, Accepting
  <2>2. CASE Bind(d)
    BY <2>2 DEF Bind
  <2>3. CASE Signal(d) \/ Stopping(d) \/ SessionsStopped(d)
    BY <2>3 DEF Signal, Stopping, SessionsStopped, Goto, Solo, Accepting
  <2>4. CASE LoggerStopped(d) \/ ServerClosed(d) \/ Crash(d)
    BY <2>4 DEF LoggerStopped, ServerClosed, Crash, Goto, TypeOK, Accepting
  <2>5. QED
    BY <2>1, <2>2, <2>3, <2>4 DEF DaemonStep
<1>3. QED
  BY <1>1, <1>2 DEF Solo, Accepting

LEMMA NextSolo ==
  ASSUME TypeOK, Solo, ~Overlap, [Next]_vars
  PROVE  Solo'
<1>1. CASE \E c \in Clients : Connect(c) \/ RequestStep(c)
  <2>1. UNCHANGED <<pc, path>>
    BY <1>1 DEF Connect, RequestStep, Ask, Accept, Handle, Answered, daemonVars
  <2>2. QED
    BY <2>1 DEF Solo
<1>2. CASE UNCHANGED vars
  BY <1>2 DEF vars, daemonVars, Solo
<1>3. QED
  BY <1>1, <1>2, DaemonSolo DEF Next

\* Unless a daemon was started while another one shut down, the command line says
\* that the daemon is not running only when no daemon is.
THEOREM NotRunningIsTold ==
  ASSUME ~Overlap
  PROVE  Spec => NotRunningIsTrue
<1>1. Init => Solo
  BY DEF Init, Solo, Accepting
<1>2. ASSUME TypeOK, Solo, [Next]_vars, NEW c \in Clients,
             cli'[c] = "not running", cli'[c] # cli[c], NEW d \in Daemons
      PROVE  pc[d] # "running"
  <2>1. PICK b \in Clients : Connect(b) \/ RequestStep(b)
    BY <1>2 DEF Next, vars, clientVars, Start, Signal, Crash, DaemonStep, Unlink, Bind,
                Stopping, SessionsStopped, LoggerStopped, ServerClosed
  <2>2. path = None
    BY <1>2, <2>1 DEF Connect, RequestStep, Ask, Accept, Handle, Answered, TypeOK
  <2>3. QED
    BY <1>2, <2>2, NoneIsNoDaemon DEF Solo, Accepting
<1>3. TypeOK /\ Solo /\ [Next]_vars
        => [\A c \in Clients : cli'[c] = "not running" /\ cli'[c] # cli[c]
              => \A d \in Daemons : pc[d] # "running"]_vars
  BY <1>2
<1>4. TypeOK /\ Solo /\ [Next]_vars => Solo'
  BY NextSolo
<1>5. QED
  BY <1>1, <1>3, <1>4, InitTyped, NextTyped, PTL DEF Spec, NotRunningIsTrue

-----------------------------------------------------------------------------
(* Requests                                                                  *)

\* A connection that was not answered or cut has somebody who will see to it: it waits
\* at a socket that accepts, or a daemon that is up reads it.
Heard(c) ==
  \/ conn[c] \in {"answered", "cut"}
  \/ conn[c] = "backlog" /\ server[c] \in Daemons /\ listening[server[c]]
  \/ conn[c] = "reading" /\ server[c] \in Daemons /\ pc[server[c]] # "down"

HeardInv == \A c \in Clients : cli[c] \in {"connected", "asked"} => Heard(c)

\* A daemon that stops accepting or ends cuts the connections it would leave.
LEMMA DaemonHears ==
  ASSUME TypeOK, HeardInv, NEW d \in Daemons,
         Start(d) \/ Signal(d) \/ Crash(d) \/ DaemonStep(d)
  PROVE  HeardInv'
<1> SUFFICES ASSUME NEW c \in Clients, Heard(c) PROVE Heard(c)'
  <2>1. UNCHANGED cli
    BY DEF Start, Signal, Crash, DaemonStep, Unlink, Bind, Stopping, SessionsStopped,
           LoggerStopped, ServerClosed, clientVars
  <2>2. QED
    BY <2>1 DEF HeardInv
<1>1. UNCHANGED server
  BY DEF Start, Signal, Crash, DaemonStep, Unlink, Bind, Stopping, SessionsStopped,
         LoggerStopped, ServerClosed, clientVars
<1>2. CASE Start(d) \/ Unlink(d) \/ Bind(d) \/ Signal(d) \/ Stopping(d) \/ SessionsStopped(d)
  <2>1. /\ UNCHANGED conn
        /\ \A e \in Daemons : listening[e] => listening'[e]
        /\ \A e \in Daemons : pc[e] # "down" => pc'[e] # "down"
    BY <1>2 DEF Start, Unlink, Bind, Signal, Stopping, SessionsStopped, Goto, clientVars, TypeOK
  <2>2. QED
    BY <1>1, <2>1 DEF Heard
<1>3. CASE LoggerStopped(d) \/ ServerClosed(d) \/ Crash(d)
  <2>1. /\ \A e \in Daemons : e # d => pc'[e] = pc[e] /\ listening'[e] = listening[e]
        /\ \E states \in SUBSET {"backlog", "reading"} : Cut(d, states)
    BY <1>3 DEF LoggerStopped, ServerClosed, Crash, Goto, TypeOK
  <2>2. conn'[c] = conn[c] \/ conn'[c] = "cut"
    BY <2>1 DEF Cut
  <2>3. CASE server[c] # d
    BY <1>1, <2>1, <2>2, <2>3 DEF Heard
  <2>4. CASE server[c] = d /\ conn[c] = "backlog"
    <3>1. ~ServerClosed(d)
      BY <2>4 DEF ServerClosed, Heard, TypeOK
    <3>2. conn'[c] = "cut"
      BY <1>3, <2>4, <3>1 DEF LoggerStopped, Crash, Cut
    <3>3. QED
      BY <3>2 DEF Heard
  <2>5. CASE server[c] = d /\ conn[c] = "reading"
    <3>1. conn'[c] = "cut" \/ (conn'[c] = "reading" /\ pc'[d] # "down")
      BY <1>3, <2>5 DEF LoggerStopped, ServerClosed, Crash, Cut, Goto, TypeOK
    <3>2. QED
      BY <1>1, <2>5, <3>1 DEF Heard
  <2>6. CASE conn[c] \in {"answered", "cut"}
    BY <2>2, <2>6 DEF Heard
  <2>7. QED
    BY <2>3, <2>4, <2>5, <2>6 DEF Heard
<1>4. QED
  BY <1>2, <1>3 DEF DaemonStep

\* A connection is made with a socket that accepts, and a step of one request is
\* none of another's.
LEMMA RequestHears ==
  ASSUME TypeOK, HeardInv, NEW b \in Clients, Connect(b) \/ RequestStep(b)
  PROVE  HeardInv'
<1> SUFFICES ASSUME NEW c \in Clients, cli'[c] \in {"connected", "asked"} PROVE Heard(c)'
  BY DEF HeardInv
<1>1. UNCHANGED <<pc, listening>>
  BY DEF Connect, RequestStep, Ask, Accept, Handle, Answered, daemonVars
<1>2. CASE c # b
  <2>1. cli'[c] = cli[c] /\ conn'[c] = conn[c] /\ server'[c] = server[c]
    <3>1. CASE Connect(b)
      <4>1. /\ \E o \in Outcomes \cup {"connected"} : cli' = [cli EXCEPT ![b] = o]
            /\ UNCHANGED server \/ server' = [server EXCEPT ![b] = path]
            /\ UNCHANGED conn \/ conn' = [conn EXCEPT ![b] = "backlog"]
        BY <3>1 DEF Connect, Outcomes
      <4>2. QED
        BY <1>2, <4>1 DEF TypeOK
    <3>2. CASE Ask(b)
      BY <1>2, <3>2 DEF Ask, TypeOK
    <3>3. CASE Accept(b) \/ Handle(b) \/ Answered(b)
      BY <1>2, <3>3 DEF Accept, Handle, Answered, TypeOK
    <3>4. QED
      BY <3>1, <3>2, <3>3 DEF RequestStep
  <2>2. QED
    BY <1>1, <2>1 DEF HeardInv, Heard
<1>3. CASE c = b /\ Connect(b)
  <2>1. /\ path # None /\ listening[path]
        /\ server' = [server EXCEPT ![c] = path] /\ conn' = [conn EXCEPT ![c] = "backlog"]
    BY <1>3 DEF Connect, TypeOK
  <2>2. QED
    BY <1>1, <2>1 DEF Heard, TypeOK
<1>4. CASE c = b /\ Ask(b)
  <2>1. Heard(c) /\ UNCHANGED <<server, conn>>
    BY <1>4 DEF Ask, HeardInv
  <2>2. QED
    BY <1>1, <2>1 DEF Heard
<1>5. CASE c = b /\ Accept(b)
  <2>1. cli[c] \in {"connected", "asked"} /\ conn[c] = "backlog" /\ UNCHANGED server
    BY <1>5 DEF Accept
  <2>2. server[c] \in Daemons /\ listening[server[c]]
    BY <2>1 DEF HeardInv, Heard
  <2>3. pc[server[c]] # "down" /\ conn'[c] = "reading"
    BY <1>5, <2>2 DEF Accept, TypeOK
  <2>4. QED
    BY <1>1, <2>1, <2>2, <2>3 DEF Heard
<1>6. CASE c = b /\ Handle(b)
  BY <1>6 DEF Handle, Heard, TypeOK
<1>7. CASE c = b /\ Answered(b)
  BY <1>7 DEF Answered, TypeOK
<1>8. QED
  BY <1>2, <1>3, <1>4, <1>5, <1>6, <1>7 DEF RequestStep

\* A request that was sent always has an answer, an end, or somebody who will see to
\* it, for any number of daemons, also while they overlap.
THEOREM RequestsAreHeard == Spec => []RequestIsHeard
<1>1. Init => HeardInv
  BY DEF Init, HeardInv
<1>2. TypeOK /\ HeardInv /\ [Next]_vars => HeardInv'
  <2> SUFFICES ASSUME TypeOK, HeardInv, [Next]_vars PROVE HeardInv'
    OBVIOUS
  <2>1. CASE UNCHANGED vars
    BY <2>1 DEF vars, daemonVars, clientVars, HeardInv, Heard
  <2>2. QED
    BY <2>1, DaemonHears, RequestHears DEF Next
<1>3. HeardInv => RequestIsHeard
  BY DEF HeardInv, Heard, RequestIsHeard
<1>4. QED
  BY <1>1, <1>2, <1>3, InitTyped, NextTyped, PTL DEF Spec
=============================================================================
