-------------------------- MODULE DaemonLifecycle --------------------------
(***************************************************************************)
(* Start and shutdown of the daemon (SlimHubDaemon.run) and the requests   *)
(* of the command line (slimhub/cli), which reach it over a Unix socket    *)
(* whose path every daemon of a base directory shares.  Processes are      *)
(* daemons and command line invocations; they interleave at system calls   *)
(* on the socket and its path, and within a daemon at the awaits.  What    *)
(* the sessions and the logger do while the daemon waits for them to stop  *)
(* is in DeviceSession and RawDataLogger.                                  *)
(***************************************************************************)
EXTENDS Integers

CONSTANTS
  Daemons,       \* the processes that may run as daemon
  Clients,       \* the invocations of the command line at any one time
  None,          \* no socket at the path, no daemon
  Overlap,       \* may a daemon be started while another one shuts down?
  AwaitsClients, \* does Server.wait_closed() wait for connections (Python 3.12)?
  WriteErrors    \* may raw_logger.stop() raise?

ASSUME NoneIsNoDaemon == None \notin Daemons
ASSUME FlagsAreBoolean == {Overlap, AwaitsClients, WriteErrors} \subseteq BOOLEAN

VARIABLES
  pc,            \* where run() of each daemon is
  stopEvent,     \* its stop_event
  listening,     \* does the socket it has bound accept connections?
  path,          \* whose socket the path names: a live one, a dead one or None
  cli,           \* what each invocation is doing, or how it ended
  request,       \* what it asks for
  server,        \* the daemon it is or was connected to
  conn           \* the daemon's end of the connection

daemonVars == <<pc, stopEvent, listening, path>>
clientVars == <<cli, request, server, conn>>
vars == <<daemonVars, clientVars>>

Phases == { "down", "starting", "binding", "running", "stopping", "flushing", "closing" }
Outcomes == { "idle", "answered", "not running", "error", "interrupted" }
Requests == { "stop", "bad", "other" }

Init ==
  /\ pc = [d \in Daemons |-> "down"]
  /\ stopEvent = [d \in Daemons |-> FALSE]
  /\ listening = [d \in Daemons |-> FALSE]
  /\ path = None
  /\ cli = [c \in Clients |-> "idle"]
  /\ request = [c \in Clients |-> "other"]
  /\ server = [c \in Clients |-> None]
  /\ conn = [c \in Clients |-> "none"]

ShuttingDown(d) == pc[d] \in {"stopping", "flushing", "closing"}

Goto(d, phase) == pc' = [pc EXCEPT ![d] = phase]

\* The connections of d that are in one of the states are closed by its end.
Cut(d, states) ==
  conn' = [c \in Clients |->
             IF server[c] = d /\ conn[c] \in states THEN "cut" ELSE conn[c]]

-----------------------------------------------------------------------------
(* A daemon *)

\* Nobody starts a daemon while another one runs that was not told to stop.
Start(d) ==
  /\ pc[d] = "down"
  /\ \A e \in Daemons : pc[e] = "down" \/ (Overlap /\ ShuttingDown(e))
  /\ Goto(d, "starting")
  /\ stopEvent' = [stopEvent EXCEPT ![d] = FALSE]
  /\ UNCHANGED <<listening, path, clientVars>>

\* _start_server removes what is at the path, a dead socket or not.
Unlink(d) ==
  /\ pc[d] = "starting"
  /\ path' = None
  /\ Goto(d, "binding")
  /\ UNCHANGED <<stopEvent, listening, clientVars>>

\* Mutant: the path is cleared after the socket was bound.
BindThenUnlink(d) ==
  /\ pc[d] = "binding"
  /\ path' = None
  /\ listening' = [listening EXCEPT ![d] = TRUE]
  /\ Goto(d, "running")
  /\ UNCHANGED <<stopEvent, clientVars>>

\* start_unix_server binds the path, replacing a socket that is there again.
Bind(d) ==
  /\ pc[d] = "binding"
  /\ path' = d
  /\ listening' = [listening EXCEPT ![d] = TRUE]
  /\ Goto(d, "running")
  /\ UNCHANGED <<stopEvent, clientVars>>

\* SIGINT or SIGTERM.
Signal(d) ==
  /\ pc[d] = "running"
  /\ stopEvent' = [stopEvent EXCEPT ![d] = TRUE]
  /\ UNCHANGED <<pc, listening, path, clientVars>>

\* stop_event.wait() returned: the scan is cancelled and the sessions stopped.
Stopping(d) ==
  /\ pc[d] = "running" /\ stopEvent[d]
  /\ Goto(d, "stopping")
  /\ UNCHANGED <<stopEvent, listening, path, clientVars>>

\* registry.stop_all() returned; requests have been served all the time.
SessionsStopped(d) ==
  /\ pc[d] = "stopping"
  /\ Goto(d, "flushing")
  /\ UNCHANGED <<stopEvent, listening, path, clientVars>>

\* Mutant: the end of the server leaves connections that no handler has taken.
ServerLeavesBacklog(d) ==
  /\ pc[d] = "flushing"
  /\ listening' = [listening EXCEPT ![d] = FALSE]
  /\ Goto(d, "closing")
  /\ path' \in { path, IF path = d THEN None ELSE path }
  /\ UNCHANGED <<stopEvent, clientVars>>

\* raw_logger.stop() returned and the server stops accepting, whereupon some
\* Pythons remove the path if it is still its own; or it raised, which ends
\* run() with the path left in place.
LoggerStopped(d) ==
  /\ pc[d] = "flushing"
  /\ listening' = [listening EXCEPT ![d] = FALSE]
  /\ \/ /\ Goto(d, "closing")
        /\ Cut(d, {"backlog"})
        /\ path' \in { path, IF path = d THEN None ELSE path }
     \/ /\ WriteErrors
        /\ Goto(d, "down")
        /\ Cut(d, {"backlog", "reading"})
        /\ UNCHANGED path
  /\ UNCHANGED <<stopEvent, cli, request, server>>

\* wait_closed() returned: the path is removed, whatever is there, run() returns
\* and asyncio.run cancels the handlers that are left.
ServerClosed(d) ==
  /\ pc[d] = "closing"
  /\ AwaitsClients => \A c \in Clients : ~(server[c] = d /\ conn[c] = "reading")
  /\ path' = None
  /\ Goto(d, "down")
  /\ Cut(d, {"reading"})
  /\ UNCHANGED <<stopEvent, listening, cli, request, server>>

\* The process dies and leaves its socket at the path.
Crash(d) ==
  /\ pc[d] # "down"
  /\ Goto(d, "down")
  /\ listening' = [listening EXCEPT ![d] = FALSE]
  /\ Cut(d, {"backlog", "reading"})
  /\ UNCHANGED <<stopEvent, path, cli, request, server>>

DaemonStep(d) ==
  \/ Unlink(d) \/ Bind(d) \/ Stopping(d)
  \/ SessionsStopped(d) \/ LoggerStopped(d) \/ ServerClosed(d)

-----------------------------------------------------------------------------
(* A request *)

\* A new invocation opens the socket at the path.
Connect(c) ==
  /\ cli[c] \in Outcomes /\ conn[c] \in {"none", "answered", "cut"}
  /\ request' \in { [request EXCEPT ![c] = r] : r \in Requests }
  /\ \/ /\ path # None /\ listening[path]
        /\ cli' = [cli EXCEPT ![c] = "connected"]
        /\ server' = [server EXCEPT ![c] = path]
        /\ conn' = [conn EXCEPT ![c] = "backlog"]
     \/ /\ path # None /\ ~listening[path]
        /\ cli' = [cli EXCEPT ![c] = "error"]
        /\ UNCHANGED <<server, conn>>
     \/ /\ path = None
        /\ cli' = [cli EXCEPT ![c] = "not running"]
        /\ UNCHANGED <<server, conn>>
  /\ UNCHANGED daemonVars

\* It writes its request, or it is interrupted before it has.
Ask(c) ==
  /\ cli[c] = "connected"
  /\ cli' \in { [cli EXCEPT ![c] = s] : s \in {"asked", "interrupted"} }
  /\ UNCHANGED <<daemonVars, request, server, conn>>

\* The daemon starts a handler for the connection.
Accept(c) ==
  /\ conn[c] = "backlog" /\ listening[server[c]]
  /\ conn' = [conn EXCEPT ![c] = "reading"]
  /\ UNCHANGED <<daemonVars, cli, request, server>>

\* Mutant: the handler goes on waiting when it reads the end of the stream.
HandleIgnoresEnd(c) ==
  /\ conn[c] = "reading" /\ cli[c] = "asked"
  /\ conn' = [conn EXCEPT ![c] = "answered"]
  /\ stopEvent' = IF request[c] = "stop" THEN [stopEvent EXCEPT ![server[c]] = TRUE]
                  ELSE stopEvent
  /\ UNCHANGED <<pc, listening, path, cli, request, server>>

\* Mutant: an exception of dispatch ends the handler and nobody closes the stream.
HandleWithoutCatch(c) ==
  /\ conn[c] = "reading" /\ cli[c] # "connected"
  /\ conn' = [conn EXCEPT ![c] = IF request[c] = "bad" THEN "none" ELSE "answered"]
  /\ stopEvent' = IF cli[c] = "asked" /\ request[c] = "stop"
                  THEN [stopEvent EXCEPT ![server[c]] = TRUE] ELSE stopEvent
  /\ UNCHANGED <<pc, listening, path, cli, request, server>>

\* _handle_client has read a line, or the end of the stream of an interrupted
\* invocation: dispatch answers it, a bad request and no request at all with an
\* error, and the stream is closed; nothing in between suspends.  Of the requests
\* only stop is told from the others here.
Handle(c) ==
  /\ conn[c] = "reading" /\ cli[c] # "connected"
  /\ conn' = [conn EXCEPT ![c] = "answered"]
  /\ \/ /\ cli[c] = "asked" /\ request[c] = "stop"
        /\ stopEvent' = [stopEvent EXCEPT ![server[c]] = TRUE]
     \/ /\ ~(cli[c] = "asked" /\ request[c] = "stop")
        /\ UNCHANGED stopEvent
  /\ UNCHANGED <<pc, listening, path, cli, request, server>>

\* The invocation reads the answer, or finds that there will be none.
Answered(c) ==
  /\ cli[c] = "asked"
  /\ \/ conn[c] = "answered" /\ cli' = [cli EXCEPT ![c] = "answered"]
     \/ conn[c] = "cut" /\ cli' = [cli EXCEPT ![c] = "error"]
  /\ UNCHANGED <<daemonVars, request, server, conn>>

RequestStep(c) == Ask(c) \/ Accept(c) \/ Handle(c) \/ Answered(c)

-----------------------------------------------------------------------------
Next ==
  \/ \E d \in Daemons : Start(d) \/ Signal(d) \/ Crash(d) \/ DaemonStep(d)
  \/ \E c \in Clients : Connect(c) \/ RequestStep(c)

Spec == Init /\ [][Next]_vars

\* Processes run, the event loop of a daemon runs what is ready, sessions and the
\* logger stop.  Nobody has to start a daemon, to signal it or to ask it anything.
FairSpec ==
  /\ Spec
  /\ \A d \in Daemons : WF_vars(DaemonStep(d))
  /\ \A c \in Clients : WF_vars(Ask(c)) /\ WF_vars(Accept(c))
                          /\ WF_vars(Handle(c)) /\ WF_vars(Answered(c))

-----------------------------------------------------------------------------
(* Properties *)

\* Every variable keeps its type, and a daemon accepts connections exactly while
\* it is between its start and the end of its shutdown.
TypeOK ==
  /\ pc \in [Daemons -> Phases]
  /\ stopEvent \in [Daemons -> BOOLEAN]
  /\ listening \in [Daemons -> BOOLEAN]
  /\ \A d \in Daemons : listening[d] <=> pc[d] \in {"running", "stopping", "flushing"}
  /\ path \in Daemons \cup {None}
  /\ cli \in [Clients -> Outcomes \cup {"connected", "asked"}]
  /\ request \in [Clients -> Requests]
  /\ server \in [Clients -> Daemons \cup {None}]
  /\ conn \in [Clients -> {"none", "backlog", "reading", "answered", "cut"}]

\* slimhub/cli/app.py prints "Slimhub server is not running" when there is no
\* socket at the path.  It says so only when no daemon is running.
NotRunningIsTrue ==
  [][\A c \in Clients : cli'[c] = "not running" /\ cli'[c] # cli[c]
       => \A d \in Daemons : pc[d] # "running"]_vars

\* A request that was sent is never lost: it has its answer or the end of its
\* connection before it, waits at a socket that still accepts, or has a handler in
\* a daemon that is still up, whatever ended, died or was started meanwhile.
RequestIsHeard ==
  \A c \in Clients : cli[c] = "asked" =>
    \/ conn[c] \in {"answered", "cut"}
    \/ conn[c] = "backlog" /\ listening[server[c]]
    \/ conn[c] = "reading" /\ pc[server[c]] # "down"

\* A daemon that was told to stop ends, however many requests come meanwhile and
\* also if an invocation was interrupted before it asked.
StopEnds ==
  \A d \in Daemons : pc[d] = "running" /\ stopEvent[d] ~> pc[d] = "down"

\* The command line never hangs: a request that was sent is answered or fails,
\* also if the daemon ends, or dies, before it reads it.
RequestEnds == \A c \in Clients : cli[c] = "asked" ~> cli[c] # "asked"
=============================================================================
