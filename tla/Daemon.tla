--------------------------------- MODULE Daemon ---------------------------------
(***************************************************************************)
(* The life of the daemon: main (skeys-daemon/cmd/skeys-daemon/main.go),   *)
(* New and Stop (skeys-daemon/internal/server/server.go), Start, Stop and  *)
(* the accept loop of ManagedAgent (skeys-core/agent/server.go), and the   *)
(* app that kills and starts daemons                                       *)
(* (skeys-app/lib/core/backend/backend_launcher.dart).                     *)
(*                                                                         *)
(* A daemon binds the socket of the agent, then the socket of gRPC.  A     *)
(* bound socket is a file that others may remove or bind anew; closing a   *)
(* listener and RemoveAll remove whatever has the name.                    *)
(***************************************************************************)
EXTENDS Naturals, FiniteSets

CONSTANTS
    Daemons,    \* the processes that can ever be started
    Programs,   \* clients of the daemons: apps with streams, ssh with the agent
    Nobody,
    MaxKills    \* bound: daemons that are killed or cannot start

ASSUME DaemonAssumption == Nobody \notin Daemons

VARIABLES
    dpc,        \* dpc[d]: where daemon d is
    file,       \* file[p]: whose socket file is at path p, or Nobody
    streams,    \* streams[d]: programs with an open gRPC stream
    agentConns, \* agentConns[d]: programs connected to its agent
    hung,       \* programs that no longer answer, with their connections open
    lpc,        \* where the app's launcher is
    mine,       \* the daemon the launcher has started
    saw,        \* whose socket it has found
    kills,
    disturbed,  \* history: daemons that another daemon or a launcher crossed
    untidy      \* history: daemons that did not end by Stop

dvars == <<dpc, file, streams, agentConns, hung, lpc, mine, saw, kills, disturbed, untidy>>

Paths == {"agent", "grpc"}

Starting == {"agentRemove", "agentListen", "agentChmod", "services", "grpcRemove", "grpcListen", "grpcChmod"}
Up == Starting \union {"serving", "draining", "agentStop", "agentWait"}
Alive == {d \in Daemons : dpc[d] \in Up}

\* Where a daemon accepts connections, its socket file being in place or not.
AcceptsAgent(d) == dpc[d] \in Up \ {"agentRemove", "agentListen", "agentWait"}
AcceptsGrpc(d) == dpc[d] \in {"grpcChmod", "serving"}

DaemonInit ==
    /\ dpc = [d \in Daemons |-> "off"]
    /\ file = [p \in Paths |-> Nobody]
    /\ streams = [d \in Daemons |-> {}]
    /\ agentConns = [d \in Daemons |-> {}]
    /\ hung = {}
    /\ lpc = "idle" /\ mine = Nobody /\ saw = Nobody
    /\ kills = 0
    /\ disturbed = {} /\ untidy = {}

At(d, here, there) == dpc[d] = here /\ dpc' = [dpc EXCEPT ![d] = there]

connVars == <<streams, agentConns, hung>>
appVars == <<lpc, mine, saw>>
pastVars == <<kills, disturbed, untidy>>

\* The process is gone, and with it its connections; its files stay.
Gone(d) ==
    /\ dpc' = [dpc EXCEPT ![d] = "dead"]
    /\ streams' = [streams EXCEPT ![d] = {}]
    /\ agentConns' = [agentConns EXCEPT ![d] = {}]
    /\ untidy' = untidy \union {d}
--------------------------------------------------------------------------------
(* New and main. *)

\* A process is started.  It is not alone when another one is up, or when a
\* launcher is about to kill daemons or to remove their socket.
Exec(d) ==
    /\ At(d, "off", "agentRemove")
    /\ disturbed' = IF Alive # {} \/ lpc \in {"killed", "stopping"}
                    THEN disturbed \union {d} \union Alive ELSE disturbed

\* systemd starts the daemon.
SystemdStarts(d) ==
    /\ lpc \in {"idle", "ready"}
    /\ Exec(d)
    /\ UNCHANGED <<file, connVars, appVars, kills, untidy>>

\* ManagedAgent.Start: os.RemoveAll ...
AgentRemove(d) ==
    /\ At(d, "agentRemove", "agentListen")
    /\ file' = [file EXCEPT !["agent"] = Nobody]
    /\ UNCHANGED <<connVars, appVars, pastVars>>

\* ... net.Listen ...
AgentListen(d) ==
    /\ file["agent"] = Nobody
    /\ At(d, "agentListen", "agentChmod")
    /\ file' = [file EXCEPT !["agent"] = d]
    /\ UNCHANGED <<connVars, appVars, pastVars>>

\* ... os.Chmod, of whatever has the name now.
AgentChmod(d) ==
    /\ file["agent"] # Nobody
    /\ At(d, "agentChmod", "services")
    /\ UNCHANGED <<file, connVars, appVars, pastVars>>

\* The other services of New.
InitServices(d) ==
    /\ At(d, "services", "grpcRemove")
    /\ UNCHANGED <<file, connVars, appVars, pastVars>>

GrpcRemove(d) ==
    /\ At(d, "grpcRemove", "grpcListen")
    /\ file' = [file EXCEPT !["grpc"] = Nobody]
    /\ UNCHANGED <<connVars, appVars, pastVars>>

GrpcListen(d) ==
    /\ file["grpc"] = Nobody
    /\ At(d, "grpcListen", "grpcChmod")
    /\ file' = [file EXCEPT !["grpc"] = d]
    /\ UNCHANGED <<connVars, appVars, pastVars>>

\* Chmod, signal.Notify and Serve.
GrpcChmod(d) ==
    /\ file["grpc"] # Nobody
    /\ At(d, "grpcChmod", "serving")
    /\ UNCHANGED <<file, connVars, appVars, pastVars>>

\* Another daemon has taken the name, or taken it away: FatalErr.
StartFails(d) ==
    /\ \/ dpc[d] \in {"agentListen", "grpcListen"}
          /\ file[IF dpc[d] = "agentListen" THEN "agent" ELSE "grpc"] # Nobody
       \/ dpc[d] \in {"agentChmod", "grpcChmod"}
          /\ file[IF dpc[d] = "agentChmod" THEN "agent" ELSE "grpc"] = Nobody
    /\ Gone(d)
    /\ UNCHANGED <<file, hung, appVars, kills, disturbed>>

\* A service of New fails: main exits and leaves the socket of the agent.
InitFails(d) ==
    /\ dpc[d] = "services" /\ kills < MaxKills
    /\ kills' = kills + 1
    /\ Gone(d)
    /\ UNCHANGED <<file, hung, appVars, disturbed>>
--------------------------------------------------------------------------------
(* SIGTERM and Stop. *)

\* Mutant: the agent is stopped before the streams are drained.
SignalAgentFirst(ds) ==
    LET early == {d \in ds : dpc[d] \in Starting}
        served == {d \in ds : dpc[d] = "serving"} IN
    /\ dpc' = [d \in Daemons |-> IF d \in early THEN "dead" ELSE IF d \in served THEN "draining" ELSE dpc[d]]
    /\ file' = [p \in Paths |-> IF served # {} THEN Nobody ELSE file[p]]
    /\ streams' = [d \in Daemons |-> IF d \in early THEN {} ELSE streams[d]]
    /\ agentConns' = [d \in Daemons |-> IF d \in early THEN {} ELSE agentConns[d]]
    /\ untidy' = untidy \union early

\* What SIGTERM does to the daemons ds.  GracefulStop closes the listener, which
\* removes the socket file, and then waits; before signal.Notify the signal kills.
Signal(ds) ==
    LET early == {d \in ds : dpc[d] \in Starting}
        served == {d \in ds : dpc[d] = "serving"} IN
    /\ dpc' = [d \in Daemons |-> IF d \in early THEN "dead" ELSE IF d \in served THEN "draining" ELSE dpc[d]]
    /\ file' = [file EXCEPT !["grpc"] = IF served # {} THEN Nobody ELSE @]
    /\ streams' = [d \in Daemons |-> IF d \in early THEN {} ELSE streams[d]]
    /\ agentConns' = [d \in Daemons |-> IF d \in early THEN {} ELSE agentConns[d]]
    /\ untidy' = untidy \union early

\* systemctl stop
SystemdStops(d) ==
    /\ d \in Alive
    /\ Signal({d})
    /\ UNCHANGED <<hung, appVars, kills, disturbed>>

\* GracefulStop returns: every stream has ended.
Drained(d) ==
    /\ streams[d] = {}
    /\ At(d, "draining", "agentStop")
    /\ UNCHANGED <<file, connVars, appVars, pastVars>>

\* ManagedAgent.Stop closes its listener, which removes the socket file ...
AgentClose(d) ==
    /\ At(d, "agentStop", "agentWait")
    /\ file' = [file EXCEPT !["agent"] = Nobody]
    /\ UNCHANGED <<connVars, appVars, pastVars>>

\* ... waits for the connections, and removes the file once more.
AgentStopped(d) ==
    /\ agentConns[d] = {}
    /\ At(d, "agentWait", "dead")
    /\ file' = [file EXCEPT !["agent"] = Nobody]
    /\ UNCHANGED <<connVars, appVars, pastVars>>

\* SIGKILL, or a crash.
Killed(d) ==
    /\ d \in Alive /\ kills < MaxKills
    /\ kills' = kills + 1
    /\ Gone(d)
    /\ UNCHANGED <<file, hung, appVars, disturbed>>
--------------------------------------------------------------------------------
(* The programs. *)

OpenStream(x, d) ==
    /\ x \notin hung /\ file["grpc"] = d /\ AcceptsGrpc(d) /\ x \notin streams[d]
    /\ streams' = [streams EXCEPT ![d] = @ \union {x}]
    /\ UNCHANGED <<dpc, file, agentConns, hung, appVars, pastVars>>

\* The accept loop of the agent.
AgentAccept(x, d) ==
    /\ x \notin hung /\ file["agent"] = d /\ AcceptsAgent(d) /\ x \notin agentConns[d]
    /\ agentConns' = [agentConns EXCEPT ![d] = @ \union {x}]
    /\ UNCHANGED <<dpc, file, streams, hung, appVars, pastVars>>

\* A program closes what it has open.
Closes(x) ==
    /\ x \notin hung
    /\ \E d \in Daemons : x \in streams[d] \union agentConns[d]
    /\ streams' = [d \in Daemons |-> streams[d] \ {x}]
    /\ agentConns' = [d \in Daemons |-> agentConns[d] \ {x}]
    /\ UNCHANGED <<dpc, file, hung, appVars, pastVars>>

Hangs(x) ==
    /\ hung' = hung \union {x}
    /\ x \notin hung
    /\ UNCHANGED <<dpc, file, streams, agentConns, appVars, pastVars>>

\* Mutant: dead connections are not looked for.
KeepaliveOff(x, d) == FALSE /\ UNCHANGED dvars

\* The keepalive parameters: a connection that answers no ping is closed.
Keepalive(x, d) ==
    /\ x \in hung \intersect streams[d]
    /\ streams' = [streams EXCEPT ![d] = @ \ {x}]
    /\ UNCHANGED <<dpc, file, agentConns, hung, appVars, pastVars>>
--------------------------------------------------------------------------------
(* The launcher of the app. *)

\* start: pkill, and half a second for the daemons to end.
LaunchKill ==
    /\ lpc = "idle"
    /\ lpc' = "killed"
    /\ Signal(Alive)
    /\ UNCHANGED <<hung, mine, saw, kills, disturbed>>

\* _killExistingDaemon removes the socket file that is left.
LaunchClean ==
    /\ lpc = "killed"
    /\ lpc' = "cleaned"
    /\ file' = [file EXCEPT !["grpc"] = Nobody]
    /\ UNCHANGED <<dpc, connVars, mine, saw, pastVars>>

LaunchExec(d) ==
    /\ lpc = "cleaned"
    /\ Exec(d)
    /\ lpc' = "waiting" /\ mine' = d
    /\ UNCHANGED <<file, connVars, saw, kills, untidy>>

\* _waitForSocket: a file is enough.
LaunchSees ==
    /\ lpc = "waiting" /\ file["grpc"] # Nobody
    /\ lpc' = "ready" /\ saw' = file["grpc"]
    /\ UNCHANGED <<dpc, file, connVars, mine, pastVars>>

LaunchTimesOut ==
    /\ lpc = "waiting"
    /\ lpc' = "failed"
    /\ UNCHANGED <<dpc, file, connVars, mine, saw, pastVars>>

\* stop: pkill, and two seconds ...
LauncherStops ==
    /\ lpc = "ready"
    /\ lpc' = "stopping"
    /\ Signal(Alive)
    /\ UNCHANGED <<hung, mine, saw, kills, disturbed>>

\* ... then the socket file is removed, whoever has it.
LauncherCleans ==
    /\ lpc = "stopping"
    /\ lpc' = "stopped"
    /\ file' = [file EXCEPT !["grpc"] = Nobody]
    /\ disturbed' = disturbed \union Alive
    /\ UNCHANGED <<dpc, connVars, mine, saw, kills, untidy>>
--------------------------------------------------------------------------------
DaemonStep(d) ==
    \/ AgentRemove(d) \/ AgentListen(d) \/ AgentChmod(d) \/ InitServices(d)
    \/ GrpcRemove(d) \/ GrpcListen(d) \/ GrpcChmod(d) \/ StartFails(d)
    \/ Drained(d) \/ AgentClose(d) \/ AgentStopped(d)

Others(d) ==
    \/ SystemdStarts(d) \/ SystemdStops(d) \/ InitFails(d) \/ Killed(d) \/ LaunchExec(d)
    \/ \E x \in Programs : OpenStream(x, d) \/ AgentAccept(x, d) \/ Keepalive(x, d)

DaemonNext ==
    \/ \E d \in Daemons : DaemonStep(d) \/ Others(d)
    \/ \E x \in Programs : Closes(x) \/ Hangs(x)
    \/ LaunchKill \/ LaunchClean \/ LaunchSees \/ LaunchTimesOut \/ LauncherStops \/ LauncherCleans

\* The processes run, and gRPC pings its connections.
DaemonFairness ==
    \A d \in Daemons :
       WF_dvars(DaemonStep(d)) /\ \A x \in Programs : WF_dvars(Keepalive(x, d))

DaemonSpec == DaemonInit /\ [][DaemonNext]_dvars /\ DaemonFairness
--------------------------------------------------------------------------------
DaemonTypeOK ==
    /\ \A p \in Paths : file[p] \in Daemons \union {Nobody}
    /\ \A d \in Daemons : d \notin Alive => streams[d] = {} /\ agentConns[d] = {}
    /\ \A d \in Daemons : dpc[d] \in {"agentStop", "agentWait"} => streams[d] = {}
    /\ lpc \in {"waiting", "ready", "failed", "stopping", "stopped"} <=> mine # Nobody

\* A daemon that nobody crossed is reachable: it has the socket of gRPC while it
\* serves, whatever a killed predecessor left behind, and the socket of its
\* agent until the last stream has ended.
ServesAtItsSockets ==
    \A d \in Daemons \ disturbed :
       /\ dpc[d] = "serving" => file["grpc"] = d
       /\ dpc[d] \in {"services", "grpcRemove", "grpcListen", "grpcChmod", "serving", "draining"} => file["agent"] = d

\* When the launcher reports that the daemon is ready, the socket it found is
\* that of the daemon it started: none of the daemons it killed, not even one
\* that was just starting, and none that died before can have left it.
ReadyIsMine == lpc = "ready" => saw = mine

\* A socket file without a daemon is left only by one that did not end by Stop.
StopLeavesNothing == \A p \in Paths : file[p] \in Alive \union untidy \union {Nobody}

\* The socket files of daemons that start, stop, die and follow one another: a
\* daemon has its own, the launcher waits for the right one, and a daemon that
\* stops takes its own away.
SocketsSafe == ServesAtItsSockets /\ ReadyIsMine /\ StopLeavesNothing

\* If in the end no program that answers holds a stream, and none a connection
\* to the agent, then a daemon that was told to stop stops: hung programs keep
\* it waiting only until keepalive finds them out.
StopEnds ==
    \A d \in Daemons :
       <>[](streams[d] \subseteq hung /\ agentConns[d] = {}) => (dpc[d] = "draining" ~> dpc[d] = "dead")
================================================================================
