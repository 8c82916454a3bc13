---------------------------------- MODULE Host ----------------------------------
(***************************************************************************)
(* The machine the daemon runs on: sshd with its config and status, the    *)
(* processes of the daemon itself, and the discovery of what is installed. *)
(* They share no state, so a behaviour exercises one of them while the     *)
(* others rest: their steps commute.                                       *)
(***************************************************************************)
EXTENDS SystemService, Daemon, ConfigDiscovery

VARIABLE part   \* what this behaviour is about

hostVars == <<sysVars, dvars, discVars, part>>

Init ==
    /\ part \in {"sshd", "daemon", "discovery"}
    /\ SysInit /\ DaemonInit /\ DiscInit
    /\ part # "sshd" =>
          conf = (CHOOSE f \in CfgFiles : TRUE) /\ units = (CHOOSE m \in Machines : TRUE).units
    /\ part # "discovery" => distro = (CHOOSE d \in Distros : TRUE) /\ installed = {} /\ sane

Next ==
    \/ part = "sshd" /\ SysNext /\ UNCHANGED <<dvars, discVars, part>>
    \/ part = "daemon" /\ DaemonNext /\ UNCHANGED <<sysVars, discVars, part>>
    \/ part = "discovery" /\ DiscNext /\ UNCHANGED <<sysVars, dvars, part>>

Polls == part = "sshd" /\ PollStep /\ UNCHANGED <<dvars, discVars, part>>
Runs(d) == part = "daemon" /\ DaemonStep(d) /\ UNCHANGED <<sysVars, discVars, part>>
Pings(x, d) == part = "daemon" /\ Keepalive(x, d) /\ UNCHANGED <<sysVars, discVars, part>>

\* The ticker of the status loop fires again and again; the daemons run, and
\* gRPC pings its connections.
Fairness ==
    /\ WF_hostVars(Polls)
    /\ \A d \in Daemons : WF_hostVars(Runs(d)) /\ \A x \in Programs : WF_hostVars(Pings(x, d))

Spec == Init /\ [][Next]_hostVars /\ Fairness

\* The parts keep their types, and one that rests is as it was at first.
TypeOK ==
    /\ SysTypeOK /\ DaemonTypeOK /\ DiscTypeOK
    /\ part # "daemon" => Alive = {} /\ lpc = "idle"
    /\ part # "sshd" => wpc = "off" /\ Made = 0
    /\ part # "discovery" => stage = "idle" /\ moves = 0

\* The file of the server config says what was asked for, and after a restart
\* sshd works by it.
SshdAsConfigured == TypeOK /\ ConfigAsMeant /\ RunsAsConfigured
================================================================================
