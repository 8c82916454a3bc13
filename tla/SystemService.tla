------------------------------ MODULE SystemService -----------------------------
(***************************************************************************)
(* SystemManager (skeys-core/system/service.go, network.go, watcher.go and *)
(* skeys-daemon/internal/adapter/system.go): the calls that control sshd   *)
(* through systemctl, and the loop that polls the SSH status of the        *)
(* machine and broadcasts it when statusEqual finds a difference.  The     *)
(* parts of a status are read one after the other while calls, sshd and    *)
(* the administrator change the machine.                                   *)
(***************************************************************************)
EXTENDS ServerConfig, FiniteSets

CONSTANTS
    Controls,    \* calls that control the service
    Firewalls,   \* the states the firewall managers may be in
    Accesses,    \* what the daemon may be able to do with the config files
    Machines,    \* how the machine may be set up at first
    MaxOutside,  \* bound: changes by sshd or by the administrator
    MaxCalls,    \* bound: calls in a behaviour, and
    WatchedCalls \* in one with the polling loop

\* The states of the two firewall managers, and the ports that the rules open.
FirewallState == [ufw : {"absent", "active", "inactive", "unknown"},
                  firewalld : {"absent", "running", "stopped"}, open : SUBSET Nat]

\* The configs a status tells of: ssh's, the user's and sshd's.  sshd_config is
\* there; a .d directory is reported only beside a config that is.
Configs == {"system", "user", "server"}
Access == {a \in [Configs -> SUBSET {"there", "read", "write", "dir"}] :
              a["server"] # {} /\ \A p \in Configs : a[p] # {} => "there" \in a[p]}

\* systemd runs no service without its unit.
ASSUME MachineAssumption ==
    /\ Firewalls \subseteq FirewallState
    /\ Accesses \subseteq Access
    /\ \A m \in Machines : /\ m.units \subseteq {"ssh.service", "sshd.service"}
                           /\ m.active \in {"active", "inactive", "failed"}
                           /\ m.units = {} => m.active = "inactive"
                           /\ m.firewall \in FirewallState
                           /\ m.inPath \subseteq {"ssh", "sshd"}
                           /\ m.paths \in Access

VARIABLES
    units,      \* the unit files of the SSH server
    active,     \* systemd's ActiveState
    enabled,
    mainPID,    \* sshd's process, which is there before it is ready; 0 if there is none
    starts,     \* how often sshd was started; tells processes apart
    running,    \* what the running sshd has read of its config
    inPath,     \* the commands that the daemon finds in its PATH
    firewall,
    dropIn,     \* a Port in sshd_config.d, or NoValue
    outside,
    spc,        \* spc[c]: where call c is
    verb,       \* verb[c]: what it asks systemctl
    reply,      \* reply[c]: success and status
    fresh,      \* history: a restart or reload succeeded since sshd_config changed
    beside,     \* history: calls during which sshd_config changed
    wpc,        \* where the polling loop is
    snap,       \* the status it is reading
    torn,       \* history: the machine changed while it read
    shown       \* the last status broadcast, which is prevStatus

unitVars == <<units, active, enabled, mainPID, starts, running>>
aroundVars == <<inPath, paths, firewall, dropIn, outside>>
machineVars == <<unitVars, aroundVars>>
histVars == <<fresh, beside>>
controlVars == <<spc, verb, reply, histVars>>
pollVars == <<wpc, snap, shown>>
sysVars == <<cfgVars, machineVars, controlVars, pollVars, torn>>

NoStatus == [k |-> "none"]
--------------------------------------------------------------------------------
(* What GetSSHStatus reads. *)

\* findSSHServiceName: systemctl cat finds the unit.
FindSSHServiceName ==
    IF "ssh.service" \in units THEN "ssh.service"
    ELSE IF "sshd.service" \in units THEN "sshd.service" ELSE ""

\* What systemd says of a unit beside its ActiveState.
SubState ==
    CASE active = "active" -> "running" [] active = "inactive" -> "dead"
      [] active = "failed" -> "failed"
      [] active = "activating" -> IF mainPID = 0 THEN "start-pre" ELSE "start"

\* getServiceStatus: "activating" is none of the known states.
GetServiceStatus ==
    [state |-> CASE active = "active" -> "running" [] active = "inactive" -> "stopped"
                 [] active = "failed" -> "failed" [] OTHER -> "unknown",
     activeState |-> active, subState |-> SubState,
     enabled |-> enabled,
     pid |-> mainPID]

\* GetSSHServiceStatus
GetSSHServiceStatus ==
    IF FindSSHServiceName = ""
    THEN [state |-> "not found", activeState |-> "", subState |-> "", enabled |-> FALSE, pid |-> 0]
    ELSE GetServiceStatus

\* checkConfigPath
PathInfo(p) ==
    [exists |-> paths[p] # {}, readable |-> "read" \in paths[p], writable |-> "write" \in paths[p],
     include |-> "dir" \in paths[p]]

\* getSSHClientStatus
GetSSHClientStatus ==
    [installed |-> "ssh" \in inPath,
     systemConfig |-> PathInfo("system"), userConfig |-> PathInfo("user")]

\* getSSHServerStatus: LookPath finds sshd, whether it has a unit or not.
GetSSHServerStatus ==
    [installed |-> "sshd" \in inPath, service |-> GetSSHServiceStatus, config |-> PathInfo("server")]

\* getSSHPort: the first Port in sshd_config, if that can be read, in a Match
\* block or not, then in sshd_config.d.
GetSSHPort ==
    LET i == SelectInSeq(conf, LAMBDA l : l.k = "set" /\ l.key = "Port")
    IN  IF i # 0 /\ "read" \in paths["server"] THEN conf[i].val
        ELSE IF dropIn # NoValue THEN dropIn ELSE 22

\* Mutant: an inactive ufw is taken to let nothing through.
CheckUFWStrict == [manager |-> "ufw", active |-> firewall.ufw = "active",
                   allowed |-> firewall.ufw = "active" /\ 22 \in firewall.open]

\* checkUFW: without the rights to ask, its status is unknown and ssh is
\* reported as not allowed.
CheckUFW ==
    [manager |-> "ufw",
     active |-> firewall.ufw = "active",
     allowed |-> firewall.ufw = "inactive" \/ (firewall.ufw = "active" /\ 22 \in firewall.open)]

\* checkFirewalld: a stopped firewall lets everything through.
CheckFirewalld ==
    [manager |-> "firewalld",
     active |-> firewall.firewalld = "running",
     allowed |-> firewall.firewalld = "stopped" \/ 22 \in firewall.open]

\* GetFirewallStatus: the first manager that is installed.
GetFirewallStatus ==
    IF firewall.ufw # "absent" THEN CheckUFW
    ELSE IF firewall.firewalld # "absent" THEN CheckFirewalld
    ELSE [manager |-> "none", active |-> FALSE, allowed |-> TRUE]

\* The status of this moment.
Status == [k |-> "status", client |-> GetSSHClientStatus, server |-> GetSSHServerStatus,
           port |-> GetSSHPort, firewall |-> GetFirewallStatus]

\* Mutant: whether the service starts on boot is not compared.
StatusEqualBootless(a, b) ==
    /\ a.client = b.client
    /\ [a.server.service EXCEPT !.enabled = FALSE] = [b.server.service EXCEPT !.enabled = FALSE]
    /\ a.server.installed = b.server.installed /\ a.server.config = b.server.config

\* statusEqual: installations, configs and the service; the port and the
\* firewall are not compared.
StatusEqual(a, b) == a.client = b.client /\ a.server = b.server
--------------------------------------------------------------------------------
(* The messages of the API. *)

\* toProtoServiceStatus
ToProtoServiceStatus(s) ==
    [state |-> CASE s.state = "running" -> "RUNNING" [] s.state = "stopped" -> "STOPPED"
                 [] s.state = "failed" -> "FAILED" [] s.state = "not found" -> "NOT_FOUND"
                 [] s.state = "unknown" -> "UNKNOWN",
     enabled |-> s.enabled, activeState |-> s.activeState, subState |-> s.subState, pid |-> s.pid]

\* toProtoSSHClientStatus
ToProtoSSHClientStatus(s) ==
    [installed |-> s.installed, systemConfig |-> s.systemConfig, userConfig |-> s.userConfig]

\* toProtoSSHServerStatus
ToProtoSSHServerStatus(s) ==
    [installed |-> s.installed, service |-> ToProtoServiceStatus(s.service), config |-> s.config]

\* toProtoNetworkInfo
ToProtoNetworkInfo(port) == [sshPort |-> port]

\* toProtoFirewallStatus
ToProtoFirewallStatus(f) ==
    [type |-> CASE f.manager = "ufw" -> "UFW" [] f.manager = "firewalld" -> "FIREWALLD"
                [] f.manager = "none" -> "NONE",
     active |-> f.active, sshAllowed |-> f.allowed]

\* What GetSSHStatus answers and WatchSSHStatus sends for a status.
ToProtoSSHStatus(s) ==
    [client |-> ToProtoSSHClientStatus(s.client), server |-> ToProtoSSHServerStatus(s.server),
     network |-> ToProtoNetworkInfo(s.port), firewall |-> ToProtoFirewallStatus(s.firewall)]
--------------------------------------------------------------------------------
\* What sshd reads when it starts or is told to.
ConfigNow == [k |-> "config", values |-> [key \in CfgKeys |-> Effective(conf, key)]]

SysInit ==
    /\ CfgInit
    /\ \E m \in Machines :
          /\ units = m.units /\ enabled = m.enabled
          /\ inPath = m.inPath /\ paths = m.paths /\ firewall = m.firewall /\ dropIn = m.dropIn
          /\ active = m.active
          /\ starts = IF m.active = "active" THEN 1 ELSE 0
          /\ mainPID = starts
          /\ running = IF m.active = "active" THEN ConfigNow ELSE NoStatus
    /\ outside = 0
    /\ spc = [c \in Controls |-> "new"]
    /\ verb = [c \in Controls |-> "none"]
    /\ reply = [c \in Controls |-> NoStatus]
    /\ fresh = FALSE /\ beside = {}
    /\ wpc = "off"
    /\ snap = NoStatus /\ shown = NoStatus
    /\ torn = FALSE

Go(c, label) == spc' = [spc EXCEPT ![c] = label]
Made == Cardinality({c \in Controls : spc[c] # "new"}) + Cardinality({c \in Editors : epc[c] # "new"})

Limit == IF wpc = "off" THEN MaxCalls ELSE WatchedCalls

Controlling == {c \in Controls : spc[c] \notin {"new", "done"}}

\* A step that may change the machine under a poll.
Disturbs == torn' = (wpc \notin {"off", "waiting"})
--------------------------------------------------------------------------------
(* The calls.  find, command, then the status for the answer. *)

Begin(c, v) ==
    /\ spc[c] = "new"
    /\ Made < Limit
    /\ Go(c, IF FindSSHServiceName = "" THEN "done" ELSE "command")
    /\ verb' = [verb EXCEPT ![c] = v]
    /\ reply' = [reply EXCEPT ![c] = IF FindSSHServiceName = "" THEN [k |-> "error"] ELSE @]
    /\ UNCHANGED <<cfgVars, machineVars, histVars, pollVars, torn>>

StartSSHService(c) == Begin(c, "start")
StopSSHService(c) == Begin(c, "stop")
RestartSSHServiceWithStatus(c) == Begin(c, "restart")
ReloadSSHService(c) == Begin(c, "reload")
EnableSSHService(c) == Begin(c, "enable")
DisableSSHService(c) == Begin(c, "disable")

\* runPrivilegedCommand fails: the user does not authenticate, or systemctl
\* refuses.  For start, getServiceFailureDetails words the answer.
CommandFails(c) ==
    /\ spc[c] \in {"command", "starting"}
    /\ active' = IF spc[c] = "starting" THEN "failed" ELSE active
    /\ running' = IF spc[c] = "starting" THEN NoStatus ELSE running
    /\ mainPID' = IF spc[c] = "starting" THEN 0 ELSE mainPID
    /\ Go(c, "done")
    /\ reply' = [reply EXCEPT ![c] = [k |-> "error"]]
    /\ Disturbs
    /\ UNCHANGED <<cfgVars, units, enabled, starts, aroundVars, verb, histVars, pollVars>>

\* A systemctl job waits for the one before it.
Command(c, v) ==
    spc[c] = "command" /\ verb[c] = v /\ (\A d \in Controls : spc[d] # "starting") /\ Disturbs

\* Nothing is done for a service that is active.
StartCommand(c) ==
    /\ Command(c, "start")
    /\ IF active = "active" THEN Go(c, "status") /\ UNCHANGED active
                            ELSE Go(c, "starting") /\ active' = "activating"
    /\ UNCHANGED <<cfgVars, units, enabled, mainPID, starts, running, aroundVars,
                   verb, reply, histVars, pollVars>>

\* systemctl returns when sshd is gone, which is one step here.
StopCommand(c) ==
    /\ Command(c, "stop")
    /\ active' = "inactive" /\ mainPID' = 0 /\ running' = NoStatus
    /\ Go(c, "status")
    /\ UNCHANGED <<cfgVars, units, enabled, starts, aroundVars,
                   verb, reply, histVars, pollVars>>

RestartCommand(c) ==
    /\ Command(c, "restart")
    /\ active' = "activating" /\ mainPID' = 0 /\ running' = NoStatus
    /\ Go(c, "starting")
    /\ UNCHANGED <<cfgVars, units, enabled, starts, aroundVars,
                   verb, reply, histVars, pollVars>>

\* systemd has checked the config and starts the process; external.
Forks(c) ==
    /\ spc[c] = "starting" /\ active = "activating" /\ mainPID = 0
    /\ starts' = starts + 1 /\ mainPID' = starts'
    /\ Disturbs
    /\ UNCHANGED <<cfgVars, units, active, enabled, running, aroundVars,
                   spc, verb, reply, histVars, pollVars>>

\* systemctl start or restart returns when sshd is up.
Started(c) ==
    /\ spc[c] = "starting" /\ mainPID # 0
    /\ active' = "active" /\ running' = ConfigNow
    /\ Go(c, "status")
    /\ Disturbs
    /\ UNCHANGED <<cfgVars, units, enabled, mainPID, starts, aroundVars,
                   verb, reply, histVars, pollVars>>

ReloadCommand(c) ==
    /\ Command(c, "reload")
    /\ active = "active"
    /\ running' = ConfigNow
    /\ Go(c, "status")
    /\ UNCHANGED <<cfgVars, units, active, enabled, mainPID, starts, aroundVars,
                   verb, reply, histVars, pollVars>>

Boot(c, v, e) ==
    /\ Command(c, v)
    /\ enabled' = e
    /\ Go(c, "status")
    /\ UNCHANGED <<cfgVars, units, active, mainPID, starts, running, aroundVars,
                   verb, reply, histVars, pollVars>>

EnableCommand(c) == Boot(c, "enable", TRUE)
DisableCommand(c) == Boot(c, "disable", FALSE)

\* The answer: success with the status of now.
AnswerControl(c) ==
    /\ spc[c] = "status"
    /\ reply' = [reply EXCEPT ![c] = [k |-> "ok", status |-> ToProtoServiceStatus(GetServiceStatus)]]
    /\ fresh' = (fresh \/ (verb[c] \in {"restart", "reload"} /\ c \notin beside))
    /\ Go(c, "done")
    /\ UNCHANGED <<cfgVars, machineVars, verb, beside, pollVars, torn>>

ControlStep(c) ==
    \/ StartSSHService(c) \/ StopSSHService(c) \/ RestartSSHServiceWithStatus(c) \/ ReloadSSHService(c)
    \/ EnableSSHService(c) \/ DisableSSHService(c)
    \/ CommandFails(c) \/ StartCommand(c) \/ StopCommand(c) \/ RestartCommand(c)
    \/ Forks(c) \/ Started(c) \/ ReloadCommand(c) \/ EnableCommand(c) \/ DisableCommand(c) \/ AnswerControl(c)
--------------------------------------------------------------------------------
(* The machine changes by itself. *)

Outside == outside < MaxOutside /\ outside' = outside + 1 /\ Disturbs

\* sshd dies.
SshdDies ==
    /\ Outside
    /\ active = "active"
    /\ active' = "failed" /\ mainPID' = 0 /\ running' = NoStatus
    /\ UNCHANGED <<cfgVars, units, enabled, starts, inPath, paths, firewall, dropIn,
                   controlVars, pollVars>>

\* A command comes or goes.
CommandsChange ==
    /\ Outside
    /\ \E b \in {"ssh", "sshd"} : inPath' = IF b \in inPath THEN inPath \ {b} ELSE inPath \union {b}
    /\ UNCHANGED <<cfgVars, unitVars, paths, firewall, dropIn, controlVars, pollVars>>

\* The administrator or the user creates, removes or protects configs.
ConfigsChange ==
    /\ Outside
    /\ paths' \in Accesses \ {paths}
    /\ UNCHANGED <<cfgVars, unitVars, inPath, firewall, dropIn, controlVars, pollVars>>

\* The administrator starts, stops or opens a firewall.
FirewallChanges ==
    /\ Outside
    /\ firewall' \in {f \in Firewalls : f # firewall /\ (f.ufw = "absent" <=> firewall.ufw = "absent")}
    /\ UNCHANGED <<cfgVars, unitVars, inPath, paths, dropIn, controlVars, pollVars>>
--------------------------------------------------------------------------------
(* pollLoop. *)

\* start, or the ticker.
Poll ==
    /\ wpc \in {"off", "waiting"}
    /\ wpc = "off" => Made <= WatchedCalls
    /\ wpc' = "client"
    /\ UNCHANGED <<cfgVars, machineVars, controlVars, torn, snap, shown>>

\* getSSHClientStatus
ReadClient ==
    /\ wpc = "client"
    /\ snap' = [k |-> "status", client |-> GetSSHClientStatus]
    /\ wpc' = "server"
    /\ UNCHANGED <<cfgVars, machineVars, controlVars, torn, shown>>

ReadServer ==
    /\ wpc = "server"
    /\ snap' = [k |-> "status", client |-> snap.client, server |-> GetSSHServerStatus]
    /\ wpc' = "network"
    /\ UNCHANGED <<cfgVars, machineVars, controlVars, torn, shown>>

\* GetNetworkInfo
ReadNetwork ==
    /\ wpc = "network"
    /\ snap' = [k |-> "status", client |-> snap.client, server |-> snap.server, port |-> GetSSHPort]
    /\ wpc' = "firewall"
    /\ UNCHANGED <<cfgVars, machineVars, controlVars, torn, shown>>

ReadFirewall ==
    /\ wpc = "firewall"
    /\ snap' = [k |-> "status", client |-> snap.client, server |-> snap.server, port |-> snap.port,
                firewall |-> GetFirewallStatus]
    /\ wpc' = "compare"
    /\ UNCHANGED <<cfgVars, machineVars, controlVars, torn, shown>>

\* The first status is broadcast, a later one if it is not equal.
Compare ==
    /\ wpc = "compare"
    /\ shown' = IF shown = NoStatus THEN snap
                ELSE IF StatusEqual(shown, snap) THEN shown ELSE snap
    /\ snap' = NoStatus
    /\ wpc' = "waiting"
    /\ torn' = FALSE
    /\ UNCHANGED <<cfgVars, machineVars, controlVars>>

\* A step of an UpdateServerConfig, as the rest of the machine has it.
EditSeen ==
    /\ Disturbs
    /\ fresh' = (fresh /\ conf' = conf)
    /\ beside' = IF conf' = conf THEN beside ELSE beside \union Controlling
    /\ UNCHANGED <<machineVars, spc, verb, reply, pollVars>>
    /\ Made' <= Limit

PollStep == Poll \/ ReadClient \/ ReadServer \/ ReadNetwork \/ ReadFirewall \/ Compare

SysNext ==
    \/ CfgNext /\ EditSeen
    \/ \E c \in Controls : ControlStep(c)
    \/ SshdDies \/ CommandsChange \/ ConfigsChange \/ FirewallChanges
    \/ PollStep

\* The ticker of the loop fires again and again.
SysFairness == WF_sysVars(PollStep)

SysSpec == SysInit /\ [][SysNext]_sysVars /\ SysFairness
--------------------------------------------------------------------------------
SysTypeOK ==
    /\ active \in {"active", "inactive", "activating", "failed"}
    /\ active = "active" <=> running # NoStatus
    /\ active = "active" => mainPID # 0
    /\ mainPID # 0 => active \in {"active", "activating"}
    /\ starts \in Nat
    /\ (active = "activating") => \E c \in Controls : spc[c] = "starting"
    /\ units = {} => active = "inactive"

\* After a restart or reload that succeeded while nobody edited sshd_config, and
\* until somebody does, a running sshd works by what the file says.
RunsAsConfigured == (fresh /\ active = "active") => running = ConfigNow

\* What the firewall in charge does with port 22.
Admits ==
    \/ firewall.ufw # "active" /\ firewall.firewalld # "running"
    \/ 22 \in firewall.open

\* What a message says of a config is so.
SaysOf(info, p) ==
    /\ info.exists <=> paths[p] # {}
    /\ info.readable <=> "read" \in paths[p]
    /\ info.writable <=> "write" \in paths[p]

\* A status that was read while nothing changed is true: the service, its state
\* and its process; what is installed, which means in the daemon's PATH and not
\* that there is a unit; what may be done with the configs; the port sshd would
\* listen on, unless sshd_config cannot be read, sshd_config.d sets one, too, or
\* a Match block does; and whether port 22 gets through, unless two firewalls
\* are installed or ufw does not tell.
SnapshotTrue ==
    (wpc = "compare" /\ ~torn) =>
       LET message == ToProtoSSHStatus(snap) IN
       /\ message.client.installed <=> "ssh" \in inPath
       /\ message.server.installed <=> "sshd" \in inPath
       /\ message.server.service.state = "RUNNING" <=> active = "active"
       /\ message.server.service.state = "NOT_FOUND" <=> units = {}
       /\ message.server.service.pid = mainPID
       /\ message.server.service.state = "RUNNING" => message.server.service.pid # 0
       /\ SaysOf(message.client.systemConfig, "system") /\ SaysOf(message.client.userConfig, "user")
       /\ SaysOf(message.server.config, "server")
       /\ (dropIn = NoValue /\ "read" \in paths["server"] /\ Effective(conf, "Port") # NoValue)
             => message.network.sshPort = Effective(conf, "Port")
       /\ (firewall.ufw = "absent" \/ (firewall.firewalld = "absent" /\ firewall.ufw # "unknown"))
             => message.firewall.sshAllowed = Admits

\* Once it is watched, the stream in the end shows the client, the server and its
\* service, and the configs as they are, however changes fell between the reads
\* of a poll.
StatusConverges ==
    <>(wpc # "off") =>
       <>[](/\ shown # NoStatus
            /\ shown # NoStatus => shown.client = Status.client /\ shown.server = Status.server)
================================================================================
