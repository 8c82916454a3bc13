SPECIFICATION Spec
CONSTANTS
    Editors = {e1, e2}
    CfgRequests <- Requests
    CfgFiles <- Files
    MaxFaults = 1
    Controls = {c1, c2}
    Firewalls <- FirewallStates
    Accesses <- AccessKinds
    Machines <- Setups
    MaxOutside = 1
    MaxCalls = 2
    WatchedCalls = 1
    Daemons = {d1, d2}
    Programs = {x1}
    Nobody = Nobody
    MaxKills = 1
    Distros <- Systems
    Placed = {"/usr/local/etc/ssh/ssh_config", "/etc/ssh/sshd_config", "/etc/sshd_config"}
    MaxMoves = 2
INVARIANTS SshdAsConfigured SnapshotTrue SocketsSafe DiscoveryHelps
PROPERTIES StatusConverges StopEnds
CHECK_DEADLOCK FALSE
