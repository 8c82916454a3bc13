----------------------------- MODULE ConfigDiscovery ----------------------------
(***************************************************************************)
(* Where the SSH config files are (skeys-core/config/discovery.go, the RPC *)
(* DiscoverConfigPaths), and how to install SSH where it is missing        *)
(* (GetInstallInstructions, skeys-core/system/service.go): both look at    *)
(* the distribution, its packages, the commands in PATH and the files,     *)
(* one after the other, while the user and the administrator change them.  *)
(***************************************************************************)
EXTENDS Naturals, Sequences, SequencesExt

CONSTANTS
    Distros,    \* distributions: their release files, packages and package manager
    Placed,     \* bound: the config files somebody puts in place or removes
    MaxMoves    \* bound: changes of packages and files

VARIABLES
    distro,     \* the distribution of this machine
    installed,  \* its installed packages
    access,     \* access[p]: {} if there is no file p, else what may be done with it
    dirs,       \* the config files whose .d directory exists
    sane,       \* the client's config files have no error
    moves,
    stage,        \* where Discover is
    found,      \* what it has found
    moved,      \* history: something changed since Discover began
    advice,     \* the install instructions asked for last
    followed    \* history: the components installed by the book and not removed since

siteVars == <<distro, installed, access, dirs, sane>>
adviceVars == <<advice, followed>>
discVars == <<siteVars, moves, stage, found, moved, adviceVars>>

CommonClient == <<"/etc/ssh/ssh_config", "/etc/ssh_config", "/usr/local/etc/ssh/ssh_config">>
CommonServer == <<"/etc/ssh/sshd_config", "/etc/sshd_config", "/usr/local/etc/ssh/sshd_config">>
UserConfig == "~/.ssh/config"
ShareDefault == "/usr/share/openssh/sshd_config"

ClientPaths == ToSet(CommonClient) \union {"/usr/etc/ssh/ssh_config"}
ServerPaths == ToSet(CommonServer) \union {"/usr/etc/ssh/sshd_config"}
ConfigPaths == ClientPaths \union ServerPaths \union {UserConfig, ShareDefault}

\* The commands in the daemon's PATH.
Bin == UNION {distro.offers[p].bin : p \in installed}

There(p) == access[p] # {}
--------------------------------------------------------------------------------
(* ConfigDiscoverer. *)

\* checkPath, then the look for the .d directory.
CheckPath(p, method) ==
    [path |-> p, exists |-> There(p), readable |-> "read" \in access[p],
     writable |-> "write" \in access[p], include |-> p \in dirs, method |-> method]

\* detectDistribution: of several release files the map's order picks one.
DetectDistribution ==
    IF distro.id # "" THEN {distro.id}
    ELSE IF distro.lsb # "" THEN {distro.lsb}
    ELSE IF distro.marks # {} THEN distro.marks ELSE {"unknown"}

DiscoverClientUserConfig == CheckPath(UserConfig, "common path")

\* ssh -G does not say where its config is: if it runs, that is taken to be the
\* standard path.
GetClientConfigFromCommand == IF "ssh" \in Bin /\ sane THEN CommonClient[1] ELSE ""

\* sshd -T, or sshd in PATH.
GetServerConfigFromCommand == IF "sshd" \in Bin THEN CommonServer[1] ELSE ""

\* What a package manager lists of a package it has installed.
Listing(manager, package) ==
    IF manager = distro.manager /\ package \in installed THEN distro.offers[package].files ELSE <<>>

FirstOf(list, names) ==
    LET i == SelectInSeq(list, LAMBDA p : p \in names) IN IF i = 0 THEN "" ELSE list[i]

FirstNamed(paths) == FirstOf(paths, ConfigPaths)

GetClientConfigFromPackageManager ==
    FirstNamed(<<FirstOf(Listing("dpkg", "openssh-client"), ClientPaths),
                 FirstOf(Listing("rpm", "openssh-clients"), ClientPaths),
                 FirstOf(Listing("pacman", "openssh"), ClientPaths)>>)

\* A package that keeps the default in /usr/share stands for the file in /etc.
GetServerConfigFromPackageManager ==
    FirstNamed(<<FirstOf(Listing("dpkg", "openssh-server"), ServerPaths),
                 IF ShareDefault \in ToSet(Listing("dpkg", "openssh-server")) THEN CommonServer[1] ELSE "",
                 FirstOf(Listing("rpm", "openssh-server"), ServerPaths),
                 FirstOf(Listing("pacman", "openssh"), ServerPaths)>>)

\* Mutant: the first common path is taken without a look.
CommonPathBlind(paths) == CheckPath(paths[1], "common path")

\* The common path that exists, or the first of them.
CommonPath(paths) ==
    LET p == FirstOf(paths, {q \in ConfigPaths : There(q)})
    IN  IF p # "" THEN CheckPath(p, "common path")
        ELSE [CheckPath(paths[1], "common path") EXCEPT !.include = FALSE]

DiscoverClientSystemConfig ==
    IF GetClientConfigFromCommand # "" THEN CheckPath(GetClientConfigFromCommand, "command")
    ELSE IF GetClientConfigFromPackageManager # ""
         THEN CheckPath(GetClientConfigFromPackageManager, "package manager")
    ELSE CommonPath(CommonClient)

\* With nothing but the default in /usr/share, the .d directory is named
\* whether it is there or not.
DiscoverServerConfig ==
    IF GetServerConfigFromCommand # "" THEN CheckPath(GetServerConfigFromCommand, "command")
    ELSE IF GetServerConfigFromPackageManager # ""
         THEN CheckPath(GetServerConfigFromPackageManager, "package manager")
    ELSE IF (\A p \in ToSet(CommonServer) : ~There(p)) /\ There(ShareDefault)
         THEN [CheckPath(CommonServer[1], "common path") EXCEPT !.include = TRUE]
    ELSE CommonPath(CommonServer)
--------------------------------------------------------------------------------
(* SystemManager. *)

\* checkConfigPath, as GetSSHStatus reports it of a fixed path.
CheckConfigPath(p) ==
    [path |-> p, exists |-> There(p), readable |-> "read" \in access[p],
     writable |-> "write" \in access[p], include |-> There(p) /\ p \in dirs]

\* getDistributionInfo
GetDistributionInfo == IF distro.id = "" THEN "unknown" ELSE distro.id

Apt == {"ubuntu", "debian", "pop", "linuxmint", "elementary"}
Dnf == {"fedora", "rhel", "centos", "rocky", "almalinux"}
Pacman == {"arch", "manjaro", "endeavouros"}
Zypper == {"opensuse", "suse"}

\* The package manager the command of the instructions is for, if there is one.
Manager(id) ==
    IF id \in Apt THEN "dpkg" ELSE IF id \in Dnf \union Zypper THEN "rpm"
    ELSE IF id \in Pacman THEN "pacman" ELSE ""

GetClientInstallInstructions(id) ==
    [package |-> IF id \in Apt THEN "openssh-client" ELSE IF id \in Dnf THEN "openssh-clients" ELSE "openssh",
     manager |-> Manager(id)]

GetServerInstallInstructions(id) ==
    [package |-> IF id \in Pacman \union Zypper THEN "openssh" ELSE "openssh-server",
     manager |-> Manager(id)]

\* A component that is not named is the client.
GetInstallInstructions(component) ==
    [component |-> component,
     steps |-> IF component = "server" THEN GetServerInstallInstructions(GetDistributionInfo)
                                       ELSE GetClientInstallInstructions(GetDistributionInfo)]

\* A distribution that the instructions have a command for has the package that
\* the command names; external.
Offers(d, steps, component) ==
    steps.manager # "" =>
       /\ steps.manager = d.manager
       /\ steps.package \in DOMAIN d.offers
       /\ component \in d.offers[steps.package].components

ASSUME DistroAssumption ==
    \A d \in Distros : /\ Offers(d, GetClientInstallInstructions(d.id), "client")
                       /\ Offers(d, GetServerInstallInstructions(d.id), "server")
--------------------------------------------------------------------------------
NoAdvice == [component |-> "none"]
Nothing == [distribution |-> "none"]

\* The files and .d directories of the installed packages are in place.
DiscInit ==
    /\ distro \in Distros
    /\ installed \in {{}, DOMAIN distro.offers}
    /\ access = [p \in ConfigPaths |->
                   IF \E k \in installed : p \in ToSet(distro.offers[k].files) THEN {"there", "read"} ELSE {}]
    /\ dirs = {p \in {CommonClient[1], CommonServer[1]} : There(p)}
    /\ sane \in BOOLEAN
    /\ moves = 0
    /\ stage = "idle" /\ found = Nothing /\ moved = FALSE
    /\ advice = NoAdvice /\ followed = {}

DiscoverDistribution ==
    /\ stage = "idle"
    /\ \E d \in DetectDistribution : found' = [distribution |-> d]
    /\ stage' = "user" /\ moved' = FALSE
    /\ UNCHANGED <<siteVars, moves, adviceVars>>

DiscoverUser ==
    /\ stage = "user"
    /\ found' = [distribution |-> found.distribution, user |-> DiscoverClientUserConfig]
    /\ stage' = "client"
    /\ UNCHANGED <<siteVars, moves, moved, adviceVars>>

DiscoverClient ==
    /\ stage = "client"
    /\ found' = [distribution |-> found.distribution, user |-> found.user,
                 client |-> DiscoverClientSystemConfig]
    /\ stage' = "server"
    /\ UNCHANGED <<siteVars, moves, moved, adviceVars>>

DiscoverServer ==
    /\ stage = "server"
    /\ found' = [distribution |-> found.distribution, user |-> found.user, client |-> found.client,
                 server |-> DiscoverServerConfig]
    /\ stage' = "installed"
    /\ UNCHANGED <<siteVars, moves, moved, adviceVars>>

\* The two flags, and the answer.
DiscoverInstalled ==
    /\ stage = "installed"
    /\ found' = [distribution |-> found.distribution, user |-> found.user, client |-> found.client,
                 server |-> found.server, sshInstalled |-> "ssh" \in Bin, sshdInstalled |-> "sshd" \in Bin]
    /\ stage' = "answered"
    /\ UNCHANGED <<siteVars, moves, moved, adviceVars>>

Ask(component) ==
    /\ stage = "idle" /\ advice = NoAdvice
    /\ advice' = GetInstallInstructions(component)
    /\ UNCHANGED <<siteVars, moves, stage, found, moved, followed>>
--------------------------------------------------------------------------------
(* The user and the administrator. *)

\* Bound: before Discover is called, or once while it looks.
Move ==
    /\ IF stage = "idle" THEN moves < MaxMoves ELSE ~moved /\ moves < MaxMoves /\ stage # "answered"
    /\ moves' = moves + 1 /\ moved' = TRUE

Brings(p, k) == p \in ToSet(distro.offers[k].files)

\* The user does what the instructions say; a package the distribution does not
\* have is not installed.
Follow ==
    /\ Move
    /\ advice # NoAdvice /\ advice.steps.manager # ""
    /\ LET k == advice.steps.package
           ok == advice.steps.manager = distro.manager /\ k \in DOMAIN distro.offers
       IN  /\ installed' = IF ok THEN installed \union {k} ELSE installed
           /\ access' = IF ok THEN [p \in ConfigPaths |-> IF Brings(p, k) /\ ~There(p) THEN {"there", "read"}
                                                         ELSE access[p]]
                        ELSE access
    /\ followed' = followed \union {advice.component}
    /\ advice' = NoAdvice
    /\ UNCHANGED <<distro, dirs, sane, stage, found>>

\* A package is removed; the changed config files stay.
Uninstall(k) ==
    /\ Move
    /\ k \in installed
    /\ installed' = installed \ {k}
    /\ access' = [p \in ConfigPaths |-> IF Brings(p, k) /\ "write" \notin access[p] THEN {} ELSE access[p]]
    /\ followed' = followed \ distro.offers[k].components
    /\ UNCHANGED <<distro, dirs, sane, stage, found, advice>>

\* A config file comes, with other rights than before, or goes.
Place(p, rights) ==
    /\ Move
    /\ access[p] # rights
    /\ access' = [access EXCEPT ![p] = rights]
    /\ UNCHANGED <<distro, installed, dirs, sane, stage, found, adviceVars>>

DiscoverStep ==
    DiscoverDistribution \/ DiscoverUser \/ DiscoverClient \/ DiscoverServer \/ DiscoverInstalled

DiscNext ==
    \/ DiscoverStep
    \/ \E c \in {"client", "server"} : Ask(c)
    \/ Follow
    \/ \E k \in installed : Uninstall(k)
    \/ \E p \in Placed, r \in {{}, {"there", "write"}} : Place(p, r)
--------------------------------------------------------------------------------
DiscTypeOK ==
    /\ installed \subseteq DOMAIN distro.offers
    /\ access \in [ConfigPaths -> SUBSET {"there", "read", "write"}]
    /\ stage \in {"idle", "user", "client", "server", "installed", "answered"}

\* What DiscoverConfigPaths answers, when nothing changed while it looked, is
\* true of the files: a path that is said to exist does, with the rights that
\* are reported; the client's and the server's agree with what GetSSHStatus
\* reports of the same path, but for the .d directory of a file that is missing;
\* and a common path that exists is not passed over, unless a command or a
\* package spoke for another one.
DiscoveryTrue ==
    (stage = "answered" /\ ~moved) =>
       /\ \A i \in {found.client, found.server} :
             LET c == CheckConfigPath(i.path)
             IN  i.exists = c.exists /\ i.readable = c.readable /\ i.writable = c.writable
                 /\ (c.exists => i.include = c.include)
       /\ \A i \in {found.client, found.server} : i.method = "common path" /\ ~i.exists =>
             \A p \in ToSet(IF i = found.client THEN CommonClient ELSE CommonServer) : ~There(p)
       /\ found.sshdInstalled <=> found.server.method = "command"
       /\ found.client.method = "command" => found.sshInstalled

\* "Install using your package manager": on a distribution the instructions have
\* a command for, a user who followed it has the component, until it is removed.
AdviceWorks ==
    \A c \in followed : \E k \in installed : c \in distro.offers[k].components

\* What the user is told about the machine: the paths are as reported, and the
\* advice leads to an installation.
DiscoveryHelps == DiscoveryTrue /\ AdviceWorks
================================================================================
