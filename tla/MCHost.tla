--------------------------------- MODULE MCHost ---------------------------------
EXTENDS Host

Files == {<<Comment("Port", 22), Set("PermitRootLogin", 1)>>,
          <<Set("Port", 2222), Set("PermitRootLogin", 1), Comment("Port", 22)>>,
          <<Comment("PermitRootLogin", 1), Match, Set("PermitRootLogin", 2), Comment("Port", 22)>>}

Requests == {<<Change("Port", 2222)>>,
             <<Change("PermitRootLogin", 2), Change("Port", 22)>>,
             <<Deletion("Port"), Change("PermitRootLogin", 2)>>}

Ufw(state, open) == [ufw |-> state, firewalld |-> "absent", open |-> open]
Firewalld(state, open) == [ufw |-> "absent", firewalld |-> state, open |-> open]

FirewallStates == {Ufw("inactive", {}), Ufw("active", {}),
                   Firewalld("running", {}), Firewalld("running", {22}), Firewalld("stopped", {}),
                   Firewalld("absent", {})}

\* What the daemon may do with a config, and with those of a machine.
Editable == {"there", "read", "write"}
ReadOnly == {"there", "read"}
Rights(system, user, server) == "system" :> system @@ "user" :> user @@ "server" :> server

AccessKinds == {Rights({}, Editable, {"there"})}

\* On the first machine sshd is in /usr/sbin, which is not in the daemon's PATH;
\* the last has sshd without a unit.
Setups ==
    {[units |-> {"ssh.service", "sshd.service"}, active |-> "active", enabled |-> TRUE, inPath |-> {"ssh"},
      paths |-> Rights(ReadOnly, {}, Editable), firewall |-> Ufw("inactive", {}), dropIn |-> 0],
     [units |-> {"sshd.service"}, active |-> "inactive", enabled |-> FALSE, inPath |-> {"sshd"},
      paths |-> Rights({}, {}, ReadOnly \union {"dir"}), firewall |-> Firewalld("running", {}), dropIn |-> 2222],
     [units |-> {}, active |-> "inactive", enabled |-> FALSE, inPath |-> {"ssh", "sshd"},
      paths |-> Rights(ReadOnly, Editable, ReadOnly), firewall |-> Firewalld("absent", {}), dropIn |-> 0]}

Offer(components, bin, files) == [components |-> components, bin |-> bin, files |-> files]

\* sshd is in /usr/sbin, which may or may not be in PATH.
Systems ==
    {[id |-> "debian", lsb |-> "", marks |-> {"debian"}, manager |-> "dpkg",
      offers |-> [p \in {"openssh-client", "openssh-server"} |->
                    IF p = "openssh-client" THEN Offer({"client"}, {"ssh"}, <<"/etc/ssh/ssh_config">>)
                    ELSE Offer({"server"}, {}, <<"/usr/share/openssh/sshd_config">>)]],
     [id |-> "fedora", lsb |-> "", marks |-> {"redhat", "fedora"}, manager |-> "rpm",
      offers |-> [p \in {"openssh-clients", "openssh-server"} |->
                    IF p = "openssh-clients" THEN Offer({"client"}, {"ssh"}, <<"/etc/ssh/ssh_config">>)
                    ELSE Offer({"server"}, {"sshd"}, <<"/etc/ssh/sshd_config">>)]],
     [id |-> "arch", lsb |-> "", marks |-> {"arch"}, manager |-> "pacman",
      offers |-> [p \in {"openssh"} |->
                    Offer({"client", "server"}, {"ssh", "sshd"}, <<"/etc/ssh/ssh_config", "/etc/ssh/sshd_config">>)]],
     [id |-> "opensuse-leap", lsb |-> "", marks |-> {"suse"}, manager |-> "rpm",
      offers |-> [p \in {"openssh-clients", "openssh-server"} |->
                    IF p = "openssh-clients" THEN Offer({"client"}, {"ssh"}, <<"/usr/etc/ssh/ssh_config">>)
                    ELSE Offer({"server"}, {}, <<"/usr/etc/ssh/sshd_config">>)]],
     [id |-> "", lsb |-> "", marks |-> {"debian", "arch"}, manager |-> "none",
      offers |-> [p \in {} |-> Offer({}, {}, <<>>)]],
     [id |-> "", lsb |-> "ubuntu", marks |-> {}, manager |-> "none",
      offers |-> [p \in {} |-> Offer({}, {}, <<>>)]],
     [id |-> "", lsb |-> "", marks |-> {}, manager |-> "none",
      offers |-> [p \in {} |-> Offer({}, {}, <<>>)]]}
================================================================================
