------------------------------ MODULE SshDirectory ------------------------------
(***************************************************************************)
(* The files of ~/.ssh that the daemon rewrites: config, authorized_keys   *)
(* and known_hosts.  They share no state, so a behaviour exercises one of  *)
(* them while the others rest at one of their initial contents: steps on   *)
(* different files commute.                                                *)
(***************************************************************************)
EXTENDS AuthorizedKeys, KnownHosts, ClientConfig

VARIABLE part   \* the file this behaviour is about

dirVars == <<avars, kvars, vars, part>>

Init ==
    /\ part \in {"authorized", "known", "config"}
    /\ AuthInit /\ KnownInit /\ ConfigInit
    /\ part # "authorized" => auth = (CHOOSE f \in AuthFiles : TRUE) /\ authEnds
    /\ part # "known" => known = Missing /\ knownEnds /\ hostKey = CHOOSE h \in [HostNames -> HostKeys] : TRUE
    /\ part # "config" => file = CHOOSE f \in Files : TRUE

Next ==
    \/ part = "authorized" /\ AuthNext /\ UNCHANGED <<kvars, vars, part>>
    \/ part = "known" /\ KnownNext /\ UNCHANGED <<avars, vars, part>>
    \/ part = "config" /\ ConfigNext /\ UNCHANGED <<avars, kvars, part>>

Spec == Init /\ [][Next]_dirVars
================================================================================
