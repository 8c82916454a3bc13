------------------------------- MODULE HostProofs -------------------------------
(***************************************************************************)
(* Proofs about the machine the daemon runs on.                            *)
(***************************************************************************)
EXTENDS Host, FiniteSetTheorems, WellFoundedInduction, TLAPS

(* The daemons and their sockets.                                            *)

Label == Up \union {"off", "dead"}

\* The daemons that a SIGTERM still finds at work.
Working == Starting \union {"serving"}

\* The types the proofs need; DaemonTypeOK adds who may have connections.
DaemonData ==
    /\ dpc \in [Daemons -> Label]
    /\ file \in [Paths -> Daemons \union {Nobody}]
    /\ streams \in [Daemons -> SUBSET Programs]
    /\ agentConns \in [Daemons -> SUBSET Programs]
    /\ disturbed \subseteq Daemons /\ untidy \subseteq Daemons
    /\ mine \in Daemons \union {Nobody}

\* A daemon that nobody crossed is alone.
Undisturbed == \A d \in Alive \ disturbed : Alive = {d}

\* It keeps its sockets from the moment it has bound them.
KeepsSockets ==
    \A d \in Daemons \ disturbed :
       /\ dpc[d] \in {"grpcChmod", "serving"} => file["grpc"] = d
       /\ dpc[d] \in {"agentChmod", "services", "grpcRemove", "grpcListen", "grpcChmod",
                      "serving", "draining", "agentStop"} => file["agent"] = d

\* The file of gRPC that is in place belongs to a daemon that serves at it, or
\* to one that did not end by Stop; so does that of the agent.
FilesHaveOwners ==
    /\ file["grpc"] = Nobody \/ file["grpc"] \in untidy
          \/ dpc[file["grpc"]] \in {"grpcChmod", "serving"}
    /\ file["agent"] = Nobody \/ file["agent"] \in untidy \/ file["agent"] \in Alive

\* What the launcher may count on after its pkill: nobody but its own daemon is
\* on the way to bind the socket it waits for.
LauncherKnows ==
    /\ lpc \in {"killed", "cleaned"} => \A d \in Daemons : dpc[d] \notin Working
    /\ lpc = "cleaned" => file["grpc"] = Nobody
    /\ lpc = "waiting" => /\ \A d \in Daemons : dpc[d] \in Working => d = mine
                          /\ file["grpc"] \in {Nobody, mine}
    /\ lpc = "ready" => saw = mine

SocketInv ==
    /\ DaemonData /\ DaemonTypeOK
    /\ Undisturbed /\ KeepsSockets /\ FilesHaveOwners /\ LauncherKnows

LEMMA LabelFacts ==
    /\ Up \subseteq Label /\ Working \subseteq Up /\ Starting \subseteq Up
    /\ "off" \in Label /\ "dead" \in Label /\ "off" \notin Up /\ "dead" \notin Up
    /\ "draining" \in Up /\ "agentStop" \in Up /\ "agentWait" \in Up
    /\ "draining" \notin Working /\ "agentStop" \notin Working /\ "agentWait" \notin Working
    /\ "agent" \in Paths /\ "grpc" \in Paths
    /\ Starting \subseteq Working /\ "serving" \in Working /\ "serving" \notin Starting
  BY DEF Label, Up, Working, Starting, Paths

LEMMA StartingFacts ==
    /\ "agentRemove" \in Starting /\ "agentListen" \in Starting /\ "agentChmod" \in Starting
    /\ "services" \in Starting /\ "grpcRemove" \in Starting /\ "grpcListen" \in Starting
    /\ "grpcChmod" \in Starting
  BY DEF Starting

\* A daemon that goes from one label to another while it is up.
LEMMA MoveFacts ==
    ASSUME DaemonData, NEW d \in Daemons, NEW here \in Up, NEW there \in Up, At(d, here, there)
    PROVE  /\ Alive' = Alive /\ d \in Alive
           /\ dpc' \in [Daemons -> Label] /\ dpc'[d] = there /\ dpc[d] = here
           /\ \A e \in Daemons : e # d => dpc'[e] = dpc[e]
  BY LabelFacts DEF DaemonData, At, Alive

\* Daemons that end or drain while nothing else happens to the others.
LEMMA SignalFacts ==
    ASSUME DaemonData, NEW ds \in SUBSET Daemons, Signal(ds)
    PROVE  /\ dpc' \in [Daemons -> Label] /\ file' \in [Paths -> Daemons \union {Nobody}]
           /\ streams' \in [Daemons -> SUBSET Programs]
           /\ agentConns' \in [Daemons -> SUBSET Programs]
           /\ untidy' \subseteq Daemons /\ untidy \subseteq untidy'
           /\ Alive' \subseteq Alive
           /\ \A d \in ds : dpc'[d] \notin Working
           /\ \A d \in Daemons : dpc'[d] = dpc[d] \/ dpc'[d] = "dead" \/ dpc'[d] = "draining"
           /\ \A d \in Daemons : dpc'[d] # dpc[d] =>
                 \/ dpc[d] = "serving" /\ dpc'[d] = "draining" /\ file'["grpc"] = Nobody
                    /\ streams'[d] = streams[d] /\ agentConns'[d] = agentConns[d]
                 \/ dpc[d] \in Starting /\ dpc'[d] = "dead" /\ d \in untidy'
                    /\ streams'[d] = {} /\ agentConns'[d] = {}
           /\ \A d \in Daemons : dpc'[d] = dpc[d] =>
                 streams'[d] = streams[d] /\ agentConns'[d] = agentConns[d]
           /\ file'["agent"] = file["agent"]
           /\ \/ file'["grpc"] = file["grpc"]
              \/ file'["grpc"] = Nobody /\ \E d \in ds : dpc[d] = "serving" /\ dpc'[d] = "draining"
<1> DEFINE early == {d \in ds : dpc[d] \in Starting}
           served == {d \in ds : dpc[d] = "serving"}
<1>1. /\ dpc' = [d \in Daemons |-> IF d \in early THEN "dead" ELSE IF d \in served THEN "draining" ELSE dpc[d]]
      /\ file' = [file EXCEPT !["grpc"] = IF served # {} THEN Nobody ELSE @]
      /\ streams' = [d \in Daemons |-> IF d \in early THEN {} ELSE streams[d]]
      /\ agentConns' = [d \in Daemons |-> IF d \in early THEN {} ELSE agentConns[d]]
      /\ untidy' = untidy \union early
  BY DEF Signal
<1>2. /\ dpc' \in [Daemons -> Label] /\ untidy' \subseteq Daemons /\ untidy \subseteq untidy'
      /\ streams' \in [Daemons -> SUBSET Programs]
      /\ agentConns' \in [Daemons -> SUBSET Programs]
  BY <1>1, LabelFacts DEF DaemonData
<1>3. Alive' \subseteq Alive
  BY <1>1, LabelFacts DEF DaemonData, Alive
<1>4. \A d \in ds : dpc'[d] \notin Working
  BY <1>1, LabelFacts DEF DaemonData, Working
<1>5. /\ file' \in [Paths -> Daemons \union {Nobody}] /\ file'["agent"] = file["agent"]
      /\ served = {} => file'["grpc"] = file["grpc"]
      /\ served # {} => file'["grpc"] = Nobody
  BY <1>1, LabelFacts DEF DaemonData
<1>6. /\ \A d \in Daemons : dpc'[d] = dpc[d] \/ dpc'[d] = "dead" \/ dpc'[d] = "draining"
      /\ \A d \in Daemons : dpc'[d] # dpc[d] =>
            \/ dpc[d] = "serving" /\ dpc'[d] = "draining" /\ file'["grpc"] = Nobody
               /\ streams'[d] = streams[d] /\ agentConns'[d] = agentConns[d]
            \/ dpc[d] \in Starting /\ dpc'[d] = "dead" /\ d \in untidy'
               /\ streams'[d] = {} /\ agentConns'[d] = {}
      /\ \A d \in Daemons : dpc'[d] = dpc[d] =>
            streams'[d] = streams[d] /\ agentConns'[d] = agentConns[d]
  BY <1>1, <1>5, LabelFacts DEF DaemonData
<1>7. \/ file'["grpc"] = file["grpc"]
      \/ file'["grpc"] = Nobody /\ \E d \in ds : dpc[d] = "serving" /\ dpc'[d] = "draining"
  BY <1>1, <1>5, LabelFacts
<1>8. QED
  BY <1>2, <1>3, <1>4, <1>5, <1>6, <1>7

\* A step of a daemon that starts or stops, which takes no connection and leaves
\* the launcher alone.
LEMMA MoveStep ==
    ASSUME SocketInv, NEW d \in Daemons,
           \/ AgentRemove(d) \/ AgentListen(d) \/ AgentChmod(d) \/ InitServices(d)
           \/ GrpcRemove(d) \/ GrpcListen(d) \/ GrpcChmod(d) \/ Drained(d) \/ AgentClose(d)
    PROVE  SocketInv'
<1> USE LabelFacts, StartingFacts, DaemonAssumption
<1>0. DaemonData /\ DaemonTypeOK /\ Undisturbed /\ KeepsSockets /\ FilesHaveOwners /\ LauncherKnows
  BY DEF SocketInv
<1>1. UNCHANGED <<connVars, appVars, pastVars>>
  BY DEF AgentRemove, AgentListen, AgentChmod, InitServices, GrpcRemove, GrpcListen,
         GrpcChmod, Drained, AgentClose
<1>2. PICK here \in Up, there \in Up : At(d, here, there) /\ (there \in Working => here \in Working)
  <2>1. /\ "agentRemove" \in Up /\ "agentListen" \in Up /\ "agentChmod" \in Up
        /\ "services" \in Up /\ "grpcRemove" \in Up /\ "grpcListen" \in Up
        /\ "grpcChmod" \in Up /\ "serving" \in Up
    OBVIOUS
  <2>2. QED
    BY <2>1 DEF AgentRemove, AgentListen, AgentChmod, InitServices, GrpcRemove, GrpcListen,
                GrpcChmod, Drained, AgentClose
<1>3. /\ Alive' = Alive /\ d \in Alive
      /\ dpc' \in [Daemons -> Label] /\ dpc'[d] = there /\ dpc[d] = here
      /\ \A e \in Daemons : e # d => dpc'[e] = dpc[e]
  BY <1>0, <1>2, MoveFacts
<1>4. /\ file' \in [Paths -> Daemons \union {Nobody}]
      /\ \/ file' = file
         \/ file' = [file EXCEPT !["agent"] = Nobody]
            /\ dpc[d] \in {"agentRemove", "agentStop"}
         \/ file' = [file EXCEPT !["grpc"] = Nobody] /\ dpc[d] = "grpcRemove"
         \/ file' = [file EXCEPT !["agent"] = d] /\ dpc[d] = "agentListen"
         \/ file' = [file EXCEPT !["grpc"] = d] /\ dpc[d] = "grpcListen"
  BY <1>0 DEF DaemonData, AgentRemove, AgentListen, AgentChmod, InitServices, GrpcRemove,
         GrpcListen, GrpcChmod, Drained, AgentClose, At
<1>5. DaemonData'
  BY <1>0, <1>1, <1>3, <1>4 DEF DaemonData, connVars, appVars, pastVars
<1>6. there \in {"agentStop", "agentWait"} => streams[d] = {}
  BY <1>0, <1>2, <1>3 DEF DaemonData, DaemonTypeOK, AgentRemove, AgentListen, AgentChmod, InitServices,
              GrpcRemove, GrpcListen, GrpcChmod, Drained, AgentClose, At
<1>7. DaemonTypeOK'
  <2>1. \A p \in Paths : file'[p] \in Daemons \union {Nobody}
    BY <1>4
  <2>2. \A e \in Daemons : e \notin Alive' => streams'[e] = {} /\ agentConns'[e] = {}
    BY <1>0, <1>1, <1>3 DEF DaemonTypeOK, connVars
  <2>3. \A e \in Daemons : dpc'[e] \in {"agentStop", "agentWait"} => streams'[e] = {}
    BY <1>0, <1>1, <1>3, <1>6 DEF DaemonTypeOK, connVars
  <2>4. QED
    BY <1>0, <1>1, <2>1, <2>2, <2>3 DEF DaemonTypeOK, appVars
<1>8. Undisturbed'
  BY <1>0, <1>1, <1>3 DEF Undisturbed, pastVars
<1>9. KeepsSockets'
  <2> SUFFICES ASSUME NEW e \in Daemons \ disturbed'
               PROVE  /\ dpc'[e] \in {"grpcChmod", "serving"} => file'["grpc"] = e
                      /\ dpc'[e] \in {"agentChmod", "services", "grpcRemove", "grpcListen",
                                      "grpcChmod", "serving", "draining", "agentStop"} =>
                            file'["agent"] = e
    BY DEF KeepsSockets
  <2>1. e \notin disturbed
    BY <1>1 DEF pastVars
  <2>2. CASE e # d
    <3>1. e \notin Alive
      BY <1>0, <1>3, <2>1, <2>2 DEF Undisturbed
    <3>2. dpc'[e] \notin Up
      BY <1>3, <2>2, <3>1 DEF Alive
    <3>3. QED
      BY <3>2 DEF Up, Starting
  <2>3. CASE e = d
    <3>1. CASE Drained(d)
      BY <1>0, <2>1, <2>3, <3>1 DEF DaemonData, KeepsSockets, Drained, At
    <3>2. CASE AgentRemove(d) \/ AgentListen(d) \/ AgentChmod(d)
      BY <1>0, <2>1, <2>3, <3>2 DEF DaemonData, KeepsSockets, AgentRemove, AgentListen, AgentChmod, At
    <3>3. CASE InitServices(d) \/ GrpcRemove(d) \/ GrpcListen(d) \/ GrpcChmod(d)
      BY <1>0, <2>1, <2>3, <3>3
      DEF DaemonData, KeepsSockets, InitServices, GrpcRemove, GrpcListen, GrpcChmod, At
    <3>4. CASE AgentClose(d)
      BY <1>0, <2>1, <2>3, <3>4 DEF DaemonData, KeepsSockets, AgentClose, At
    <3>5. QED
      BY <3>1, <3>2, <3>3, <3>4
  <2>4. QED
    BY <2>2, <2>3
<1>10. FilesHaveOwners'
  <2>1. file'["grpc"] = Nobody \/ file'["grpc"] \in untidy' \/ dpc'[file'["grpc"]] \in {"grpcChmod", "serving"}
    <3>1. CASE GrpcListen(d)
      BY <1>0, <3>1 DEF GrpcListen, At, DaemonData
    <3>2. CASE GrpcRemove(d)
      BY <1>0, <3>2 DEF GrpcRemove, DaemonData
    <3>3. CASE ~GrpcListen(d) /\ ~GrpcRemove(d)
      <4>1. file'["grpc"] = file["grpc"]
        BY <1>0, <3>3 DEF DaemonData, AgentRemove, AgentListen, AgentChmod, InitServices, GrpcChmod,
                    Drained, AgentClose
      <4>2. dpc[d] \in {"grpcChmod", "serving"} => dpc'[d] \in {"grpcChmod", "serving"}
        BY <1>0, <3>3 DEF DaemonData, AgentRemove, AgentListen, AgentChmod, InitServices, GrpcChmod,
                    Drained, AgentClose, At
      <4>3. QED
        BY <1>0, <1>1, <1>3, <4>1, <4>2 DEF DaemonData, FilesHaveOwners, pastVars
    <3>4. QED
      BY <3>1, <3>2, <3>3
  <2>2. file'["agent"] = Nobody \/ file'["agent"] \in untidy' \/ file'["agent"] \in Alive'
    BY <1>0, <1>1, <1>3, <1>4 DEF DaemonData, FilesHaveOwners, pastVars
  <2>3. QED
    BY <2>1, <2>2 DEF FilesHaveOwners
<1>11. LauncherKnows'
  <2>1. UNCHANGED <<lpc, mine, saw>>
    BY <1>1 DEF appVars
  <2>2. \A e \in Daemons : dpc'[e] \in Working => dpc[e] \in Working
    BY <1>2, <1>3
  <2>3. file'["grpc"] \in {file["grpc"], Nobody} \/ (file'["grpc"] = d /\ dpc[d] \in Working)
    BY <1>0, <1>4 DEF DaemonData
  <2>4. QED
    BY <1>0, <2>1, <2>2, <2>3 DEF LauncherKnows
<1>12. QED
  BY <1>5, <1>7, <1>8, <1>9, <1>10, <1>11 DEF SocketInv

\* A daemon that is gone, with its files left behind or taken away.
LEMMA EndStep ==
    ASSUME SocketInv, NEW d \in Daemons,
           StartFails(d) \/ InitFails(d) \/ Killed(d) \/ AgentStopped(d)
    PROVE  SocketInv'
<1> USE LabelFacts, StartingFacts, DaemonAssumption
<1>0. DaemonData /\ DaemonTypeOK /\ Undisturbed /\ KeepsSockets /\ FilesHaveOwners /\ LauncherKnows
  BY DEF SocketInv
<1>1. /\ UNCHANGED <<appVars, disturbed>> /\ dpc' = [dpc EXCEPT ![d] = "dead"]
      /\ untidy \subseteq untidy' /\ untidy' \subseteq untidy \union {d}
  BY DEF StartFails, InitFails, Killed, AgentStopped, Gone, At, pastVars
<1>2. d \in Alive
  BY <1>0 DEF StartFails, InitFails, Killed, AgentStopped, At, Alive
<1>3. /\ streams' \in [Daemons -> SUBSET Programs] /\ agentConns' \in [Daemons -> SUBSET Programs]
      /\ streams'[d] = {} /\ agentConns'[d] = {}
      /\ \A e \in Daemons : e # d => streams'[e] = streams[e] /\ agentConns'[e] = agentConns[e]
  <2>1. CASE AgentStopped(d)
    BY <1>0, <2>1 DEF AgentStopped, At, connVars, DaemonData, DaemonTypeOK
  <2>2. CASE Gone(d)
    BY <1>0, <2>2 DEF Gone, DaemonData
  <2>3. QED
    BY <2>1, <2>2 DEF StartFails, InitFails, Killed
<1>4. /\ Alive' = Alive \ {d} /\ dpc' \in [Daemons -> Label] /\ dpc'[d] = "dead"
      /\ \A e \in Daemons : e # d => dpc'[e] = dpc[e]
  BY <1>0, <1>1 DEF DaemonData, Alive
<1>5. \/ file' = file /\ d \in untidy'
      \/ file' = [file EXCEPT !["agent"] = Nobody] /\ dpc[d] = "agentWait"
  BY DEF StartFails, InitFails, Killed, AgentStopped, Gone, At
<1>6. DaemonData'
  BY <1>0, <1>1, <1>3, <1>4, <1>5 DEF DaemonData, appVars
<1>7. DaemonTypeOK'
  BY <1>0, <1>1, <1>3, <1>4, <1>6 DEF DaemonData, DaemonTypeOK, appVars
<1>8. Undisturbed'
  BY <1>0, <1>1, <1>2, <1>4 DEF Undisturbed
<1>9. KeepsSockets'
  <2>1. \A e \in Daemons \ disturbed : e # d => e \notin Alive
    BY <1>0, <1>2 DEF Undisturbed
  <2>2. \A e \in Daemons \ disturbed : dpc'[e] \notin Up
    BY <1>4, <2>1 DEF Alive
  <2>3. QED
    BY <1>1, <2>2 DEF KeepsSockets, Up, Starting
<1>10. FilesHaveOwners'
  <2>1. file'["grpc"] = file["grpc"] /\ file'["agent"] \in {file["agent"], Nobody}
    BY <1>0, <1>5 DEF DaemonData
  <2>2. file'["grpc"] = d => d \in untidy'
    BY <1>0, <1>1, <1>5, <2>1 DEF FilesHaveOwners
  <2>3. file'["agent"] = d => d \in untidy'
    BY <1>0, <1>5 DEF DaemonData
  <2>4. QED
    BY <1>0, <1>1, <1>4, <2>1, <2>2, <2>3 DEF DaemonData, FilesHaveOwners
<1>11. LauncherKnows'
  <2>1. UNCHANGED <<lpc, mine, saw>> /\ file'["grpc"] = file["grpc"]
    BY <1>0, <1>1, <1>5 DEF appVars, DaemonData
  <2>2. \A e \in Daemons : dpc'[e] \in Working => dpc[e] \in Working
    BY <1>4
  <2>3. QED
    BY <1>0, <2>1, <2>2 DEF LauncherKnows
<1>12. QED
  BY <1>6, <1>7, <1>8, <1>9, <1>10, <1>11 DEF SocketInv

\* A process is started, by systemd or by the launcher.
LEMMA ExecStep ==
    ASSUME SocketInv, NEW d \in Daemons, SystemdStarts(d) \/ LaunchExec(d)
    PROVE  SocketInv'
<1> USE LabelFacts, StartingFacts, DaemonAssumption
<1>0. DaemonData /\ DaemonTypeOK /\ Undisturbed /\ KeepsSockets /\ FilesHaveOwners /\ LauncherKnows
  BY DEF SocketInv
<1>1. /\ UNCHANGED <<file, connVars, saw, untidy>>
      /\ Exec(d)
      /\ \/ lpc \in {"idle", "ready"} /\ UNCHANGED <<lpc, mine>>
         \/ lpc = "cleaned" /\ lpc' = "waiting" /\ mine' = d
  BY DEF SystemdStarts, LaunchExec, appVars
<1>2. /\ d \notin Alive /\ Alive' = Alive \union {d} /\ dpc[d] = "off" /\ dpc'[d] = "agentRemove"
      /\ dpc' \in [Daemons -> Label] /\ \A e \in Daemons : e # d => dpc'[e] = dpc[e]
  BY <1>0, <1>1 DEF DaemonData, Exec, At, Alive
<1>3. \/ disturbed' = disturbed \union {d} \union Alive
      \/ disturbed' = disturbed /\ Alive = {}
  BY <1>1 DEF Exec
<1>4. disturbed' \subseteq Daemons /\ disturbed \subseteq disturbed'
  BY <1>0, <1>3 DEF DaemonData, Alive
<1>5. DaemonData'
  BY <1>0, <1>1, <1>2, <1>4 DEF DaemonData, connVars
<1>6. DaemonTypeOK'
  BY <1>0, <1>1, <1>2 DEF DaemonData, DaemonTypeOK, connVars
<1>7. Undisturbed'
  BY <1>0, <1>2, <1>3 DEF Undisturbed
<1>8. KeepsSockets'
  BY <1>0, <1>1, <1>2, <1>4 DEF KeepsSockets
<1>9. FilesHaveOwners'
  BY <1>0, <1>1, <1>2 DEF DaemonData, FilesHaveOwners
<1>10. LauncherKnows'
  BY <1>0, <1>1, <1>2 DEF LauncherKnows
<1>11. QED
  BY <1>5, <1>6, <1>7, <1>8, <1>9, <1>10 DEF SocketInv

\* SIGTERM: systemctl stop, or the pkill of the launcher.
LEMMA SignalStep ==
    ASSUME SocketInv, (\E d \in Daemons : SystemdStops(d)) \/ LaunchKill \/ LauncherStops
    PROVE  SocketInv'
<1> USE LabelFacts, StartingFacts, DaemonAssumption
<1>0. DaemonData /\ DaemonTypeOK /\ Undisturbed /\ KeepsSockets /\ FilesHaveOwners /\ LauncherKnows
  BY DEF SocketInv
<1>1. PICK ds \in SUBSET Daemons :
         /\ Signal(ds)
         /\ UNCHANGED <<mine, saw, disturbed>>
         /\ \/ lpc' = lpc
            \/ lpc = "idle" /\ lpc' = "killed" /\ ds = Alive
            \/ lpc = "ready" /\ lpc' = "stopping"
  <2>1. ASSUME NEW d \in Daemons, SystemdStops(d)
        PROVE  {d} \in SUBSET Daemons /\ Signal({d}) /\ UNCHANGED <<mine, saw, disturbed, lpc>>
    BY <2>1 DEF SystemdStops, appVars
  <2>2. ASSUME LaunchKill \/ LauncherStops
        PROVE  /\ Alive \in SUBSET Daemons /\ Signal(Alive) /\ UNCHANGED <<mine, saw, disturbed>>
               /\ \/ lpc = "idle" /\ lpc' = "killed"
                  \/ lpc = "ready" /\ lpc' = "stopping"
    <3>1. Alive \in SUBSET Daemons
      BY DEF Alive
    <3>2. QED
      BY <2>2, <3>1 DEF LaunchKill, LauncherStops
  <2>3. QED
    BY <2>1, <2>2
<1>2. /\ dpc' \in [Daemons -> Label] /\ file' \in [Paths -> Daemons \union {Nobody}]
      /\ streams' \in [Daemons -> SUBSET Programs]
      /\ agentConns' \in [Daemons -> SUBSET Programs]
      /\ untidy' \subseteq Daemons /\ untidy \subseteq untidy'
      /\ Alive' \subseteq Alive
      /\ \A d \in ds : dpc'[d] \notin Working
      /\ \A d \in Daemons : dpc'[d] = dpc[d] \/ dpc'[d] = "dead" \/ dpc'[d] = "draining"
      /\ \A d \in Daemons : dpc'[d] # dpc[d] =>
            \/ dpc[d] = "serving" /\ dpc'[d] = "draining" /\ file'["grpc"] = Nobody
               /\ streams'[d] = streams[d] /\ agentConns'[d] = agentConns[d]
            \/ dpc[d] \in Starting /\ dpc'[d] = "dead" /\ d \in untidy'
               /\ streams'[d] = {} /\ agentConns'[d] = {}
      /\ \A d \in Daemons : dpc'[d] = dpc[d] =>
            streams'[d] = streams[d] /\ agentConns'[d] = agentConns[d]
      /\ file'["agent"] = file["agent"]
      /\ \/ file'["grpc"] = file["grpc"]
         \/ file'["grpc"] = Nobody /\ \E d \in ds : dpc[d] = "serving" /\ dpc'[d] = "draining"
  BY <1>0, <1>1, SignalFacts
<1>3. DaemonData'
  BY <1>0, <1>1, <1>2 DEF DaemonData
<1>4. \A e \in Daemons : e \notin Alive' => streams'[e] = {} /\ agentConns'[e] = {}
  <2> SUFFICES ASSUME NEW e \in Daemons, e \notin Alive'
               PROVE  streams'[e] = {} /\ agentConns'[e] = {}
    OBVIOUS
  <2>1. CASE dpc'[e] = dpc[e]
    BY <1>0, <1>2, <2>1 DEF DaemonTypeOK, Alive
  <2>2. CASE dpc'[e] # dpc[e]
    BY <1>2, <2>2 DEF Alive
  <2>3. QED
    BY <2>1, <2>2
<1>5. DaemonTypeOK'
  <2>1. \A e \in Daemons : dpc'[e] \in {"agentStop", "agentWait"} => streams'[e] = {}
    BY <1>0, <1>2 DEF DaemonTypeOK
  <2>2. QED
    BY <1>0, <1>1, <1>2, <1>4, <2>1 DEF DaemonTypeOK
<1>6. Undisturbed'
  BY <1>0, <1>1, <1>2 DEF Undisturbed
<1>7. KeepsSockets'
  <2> SUFFICES ASSUME NEW e \in Daemons \ disturbed'
               PROVE  /\ dpc'[e] \in {"grpcChmod", "serving"} => file'["grpc"] = e
                      /\ dpc'[e] \in {"agentChmod", "services", "grpcRemove", "grpcListen",
                                      "grpcChmod", "serving", "draining", "agentStop"} =>
                            file'["agent"] = e
    BY DEF KeepsSockets
  <2>1. e \notin disturbed /\ file'["agent"] = file["agent"]
    BY <1>1, <1>2
  <2>2. CASE dpc'[e] = dpc[e]
    <3>1. ASSUME dpc[e] \in {"grpcChmod", "serving"} PROVE file'["grpc"] = file["grpc"]
      <4>1. e \in Alive
        BY <3>1 DEF Alive, Up
      <4>2. ASSUME NEW d \in ds, dpc[d] = "serving", dpc'[d] = "draining" PROVE FALSE
        <5>1. d \in Alive
          BY <4>2 DEF Alive, Up
        <5>2. d = e
          BY <1>0, <2>1, <4>1, <5>1 DEF Undisturbed
        <5>3. QED
          BY <2>2, <4>2, <5>2
      <4>3. QED
        BY <1>2, <4>2
    <3>2. QED
      BY <1>0, <2>1, <2>2, <3>1 DEF KeepsSockets
  <2>3. CASE dpc'[e] # dpc[e]
    <3>1. dpc'[e] \notin {"grpcChmod", "serving"}
      BY <1>2, <2>3
    <3>2. dpc'[e] \in {"agentChmod", "services", "grpcRemove", "grpcListen",
                       "grpcChmod", "serving", "draining", "agentStop"} => dpc[e] = "serving"
      BY <1>2, <2>3
    <3>3. QED
      BY <1>0, <2>1, <3>1, <3>2 DEF KeepsSockets
  <2>4. QED
    BY <2>2, <2>3
<1>8. FilesHaveOwners'
  <2>1. \A d \in Daemons : dpc[d] \in {"grpcChmod", "serving"} =>
           dpc'[d] = dpc[d] \/ d \in untidy' \/ file'["grpc"] = Nobody
    BY <1>2
  <2>2. file["grpc"] = Nobody \/ file["grpc"] \in Daemons
    BY <1>0 DEF DaemonData
  <2>3. file'["grpc"] = Nobody \/ file'["grpc"] \in untidy' \/ dpc'[file'["grpc"]] \in {"grpcChmod", "serving"}
    BY <1>0, <1>2, <2>1, <2>2 DEF FilesHaveOwners
  <2>4. \A d \in Alive : d \in Alive' \/ d \in untidy'
    BY <1>2 DEF Alive
  <2>5. QED
    BY <1>0, <1>2, <2>3, <2>4 DEF FilesHaveOwners
<1>9. LauncherKnows'
  <2>1. \A d \in Daemons : dpc'[d] \in Working => dpc[d] \in Working
    BY <1>2
  <2>2. ASSUME ds = Alive PROVE \A d \in Daemons : dpc'[d] \notin Working
    BY <1>2, <2>1, <2>2 DEF Alive
  <2>3. file'["grpc"] \in {file["grpc"], Nobody}
    BY <1>2
  <2>4. QED
    BY <1>0, <1>1, <2>1, <2>2, <2>3 DEF LauncherKnows
<1>10. QED
  BY <1>3, <1>5, <1>6, <1>7, <1>8, <1>9 DEF SocketInv

\* The programs open and close connections; no socket moves.
LEMMA ConnectionStep ==
    ASSUME SocketInv,
           \/ \E x \in Programs, d \in Daemons : OpenStream(x, d) \/ AgentAccept(x, d) \/ Keepalive(x, d)
           \/ \E x \in Programs : Closes(x) \/ Hangs(x)
           \/ UNCHANGED dvars
    PROVE  SocketInv'
<1> USE LabelFacts, DaemonAssumption
<1>0. DaemonData /\ DaemonTypeOK /\ Undisturbed /\ KeepsSockets /\ FilesHaveOwners /\ LauncherKnows
  BY DEF SocketInv
<1>1. UNCHANGED <<dpc, file, lpc, mine, saw, disturbed, untidy>>
  BY DEF OpenStream, AgentAccept, Keepalive, Closes, Hangs, dvars, appVars, pastVars
<1>2. Alive' = Alive
  BY <1>1 DEF Alive
<1>3. /\ streams' \in [Daemons -> SUBSET Programs] /\ agentConns' \in [Daemons -> SUBSET Programs]
      /\ \A d \in Daemons : streams[d] = {} /\ streams'[d] # {} => dpc[d] \in {"grpcChmod", "serving"}
      /\ \A d \in Daemons : agentConns[d] = {} /\ agentConns'[d] # {} => d \in Alive
  <2> DEFINE Opened ==
         /\ streams' \in [Daemons -> SUBSET Programs] /\ agentConns' \in [Daemons -> SUBSET Programs]
         /\ \A d \in Daemons : streams[d] = {} /\ streams'[d] # {} => dpc[d] \in {"grpcChmod", "serving"}
         /\ \A d \in Daemons : agentConns[d] = {} /\ agentConns'[d] # {} => d \in Alive
  <2>1. ASSUME NEW x \in Programs, NEW d \in Daemons, OpenStream(x, d) PROVE Opened
    BY <1>0, <2>1 DEF OpenStream, AcceptsGrpc, DaemonData
  <2>2. ASSUME NEW x \in Programs, NEW d \in Daemons, AgentAccept(x, d) PROVE Opened
    BY <1>0, <2>2 DEF AgentAccept, AcceptsAgent, DaemonData, Alive
  <2>3. ASSUME NEW x \in Programs, NEW d \in Daemons, Keepalive(x, d) PROVE Opened
    BY <1>0, <2>3 DEF Keepalive, DaemonData
  <2>4. ASSUME NEW x \in Programs, Closes(x) PROVE Opened
    BY <1>0, <2>4 DEF Closes, DaemonData
  <2>5. ASSUME UNCHANGED <<streams, agentConns>> PROVE Opened
    BY <1>0, <2>5 DEF DaemonData
  <2>6. QED
    BY <2>1, <2>2, <2>3, <2>4, <2>5 DEF Hangs, dvars
<1>4. DaemonData' /\ DaemonTypeOK'
  <2>1. DaemonData'
    BY <1>0, <1>1, <1>3 DEF DaemonData
  <2>2. \A d \in Daemons : dpc[d] \in {"grpcChmod", "serving"} =>
           d \in Alive /\ dpc[d] \notin {"agentStop", "agentWait"}
    BY DEF Alive, Up, Starting
  <2>3. \A d \in Daemons : d \notin Alive' => streams'[d] = {} /\ agentConns'[d] = {}
    BY <1>0, <1>2, <1>3, <2>2 DEF DaemonTypeOK
  <2>4. \A d \in Daemons : dpc'[d] \in {"agentStop", "agentWait"} => streams'[d] = {}
    BY <1>0, <1>1, <1>3, <2>2 DEF DaemonTypeOK
  <2>5. QED
    BY <1>0, <1>1, <2>1, <2>3, <2>4 DEF DaemonTypeOK
<1>5. QED
  BY <1>0, <1>1, <1>2, <1>4
  DEF SocketInv, Undisturbed, KeepsSockets, FilesHaveOwners, LauncherKnows

\* The launcher looks for the socket, gives up, or removes the file.
LEMMA LauncherStep ==
    ASSUME SocketInv, LaunchClean \/ LaunchSees \/ LaunchTimesOut \/ LauncherCleans
    PROVE  SocketInv'
<1> USE LabelFacts, DaemonAssumption
<1>0. DaemonData /\ DaemonTypeOK /\ Undisturbed /\ KeepsSockets /\ FilesHaveOwners /\ LauncherKnows
  BY DEF SocketInv
<1>1. UNCHANGED <<dpc, connVars, mine, untidy>>
  BY DEF LaunchClean, LaunchSees, LaunchTimesOut, LauncherCleans, pastVars
<1>2. Alive' = Alive
  BY <1>1 DEF Alive
<1>3. /\ file' \in [Paths -> Daemons \union {Nobody}] /\ file'["agent"] = file["agent"]
      /\ file'["grpc"] \in {file["grpc"], Nobody}
      /\ disturbed' \subseteq Daemons /\ disturbed \subseteq disturbed'
  BY <1>0 DEF LaunchClean, LaunchSees, LaunchTimesOut, LauncherCleans, DaemonData, Alive, pastVars
<1>4. \/ file' = file
      \/ \A d \in Daemons : dpc[d] \notin Working
      \/ Alive \subseteq disturbed'
  BY <1>0 DEF LaunchClean, LaunchSees, LaunchTimesOut, LauncherCleans, LauncherKnows
<1>5. DaemonData'
  BY <1>0, <1>1, <1>3 DEF DaemonData, connVars
<1>6. DaemonTypeOK'
  <2>1. lpc \in {"waiting", "ready", "failed", "stopping", "stopped"}
          <=> lpc' \in {"waiting", "ready", "failed", "stopping", "stopped"}
    BY DEF LaunchClean, LaunchSees, LaunchTimesOut, LauncherCleans
  <2>2. QED
    BY <1>0, <1>1, <1>2, <1>3, <2>1 DEF DaemonTypeOK, connVars
<1>7. Undisturbed'
  BY <1>0, <1>2, <1>3 DEF Undisturbed
<1>8. KeepsSockets'
  <2> SUFFICES ASSUME NEW e \in Daemons \ disturbed', dpc[e] \in {"grpcChmod", "serving"}
               PROVE  file'["grpc"] = e
    BY <1>0, <1>1, <1>3 DEF KeepsSockets
  <2>1. dpc[e] \in Working /\ e \in Alive
    BY DEF Working, Starting, Alive, Up
  <2>2. file' = file
    BY <1>4, <2>1
  <2>3. QED
    BY <1>0, <1>3, <2>2 DEF KeepsSockets
<1>9. FilesHaveOwners'
  BY <1>0, <1>1, <1>2, <1>3 DEF FilesHaveOwners
<1>10. LauncherKnows'
  <2>1. CASE LaunchClean
    BY <1>0, <2>1 DEF LaunchClean, LauncherKnows, DaemonData
  <2>2. CASE LaunchSees
    BY <1>0, <2>2 DEF LaunchSees, LauncherKnows
  <2>3. CASE LaunchTimesOut \/ LauncherCleans
    BY <2>3 DEF LaunchTimesOut, LauncherCleans, LauncherKnows
  <2>4. QED
    BY <2>1, <2>2, <2>3
<1>11. QED
  BY <1>5, <1>6, <1>7, <1>8, <1>9, <1>10 DEF SocketInv

LEMMA SocketStep == SocketInv /\ [DaemonNext]_dvars => SocketInv'
  BY MoveStep, EndStep, ExecStep, SignalStep, ConnectionStep, LauncherStep
  DEF DaemonNext, DaemonStep, Others

LEMMA SocketInit == DaemonInit => SocketInv
<1> SUFFICES ASSUME DaemonInit PROVE SocketInv
  OBVIOUS
<1> USE LabelFacts, DaemonAssumption
<1>1. Alive = {}
  BY DEF DaemonInit, Alive
<1>2. DaemonData /\ DaemonTypeOK
  BY DEF DaemonInit, DaemonData, DaemonTypeOK
<1>3. Undisturbed /\ KeepsSockets /\ FilesHaveOwners /\ LauncherKnows
  BY <1>1 DEF DaemonInit, Undisturbed, KeepsSockets, FilesHaveOwners, LauncherKnows
<1>4. QED
  BY <1>2, <1>3 DEF SocketInv

\* A daemon that nobody crossed serves at its own sockets, the launcher reports
\* ready only at the socket of the daemon it started, and a daemon that ends by
\* Stop leaves no socket file behind, however daemons start, stop and die.
THEOREM SocketsAreSafe == Spec => []SocketsSafe
<1>1. Init => SocketInv
  BY SocketInit DEF Init
<1>2. SocketInv /\ [Next]_hostVars => SocketInv'
  <2> SUFFICES ASSUME SocketInv, [Next]_hostVars PROVE SocketInv'
    OBVIOUS
  <2>1. [DaemonNext]_dvars
    BY DEF Next, hostVars
  <2>2. QED
    BY <2>1, SocketStep
<1>3. SocketInv => SocketsSafe
  <2> SUFFICES ASSUME SocketInv PROVE SocketsSafe
    OBVIOUS
  <2>1. ServesAtItsSockets
    BY DEF SocketInv, KeepsSockets, ServesAtItsSockets
  <2>2. ReadyIsMine
    BY DEF SocketInv, LauncherKnows, ReadyIsMine
  <2>3. StopLeavesNothing
    <3>1. {"grpcChmod", "serving"} \subseteq Up
      BY DEF Up, Starting
    <3>2. QED
      BY <3>1 DEF SocketInv, DaemonData, FilesHaveOwners, StopLeavesNothing, Paths, Alive
  <2>4. QED
    BY <2>1, <2>2, <2>3 DEF SocketsSafe
<1>4. QED
  BY <1>1, <1>2, <1>3, PTL DEF Spec
--------------------------------------------------------------------------------
(* The text of sshd_config. *)

LEMMA NatMin ==
    ASSUME NEW S \in SUBSET Nat, S # {}
    PROVE  \E m \in S : \A n \in S : m <= n
<1> DEFINE LT == OpToRel(<, Nat)
<1>1. IsWellFoundedOn(LT, Nat)
  BY NatLessThanWellFounded, Zenon
<1>2. LT = {ss \in Nat \X Nat : ss[1] < ss[2]}
  BY DEF OpToRel
<1> HIDE DEF LT
<1>3. PICK m \in S : \A n \in S : ~ (<<n, m>> \in LT)
  BY <1>1, WFMin
<1>4. \A n \in S : ~ (n < m)
  BY <1>2, <1>3
<1>5. QED
  BY <1>4

LEMMA MinFacts ==
    ASSUME NEW S \in SUBSET Nat, S # {}
    PROVE  Min(S) \in S /\ \A n \in S : Min(S) <= n
  BY NatMin DEF Min

LEMMA MinIs ==
    ASSUME NEW S \in SUBSET Nat, NEW m \in S, \A n \in S : m <= n
    PROVE  Min(S) = m
<1>1. Min(S) \in S /\ Min(S) <= m /\ m <= Min(S)
  BY MinFacts
<1>2. Min(S) \in Nat /\ m \in Nat
  BY <1>1
<1>3. QED
  BY <1>1, <1>2

\* The lines that set a directive for everybody, and the value the first one gives.
Tops(f, key) == {i \in 1..Len(f) : f[i].k = "set" /\ f[i].key = key /\ ~MatchBefore(f, i)}
Top(f, key) == IF Tops(f, key) = {} THEN NoValue ELSE f[Min(Tops(f, key))].val

\* sshd takes that value,
LEMMA EffectiveIsTop ==
    ASSUME NEW f \in Seq(Line), NEW key
    PROVE  Effective(f, key) = Top(f, key)
<1> DEFINE heads == {i \in 1..Len(f) : f[i].k = "match"}
           sets == {i \in 1..Len(f) : f[i].k = "set" /\ f[i].key = key}
           head == IF heads # {} THEN Min(heads) ELSE 0
           first == IF sets # {} THEN Min(sets) ELSE 0
<1>1. Effective(f, key) = IF first = 0 \/ (head # 0 /\ head < first) THEN NoValue ELSE f[first].val
  BY DEF Effective, SelectInSeq
<1>2. heads \subseteq Nat /\ sets \subseteq Nat /\ Tops(f, key) \subseteq sets
  BY DEF Tops
<1>3. heads # {} => head \in heads /\ \A i \in heads : head <= i
  BY <1>2, MinFacts
<1>4. sets # {} => first \in sets /\ \A i \in sets : first <= i
  BY <1>2, MinFacts
<1> HIDE DEF head, first
<1>5. CASE sets = {}
  BY <1>1, <1>2, <1>5 DEF Top, first
<1>6. CASE sets # {} /\ heads # {} /\ head < first
  <2>1. head # 0 /\ head \in 1..Len(f) /\ f[head].k = "match"
    BY <1>3, <1>6
  <2>2. \A i \in sets : head \in 1..(i - 1)
    BY <1>4, <1>6, <2>1
  <2>3. Tops(f, key) = {}
    BY <2>1, <2>2 DEF Tops, MatchBefore
  <2>4. QED
    BY <1>1, <1>6, <2>1, <2>3 DEF Top
<1>7. CASE sets # {} /\ ~(heads # {} /\ head < first)
  <2>1. first \in 1..Len(f) /\ ~(head # 0 /\ head < first)
    BY <1>4, <1>7 DEF head
  <2>2. ~MatchBefore(f, first)
    <3> SUFFICES ASSUME NEW j \in 1..(first - 1), f[j].k = "match" PROVE FALSE
      BY DEF MatchBefore
    <3>1. j \in heads
      BY <2>1
    <3>2. head \in 1..Len(f) /\ head <= j
      BY <1>3, <3>1
    <3>3. QED
      BY <1>7, <2>1, <3>1, <3>2
  <2>3. first \in Tops(f, key)
    BY <1>4, <1>7, <2>2 DEF Tops
  <2>4. Min(Tops(f, key)) = first
    BY <1>2, <1>4, <1>7, <2>3, MinIs
  <2>5. QED
    BY <1>1, <2>1, <2>3, <2>4 DEF Top
<1>8. QED
  BY <1>5, <1>6, <1>7

\* For the users that all Match blocks match every line counts that sets it.
Sets(f, key) == {i \in 1..Len(f) : f[i].k = "set" /\ f[i].key = key}

LEMMA MatchedIsFirst ==
    ASSUME NEW f \in Seq(Line), NEW key
    PROVE  EffectiveMatched(f, key) = IF Sets(f, key) = {} THEN NoValue ELSE f[Min(Sets(f, key))].val
<1> DEFINE first == IF Sets(f, key) # {} THEN Min(Sets(f, key)) ELSE 0
<1>1. EffectiveMatched(f, key) = IF first = 0 THEN NoValue ELSE f[first].val
  BY DEF EffectiveMatched, SelectInSeq, Sets
<1>2. Sets(f, key) \subseteq Nat /\ 0 \notin Sets(f, key)
  BY DEF Sets
<1>3. Sets(f, key) # {} => Min(Sets(f, key)) \in Sets(f, key)
  BY <1>2, MinFacts
<1>4. QED
  BY <1>1, <1>2, <1>3

LEMMA SameMatched ==
    ASSUME NEW f \in Seq(Line), NEW g \in Seq(Line), NEW key,
           Sets(f, key) = Sets(g, key), \A i \in Sets(f, key) : f[i].val = g[i].val
    PROVE  EffectiveMatched(f, key) = EffectiveMatched(g, key)
<1>1. Sets(f, key) \subseteq Nat
  BY DEF Sets
<1>2. Sets(f, key) # {} => Min(Sets(f, key)) \in Sets(f, key)
  BY <1>1, MinFacts
<1>3. QED
  BY <1>2, MatchedIsFirst

LEMMA ParseFacts ==
    ASSUME NEW f \in Seq(Line)
    PROVE  /\ DOMAIN Parse(f) = 1..Len(f) /\ Len(Parse(f)) = Len(f)
           /\ \A i \in 1..Len(f) : /\ Parse(f)[i].key = f[i].key /\ Parse(f)[i].val = f[i].val
                                   /\ Parse(f)[i].isCommented <=> f[i].k = "comment"
                                   /\ Parse(f)[i].inMatch <=> MatchBefore(f, i)
                                   /\ Parse(f)[i].directive <=> f[i].k # "match"
<1>1. DOMAIN f = 1..Len(f) /\ DOMAIN Parse(f) = 1..Len(f) /\ Len(Parse(f)) = Len(f)
  BY DEF Parse
<1>2. \A i \in DOMAIN f : Parse(f)[i].key = f[i].key /\ Parse(f)[i].val = f[i].val
  BY DEF Parse
<1>3. \A i \in DOMAIN f : /\ Parse(f)[i].isCommented <=> f[i].k = "comment"
                          /\ Parse(f)[i].inMatch <=> MatchBefore(f, i)
                          /\ Parse(f)[i].directive <=> f[i].k # "match"
  BY Zenon DEF Parse
<1>4. QED
  BY <1>1, <1>2, <1>3

LEMMA LineFacts ==
    ASSUME NEW f \in Seq(Line), NEW i \in 1..Len(f)
    PROVE  f[i].k \in {"set", "comment", "match"} /\ f[i].val \in Nat
<1>1. f[i] \in Line
  OBVIOUS
<1>2. QED
  BY <1>1 DEF Line

\* and so do GetDirective
LEMMA GetDirectiveIsTop ==
    ASSUME NEW f \in Seq(Line), NEW key
    PROVE  GetDirective(f, key) = Top(f, key)
<1> DEFINE ds == Parse(f)
           hits == {i \in 1..Len(ds) : ds[i].directive /\ ds[i].key = key /\ ~ds[i].isCommented /\ ~ds[i].inMatch}
           first == IF hits # {} THEN Min(hits) ELSE 0
<1>1. GetDirective(f, key) = IF first = 0 THEN NoValue ELSE ds[first].val
  BY DEF GetDirective, SelectInSeq
<1>2. /\ Len(ds) = Len(f)
      /\ \A i \in 1..Len(f) : /\ ds[i].key = f[i].key /\ ds[i].val = f[i].val
                              /\ ds[i].isCommented <=> f[i].k = "comment"
                              /\ ds[i].inMatch <=> MatchBefore(f, i)
                              /\ ds[i].directive <=> f[i].k # "match"
  BY ParseFacts
<1> HIDE DEF ds
<1>3. hits = Tops(f, key)
  BY <1>2, LineFacts DEF Tops
<1>4. hits \subseteq Nat /\ hits \subseteq 1..Len(f)
  BY <1>3 DEF Tops
<1>5. CASE hits = {}
  BY <1>1, <1>3, <1>5 DEF Top
<1>6. CASE hits # {}
  <2>1. Min(hits) \in hits
    BY <1>4, <1>6, MinFacts
  <2>2. Min(hits) # 0 /\ ds[Min(hits)].val = f[Min(hits)].val
    BY <1>2, <1>4, <2>1
  <2>3. QED
    BY <1>1, <1>3, <1>6, <2>2 DEF Top
<1>7. QED
  BY <1>5, <1>6

\* and a client of GetServerConfig.
LEMMA SeenIsTop ==
    ASSUME NEW key, conf \in Seq(Line)
    PROVE  SeenValue(key) = Top(conf, key)
<1> DEFINE ds == GetServerConfig
           hits == {i \in DOMAIN ds : ds[i].key = key /\ ~ds[i].isCommented /\ ~ds[i].matchBlock}
<1>1. /\ DOMAIN ds = {i \in 1..Len(conf) : conf[i].k # "match"}
      /\ \A i \in DOMAIN ds : /\ ds[i].key = conf[i].key /\ ds[i].value = conf[i].val
                              /\ ds[i].isCommented <=> conf[i].k = "comment"
                              /\ ds[i].matchBlock <=> MatchBefore(conf, i)
  <2> DEFINE pf == Parse(conf)
  <2>1. /\ DOMAIN pf = 1..Len(conf)
        /\ \A i \in 1..Len(conf) : /\ pf[i].key = conf[i].key /\ pf[i].val = conf[i].val
                                   /\ pf[i].isCommented <=> conf[i].k = "comment"
                                   /\ pf[i].inMatch <=> MatchBefore(conf, i)
                                   /\ pf[i].directive <=> conf[i].k # "match"
    BY ParseFacts
  <2>2. ds = ToProtoServerConfig(pf)
    BY DEF GetServerConfig
  <2> HIDE DEF pf, ds
  <2>3. DOMAIN ds = {i \in 1..Len(conf) : conf[i].k # "match"}
    BY <2>1, <2>2 DEF ToProtoServerConfig
  <2>4. \A i \in DOMAIN ds : /\ ds[i].isCommented <=> pf[i].isCommented
                             /\ ds[i].matchBlock <=> pf[i].inMatch
                             /\ ds[i].key = pf[i].key /\ ds[i].value = pf[i].val
    BY <2>2, Zenon DEF ToProtoServerConfig
  <2>5. QED
    BY <2>1, <2>3, <2>4
<1> HIDE DEF ds
<1>2. hits = Tops(conf, key)
  BY <1>1, LineFacts DEF Tops
<1>3. SeenValue(key) = IF hits = {} THEN NoValue ELSE ds[Min(hits)].value
  BY DEF SeenValue, ds
<1>4. CASE hits = {}
  BY <1>2, <1>3, <1>4 DEF Top
<1>5. CASE hits # {}
  <2>1. hits \subseteq Nat
    BY <1>2 DEF Tops
  <2>2. Min(hits) \in hits
    BY <1>5, <2>1, MinFacts
  <2>3. QED
    BY <1>1, <1>2, <1>3, <1>5, <2>2 DEF Top
<1>6. QED
  BY <1>4, <1>5

LEMMA TopIsNat ==
    ASSUME NEW f \in Seq(Line), NEW key
    PROVE  Top(f, key) \in Nat
<1>1. CASE Tops(f, key) = {}
  BY <1>1 DEF Top, NoValue
<1>2. CASE Tops(f, key) # {}
  <2>1. Tops(f, key) \subseteq Nat /\ Tops(f, key) \subseteq 1..Len(f)
    BY DEF Tops
  <2>2. Min(Tops(f, key)) \in 1..Len(f)
    BY <1>2, <2>1, MinFacts
  <2>3. QED
    BY <1>2, <2>2, LineFacts DEF Top
<1>3. QED
  BY <1>1, <1>2

LEMMA MatchedIsNat ==
    ASSUME NEW f \in Seq(Line), NEW key
    PROVE  EffectiveMatched(f, key) \in Nat
<1>1. Sets(f, key) \subseteq Nat /\ Sets(f, key) \subseteq 1..Len(f)
  BY DEF Sets
<1>2. Sets(f, key) # {} => Min(Sets(f, key)) \in 1..Len(f)
  BY <1>1, MinFacts
<1>3. QED
  BY <1>2, MatchedIsFirst, LineFacts DEF NoValue

\* Files that agree on the lines about a key, and on what is before them.
LEMMA SameTop ==
    ASSUME NEW f \in Seq(Line), NEW g \in Seq(Line), NEW key,
           Tops(f, key) = Tops(g, key), \A i \in Tops(f, key) : f[i].val = g[i].val
    PROVE  Top(f, key) = Top(g, key)
<1>1. CASE Tops(f, key) = {}
  BY <1>1 DEF Top
<1>2. CASE Tops(f, key) # {}
  <2>1. Tops(f, key) \subseteq Nat
    BY DEF Tops
  <2>2. Min(Tops(f, key)) \in Tops(f, key)
    BY <1>2, <2>1, MinFacts
  <2>3. QED
    BY <1>2, <2>2 DEF Top
<1>3. QED
  BY <1>1, <1>2

\* The first line about a key.
LEMMA MentionFacts ==
    ASSUME NEW f \in Seq(Line), NEW key
    PROVE  \/ /\ Mention(f, key) = 0
              /\ \A i \in 1..Len(f) : ~(f[i].k # "match" /\ f[i].key = key)
           \/ /\ Mention(f, key) \in 1..Len(f)
              /\ f[Mention(f, key)].k # "match" /\ f[Mention(f, key)].key = key
              /\ \A i \in 1..(Mention(f, key) - 1) : ~(f[i].k # "match" /\ f[i].key = key)
<1> DEFINE about == {i \in 1..Len(f) : f[i].k # "match" /\ f[i].key = key}
<1>1. Mention(f, key) = IF about # {} THEN Min(about) ELSE 0
  BY DEF Mention, SelectInSeq
<1>2. CASE about = {}
  BY <1>1, <1>2
<1>3. CASE about # {}
  <2>1. about \subseteq Nat
    OBVIOUS
  <2>2. Min(about) \in about /\ \A i \in about : Min(about) <= i
    BY <1>3, <2>1, MinFacts
  <2>3. Mention(f, key) \in about /\ \A i \in about : Mention(f, key) <= i
    BY <1>1, <1>3, <2>2
  <2>4. ASSUME NEW i \in 1..(Mention(f, key) - 1), f[i].k # "match" /\ f[i].key = key
        PROVE  FALSE
    <3>1. i \in about /\ i < Mention(f, key)
      BY <2>3, <2>4
    <3>2. QED
      BY <2>3, <3>1
  <2>5. QED
    BY <2>3, <2>4
<1>4. QED
  BY <1>2, <1>3

\* It is the line that is found.
LEMMA MentionIs ==
    ASSUME NEW f \in Seq(Line), NEW key, NEW m \in 1..Len(f),
           f[m].k # "match", f[m].key = key,
           \A i \in 1..(m - 1) : ~(f[i].k # "match" /\ f[i].key = key)
    PROVE  Mention(f, key) = m
<1>1. Mention(f, key) \in 1..Len(f)
      /\ f[Mention(f, key)].k # "match" /\ f[Mention(f, key)].key = key
      /\ \A i \in 1..(Mention(f, key) - 1) : ~(f[i].k # "match" /\ f[i].key = key)
  BY MentionFacts
<1>2. ~(Mention(f, key) < m) /\ ~(m < Mention(f, key))
  BY <1>1
<1>3. QED
  BY <1>1, <1>2

\* g is f with a line for key written at its first mention or at the end.
WrittenAt(f, g, key, val, at) ==
    /\ g \in Seq(Line) /\ g[at] = Set(key, val)
    /\ Len(f) <= Len(g) /\ (at > Len(f) => at = Len(g))
    /\ \A i \in 1..Len(g) : i # at => i \in 1..Len(f) /\ g[i] = f[i]
    /\ at <= Len(f) => f[at].k # "match" /\ f[at].key = key
    /\ \A i \in 1..Len(f) : i < at => ~(f[i].k # "match" /\ f[i].key = key)

\* updateDirective writes one line, at the first mention or at the end, and
\* moves no Match block.
LEMMA WrittenLine ==
    ASSUME NEW f \in Seq(Line), NEW key \in CfgKeys, NEW val \in Nat,
           NEW g, g = UpdateDirective(f, key, val)
    PROVE  \E at \in 1..Len(g) : WrittenAt(f, g, key, val, at)
<1> DEFINE line == Set(key, val)
           m == Mention(f, key)
<1>1. line \in Line
  BY DEF Set, Line
<1>2. g = IF m = 0 THEN Append(f, line) ELSE [f EXCEPT ![m] = line]
  BY DEF UpdateDirective
<1> HIDE DEF line
<1>3. CASE m = 0
  <2>1. \A i \in 1..Len(f) : ~(f[i].k # "match" /\ f[i].key = key)
    BY <1>3, MentionFacts
  <2>2. /\ g \in Seq(Line) /\ Len(g) = Len(f) + 1 /\ g[Len(f) + 1] = line
        /\ \A i \in 1..Len(f) : g[i] = f[i]
    BY <1>1, <1>2, <1>3
  <2>3. Len(f) \in Nat /\ Len(f) + 1 \in 1..Len(g)
    BY <2>2
  <2> HIDE DEF m
  <2>4. WrittenAt(f, g, key, val, Len(f) + 1)
    BY <2>1, <2>2, <2>3 DEF line, WrittenAt
  <2>5. QED
    BY <2>3, <2>4
<1>4. CASE m # 0
  <2>1. m \in 1..Len(f) /\ f[m].k # "match" /\ f[m].key = key
        /\ \A i \in 1..(m - 1) : ~(f[i].k # "match" /\ f[i].key = key)
    BY <1>4, MentionFacts
  <2> HIDE DEF m
  <2>2. /\ g \in Seq(Line) /\ Len(g) = Len(f) /\ g[m] = line
        /\ \A i \in 1..Len(f) : i # m => g[i] = f[i]
    BY <1>1, <1>2, <1>4, <2>1
  <2>3. \A i \in 1..Len(f) : i < m => i \in 1..(m - 1)
    BY <2>1
  <2>4. WrittenAt(f, g, key, val, m)
    BY <2>1, <2>2, <2>3 DEF line, WrittenAt
  <2>5. QED
    BY <2>1, <2>2, <2>4
<1>5. QED
  BY <1>3, <1>4

\* A directive with its place behind a Match line has no value for everybody.
LEMMA BehindHasNoTop ==
    ASSUME NEW f \in Seq(Line), NEW key, ~ForAll(f, key)
    PROVE  Top(f, key) = NoValue
<1> DEFINE m == Mention(f, key)
<1>1. SUFFICES ASSUME NEW i \in Tops(f, key) PROVE FALSE
  BY DEF Top
<1>2. i \in 1..Len(f) /\ f[i].k # "match" /\ f[i].key = key /\ ~MatchBefore(f, i)
  BY <1>1 DEF Tops
<1>3. /\ m \in 1..Len(f)
      /\ \A j \in 1..(m - 1) : ~(f[j].k # "match" /\ f[j].key = key)
  BY <1>2, MentionFacts
<1>4. m # 0 /\ MatchBefore(f, m)
  BY <1>3 DEF ForAll
<1> HIDE DEF m
<1>5. m <= i
  BY <1>2, <1>3
<1>6. MatchBefore(f, i)
  BY <1>2, <1>3, <1>4, <1>5 DEF MatchBefore
<1>7. QED
  BY <1>2, <1>6

\* An update changes the value of its directive, for everybody if it has its place
\* before all Match blocks, and otherwise nothing that counts.
LEMMA UpdateIsMeant ==
    ASSUME NEW f \in Seq(Line), NEW key \in CfgKeys, NEW val \in Nat,
           NEW g, g = UpdateDirective(f, key, val)
    PROVE  /\ g \in Seq(Line)
           /\ \A k \in CfgKeys : ForAll(g, k) <=> ForAll(f, k)
           /\ ForAll(f, key) => Top(g, key) = val
           /\ EffectiveMatched(g, key) = val
           /\ \A other \in CfgKeys : other # key => /\ Top(g, other) = Top(f, other)
                                                    /\ EffectiveMatched(g, other) = EffectiveMatched(f, other)
<1>0. PICK at \in 1..Len(g) : WrittenAt(f, g, key, val, at)
  BY WrittenLine
<1>1. /\ g \in Seq(Line) /\ g[at] = Set(key, val)
      /\ Len(f) <= Len(g) /\ (at > Len(f) => at = Len(g))
      /\ \A i \in 1..Len(g) : i # at => i \in 1..Len(f) /\ g[i] = f[i]
      /\ at <= Len(f) => f[at].k # "match" /\ f[at].key = key
      /\ \A i \in 1..Len(f) : i < at => ~(f[i].k # "match" /\ f[i].key = key)
  BY <1>0 DEF WrittenAt
<1>2. g[at].k = "set" /\ g[at].key = key /\ g[at].val = val
  BY <1>1 DEF Set
<1>3. Len(f) \in Nat /\ Len(g) \in Nat
  BY <1>1
<1>4. \A i \in 1..Len(g) : MatchBefore(g, i) <=> MatchBefore(f, i)
  <2> SUFFICES ASSUME NEW i \in 1..Len(g), NEW j \in 1..(i - 1)
               PROVE  g[j].k = "match" <=> f[j].k = "match"
    BY DEF MatchBefore
  <2>1. j \in 1..Len(g) /\ j < Len(g)
    BY <1>3
  <2>2. CASE j = at
    BY <1>1, <1>2, <1>3, <2>1, <2>2
  <2>3. CASE j # at
    BY <1>1, <2>1, <2>3
  <2>4. QED
    BY <2>2, <2>3
<1>5. ASSUME NEW other \in CfgKeys, other # key
      PROVE  Top(g, other) = Top(f, other) /\ EffectiveMatched(g, other) = EffectiveMatched(f, other)
  <2>1. ASSUME NEW i \in 1..Len(g), g[i].k = "set", g[i].key = other
        PROVE  i \in 1..Len(f) /\ g[i] = f[i]
    BY <1>1, <1>2, <1>5, <2>1
  <2>2. ASSUME NEW i \in 1..Len(f), f[i].k = "set", f[i].key = other
        PROVE  i \in 1..Len(g) /\ g[i] = f[i]
    BY <1>1, <1>3, <1>5, <2>2
  <2>3. Tops(g, other) = Tops(f, other)
    BY <1>4, <2>1, <2>2 DEF Tops
  <2>4. \A i \in Tops(g, other) : g[i].val = f[i].val
    BY <2>1 DEF Tops
  <2>5. Sets(g, other) = Sets(f, other)
    BY <2>1, <2>2 DEF Sets
  <2>6. \A i \in Sets(g, other) : g[i].val = f[i].val
    BY <2>1 DEF Sets
  <2>7. QED
    BY <1>1, <2>3, <2>4, <2>5, <2>6, SameTop, SameMatched
<1>6. ASSUME NEW i \in 1..Len(g), i < at
      PROVE  ~(g[i].k # "match" /\ g[i].key = key)
  <2>1. i \in 1..Len(f) /\ g[i] = f[i]
    BY <1>1, <1>6
  <2>2. QED
    BY <1>1, <1>6, <2>1
<1>7. Mention(g, key) = at
  <2>1. g[at].k # "match" /\ g[at].key = key
    BY <1>2
  <2>2. \A i \in 1..(at - 1) : i \in 1..Len(g) /\ i < at
    BY <1>3
  <2>3. \A i \in 1..(at - 1) : ~(g[i].k # "match" /\ g[i].key = key)
    BY <1>6, <2>2
  <2>4. g \in Seq(Line) /\ at \in 1..Len(g)
    BY <1>1
  <2>5. QED
    BY <2>1, <2>3, <2>4, MentionIs
<1>8. ForAll(g, key) <=> ~MatchBefore(g, at)
  BY <1>3, <1>7 DEF ForAll
<1>9. ForAll(f, key) <=> ~MatchBefore(f, at)
  <2>1. CASE at <= Len(f)
    <3>1. at \in 1..Len(f) /\ f[at].k # "match" /\ f[at].key = key
      BY <1>1, <2>1
    <3>2. \A i \in 1..(at - 1) : i \in 1..Len(f) /\ i < at
      BY <1>3, <3>1
    <3>3. Mention(f, key) = at
      BY <1>1, <3>1, <3>2, MentionIs
    <3>4. QED
      BY <3>1, <3>3 DEF ForAll
  <2>2. CASE at > Len(f)
    <3>1. Len(f) + 1 \in 1..Len(g)
      BY <1>3, <2>2
    <3>2. at = Len(f) + 1
      BY <1>1, <1>3, <2>2, <3>1
    <3>3. Mention(f, key) = 0
      BY <1>1, <1>3, <2>2, MentionFacts
    <3>4. QED
      BY <3>2, <3>3 DEF ForAll
  <2>3. QED
    BY <1>3, <2>1, <2>2
<1>10. ASSUME NEW k \in CfgKeys, k # key PROVE ForAll(g, k) <=> ForAll(f, k)
  <2>1. \A i \in 1..Len(f) : i \in 1..Len(g) /\ (i # at => g[i] = f[i])
    BY <1>1, <1>3
  <2>2. at <= Len(f) => f[at].k # "match" /\ f[at].key # k
    BY <1>1, <1>10
  <2>3. CASE Mention(f, k) # 0
    <3> DEFINE m == Mention(f, k)
    <3>1. /\ m \in 1..Len(f) /\ f[m].k # "match" /\ f[m].key = k
          /\ \A i \in 1..(m - 1) : ~(f[i].k # "match" /\ f[i].key = k)
      BY <2>3, MentionFacts
    <3> HIDE DEF m
    <3>2. m # at /\ m \in 1..Len(g) /\ g[m] = f[m]
      BY <2>1, <2>2, <3>1
    <3>3. ASSUME NEW i \in 1..(m - 1) PROVE ~(g[i].k # "match" /\ g[i].key = k)
      <4>1. i \in 1..Len(f)
        BY <3>1
      <4>2. QED
        BY <1>2, <1>10, <2>1, <3>1, <3>3, <4>1
    <3>4. Mention(g, k) = m
      BY <1>1, <3>1, <3>2, <3>3, MentionIs
    <3>5. m # 0
      BY <3>1
    <3>6. QED
      BY <1>4, <3>2, <3>4, <3>5 DEF ForAll, m
  <2>4. CASE Mention(f, k) = 0
    <3>1. \A i \in 1..Len(f) : ~(f[i].k # "match" /\ f[i].key = k)
      BY <2>4, MentionFacts
    <3>2. ASSUME NEW i \in 1..Len(g), g[i].k # "match", g[i].key = k PROVE FALSE
      <4>1. i # at
        BY <1>2, <1>10, <3>2
      <4>2. i \in 1..Len(f) /\ g[i] = f[i]
        BY <1>1, <4>1
      <4>3. QED
        BY <3>1, <3>2, <4>2
    <3>3. Mention(g, k) = 0
      BY <1>1, <3>2, MentionFacts
    <3>4. MatchBefore(g, Len(g) + 1) <=> MatchBefore(f, Len(f) + 1)
      <4>1. ASSUME NEW j \in 1..Len(g), g[j].k = "match" PROVE j \in 1..Len(f) /\ f[j].k = "match"
        <5>1. j # at
          BY <1>2, <4>1
        <5>2. QED
          BY <1>1, <4>1, <5>1
      <4>2. ASSUME NEW j \in 1..Len(f), f[j].k = "match" PROVE j \in 1..Len(g) /\ g[j].k = "match"
        <5>1. j # at
          BY <2>2, <4>2
        <5>2. QED
          BY <2>1, <4>2, <5>1
      <4>3. QED
        BY <1>3, <4>1, <4>2 DEF MatchBefore
    <3>5. QED
      BY <2>4, <3>3, <3>4 DEF ForAll
  <2>5. QED
    BY <2>3, <2>4
<1>11. EffectiveMatched(g, key) = val
  <2>1. at \in Sets(g, key) /\ Sets(g, key) \subseteq Nat
    BY <1>2 DEF Sets
  <2>2. \A i \in Sets(g, key) : at <= i
    BY <1>3, <1>6 DEF Sets
  <2>3. Min(Sets(g, key)) = at
    BY <2>1, <2>2, MinIs
  <2>4. QED
    BY <1>1, <1>2, <2>1, <2>3, MatchedIsFirst
<1>12. ASSUME ForAll(f, key) PROVE Top(g, key) = val
  <2>1. at \in Tops(g, key)
    BY <1>2, <1>4, <1>9, <1>12 DEF Tops
  <2>2. \A i \in Tops(g, key) : at <= i
    BY <1>3, <1>6 DEF Tops
  <2>3. Tops(g, key) \subseteq Nat
    BY DEF Tops
  <2>4. Min(Tops(g, key)) = at
    BY <2>1, <2>2, <2>3, MinIs
  <2>5. QED
    BY <1>2, <2>1, <2>4 DEF Top
<1>13. ForAll(g, key) <=> ForAll(f, key)
  BY <1>4, <1>8, <1>9
<1>14. QED
  BY <1>1, <1>5, <1>10, <1>11, <1>12, <1>13
--------------------------------------------------------------------------------
(* The calls of UpdateServerConfig. *)

Update == [delete : BOOLEAN, key : CfgKeys, val : Nat]

CfgData ==
    /\ conf \in Seq(Line)
    /\ epc \in [Editors -> {"new", "read", "open", "write", "done"}]
    /\ ereq \in [Editors -> Seq(Update)]
    /\ ebuf \in [Editors -> Seq(Line)]
    /\ meantConf \in [CfgKeys -> [all : BOOLEAN, val : Nat]]
    /\ \A c \in Editors : epc[c] \in {"open", "write"} => ereq[c] # <<>>

\* The file f gives every directive the value that the calls meant.
Means(f) ==
    \A key \in CfgKeys :
       /\ meantConf[key].all <=> ForAll(f, key)
       /\ Top(f, key) = IF meantConf[key].all THEN meantConf[key].val ELSE NoValue
       /\ ~meantConf[key].all => EffectiveMatched(f, key) = meantConf[key].val

\* Call c is about to write into the file f.
WritesInto(c, f) == ebuf[c] = UpdateDirective(f, Head(ereq[c]).key, Head(ereq[c]).val)

\* Calls that do not overlap: the file is right unless it is cut, and then the
\* text that is about to be written is the update of one that was right.
Meant ==
    /\ \A c, d \in Editing : c = d
    /\ (\A c \in Editors : epc[c] # "write") => Means(conf)
    /\ \A c \in Editors : epc[c] = "open" => WritesInto(c, conf)
    /\ \A c \in Editors : epc[c] = "write" => \E f \in Seq(Line) : Means(f) /\ WritesInto(c, f)

CfgInv == CfgData /\ (spoiled \/ Meant)

LEMMA EditingFacts ==
    ASSUME NEW c \in Editors, CfgData
    PROVE  c \in Editing <=> epc[c] \in {"read", "open", "write"}
  BY DEF Editing, CfgData

LEMMA ReplyFacts ==
    ASSUME CfgData, NEW c \in Editors, NEW r, Reply(c, r), UNCHANGED <<conf, meantConf>>
    PROVE  /\ CfgData'
           /\ Editing' = Editing \ {c}
           /\ epc'[c] = "done"
           /\ \A d \in Editors : d # c => epc'[d] = epc[d] /\ ereq'[d] = ereq[d] /\ ebuf'[d] = ebuf[d]
  BY DEF CfgData, Reply, ToStep, Editing

\* A call that ends before it has cut the file leaves things as they are.
LEMMA EndsWell ==
    ASSUME CfgInv, NEW c \in Editors, NEW r, Reply(c, r),
           epc[c] # "write", UNCHANGED <<conf, meantConf, spoiled>>
    PROVE  CfgInv'
<1>0. CfgData /\ (spoiled \/ Meant)
  BY DEF CfgInv
<1>1. /\ CfgData'
      /\ Editing' = Editing \ {c}
      /\ epc'[c] = "done"
      /\ \A d \in Editors : d # c => epc'[d] = epc[d] /\ ereq'[d] = ereq[d] /\ ebuf'[d] = ebuf[d]
  BY <1>0, ReplyFacts
<1>2. CASE Meant
  <2>1. \A d, e \in Editing' : d = e
    BY <1>1, <1>2 DEF Meant
  <2>2. \A f : Means(f)' <=> Means(f)
    BY DEF Means
  <2>3. (\A d \in Editors : epc'[d] # "write") => Means(conf)'
    BY <1>1, <1>2, <2>2 DEF Meant, Means
  <2>4. \A d \in Editors : epc'[d] = "open" => WritesInto(d, conf)'
    BY <1>1, <1>2 DEF Meant, WritesInto
  <2>5. \A d \in Editors : epc'[d] = "write" => \E f \in Seq(Line) : Means(f)' /\ WritesInto(d, f)'
    BY <1>1, <1>2, <2>2 DEF Meant, WritesInto
  <2>6. QED
    BY <1>1, <2>1, <2>3, <2>4, <2>5 DEF Meant, CfgInv
<1>3. CASE spoiled
  BY <1>1, <1>3 DEF CfgInv
<1>4. QED
  BY <1>0, <1>2, <1>3

LEMMA HeadFacts ==
    ASSUME CfgData, NEW c \in Editors, ereq[c] # <<>>
    PROVE  /\ Head(ereq[c]).key \in CfgKeys /\ Head(ereq[c]).val \in Nat
           /\ Tail(ereq[c]) \in Seq(Update)
<1>1. Head(ereq[c]) \in Update /\ Tail(ereq[c]) \in Seq(Update)
  BY DEF CfgData
<1>2. QED
  BY <1>1 DEF Update

LEMMA CallBegins ==
    ASSUME CfgInv, NEW c \in Editors, UpdateServerConfig(c)
    PROVE  CfgInv'
<1>0. CfgData /\ (spoiled \/ Meant)
  BY DEF CfgInv
<1>1. /\ epc[c] = "new" /\ epc' = [epc EXCEPT ![c] = "read"]
      /\ UNCHANGED <<conf, ebuf, meantConf>>
      /\ \A d \in Editors : d # c => ereq'[d] = ereq[d]
  BY <1>0 DEF UpdateServerConfig, ToStep, CfgData
<1>2. ereq' \in [Editors -> Seq(Update)]
  BY <1>0, ConfigAssumption DEF UpdateServerConfig, CfgData, Update
<1>3. CfgData'
  BY <1>0, <1>1, <1>2 DEF CfgData
<1>4. CASE Meant /\ Editing = {}
  <2>1. \A d \in Editors : epc[d] \in {"new", "done"}
    BY <1>0, <1>4, EditingFacts DEF CfgData
  <2>2. \A d \in Editors : d # c => epc'[d] \in {"new", "done"}
    BY <1>0, <1>1, <2>1 DEF CfgData
  <2>3. epc'[c] = "read"
    BY <1>0, <1>1 DEF CfgData
  <2>4. \A d, e \in Editing' : d = e
    BY <2>2 DEF Editing
  <2>5. Means(conf)'
    BY <1>1, <1>4, <2>1 DEF Meant, Means
  <2>6. QED
    BY <1>3, <2>2, <2>3, <2>4, <2>5 DEF Meant, CfgInv
<1>5. CASE spoiled \/ Editing # {}
  BY <1>3, <1>5, Zenon DEF CfgInv, UpdateServerConfig
<1>6. QED
  BY <1>0, <1>4, <1>5

\* A step of a call that is alone, when calls do not overlap.
LEMMA AloneFacts ==
    ASSUME CfgData, Meant, NEW c \in Editors, epc[c] \in {"read", "open", "write"}
    PROVE  /\ \A d \in Editors : d # c => epc[d] \in {"new", "done"}
           /\ epc[c] # "write" => Means(conf)
<1>1. \A d \in Editors : d # c => epc[d] \in {"new", "done"}
  BY EditingFacts DEF Meant, CfgData
<1>2. QED
  BY <1>1 DEF Meant

LEMMA AloneInv ==
    ASSUME CfgData, Meant, CfgData', NEW c \in Editors, epc[c] \in {"read", "open", "write"},
           \A d \in Editors : d # c => epc'[d] = epc[d],
           epc'[c] # "write" => Means(conf)',
           epc'[c] = "open" => WritesInto(c, conf)',
           epc'[c] = "write" => \E f \in Seq(Line) : Means(f)' /\ WritesInto(c, f)'
    PROVE  Meant'
<1>1. \A d \in Editors : d # c => epc'[d] \in {"new", "done"}
  BY AloneFacts
<1>2. \A d, e \in Editing' : d = e
  BY <1>1 DEF Editing
<1>3. QED
  BY <1>1, <1>2 DEF Meant

LEMMA CallReads ==
    ASSUME CfgInv, NEW c \in Editors, SkipDelete(c) \/ ReadConfig(c)
    PROVE  CfgInv'
<1>0. CfgData /\ (spoiled \/ Meant) /\ epc[c] = "read" /\ ereq[c] # <<>>
  BY DEF CfgInv, SkipDelete, ReadConfig
<1>1. /\ Head(ereq[c]).key \in CfgKeys /\ Head(ereq[c]).val \in Nat
      /\ Tail(ereq[c]) \in Seq(Update)
  BY <1>0, HeadFacts
<1>2. UpdateDirective(conf, Head(ereq[c]).key, Head(ereq[c]).val) \in Seq(Line)
  <2>1. PICK key \in CfgKeys, val \in Nat : key = Head(ereq[c]).key /\ val = Head(ereq[c]).val
    BY <1>1
  <2>2. PICK g : g = UpdateDirective(conf, key, val)
    OBVIOUS
  <2>3. g \in Seq(Line)
    BY <1>0, <2>2, UpdateIsMeant DEF CfgData
  <2>4. QED
    BY <2>1, <2>2, <2>3
<1>3. UNCHANGED <<conf, meantConf, spoiled>> /\ \A d \in Editors : d # c => epc'[d] = epc[d]
  BY <1>0 DEF SkipDelete, ReadConfig, ToStep, CfgData
<1>4. CASE SkipDelete(c)
  <2>1. CfgData' /\ epc' = epc
    BY <1>0, <1>1, <1>4 DEF SkipDelete, CfgData
  <2>2. ASSUME Meant PROVE Meant'
    <3>1. Means(conf)'
      BY <1>0, <1>3, <2>2, AloneFacts DEF Means
    <3>2. epc'[c] = "read"
      BY <1>0, <2>1
    <3>3. QED
      BY <1>0, <1>3, <2>1, <2>2, <3>1, <3>2, AloneInv
  <2>3. QED
    BY <1>0, <1>3, <2>1, <2>2, Zenon DEF CfgInv
<1>5. CASE ReadConfig(c)
  <2>1. CfgData' /\ epc'[c] = "open" /\ WritesInto(c, conf)'
    BY <1>0, <1>2, <1>5 DEF ReadConfig, CfgData, ToStep, WritesInto
  <2>2. ASSUME Meant PROVE Meant'
    <3>1. Means(conf)'
      BY <1>0, <1>3, <2>2, AloneFacts DEF Means
    <3>2. QED
      BY <1>0, <1>3, <2>1, <2>2, <3>1, AloneInv
  <2>3. QED
    BY <1>0, <1>3, <2>1, <2>2, Zenon DEF CfgInv
<1>6. QED
  BY <1>4, <1>5

LEMMA CallCuts ==
    ASSUME CfgInv, NEW c \in Editors, OpenConfig(c)
    PROVE  CfgInv'
<1>0. CfgData /\ (spoiled \/ Meant) /\ epc[c] = "open"
  BY DEF CfgInv, OpenConfig
<1>1. /\ UNCHANGED <<ereq, ebuf, meantConf, spoiled>> /\ conf' = <<>>
      /\ epc'[c] = "write" /\ \A d \in Editors : d # c => epc'[d] = epc[d]
  BY <1>0 DEF OpenConfig, ToStep, CfgData
<1>2. CfgData'
  BY <1>0 DEF OpenConfig, ToStep, CfgData
<1>3. ASSUME Meant PROVE Meant'
  <2>1. Means(conf) /\ WritesInto(c, conf) /\ conf \in Seq(Line)
    BY <1>0, <1>3, AloneFacts DEF Meant, CfgData
  <2>2. \A f : (Means(f) => Means(f)') /\ (WritesInto(c, f) => WritesInto(c, f)')
    BY <1>1 DEF Means, WritesInto
  <2>3. \E f \in Seq(Line) : Means(f)' /\ WritesInto(c, f)'
    BY <2>1, <2>2
  <2>4. QED
    BY <1>0, <1>1, <1>2, <1>3, <2>3, AloneInv
<1>4. QED
  BY <1>0, <1>1, <1>2, <1>3, Zenon DEF CfgInv

LEMMA CallFills ==
    ASSUME CfgInv, NEW c \in Editors, WriteConfig(c)
    PROVE  CfgInv'
<1> DEFINE up == Head(ereq[c])
<1>0. CfgData /\ (spoiled \/ Meant) /\ epc[c] = "write"
  BY DEF CfgInv, WriteConfig
<1>1. /\ ereq[c] # <<>> /\ up.key \in CfgKeys /\ up.val \in Nat /\ Tail(ereq[c]) \in Seq(Update)
  BY <1>0, HeadFacts DEF CfgData
<1>2. /\ spoiled' = spoiled /\ conf' = ebuf[c]
      /\ meantConf' = [meantConf EXCEPT ![up.key].val = up.val]
      /\ epc'[c] = "read" /\ \A d \in Editors : d # c => epc'[d] = epc[d]
  BY <1>0 DEF WriteConfig, ToStep, CfgData
<1>3. CfgData'
  <2>1. /\ conf' \in Seq(Line) /\ ebuf' \in [Editors -> Seq(Line)]
        /\ epc' \in [Editors -> {"new", "read", "open", "write", "done"}]
        /\ ereq' \in [Editors -> Seq(Update)]
        /\ \A d \in Editors : epc'[d] \in {"open", "write"} => ereq'[d] # <<>>
    BY <1>0, <1>1 DEF WriteConfig, ToStep, CfgData
  <2>2. meantConf' \in [CfgKeys -> [all : BOOLEAN, val : Nat]]
    BY <1>0, <1>1, <1>2 DEF CfgData
  <2>3. QED
    BY <2>1, <2>2 DEF CfgData
<1>4. ASSUME Meant PROVE Meant'
  <2>1. PICK f \in Seq(Line) : Means(f) /\ WritesInto(c, f)
    BY <1>0, <1>4 DEF Meant
  <2>2. PICK key \in CfgKeys, val \in Nat : key = up.key /\ val = up.val
    BY <1>1
  <2>2a. PICK g : g = ebuf[c] /\ g = UpdateDirective(f, key, val)
    BY <2>1, <2>2 DEF WritesInto
  <2>3. /\ \A k \in CfgKeys : ForAll(g, k) <=> ForAll(f, k)
        /\ ForAll(f, key) => Top(g, key) = val
        /\ EffectiveMatched(g, key) = val
        /\ \A other \in CfgKeys : other # key =>
              /\ Top(g, other) = Top(f, other)
              /\ EffectiveMatched(g, other) = EffectiveMatched(f, other)
        /\ g \in Seq(Line)
    <3>1. g = UpdateDirective(f, key, val)
      BY <2>2a
    <3>2. g \in Seq(Line) /\ EffectiveMatched(g, key) = val
      BY <3>1, UpdateIsMeant
    <3>3. ForAll(f, key) => Top(g, key) = val
      BY <3>1, UpdateIsMeant
    <3>4. ASSUME NEW k \in CfgKeys PROVE ForAll(g, k) <=> ForAll(f, k)
      BY <3>1, UpdateIsMeant
    <3>5. ASSUME NEW other \in CfgKeys, other # key
          PROVE  Top(g, other) = Top(f, other) /\ EffectiveMatched(g, other) = EffectiveMatched(f, other)
      BY <3>1, <3>5, UpdateIsMeant
    <3>6. QED
      BY <3>2, <3>3, <3>4, <3>5
  <2>4. Means(conf)'
    <3>1. /\ meantConf'[key].all = meantConf[key].all /\ meantConf'[key].val = val
          /\ \A other \in CfgKeys : other # key => meantConf'[other] = meantConf[other]
      BY <1>0, <1>2, <2>2 DEF CfgData
    <3>2. ~ForAll(g, key) => Top(g, key) = NoValue
      BY <2>3, BehindHasNoTop
    <3>3. Means(g)'
      <4> SUFFICES ASSUME NEW k \in CfgKeys
                   PROVE  /\ meantConf'[k].all <=> ForAll(g, k)
                          /\ Top(g, k) = IF meantConf'[k].all THEN meantConf'[k].val ELSE NoValue
                          /\ ~meantConf'[k].all => EffectiveMatched(g, k) = meantConf'[k].val
        BY DEF Means
      <4>1. /\ meantConf[k].all <=> ForAll(f, k)
            /\ Top(f, k) = IF meantConf[k].all THEN meantConf[k].val ELSE NoValue
            /\ ~meantConf[k].all => EffectiveMatched(f, k) = meantConf[k].val
        BY <2>1 DEF Means
      <4>2. ForAll(g, k) <=> ForAll(f, k)
        BY <2>3
      <4>3. CASE k = key
        BY <2>3, <3>1, <3>2, <4>1, <4>2, <4>3
      <4>4. CASE k # key
        <5>1. /\ meantConf'[k] = meantConf[k] /\ Top(g, k) = Top(f, k)
              /\ EffectiveMatched(g, k) = EffectiveMatched(f, k)
          BY <2>3, <3>1, <4>4
        <5>2. QED
          BY <4>1, <4>2, <5>1
      <4>5. QED
        BY <4>3, <4>4
    <3>4. conf' = g
      BY <1>2, <2>2a
    <3>5. QED
      BY <3>3, <3>4 DEF Means
  <2>5. QED
    BY <1>0, <1>2, <1>3, <1>4, <2>4, AloneInv
<1>5. QED
  BY <1>0, <1>2, <1>3, <1>4, Zenon DEF CfgInv

LEMMA CfgInvStep ==
    ASSUME CfgInv, [CfgNext]_cfgVars
    PROVE  CfgInv'
<1>1. ASSUME NEW c \in Editors, CfgStep(c) PROVE CfgInv'
  <2>1. CASE UpdateServerConfig(c)
    BY <2>1, CallBegins
  <2>2. CASE SkipDelete(c) \/ ReadConfig(c)
    BY <2>2, CallReads
  <2>3. CASE OpenConfig(c)
    BY <2>3, CallCuts
  <2>4. CASE WriteConfig(c)
    BY <2>4, CallFills
  <2>5. CASE WriteConfigFails(c)
    <3>1. CfgData' /\ spoiled'
      BY <2>5, ReplyFacts DEF WriteConfigFails, CfgInv
    <3>2. QED
      BY <3>1 DEF CfgInv
  <2>6. CASE ReadRefused(c) \/ OpenRefused(c) \/ AnswerConfig(c) \/ ValidateServerConfig(c) \/ RestartSSHService(c)
    <3>1. PICK r : Reply(c, r)
      BY <2>6, Zenon DEF ReadRefused, OpenRefused, AnswerConfig, ValidateServerConfig, RestartSSHService
    <3>2. epc[c] # "write" /\ UNCHANGED <<conf, meantConf, spoiled>>
      BY <2>6 DEF ReadRefused, OpenRefused, AnswerConfig, ValidateServerConfig, RestartSSHService
    <3>3. QED
      BY <3>1, <3>2, EndsWell
  <2>7. QED
    BY <1>1, <2>1, <2>2, <2>3, <2>4, <2>5, <2>6 DEF CfgStep
<1>2. CASE UNCHANGED cfgVars
  BY <1>2 DEF cfgVars, CfgInv, CfgData, Meant, Means, WritesInto, Editing
<1>3. QED
  BY <1>1, <1>2 DEF CfgNext

LEMMA CfgInvInit ==
    ASSUME CfgInit
    PROVE  CfgInv
<1>1. conf \in Seq(Line)
  BY ConfigAssumption DEF CfgInit
<1>2. ASSUME NEW key \in CfgKeys
      PROVE  /\ meantConf[key].all \in BOOLEAN /\ (meantConf[key].all <=> ForAll(conf, key))
             /\ meantConf[key].val = IF ForAll(conf, key) THEN Top(conf, key) ELSE EffectiveMatched(conf, key)
             /\ meantConf[key] = [all |-> meantConf[key].all, val |-> meantConf[key].val]
  <2>1. meantConf[key] = [all |-> ForAll(conf, key),
                          val |-> IF ForAll(conf, key) THEN Effective(conf, key) ELSE EffectiveMatched(conf, key)]
    BY Zenon DEF CfgInit
  <2>2. Effective(conf, key) = Top(conf, key)
    BY <1>1, EffectiveIsTop
  <2>3. ForAll(conf, key) \in BOOLEAN
    BY Zenon DEF ForAll
  <2> DEFINE all == ForAll(conf, key)
             val == IF all THEN Top(conf, key) ELSE EffectiveMatched(conf, key)
  <2>4. meantConf[key] = [all |-> all, val |-> val]
    BY <2>1, <2>2
  <2> HIDE DEF all, val
  <2>5. meantConf[key].all = all /\ meantConf[key].val = val
    BY <2>4
  <2>6. QED
    BY <2>3, <2>4, <2>5 DEF all, val
<1>3. CfgData
  <2>1. \A key \in CfgKeys : meantConf[key].val \in Nat
    BY <1>1, <1>2, TopIsNat, MatchedIsNat
  <2>2. meantConf \in [CfgKeys -> [all : BOOLEAN, val : Nat]]
    BY <1>2, <2>1 DEF CfgInit
  <2>3. QED
    BY <1>1, <2>2 DEF CfgInit, CfgData
<1>4. Means(conf)
  BY <1>1, <1>2, BehindHasNoTop DEF Means
<1>4a. Meant
  BY <1>4 DEF CfgInit, Meant, Editing
<1>5. QED
  BY <1>3, <1>4a DEF CfgInv

LEMMA ConfigIsAsMeant ==
    ASSUME CfgInv
    PROVE  ConfigAsMeant
<1> SUFFICES ASSUME Editing = {}, ~spoiled, NEW key \in CfgKeys
             PROVE  LET general == IF meantConf[key].all THEN meantConf[key].val ELSE NoValue
                    IN  /\ Effective(conf, key) = general
                        /\ GetDirective(conf, key) = general /\ SeenValue(key) = general
                        /\ ~meantConf[key].all => EffectiveMatched(conf, key) = meantConf[key].val
  BY DEF ConfigAsMeant
<1>1. CfgData /\ Meant
  BY DEF CfgInv
<1>2. \A c \in Editors : epc[c] # "write"
  BY <1>1, EditingFacts
<1>3. /\ Top(conf, key) = IF meantConf[key].all THEN meantConf[key].val ELSE NoValue
      /\ ~meantConf[key].all => EffectiveMatched(conf, key) = meantConf[key].val
      /\ conf \in Seq(Line)
  BY <1>1, <1>2 DEF Meant, Means, CfgData
<1>4. QED
  BY <1>3, EffectiveIsTop, GetDirectiveIsTop, SeenIsTop
--------------------------------------------------------------------------------
(* The service, and what sshd runs with. *)

\* A call that has restarted or reloaded sshd, and not been told yet.
Renewed(c) == spc[c] = "status" /\ verb[c] \in {"restart", "reload"} /\ c \notin beside

UpToDate == active = "active" => running = ConfigNow

\* After the last restart or reload nobody edited sshd_config, whether the call
\* has been answered or is about to be.
RunInv ==
    /\ SysTypeOK
    /\ spc \in [Controls -> {"new", "command", "starting", "status", "done"}]
    /\ verb \in [Controls -> {"none", "start", "stop", "restart", "reload", "enable", "disable"}]
    /\ \A c \in Controls : spc[c] \notin {"new", "done"} => units # {}
    /\ \A c \in Controls : Renewed(c) => UpToDate
    /\ fresh => UpToDate

LEMMA ConfigNowDiffers == ConfigNow # NoStatus /\ ConfigNow' # NoStatus
<1>1. ConfigNow.k = "config" /\ ConfigNow'.k = "config" /\ NoStatus.k = "none"
  BY DEF ConfigNow, NoStatus
<1>2. QED
  BY <1>1

LEMMA SameConfig ==
    ASSUME conf' = conf
    PROVE  ConfigNow' = ConfigNow
  BY DEF ConfigNow

LEMMA RunBegin ==
    ASSUME RunInv, NEW c \in Controls,
           NEW v \in {"start", "stop", "restart", "reload", "enable", "disable"}, Begin(c, v)
    PROVE  RunInv'
<1>1. /\ UNCHANGED <<conf, units, active, mainPID, starts, running, fresh, beside>> /\ spc[c] = "new"
      /\ spc' = [spc EXCEPT ![c] = IF FindSSHServiceName = "" THEN "done" ELSE "command"]
      /\ verb' = [verb EXCEPT ![c] = v]
  BY DEF Begin, Go, cfgVars, machineVars, unitVars, histVars
<1>2. FindSSHServiceName # "" => units # {}
  BY DEF FindSSHServiceName
<1>3. SysTypeOK'
  <2>1. \A d \in Controls : spc[d] = "starting" => spc'[d] = "starting"
    BY <1>1 DEF RunInv
  <2>2. QED
    BY <1>1, <2>1 DEF RunInv, SysTypeOK
<1>4. UpToDate' <=> UpToDate
  BY <1>1, SameConfig DEF UpToDate
<1>5. \A d \in Controls : Renewed(d)' => Renewed(d)
  BY <1>1 DEF RunInv, Renewed
<1>6. /\ spc' \in [Controls -> {"new", "command", "starting", "status", "done"}]
      /\ verb' \in [Controls -> {"none", "start", "stop", "restart", "reload", "enable", "disable"}]
  BY <1>1 DEF RunInv
<1>7. \A d \in Controls : spc'[d] \notin {"new", "done"} => units' # {}
  BY <1>1, <1>2 DEF RunInv
<1>8. QED
  BY <1>1, <1>3, <1>4, <1>5, <1>6, <1>7 DEF RunInv

\* systemctl, from one label of a call to the next.
LEMMA RunCommand ==
    ASSUME RunInv, NEW c \in Controls, NEW label \in {"starting", "status", "done"},
           spc[c] \in {"command", "starting"},
           Go(c, label), UNCHANGED <<cfgVars, units, verb, histVars>>,
           active' \in {"active", "inactive", "activating", "failed"},
           active' = "activating" => \E d \in Controls : spc'[d] = "starting",
           active' = "active" <=> running' # NoStatus,
           active' = "active" => mainPID' # 0,
           mainPID' # 0 => active' \in {"active", "activating"}, starts' \in Nat,
           \/ running' = running /\ active' = active
              /\ ~(label = "status" /\ verb[c] \in {"restart", "reload"})
           \/ running' \in {ConfigNow, NoStatus}
    PROVE  RunInv'
<1>1. UNCHANGED <<conf, units, verb, fresh, beside>>
  BY DEF cfgVars, histVars
<1>2. units # {}
  BY DEF RunInv
<1>3. /\ spc' \in [Controls -> {"new", "command", "starting", "status", "done"}]
      /\ spc'[c] = label /\ \A d \in Controls : d # c => spc'[d] = spc[d]
  BY DEF RunInv, Go
<1>4. SysTypeOK'
  BY <1>1, <1>2 DEF SysTypeOK
<1>5. /\ \A d \in Controls : Renewed(d)' => UpToDate'
      /\ fresh' => UpToDate'
  <2>1. CASE running' \in {ConfigNow, NoStatus}
    BY <1>1, <2>1, SameConfig DEF UpToDate
  <2>2. CASE running' = running /\ active' = active
             /\ ~(label = "status" /\ verb[c] \in {"restart", "reload"})
    <3>1. UpToDate' <=> UpToDate
      BY <1>1, <2>2, SameConfig DEF UpToDate
    <3>2. \A d \in Controls : Renewed(d)' => Renewed(d)
      BY <1>1, <1>3, <2>2 DEF Renewed
    <3>3. QED
      BY <1>1, <3>1, <3>2 DEF RunInv
  <2>3. QED
    BY <2>1, <2>2
<1>6. QED
  BY <1>1, <1>2, <1>3, <1>4, <1>5 DEF RunInv

LEMMA RunAnswer ==
    ASSUME RunInv, NEW c \in Controls, AnswerControl(c)
    PROVE  RunInv'
<1>1. /\ UNCHANGED <<conf, units, active, mainPID, starts, running, beside, verb>> /\ spc[c] = "status"
      /\ spc' = [spc EXCEPT ![c] = "done"]
  BY DEF AnswerControl, Go, cfgVars, machineVars, unitVars
<1>2. /\ spc' \in [Controls -> {"new", "command", "starting", "status", "done"}]
      /\ spc'[c] = "done" /\ \A d \in Controls : d # c => spc'[d] = spc[d]
  BY <1>1 DEF RunInv
<1>3. SysTypeOK'
  <2>1. \A d \in Controls : spc[d] = "starting" => spc'[d] = "starting"
    BY <1>1, <1>2
  <2>2. QED
    BY <1>1, <2>1 DEF RunInv, SysTypeOK
<1>4. UpToDate' <=> UpToDate
  BY <1>1, SameConfig DEF UpToDate
<1>5. \A d \in Controls : Renewed(d)' => Renewed(d)
  BY <1>1, <1>2 DEF Renewed
<1>6. fresh' => fresh \/ Renewed(c)
  BY <1>1, Zenon DEF AnswerControl, Renewed
<1>7. QED
  BY <1>1, <1>2, <1>3, <1>4, <1>5, <1>6 DEF RunInv

LEMMA RunControl ==
    ASSUME RunInv, NEW c \in Controls, ControlStep(c)
    PROVE  RunInv'
<1>0. SysTypeOK /\ spc \in [Controls -> {"new", "command", "starting", "status", "done"}]
  BY DEF RunInv
<1>0a. starts \in Nat /\ (active = "active" => mainPID # 0)
       /\ (mainPID # 0 => active \in {"active", "activating"})
  BY <1>0 DEF SysTypeOK
<1>1. CASE \/ StartSSHService(c) \/ StopSSHService(c) \/ RestartSSHServiceWithStatus(c)
           \/ ReloadSSHService(c) \/ EnableSSHService(c) \/ DisableSSHService(c)
  BY <1>1, RunBegin DEF StartSSHService, StopSSHService, RestartSSHServiceWithStatus,
                        ReloadSSHService, EnableSSHService, DisableSSHService
<1>2. CASE AnswerControl(c)
  BY <1>2, RunAnswer
<1>3. CASE CommandFails(c)
  <2>1. Go(c, "done") /\ spc[c] \in {"command", "starting"} /\ UNCHANGED <<cfgVars, units, starts, verb, histVars>>
    BY <1>3 DEF CommandFails
  <2>2. CASE spc[c] = "starting"
    <3>1. active' = "failed" /\ mainPID' = 0 /\ running' = NoStatus
      BY <1>3, <2>2 DEF CommandFails
    <3>2. QED
      BY <1>0a, <2>1, <3>1, RunCommand
  <2>3. CASE spc[c] = "command"
    <3>1. active' = active /\ mainPID' = mainPID /\ running' = running
      BY <1>3, <2>3 DEF CommandFails
    <3>2. \A d \in Controls : spc[d] = "starting" => spc'[d] = "starting"
      BY <1>0, <2>1, <2>3 DEF Go
    <3>3. QED
      BY <1>0, <2>1, <3>1, <3>2, RunCommand DEF SysTypeOK
  <2>4. QED
    BY <2>1, <2>2, <2>3
<1>4. CASE StartCommand(c)
  <2>1. /\ spc[c] = "command" /\ verb[c] = "start" /\ UNCHANGED <<cfgVars, units, mainPID, starts, running, verb, histVars>>
        /\ \A d \in Controls : spc[d] # "starting"
    BY <1>4 DEF StartCommand, Command
  <2>2. CASE active = "active"
    <3>1. Go(c, "status") /\ active' = active
      BY <1>4, <2>2 DEF StartCommand
    <3>2. QED
      BY <1>0, <1>0a, <2>1, <2>2, <3>1, RunCommand DEF SysTypeOK
  <2>3. CASE active # "active"
    <3>1. Go(c, "starting") /\ active' = "activating" /\ running = NoStatus /\ running' = NoStatus
      BY <1>0, <1>4, <2>1, <2>3 DEF StartCommand, SysTypeOK
    <3>2. spc'[c] = "starting"
      BY <1>0, <3>1 DEF Go
    <3>3. QED
      BY <1>0a, <2>1, <3>1, <3>2, RunCommand
  <2>4. QED
    BY <2>2, <2>3
<1>5. CASE StopCommand(c)
  <2>1. /\ spc[c] = "command" /\ UNCHANGED <<cfgVars, units, starts, verb, histVars>>
        /\ Go(c, "status") /\ active' = "inactive" /\ mainPID' = 0 /\ running' = NoStatus
    BY <1>5 DEF StopCommand, Command
  <2>2. QED
    BY <1>0a, <2>1, RunCommand
<1>6. CASE RestartCommand(c)
  <2>1. /\ spc[c] = "command" /\ UNCHANGED <<cfgVars, units, starts, verb, histVars>>
        /\ Go(c, "starting") /\ active' = "activating" /\ mainPID' = 0 /\ running' = NoStatus
    BY <1>6 DEF RestartCommand, Command
  <2>2. spc'[c] = "starting"
    BY <1>0, <2>1 DEF Go
  <2>3. QED
    BY <1>0a, <2>1, <2>2, RunCommand
<1>7. CASE Started(c)
  <2>1. /\ spc[c] = "starting" /\ mainPID # 0
        /\ UNCHANGED <<cfgVars, units, mainPID, starts, verb, histVars>>
        /\ Go(c, "status") /\ active' = "active" /\ running' = ConfigNow
    BY <1>7 DEF Started
  <2>2. QED
    BY <1>0a, <2>1, ConfigNowDiffers, RunCommand
<1>8. CASE ReloadCommand(c)
  <2>1. /\ spc[c] = "command" /\ UNCHANGED <<cfgVars, units, active, mainPID, starts, verb, histVars>>
        /\ Go(c, "status") /\ active = "active" /\ running' = ConfigNow
    BY <1>8 DEF ReloadCommand, Command
  <2>2. QED
    BY <1>0a, <2>1, ConfigNowDiffers, RunCommand
<1>9. CASE EnableCommand(c) \/ DisableCommand(c)
  <2>1. /\ spc[c] = "command" /\ verb[c] \in {"enable", "disable"}
        /\ UNCHANGED <<cfgVars, units, active, mainPID, starts, running, verb, histVars>>
        /\ Go(c, "status") /\ \A d \in Controls : spc[d] # "starting"
    BY <1>9 DEF EnableCommand, DisableCommand, Boot, Command
  <2>2. QED
    BY <1>0, <1>0a, <2>1, RunCommand DEF SysTypeOK
<1>10. CASE Forks(c)
  <2>1. /\ UNCHANGED <<conf, units, active, running, spc, verb, fresh, beside>> /\ spc[c] = "starting"
        /\ mainPID = 0 /\ mainPID' = starts + 1 /\ starts' = starts + 1
    BY <1>10 DEF Forks, cfgVars, histVars
  <2>2. active = "activating"
    BY <1>10 DEF Forks
  <2>3. SysTypeOK'
    BY <1>0, <2>1, <2>2 DEF SysTypeOK
  <2>4. UpToDate' <=> UpToDate
    BY <2>1, SameConfig DEF UpToDate
  <2>5. QED
    BY <2>1, <2>3, <2>4 DEF RunInv, Renewed
<1>11. QED
  BY <1>1, <1>2, <1>3, <1>4, <1>5, <1>6, <1>7, <1>8, <1>9, <1>10 DEF ControlStep

LEMMA RunStep ==
    ASSUME RunInv, [SysNext]_sysVars
    PROVE  RunInv'
<1>1. CASE CfgNext /\ EditSeen
  <2>1. /\ UNCHANGED <<units, active, mainPID, starts, running, spc, verb>>
        /\ beside' = IF conf' = conf THEN beside ELSE beside \union Controlling
    BY <1>1 DEF EditSeen, machineVars, unitVars
  <2>2. SysTypeOK'
    BY <2>1 DEF RunInv, SysTypeOK
  <2>3. CASE conf' = conf
    <3>1. UpToDate' <=> UpToDate
      BY <2>1, <2>3, SameConfig DEF UpToDate
    <3>2. fresh' => fresh
      BY <1>1, Zenon DEF EditSeen
    <3>3. \A c \in Controls : Renewed(c)' => Renewed(c)
      BY <2>1, <2>3 DEF Renewed
    <3>4. QED
      BY <2>1, <2>2, <3>1, <3>2, <3>3 DEF RunInv
  <2>4. CASE conf' # conf
    <3>1. ~fresh'
      BY <1>1, <2>4, Zenon DEF EditSeen
    <3>2. \A c \in Controls : ~Renewed(c)'
      BY <2>1, <2>4 DEF Renewed, Controlling
    <3>3. QED
      BY <2>1, <2>2, <3>1, <3>2 DEF RunInv
  <2>5. QED
    BY <2>3, <2>4
<1>2. ASSUME NEW c \in Controls, ControlStep(c) PROVE RunInv'
  BY <1>2, RunControl
<1>3. CASE SshdDies
  <2>1. /\ UNCHANGED <<conf, units, starts, spc, verb, fresh, beside>>
        /\ active = "active" /\ active' = "failed" /\ mainPID' = 0 /\ running' = NoStatus
    BY <1>3 DEF SshdDies, cfgVars, controlVars, histVars
  <2>2. SysTypeOK' /\ UpToDate'
    BY <2>1 DEF RunInv, SysTypeOK, UpToDate
  <2>3. QED
    BY <2>1, <2>2 DEF RunInv
<1>4. CASE \/ CommandsChange \/ ConfigsChange \/ FirewallChanges \/ PollStep \/ UNCHANGED sysVars
  <2>1. UNCHANGED <<conf, units, active, mainPID, starts, running, spc, verb, fresh, beside>>
    BY <1>4 DEF CommandsChange, ConfigsChange, FirewallChanges, PollStep, Poll, ReadClient, ReadServer, ReadNetwork,
                ReadFirewall, Compare, cfgVars, machineVars, unitVars, aroundVars, controlVars, histVars,
                sysVars
  <2>2. UpToDate' <=> UpToDate
    BY <2>1, SameConfig DEF UpToDate
  <2>3. \A c \in Controls : Renewed(c)' => Renewed(c)
    BY <2>1 DEF Renewed
  <2>4. QED
    BY <2>1, <2>2, <2>3 DEF RunInv, SysTypeOK
<1>5. QED
  BY <1>1, <1>2, <1>3, <1>4 DEF SysNext

LEMMA SysInvInit ==
    ASSUME SysInit
    PROVE  CfgInv /\ RunInv
<1>1. CfgInv
  BY CfgInvInit DEF SysInit
<1>2. SysTypeOK
  BY ConfigNowDiffers, MachineAssumption DEF SysInit, SysTypeOK
<1>3. QED
  BY <1>1, <1>2 DEF SysInit, RunInv, Renewed

LEMMA SysInvStep ==
    ASSUME CfgInv, RunInv, [SysNext]_sysVars
    PROVE  CfgInv' /\ RunInv'
<1>1. [CfgNext]_cfgVars
  BY DEF SysNext, sysVars, ControlStep, StartSSHService, StopSSHService, RestartSSHServiceWithStatus,
         ReloadSSHService, EnableSSHService, DisableSSHService, Begin, CommandFails, StartCommand,
         StopCommand, RestartCommand, Started, ReloadCommand, EnableCommand, DisableCommand, Boot,
         AnswerControl, Forks, SshdDies, CommandsChange, ConfigsChange, FirewallChanges, PollStep, Poll, ReadClient,
         ReadServer, ReadNetwork, ReadFirewall, Compare
<1>2. QED
  BY <1>1, CfgInvStep, RunStep
--------------------------------------------------------------------------------
(* The polls of the status. *)

\* The parts of the machine that a status is made of.
MachineData ==
    /\ units \subseteq {"ssh.service", "sshd.service"}
    /\ firewall \in FirewallState

\* What a poll has read so far is as it is now.
ReadSoFar ==
    /\ wpc \in {"server", "network", "firewall", "compare"} => snap.client = GetSSHClientStatus
    /\ wpc \in {"network", "firewall", "compare"} => snap.server = GetSSHServerStatus
    /\ wpc \in {"firewall", "compare"} => snap.port = GetSSHPort
    /\ wpc = "compare" => snap.firewall = GetFirewallStatus

SnapInv == MachineData /\ (torn \/ ReadSoFar)

LEMMA SnapInit ==
    ASSUME SysInit
    PROVE  SnapInv
<1>1. MachineData
  BY MachineAssumption DEF SysInit, MachineData
<1>2. ReadSoFar
  BY DEF SysInit, ReadSoFar
<1>3. QED
  BY <1>1, <1>2 DEF SnapInv

\* A change of the machine spoils the poll that is under way, if there is one.
LEMMA Disturbed ==
    ASSUME Disturbs, wpc' = wpc, MachineData'
    PROVE  SnapInv'
<1>1. CASE wpc \in {"off", "waiting"}
  <2>1. ReadSoFar'
    BY <1>1 DEF ReadSoFar
  <2>2. QED
    BY <2>1 DEF SnapInv
<1>2. CASE wpc \notin {"off", "waiting"}
  <2>1. torn'
    BY <1>2, Zenon DEF Disturbs
  <2>2. QED
    BY <2>1 DEF SnapInv
<1>3. QED
  BY <1>1, <1>2

LEMMA SameMachine ==
    ASSUME UNCHANGED <<conf, machineVars>>
    PROVE  /\ GetSSHServerStatus' = GetSSHServerStatus /\ GetSSHPort' = GetSSHPort
           /\ GetFirewallStatus' = GetFirewallStatus /\ GetSSHClientStatus' = GetSSHClientStatus
           /\ MachineData => MachineData'
<1>1. UNCHANGED <<conf, units, active, enabled, mainPID, inPath, paths, firewall, dropIn>>
  BY DEF machineVars, unitVars, aroundVars
<1>1a. ASSUME NEW p PROVE PathInfo(p)' = PathInfo(p)
  BY <1>1 DEF PathInfo
<1>2. GetSSHServerStatus' = GetSSHServerStatus
  <2>1. GetServiceStatus' = GetServiceStatus
    BY <1>1, Zenon DEF GetServiceStatus, SubState
  <2>2. FindSSHServiceName' = FindSSHServiceName
    BY <1>1, Zenon DEF FindSSHServiceName
  <2>3. QED
    BY <1>1, <1>1a, <2>1, <2>2 DEF GetSSHServerStatus, GetSSHServiceStatus
<1>3. GetSSHPort' = GetSSHPort
  BY <1>1 DEF GetSSHPort, SelectInSeq
<1>4. GetFirewallStatus' = GetFirewallStatus
  BY <1>1 DEF GetFirewallStatus, CheckUFW, CheckFirewalld
<1>4a. GetSSHClientStatus' = GetSSHClientStatus
  BY <1>1, <1>1a DEF GetSSHClientStatus
<1>5. QED
  BY <1>1, <1>2, <1>3, <1>4, <1>4a DEF MachineData

LEMMA SnapPoll ==
    ASSUME SnapInv, PollStep
    PROVE  SnapInv'
<1>1. UNCHANGED <<conf, machineVars>>
  BY DEF PollStep, Poll, ReadClient, ReadServer, ReadNetwork, ReadFirewall, Compare, cfgVars
<1>2. /\ GetSSHServerStatus' = GetSSHServerStatus /\ GetSSHPort' = GetSSHPort
      /\ GetFirewallStatus' = GetFirewallStatus /\ GetSSHClientStatus' = GetSSHClientStatus /\ MachineData'
  BY <1>1, SameMachine DEF SnapInv
<1>3. CASE Poll
  BY <1>2, <1>3 DEF Poll, SnapInv, ReadSoFar
<1>4. CASE Compare
  BY <1>2, <1>4 DEF Compare, SnapInv, ReadSoFar
<1>5. CASE ReadClient \/ ReadServer \/ ReadNetwork \/ ReadFirewall
  <2>1. torn' = torn
    BY <1>5 DEF ReadClient, ReadServer, ReadNetwork, ReadFirewall
  <2>2. ASSUME ReadSoFar PROVE ReadSoFar'
    <3>1. CASE ReadClient
      BY <1>2, <2>2, <3>1 DEF ReadClient, ReadSoFar
    <3>2. CASE ReadServer
      <4>1. /\ wpc = "server" /\ wpc' = "network"
            /\ snap' = [k |-> "status", client |-> snap.client, server |-> GetSSHServerStatus]
        BY <3>2 DEF ReadServer
      <4>2. snap'.client = snap.client /\ snap'.server = GetSSHServerStatus
        BY <4>1
      <4>3. QED
        BY <1>2, <2>2, <4>1, <4>2 DEF ReadSoFar
    <3>3. CASE ReadNetwork
      <4>1. /\ wpc = "network" /\ wpc' = "firewall"
            /\ snap'.client = snap.client /\ snap'.server = snap.server /\ snap'.port = GetSSHPort
        BY <3>3 DEF ReadNetwork
      <4>2. QED
        BY <1>2, <2>2, <4>1 DEF ReadSoFar
    <3>4. CASE ReadFirewall
      <4>1. /\ wpc = "firewall" /\ wpc' = "compare"
            /\ snap'.client = snap.client /\ snap'.server = snap.server /\ snap'.port = snap.port
            /\ snap'.firewall = GetFirewallStatus
        BY <3>4 DEF ReadFirewall
      <4>2. QED
        BY <1>2, <2>2, <4>1 DEF ReadSoFar
    <3>5. QED
      BY <1>5, <3>1, <3>2, <3>3, <3>4
  <2>3. QED
    BY <1>2, <2>1, <2>2, Zenon DEF SnapInv
<1>6. QED
  BY <1>3, <1>4, <1>5 DEF PollStep

LEMMA SnapControl ==
    ASSUME RunInv, SnapInv, NEW c \in Controls, ControlStep(c)
    PROVE  SnapInv'
<1>0. MachineData
  BY DEF SnapInv
<1>1. CASE \/ StartSSHService(c) \/ StopSSHService(c) \/ RestartSSHServiceWithStatus(c)
           \/ ReloadSSHService(c) \/ EnableSSHService(c) \/ DisableSSHService(c) \/ AnswerControl(c)
  <2>1. UNCHANGED <<conf, machineVars, wpc, snap, torn>>
    BY <1>1 DEF StartSSHService, StopSSHService, RestartSSHServiceWithStatus, ReloadSSHService,
                EnableSSHService, DisableSSHService, AnswerControl, Begin, cfgVars, pollVars
  <2>2. /\ GetSSHServerStatus' = GetSSHServerStatus /\ GetSSHPort' = GetSSHPort
        /\ GetFirewallStatus' = GetFirewallStatus /\ GetSSHClientStatus' = GetSSHClientStatus /\ MachineData'
    BY <1>0, <2>1, SameMachine
  <2>3. ReadSoFar => ReadSoFar'
    BY <2>1, <2>2 DEF ReadSoFar
  <2>4. QED
    BY <2>1, <2>2, <2>3, Zenon DEF SnapInv
<1>2. CASE \/ CommandFails(c) \/ StartCommand(c) \/ StopCommand(c) \/ RestartCommand(c)
           \/ Forks(c) \/ Started(c)
           \/ ReloadCommand(c) \/ EnableCommand(c) \/ DisableCommand(c)
  <2>1. Disturbs /\ UNCHANGED <<wpc, units, firewall>>
    BY <1>2 DEF CommandFails, StartCommand, StopCommand, RestartCommand, Forks, Started,
                ReloadCommand, EnableCommand, DisableCommand, Boot, Command, pollVars, aroundVars
  <2>2. MachineData'
    BY <1>0, <2>1 DEF MachineData
  <2>3. QED
    BY <2>1, <2>2, Disturbed
<1>3. QED
  BY <1>1, <1>2 DEF ControlStep

LEMMA SnapStep ==
    ASSUME RunInv, SnapInv, [SysNext]_sysVars
    PROVE  SnapInv'
<1>0. MachineData
  BY DEF SnapInv
<1>1. CASE (CfgNext /\ EditSeen) \/ SshdDies \/ CommandsChange \/ ConfigsChange \/ FirewallChanges
  <2>1. Disturbs /\ UNCHANGED <<wpc, units>>
    BY <1>1 DEF EditSeen, SshdDies, CommandsChange, ConfigsChange, FirewallChanges, Outside, pollVars, machineVars, unitVars
  <2>2. firewall' \in FirewallState
    BY <1>0, <1>1, MachineAssumption
       DEF MachineData, EditSeen, SshdDies, CommandsChange, ConfigsChange, FirewallChanges,
           machineVars, aroundVars
  <2>3. MachineData'
    BY <1>0, <2>1, <2>2 DEF MachineData
  <2>4. QED
    BY <2>1, <2>3, Disturbed
<1>2. ASSUME NEW c \in Controls, ControlStep(c) PROVE SnapInv'
  BY <1>2, SnapControl
<1>3. CASE PollStep
  BY <1>3, SnapPoll
<1>4. CASE UNCHANGED sysVars
  <2>1. UNCHANGED <<conf, machineVars, wpc, snap, torn>>
    BY <1>4 DEF sysVars, cfgVars, pollVars
  <2>2. /\ GetSSHServerStatus' = GetSSHServerStatus /\ GetSSHPort' = GetSSHPort
        /\ GetFirewallStatus' = GetFirewallStatus /\ GetSSHClientStatus' = GetSSHClientStatus /\ MachineData'
    BY <1>0, <2>1, SameMachine
  <2>3. ReadSoFar => ReadSoFar'
    BY <2>1, <2>2 DEF ReadSoFar
  <2>4. QED
    BY <2>1, <2>2, <2>3, Zenon DEF SnapInv
<1>5. QED
  BY <1>1, <1>2, <1>3, <1>4 DEF SysNext

\* The message of the service's status.
LEMMA ServiceTold ==
    ASSUME MachineData, SysTypeOK
    PROVE  LET told == ToProtoServiceStatus(GetSSHServiceStatus) IN
           /\ told.state = "RUNNING" <=> active = "active"
           /\ told.pid = mainPID
           /\ told.state = "NOT_FOUND" <=> units = {}
<1> DEFINE s == GetSSHServiceStatus
           told == ToProtoServiceStatus(s)
<1>1. told.state = (CASE s.state = "running" -> "RUNNING" [] s.state = "stopped" -> "STOPPED"
                      [] s.state = "failed" -> "FAILED" [] s.state = "not found" -> "NOT_FOUND"
                      [] s.state = "unknown" -> "UNKNOWN") /\ told.pid = s.pid
  BY DEF ToProtoServiceStatus
<1>2. CASE units = {}
  <2>1. active = "inactive" /\ mainPID = 0 /\ FindSSHServiceName = ""
    BY <1>2 DEF SysTypeOK, FindSSHServiceName
  <2>2. s.state = "not found" /\ s.pid = 0
    BY <2>1 DEF GetSSHServiceStatus
  <2> HIDE DEF s, told
  <2>3. told.state = "NOT_FOUND" /\ told.pid = 0
    BY <1>1, <2>2
  <2>4. QED
    BY <1>2, <2>1, <2>3 DEF s, told
<1>3. CASE units # {}
  <2>1. FindSSHServiceName # ""
    BY <1>3 DEF MachineData, FindSSHServiceName
  <2>2. s = GetServiceStatus
    BY <2>1 DEF GetSSHServiceStatus
  <2>3. /\ s.pid = mainPID
        /\ s.state = (CASE active = "active" -> "running" [] active = "inactive" -> "stopped"
                        [] active = "failed" -> "failed" [] OTHER -> "unknown")
    BY <2>2 DEF GetServiceStatus
  <2> HIDE DEF s, told
  <2>4. told.pid = mainPID
    BY <1>1, <2>3
  <2>5. CASE active = "active"
    <3>1. s.state = "running"
      BY <2>3, <2>5
    <3>2. told.state = "RUNNING"
      BY <1>1, <3>1
    <3>3. QED
      BY <1>1, <1>3, <2>4, <2>5, <3>2 DEF s, told
  <2>6. CASE active # "active"
    <3>1. s.state \in {"stopped", "failed", "unknown"}
      BY <2>3, <2>6
    <3>2. told.state \in {"STOPPED", "FAILED", "UNKNOWN"}
      BY <1>1, <3>1
    <3>3. QED
      BY <1>1, <1>3, <2>4, <2>6, <3>2 DEF s, told
  <2>7. QED
    BY <2>5, <2>6
<1>4. QED
  BY <1>2, <1>3

\* The message of the firewall.
LEMMA FirewallTold ==
    ASSUME MachineData,
           firewall.ufw = "absent" \/ (firewall.firewalld = "absent" /\ firewall.ufw # "unknown")
    PROVE  GetFirewallStatus.allowed <=> Admits
<1>1. /\ firewall.ufw \in {"absent", "active", "inactive", "unknown"}
      /\ firewall.firewalld \in {"absent", "running", "stopped"}
  BY DEF MachineData, FirewallState
<1>2. CheckUFW.allowed <=> firewall.ufw = "inactive" \/ (firewall.ufw = "active" /\ 22 \in firewall.open)
  BY Zenon DEF CheckUFW
<1>3. CheckFirewalld.allowed <=> firewall.firewalld = "stopped" \/ 22 \in firewall.open
  BY Zenon DEF CheckFirewalld
<1>4. CASE firewall.ufw # "absent"
  <2>1. GetFirewallStatus = CheckUFW
    BY <1>4 DEF GetFirewallStatus
  <2>2. GetFirewallStatus.allowed <=> CheckUFW.allowed
    BY <2>1
  <2>3. QED
    BY <1>1, <1>2, <1>4, <2>2 DEF Admits
<1>5. CASE firewall.ufw = "absent" /\ firewall.firewalld # "absent"
  <2>1. GetFirewallStatus = CheckFirewalld
    BY <1>5 DEF GetFirewallStatus
  <2>2. GetFirewallStatus.allowed <=> CheckFirewalld.allowed
    BY <2>1
  <2>3. QED
    BY <1>1, <1>3, <1>5, <2>2 DEF Admits
<1>6. CASE firewall.ufw = "absent" /\ firewall.firewalld = "absent"
  <2>1. GetFirewallStatus = [manager |-> "none", active |-> FALSE, allowed |-> TRUE]
    BY <1>6 DEF GetFirewallStatus
  <2>2. GetFirewallStatus.allowed
    BY <2>1
  <2>3. QED
    BY <1>6, <2>2 DEF Admits
<1>7. QED
  BY <1>4, <1>5, <1>6

\* The message of a config.
LEMMA PathTold ==
    ASSUME NEW p
    PROVE  SaysOf(PathInfo(p), p)
<1>1. /\ PathInfo(p).exists <=> paths[p] # {}
      /\ PathInfo(p).readable <=> "read" \in paths[p]
      /\ PathInfo(p).writable <=> "write" \in paths[p]
  BY Zenon DEF PathInfo
<1>2. QED
  BY <1>1 DEF SaysOf

LEMMA SnapshotIsTrue ==
    ASSUME RunInv, SnapInv
    PROVE  SnapshotTrue
<1> SUFFICES ASSUME wpc = "compare", ~torn PROVE SnapshotTrue
  BY DEF SnapshotTrue
<1> DEFINE message == ToProtoSSHStatus(snap)
<1>1. /\ snap.client = GetSSHClientStatus /\ snap.server = GetSSHServerStatus
      /\ snap.port = GetSSHPort /\ snap.firewall = GetFirewallStatus
  BY DEF SnapInv, ReadSoFar
<1>2. MachineData /\ SysTypeOK
  BY DEF SnapInv, RunInv
<1>3. /\ message.client.installed <=> "ssh" \in inPath
      /\ SaysOf(message.client.systemConfig, "system") /\ SaysOf(message.client.userConfig, "user")
  <2>1. message.client = ToProtoSSHClientStatus(GetSSHClientStatus)
    BY <1>1 DEF ToProtoSSHStatus
  <2>2. /\ message.client.installed = GetSSHClientStatus.installed
        /\ message.client.systemConfig = GetSSHClientStatus.systemConfig
        /\ message.client.userConfig = GetSSHClientStatus.userConfig
    BY <2>1 DEF ToProtoSSHClientStatus
  <2>3. /\ GetSSHClientStatus.installed <=> "ssh" \in inPath
        /\ GetSSHClientStatus.systemConfig = PathInfo("system")
        /\ GetSSHClientStatus.userConfig = PathInfo("user")
    BY Zenon DEF GetSSHClientStatus
  <2>4. QED
    BY <2>2, <2>3, PathTold
<1>4. message.server = ToProtoSSHServerStatus(GetSSHServerStatus)
  BY <1>1 DEF ToProtoSSHStatus
<1>5. message.server.service = ToProtoServiceStatus(GetSSHServiceStatus)
  BY <1>4 DEF ToProtoSSHServerStatus, GetSSHServerStatus
<1>6. /\ message.server.installed <=> "sshd" \in inPath
      /\ SaysOf(message.server.config, "server")
  <2>1. /\ message.server.installed = GetSSHServerStatus.installed
        /\ message.server.config = GetSSHServerStatus.config
    BY <1>4 DEF ToProtoSSHServerStatus
  <2>2. /\ GetSSHServerStatus.installed <=> "sshd" \in inPath
        /\ GetSSHServerStatus.config = PathInfo("server")
    BY Zenon DEF GetSSHServerStatus
  <2>3. QED
    BY <2>1, <2>2, PathTold
<1>7. message.network.sshPort = GetSSHPort
  BY <1>1 DEF ToProtoSSHStatus, ToProtoNetworkInfo
<1>8. "read" \in paths["server"] /\ Effective(conf, "Port") # NoValue => GetSSHPort = Effective(conf, "Port")
  BY DEF GetSSHPort, Effective, SelectInSeq
<1>9. message.firewall = ToProtoFirewallStatus(GetFirewallStatus)
  BY <1>1 DEF ToProtoSSHStatus
<1>10. message.firewall.sshAllowed = GetFirewallStatus.allowed
  BY <1>9 DEF ToProtoFirewallStatus
<1>11. (firewall.ufw = "absent" \/ (firewall.firewalld = "absent" /\ firewall.ufw # "unknown"))
          => (message.firewall.sshAllowed = Admits)
  <2> SUFFICES ASSUME firewall.ufw = "absent" \/ (firewall.firewalld = "absent" /\ firewall.ufw # "unknown")
               PROVE  message.firewall.sshAllowed = Admits
    OBVIOUS
  <2>1. GetFirewallStatus.allowed <=> Admits
    BY <1>2, FirewallTold
  <2>2. GetFirewallStatus.allowed \in BOOLEAN /\ Admits \in BOOLEAN
    BY Zenon DEF GetFirewallStatus, CheckUFW, CheckFirewalld, Admits
  <2>3. QED
    BY <1>10, <2>1, <2>2, Zenon
<1>12. /\ message.server.service.state = "RUNNING" <=> active = "active"
       /\ message.server.service.state = "NOT_FOUND" <=> units = {}
       /\ message.server.service.pid = mainPID
       /\ message.server.service.state = "RUNNING" => message.server.service.pid # 0
  BY <1>2, <1>5, ServiceTold DEF SysTypeOK
<1>13. QED
  BY <1>3, <1>6, <1>7, <1>8, <1>11, <1>12 DEF SnapshotTrue
--------------------------------------------------------------------------------
(* Discover, and the instructions. *)

\* What Discover has found so far is as it is now.
FoundSoFar ==
    /\ stage \in {"server", "installed", "answered"} => found.client = DiscoverClientSystemConfig
    /\ stage \in {"installed", "answered"} => found.server = DiscoverServerConfig
    /\ stage = "answered" => (found.sshInstalled <=> "ssh" \in Bin) /\ (found.sshdInstalled <=> "sshd" \in Bin)

\* The instructions that were given are those for this distribution.
AdviceGiven == advice = NoAdvice \/ \E c \in {"client", "server"} : advice = GetInstallInstructions(c)

DiscInv ==
    /\ DiscTypeOK /\ distro \in Distros
    /\ moved \/ FoundSoFar
    /\ AdviceGiven /\ AdviceWorks

LEMMA SameSite ==
    ASSUME UNCHANGED siteVars
    PROVE  /\ DiscoverClientSystemConfig' = DiscoverClientSystemConfig
           /\ DiscoverServerConfig' = DiscoverServerConfig /\ Bin' = Bin
           /\ \A c : GetInstallInstructions(c)' = GetInstallInstructions(c)
<1>1. UNCHANGED <<distro, installed, access, dirs, sane>>
  BY DEF siteVars
<1>2. Bin' = Bin
  BY <1>1 DEF Bin
<1>3. \A p : There(p)' <=> There(p)
  BY <1>1 DEF There
<1>4. \A p, m : CheckPath(p, m)' = CheckPath(p, m)
  BY <1>1, Zenon DEF CheckPath, There
<1>5. \A list : CommonPath(list)' = CommonPath(list)
  <2>1. {q \in ConfigPaths : There(q)}' = {q \in ConfigPaths : There(q)}
    BY <1>1 DEF There
  <2>2. QED
    BY <1>4, <2>1, Zenon DEF CommonPath
<1>6. \A m, package : Listing(m, package)' = Listing(m, package)
  BY <1>1, Zenon DEF Listing
<1>7. GetClientConfigFromPackageManager' = GetClientConfigFromPackageManager
  BY <1>1, Zenon DEF GetClientConfigFromPackageManager, Listing
<1>8. GetServerConfigFromPackageManager' = GetServerConfigFromPackageManager
  BY <1>1, Zenon DEF GetServerConfigFromPackageManager, Listing
<1>9. DiscoverClientSystemConfig' = DiscoverClientSystemConfig
  BY <1>1, <1>2, <1>4, <1>5, <1>7 DEF DiscoverClientSystemConfig, GetClientConfigFromCommand
<1>10. DiscoverServerConfig' = DiscoverServerConfig
  BY <1>1, <1>2, <1>3, <1>4, <1>5, <1>8 DEF DiscoverServerConfig, GetServerConfigFromCommand
<1>11. QED
  BY <1>1, <1>2, <1>9, <1>10 DEF GetInstallInstructions, GetDistributionInfo

\* Steps that leave the machine and the instructions alone.
LEMMA DiscoverKeeps ==
    ASSUME DiscInv, DiscoverStep
    PROVE  DiscInv'
<1>0. DiscTypeOK /\ distro \in Distros /\ AdviceGiven /\ AdviceWorks
  BY DEF DiscInv
<1>1. UNCHANGED <<siteVars, advice, followed>>
  BY DEF DiscoverStep, DiscoverDistribution, DiscoverUser, DiscoverClient, DiscoverServer,
         DiscoverInstalled, adviceVars
<1>2. /\ DiscoverClientSystemConfig' = DiscoverClientSystemConfig
      /\ DiscoverServerConfig' = DiscoverServerConfig /\ Bin' = Bin
      /\ \A c : GetInstallInstructions(c)' = GetInstallInstructions(c)
  BY <1>1, SameSite
<1>3. stage' \in {"user", "client", "server", "installed", "answered"}
  BY DEF DiscoverStep, DiscoverDistribution, DiscoverUser, DiscoverClient, DiscoverServer,
         DiscoverInstalled
<1>4. DiscTypeOK' /\ distro' \in Distros
  BY <1>0, <1>1, <1>3 DEF DiscTypeOK, siteVars
<1>5. AdviceGiven'
  BY <1>0, <1>1, <1>2 DEF AdviceGiven
<1>6. AdviceWorks'
  BY <1>0, <1>1 DEF AdviceWorks, siteVars
<1>7. moved' \/ FoundSoFar'
  <2>1. CASE DiscoverDistribution \/ DiscoverUser
    BY <2>1 DEF DiscoverDistribution, DiscoverUser, FoundSoFar
  <2>2. CASE DiscoverClient \/ DiscoverServer \/ DiscoverInstalled
    <3>1. moved' = moved
      BY <2>2 DEF DiscoverClient, DiscoverServer, DiscoverInstalled
    <3>2. ASSUME FoundSoFar PROVE FoundSoFar'
      <4>1. CASE DiscoverClient
        BY <1>2, <4>1 DEF DiscoverClient, FoundSoFar
      <4>2. CASE DiscoverServer
        <5>1. /\ stage = "server" /\ stage' = "installed"
              /\ found'.client = found.client /\ found'.server = DiscoverServerConfig
          BY <4>2 DEF DiscoverServer
        <5>2. QED
          BY <1>2, <3>2, <5>1 DEF FoundSoFar
      <4>3. CASE DiscoverInstalled
        <5>1. /\ stage = "installed" /\ stage' = "answered"
              /\ found'.client = found.client /\ found'.server = found.server
          BY <4>3 DEF DiscoverInstalled
        <5>2. (found'.sshInstalled <=> "ssh" \in Bin) /\ (found'.sshdInstalled <=> "sshd" \in Bin)
          BY <4>3, Zenon DEF DiscoverInstalled
        <5>3. QED
          BY <1>2, <3>2, <5>1, <5>2 DEF FoundSoFar
      <4>4. QED
        BY <2>2, <4>1, <4>2, <4>3
    <3>3. QED
      BY <3>1, <3>2, Zenon DEF DiscInv
  <2>3. QED
    BY <2>1, <2>2 DEF DiscoverStep
<1>8. QED
  BY <1>4, <1>5, <1>6, <1>7 DEF DiscInv

LEMMA AskKeeps ==
    ASSUME DiscInv, NEW c \in {"client", "server"}, Ask(c)
    PROVE  DiscInv'
<1>1. UNCHANGED <<siteVars, stage, moved, found, followed>> /\ advice' = GetInstallInstructions(c)
  BY DEF Ask
<1>2. /\ DiscoverClientSystemConfig' = DiscoverClientSystemConfig
      /\ DiscoverServerConfig' = DiscoverServerConfig /\ Bin' = Bin
      /\ \A e : GetInstallInstructions(e)' = GetInstallInstructions(e)
  BY <1>1, SameSite
<1>3. DiscTypeOK' /\ distro' \in Distros
  BY <1>1 DEF DiscInv, DiscTypeOK, siteVars
<1>4. AdviceGiven' /\ AdviceWorks'
  BY <1>1, <1>2 DEF DiscInv, AdviceGiven, AdviceWorks, siteVars
<1>5. FoundSoFar => FoundSoFar'
  BY <1>1, <1>2 DEF FoundSoFar
<1>6. QED
  BY <1>1, <1>3, <1>4, <1>5, Zenon DEF DiscInv

\* What the user or the administrator changes, Discover is told by moved.
LEMMA MoveKeeps ==
    ASSUME DiscInv, distro' = distro, stage' = stage, Move,
           installed' \subseteq DOMAIN distro.offers,
           access' \in [ConfigPaths -> SUBSET {"there", "read", "write"}],
           advice' \in {advice, NoAdvice}, AdviceWorks'
    PROVE  DiscInv'
<1>1. DiscTypeOK' /\ distro' \in Distros /\ moved'
  BY DEF DiscInv, DiscTypeOK, Move
<1>2. AdviceGiven'
  BY DEF DiscInv, AdviceGiven, GetInstallInstructions, GetDistributionInfo
<1>3. QED
  BY <1>1, <1>2 DEF DiscInv

LEMMA FollowKeeps ==
    ASSUME DiscInv, Follow
    PROVE  DiscInv'
<1> DEFINE pkg == advice.steps.package
           ok == advice.steps.manager = distro.manager /\ pkg \in DOMAIN distro.offers
<1>0. /\ DiscTypeOK /\ AdviceGiven /\ AdviceWorks /\ distro \in Distros
      /\ distro' = distro /\ stage' = stage /\ Move /\ advice' = NoAdvice
      /\ advice # NoAdvice /\ advice.steps.manager # ""
      /\ installed' = IF ok THEN installed \union {pkg} ELSE installed
      /\ followed' = followed \union {advice.component}
      /\ access' = IF ok THEN [p \in ConfigPaths |-> IF Brings(p, pkg) /\ ~There(p) THEN {"there", "read"}
                                                       ELSE access[p]]
                   ELSE access
  BY DEF DiscInv, Follow
<1>1. PICK c \in {"client", "server"} : advice = GetInstallInstructions(c)
  BY <1>0 DEF AdviceGiven
<1>2. /\ advice.component = c
      /\ advice.steps = IF c = "server" THEN GetServerInstallInstructions(GetDistributionInfo)
                                        ELSE GetClientInstallInstructions(GetDistributionInfo)
  BY <1>1 DEF GetInstallInstructions
<1>3. GetDistributionInfo = distro.id
  <2>1. CASE distro.id # ""
    BY <2>1 DEF GetDistributionInfo
  <2>2. CASE distro.id = ""
    <3>1. GetDistributionInfo = "unknown"
      BY <2>2 DEF GetDistributionInfo
    <3>2. Manager("unknown") = ""
      BY DEF Manager, Apt, Dnf, Pacman, Zypper
    <3>3. /\ GetServerInstallInstructions("unknown").manager = ""
          /\ GetClientInstallInstructions("unknown").manager = ""
      BY <3>2 DEF GetServerInstallInstructions, GetClientInstallInstructions
    <3>4. QED
      BY <1>0, <1>2, <3>1, <3>3
  <2>3. QED
    BY <2>1, <2>2
<1>4. ok /\ c \in distro.offers[pkg].components
  <2>1. CASE c = "server"
    BY <1>0, <1>2, <1>3, <2>1, DistroAssumption DEF Offers
  <2>2. CASE c = "client"
    BY <1>0, <1>2, <1>3, <2>2, DistroAssumption DEF Offers
  <2>3. QED
    BY <2>1, <2>2
<1> HIDE DEF pkg, ok
<1>5. installed' = installed \union {pkg} /\ pkg \in DOMAIN distro.offers
  BY <1>0, <1>4 DEF ok
<1>6. AdviceWorks'
  <2> SUFFICES ASSUME NEW e \in followed' PROVE \E k \in installed' : e \in distro'.offers[k].components
    BY DEF AdviceWorks
  <2>1. CASE e \in followed
    BY <1>0, <1>5, <2>1 DEF AdviceWorks
  <2>2. CASE e = advice.component
    BY <1>0, <1>2, <1>4, <1>5, <2>2
  <2>3. QED
    BY <1>0, <2>1, <2>2
<1>7. access' \in [ConfigPaths -> SUBSET {"there", "read", "write"}]
  BY <1>0 DEF DiscTypeOK
<1>8. installed' \subseteq DOMAIN distro.offers
  BY <1>0, <1>5 DEF DiscTypeOK
<1>9. QED
  BY <1>0, <1>6, <1>7, <1>8, MoveKeeps

LEMMA UninstallKeeps ==
    ASSUME DiscInv, NEW k \in installed, Uninstall(k)
    PROVE  DiscInv'
<1>0. /\ DiscTypeOK /\ AdviceWorks
      /\ distro' = distro /\ stage' = stage /\ Move /\ advice' = advice
      /\ installed' = installed \ {k}
      /\ followed' = followed \ distro.offers[k].components
  BY DEF DiscInv, Uninstall
<1>1. access' \in [ConfigPaths -> SUBSET {"there", "read", "write"}]
  BY <1>0 DEF Uninstall, DiscTypeOK
<1>2. AdviceWorks'
  BY <1>0 DEF AdviceWorks
<1>3. QED
  BY <1>0, <1>1, <1>2, MoveKeeps DEF DiscTypeOK

LEMMA PlaceKeeps ==
    ASSUME DiscInv, NEW p, NEW r \in {{}, {"there", "write"}}, Place(p, r)
    PROVE  DiscInv'
<1>0. /\ DiscTypeOK /\ AdviceWorks
      /\ distro' = distro /\ stage' = stage /\ Move /\ advice' = advice /\ followed' = followed
      /\ installed' = installed /\ access' = [access EXCEPT ![p] = r]
  BY DEF DiscInv, Place, adviceVars
<1>1. access' \in [ConfigPaths -> SUBSET {"there", "read", "write"}]
  BY <1>0 DEF DiscTypeOK
<1>2. AdviceWorks'
  BY <1>0 DEF AdviceWorks
<1>3. QED
  BY <1>0, <1>1, <1>2, MoveKeeps DEF DiscTypeOK

LEMMA DiscInvStep ==
    ASSUME DiscInv, [DiscNext]_discVars
    PROVE  DiscInv'
<1>1. CASE UNCHANGED discVars
  <2>1. UNCHANGED <<siteVars, stage, found, moved, advice, followed>>
    BY <1>1 DEF discVars, adviceVars
  <2>2. /\ DiscoverClientSystemConfig' = DiscoverClientSystemConfig
        /\ DiscoverServerConfig' = DiscoverServerConfig /\ Bin' = Bin
        /\ \A e : GetInstallInstructions(e)' = GetInstallInstructions(e)
    BY <2>1, SameSite
  <2>3. DiscTypeOK' /\ distro' \in Distros /\ AdviceGiven' /\ AdviceWorks'
    BY <2>1, <2>2 DEF DiscInv, DiscTypeOK, AdviceGiven, AdviceWorks, siteVars
  <2>4. FoundSoFar => FoundSoFar'
    BY <2>1, <2>2 DEF FoundSoFar
  <2>5. QED
    BY <2>1, <2>3, <2>4, Zenon DEF DiscInv
<1>2. CASE DiscNext
  BY <1>2, DiscoverKeeps, AskKeeps, FollowKeeps, UninstallKeeps, PlaceKeeps DEF DiscNext
<1>3. QED
  BY <1>1, <1>2

LEMMA DiscInvInit ==
    ASSUME DiscInit
    PROVE  DiscInv
<1>1. DiscTypeOK /\ distro \in Distros
  BY DEF DiscInit, DiscTypeOK
<1>2. FoundSoFar
  BY DEF DiscInit, FoundSoFar
<1>3. AdviceGiven /\ AdviceWorks
  BY DEF DiscInit, AdviceGiven, AdviceWorks
<1>4. QED
  BY <1>1, <1>2, <1>3 DEF DiscInv

\* The first path of a list that has a property, if there is one.
LEMMA FirstOfFacts ==
    ASSUME NEW S, NEW list \in Seq(S), NEW names
    PROVE  \/ FirstOf(list, names) = "" /\ \A j \in 1..Len(list) : list[j] \notin names
           \/ \E j \in 1..Len(list) : FirstOf(list, names) = list[j] /\ list[j] \in names
<1> DEFINE hits == {j \in 1..Len(list) : list[j] \in names}
<1>1. /\ hits = {} => FirstOf(list, names) = ""
      /\ hits # {} /\ Min(hits) # 0 => FirstOf(list, names) = list[Min(hits)]
  BY DEF FirstOf, SelectInSeq
<1>2. CASE hits = {}
  BY <1>1, <1>2
<1>3. CASE hits # {}
  <2>1. hits \subseteq Nat
    OBVIOUS
  <2>2. Min(hits) \in hits
    BY <1>3, <2>1, MinFacts
  <2>3. Min(hits) \in 1..Len(list) /\ list[Min(hits)] \in names
    BY <2>2
  <2>4. Min(hits) # 0
    BY <2>3
  <2>5. FirstOf(list, names) = list[Min(hits)]
    BY <1>1, <1>3, <2>4
  <2> HIDE DEF hits
  <2>6. QED
    BY <2>3, <2>5
<1>4. QED
  BY <1>2, <1>3

LEMMA ListFacts ==
    ASSUME NEW S, NEW list \in Seq(S), list # <<>>
    PROVE  /\ ToSet(list) = {list[j] : j \in 1..Len(list)} /\ list[1] \in ToSet(list)
           /\ ToSet(list) \subseteq S
<1>1. DOMAIN list = 1..Len(list) /\ 1 \in 1..Len(list) /\ \A j \in 1..Len(list) : list[j] \in S
  OBVIOUS
<1>2. ToSet(list) = {list[j] : j \in 1..Len(list)}
  BY <1>1, Zenon DEF ToSet
<1>3. QED
  BY <1>1, <1>2, Zenon

\* The common path that is reported is as it is reported, and one that is not
\* there is reported only if none of them is.
CommonPathTrue(list) ==
    LET i == CommonPath(list) IN
    /\ i.path \in ToSet(list) /\ i.method = "common path"
    /\ i.exists = There(i.path)
    /\ i.readable = ("read" \in access[i.path]) /\ i.writable = ("write" \in access[i.path])
    /\ There(i.path) => (i.include = (i.path \in dirs))
    /\ ~There(i.path) => \A p \in ToSet(list) : ~There(p)

LEMMA CheckPathFacts ==
    \A q, m : /\ CheckPath(q, m).path = q /\ CheckPath(q, m).method = m
              /\ CheckPath(q, m).exists = There(q)
              /\ CheckPath(q, m).readable = ("read" \in access[q])
              /\ CheckPath(q, m).writable = ("write" \in access[q])
              /\ CheckPath(q, m).include = (q \in dirs)
  BY Zenon DEF CheckPath

LEMMA CommonPathFacts ==
    ASSUME NEW list \in Seq(ConfigPaths), list # <<>>, "" \notin ConfigPaths
    PROVE  CommonPathTrue(list)
<1> DEFINE names == {q \in ConfigPaths : There(q)}
           p == FirstOf(list, names)
           i == CommonPath(list)
<1>1. \/ p = "" /\ \A j \in 1..Len(list) : list[j] \notin names
      \/ \E j \in 1..Len(list) : p = list[j] /\ list[j] \in names
  BY FirstOfFacts
<1>2. i = IF p # "" THEN CheckPath(p, "common path")
          ELSE [CheckPath(list[1], "common path") EXCEPT !.include = FALSE]
  BY DEF CommonPath
<1>3. /\ ToSet(list) = {list[j] : j \in 1..Len(list)} /\ list[1] \in ToSet(list)
      /\ ToSet(list) \subseteq ConfigPaths
  BY ListFacts
<1> HIDE DEF p, i
<1>5. CASE p # ""
  <2>1. p \in ToSet(list) /\ There(p)
    BY <1>1, <1>3, <1>5, Zenon
  <2>2. i = CheckPath(p, "common path")
    BY <1>2, <1>5
  <2>3. /\ i.path = p /\ i.method = "common path" /\ i.exists = There(p)
        /\ i.readable = ("read" \in access[p]) /\ i.writable = ("write" \in access[p])
        /\ i.include = (p \in dirs)
    BY <2>2, CheckPathFacts
  <2>4. QED
    BY <2>1, <2>3, Zenon DEF CommonPathTrue, i
<1>6. CASE p = ""
  <2>1. \A q \in ToSet(list) : ~There(q)
    BY <1>1, <1>3, <1>6, Zenon
  <2>2. i = [CheckPath(list[1], "common path") EXCEPT !.include = FALSE]
    BY <1>2, <1>6
  <2>3. /\ i.path = list[1] /\ i.method = "common path" /\ i.exists = There(list[1])
        /\ i.readable = ("read" \in access[list[1]]) /\ i.writable = ("write" \in access[list[1]])
    BY <2>2 DEF CheckPath
  <2>4. QED
    BY <1>3, <2>1, <2>3, Zenon DEF CommonPathTrue, i
<1>7. QED
  BY <1>5, <1>6

LEMMA ThreeOf ==
    ASSUME NEW a, NEW b, NEW c
    PROVE  /\ <<a, b, c>> \in Seq({a, b, c}) /\ <<a, b, c>> # <<>>
           /\ ToSet(<<a, b, c>>) = {a, b, c} /\ <<a, b, c>>[1] = a
<1> DEFINE list == <<a, b, c>>
<1>1. list \in Seq({a, b, c}) /\ list # <<>> /\ Len(list) = 3
      /\ list[1] = a /\ list[2] = b /\ list[3] = c
  OBVIOUS
<1> HIDE DEF list
<1>2. ToSet(list) = {list[j] : j \in 1..3}
  BY <1>1, ListFacts
<1>3. 1..3 = {1, 2, 3}
  OBVIOUS
<1>4. ToSet(list) = {a, b, c}
  BY <1>1, <1>2, <1>3
<1>5. QED
  BY <1>1, <1>4 DEF list

\* The two lists of common paths.
LEMMA CommonLists ==
    /\ CommonClient \in Seq(ConfigPaths) /\ CommonClient # <<>>
    /\ CommonServer \in Seq(ConfigPaths) /\ CommonServer # <<>>
    /\ CommonServer[1] \in ToSet(CommonServer)
    /\ "" \notin ConfigPaths
    /\ ToSet(CommonClient) \intersect ToSet(CommonServer) = {}
    /\ CommonServer[1] # "" /\ CommonClient[1] # ""
<1>1. /\ CommonClient \in Seq(ToSet(CommonClient)) /\ CommonClient # <<>>
      /\ ToSet(CommonClient) = {"/etc/ssh/ssh_config", "/etc/ssh_config", "/usr/local/etc/ssh/ssh_config"}
      /\ CommonClient[1] = "/etc/ssh/ssh_config"
  BY ThreeOf, Zenon DEF CommonClient
<1>2. /\ CommonServer \in Seq(ToSet(CommonServer)) /\ CommonServer # <<>>
      /\ ToSet(CommonServer) = {"/etc/ssh/sshd_config", "/etc/sshd_config", "/usr/local/etc/ssh/sshd_config"}
      /\ CommonServer[1] = "/etc/ssh/sshd_config"
  BY ThreeOf, Zenon DEF CommonServer
<1>3. ToSet(CommonClient) \subseteq ConfigPaths /\ ToSet(CommonServer) \subseteq ConfigPaths
  BY DEF ConfigPaths, ClientPaths, ServerPaths
<1>4. CommonClient \in Seq(ConfigPaths) /\ CommonServer \in Seq(ConfigPaths)
  <2>1. ASSUME NEW S, NEW T, S \subseteq T, NEW list \in Seq(S) PROVE list \in Seq(T)
    BY <2>1
  <2>2. QED
    BY <1>1, <1>2, <1>3, <2>1, Zenon
<1>5. "" \notin ConfigPaths
  BY <1>1, <1>2 DEF ConfigPaths, ClientPaths, ServerPaths, UserConfig, ShareDefault
<1>6. ToSet(CommonClient) \intersect ToSet(CommonServer) = {}
  BY <1>1, <1>2
<1>7. CommonServer[1] # "" /\ CommonClient[1] # "" /\ CommonServer[1] \in ToSet(CommonServer)
  BY <1>1, <1>2
<1>8. QED
  BY <1>1, <1>2, <1>4, <1>5, <1>6, <1>7

\* What a discovered path is worth: its rights are as reported, and its .d
\* directory if it is there itself.
Reported(i) ==
    /\ i.exists = There(i.path)
    /\ i.readable = ("read" \in access[i.path]) /\ i.writable = ("write" \in access[i.path])
    /\ There(i.path) => (i.include = (i.path \in dirs))

LEMMA CheckPathReported ==
    ASSUME NEW q, NEW m
    PROVE  Reported(CheckPath(q, m)) /\ CheckPath(q, m).method = m
<1> DEFINE i == CheckPath(q, m)
<1>1. /\ i.path = q /\ i.method = m
      /\ i.exists = There(q)
      /\ i.readable = ("read" \in access[q])
      /\ i.writable = ("write" \in access[q])
      /\ i.include = (q \in dirs)
  BY CheckPathFacts
<1> HIDE DEF i
<1>2. Reported(i)
  BY <1>1, Zenon DEF Reported
<1>3. QED
  BY <1>1, <1>2 DEF i

LEMMA ClientFound ==
    LET i == DiscoverClientSystemConfig IN
    /\ Reported(i)
    /\ i.method = "command" => "ssh" \in Bin
    /\ i.method = "common path" => /\ i.path \in ToSet(CommonClient)
                                   /\ ~i.exists => \A p \in ToSet(CommonClient) : ~There(p)
<1> DEFINE i == DiscoverClientSystemConfig
<1>1. CASE GetClientConfigFromCommand # ""
  <2>1. i = CheckPath(GetClientConfigFromCommand, "command") /\ "ssh" \in Bin
    BY <1>1 DEF DiscoverClientSystemConfig, GetClientConfigFromCommand
  <2>2. Reported(i) /\ i.method = "command"
    BY <2>1, CheckPathReported
  <2>3. QED
    BY <2>1, <2>2
<1>2. CASE GetClientConfigFromCommand = "" /\ GetClientConfigFromPackageManager # ""
  <2>1. i = CheckPath(GetClientConfigFromPackageManager, "package manager")
    BY <1>2 DEF DiscoverClientSystemConfig
  <2>2. Reported(i) /\ i.method = "package manager"
    BY <2>1, CheckPathReported
  <2>3. QED
    BY <2>2
<1>3. CASE GetClientConfigFromCommand = "" /\ GetClientConfigFromPackageManager = ""
  <2>1. i = CommonPath(CommonClient)
    BY <1>3 DEF DiscoverClientSystemConfig
  <2>2. CommonPathTrue(CommonClient)
    BY CommonLists, CommonPathFacts
  <2>3. /\ Reported(i) /\ i.method = "common path" /\ i.path \in ToSet(CommonClient)
        /\ ~There(i.path) => \A p \in ToSet(CommonClient) : ~There(p)
    BY <2>1, <2>2, Zenon DEF CommonPathTrue, Reported
  <2>4. i.exists <=> There(i.path)
    BY <2>3 DEF Reported
  <2> HIDE DEF i
  <2>5. QED
    BY <2>3, <2>4 DEF i
<1>4. QED
  BY <1>1, <1>2, <1>3

LEMMA ServerFound ==
    LET i == DiscoverServerConfig IN
    /\ Reported(i)
    /\ i.method = "command" <=> "sshd" \in Bin
    /\ i.method = "common path" => /\ i.path \in ToSet(CommonServer)
                                   /\ ~i.exists => \A p \in ToSet(CommonServer) : ~There(p)
<1> DEFINE i == DiscoverServerConfig
           share == (\A p \in ToSet(CommonServer) : ~There(p)) /\ There(ShareDefault)
<1>0. GetServerConfigFromCommand # "" <=> "sshd" \in Bin
  BY CommonLists DEF GetServerConfigFromCommand
<1>1. CASE GetServerConfigFromCommand # ""
  <2>1. i = CheckPath(GetServerConfigFromCommand, "command")
    BY <1>1 DEF DiscoverServerConfig
  <2>2. Reported(i) /\ i.method = "command"
    BY <2>1, CheckPathReported
  <2>3. QED
    BY <1>0, <1>1, <2>2
<1>2. CASE GetServerConfigFromCommand = "" /\ GetServerConfigFromPackageManager # ""
  <2>1. i = CheckPath(GetServerConfigFromPackageManager, "package manager")
    BY <1>2 DEF DiscoverServerConfig
  <2>2. Reported(i) /\ i.method = "package manager"
    BY <2>1, CheckPathReported
  <2>3. QED
    BY <1>0, <1>2, <2>2
<1>3. CASE GetServerConfigFromCommand = "" /\ GetServerConfigFromPackageManager = "" /\ share
  <2>1. i = [CheckPath(CommonServer[1], "common path") EXCEPT !.include = TRUE]
    BY <1>3 DEF DiscoverServerConfig
  <2>2. /\ i.path = CommonServer[1] /\ i.method = "common path" /\ i.exists = There(CommonServer[1])
        /\ i.readable = ("read" \in access[CommonServer[1]])
        /\ i.writable = ("write" \in access[CommonServer[1]])
    BY <2>1 DEF CheckPath
  <2>3. ~There(CommonServer[1]) /\ CommonServer[1] \in ToSet(CommonServer)
    BY <1>3, CommonLists
  <2> HIDE DEF i
  <2>4. Reported(i)
    BY <2>2, <2>3, Zenon DEF Reported
  <2>5. QED
    BY <1>0, <1>3, <2>2, <2>3, <2>4 DEF i
<1>4. CASE GetServerConfigFromCommand = "" /\ GetServerConfigFromPackageManager = "" /\ ~share
  <2>1. i = CommonPath(CommonServer)
    BY <1>4 DEF DiscoverServerConfig
  <2>2. CommonPathTrue(CommonServer)
    BY CommonLists, CommonPathFacts
  <2>3. /\ Reported(i) /\ i.method = "common path" /\ i.path \in ToSet(CommonServer)
        /\ ~There(i.path) => \A p \in ToSet(CommonServer) : ~There(p)
    BY <2>1, <2>2, Zenon DEF CommonPathTrue, Reported
  <2>4. i.exists <=> There(i.path)
    BY <2>3 DEF Reported
  <2> HIDE DEF i
  <2>5. QED
    BY <1>0, <1>4, <2>3, <2>4 DEF i
<1>5. QED
  BY <1>1, <1>2, <1>3, <1>4

LEMMA DiscoveryIsTrue ==
    ASSUME DiscInv
    PROVE  DiscoveryTrue
<1> SUFFICES ASSUME stage = "answered", ~moved PROVE DiscoveryTrue
  BY DEF DiscoveryTrue
<1>1. /\ found.client = DiscoverClientSystemConfig /\ found.server = DiscoverServerConfig
      /\ (found.sshInstalled <=> "ssh" \in Bin) /\ (found.sshdInstalled <=> "sshd" \in Bin)
  BY DEF DiscInv, FoundSoFar
<1>2. /\ Reported(found.client)
      /\ found.client.method = "command" => "ssh" \in Bin
      /\ found.client.method = "common path" =>
            /\ found.client.path \in ToSet(CommonClient)
            /\ ~found.client.exists => \A p \in ToSet(CommonClient) : ~There(p)
  BY <1>1, ClientFound
<1>3. /\ Reported(found.server)
      /\ found.server.method = "command" <=> "sshd" \in Bin
      /\ found.server.method = "common path" =>
            /\ found.server.path \in ToSet(CommonServer)
            /\ ~found.server.exists => \A p \in ToSet(CommonServer) : ~There(p)
  BY <1>1, ServerFound
<1>4. ASSUME NEW i, Reported(i)
      PROVE  LET c == CheckConfigPath(i.path)
             IN  i.exists = c.exists /\ i.readable = c.readable /\ i.writable = c.writable
                 /\ (c.exists => i.include = c.include)
  <2> DEFINE c == CheckConfigPath(i.path)
  <2>1. /\ c.exists = There(i.path) /\ c.readable = ("read" \in access[i.path])
        /\ c.writable = ("write" \in access[i.path])
        /\ c.include = (There(i.path) /\ i.path \in dirs)
    BY Zenon DEF CheckConfigPath
  <2> HIDE DEF c
  <2>2. i.exists = c.exists /\ i.readable = c.readable /\ i.writable = c.writable
    BY <1>4, <2>1, Zenon DEF Reported
  <2>3. ASSUME c.exists PROVE i.include = c.include
    <3>1. There(i.path)
      BY <2>1, <2>3
    <3>2. i.include = (i.path \in dirs)
      BY <1>4, <3>1, Zenon DEF Reported
    <3>3. (There(i.path) /\ i.path \in dirs) = (i.path \in dirs)
      BY <3>1
    <3>4. QED
      BY <2>1, <3>2, <3>3, Zenon
  <2>4. QED
    BY <2>2, <2>3 DEF c
<1>5. ASSUME NEW i \in {found.client, found.server}, i.method = "common path", ~i.exists
      PROVE  \A p \in ToSet(IF i = found.client THEN CommonClient ELSE CommonServer) : ~There(p)
  <2>1. CASE i = found.client
    BY <1>2, <1>5, <2>1
  <2>2. CASE i # found.client
    BY <1>3, <1>5, <2>2
  <2>3. QED
    BY <2>1, <2>2
<1>6. QED
  BY <1>1, <1>2, <1>3, <1>4, <1>5 DEF DiscoveryTrue
--------------------------------------------------------------------------------
(* The whole machine. *)

\* A part that rests is as it was at first.
PartsRest ==
    /\ part # "daemon" => Alive = {} /\ lpc = "idle"
    /\ part # "sshd" => wpc = "off" /\ Made = 0
    /\ part # "discovery" => stage = "idle" /\ moves = 0

HostInv == CfgInv /\ RunInv /\ SnapInv /\ SocketInv /\ DiscInv /\ PartsRest

LEMMA HostInit ==
    ASSUME Init
    PROVE  HostInv
<1>1. SysInit /\ DaemonInit /\ DiscInit
  BY DEF Init
<1>2. CfgInv /\ RunInv /\ SnapInv /\ SocketInv /\ DiscInv
  BY <1>1, SysInvInit, SnapInit, SocketInit, DiscInvInit
<1>3. {c \in Controls : spc[c] # "new"} = {} /\ {c \in Editors : epc[c] # "new"} = {}
  BY <1>1 DEF SysInit, CfgInit
<1>4. Made = 0
  <2>1. Cardinality({}) = 0
    BY FS_EmptySet
  <2>2. Made = Cardinality({}) + Cardinality({})
    BY <1>3, Zenon DEF Made
  <2>3. QED
    BY <2>1, <2>2
<1>5. Alive = {}
  BY <1>1, LabelFacts DEF DaemonInit, Alive
<1>6. PartsRest
  BY <1>1, <1>4, <1>5 DEF PartsRest, SysInit, DaemonInit, DiscInit
<1>7. QED
  BY <1>2, <1>6 DEF HostInv

LEMMA HostStep ==
    ASSUME HostInv, [Next]_hostVars
    PROVE  HostInv'
<1>1. [SysNext]_sysVars /\ [DaemonNext]_dvars /\ [DiscNext]_discVars /\ part' = part
  BY DEF Next, hostVars
<1>2. CfgInv' /\ RunInv' /\ SnapInv' /\ SocketInv' /\ DiscInv'
  BY <1>1, SysInvStep, SnapStep, SocketStep, DiscInvStep DEF HostInv
<1>3. part # "daemon" => Alive' = Alive /\ lpc' = lpc
  BY DEF Next, hostVars, dvars, Alive
<1>4. part # "sshd" => wpc' = wpc /\ Made' = Made
  BY DEF Next, hostVars, sysVars, pollVars, controlVars, cfgVars, Made
<1>5. part # "discovery" => stage' = stage /\ moves' = moves
  BY DEF Next, hostVars, discVars
<1>6. PartsRest'
  BY <1>1, <1>3, <1>4, <1>5 DEF HostInv, PartsRest
<1>7. QED
  BY <1>2, <1>6 DEF HostInv

LEMMA HostAlways == Spec => []HostInv
<1>1. Init => HostInv
  BY HostInit
<1>2. HostInv /\ [Next]_hostVars => HostInv'
  BY HostStep
<1>3. QED
  BY <1>1, <1>2, PTL DEF Spec

\* While no call writes, no calls overlapped and no write failed, sshd_config says
\* what the calls of UpdateServerConfig asked for: for every user, or, where the
\* place of a directive is behind a Match line, for the users that are matched.
\* The readers of the file agree on what it says, and an sshd that was restarted
\* or reloaded since the last edit works by it, whatever the file held at first.
THEOREM SshdIsAsConfigured == Spec => []SshdAsConfigured
<1>1. HostInv => SshdAsConfigured
  <2> SUFFICES ASSUME HostInv PROVE SshdAsConfigured
    OBVIOUS
  <2>1. TypeOK
    BY DEF HostInv, RunInv, SocketInv, DiscInv, PartsRest, TypeOK
  <2>2. ConfigAsMeant
    BY ConfigIsAsMeant DEF HostInv
  <2>3. RunsAsConfigured
    BY DEF HostInv, RunInv, UpToDate, RunsAsConfigured
  <2>4. QED
    BY <2>1, <2>2, <2>3 DEF SshdAsConfigured
<1>2. QED
  BY <1>1, HostAlways, PTL

\* A status that GetSSHStatus read while nothing changed tells the truth about
\* the commands in the daemon's PATH, the service and its process, the configs,
\* the port and the firewall, with the exceptions SnapshotTrue names.
THEOREM SnapshotsAreTrue == Spec => []SnapshotTrue
<1>1. HostInv => SnapshotTrue
  BY SnapshotIsTrue DEF HostInv
<1>2. QED
  BY <1>1, HostAlways, PTL

\* The config paths that Discover answers are as they are reported, and a user
\* who follows the install instructions has the component, on any distribution
\* that has the packages the instructions name.
THEOREM DiscoveryIsOfHelp == Spec => []DiscoveryHelps
<1>1. HostInv => DiscoveryHelps
  <2> SUFFICES ASSUME HostInv PROVE DiscoveryHelps
    OBVIOUS
  <2>1. DiscInv
    BY DEF HostInv
  <2>2. DiscoveryTrue /\ AdviceWorks
    BY <2>1, DiscoveryIsTrue DEF DiscInv
  <2>3. QED
    BY <2>2 DEF DiscoveryHelps
<1>2. QED
  BY <1>1, HostAlways, PTL
================================================================================
