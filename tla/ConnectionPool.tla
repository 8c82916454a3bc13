----------------------------- MODULE ConnectionPool -----------------------------
(***************************************************************************)
(* The pool of SSH connections (skeys-core/remote/connection.go) and the   *)
(* RPCs that use it (skeys-daemon/internal/adapter/remote.go).             *)
(*                                                                         *)
(* Two kinds of lock: p.mu guards the pool and is held by Connect through  *)
(* its health check and its dial; c.mu guards a connection and is held by  *)
(* Execute for as long as the command runs.  Requests, the goroutine that  *)
(* sweeps idle connections, and two goroutines per connection (keepAlive,  *)
(* watchKeyPresence) meet on them.                                         *)
(*                                                                         *)
(* Time is reduced to what is done with it: a connection becomes idle at   *)
(* some moment after its last activity, and tickers fire now and then.     *)
(***************************************************************************)
EXTENDS Naturals, FiniteSets

CONSTANTS
    Conns,           \* bound: the connections that can ever be dialled
    Addrs,           \* user@host:port, the keys of the pool
    Remotes,         \* stored remote servers
    AddrOf,          \* AddrOf[m]: the address remote m is stored with at first
    Moves,           \* bound: the new addresses UpdateRemote can give, as <<remote, address>>
    Keys,            \* fingerprints
    Reqs,            \* requests served at the same time
    MaxConnections,
    NoConn, NoKey, NoRemote, NoAddr, NoOne,
    Janitor          \* the cleanup goroutine

ASSUME ConnectionPoolAssumption ==
    /\ AddrOf \in [Remotes -> Addrs] /\ Moves \subseteq Remotes \X Addrs
    /\ MaxConnections \in Nat
    /\ IsFiniteSet(Addrs)
    /\ NoConn \notin Conns
    /\ NoOne \notin Reqs \union Conns \union {Janitor}
    /\ Janitor \notin Reqs \union Conns
    /\ Reqs \intersect Conns = {}
    /\ NoKey \notin Keys /\ NoRemote \notin Remotes /\ NoAddr \notin Addrs

VARIABLES
    pool,       \* pool[a]: p.connections
    state,      \* state[c]: "unborn", "open", "dead" (the transport broke) or "closed"
    key,        \* key[c]: its KeyFingerprint
    remote,     \* remote[c]: its RemoteID
    addr,       \* addr[m]: the address remote m is stored with
    moved,      \* the connections, and the Connects under way, whose remote has
                \* been given another address since the Connect read it
    idle,       \* the pooled connections whose last activity is too long ago
    stopped,    \* the connections whose stopKeyCheck is closed
    dog,        \* dog[c]: where watchKeyPresence of c is
    present,    \* the fingerprints the agent lists
    poolMu,     \* the holder of p.mu
    connMu,     \* connMu[c]: the holder of c.mu; c itself is its keepAlive
    pc,         \* pc[q]: where request q is
    job,        \* job[q]: its remote, the address read of it, key and connection
    sweep       \* the connections cleanup has yet to visit

connVars == <<state, key, stopped>>
reqVars == <<pc, job>>
tagVars == <<remote, addr, moved>>
vars == <<pool, connVars, tagVars, idle, dog, present, poolMu, connMu, reqVars, sweep>>

NoJob == [remote |-> NoRemote, addr |-> NoAddr, key |-> NoKey, conn |-> NoConn]

\* NewConnectionPool
Init ==
    /\ pool = [a \in Addrs |-> NoConn]
    /\ state = [c \in Conns |-> "unborn"]
    /\ key = [c \in Conns |-> NoKey]
    /\ remote = [c \in Conns |-> NoRemote]
    /\ addr = AddrOf
    /\ moved = {}
    /\ idle = {}
    /\ stopped = {}
    /\ dog = [c \in Conns |-> "off"]
    /\ present = Keys
    /\ poolMu = NoOne
    /\ connMu = [c \in Conns |-> NoOne]
    /\ pc = [q \in Reqs |-> "idle"]
    /\ job = [q \in Reqs |-> NoJob]
    /\ sweep = {}

Occupied == {a \in Addrs : pool[a] # NoConn}

Pooled == {pool[a] : a \in Occupied}

\* The connections that ListRemotes finds for a remote.
ShownAs(m) == {c \in Pooled : remote[c] = m}

\* The remotes ListRemotes shows as connected.
ConnectedRemotes == {m \in Remotes : ShownAs(m) # {}}

\* The status GetRemote answers.
RemoteStatus(m) == IF m \in ConnectedRemotes THEN "connected" ELSE "disconnected"

Goto(q, label) == pc' = [pc EXCEPT ![q] = label] /\ UNCHANGED job

Start(q, label, j) == pc' = [pc EXCEPT ![q] = label] /\ job' = [job EXCEPT ![q] = j]

End(q) == Start(q, "idle", NoJob)

\* Mutant: Close does not take c.mu.
CloseAndDropUnlocked(c) ==
    /\ state' = [state EXCEPT ![c] = "closed"]
    /\ stopped' = stopped \union {c}
    /\ pool' = [a \in Addrs |-> IF pool[a] = c THEN NoConn ELSE pool[a]]
    /\ idle' = idle \ {c}
    /\ UNCHANGED key

\* Mutant: Close does not signal stopKeyCheck.
CloseAndDropSilent(c) ==
    /\ connMu[c] = NoOne
    /\ state' = [state EXCEPT ![c] = "closed"]
    /\ pool' = [a \in Addrs |-> IF pool[a] = c THEN NoConn ELSE pool[a]]
    /\ idle' = idle \ {c}
    /\ UNCHANGED <<stopped, key>>

\* conn.Close, which takes c.mu, and delete(p.connections, key).
CloseAndDrop(c) ==
    /\ connMu[c] = NoOne
    /\ state' = [state EXCEPT ![c] = "closed"]
    /\ stopped' = stopped \union {c}
    /\ pool' = [a \in Addrs |-> IF pool[a] = c THEN NoConn ELSE pool[a]]
    /\ idle' = idle \ {c}
    /\ UNCHANGED key
--------------------------------------------------------------------------------
(* The Connect RPC.                                                          *)

\* Mutant: any connection of the pool will do.
ConnectLockAny(q, m, k) ==
    /\ pc[q] = "idle"
    /\ poolMu = NoOne
    /\ poolMu' = q
    /\ \E c \in IF Pooled = {} THEN {NoConn} ELSE Pooled :
          Start(q, IF c = NoConn THEN "check" ELSE "health",
                [remote |-> m, addr |-> addr[m], key |-> k, conn |-> c])
    /\ moved' = moved \ {q}
    /\ UNCHANGED <<pool, connVars, remote, addr, idle, dog, present, connMu, sweep>>

\* The remote is read from the store, p.mu taken and the address looked up.  (The
\* store is read first; a remote that moves in between might as well move just
\* after p.mu is taken.)
ConnectLock(q, m, k) ==
    /\ pc[q] = "idle"
    /\ poolMu = NoOne
    /\ poolMu' = q
    /\ Start(q, IF pool[addr[m]] = NoConn THEN "check" ELSE "health",
             [remote |-> m, addr |-> addr[m], key |-> k, conn |-> pool[addr[m]]])
    /\ moved' = moved \ {q}
    /\ UNCHANGED <<pool, connVars, remote, addr, idle, dog, present, connMu, sweep>>

\* isHealthy takes c.mu and tries a session.  A healthy connection is reused,
\* whatever key it was made with.
ConnectHealth(q) ==
    /\ pc[q] = "health"
    /\ connMu[job[q].conn] = NoOne
    /\ IF state[job[q].conn] = "open"
       THEN /\ idle' = idle \ {job[q].conn}
            /\ poolMu' = NoOne
            /\ Goto(q, "tag")
       ELSE /\ Goto(q, "replace")
            /\ UNCHANGED <<idle, poolMu>>
    /\ UNCHANGED <<pool, connVars, tagVars, dog, present, connMu, sweep>>

ConnectReplace(q) ==
    /\ pc[q] = "replace"
    /\ CloseAndDrop(job[q].conn)
    /\ Goto(q, "check")
    /\ UNCHANGED <<tagVars, dog, present, poolMu, connMu, sweep>>

\* Mutant: p.mu is released for the dial.
ConnectCheckUnlocks(q) ==
    /\ pc[q] = "check"
    /\ IF Cardinality(Occupied) >= MaxConnections THEN End(q) ELSE Goto(q, "dial")
    /\ poolMu' = NoOne
    /\ UNCHANGED <<pool, connVars, tagVars, idle, dog, present, connMu, sweep>>

\* The pool limit.
ConnectCheck(q) ==
    /\ pc[q] = "check"
    /\ IF Cardinality(Occupied) >= MaxConnections
       THEN End(q) /\ poolMu' = NoOne
       ELSE Goto(q, "dial") /\ UNCHANGED poolMu
    /\ UNCHANGED <<pool, connVars, tagVars, idle, dog, present, connMu, sweep>>

\* No key, no answer, no authentication.
DialFails(q) ==
    /\ pc[q] = "dial"
    /\ End(q)
    /\ poolMu' = NoOne
    /\ UNCHANGED <<pool, connVars, tagVars, idle, dog, present, connMu, sweep>>

\* Mutant: watchKeyPresence is never started.
DialUnwatched(q, c) ==
    /\ pc[q] = "dial"
    /\ state[c] = "unborn"
    /\ state' = [state EXCEPT ![c] = "open"]
    /\ key' = [key EXCEPT ![c] = job[q].key]
    /\ pool' = [pool EXCEPT ![job[q].addr] = c]
    /\ Start(q, "tag", [job[q] EXCEPT !.conn = c])
    /\ poolMu' = NoOne
    /\ UNCHANGED <<stopped, tagVars, idle, dog, present, connMu, sweep>>

\* dial starts keepAlive, and watchKeyPresence if a key was asked for.
Dial(q, c) ==
    /\ pc[q] = "dial"
    /\ state[c] = "unborn"
    /\ state' = [state EXCEPT ![c] = "open"]
    /\ key' = [key EXCEPT ![c] = job[q].key]
    /\ dog' = [dog EXCEPT ![c] = IF job[q].key = NoKey THEN "off" ELSE "watching"]
    /\ pool' = [pool EXCEPT ![job[q].addr] = c]
    /\ Start(q, "tag", [job[q] EXCEPT !.conn = c])
    /\ poolMu' = NoOne
    /\ UNCHANGED <<stopped, tagVars, idle, present, connMu, sweep>>

\* The adapter, back from the pool: conn.RemoteID = r.ID, and the answer.
ConnectTag(q) ==
    /\ pc[q] = "tag"
    /\ remote' = [remote EXCEPT ![job[q].conn] = job[q].remote]
    /\ moved' = IF q \in moved THEN moved \union {job[q].conn} ELSE moved \ {job[q].conn}
    /\ End(q)
    /\ UNCHANGED <<addr, pool, connVars, idle, dog, present, poolMu, connMu, sweep>>

\* The UpdateRemote RPC gives a remote another host, port or user, and looks at
\* no connection.
UpdateRemote(m, a) ==
    /\ a # addr[m]
    /\ addr' = [addr EXCEPT ![m] = a]
    /\ moved' = moved \union {c \in Conns : remote[c] = m}
                     \union {q \in Reqs : job[q].remote = m}
    /\ UNCHANGED <<pool, connVars, remote, idle, dog, present, poolMu, connMu, reqVars, sweep>>
--------------------------------------------------------------------------------
(* Disconnect, and a command on a connection.                                *)

DisconnectFind(q, c) ==
    /\ pc[q] = "idle"
    /\ poolMu = NoOne
    /\ c \in Pooled
    /\ poolMu' = q
    /\ Start(q, "close", [NoJob EXCEPT !.conn = c])
    /\ UNCHANGED <<pool, connVars, tagVars, idle, dog, present, connMu, sweep>>

DisconnectClose(q) ==
    /\ pc[q] = "close"
    /\ CloseAndDrop(job[q].conn)
    /\ poolMu' = NoOne
    /\ End(q)
    /\ UNCHANGED <<tagVars, dog, present, connMu, sweep>>

\* Get finds a connection under the read lock of p.mu.
Get(c) == poolMu = NoOne /\ c \in Pooled

\* The ExecuteCommand RPC, up to conn.Execute.
ExecGet(q, c) ==
    /\ pc[q] = "idle"
    /\ Get(c)
    /\ Start(q, "exec", [NoJob EXCEPT !.conn = c])
    /\ UNCHANGED <<pool, connVars, tagVars, idle, dog, present, poolMu, connMu, sweep>>

\* Execute: no session can be made on a connection that broke or was closed.
ExecStart(q) ==
    /\ pc[q] = "exec"
    /\ connMu[job[q].conn] = NoOne
    /\ idle' = idle \ {job[q].conn}
    /\ IF state[job[q].conn] = "open"
       THEN connMu' = [connMu EXCEPT ![job[q].conn] = q] /\ Goto(q, "run")
       ELSE UNCHANGED connMu /\ End(q)
    /\ UNCHANGED <<pool, connVars, tagVars, dog, present, poolMu, sweep>>

\* The command ends, its connection breaks, or its context is done.
ExecEnd(q) ==
    /\ pc[q] = "run"
    /\ connMu' = [connMu EXCEPT ![job[q].conn] = NoOne]
    /\ End(q)
    /\ UNCHANGED <<pool, connVars, tagVars, idle, dog, present, poolMu, sweep>>
--------------------------------------------------------------------------------
(* The goroutines of a connection, and cleanup.                              *)

KeepAliveSend(c) ==
    /\ state[c] = "open"
    /\ connMu[c] = NoOne
    /\ connMu' = [connMu EXCEPT ![c] = c]
    /\ UNCHANGED <<pool, connVars, tagVars, idle, dog, present, poolMu, reqVars, sweep>>

KeepAliveReply(c) ==
    /\ connMu[c] = c
    /\ connMu' = [connMu EXCEPT ![c] = NoOne]
    /\ UNCHANGED <<pool, connVars, tagVars, idle, dog, present, poolMu, reqVars, sweep>>

\* watchKeyPresence, a tick: the agent does not list the key.
DogTick(c) ==
    /\ dog[c] = "watching"
    /\ key[c] \notin present
    /\ dog' = [dog EXCEPT ![c] = "leaving"]
    /\ UNCHANGED <<pool, connVars, tagVars, idle, present, poolMu, connMu, reqVars, sweep>>

\* p.Disconnect(conn.ID)
DogDisconnect(c) ==
    /\ dog[c] = "leaving"
    /\ poolMu = NoOne
    /\ IF c \in Pooled
       THEN poolMu' = c /\ dog' = [dog EXCEPT ![c] = "closing"]
       ELSE UNCHANGED poolMu /\ dog' = [dog EXCEPT ![c] = "ended"]
    /\ UNCHANGED <<pool, connVars, tagVars, idle, present, connMu, reqVars, sweep>>

DogClose(c) ==
    /\ dog[c] = "closing"
    /\ CloseAndDrop(c)
    /\ poolMu' = NoOne
    /\ dog' = [dog EXCEPT ![c] = "ended"]
    /\ UNCHANGED <<tagVars, present, connMu, reqVars, sweep>>

\* case <-conn.stopKeyCheck
DogStop(c) ==
    /\ dog[c] = "watching"
    /\ c \in stopped
    /\ dog' = [dog EXCEPT ![c] = "ended"]
    /\ UNCHANGED <<pool, connVars, tagVars, idle, present, poolMu, connMu, reqVars, sweep>>

SweepBegin ==
    /\ poolMu = NoOne
    /\ Pooled # {}
    /\ poolMu' = Janitor
    /\ sweep' = Pooled
    /\ UNCHANGED <<pool, connVars, tagVars, idle, dog, present, connMu, reqVars>>

SweepVisit(c) ==
    /\ poolMu = Janitor /\ c \in sweep
    /\ IF c \in idle THEN CloseAndDrop(c) ELSE UNCHANGED <<pool, connVars, idle>>
    /\ sweep' = sweep \ {c}
    /\ UNCHANGED <<tagVars, dog, present, poolMu, connMu, reqVars>>

SweepEnd ==
    /\ poolMu = Janitor /\ sweep = {}
    /\ poolMu' = NoOne
    /\ UNCHANGED <<pool, connVars, tagVars, idle, dog, present, connMu, reqVars, sweep>>
--------------------------------------------------------------------------------
(* The environment: the network, the clock and the agent.                    *)

Break(c) ==
    /\ state[c] = "open"
    /\ state' = [state EXCEPT ![c] = "dead"]
    /\ UNCHANGED <<pool, key, stopped, tagVars, idle, dog, present, poolMu, connMu,
                   reqVars, sweep>>

GrowIdle(c) ==
    /\ state[c] \in {"open", "dead"}
    /\ idle' = idle \union {c}
    /\ UNCHANGED <<pool, connVars, tagVars, dog, present, poolMu, connMu, reqVars, sweep>>

\* A key leaves the agent, or comes back.  To isKeyInAgent a locked agent, and
\* one that does not answer, lists no key.
AgentChange(keys) ==
    /\ present' = keys
    /\ UNCHANGED <<pool, connVars, tagVars, idle, dog, poolMu, connMu, reqVars, sweep>>
--------------------------------------------------------------------------------
ConnectStep(q) ==
    \/ ConnectHealth(q) \/ ConnectReplace(q) \/ ConnectCheck(q) \/ DialFails(q)
    \/ (\E c \in Conns : Dial(q, c)) \/ ConnectTag(q)

RequestStep(q) == ConnectStep(q) \/ DisconnectClose(q) \/ ExecStart(q)

NewRequest(q) ==
    \/ \E m \in Remotes, k \in Keys \union {NoKey} : ConnectLock(q, m, k)
    \/ \E c \in Conns : DisconnectFind(q, c) \/ ExecGet(q, c)

DogStep(c) == DogTick(c) \/ DogDisconnect(c) \/ DogClose(c) \/ DogStop(c)

SweepStep == SweepBegin \/ (\E c \in Conns : SweepVisit(c)) \/ SweepEnd

Next ==
    \/ \E q \in Reqs : NewRequest(q) \/ RequestStep(q) \/ ExecEnd(q)
    \/ \E move \in Moves : UpdateRemote(move[1], move[2])
    \/ \E c \in Conns : KeepAliveSend(c) \/ KeepAliveReply(c) \/ DogStep(c)
    \/ SweepStep
    \/ \E c \in Conns : Break(c) \/ GrowIdle(c)
    \/ \E keys \in SUBSET Keys : AgentChange(keys)

\* Go's mutexes do not starve a waiter, so a step that waits for one is taken
\* if it is enabled again and again; dials time out, servers answer a keep-
\* alive or are found to be gone, and every command ends, by itself, with its
\* connection or by the timeout of its request.
LockFairness ==
    /\ \A q \in Reqs : SF_vars(RequestStep(q)) /\ WF_vars(ExecEnd(q))
    /\ \A c \in Conns : WF_vars(KeepAliveReply(c)) /\ WF_vars(DogTick(c) \/ DogStop(c))
                        /\ SF_vars(DogDisconnect(c) \/ DogClose(c))
    /\ SF_vars(SweepStep)

Spec == Init /\ [][Next]_vars /\ LockFairness
--------------------------------------------------------------------------------
ConnStates == {"unborn", "open", "dead", "closed"}

ReqLabels == {"idle", "health", "replace", "check", "dial", "tag", "close", "exec", "run"}

DogLabels == {"off", "watching", "leaving", "closing", "ended"}

Jobs == [remote : Remotes \union {NoRemote}, addr : Addrs \union {NoAddr},
         key : Keys \union {NoKey}, conn : Conns \union {NoConn}]

DataTypeOK ==
    /\ pool \in [Addrs -> Conns \union {NoConn}]
    /\ state \in [Conns -> ConnStates]
    /\ key \in [Conns -> Keys \union {NoKey}]
    /\ remote \in [Conns -> Remotes \union {NoRemote}]
    /\ addr \in [Remotes -> Addrs] /\ moved \subseteq Conns \union Reqs
    /\ idle \subseteq Conns /\ stopped \subseteq Conns /\ sweep \subseteq Conns
    /\ dog \in [Conns -> DogLabels]
    /\ present \subseteq Keys
    /\ connMu \in [Conns -> Reqs \union Conns \union {NoOne}]
    /\ pc \in [Reqs -> ReqLabels]
    /\ job \in [Reqs -> Jobs]

\* The steps of a request that run with p.mu held.
Locking == {"health", "replace", "check", "dial", "close"}

LockTypeOK ==
    /\ poolMu \in Reqs \union Conns \union {Janitor, NoOne}
    /\ \A q \in Reqs : pc[q] \in Locking <=> poolMu = q
    /\ \A c \in Conns : dog[c] = "closing" <=> poolMu = c

\* Types; and p.mu is held by whoever is at a step that needs it, by no one
\* else, whatever way a request came to its end.
PoolTypeOK == DataTypeOK /\ LockTypeOK

\* No connection escapes the pool: each one that was dialled and not closed is
\* in it, and a closed one is not handed out again.
OpenIsPooled == \A c \in Conns : (state[c] = "open" \/ state[c] = "dead") <=> c \in Pooled

\* However many Connects race, the pool keeps its limit.
PoolWithinLimit == Cardinality(Occupied) <= MaxConnections

\* The pool under racing Connects, Disconnects, cleanup and removed keys: its
\* mutex has the right holder, it has exactly the open connections, and no more
\* than its limit.
PoolSafe == PoolTypeOK /\ OpenIsPooled /\ PoolWithinLimit

\* A remote is shown as connected through connections to its own address, or to
\* one that UpdateRemote has replaced since the Connect read it (UpdateRemote
\* looks at no connection, so such a one stays on show); the tag that Connect puts
\* on a connection after the pool has let go of it cannot come too late, on one
\* that is by then to somebody else's address.
ShownIsConnected ==
    \A m \in Remotes : RemoteStatus(m) = "connected" =>
       \A c \in ShownAs(m) : c \in moved \/ c = pool[addr[m]]

\* Neither Disconnect, nor cleanup, nor a key that leaves the agent closes a
\* connection under a running command.
NoCommandCut ==
    [][\A c \in Conns :
          (state[c] # "closed" /\ state'[c] = "closed") =>
             \A q \in Reqs : ~(pc[q] = "run" /\ job[q].conn = c)]_vars

\* "auto-disconnects when the key is removed": a connection made with a key
\* that stays out of the agent is closed in the end.
KeyRemovalDisconnects ==
    \A c \in Conns :
       (state[c] = "open" /\ key[c] \in Keys \ present)
          ~> (state[c] = "closed" \/ key[c] \in present)

\* No goroutine is left behind: the watcher of a closed connection ends.
KeyWatchEnds == \A c \in Conns : (state[c] = "closed") ~> (dog[c] \in {"off", "ended"})
================================================================================
