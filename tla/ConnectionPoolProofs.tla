--------------------------- MODULE ConnectionPoolProofs ---------------------------
(***************************************************************************)
(* Proofs about the connection pool for any number of requests, remotes,   *)
(* addresses, keys and connections.                                        *)
(*                                                                         *)
(* That no connection escapes the pool rests on p.mu being held from the   *)
(* lookup of Connect to its insertion.  The inductive invariant says, for  *)
(* every step that runs with p.mu held, what the holder knows of the pool: *)
(* its connection is in it, or its address is free and there is room.      *)
(***************************************************************************)
EXTENDS ConnectionPool, FiniteSetTheorems, TLAPS

\* The steps of a Connect after it has read its remote.
Connecting == {"health", "replace", "check", "dial", "tag"}

\* What request q knows of the pool and of its own connection.
KnowsReq(q) ==
    /\ pc[q] = "health" \/ pc[q] = "replace" \/ pc[q] = "close" => job[q].conn \in Pooled
    /\ pc[q] = "health" \/ pc[q] = "replace" =>
          /\ job[q].addr \in Addrs
          /\ pool[job[q].addr] = job[q].conn
    /\ pc[q] = "check" \/ pc[q] = "dial" =>
          /\ job[q].addr \in Addrs
          /\ pool[job[q].addr] = NoConn
    /\ pc[q] = "tag" \/ pc[q] = "exec" \/ pc[q] = "run" => job[q].conn \in Conns
    /\ pc[q] \in Connecting => job[q].remote \in Remotes

KnowsDog(c) == dog[c] = "closing" => c \in Pooled

KnowsSweep == poolMu = Janitor => sweep \subseteq Pooled

\* What everyone knows, above all the holder of p.mu.
Knows ==
    /\ \A q \in Reqs : KnowsReq(q)
    /\ \A c \in Conns : KnowsDog(c)
    /\ KnowsSweep

\* There is room for the connection being dialled.
Room == \A q \in Reqs : pc[q] = "dial" => Cardinality(Occupied) < MaxConnections

PoolInv == PoolTypeOK /\ OpenIsPooled /\ Knows

LEMMA LabelFacts ==
    /\ "unborn" \in ConnStates /\ "open" \in ConnStates
    /\ "dead" \in ConnStates /\ "closed" \in ConnStates
    /\ "off" \in DogLabels /\ "watching" \in DogLabels /\ "leaving" \in DogLabels
    /\ "closing" \in DogLabels /\ "ended" \in DogLabels
    /\ "idle" \in ReqLabels /\ "health" \in ReqLabels /\ "replace" \in ReqLabels
    /\ "check" \in ReqLabels /\ "dial" \in ReqLabels /\ "tag" \in ReqLabels
    /\ "close" \in ReqLabels /\ "exec" \in ReqLabels /\ "run" \in ReqLabels
  BY DEF ConnStates, DogLabels, ReqLabels

LEMMA LockingFacts ==
    /\ "health" \in Locking /\ "replace" \in Locking /\ "check" \in Locking
    /\ "dial" \in Locking /\ "close" \in Locking
    /\ "idle" \notin Locking /\ "tag" \notin Locking
    /\ "exec" \notin Locking /\ "run" \notin Locking
  BY DEF Locking

\* What UpdateRemote can give.
LEMMA MoveFacts == \A move \in Moves : move[1] \in Remotes /\ move[2] \in Addrs
  BY ConnectionPoolAssumption

\* A connection that is closed and dropped is pooled no more, the others are.
LEMMA DropFacts ==
    ASSUME NEW c \in Conns, DataTypeOK, CloseAndDrop(c)
    PROVE  /\ Pooled' = Pooled \ {c}
           /\ Occupied' \subseteq Occupied
           /\ state' = [state EXCEPT ![c] = "closed"]
           /\ \A a \in Addrs : pool[a] = c => pool'[a] = NoConn
           /\ \A a \in Addrs : pool[a] = NoConn => pool'[a] = NoConn
           /\ pool' \in [Addrs -> Conns \union {NoConn}]
           /\ stopped' = stopped \union {c} /\ key' = key /\ idle' = idle \ {c}
<1>1. /\ pool \in [Addrs -> Conns \union {NoConn}]
      /\ NoConn \notin Conns
  BY ConnectionPoolAssumption DEF DataTypeOK
<1>2. /\ pool' = [a \in Addrs |-> IF pool[a] = c THEN NoConn ELSE pool[a]]
      /\ state' = [state EXCEPT ![c] = "closed"]
      /\ stopped' = stopped \union {c} /\ key' = key /\ idle' = idle \ {c}
  BY DEF CloseAndDrop
<1>3. Occupied' = {a \in Addrs : pool[a] # NoConn /\ pool[a] # c}
  BY <1>1, <1>2 DEF Occupied
<1>4. Pooled' = Pooled \ {c}
  BY <1>1, <1>2, <1>3 DEF Pooled, Occupied
<1>5. Occupied' \subseteq Occupied
  BY <1>3 DEF Occupied
<1> QED
  BY <1>1, <1>2, <1>4, <1>5

\* Every connection in the pool is a connection.
LEMMA PooledFacts == DataTypeOK => Pooled \subseteq Conns
  BY DEF DataTypeOK, Pooled, Occupied

\* A request that sets out on, or leaves, a job; and one that goes on with it.
LEMMA StartFacts ==
    ASSUME DataTypeOK, NEW q \in Reqs, NEW label, NEW j, Start(q, label, j)
    PROVE  /\ pc'[q] = label /\ job'[q] = j
           /\ \A r \in Reqs \ {q} : pc'[r] = pc[r] /\ job'[r] = job[r]
           /\ label \in ReqLabels => pc' \in [Reqs -> ReqLabels]
           /\ j \in Jobs => job' \in [Reqs -> Jobs]
  BY DEF DataTypeOK, Start

LEMMA GotoFacts ==
    ASSUME DataTypeOK, NEW q \in Reqs, NEW label, Goto(q, label)
    PROVE  /\ pc'[q] = label /\ job' = job
           /\ label \in ReqLabels => pc' \in [Reqs -> ReqLabels]
           /\ \A r \in Reqs \ {q} : pc'[r] = pc[r] /\ job'[r] = job[r]
  BY DEF DataTypeOK, Goto

LEMMA JobFacts ==
    /\ NoJob \in Jobs
    /\ \A c \in Conns : [NoJob EXCEPT !.conn = c] \in Jobs /\ [NoJob EXCEPT !.conn = c].conn = c
  BY DEF NoJob, Jobs

\* Every step keeps the types.
LEMMA DataTypeStep == PoolInv /\ [Next]_vars => DataTypeOK'
<1> SUFFICES ASSUME PoolInv, [Next]_vars PROVE DataTypeOK'
  OBVIOUS
<1> DataTypeOK /\ Knows /\ Pooled \subseteq Conns
  BY PooledFacts DEF PoolInv, PoolTypeOK
<1> USE ConnectionPoolAssumption, LabelFacts
<1>1. ASSUME NEW q \in Reqs, NEW m \in Remotes, NEW k \in Keys \union {NoKey}, ConnectLock(q, m, k) PROVE DataTypeOK'
  <2> DEFINE j == [remote |-> m, addr |-> addr[m], key |-> k, conn |-> pool[addr[m]]]
             label == IF pool[addr[m]] = NoConn THEN "check" ELSE "health"
  <2>1. j \in Jobs /\ label \in ReqLabels /\ Start(q, label, j)
    BY <1>1 DEF ConnectLock, DataTypeOK, Jobs
  <2>2. job' \in [Reqs -> Jobs] /\ pc' \in [Reqs -> ReqLabels]
    <3> HIDE DEF j, label
    <3> QED
      BY <2>1, StartFacts DEF DataTypeOK
  <2> QED
    BY <1>1, <2>2 DEF ConnectLock, DataTypeOK, connVars
<1>2. ASSUME NEW q \in Reqs, ConnectHealth(q) PROVE DataTypeOK'
  BY <1>2 DEF ConnectHealth, DataTypeOK, Jobs, Goto, Start, End, NoJob, connVars, tagVars, reqVars
<1>3. ASSUME NEW q \in Reqs, ConnectReplace(q) PROVE DataTypeOK'
  <2>1. job[q].conn \in Conns /\ CloseAndDrop(job[q].conn)
    BY <1>3 DEF ConnectReplace, Knows, KnowsReq
  <2> QED
    BY <1>3, <2>1, DropFacts DEF ConnectReplace, DataTypeOK, Goto, tagVars
<1>4. ASSUME NEW q \in Reqs, ConnectCheck(q) PROVE DataTypeOK'
  <2>1. job' \in [Reqs -> Jobs] /\ pc' \in [Reqs -> ReqLabels]
    BY <1>4, StartFacts, GotoFacts, JobFacts DEF ConnectCheck, End, DataTypeOK
  <2> QED
    BY <1>4, <2>1 DEF ConnectCheck, DataTypeOK, connVars, tagVars
<1>5. ASSUME NEW q \in Reqs, DialFails(q) PROVE DataTypeOK'
  BY <1>5 DEF DialFails, DataTypeOK, Jobs, Goto, Start, End, NoJob, connVars, tagVars, reqVars
<1>6. ASSUME NEW q \in Reqs, NEW c \in Conns, Dial(q, c) PROVE DataTypeOK'
  <2>1. job[q].addr \in Addrs /\ job[q].key \in Keys \union {NoKey}
    BY <1>6 DEF Dial, Knows, KnowsReq, DataTypeOK, Jobs
  <2>2. pool' \in [Addrs -> Conns \union {NoConn}]
    BY <1>6, <2>1 DEF Dial, DataTypeOK
  <2>3. job' \in [Reqs -> Jobs]
    BY <1>6 DEF Dial, DataTypeOK, Jobs, Start
  <2>4. dog' \in [Conns -> DogLabels]
    BY <1>6 DEF Dial, DataTypeOK
  <2>5. state' \in [Conns -> ConnStates] /\ key' \in [Conns -> Keys \union {NoKey}]
    BY <1>6, <2>1 DEF Dial, DataTypeOK
  <2> QED
    BY <1>6, <2>2, <2>3, <2>4, <2>5 DEF Dial, DataTypeOK, Start, tagVars
<1>7. ASSUME NEW q \in Reqs, ConnectTag(q) PROVE DataTypeOK'
  <2>1. job[q].conn \in Conns /\ job[q].remote \in Remotes
    BY <1>7 DEF ConnectTag, Knows, KnowsReq, Connecting
  <2>2. job' \in [Reqs -> Jobs] /\ pc' \in [Reqs -> ReqLabels]
    BY <1>7, StartFacts, JobFacts DEF ConnectTag, End, DataTypeOK
  <2> QED
    BY <1>7, <2>1, <2>2 DEF ConnectTag, DataTypeOK, connVars
<1>8. ASSUME NEW q \in Reqs, NEW c \in Conns, DisconnectFind(q, c) PROVE DataTypeOK'
  <2>1. job' \in [Reqs -> Jobs] /\ pc' \in [Reqs -> ReqLabels]
    BY <1>8, StartFacts, JobFacts DEF DisconnectFind, DataTypeOK
  <2> QED
    BY <1>8, <2>1 DEF DisconnectFind, DataTypeOK, connVars, tagVars
<1>9. ASSUME NEW q \in Reqs, DisconnectClose(q) PROVE DataTypeOK'
  <2>1. job[q].conn \in Conns /\ CloseAndDrop(job[q].conn)
    BY <1>9 DEF DisconnectClose, Knows, KnowsReq
  <2>2. job' \in [Reqs -> Jobs] /\ pc' \in [Reqs -> ReqLabels]
    BY <1>9, StartFacts, GotoFacts, JobFacts DEF DisconnectClose, End, DataTypeOK
  <2> QED
    BY <1>9, <2>1, <2>2, DropFacts DEF DisconnectClose, DataTypeOK, tagVars
<1>10. ASSUME NEW q \in Reqs, NEW c \in Conns, ExecGet(q, c) PROVE DataTypeOK'
  <2>1. job' \in [Reqs -> Jobs] /\ pc' \in [Reqs -> ReqLabels]
    BY <1>10, StartFacts, GotoFacts, JobFacts DEF ExecGet, Get, End, DataTypeOK
  <2> QED
    BY <1>10, <2>1 DEF ExecGet, Get, DataTypeOK, connVars, tagVars
<1>11. ASSUME NEW q \in Reqs, ExecStart(q) PROVE DataTypeOK'
  <2>1. job' \in [Reqs -> Jobs] /\ pc' \in [Reqs -> ReqLabels]
    BY <1>11, StartFacts, GotoFacts, JobFacts DEF ExecStart, End, DataTypeOK
  <2> QED
    BY <1>11, <2>1 DEF ExecStart, Knows, KnowsReq, DataTypeOK, connVars, tagVars
<1>12. ASSUME NEW q \in Reqs, ExecEnd(q) PROVE DataTypeOK'
  BY <1>12 DEF ExecEnd, Knows, KnowsReq, DataTypeOK, Jobs, Goto, Start, End, NoJob, connVars, tagVars, reqVars
<1>13. ASSUME NEW c \in Conns, KeepAliveSend(c) \/ KeepAliveReply(c) PROVE DataTypeOK'
  BY <1>13 DEF KeepAliveSend, KeepAliveReply, DataTypeOK, Jobs, Goto, Start, End, NoJob, connVars, tagVars, reqVars
<1>14. ASSUME NEW c \in Conns, DogTick(c) \/ DogStop(c) PROVE DataTypeOK'
  BY <1>14 DEF DogTick, DogStop, DataTypeOK, Jobs, Goto, Start, End, NoJob, connVars, tagVars, reqVars
<1>15. ASSUME NEW c \in Conns, DogDisconnect(c) PROVE DataTypeOK'
  BY <1>15 DEF DogDisconnect, DataTypeOK, Jobs, Goto, Start, End, NoJob, connVars, tagVars, reqVars
<1>16. ASSUME NEW c \in Conns, DogClose(c) PROVE DataTypeOK'
  BY <1>16, DropFacts DEF DogClose, DataTypeOK, reqVars, tagVars
<1>17. ASSUME SweepBegin \/ SweepEnd PROVE DataTypeOK'
  BY <1>17 DEF SweepBegin, SweepEnd, DataTypeOK, Jobs, Goto, Start, End, NoJob, connVars, tagVars, reqVars
<1>18. ASSUME NEW c \in Conns, SweepVisit(c) PROVE DataTypeOK'
  <2>1. CASE c \in idle
    BY <1>18, <2>1, DropFacts DEF SweepVisit, DataTypeOK, reqVars, tagVars
  <2>2. CASE c \notin idle
    BY <1>18, <2>2 DEF SweepVisit, DataTypeOK, connVars, tagVars, reqVars
  <2> QED
    BY <2>1, <2>2
<1>19. ASSUME NEW c \in Conns, Break(c) \/ GrowIdle(c) PROVE DataTypeOK'
  BY <1>19 DEF Break, GrowIdle, DataTypeOK, Jobs, Goto, Start, End, NoJob, connVars, tagVars, reqVars
<1>20. ASSUME NEW keys \in SUBSET Keys, AgentChange(keys) PROVE DataTypeOK'
  BY <1>20 DEF AgentChange, DataTypeOK, Jobs, Goto, Start, End, NoJob, connVars, tagVars, reqVars
<1>21. ASSUME UNCHANGED vars PROVE DataTypeOK'
  BY <1>21 DEF vars, DataTypeOK, connVars, tagVars, reqVars
<1>22. ASSUME NEW m \in Remotes, NEW a \in Addrs, UpdateRemote(m, a) PROVE DataTypeOK'
  BY <1>22 DEF UpdateRemote, DataTypeOK, Jobs, connVars, reqVars
<1> QED
  BY <1>1, <1>2, <1>3, <1>4, <1>5, <1>6, <1>7, <1>8, <1>9, <1>10, <1>11, <1>12, <1>13, <1>14, <1>15, <1>16, <1>17, <1>18, <1>19, <1>20, <1>21, <1>22, MoveFacts
     DEF Next, NewRequest, RequestStep, ConnectStep, DogStep, SweepStep

\* Every step leaves p.mu with the one who needs it.
LEMMA LockTypeStep == PoolInv /\ [Next]_vars => LockTypeOK'
<1> SUFFICES ASSUME PoolInv, [Next]_vars PROVE LockTypeOK'
  OBVIOUS
<1> DataTypeOK /\ LockTypeOK
  BY DEF PoolInv, PoolTypeOK
<1> USE ConnectionPoolAssumption, LockingFacts
<1>1. ASSUME NEW q \in Reqs, NEW m \in Remotes, NEW k \in Keys \union {NoKey}, ConnectLock(q, m, k) PROVE LockTypeOK'
  BY <1>1 DEF ConnectLock, LockTypeOK, DataTypeOK, Goto, Start, End, NoJob, reqVars
<1>2. ASSUME NEW q \in Reqs, ConnectHealth(q) PROVE LockTypeOK'
  BY <1>2 DEF ConnectHealth, LockTypeOK, DataTypeOK, Goto, Start, End, NoJob, reqVars
<1>3. ASSUME NEW q \in Reqs, ConnectReplace(q) PROVE LockTypeOK'
  BY <1>3 DEF ConnectReplace, LockTypeOK, DataTypeOK, Goto, Start, End, NoJob, reqVars
<1>4. ASSUME NEW q \in Reqs, ConnectCheck(q) PROVE LockTypeOK'
  BY <1>4 DEF ConnectCheck, LockTypeOK, DataTypeOK, Goto, Start, End, NoJob, reqVars
<1>5. ASSUME NEW q \in Reqs, DialFails(q) PROVE LockTypeOK'
  BY <1>5 DEF DialFails, LockTypeOK, DataTypeOK, Goto, Start, End, NoJob, reqVars
<1>6. ASSUME NEW q \in Reqs, NEW c \in Conns, Dial(q, c) PROVE LockTypeOK'
  <2>1. poolMu' = NoOne /\ pc' = [pc EXCEPT ![q] = "tag"] /\ poolMu = q
    BY <1>6 DEF Dial, Start, LockTypeOK
  <2>2. \A d \in Conns : dog[d] # "closing"
    BY <2>1 DEF LockTypeOK
  <2>3. \A d \in Conns : dog'[d] # "closing"
    BY <1>6, <2>2 DEF Dial, DataTypeOK
  <2> QED
    BY <2>1, <2>3 DEF LockTypeOK, DataTypeOK
<1>7. ASSUME NEW q \in Reqs, ConnectTag(q) PROVE LockTypeOK'
  BY <1>7 DEF ConnectTag, LockTypeOK, DataTypeOK, Goto, Start, End, NoJob, reqVars
<1>8. ASSUME NEW q \in Reqs, NEW c \in Conns, DisconnectFind(q, c) \/ ExecGet(q, c) PROVE LockTypeOK'
  BY <1>8 DEF DisconnectFind, ExecGet, Get, LockTypeOK, DataTypeOK, Goto, Start, End, NoJob, reqVars
<1>9. ASSUME NEW q \in Reqs, DisconnectClose(q) PROVE LockTypeOK'
  BY <1>9 DEF DisconnectClose, LockTypeOK, DataTypeOK, Goto, Start, End, NoJob, reqVars
<1>10. ASSUME NEW q \in Reqs, ExecStart(q) PROVE LockTypeOK'
  BY <1>10 DEF ExecStart, LockTypeOK, DataTypeOK, Goto, Start, End, NoJob, reqVars
<1>11. ASSUME NEW q \in Reqs, ExecEnd(q) PROVE LockTypeOK'
  BY <1>11 DEF ExecEnd, LockTypeOK, DataTypeOK, Goto, Start, End, NoJob, reqVars
<1>12. ASSUME NEW c \in Conns, KeepAliveSend(c) \/ KeepAliveReply(c) PROVE LockTypeOK'
  BY <1>12 DEF KeepAliveSend, KeepAliveReply, LockTypeOK, DataTypeOK, Goto, Start, End, NoJob, reqVars
<1>13. ASSUME NEW c \in Conns, DogTick(c) \/ DogStop(c) PROVE LockTypeOK'
  BY <1>13 DEF DogTick, DogStop, LockTypeOK, DataTypeOK, Goto, Start, End, NoJob, reqVars
<1>14. ASSUME NEW c \in Conns, DogDisconnect(c) PROVE LockTypeOK'
  BY <1>14 DEF DogDisconnect, LockTypeOK, DataTypeOK, Goto, Start, End, NoJob, reqVars
<1>15. ASSUME NEW c \in Conns, DogClose(c) PROVE LockTypeOK'
  BY <1>15 DEF DogClose, LockTypeOK, DataTypeOK, Goto, Start, End, NoJob, reqVars
<1>16. ASSUME SweepBegin \/ SweepEnd PROVE LockTypeOK'
  BY <1>16 DEF SweepBegin, SweepEnd, LockTypeOK, DataTypeOK, Goto, Start, End, NoJob, reqVars
<1>17. ASSUME NEW c \in Conns, SweepVisit(c) PROVE LockTypeOK'
  BY <1>17 DEF SweepVisit, LockTypeOK, DataTypeOK, Goto, Start, End, NoJob, reqVars
<1>18. ASSUME NEW c \in Conns, Break(c) \/ GrowIdle(c) PROVE LockTypeOK'
  BY <1>18 DEF Break, GrowIdle, LockTypeOK, DataTypeOK, Goto, Start, End, NoJob, reqVars
<1>19. ASSUME NEW keys \in SUBSET Keys, AgentChange(keys) PROVE LockTypeOK'
  BY <1>19 DEF AgentChange, LockTypeOK, DataTypeOK, Goto, Start, End, NoJob, reqVars
<1>20. ASSUME UNCHANGED vars PROVE LockTypeOK'
  BY <1>20 DEF vars, LockTypeOK, DataTypeOK, Goto, Start, End, NoJob, reqVars
<1>21. ASSUME NEW m \in Remotes, NEW a \in Addrs, UpdateRemote(m, a) PROVE LockTypeOK'
  BY <1>21 DEF UpdateRemote, LockTypeOK, DataTypeOK, Jobs, connVars, reqVars
<1> QED
  BY <1>1, <1>2, <1>3, <1>4, <1>5, <1>6, <1>7, <1>8, <1>9, <1>10, <1>11, <1>12, <1>13, <1>14, <1>15, <1>16, <1>17, <1>18, <1>19, <1>20, <1>21, MoveFacts
     DEF Next, NewRequest, RequestStep, ConnectStep, DogStep, SweepStep

\* A dialled connection joins the others in the pool, at an address that was
\* free: nothing is overwritten.
LEMMA DialFacts ==
    ASSUME PoolInv, NEW q \in Reqs, NEW c \in Conns, Dial(q, c)
    PROVE  /\ job[q].addr \in Addrs \ Occupied
           /\ Occupied' = Occupied \union {job[q].addr}
           /\ Pooled' = Pooled \union {c}
<1>1. job[q].addr \in Addrs /\ pool[job[q].addr] = NoConn
  BY ConnectionPoolAssumption DEF PoolInv, Knows, KnowsReq, Dial
<1>2. pool' = [pool EXCEPT ![job[q].addr] = c] /\ c # NoConn
  BY ConnectionPoolAssumption DEF Dial
<1>3. pool \in [Addrs -> Conns \union {NoConn}]
  BY DEF PoolInv, PoolTypeOK, DataTypeOK
<1> QED
  BY <1>1, <1>2, <1>3 DEF Pooled, Occupied

\* The pool and the connections stay as they are in a step that closes and
\* dials nothing.
LEMMA StillFacts == UNCHANGED pool => Pooled' = Pooled /\ Occupied' = Occupied
  BY DEF Pooled, Occupied

\* Every step keeps the open connections and the pooled ones the same.
LEMMA OpenStep == PoolInv /\ [Next]_vars => OpenIsPooled'
<1> SUFFICES ASSUME PoolInv, [Next]_vars PROVE OpenIsPooled'
  OBVIOUS
<1> DataTypeOK /\ OpenIsPooled /\ Knows /\ Pooled \subseteq Conns
  BY PooledFacts DEF PoolInv, PoolTypeOK
<1>1. ASSUME UNCHANGED <<pool, state>> PROVE OpenIsPooled'
  BY <1>1, StillFacts DEF OpenIsPooled
<1>2. ASSUME NEW c \in Conns, CloseAndDrop(c) PROVE OpenIsPooled'
  BY <1>2, DropFacts DEF OpenIsPooled, DataTypeOK
<1>3. ASSUME NEW q \in Reqs, NEW c \in Conns, Dial(q, c) PROVE OpenIsPooled'
  <2>1. state' = [state EXCEPT ![c] = "open"] /\ state \in [Conns -> ConnStates]
    BY <1>3 DEF Dial, DataTypeOK
  <2> QED
    BY <1>3, <2>1, DialFacts DEF OpenIsPooled
<1>4. ASSUME NEW c \in Conns, Break(c) PROVE OpenIsPooled'
  BY <1>4, StillFacts DEF Break, OpenIsPooled, DataTypeOK
<1>5. ASSUME NEW q \in Reqs, ConnectReplace(q) \/ DisconnectClose(q) PROVE OpenIsPooled'
  <2>1. job[q].conn \in Conns /\ CloseAndDrop(job[q].conn)
    BY <1>5 DEF ConnectReplace, DisconnectClose, Knows, KnowsReq
  <2> QED
    BY <1>2, <2>1
<1>6. ASSUME NEW c \in Conns, SweepVisit(c) PROVE OpenIsPooled'
  BY <1>1, <1>2, <1>6 DEF SweepVisit, connVars, tagVars
<1>7. ASSUME NEW c \in Conns, DogStep(c) PROVE OpenIsPooled'
  BY <1>1, <1>2, <1>7 DEF DogStep, DogTick, DogDisconnect, DogClose, DogStop, connVars, tagVars
<1>8. ASSUME NEW q \in Reqs, NewRequest(q) \/ ExecStart(q) \/ ExecEnd(q) PROVE OpenIsPooled'
  BY <1>1, <1>8 DEF NewRequest, ConnectLock, DisconnectFind, ExecGet, Get, ExecStart, ExecEnd, connVars, tagVars
<1>9. ASSUME NEW q \in Reqs,
             ConnectHealth(q) \/ ConnectCheck(q) \/ DialFails(q) \/ ConnectTag(q)
      PROVE OpenIsPooled'
  BY <1>1, <1>9 DEF ConnectHealth, ConnectCheck, DialFails, ConnectTag, connVars, tagVars
<1>10. ASSUME NEW c \in Conns, KeepAliveSend(c) \/ KeepAliveReply(c) \/ GrowIdle(c)
       PROVE OpenIsPooled'
  BY <1>1, <1>10 DEF KeepAliveSend, KeepAliveReply, GrowIdle, connVars, tagVars
<1>11. ASSUME SweepBegin \/ SweepEnd PROVE OpenIsPooled'
  BY <1>1, <1>11 DEF SweepBegin, SweepEnd, connVars, tagVars
<1>12. ASSUME NEW keys \in SUBSET Keys, AgentChange(keys) PROVE OpenIsPooled'
  BY <1>1, <1>12 DEF AgentChange, connVars, tagVars
<1>13. ASSUME UNCHANGED vars PROVE OpenIsPooled'
  BY <1>1, <1>13 DEF vars, connVars, tagVars
<1>14. ASSUME NEW m \in Remotes, NEW a \in Addrs, UpdateRemote(m, a) PROVE OpenIsPooled'
  BY <1>1, <1>14 DEF UpdateRemote, connVars
<1> QED
  BY <1>3, <1>4, <1>5, <1>6, <1>7, <1>8, <1>9, <1>10, <1>11, <1>12, <1>13, <1>14, MoveFacts
     DEF Next, RequestStep, ConnectStep, SweepStep

\* A request that does not move knows what it knew while the pool is the same.
LEMMA ReqUnmoved ==
    ASSUME NEW r \in Reqs, KnowsReq(r), UNCHANGED pool, pc'[r] = pc[r], job'[r] = job[r]
    PROVE  KnowsReq(r)'
  BY StillFacts DEF KnowsReq

\* One that does not move and does not hold p.mu depends on no one's pool.
LEMMA ReqBystander ==
    ASSUME NEW r \in Reqs, LockTypeOK, KnowsReq(r), poolMu # r,
           pc'[r] = pc[r], job'[r] = job[r]
    PROVE  KnowsReq(r)'
<1>1. pc[r] \notin Locking
  BY DEF LockTypeOK
<1> QED
  BY <1>1, LockingFacts DEF KnowsReq

\* Steps of a request that change the pool concern no watcher and no sweep.
LEMMA HolderAlone ==
    ASSUME NEW q \in Reqs, LockTypeOK, pc[q] \in Locking
    PROVE  /\ poolMu = q /\ poolMu # Janitor
           /\ \A r \in Reqs \ {q} : poolMu # r
           /\ \A c \in Conns : dog[c] # "closing"
  BY ConnectionPoolAssumption DEF LockTypeOK

\* Every step keeps what everyone knows.
LEMMA KnowsStep == PoolInv /\ [Next]_vars => Knows'
<1> SUFFICES ASSUME PoolInv, [Next]_vars PROVE Knows'
  OBVIOUS
<1> DataTypeOK /\ LockTypeOK /\ Knows /\ Pooled \subseteq Conns
  BY PooledFacts DEF PoolInv, PoolTypeOK
<1> USE ConnectionPoolAssumption
<1>1. ASSUME UNCHANGED <<pool, dog, sweep>>, poolMu' # Janitor
      PROVE  (\A c \in Conns : KnowsDog(c)') /\ KnowsSweep'
  BY <1>1, StillFacts DEF Knows, KnowsDog, KnowsSweep
<1>2. ASSUME NEW q \in Reqs, pc[q] \in Locking, \A c \in Conns : dog'[c] # "closing",
             poolMu' # Janitor, KnowsReq(q)',
             \A r \in Reqs \ {q} : pc'[r] = pc[r] /\ job'[r] = job[r]
      PROVE  Knows'
  BY <1>2, HolderAlone, ReqBystander DEF Knows, KnowsDog, KnowsSweep
<1>3. ASSUME NEW q \in Reqs, NEW m \in Remotes, NEW k \in Keys \union {NoKey},
             ConnectLock(q, m, k)
      PROVE  Knows'
  <2>1. UNCHANGED <<pool, dog, sweep>> /\ poolMu' # Janitor
    BY <1>3 DEF ConnectLock
  <2>2. /\ \A r \in Reqs \ {q} : pc'[r] = pc[r] /\ job'[r] = job[r]
        /\ pc'[q] = IF pool[addr[m]] = NoConn THEN "check" ELSE "health"
        /\ job'[q] = [remote |-> m, addr |-> addr[m], key |-> k, conn |-> pool[addr[m]]]
    BY <1>3, StartFacts DEF ConnectLock
  <2>3. job'[q].remote = m /\ job'[q].addr = addr[m] /\ job'[q].conn = pool[addr[m]]
    BY <2>2
  <2>4. addr[m] \in Addrs /\ pool[addr[m]] \in Conns \union {NoConn}
    BY DEF DataTypeOK
  <2>5. CASE pool[addr[m]] = NoConn
    <3>1. pc'[q] = "check"
      BY <2>2, <2>5
    <3>2. KnowsReq(q)'
      BY <3>1, <2>1, <2>3, <2>4, <2>5 DEF KnowsReq
    <3> QED
      BY <1>1, <2>1, <2>2, <3>2, ReqUnmoved DEF Knows
  <2>6. CASE pool[addr[m]] # NoConn
    <3>1. pc'[q] = "health"
      BY <2>2, <2>6
    <3>2. pool[addr[m]] \in Pooled
      BY <2>4, <2>6 DEF Pooled, Occupied
    <3>3. KnowsReq(q)'
      BY <3>1, <3>2, <2>1, <2>3, <2>4, StillFacts DEF KnowsReq
    <3> QED
      BY <1>1, <2>1, <2>2, <3>3, ReqUnmoved DEF Knows
  <2> QED
    BY <2>5, <2>6
<1>4. ASSUME NEW q \in Reqs, ConnectHealth(q) \/ ConnectCheck(q) \/ DialFails(q) PROVE Knows'
  <2>1. pc[q] \in Locking /\ UNCHANGED <<pool, dog, sweep>>
    BY <1>4, LockingFacts DEF ConnectHealth, ConnectCheck, DialFails
  <2>2. poolMu' = q \/ poolMu' = NoOne
    BY <1>4, <2>1, HolderAlone DEF ConnectHealth, ConnectCheck, DialFails
  <2>3. \A r \in Reqs \ {q} : pc'[r] = pc[r] /\ job'[r] = job[r]
    BY <1>4, StartFacts, GotoFacts DEF ConnectHealth, ConnectCheck, DialFails, End
  <2>4. \/ pc[q] = "health" /\ (pc'[q] = "tag" \/ pc'[q] = "replace") /\ job' = job
        \/ pc[q] = "check" /\ pc'[q] = "dial" /\ job' = job
        \/ pc'[q] = "idle"
    BY <1>4, StartFacts, GotoFacts DEF ConnectHealth, ConnectCheck, DialFails, End
  <2>5. KnowsReq(q)
    BY DEF Knows
  <2>6. KnowsReq(q)'
    BY <2>1, <2>4, <2>5, StillFacts DEF KnowsReq, Connecting
  <2> QED
    BY <1>2, <2>1, <2>2, <2>3, <2>6, HolderAlone
<1>5. ASSUME NEW q \in Reqs, ConnectReplace(q) PROVE Knows'
  <2>1. /\ job[q].conn \in Conns /\ job[q].remote \in Remotes /\ job[q].addr \in Addrs
        /\ pool[job[q].addr] = job[q].conn
    BY <1>5 DEF ConnectReplace, Knows, KnowsReq, Connecting
  <2>2. CloseAndDrop(job[q].conn) /\ pc[q] \in Locking /\ UNCHANGED <<dog, poolMu>>
    BY <1>5, LockingFacts DEF ConnectReplace
  <2>3. pool'[job[q].addr] = NoConn
    BY <2>1, <2>2, DropFacts
  <2>4. pc'[q] = "check" /\ job' = job /\ \A r \in Reqs \ {q} : pc'[r] = pc[r]
    BY <1>5, GotoFacts DEF ConnectReplace
  <2>5. KnowsReq(q)'
    BY <2>1, <2>2, <2>3, <2>4 DEF KnowsReq
  <2> QED
    BY <1>2, <2>2, <2>4, <2>5, HolderAlone
<1>6. ASSUME NEW q \in Reqs, NEW c \in Conns, Dial(q, c) PROVE Knows'
  <2>1. pc[q] \in Locking /\ poolMu' = NoOne
    BY <1>6, LockingFacts DEF Dial
  <2>2. pc'[q] = "tag" /\ \A r \in Reqs \ {q} : pc'[r] = pc[r] /\ job'[r] = job[r]
    BY <1>6, StartFacts DEF Dial
  <2>3. job'[q].conn = c /\ job'[q].remote = job[q].remote
    BY <1>6, StartFacts DEF Dial, DataTypeOK, Jobs
  <2>4. job[q].remote \in Remotes
    BY <1>6 DEF Dial, Knows, KnowsReq, Connecting
  <2>5. KnowsReq(q)'
    BY <2>2, <2>3, <2>4 DEF KnowsReq
  <2>6. \A d \in Conns : dog'[d] # "closing"
    BY <1>6, <2>1, HolderAlone DEF Dial, DataTypeOK
  <2> QED
    BY <1>2, <2>1, <2>2, <2>5, <2>6
<1>7. ASSUME NEW q \in Reqs, DisconnectClose(q) PROVE Knows'
  <2>1. pc[q] \in Locking /\ poolMu' = NoOne /\ UNCHANGED dog
    BY <1>7, LockingFacts DEF DisconnectClose
  <2>2. pc'[q] = "idle" /\ \A r \in Reqs \ {q} : pc'[r] = pc[r] /\ job'[r] = job[r]
    BY <1>7, StartFacts DEF DisconnectClose, End
  <2>3. KnowsReq(q)'
    BY <2>2 DEF KnowsReq, Connecting
  <2> QED
    BY <1>2, <2>1, <2>2, <2>3, HolderAlone
<1>8. ASSUME NEW q \in Reqs, NEW c \in Conns, DisconnectFind(q, c) \/ ExecGet(q, c) PROVE Knows'
  <2>1. UNCHANGED <<pool, dog, sweep>> /\ poolMu' # Janitor /\ c \in Pooled
    BY <1>8 DEF DisconnectFind, ExecGet, Get
  <2>2. \A r \in Reqs \ {q} : pc'[r] = pc[r] /\ job'[r] = job[r]
    BY <1>8, StartFacts DEF DisconnectFind, ExecGet
  <2>3. job'[q].conn = c /\ (pc'[q] = "close" \/ pc'[q] = "exec")
    <3>1. [NoJob EXCEPT !.conn = c].conn = c
      BY JobFacts
    <3>2. PICK label \in {"close", "exec"} : Start(q, label, [NoJob EXCEPT !.conn = c])
      BY <1>8 DEF DisconnectFind, ExecGet
    <3>3. pc'[q] = label /\ job'[q] = [NoJob EXCEPT !.conn = c]
      BY <3>2, StartFacts
    <3> QED
      BY <3>1, <3>2, <3>3
  <2>4. KnowsReq(q)'
    BY <2>1, <2>3, StillFacts DEF KnowsReq, Connecting
  <2> QED
    BY <1>1, <2>1, <2>2, <2>4, ReqUnmoved DEF Knows
<1>9. ASSUME NEW q \in Reqs, ConnectTag(q) \/ ExecStart(q) \/ ExecEnd(q) PROVE Knows'
  <2>1. UNCHANGED <<pool, dog, sweep, poolMu>>
    BY <1>9 DEF ConnectTag, ExecStart, ExecEnd
  <2>2. \A r \in Reqs \ {q} : pc'[r] = pc[r] /\ job'[r] = job[r]
    BY <1>9, StartFacts, GotoFacts DEF ConnectTag, ExecStart, ExecEnd, End
  <2>3. pc'[q] = "idle" \/ (pc[q] = "exec" /\ pc'[q] = "run" /\ job' = job)
    BY <1>9, StartFacts, GotoFacts DEF ConnectTag, ExecStart, ExecEnd, End
  <2>4. KnowsReq(q)'
    BY <2>1, <2>3 DEF Knows, KnowsReq, Connecting
  <2>5. (\A c \in Conns : KnowsDog(c)') /\ KnowsSweep'
    BY <2>1, StillFacts DEF Knows, KnowsDog, KnowsSweep
  <2> QED
    BY <2>1, <2>2, <2>4, <2>5, ReqUnmoved DEF Knows
<1>10. ASSUME UNCHANGED <<pool, pc, job>>, \A c \in Conns : KnowsDog(c)', KnowsSweep' PROVE Knows'
  BY <1>10, ReqUnmoved DEF Knows
<1>11. ASSUME UNCHANGED <<pool, pc, job, dog, sweep, poolMu>> PROVE Knows'
  BY <1>10, <1>11, StillFacts DEF Knows, KnowsDog, KnowsSweep
<1>12. ASSUME NEW c \in Conns,
              KeepAliveSend(c) \/ KeepAliveReply(c) \/ Break(c) \/ GrowIdle(c)
       PROVE  Knows'
  BY <1>11, <1>12 DEF KeepAliveSend, KeepAliveReply, Break, GrowIdle, reqVars
<1>13. ASSUME NEW c \in Conns, DogTick(c) \/ DogStop(c) \/ DogDisconnect(c) PROVE Knows'
  <2>1. UNCHANGED <<pool, pc, job, sweep>> /\ (poolMu' = poolMu \/ poolMu' = c)
    BY <1>13 DEF DogTick, DogStop, DogDisconnect, reqVars
  <2>2. KnowsSweep'
    BY <2>1, StillFacts DEF Knows, KnowsSweep
  <2>3. ASSUME NEW d \in Conns PROVE KnowsDog(d)'
    BY <1>13, <2>1, StillFacts DEF DogTick, DogStop, DogDisconnect, Knows, KnowsDog, DataTypeOK
  <2> QED
    BY <1>10, <2>1, <2>2, <2>3
<1>14. ASSUME NEW c \in Conns, DogClose(c) PROVE Knows'
  <2>1. poolMu = c /\ poolMu' = NoOne /\ UNCHANGED <<pc, job>>
    BY <1>14 DEF DogClose, LockTypeOK, reqVars
  <2>2. \A r \in Reqs : poolMu # r
    BY <2>1
  <2>3. ASSUME NEW d \in Conns PROVE KnowsDog(d)'
    BY <1>14, <2>1 DEF DogClose, KnowsDog, DataTypeOK, LockTypeOK
  <2> QED
    BY <2>1, <2>2, <2>3, ReqBystander DEF Knows, KnowsSweep
<1>15. ASSUME SweepBegin \/ SweepEnd PROVE Knows'
  <2>1. UNCHANGED <<pool, pc, job, dog>> /\ (sweep' = Pooled \/ poolMu' = NoOne)
    BY <1>15 DEF SweepBegin, SweepEnd, reqVars
  <2>2. KnowsSweep' /\ \A c \in Conns : KnowsDog(c)'
    BY <2>1, StillFacts DEF Knows, KnowsDog, KnowsSweep
  <2> QED
    BY <1>10, <2>1, <2>2
<1>16. ASSUME NEW c \in Conns, SweepVisit(c) PROVE Knows'
  <2>1. poolMu = Janitor /\ UNCHANGED <<pc, job, dog, poolMu>> /\ sweep' = sweep \ {c}
    BY <1>16 DEF SweepVisit, reqVars
  <2>2. (\A r \in Reqs : poolMu # r) /\ \A d \in Conns : dog[d] # "closing"
    BY <2>1 DEF LockTypeOK
  <2>3. Pooled' = Pooled \/ Pooled' = Pooled \ {c}
    BY <1>16, DropFacts, StillFacts DEF SweepVisit
  <2>4. KnowsSweep'
    BY <2>1, <2>3 DEF Knows, KnowsSweep
  <2> QED
    BY <2>1, <2>2, <2>4, ReqBystander DEF Knows, KnowsDog
<1>17. ASSUME NEW keys \in SUBSET Keys, AgentChange(keys) PROVE Knows'
  BY <1>11, <1>17 DEF AgentChange, reqVars
<1>18. ASSUME UNCHANGED vars PROVE Knows'
  BY <1>11, <1>18 DEF vars, reqVars
<1>19. ASSUME NEW m \in Remotes, NEW a \in Addrs, UpdateRemote(m, a) PROVE Knows'
  BY <1>11, <1>19 DEF UpdateRemote, reqVars
<1> QED
  BY <1>3, <1>4, <1>5, <1>6, <1>7, <1>8, <1>9, <1>12, <1>13, <1>14, <1>15, <1>16, <1>17, <1>18, <1>19, MoveFacts
     DEF Next, NewRequest, RequestStep, ConnectStep, DogStep, SweepStep

\* Together: the invariant is inductive.
LEMMA PoolInvStep == PoolInv /\ [Next]_vars => PoolInv'
  BY DataTypeStep, LockTypeStep, OpenStep, KnowsStep DEF PoolInv, PoolTypeOK

LEMMA PoolInvInit == Init => PoolInv
<1> SUFFICES ASSUME Init PROVE PoolInv
  OBVIOUS
<1> USE ConnectionPoolAssumption, LabelFacts, LockingFacts
<1>1. DataTypeOK
  BY DEF Init, DataTypeOK, Jobs, NoJob
<1>2. LockTypeOK
  BY DEF Init, LockTypeOK
<1>3. Pooled = {}
  BY DEF Init, Pooled, Occupied
<1>4. OpenIsPooled
  BY <1>3 DEF Init, OpenIsPooled
<1>5. Knows
  BY <1>3 DEF Init, Knows, KnowsReq, KnowsDog, KnowsSweep, Connecting
<1> QED
  BY <1>1, <1>2, <1>4, <1>5 DEF PoolInv, PoolTypeOK

\* The state of the pool keeps its types, and p.mu is held exactly by the one
\* whose step needs it, on every path through Connect, Disconnect, cleanup and
\* watchKeyPresence.
THEOREM PoolTyped == Spec => []PoolTypeOK
  BY PoolInvInit, PoolInvStep, PTL DEF Spec, PoolInv

\* No connection escapes the pool and no closed one stays in it, whatever
\* Connect, Disconnect, cleanup and watchKeyPresence do to each other.
THEOREM PoolKeepsOpen == Spec => []OpenIsPooled
  BY PoolInvInit, PoolInvStep, PTL DEF Spec, PoolInv
--------------------------------------------------------------------------------
\* Only Dial occupies an address.
LEMMA ShrinkStep ==
    ASSUME PoolInv, [Next]_vars, \A q \in Reqs, c \in Conns : ~Dial(q, c)
    PROVE  Occupied' \subseteq Occupied
<1> DataTypeOK /\ Knows /\ Pooled \subseteq Conns
  BY PooledFacts DEF PoolInv, PoolTypeOK
<1>1. ASSUME UNCHANGED pool PROVE Occupied' \subseteq Occupied
  BY <1>1, StillFacts
<1>2. ASSUME NEW c \in Conns, CloseAndDrop(c) PROVE Occupied' \subseteq Occupied
  BY <1>2, DropFacts
<1>3. ASSUME NEW q \in Reqs, ConnectReplace(q) \/ DisconnectClose(q)
      PROVE  Occupied' \subseteq Occupied
  <2>1. job[q].conn \in Conns /\ CloseAndDrop(job[q].conn)
    BY <1>3 DEF ConnectReplace, DisconnectClose, Knows, KnowsReq
  <2> QED
    BY <1>2, <2>1
<1>4. ASSUME NEW c \in Conns, SweepVisit(c) \/ DogStep(c) PROVE Occupied' \subseteq Occupied
  BY <1>1, <1>2, <1>4 DEF SweepVisit, DogStep, DogTick, DogDisconnect, DogClose, DogStop
<1>5. ASSUME NEW q \in Reqs, NewRequest(q) \/ ExecStart(q) \/ ExecEnd(q) \/ ConnectHealth(q)
                              \/ ConnectCheck(q) \/ DialFails(q) \/ ConnectTag(q)
      PROVE  Occupied' \subseteq Occupied
  BY <1>1, <1>5 DEF NewRequest, ConnectLock, DisconnectFind, ExecGet, Get, ExecStart, ExecEnd,
                    ConnectHealth, ConnectCheck, DialFails, ConnectTag
<1>6. ASSUME NEW c \in Conns, KeepAliveSend(c) \/ KeepAliveReply(c) \/ Break(c) \/ GrowIdle(c)
      PROVE  Occupied' \subseteq Occupied
  BY <1>1, <1>6 DEF KeepAliveSend, KeepAliveReply, Break, GrowIdle
<1>7. ASSUME SweepBegin \/ SweepEnd \/ UNCHANGED vars PROVE Occupied' \subseteq Occupied
  BY <1>1, <1>7 DEF SweepBegin, SweepEnd, vars
<1>8. ASSUME NEW keys \in SUBSET Keys, AgentChange(keys) PROVE Occupied' \subseteq Occupied
  BY <1>1, <1>8 DEF AgentChange
<1>9. ASSUME NEW m \in Remotes, NEW a \in Addrs, UpdateRemote(m, a) PROVE Occupied' \subseteq Occupied
  BY <1>1, <1>9 DEF UpdateRemote
<1> QED
  BY <1>3, <1>4, <1>5, <1>6, <1>7, <1>8, <1>9, MoveFacts
     DEF Next, RequestStep, ConnectStep, SweepStep

\* A request comes to dial only by the check of the limit.
LEMMA DialLabelStep ==
    ASSUME PoolInv, [Next]_vars, NEW q \in Reqs, pc[q] # "dial", pc'[q] = "dial"
    PROVE  UNCHANGED pool /\ ~(Cardinality(Occupied) >= MaxConnections)
<1>1. pc \in [Reqs -> ReqLabels]
  BY DEF PoolInv, PoolTypeOK, DataTypeOK
<1>2. CASE UNCHANGED pc
  BY <1>2
<1>3. ASSUME NEW r \in Reqs, ConnectCheck(r) PROVE UNCHANGED pool /\ ~(Cardinality(Occupied) >= MaxConnections)
  <2>1. r = q
    BY <1>1, <1>3 DEF ConnectCheck, Goto, Start, End
  <2> QED
    BY <1>1, <1>3, <2>1 DEF ConnectCheck, Goto, Start, End
<1>4. ASSUME NEW r \in Reqs, NEW label, label # "dial", pc' = [pc EXCEPT ![r] = label] PROVE FALSE
  BY <1>1, <1>4
<1>5. ASSUME NEW r \in Reqs, NewRequest(r) PROVE FALSE
  <2>1. \/ pc' = [pc EXCEPT ![r] = "check"] \/ pc' = [pc EXCEPT ![r] = "health"] \/ pc' = [pc EXCEPT ![r] = "close"] \/ pc' = [pc EXCEPT ![r] = "exec"]
    BY <1>5 DEF NewRequest, ConnectLock, DisconnectFind, ExecGet, Get, Start
  <2> QED
    BY <2>1, <1>4
<1>6. ASSUME NEW r \in Reqs, ConnectHealth(r) \/ ConnectReplace(r) \/ DialFails(r) \/ ConnectTag(r)
      PROVE  FALSE
  <2>1. \/ pc' = [pc EXCEPT ![r] = "tag"] \/ pc' = [pc EXCEPT ![r] = "replace"] \/ pc' = [pc EXCEPT ![r] = "check"] \/ pc' = [pc EXCEPT ![r] = "idle"]
    BY <1>6 DEF ConnectHealth, ConnectReplace, DialFails, ConnectTag, Goto, Start, End
  <2> QED
    BY <2>1, <1>4
<1>7. ASSUME NEW r \in Reqs, NEW c \in Conns, Dial(r, c) PROVE FALSE
  BY <1>4, <1>7 DEF Dial, Start
<1>8. ASSUME NEW r \in Reqs, DisconnectClose(r) \/ ExecStart(r) \/ ExecEnd(r) PROVE FALSE
  <2>1. pc' = [pc EXCEPT ![r] = "idle"] \/ pc' = [pc EXCEPT ![r] = "run"]
    BY <1>8 DEF DisconnectClose, ExecStart, ExecEnd, Goto, Start, End
  <2> QED
    BY <2>1, <1>4
<1>9. ASSUME NEW c \in Conns, \/ KeepAliveSend(c) \/ KeepAliveReply(c) \/ DogStep(c)
                              \/ SweepVisit(c) \/ Break(c) \/ GrowIdle(c)
      PROVE  UNCHANGED pc
  BY <1>9 DEF KeepAliveSend, KeepAliveReply, DogStep, DogTick, DogDisconnect, DogClose, DogStop,
              SweepVisit, Break, GrowIdle, reqVars
<1>10. ASSUME SweepBegin \/ SweepEnd \/ UNCHANGED vars PROVE UNCHANGED pc
  BY <1>10 DEF SweepBegin, SweepEnd, vars, reqVars
<1>11. ASSUME NEW keys \in SUBSET Keys, AgentChange(keys) PROVE UNCHANGED pc
  BY <1>11 DEF AgentChange, reqVars
<1>12. ASSUME NEW m \in Remotes, NEW a \in Addrs, UpdateRemote(m, a) PROVE UNCHANGED pc
  BY <1>12 DEF UpdateRemote, reqVars
<1> QED
  BY <1>2, <1>3, <1>5, <1>6, <1>7, <1>8, <1>9, <1>10, <1>11, <1>12, MoveFacts
     DEF Next, RequestStep, ConnectStep, SweepStep

\* A finite set of addresses has a size, and the occupied ones no more.
LEMMA OccupiedFinite ==
    /\ IsFiniteSet(Occupied) /\ Cardinality(Occupied) \in Nat
    /\ IsFiniteSet(Occupied') /\ Cardinality(Occupied') \in Nat
<1>1. Occupied \subseteq Addrs /\ Occupied' \subseteq Addrs
  BY DEF Occupied
<1> QED
  BY <1>1, ConnectionPoolAssumption, FS_Subset, FS_CardinalityType

\* Every step keeps the limit, and the room for the connection being dialled.
LEMMA LimitStep == PoolInv /\ Room /\ PoolWithinLimit /\ [Next]_vars => Room' /\ PoolWithinLimit'
<1> SUFFICES ASSUME PoolInv, Room, PoolWithinLimit, [Next]_vars PROVE Room' /\ PoolWithinLimit'
  OBVIOUS
<1> USE OccupiedFinite
<1>0. MaxConnections \in Nat
  BY ConnectionPoolAssumption
<1>1. ASSUME NEW q \in Reqs, NEW c \in Conns, Dial(q, c) PROVE Room' /\ PoolWithinLimit'
  <2>1. Cardinality(Occupied') = Cardinality(Occupied) + 1
    BY <1>1, DialFacts, FS_AddElement
  <2>2. Cardinality(Occupied) < MaxConnections
    BY <1>1 DEF Dial, Room
  <2>3. PoolWithinLimit'
    BY <1>0, <2>1, <2>2 DEF PoolWithinLimit
  <2>4. ASSUME NEW r \in Reqs PROVE pc'[r] # "dial"
    <3>1. pc \in [Reqs -> ReqLabels] /\ LockTypeOK
      BY DEF PoolInv, PoolTypeOK, DataTypeOK
    <3>2. pc[q] \in Locking /\ pc' = [pc EXCEPT ![q] = "tag"]
      BY <1>1, LockingFacts DEF Dial, Goto, Start, End
    <3>3. r # q => pc[r] # "dial"
      BY <3>1, <3>2, LockingFacts DEF LockTypeOK
    <3> QED
      BY <3>1, <3>2, <3>3
  <2> QED
    BY <2>3, <2>4 DEF Room
<1>2. CASE \A q \in Reqs, c \in Conns : ~Dial(q, c)
  <2>1. Occupied' \subseteq Occupied
    BY <1>2, ShrinkStep
  <2>2. Cardinality(Occupied') <= Cardinality(Occupied)
    BY <2>1, FS_Subset
  <2>3. PoolWithinLimit'
    BY <1>0, <2>2 DEF PoolWithinLimit
  <2>4. ASSUME NEW q \in Reqs, pc'[q] = "dial" PROVE Cardinality(Occupied') < MaxConnections
    <3>1. CASE pc[q] = "dial"
      BY <1>0, <2>2, <3>1 DEF Room
    <3>2. CASE pc[q] # "dial"
      <4>1. Occupied' = Occupied /\ ~(Cardinality(Occupied) >= MaxConnections)
        BY <2>4, <3>2, DialLabelStep, StillFacts
      <4> QED
        BY <1>0, <4>1
    <3> QED
      BY <3>1, <3>2
  <2> QED
    BY <2>3, <2>4 DEF Room
<1> QED
  BY <1>1, <1>2

\* However many Connects race, the pool never holds more connections than
\* MaxConnections, although the limit is checked before the dial.
THEOREM PoolLimit == Spec => []PoolWithinLimit
<1>1. Init => Room /\ PoolWithinLimit
  <2> SUFFICES ASSUME Init PROVE Room /\ PoolWithinLimit
    OBVIOUS
  <2>1. Occupied = {}
    BY DEF Init, Occupied
  <2>2. Cardinality(Occupied) = 0 /\ MaxConnections \in Nat
    BY <2>1, FS_EmptySet, ConnectionPoolAssumption
  <2> QED
    BY <2>2 DEF Init, Room, PoolWithinLimit
<1> QED
  BY <1>1, PoolInvInit, PoolInvStep, LimitStep, PTL DEF Spec

\* The pool has exactly the open connections, within its limit, and its mutex
\* the holder whose step needs it, whatever races.
THEOREM PoolIsSafe == Spec => []PoolSafe
  BY PoolTyped, PoolKeepsOpen, PoolLimit, PTL DEF PoolSafe
--------------------------------------------------------------------------------
\* A command that runs holds the mutex of its connection.
RunsLocked == \A q \in Reqs : pc[q] = "run" => connMu[job[q].conn] = q

\* Every step keeps the mutex with the command.
LEMMA RunsLockedStep == PoolInv /\ RunsLocked /\ [Next]_vars => RunsLocked'
<1> SUFFICES ASSUME PoolInv, RunsLocked, [Next]_vars PROVE RunsLocked'
  OBVIOUS
<1> Knows /\ DataTypeOK /\ Pooled \subseteq Conns
  BY PooledFacts DEF PoolInv, PoolTypeOK
<1> USE ConnectionPoolAssumption
<1>0. connMu \in [Conns -> Reqs \union Conns \union {NoOne}] /\ pc \in [Reqs -> ReqLabels]
  BY DEF DataTypeOK
<1>1. ASSUME NEW q \in Reqs, NEW label, label # "run", pc' = [pc EXCEPT ![q] = label], UNCHANGED connMu,
             \A r \in Reqs \ {q} : job'[r] = job[r]
      PROVE  RunsLocked'
  BY <1>0, <1>1 DEF RunsLocked
<1>2. ASSUME NEW q \in Reqs, NewRequest(q) PROVE RunsLocked'
  <2>1. \A r \in Reqs \ {q} : job'[r] = job[r]
    BY <1>2, StartFacts DEF NewRequest, ConnectLock, DisconnectFind, ExecGet
  <2>2. UNCHANGED connMu
    BY <1>2 DEF NewRequest, ConnectLock, DisconnectFind, ExecGet, Get
  <2>3. pc' = [pc EXCEPT ![q] = "check"] \/ pc' = [pc EXCEPT ![q] = "health"] \/ pc' = [pc EXCEPT ![q] = "close"] \/ pc' = [pc EXCEPT ![q] = "exec"]
    BY <1>2 DEF NewRequest, ConnectLock, DisconnectFind, ExecGet, Get, Start
  <2> QED
    BY <1>1, <2>1, <2>2, <2>3
<1>3. ASSUME NEW q \in Reqs, NEW c \in Conns, Dial(q, c) PROVE RunsLocked'
  <2>1. \A r \in Reqs \ {q} : job'[r] = job[r]
    BY <1>3, StartFacts DEF Dial
  <2> QED
    BY <1>1, <1>3, <2>1 DEF Dial, Start
<1>4. ASSUME NEW q \in Reqs, \/ ConnectHealth(q) \/ ConnectReplace(q) \/ ConnectCheck(q)
                             \/ DialFails(q) \/ ConnectTag(q) \/ DisconnectClose(q)
      PROVE  RunsLocked'
  <2>1. UNCHANGED connMu /\ \A r \in Reqs \ {q} : job'[r] = job[r]
    BY <1>4, StartFacts, GotoFacts DEF ConnectHealth, ConnectReplace, ConnectCheck, DialFails, ConnectTag, DisconnectClose, End
  <2>2. \/ pc' = [pc EXCEPT ![q] = "tag"] \/ pc' = [pc EXCEPT ![q] = "replace"] \/ pc' = [pc EXCEPT ![q] = "check"]
        \/ pc' = [pc EXCEPT ![q] = "idle"] \/ pc' = [pc EXCEPT ![q] = "dial"]
    BY <1>4 DEF ConnectHealth, ConnectReplace, ConnectCheck, DialFails, ConnectTag, DisconnectClose, Goto, Start, End
  <2> QED
    BY <1>1, <2>1, <2>2
<1>5. ASSUME NEW q \in Reqs, ExecStart(q) PROVE RunsLocked'
  <2>1. CASE state[job[q].conn] # "open"
    <3>1. UNCHANGED connMu /\ End(q)
      BY <1>5, <2>1 DEF ExecStart
    <3> QED
      BY <1>1, <3>1, StartFacts DEF End, Start
  <2>2. CASE state[job[q].conn] = "open"
    <3>1. connMu' = [connMu EXCEPT ![job[q].conn] = q] /\ connMu[job[q].conn] = NoOne
      BY <1>5, <2>2 DEF ExecStart
    <3>2. pc' = [pc EXCEPT ![q] = "run"] /\ UNCHANGED job
      BY <1>5, <2>2 DEF ExecStart, Goto, Start, End
    <3>3. \A r \in Reqs : pc[r] = "run" => job[r].conn \in Conns
      BY DEF Knows, KnowsReq
    <3>4. job[q].conn \in Conns
      BY <1>5 DEF ExecStart, Knows, KnowsReq
    <3> QED
      BY <1>0, <3>1, <3>2, <3>3, <3>4 DEF RunsLocked
  <2> QED
    BY <2>1, <2>2
<1>6. ASSUME NEW q \in Reqs, ExecEnd(q) PROVE RunsLocked'
  <2>1. connMu' = [connMu EXCEPT ![job[q].conn] = NoOne] /\ connMu[job[q].conn] = q
    BY <1>6 DEF ExecEnd, RunsLocked
  <2>2. pc' = [pc EXCEPT ![q] = "idle"] /\ \A r \in Reqs \ {q} : job'[r] = job[r]
    BY <1>6, StartFacts DEF ExecEnd, Start, End
  <2>3. \A r \in Reqs : pc[r] = "run" => job[r].conn \in Conns
    BY DEF Knows, KnowsReq
  <2> QED
    BY <1>0, <2>1, <2>2, <2>3 DEF RunsLocked
<1>7. ASSUME NEW c \in Conns, KeepAliveSend(c) \/ KeepAliveReply(c) PROVE RunsLocked'
  <2>1. \E v : connMu' = [connMu EXCEPT ![c] = v]
    BY <1>7 DEF KeepAliveSend, KeepAliveReply
  <2>2. connMu[c] \notin Reqs /\ UNCHANGED <<pc, job>>
    BY <1>7 DEF KeepAliveSend, KeepAliveReply, reqVars
  <2>3. \A r \in Reqs : pc[r] = "run" => job[r].conn \in Conns
    BY DEF Knows, KnowsReq
  <2> QED
    BY <1>0, <2>1, <2>2, <2>3 DEF RunsLocked
<1>8. ASSUME UNCHANGED <<connMu, pc, job>> PROVE RunsLocked'
  BY <1>8 DEF RunsLocked
<1>9. ASSUME NEW c \in Conns, DogStep(c) \/ SweepVisit(c) \/ Break(c) \/ GrowIdle(c) PROVE RunsLocked'
  BY <1>8, <1>9 DEF DogStep, DogTick, DogDisconnect, DogClose, DogStop, SweepVisit, Break,
                    GrowIdle, reqVars
<1>10. ASSUME SweepBegin \/ SweepEnd \/ UNCHANGED vars PROVE RunsLocked'
  BY <1>8, <1>10 DEF SweepBegin, SweepEnd, vars, reqVars
<1>11. ASSUME NEW keys \in SUBSET Keys, AgentChange(keys) PROVE RunsLocked'
  BY <1>8, <1>11 DEF AgentChange, reqVars
<1>12. ASSUME NEW m \in Remotes, NEW a \in Addrs, UpdateRemote(m, a) PROVE RunsLocked'
  BY <1>8, <1>12 DEF UpdateRemote, reqVars
<1> QED
  BY <1>2, <1>3, <1>4, <1>5, <1>6, <1>7, <1>9, <1>10, <1>11, <1>12, MoveFacts
     DEF Next, RequestStep, ConnectStep, SweepStep

\* A connection is closed only by CloseAndDrop, with its mutex free.
LEMMA CloseIsLocked ==
    ASSUME PoolInv, [Next]_vars, NEW d \in Conns, state[d] # "closed", state'[d] = "closed"
    PROVE  connMu[d] = NoOne
<1> Knows /\ DataTypeOK /\ Pooled \subseteq Conns
  BY PooledFacts DEF PoolInv, PoolTypeOK
<1>0. state \in [Conns -> ConnStates]
  BY DEF DataTypeOK
<1>1. ASSUME NEW c \in Conns, CloseAndDrop(c) PROVE connMu[d] = NoOne
  BY <1>0, <1>1 DEF CloseAndDrop
<1>2. ASSUME UNCHANGED state PROVE FALSE
  BY <1>2
<1>3. ASSUME NEW q \in Reqs, ConnectReplace(q) \/ DisconnectClose(q) PROVE connMu[d] = NoOne
  <2>1. job[q].conn \in Conns /\ CloseAndDrop(job[q].conn)
    BY <1>3 DEF ConnectReplace, DisconnectClose, Knows, KnowsReq
  <2> QED
    BY <1>1, <2>1
<1>4. ASSUME NEW c \in Conns, SweepVisit(c) \/ DogStep(c) PROVE connMu[d] = NoOne
  BY <1>1, <1>2, <1>4 DEF SweepVisit, DogStep, DogTick, DogDisconnect, DogClose, DogStop, connVars, tagVars
<1>5. ASSUME NEW q \in Reqs, NEW c \in Conns, Dial(q, c) PROVE FALSE
  BY <1>0, <1>5 DEF Dial
<1>6. ASSUME NEW c \in Conns, Break(c) PROVE FALSE
  BY <1>0, <1>6 DEF Break
<1>7. ASSUME NEW q \in Reqs, NewRequest(q) \/ ExecStart(q) \/ ExecEnd(q) \/ ConnectHealth(q)
                              \/ ConnectCheck(q) \/ DialFails(q) \/ ConnectTag(q)
      PROVE  FALSE
  BY <1>2, <1>7 DEF NewRequest, ConnectLock, DisconnectFind, ExecGet, Get, ExecStart, ExecEnd,
                    ConnectHealth, ConnectCheck, DialFails, ConnectTag, connVars, tagVars
<1>8. ASSUME NEW c \in Conns, KeepAliveSend(c) \/ KeepAliveReply(c) \/ GrowIdle(c) PROVE FALSE
  BY <1>2, <1>8 DEF KeepAliveSend, KeepAliveReply, GrowIdle, connVars, tagVars
<1>9. ASSUME SweepBegin \/ SweepEnd \/ UNCHANGED vars PROVE FALSE
  BY <1>2, <1>9 DEF SweepBegin, SweepEnd, vars, connVars, tagVars
<1>10. ASSUME NEW keys \in SUBSET Keys, AgentChange(keys) PROVE FALSE
  BY <1>2, <1>10 DEF AgentChange, connVars, tagVars
<1>11. ASSUME NEW m \in Remotes, NEW a \in Addrs, UpdateRemote(m, a) PROVE FALSE
  BY <1>2, <1>11 DEF UpdateRemote, connVars
<1> QED
  BY <1>3, <1>4, <1>5, <1>6, <1>7, <1>8, <1>9, <1>10, <1>11, MoveFacts
     DEF Next, RequestStep, ConnectStep, SweepStep

\* Neither Disconnect, nor cleanup, nor watchKeyPresence, nor the replacement of
\* a broken connection closes a connection under a running command.
THEOREM CommandsRunOut == Spec => NoCommandCut
<1>1. Init => RunsLocked
  BY DEF Init, RunsLocked
<1>2. PoolInv /\ RunsLocked /\ [Next]_vars =>
        [\A c \in Conns :
            (state[c] # "closed" /\ state'[c] = "closed") =>
               \A q \in Reqs : ~(pc[q] = "run" /\ job[q].conn = c)]_vars
  BY CloseIsLocked, ConnectionPoolAssumption DEF RunsLocked
<1> QED
  BY <1>1, <1>2, PoolInvInit, PoolInvStep, RunsLockedStep, PTL DEF Spec, NoCommandCut
--------------------------------------------------------------------------------
(* The tags: which remote a connection is shown for.                         *)

\* A connection is in the pool at most once.
PooledOnce == \A a, b \in Addrs : pool[a] # NoConn /\ pool[a] = pool[b] => a = b

\* A pooled connection is at the address of the remote it is tagged with, if
\* that has not moved, and at the one its Connect has read if it is about to be
\* tagged.
TagsFit ==
    \A a \in Addrs :
       /\ pool[a] # NoConn /\ remote[pool[a]] # NoRemote /\ pool[a] \notin moved =>
             a = addr[remote[pool[a]]]
       /\ \A q \in Reqs : pool[a] # NoConn /\ pc[q] = "tag" /\ job[q].conn = pool[a] =>
             a = job[q].addr

\* What a Connect has read of a remote that has not moved is still so.
ReadFits ==
    \A q \in Reqs : job[q].remote \in Remotes /\ q \notin moved => job[q].addr = addr[job[q].remote]

\* What has not been dialled is not tagged, nor about to be.
UnbornUntagged ==
    \A c \in Conns : state[c] = "unborn" =>
       /\ remote[c] = NoRemote
       /\ \A q \in Reqs : pc[q] = "tag" => job[q].conn # c

TagInv == PooledOnce /\ TagsFit /\ ReadFits /\ UnbornUntagged

\* The pool only shrinks, nothing is tagged or moved, and no request reads a
\* remote or comes to tag.
Quiet ==
    /\ \A a \in Addrs : pool'[a] = pool[a] \/ pool'[a] = NoConn
    /\ remote' = remote /\ addr' = addr /\ moved' = moved
    /\ \A q \in Reqs : pc'[q] = "tag" => pc[q] = "tag" /\ job'[q] = job[q]
    /\ \A q \in Reqs : job'[q].remote \notin Remotes \/ job'[q] = job[q]
    /\ \A c \in Conns : state'[c] = "unborn" => state[c] = "unborn"

LEMMA QuietKeepsTags == ASSUME TagInv, Quiet PROVE TagInv'
<1>1. PooledOnce' /\ ReadFits' /\ UnbornUntagged'
  BY DEF TagInv, Quiet, PooledOnce, ReadFits, UnbornUntagged
<1>2. TagsFit'
  BY DEF TagInv, Quiet, TagsFit
<1> QED
  BY <1>1, <1>2 DEF TagInv

LEMMA NoJobFacts ==
    /\ NoJob.remote \notin Remotes
    /\ \A c : [NoJob EXCEPT !.conn = c].remote \notin Remotes
  BY ConnectionPoolAssumption DEF NoJob

\* A request that ends is quiet about the tags.
LEMMA EndQuiet ==
    ASSUME DataTypeOK, NEW q \in Reqs, End(q)
    PROVE  /\ \A r \in Reqs : pc'[r] = "tag" => pc[r] = "tag" /\ job'[r] = job[r]
           /\ \A r \in Reqs : job'[r].remote \notin Remotes \/ job'[r] = job[r]
<1>1. /\ pc'[q] = "idle" /\ job'[q] = NoJob
      /\ \A r \in Reqs \ {q} : pc'[r] = pc[r] /\ job'[r] = job[r]
  BY StartFacts DEF End
<1> QED
  BY <1>1, NoJobFacts

\* And so is one that goes on, if not to its tag.
LEMMA GotoQuiet ==
    ASSUME DataTypeOK, NEW q \in Reqs, NEW label, Goto(q, label), label # "tag"
    PROVE  /\ \A r \in Reqs : pc'[r] = "tag" => pc[r] = "tag" /\ job'[r] = job[r]
           /\ \A r \in Reqs : job'[r].remote \notin Remotes \/ job'[r] = job[r]
  BY GotoFacts

\* All steps are quiet but those that read a remote, tag, lead to tagging, or
\* move a remote.
LEMMA QuietSteps ==
    ASSUME PoolInv, [Next]_vars,
           \A q \in Reqs :
              /\ ~ConnectHealth(q) /\ ~ConnectTag(q) /\ \A c \in Conns : ~Dial(q, c)
              /\ \A m \in Remotes, k \in Keys \union {NoKey} : ~ConnectLock(q, m, k),
           \A m \in Remotes, a \in Addrs : ~UpdateRemote(m, a)
    PROVE  Quiet
<1> DataTypeOK /\ Knows /\ Pooled \subseteq Conns
  BY PooledFacts DEF PoolInv, PoolTypeOK
<1>0. pc \in [Reqs -> ReqLabels] /\ job \in [Reqs -> Jobs] /\ state \in [Conns -> ConnStates]
  BY DEF DataTypeOK
<1>1. ASSUME NEW c \in Conns, CloseAndDrop(c)
      PROVE  /\ \A a \in Addrs : pool'[a] = pool[a] \/ pool'[a] = NoConn
             /\ \A d \in Conns : state'[d] = "unborn" => state[d] = "unborn"
  BY <1>0, <1>1 DEF CloseAndDrop
<1>2. ASSUME NEW q \in Reqs, ConnectReplace(q) \/ DisconnectClose(q) PROVE Quiet
  <2>1. job[q].conn \in Conns /\ CloseAndDrop(job[q].conn)
    BY <1>2 DEF ConnectReplace, DisconnectClose, Knows, KnowsReq
  <2>2. End(q) \/ Goto(q, "check")
    BY <1>2 DEF ConnectReplace, DisconnectClose
  <2>3. UNCHANGED tagVars
    BY <1>2 DEF ConnectReplace, DisconnectClose
  <2> QED
    BY <1>1, <2>1, <2>2, <2>3, EndQuiet, GotoQuiet DEF Quiet, tagVars
<1>3. ASSUME NEW c \in Conns, SweepVisit(c) \/ DogStep(c) PROVE Quiet
  <2>1. UNCHANGED <<pc, job, tagVars>>
    BY <1>3 DEF SweepVisit, DogStep, DogTick, DogDisconnect, DogClose, DogStop, reqVars
  <2>2. CloseAndDrop(c) \/ UNCHANGED <<pool, state>>
    BY <1>3 DEF SweepVisit, DogStep, DogTick, DogDisconnect, DogClose, DogStop, connVars
  <2> QED
    BY <1>1, <2>1, <2>2 DEF Quiet, tagVars
<1>4. ASSUME NEW q \in Reqs, NEW c \in Conns, DisconnectFind(q, c) \/ ExecGet(q, c) PROVE Quiet
  <2>1. UNCHANGED <<pool, state, tagVars>>
    BY <1>4 DEF DisconnectFind, ExecGet, Get, connVars
  <2>2. /\ \A r \in Reqs \ {q} : pc'[r] = pc[r] /\ job'[r] = job[r]
        /\ pc'[q] # "tag" /\ job'[q] = [NoJob EXCEPT !.conn = c]
    BY <1>4, StartFacts DEF DisconnectFind, ExecGet
  <2>3. job'[q].remote \notin Remotes
    BY <2>2, NoJobFacts
  <2> QED
    BY <2>1, <2>2, <2>3 DEF Quiet, tagVars
<1>5. ASSUME NEW q \in Reqs, ConnectCheck(q) \/ DialFails(q) \/ ExecStart(q) \/ ExecEnd(q)
      PROVE  Quiet
  <2>1. UNCHANGED <<pool, state, tagVars>>
    BY <1>5 DEF ConnectCheck, DialFails, ExecStart, ExecEnd, connVars
  <2>2. End(q) \/ Goto(q, "dial") \/ Goto(q, "run")
    BY <1>5 DEF ConnectCheck, DialFails, ExecStart, ExecEnd
  <2> QED
    BY <2>1, <2>2, EndQuiet, GotoQuiet DEF Quiet, tagVars
<1>6. ASSUME UNCHANGED <<pool, tagVars, pc, job>>,
             \A c \in Conns : state'[c] = "unborn" => state[c] = "unborn"
      PROVE  Quiet
  BY <1>6 DEF Quiet, tagVars
<1>7. ASSUME NEW c \in Conns, KeepAliveSend(c) \/ KeepAliveReply(c) \/ Break(c) \/ GrowIdle(c)
      PROVE  Quiet
  BY <1>0, <1>6, <1>7 DEF KeepAliveSend, KeepAliveReply, Break, GrowIdle, connVars, reqVars
<1>8. ASSUME SweepBegin \/ SweepEnd \/ UNCHANGED vars PROVE Quiet
  BY <1>6, <1>8 DEF SweepBegin, SweepEnd, vars, connVars, reqVars
<1>9. ASSUME NEW keys \in SUBSET Keys, AgentChange(keys) PROVE Quiet
  BY <1>6, <1>9 DEF AgentChange, connVars, reqVars
<1> QED
  BY <1>2, <1>3, <1>4, <1>5, <1>7, <1>8, <1>9, MoveFacts
     DEF Next, NewRequest, RequestStep, ConnectStep, SweepStep

\* Every step leaves the tags right.
LEMMA TagStep == PoolInv /\ TagInv /\ [Next]_vars => TagInv'
<1> SUFFICES ASSUME PoolInv, TagInv, [Next]_vars PROVE TagInv'
  OBVIOUS
<1> DataTypeOK /\ Knows /\ OpenIsPooled /\ Pooled \subseteq Conns
  BY PooledFacts DEF PoolInv, PoolTypeOK
<1>0. /\ pc \in [Reqs -> ReqLabels] /\ job \in [Reqs -> Jobs]
      /\ pool \in [Addrs -> Conns \union {NoConn}]
      /\ remote \in [Conns -> Remotes \union {NoRemote}]
      /\ state \in [Conns -> ConnStates]
      /\ addr \in [Remotes -> Addrs] /\ NoConn \notin Conns /\ NoRemote \notin Remotes
      /\ Reqs \intersect Conns = {}
  BY ConnectionPoolAssumption DEF DataTypeOK
<1>1. ASSUME NEW q \in Reqs, ConnectHealth(q) PROVE TagInv'
  <2>1. /\ job[q].conn \in Pooled /\ job[q].addr \in Addrs
        /\ pool[job[q].addr] = job[q].conn
    BY <1>1 DEF ConnectHealth, Knows, KnowsReq
  <2>2. UNCHANGED <<pool, state, remote, addr, moved>>
    BY <1>1 DEF ConnectHealth, connVars, tagVars
  <2>3. job' = job /\ \A r \in Reqs \ {q} : pc'[r] = pc[r]
    BY <1>1, GotoFacts DEF ConnectHealth
  <2>4. state[job[q].conn] # "unborn"
    BY <2>1 DEF OpenIsPooled
  <2>5. \A a \in Addrs : pool[a] # NoConn /\ pool[a] = job[q].conn => a = job[q].addr
    BY <1>0, <2>1 DEF TagInv, PooledOnce
  <2>6. PooledOnce' /\ ReadFits'
    BY <2>2, <2>3 DEF TagInv, PooledOnce, ReadFits
  <2>7. TagsFit'
    BY <2>2, <2>3, <2>5 DEF TagInv, TagsFit
  <2>8. UnbornUntagged'
    BY <2>2, <2>3, <2>4 DEF TagInv, UnbornUntagged
  <2> QED
    BY <2>6, <2>7, <2>8 DEF TagInv
<1>2. ASSUME NEW q \in Reqs, NEW c \in Conns, Dial(q, c) PROVE TagInv'
  <2> DEFINE new == job[q].addr
  <2>1. new \in Addrs /\ pool[new] = NoConn /\ c \notin Pooled
    BY <1>2, DialFacts DEF Dial, OpenIsPooled, Occupied
  <2>2. \A a \in Addrs : pool[a] # c
    BY <1>0, <2>1 DEF Pooled, Occupied
  <2>3. /\ pool' = [pool EXCEPT ![new] = c] /\ state' = [state EXCEPT ![c] = "open"]
        /\ UNCHANGED <<remote, addr, moved>> /\ remote[c] = NoRemote
        /\ \A r \in Reqs : pc[r] = "tag" => job[r].conn # c
    BY <1>2 DEF Dial, TagInv, UnbornUntagged, tagVars
  <2>4. /\ job'[q].conn = c /\ job'[q].remote = job[q].remote /\ job'[q].addr = job[q].addr
        /\ \A r \in Reqs \ {q} : job'[r] = job[r] /\ pc'[r] = pc[r]
    BY <1>0, <1>2, StartFacts DEF Dial, Jobs
  <2>5. PooledOnce' /\ ReadFits'
    <3>1. PooledOnce'
      BY <1>0, <2>1, <2>2, <2>3 DEF TagInv, PooledOnce
    <3>2. ReadFits'
      BY <2>3, <2>4 DEF TagInv, ReadFits
    <3> QED
      BY <3>1, <3>2
  <2>6. ASSUME NEW a \in Addrs
        PROVE  /\ (pool'[a] # NoConn /\ remote'[pool'[a]] # NoRemote /\ pool'[a] \notin moved')
                     => a = addr'[remote'[pool'[a]]]
               /\ \A r \in Reqs : (pool'[a] # NoConn /\ pc'[r] = "tag" /\ job'[r].conn = pool'[a])
                     => a = job'[r].addr
    <3>1. CASE a = new
      BY <1>0, <2>1, <2>3, <2>4, <3>1
    <3>2. CASE a # new
      <4>1. pool'[a] = pool[a] /\ pool[a] # c
        BY <1>0, <2>2, <2>3, <3>2
      <4> QED
        BY <2>3, <2>4, <4>1 DEF TagInv, TagsFit
    <3> QED
      BY <3>1, <3>2
  <2>7. TagsFit'
    BY <2>6 DEF TagsFit
  <2>8. UnbornUntagged'
    BY <1>0, <2>3, <2>4 DEF TagInv, UnbornUntagged
  <2> QED
    BY <2>5, <2>7, <2>8 DEF TagInv
<1>3. ASSUME NEW q \in Reqs, ConnectTag(q) PROVE TagInv'
  <2> DEFINE c == job[q].conn
  <2>1. /\ UNCHANGED <<pool, state, addr>> /\ pc[q] = "tag"
        /\ remote' = [remote EXCEPT ![c] = job[q].remote]
        /\ moved' = IF q \in moved THEN moved \union {c} ELSE moved \ {c}
    BY <1>3 DEF ConnectTag, connVars
  <2>2. /\ \A r \in Reqs : pc'[r] = "tag" => pc[r] = "tag" /\ job'[r] = job[r]
        /\ \A r \in Reqs : job'[r].remote \notin Remotes \/ job'[r] = job[r]
    BY <1>3, EndQuiet DEF ConnectTag
  <2>3. c \in Conns /\ job[q].remote \in Remotes /\ state[c] # "unborn"
    BY <2>1 DEF Knows, KnowsReq, Connecting, TagInv, UnbornUntagged
  <2>4. PooledOnce'
    BY <2>1 DEF TagInv, PooledOnce
  <2>5. ReadFits'
    <3>1. \A r \in Reqs : r \in moved' <=> r \in moved
      BY <1>0, <2>1, <2>3
    <3> QED
      BY <2>1, <2>2, <3>1 DEF TagInv, ReadFits
  <2>6. ASSUME NEW a \in Addrs, pool[a] # NoConn, remote'[pool[a]] # NoRemote, pool[a] \notin moved'
        PROVE  a = addr[remote'[pool[a]]]
    <3>1. CASE pool[a] = c
      <4>1. q \notin moved /\ remote'[pool[a]] = job[q].remote
        BY <1>0, <2>1, <2>3, <2>6, <3>1
      <4>2. a = job[q].addr
        BY <2>1, <2>6, <3>1 DEF TagInv, TagsFit
      <4> QED
        BY <2>3, <4>1, <4>2 DEF TagInv, ReadFits
    <3>2. CASE pool[a] # c
      <4>1. pool[a] \notin moved /\ remote'[pool[a]] = remote[pool[a]]
        BY <1>0, <2>1, <2>6, <3>2
      <4> QED
        BY <2>6, <4>1 DEF TagInv, TagsFit
    <3> QED
      BY <3>1, <3>2
  <2>7. TagsFit'
    BY <2>1, <2>2, <2>6 DEF TagInv, TagsFit
  <2>8. UnbornUntagged'
    BY <1>0, <2>1, <2>2, <2>3 DEF TagInv, UnbornUntagged
  <2> QED
    BY <2>4, <2>5, <2>7, <2>8 DEF TagInv
<1>4. ASSUME NEW q \in Reqs, NEW m \in Remotes, NEW k \in Keys \union {NoKey}, ConnectLock(q, m, k)
      PROVE  TagInv'
  <2>1. UNCHANGED <<pool, state, remote, addr>> /\ moved' = moved \ {q}
    BY <1>4 DEF ConnectLock, connVars
  <2>2. /\ pc'[q] # "tag"
        /\ job'[q] = [remote |-> m, addr |-> addr[m], key |-> k, conn |-> pool[addr[m]]]
        /\ \A r \in Reqs \ {q} : pc'[r] = pc[r] /\ job'[r] = job[r]
    BY <1>4, StartFacts DEF ConnectLock
  <2>3. job'[q].addr = addr[job'[q].remote]
    BY <2>2
  <2>4. PooledOnce' /\ ReadFits' /\ UnbornUntagged'
    BY <2>1, <2>2, <2>3 DEF TagInv, PooledOnce, ReadFits, UnbornUntagged
  <2>5. \A c \in Conns : c \in moved' <=> c \in moved
    BY <1>0, <2>1
  <2>6. TagsFit'
    BY <1>0, <2>1, <2>2, <2>5 DEF TagInv, TagsFit
  <2> QED
    BY <2>4, <2>6 DEF TagInv
<1>5. ASSUME NEW m \in Remotes, NEW a \in Addrs, UpdateRemote(m, a) PROVE TagInv'
  <2>1. /\ UNCHANGED <<pool, state, remote, pc, job>> /\ moved \subseteq moved'
        /\ addr' = [addr EXCEPT ![m] = a]
        /\ \A c \in Conns : remote[c] = m => c \in moved'
        /\ \A q \in Reqs : job[q].remote = m => q \in moved'
    BY <1>5 DEF UpdateRemote, connVars, reqVars
  <2>2. \A n \in Remotes : n # m => addr'[n] = addr[n]
    BY <1>0, <2>1
  <2>3. PooledOnce' /\ UnbornUntagged'
    BY <2>1 DEF TagInv, PooledOnce, UnbornUntagged
  <2>4. ReadFits'
    BY <2>1, <2>2 DEF TagInv, ReadFits
  <2>5. TagsFit'
    BY <1>0, <2>1, <2>2 DEF TagInv, TagsFit
  <2> QED
    BY <2>3, <2>4, <2>5 DEF TagInv
<1> QED
  BY <1>1, <1>2, <1>3, <1>4, <1>5, QuietSteps, QuietKeepsTags

\* ListRemotes and GetRemote show a remote as connected only through
\* connections to its own address, or to one that UpdateRemote has replaced
\* since Connect read it, although Connect tags a connection after it has let
\* go of the pool.
THEOREM TagsTellTheTruth == Spec => []ShownIsConnected
<1>1. Init => TagInv
  BY ConnectionPoolAssumption
     DEF Init, TagInv, PooledOnce, TagsFit, ReadFits, UnbornUntagged, NoJob
<1>2. PoolInv /\ TagInv => ShownIsConnected
  <2> SUFFICES ASSUME PoolInv, TagInv, NEW m \in Remotes, NEW c \in ShownAs(m), c \notin moved
               PROVE  c = pool[addr[m]]
    BY DEF ShownIsConnected
  <2>1. c \in Pooled /\ remote[c] = m
    BY DEF ShownAs
  <2>2. PICK a \in Addrs : pool[a] # NoConn /\ c = pool[a]
    BY <2>1 DEF Pooled, Occupied
  <2> QED
    BY <2>1, <2>2, ConnectionPoolAssumption DEF TagInv, TagsFit
<1> QED
  BY <1>1, <1>2, PoolInvInit, PoolInvStep, TagStep, PTL DEF Spec
================================================================================
