--------------------------- MODULE AgentProofs ---------------------------
(***************************************************************************)
(* Proofs about the managed agent, its subscriptions and the service over  *)
(* its socket, for any number of keys, passphrases, watches, goroutines    *)
(* and calls, and any timeouts, width of the lifetime and ticker.          *)
(***************************************************************************)
EXTENDS AgentWatch, AgentService, FiniteSetTheorems, TLAPS

(***************************************************************************)
(* ManagedAgent.                                                           *)
(***************************************************************************)

\* The parts of the inductive invariant: the lifetime of a held key is the
\* converted timeout it was added with, and it had not run out at the last tick.
LifetimesConverted == \A k \in held : lifetime[k] = LifetimeSecs(requested[k])

AliveAtLastTick ==
    \A k \in held : /\ addedAt[k] <= now
                    /\ lifetime[k] > 0 => lastTick <= addedAt[k] + lifetime[k]

AgentInv == AgentTypeOK /\ LifetimesConverted /\ AliveAtLastTick

\* The conversion to uint32 yields a natural number, and is exact for the
\* timeouts that fit.
LEMMA LifetimeSecsFacts ==
    ASSUME NEW t \in Nat
    PROVE  /\ LifetimeSecs(t) \in Nat
           /\ t < LifetimeModulus => LifetimeSecs(t) = t
  BY ManagedAgentAssumption DEF LifetimeSecs

\* The four results of a removal.
LEMMA OutcomesFacts ==
    /\ "none" \in Outcomes /\ "ok" \in Outcomes
    /\ "locked" \in Outcomes /\ "not found" \in Outcomes
  BY DEF Outcomes

\* The invariant holds when the agent starts.
LEMMA AgentInvInit == AgentInit => AgentInv
<1> SUFFICES ASSUME AgentInit PROVE AgentInv
  OBVIOUS
<1>1. LockTypeOK
  BY ManagedAgentAssumption DEF AgentInit, LockTypeOK
<1>2. KeyTypeOK
  <2>1. outcome \in [Clients -> Outcomes]
    BY OutcomesFacts DEF AgentInit
  <2>2. QED
    BY <2>1, ManagedAgentAssumption DEF AgentInit, KeyTypeOK
<1>3. LifetimesConverted /\ AliveAtLastTick
  BY DEF AgentInit, LifetimesConverted, AliveAtLastTick
<1>4. QED
  BY <1>1, <1>2, <1>3 DEF AgentInv, AgentTypeOK

\* Only Lock and Unlock touch the lock, and both keep the passphrase in step.
LEMMA LockStep == LockTypeOK /\ [AgentNext]_avars => LockTypeOK'
<1> SUFFICES ASSUME LockTypeOK, [AgentNext]_avars
             PROVE  LockTypeOK'
  OBVIOUS
<1>1. ASSUME NEW p \in Passphrases, Lock(p)
      PROVE  LockTypeOK'
  BY <1>1, ManagedAgentAssumption DEF Lock, LockTypeOK
<1>2. ASSUME NEW p \in Passphrases, Unlock(p)
      PROVE  LockTypeOK'
  BY <1>2, ManagedAgentAssumption DEF Unlock, LockTypeOK
<1>3. ASSUME locked' = locked, lockPass' = lockPass
      PROVE  LockTypeOK'
  BY <1>3 DEF LockTypeOK
<1>4. QED
  BY <1>1, <1>2, <1>3
  DEF AgentNext, Add, Remove, RemoveAll, ExpireKeys, Advance, RemoveList, RemoveFound,
      avars, lockVars

\* Every operation, tick and request preserves the invariant.
LEMMA AgentInvStep == AgentInv /\ [AgentNext]_avars => AgentInv'
<1> SUFFICES ASSUME AgentInv, [AgentNext]_avars
             PROVE  AgentInv'
  OBVIOUS
<1> DEFINE Rest == KeyTypeOK /\ LifetimesConverted /\ AliveAtLastTick
<1>0. LockTypeOK'
  BY LockStep DEF AgentInv, AgentTypeOK
<1> USE ManagedAgentAssumption
<1> USE DEF AgentInv, AgentTypeOK, KeyTypeOK, keyVars, lockVars, timeVars,
            clientVars, LifetimesConverted, AliveAtLastTick
<1>1. ASSUME NEW k \in Keys, NEW timeout \in Timeouts, Add(k, timeout)
      PROVE  Rest'
  <2>1. timeout \in Nat /\ LifetimeSecs(timeout) \in Nat
    BY LifetimeSecsFacts
  <2>2. KeyTypeOK'
    BY <1>1, <2>1 DEF Add, SpawnNotify
  <2>3. LifetimesConverted'
    BY <1>1, <2>1 DEF Add
  <2>4. AliveAtLastTick'
    BY <1>1, <2>1 DEF Add
  <2>5. QED
    BY <2>2, <2>3, <2>4
<1>2. ASSUME NEW k \in Keys, Remove(k)
      PROVE  Rest'
  BY <1>2 DEF Remove, SpawnNotify
<1>3. ASSUME RemoveAll
      PROVE  Rest'
  BY <1>3 DEF RemoveAll, SpawnNotify
<1>4. ASSUME NEW p \in Passphrases, Lock(p)
      PROVE  Rest'
  BY <1>4 DEF Lock, SpawnNotify
<1>5. ASSUME NEW p \in Passphrases, Unlock(p)
      PROVE  Rest'
  BY <1>5 DEF Unlock, SpawnNotify
<1>6. ASSUME ExpireKeys
      PROVE  Rest'
  <2>1. KeyTypeOK'
    BY <1>6 DEF ExpireKeys, SpawnNotify
  <2>2. LifetimesConverted'
    BY <1>6 DEF ExpireKeys
  <2>3. AliveAtLastTick'
    BY <1>6 DEF ExpireKeys, Expired
  <2>4. QED
    BY <2>1, <2>2, <2>3
<1>7. ASSUME Advance
      PROVE  Rest'
  BY <1>7 DEF Advance
<1>8. ASSUME NEW c \in Clients, NEW k \in Keys, RemoveList(c, k)
      PROVE  Rest'
  <2>1. outcome' \in [Clients -> Outcomes]
    <3>1. CASE locked
      BY <1>8, <3>1, OutcomesFacts DEF RemoveList
    <3>2. CASE ~locked
      BY <1>8, <3>2, OutcomesFacts DEF RemoveList
    <3>3. QED
      BY <3>1, <3>2
  <2>2. removing' \in [Clients -> SUBSET Keys]
    BY <1>8 DEF RemoveList
  <2>3. QED
    BY <1>8, <2>1, <2>2 DEF RemoveList
<1>9. ASSUME NEW c \in Clients, RemoveFound(c)
      PROVE  Rest'
  <2>1. outcome' \in [Clients -> Outcomes]
    <3>1. CASE locked
      BY <1>9, <3>1, OutcomesFacts DEF RemoveFound
    <3>2. CASE ~locked
      BY <1>9, <3>2, OutcomesFacts DEF RemoveFound
    <3>3. QED
      BY <3>1, <3>2
  <2>2. removing' \in [Clients -> SUBSET Keys]
    BY <1>9 DEF RemoveFound
  <2>3. held' \subseteq held /\ changes' \in Nat
    <3>1. CASE locked \/ removing[c] \intersect held = {}
      BY <1>9, <3>1 DEF RemoveFound
    <3>2. CASE ~(locked \/ removing[c] \intersect held = {})
      BY <1>9, <3>2 DEF RemoveFound, SpawnNotify
    <3>3. QED
      BY <3>1, <3>2
  <2>4. UNCHANGED <<addedAt, lifetime, requested, now, lastTick>>
    BY <1>9 DEF RemoveFound
  <2>5. KeyTypeOK'
    BY <2>1, <2>2, <2>3, <2>4
  <2>6. LifetimesConverted' /\ AliveAtLastTick'
    BY <2>3, <2>4
  <2>7. QED
    BY <2>5, <2>6
<1>10. ASSUME UNCHANGED avars
       PROVE  Rest'
  BY <1>10 DEF avars
<1>11. Rest'
  BY <1>1, <1>2, <1>3, <1>4, <1>5, <1>6, <1>7, <1>8, <1>9, <1>10 DEF AgentNext
<1>12. QED
  BY <1>0, <1>11

\* The agent's state keeps its types, and a passphrase is remembered exactly
\* while it is locked.
THEOREM AgentTyped == AgentSpec => []AgentTypeOK
<1>1. AgentInv => AgentTypeOK
  BY DEF AgentInv
<1>2. QED
  BY <1>1, AgentInvInit, AgentInvStep, PTL DEF AgentSpec

\* A key with a timeout that fits the uint32 is gone one period of the expiry
\* loop after the timeout, locked or not.
THEOREM AgentTimeouts == AgentSpec => []TimeoutHonoured
<1>1. AgentInv => TimeoutHonoured
  <2> SUFFICES ASSUME AgentInv, NEW k \in held,
                      requested[k] \in 1..(LifetimeModulus - 1)
               PROVE  now <= addedAt[k] + requested[k] + ExpiryPeriod
    BY DEF TimeoutHonoured
  <2>1. /\ requested[k] \in Nat /\ requested[k] > 0 /\ requested[k] < LifetimeModulus
        /\ addedAt[k] \in Nat
    BY ManagedAgentAssumption DEF AgentInv, AgentTypeOK, KeyTypeOK
  <2>2. lifetime[k] = requested[k]
    BY <2>1, LifetimeSecsFacts DEF AgentInv, LifetimesConverted
  <2>3. QED
    BY <2>1, <2>2, ManagedAgentAssumption DEF AgentInv, AgentTypeOK, KeyTypeOK, AliveAtLastTick
<1>2. QED
  BY <1>1, AgentInvInit, AgentInvStep, PTL DEF AgentSpec

\* Under a lock a key can only leave by the end of its own timeout.
THEOREM AgentLock == AgentSpec => LockKeepsKeys
<1> DEFINE Kept == locked => /\ held' \subseteq held
                             /\ \A k \in held \ held' :
                                   /\ LifetimeSecs(requested[k]) > 0
                                   /\ now > addedAt[k] + LifetimeSecs(requested[k])
<1>1. AgentInv /\ [AgentNext]_avars => [Kept]_avars
  <2> SUFFICES ASSUME AgentInv, AgentNext, locked
               PROVE  Kept
    OBVIOUS
  <2>1. CASE held' = held
    BY <2>1
  <2>2. CASE ExpireKeys
    <3>1. held' \subseteq held /\ \A k \in held \ held' : Expired(k)
      BY <2>2 DEF ExpireKeys
    <3>2. \A k \in held : /\ lifetime[k] = LifetimeSecs(requested[k])
                          /\ lifetime[k] \in Nat /\ addedAt[k] \in Nat /\ now \in Nat
      BY DEF AgentInv, AgentTypeOK, KeyTypeOK, LifetimesConverted
    <3>3. QED
      BY <3>1, <3>2 DEF Expired
  <2>3. QED
    BY <2>1, <2>2 DEF AgentNext, Add, Remove, RemoveAll, Lock, Unlock, Advance,
                      RemoveList, RemoveFound, keyVars
<1>2. QED
  BY <1>1, AgentInvInit, AgentInvStep, PTL DEF AgentSpec, LockKeepsKeys

--------------------------------------------------------------------------------
(***************************************************************************)
(* AgentWatch.  The cleanup goroutine closes the channel after it has      *)
(* released s.mu, so the absence of a crash is not inductive.  What carries*)
(* it is that the subscribers a Notify still has to reach are registered   *)
(* ones: the write lock that unregistering takes is not free while a       *)
(* Notify is under way.                                                    *)
(***************************************************************************)

\* Where a watch stands decides whether it is registered and whether its
\* channel is closed; a Notify under way has only registered watches left.
WatchInv ==
    /\ watch \in [Subs -> WatchStates]
    /\ pc \in [Notifiers -> Labels]
    /\ pending \in [Notifiers -> SUBSET Subs]
    /\ subscribers \subseteq Subs
    /\ \A s \in subscribers : watch[s] = "live"
    /\ closed \subseteq Subs
    /\ \A s \in closed : watch[s] = "closed"
    /\ \A g \in Notifiers : pc[g] = "sending" => pending[g] \subseteq subscribers

\* The labels and the states of a watch that the actions write.
LEMMA LabelFacts ==
    /\ "new" \in WatchStates /\ "live" \in WatchStates
    /\ "removed" \in WatchStates /\ "closed" \in WatchStates
    /\ "idle" \in Labels /\ "count" \in Labels /\ "status" \in Labels
    /\ "keys" \in Labels /\ "notify" \in Labels /\ "sending" \in Labels
  BY DEF WatchStates, Labels

\* A step of a notifying goroutine that changes only where it is, and leaves
\* it outside Notify, keeps the invariant.
LEMMA GotoKeeps ==
    ASSUME WatchInv, NEW g \in Notifiers, NEW label \in Labels, label # "sending",
           Goto(g, label), UNCHANGED <<subVars, pending>>
    PROVE  WatchInv'
  BY DEF WatchInv, Goto, subVars

\* Every step keeps the invariant.
LEMMA WatchInvStep == WatchInv /\ [Next]_vars => WatchInv'
<1> SUFFICES ASSUME WatchInv, [Next]_vars PROVE WatchInv'
  OBVIOUS
<1>1. ASSUME UNCHANGED <<subVars, pc, pending>> PROVE WatchInv'
  BY <1>1 DEF WatchInv, subVars
<1>2. ASSUME NEW s \in Subs, NEW g \in Notifiers, Watch(s, g) PROVE WatchInv'
  <2>1. pc' = [pc EXCEPT ![g] = "status"] /\ pending' = pending /\ closed' = closed
    BY <1>2 DEF Watch, Goto
  <2>2. watch' = [watch EXCEPT ![s] = "live"] /\ subscribers' = subscribers \union {s}
    BY <1>2 DEF Watch, Subscribe
  <2>3. watch[s] = "new"
    BY <1>2 DEF Watch, Subscribe
  <2>4. watch' \in [Subs -> WatchStates] /\ subscribers' \subseteq Subs
    BY <2>2, LabelFacts DEF WatchInv
  <2>5. \A t \in subscribers' : watch'[t] = "live"
    BY <2>2 DEF WatchInv
  <2>6. \A t \in closed' : watch'[t] = "closed"
    BY <2>1, <2>2, <2>3 DEF WatchInv
  <2>7. pc' \in [Notifiers -> Labels]
    BY <2>1, LabelFacts DEF WatchInv
  <2>8. \A h \in Notifiers : pc'[h] = "sending" => pending'[h] \subseteq subscribers'
    BY <2>1, <2>2 DEF WatchInv
  <2> QED
    BY <2>1, <2>4, <2>5, <2>6, <2>7, <2>8 DEF WatchInv
<1>3. ASSUME NEW s \in Subs, CleanupDelete(s) PROVE WatchInv'
  BY <1>3, LabelFacts DEF WatchInv, CleanupDelete, WriteLockFree, goVars
<1>4. ASSUME NEW s \in Subs, CleanupClose(s) PROVE WatchInv'
  <2>1. watch[s] = "removed" /\ watch' = [watch EXCEPT ![s] = "closed"]
    BY <1>4 DEF CleanupClose
  <2>2. closed' = closed \union {s} /\ UNCHANGED <<subscribers, pc, pending>>
    BY <1>4 DEF CleanupClose, goVars
  <2> QED
    BY <2>1, <2>2, LabelFacts DEF WatchInv
<1>5. ASSUME NEW g \in Notifiers, NotifyStep(g) PROVE WatchInv'
  <2>1. CASE BeginNotify(g)
    BY <2>1, GotoKeeps, LabelFacts DEF BeginNotify
  <2>2. CASE CountSubscribers(g)
    <3>1. Goto(g, "idle") \/ Goto(g, "status")
      BY <2>2 DEF CountSubscribers
    <3> QED
      BY <2>2, <3>1, GotoKeeps, LabelFacts DEF CountSubscribers
  <2>3. CASE ReadStatus(g)
    BY <2>3, GotoKeeps, LabelFacts DEF ReadStatus
  <2>4. CASE ReadKeys(g)
    <3>1. Goto(g, "idle") \/ Goto(g, "notify")
      BY <2>4 DEF ReadKeys
    <3> QED
      BY <2>4, <3>1, GotoKeeps, LabelFacts DEF ReadKeys
  <2>5. CASE NotifyLock(g)
    BY <2>5, LabelFacts DEF NotifyLock, WatchInv, Goto, subVars
  <2>6. ASSUME NEW s \in Subs, NotifyOne(g, s) PROVE WatchInv'
    BY <2>6 DEF NotifyOne, WatchInv, subVars
  <2>7. CASE NotifyUnlock(g)
    BY <2>7, GotoKeeps, LabelFacts DEF NotifyUnlock
  <2> QED
    BY <1>5, <2>1, <2>2, <2>3, <2>4, <2>5, <2>6, <2>7 DEF NotifyStep
<1>6. ASSUME NEW s \in Subs, Cancel(s) \/ Consume(s) PROVE WatchInv'
  BY <1>6, <1>1 DEF Cancel, Consume, goVars
<1>7. CASE AgentNext /\ ~crashed /\ UNCHANGED nvars
  BY <1>7, <1>1 DEF nvars, goVars
<1>8. CASE UNCHANGED vars
  BY <1>8, <1>1 DEF vars, nvars, goVars
<1> QED
  BY <1>2, <1>3, <1>4, <1>5, <1>6, <1>7, <1>8 DEF Next, CleanupStep

\* A step from a state with the invariant does not crash: the one action that
\* sends, sends to a registered watch.
LEMMA NoCrashStep == WatchInv /\ ~crashed /\ [Next]_vars => ~crashed'
<1> SUFFICES ASSUME WatchInv, ~crashed, [Next]_vars PROVE ~crashed'
  OBVIOUS
<1>1. ASSUME NEW g \in Notifiers, NEW s \in Subs, NotifyOne(g, s) PROVE ~crashed'
  <2>1. s \in subscribers
    BY <1>1 DEF NotifyOne, WatchInv
  <2>2. s \notin closed
    BY <2>1 DEF WatchInv
  <2> QED
    BY <1>1, <2>2 DEF NotifyOne
<1>2. ASSUME NEW g \in Notifiers, NotifyStep(g) PROVE ~crashed'
  BY <1>1, <1>2 DEF NotifyStep, BeginNotify, CountSubscribers, ReadStatus, ReadKeys,
                    NotifyLock, NotifyUnlock
<1>3. ASSUME NEW s \in Subs, NEW g \in Notifiers, Watch(s, g) PROVE ~crashed'
  BY <1>3 DEF Watch
<1>4. ASSUME NEW s \in Subs, Cancel(s) \/ CleanupStep(s) \/ Consume(s) PROVE ~crashed'
  BY <1>4 DEF Cancel, CleanupStep, CleanupDelete, CleanupClose, Consume
<1>5. CASE AgentNext /\ ~crashed /\ UNCHANGED nvars
  BY <1>5 DEF nvars
<1>6. CASE UNCHANGED vars
  BY <1>6 DEF vars, nvars
<1> QED
  BY <1>2, <1>3, <1>4, <1>5, <1>6 DEF Next

--------------------------------------------------------------------------------
\* The types that WatchInv does not have: what flows through the channels, and
\* the goroutines, of which no more run than were spawned.
FlowTypeOK ==
    /\ cancelled \subseteq Subs
    /\ buf \in [Subs -> Seq(Updates)]
    /\ \A s \in Subs : Len(buf[s]) <= ChanCapacity
    /\ spawned \in Nat /\ spawned <= changes
    /\ for \in [Notifiers -> Subs \union {Nobody}]
    /\ update \in [Notifiers -> Updates]
    /\ seen \in [Subs -> Updates]
    /\ crashed \in BOOLEAN

\* What the goroutines put together is an update.
LEMMA UpdateFacts ==
    ASSUME AgentTypeOK
    PROVE  /\ NoUpdate \in Updates
           /\ [CurrentUpdate EXCEPT !.keys = {}] \in Updates
           /\ \A u \in Updates : [u EXCEPT !.keys = CurrentUpdate.keys] \in Updates
<1>1. held \subseteq Keys /\ locked \in BOOLEAN
  BY DEF AgentTypeOK, KeyTypeOK, LockTypeOK
<1>2. CurrentUpdate \in Updates /\ CurrentUpdate.keys \in SUBSET Keys
  BY <1>1 DEF CurrentUpdate, Updates
<1>3. NoUpdate \in Updates
  BY DEF NoUpdate, Updates
<1>4. [CurrentUpdate EXCEPT !.keys = {}] \in Updates
  BY <1>2 DEF Updates
<1>5. \A u \in Updates : [u EXCEPT !.keys = CurrentUpdate.keys] \in Updates
  BY <1>2 DEF Updates
<1> QED
  BY <1>3, <1>4, <1>5

\* Goroutines are only ever spawned.
LEMMA ChangesGrow ==
    ASSUME AgentTypeOK, [AgentNext]_avars
    PROVE  changes' >= changes
<1>1. changes \in Nat
  BY DEF AgentTypeOK, KeyTypeOK
<1>2. SpawnNotify => changes' >= changes
  BY <1>1 DEF SpawnNotify
<1>3. UNCHANGED changes => changes' >= changes
  BY <1>1
<1>4. SpawnNotify \/ UNCHANGED changes
  BY DEF AgentNext, Add, Remove, RemoveAll, Lock, Unlock, ExpireKeys, Advance, RemoveList,
         RemoveFound, avars
<1> QED
  BY <1>2, <1>3, <1>4

\* Every step of the composition is a step of the agent or leaves it alone.
LEMMA AgentStep == [Next]_vars => [AgentNext]_avars
  BY DEF Next, vars, Watch, Cancel, CleanupStep, CleanupDelete, CleanupClose, Consume, NotifyStep,
         BeginNotify, CountSubscribers, ReadStatus, ReadKeys, NotifyLock, NotifyOne, NotifyUnlock

\* Every step keeps the types of channels and goroutines.
LEMMA FlowStep == AgentInv /\ FlowTypeOK /\ [Next]_vars => FlowTypeOK'
<1> SUFFICES ASSUME AgentInv, FlowTypeOK, [Next]_vars PROVE FlowTypeOK'
  OBVIOUS
<1>0. AgentTypeOK /\ changes \in Nat /\ changes' \in Nat /\ changes' >= changes
  <2>1. AgentInv'
    BY AgentStep, AgentInvStep
  <2> QED
    BY <2>1, AgentStep, ChangesGrow DEF AgentInv, AgentTypeOK, KeyTypeOK
<1>1. ASSUME UNCHANGED <<cancelled, buf, spawned, for, update, seen, crashed>> PROVE FlowTypeOK'
  BY <1>0, <1>1 DEF FlowTypeOK
<1>2. ASSUME NEW s \in Subs, NEW g \in Notifiers, Watch(s, g) PROVE FlowTypeOK'
  BY <1>0, <1>2 DEF Watch, FlowTypeOK
<1>3. ASSUME NEW s \in Subs, Cancel(s) PROVE FlowTypeOK'
  BY <1>0, <1>3 DEF Cancel, FlowTypeOK, goVars
<1>4. ASSUME NEW s \in Subs, CleanupStep(s) PROVE FlowTypeOK'
  BY <1>1, <1>4 DEF CleanupStep, CleanupDelete, CleanupClose, goVars
<1>5. ASSUME NEW s \in Subs, Consume(s) PROVE FlowTypeOK'
  <2>1. buf[s] \in Seq(Updates) /\ buf[s] # <<>> /\ Len(buf[s]) <= ChanCapacity
    BY <1>5 DEF Consume, FlowTypeOK
  <2>2. Head(buf[s]) \in Updates /\ Tail(buf[s]) \in Seq(Updates)
        /\ Len(Tail(buf[s])) <= ChanCapacity
    BY <2>1 DEF ChanCapacity
  <2>3. buf' = [buf EXCEPT ![s] = Tail(buf[s])] /\ seen' = [seen EXCEPT ![s] = Head(buf[s])]
    BY <1>5 DEF Consume
  <2>4. UNCHANGED <<cancelled, spawned, for, update, crashed>>
    BY <1>5 DEF Consume, goVars
  <2> QED
    BY <1>0, <2>2, <2>3, <2>4 DEF FlowTypeOK
<1>6. ASSUME NEW g \in Notifiers, NotifyStep(g) PROVE FlowTypeOK'
  <2>1. CASE BeginNotify(g)
    BY <1>0, <2>1 DEF BeginNotify, FlowTypeOK
  <2>2. CASE ReadStatus(g)
    BY <1>0, <2>2, UpdateFacts DEF ReadStatus, FlowTypeOK
  <2>3. CASE ReadKeys(g)
    <3>1. update'= [update EXCEPT ![g] = [update[g] EXCEPT !.keys = CurrentUpdate.keys]]
      BY <2>3 DEF ReadKeys
    <3>2. update[g] \in Updates
      BY DEF FlowTypeOK
    <3> QED
      BY <1>0, <2>3, <3>1, <3>2, UpdateFacts DEF ReadKeys, FlowTypeOK
  <2>4. ASSUME NEW s \in Subs, NotifyOne(g, s) PROVE FlowTypeOK'
    <3>1. buf[s] \in Seq(Updates) /\ update[g] \in Updates
      BY DEF FlowTypeOK
    <3>2. Len(buf[s]) < ChanCapacity =>
             /\ Append(buf[s], update[g]) \in Seq(Updates)
             /\ Len(Append(buf[s], update[g])) <= ChanCapacity
      BY <3>1 DEF ChanCapacity
    <3>3. CASE /\ Len(buf[s]) < ChanCapacity
               /\ buf' = [buf EXCEPT ![s] = Append(buf[s], update[g])]
               /\ crashed' = (s \in closed)
      BY <1>0, <2>4, <3>2, <3>3 DEF NotifyOne, FlowTypeOK
    <3>4. CASE UNCHANGED <<buf, crashed>>
      BY <1>1, <2>4, <3>4 DEF NotifyOne
    <3> QED
      BY <2>4, <3>3, <3>4 DEF NotifyOne
  <2>5. CASE CountSubscribers(g) \/ NotifyLock(g) \/ NotifyUnlock(g)
    BY <1>1, <2>5 DEF CountSubscribers, NotifyLock, NotifyUnlock
  <2> QED
    BY <1>6, <2>1, <2>2, <2>3, <2>4, <2>5 DEF NotifyStep
<1>7. CASE AgentNext /\ ~crashed /\ UNCHANGED nvars
  BY <1>1, <1>7 DEF nvars, goVars
<1>8. CASE UNCHANGED vars
  BY <1>1, <1>8 DEF vars, nvars, goVars
<1> QED
  BY <1>2, <1>3, <1>4, <1>5, <1>6, <1>7, <1>8 DEF Next

\* The subscriptions keep their types, their channels and goroutines their
\* bounds, and no Notify sends on a channel that a cleanup goroutine has closed,
\* although Subscribe's goroutine closes it outside s.mu.
THEOREM WatchNeverCrashes == Spec => []WatchSafe
<1>1. Init => WatchInv
  BY LabelFacts DEF Init, WatchInv
<1>2. Init => ~crashed
  BY DEF Init
<1>3. Init => AgentInv
  BY AgentInvInit DEF Init
<1>4. Init => FlowTypeOK
  <2> SUFFICES ASSUME Init PROVE FlowTypeOK
    OBVIOUS
  <2>1. AgentTypeOK
    BY <1>3 DEF AgentInv
  <2>2. changes = 0 /\ <<>> \in Seq(Updates) /\ Len(<<>>) = 0
    BY DEF Init, AgentInit
  <2>3. buf \in [Subs -> Seq(Updates)] /\ \A s \in Subs : Len(buf[s]) <= ChanCapacity
    BY <2>2 DEF Init, ChanCapacity
  <2>4. update \in [Notifiers -> Updates] /\ seen \in [Subs -> Updates]
    BY <2>1, UpdateFacts DEF Init
  <2>5. /\ cancelled \subseteq Subs /\ for \in [Notifiers -> Subs \union {Nobody}]
        /\ crashed \in BOOLEAN
    BY DEF Init
  <2>6. spawned \in Nat /\ spawned <= changes
    BY <2>2 DEF Init
  <2> QED
    BY <2>3, <2>4, <2>5, <2>6 DEF FlowTypeOK
<1>5. AgentInv /\ [Next]_vars => AgentInv'
  BY AgentStep, AgentInvStep
<1>6. AgentInv /\ WatchInv /\ FlowTypeOK /\ ~crashed => WatchSafe
  BY DEF AgentInv, WatchInv, FlowTypeOK, WatchSafe, TypeOK, NoSendOnClosed
<1> QED
  BY <1>1, <1>2, <1>3, <1>4, <1>5, <1>6, WatchInvStep, NoCrashStep, FlowStep, PTL DEF Spec

--------------------------------------------------------------------------------
(***************************************************************************)
(* AgentService.                                                           *)
(***************************************************************************)

\* What a call stands for while it is under way.  Only a removal keeps something
\* of an earlier step: the key that its List found was there at a moment.
AtRest(c) == removing[c] = {} /\ outcome[c] = "none"

Removing(c, k) ==
    /\ \/ outcome[c] = "none" /\ removing[c] = {k} /\ \E s \in moments[c] : k \in s.held
       \/ outcome[c] \in Outcomes \ {"none"} /\ removing[c] = {}
    /\ RemovalTold(k, outcome[c], moments[c])

Told(c, op, r) ==
    /\ \E s \in moments[c] : Right(op, r, s)
    /\ ChangeTold(op, r, moments[c])

Ops == SocketOps \union {"add", "remove"}

CallOK(c) ==
    /\ call[c].op \in Ops \union {"none"}
    /\ call[c].stage \in {"free", "connected", "parsed", "listed", "done", "over"}
    /\ call[c].stage \notin {"listed", "over"} => AtRest(c)
    /\ call[c].stage = "parsed" => call[c].key \in Keys /\ call[c].timeout \in Timeouts
    /\ call[c].stage = "listed" => /\ call[c].op = "remove" /\ call[c].key \in Keys
                                   /\ Removing(c, call[c].key)
    /\ call[c].stage = "done" => /\ call[c].reply \in Replies
                                 /\ Told(c, call[c].op, call[c].reply)
    /\ call[c].stage = "over" => call[c].op = "none" /\ removing[c] = {}

CallsInv == IsFiniteSet(held) /\ \A c \in Clients : CallOK(c)

\* The answers of the handlers.
LEMMA ReplyFacts ==
    /\ Ok \in Replies /\ Error \in Replies /\ NotReached \in Replies
    /\ \A keys \in SUBSET Keys : [ok |-> TRUE, keys |-> keys] \in Replies
    /\ \A k \in Keys : [ok |-> TRUE, by |-> k] \in Replies /\ [ok |-> TRUE, key |-> k] \in Replies
    /\ \A n \in Nat, r, l \in BOOLEAN : [running |-> r, locked |-> l, count |-> n] \in Replies
  BY DEF Ok, Error, NotReached, Replies

\* A call that a step does not serve: one that was answered is forgotten, any
\* other one goes on, and its moments are kept.
LEMMA Rests ==
    ASSUME NEW c \in Clients, CallOK(c), Record,
           call'[c] = Rested[c], removing'[c] = removing[c], outcome'[c] = outcome[c]
    PROVE  CallOK(c)'
<1>1. call'[c] = IF JustAnswered(c) THEN Over ELSE call[c]
  BY DEF Rested
<1>2. CASE JustAnswered(c)
  <2>1. removing[c] = {}
    BY <1>2 DEF JustAnswered, CallOK, AtRest, Removing
  <2>2. call'[c] = Over
    BY <1>1, <1>2
  <2>3. QED
    BY <2>1, <2>2 DEF CallOK, Over
<1>3. CASE ~JustAnswered(c)
  <2>1. call'[c] = call[c] /\ (AtRest(c) => AtRest(c)')
    BY <1>1, <1>3 DEF AtRest
  <2>2. CASE call[c].stage = "listed"
    <3>1. /\ outcome[c] = "none" /\ removing[c] = {call[c].key}
          /\ \E s \in moments[c] : call[c].key \in s.held
      BY <1>3, <2>2 DEF CallOK, Removing, JustAnswered
    <3>2. moments'[c] = moments[c] \union {Moment, Moment'}
      BY <1>3, <3>1 DEF Record, Idle
    <3>3. Removing(c, call[c].key)'
      BY <2>1, <3>1, <3>2 DEF Removing, RemovalTold
    <3>4. QED
      BY <2>1, <2>2, <3>3 DEF CallOK
  <2>3. call[c].stage # "done"
    BY <1>3 DEF JustAnswered
  <2>4. QED
    BY <2>1, <2>2, <2>3 DEF CallOK
<1>4. QED
  BY <1>2, <1>3

\* A handler that answers: what it says has to be so before or after its step.
LEMMA Answered ==
    ASSUME NEW c \in Clients, AtRest(c), AtRest(c)', ~JustAnswered(c), Record,
           NEW op \in Ops, NEW r \in Replies, Answer(c, op, r),
           NEW s \in {Moment, Moment'}, Right(op, r, s), ChangeTold(op, r, {s})
    PROVE  CallOK(c)'
<1>1. call'[c] = [op |-> op, stage |-> "done", reply |-> r]
  BY DEF Answer, Rested
<1>2. s \in moments'[c]
  <2>1. call'[c].stage = "done" /\ Free.stage = "free"
    BY <1>1 DEF Free
  <2>2. ~Idle(c)'
    BY <2>1 DEF Idle
  <2>3. QED
    BY <2>2 DEF Record
<1>3. Told(c, op, r)'
  <2>1. \E t \in moments'[c] : Right(op, r, t)
    BY <1>2
  <2>2. ChangeTold(op, r, moments'[c])
    BY <1>2 DEF ChangeTold
  <2>3. QED
    BY <2>1, <2>2 DEF Told
<1>4. QED
  BY <1>1, <1>3 DEF CallOK, Ops

\* Every step of the service is one of the agent or leaves it alone, and an
\* agent has as many keys as were added.
LEMMA ServiceStepsAgent ==
    ASSUME CallsInv, [ServiceNext]_serviceVars
    PROVE  [AgentNext]_avars
<1>1. CASE Agent
  BY <1>1 DEF Agent, AgentNext
<1>2. ASSUME NEW c \in Clients, Handler(c) PROVE [AgentNext]_avars
  <2>1. CASE AddDirect(c)
    <3>1. CASE UNCHANGED avars
      BY <3>1
    <3>2. CASE Add(call[c].key, call[c].timeout)
      <4>1. call[c].key \in Keys /\ call[c].timeout \in Timeouts
        BY <2>1 DEF AddDirect, CallsInv, CallOK
      <4>2. QED
        BY <3>2, <4>1 DEF AgentNext
    <3>3. QED
      BY <2>1, <3>1, <3>2 DEF AddDirect
  <2>2. CASE RemoveKeyFromAgent(c)
    BY <2>2 DEF RemoveKeyFromAgent, AgentNext
  <2>3. CASE RemoveAllKeysFromAgent(c)
    BY <2>3 DEF RemoveAllKeysFromAgent, ServiceRemoveAll, AgentNext
  <2>4. ASSUME NEW p \in Passphrases, LockAgent(c, p) \/ UnlockAgent(c, p)
        PROVE  [AgentNext]_avars
    BY <2>4 DEF LockAgent, ServiceLock, UnlockAgent, ServiceUnlock, AgentNext
  <2>5. QED
    BY <1>2, <2>1, <2>2, <2>3, <2>4
    DEF Handler, Connect, GetAgentStatus, ListAgentKeys, ListKeys, Sign, AddRead, RemoveConnectFails
<1>3. CASE UNCHANGED serviceVars
  BY <1>3 DEF serviceVars
<1>4. QED
  BY <1>1, <1>2, <1>3 DEF ServiceNext

LEMMA HeldStaysFinite ==
    ASSUME IsFiniteSet(held), [AgentNext]_avars
    PROVE  IsFiniteSet(held')
<1>1. ASSUME NEW k, held' = held \union {k} PROVE IsFiniteSet(held')
  BY <1>1, FS_AddElement
<1>2. ASSUME held' \subseteq held PROVE IsFiniteSet(held')
  BY <1>2, FS_Subset
<1>3. (\E k \in Keys : held' = held \union {k}) \/ held' \subseteq held
  BY DEF AgentNext, Add, Remove, RemoveAll, Lock, Unlock, ExpireKeys, Advance, RemoveList,
         RemoveFound, avars, keyVars
<1>4. QED
  BY <1>1, <1>2, <1>3

\* A handler that has dialled has answered nothing yet.
LEMMA ConnectedFacts ==
    ASSUME NEW c \in Clients, CallOK(c), NEW op \in SocketOps, Connected(c, op)
    PROVE  ~JustAnswered(c) /\ AtRest(c) /\ op \in Ops
<1>1. call[c].op = op /\ call[c].stage = "connected" /\ op # "remove"
  BY DEF Connected, SocketOps
<1>2. QED
  BY <1>1 DEF JustAnswered, CallOK, Ops

LEMMA SocketOpsFacts ==
    /\ "status" \in SocketOps /\ "list" \in SocketOps /\ "sign" \in SocketOps
    /\ "remove_all" \in SocketOps /\ "lock" \in SocketOps /\ "unlock" \in SocketOps
  BY DEF SocketOps

\* What a reading handler answers is so when it answers.
LEMMA ReadsAreTrue ==
    ASSUME NEW c \in Clients, CallOK(c), Record, AgentTypeOK, IsFiniteSet(held),
           \/ GetAgentStatus(c) \/ ListAgentKeys(c) \/ \E k \in Keys : Sign(c, k)
    PROVE  CallOK(c)'
<1>0. /\ ~JustAnswered(c) /\ AtRest(c) /\ AtRest(c)'
      /\ "status" \in Ops /\ "list" \in Ops /\ "sign" \in Ops
      /\ Moment.locked = locked /\ Moment.held = held
      /\ held \in SUBSET Keys /\ locked \in BOOLEAN
  <2>1. \E op \in SocketOps : Connected(c, op)
    BY SocketOpsFacts DEF GetAgentStatus, ListAgentKeys, Sign
  <2>2. UNCHANGED <<removing, outcome>>
    BY DEF GetAgentStatus, ListAgentKeys, ListKeys, Sign, avars, clientVars
  <2>3. ~JustAnswered(c) /\ AtRest(c) /\ AtRest(c)'
    BY <2>1, <2>2, ConnectedFacts DEF AtRest
  <2>4. QED
    BY <2>3, SocketOpsFacts DEF Ops, Moment, AgentTypeOK, KeyTypeOK, LockTypeOK
<1>1. CASE GetAgentStatus(c)
  <2>1. PICK text \in FailureTexts : Answer(c, "status", StatusAnswer(text))
    BY <1>1 DEF GetAgentStatus
  <2> DEFINE n == IF locked THEN 0 ELSE Cardinality(held)
             l == locked /\ text = "locked"
  <2>2. n \in Nat /\ l \in BOOLEAN
    BY FS_CardinalityType
  <2>3. StatusAnswer(text) = [running |-> TRUE, locked |-> l, count |-> n]
    BY DEF StatusAnswer
  <2>4. StatusAnswer(text) \in Replies
    BY <2>2, <2>3, ReplyFacts
  <2>5. Right("status", StatusAnswer(text), Moment)
    BY <1>0, <2>3 DEF Right
  <2>6. ChangeTold("status", StatusAnswer(text), {Moment})
    BY DEF ChangeTold
  <2>7. QED
    BY <1>0, <2>1, <2>4, <2>5, <2>6, Answered
<1>2. CASE ListAgentKeys(c)
  <2>1. Answer(c, "list", List)
    BY <1>2 DEF ListAgentKeys, ListKeys
  <2>2. List \in Replies /\ Right("list", List, Moment)
    BY <1>0, ReplyFacts DEF List, Right, Error
  <2>3. ChangeTold("list", List, {Moment})
    BY DEF ChangeTold
  <2>4. QED
    BY <1>0, <2>1, <2>2, <2>3, Answered
<1>3. ASSUME NEW k \in Keys, Sign(c, k) PROVE CallOK(c)'
  <2> DEFINE r == IF ~locked /\ k \in held THEN [ok |-> TRUE, by |-> k] ELSE Error
  <2>1. Answer(c, "sign", r)
    BY <1>3 DEF Sign
  <2>2. r \in Replies /\ Right("sign", r, Moment)
    BY <1>0, ReplyFacts DEF Right, Error
  <2>3. ChangeTold("sign", r, {Moment})
    BY DEF ChangeTold
  <2>4. QED
    BY <1>0, <2>1, <2>2, <2>3, Answered
<1>4. QED
  BY <1>1, <1>2, <1>3

\* The changes of the service, which dials before it asks.
LEMMA ChangesAreTrue ==
    ASSUME NEW c \in Clients, CallOK(c), Record,
           \/ RemoveAllKeysFromAgent(c)
           \/ \E p \in Passphrases : LockAgent(c, p) \/ UnlockAgent(c, p)
    PROVE  CallOK(c)'
<1>0. ~JustAnswered(c) /\ AtRest(c) /\ AtRest(c)'
  <2>1. \E op \in SocketOps : Connected(c, op)
    BY SocketOpsFacts DEF RemoveAllKeysFromAgent, LockAgent, UnlockAgent
  <2>2. UNCHANGED <<removing, outcome>>
    BY DEF RemoveAllKeysFromAgent, ServiceRemoveAll, RemoveAll, LockAgent, ServiceLock, Lock,
           UnlockAgent, ServiceUnlock, Unlock, avars, clientVars
  <2>3. QED
    BY <2>1, <2>2, ConnectedFacts DEF AtRest
<1>1. /\ "remove_all" \in Ops /\ "lock" \in Ops /\ "unlock" \in Ops
      /\ Moment.locked = locked /\ Moment'.locked = locked' /\ Moment'.held = held'
  BY SocketOpsFacts DEF Ops, Moment
<1>2. CASE RemoveAllKeysFromAgent(c)
  <2>1. CASE held' = {} /\ Answer(c, "remove_all", Ok)
    <3>1. Right("remove_all", Ok, Moment') /\ ChangeTold("remove_all", Ok, {Moment'})
      BY <1>1, <2>1 DEF Right, ChangeTold, Done, Ok
    <3>2. QED
      BY <1>0, <1>1, <2>1, <3>1, ReplyFacts, Answered
  <2>2. CASE locked /\ Answer(c, "remove_all", Error)
    <3>1. Right("remove_all", Error, Moment) /\ ChangeTold("remove_all", Error, {Moment})
      BY <1>1, <2>2 DEF Right, ChangeTold, Error
    <3>2. QED
      BY <1>0, <1>1, <2>2, <3>1, ReplyFacts, Answered
  <2>3. QED
    BY <1>2, <2>1, <2>2 DEF RemoveAllKeysFromAgent, ServiceRemoveAll, RemoveAll
<1>3. ASSUME NEW p \in Passphrases, LockAgent(c, p) PROVE CallOK(c)'
  <2>1. CASE locked' = TRUE /\ Answer(c, "lock", Ok)
    <3>1. Right("lock", Ok, Moment') /\ ChangeTold("lock", Ok, {Moment'})
      BY <1>1, <2>1 DEF Right, ChangeTold, Done, Ok
    <3>2. QED
      BY <1>0, <1>1, <2>1, <3>1, ReplyFacts, Answered
  <2>2. CASE locked /\ Answer(c, "lock", Error)
    <3>1. Right("lock", Error, Moment) /\ ChangeTold("lock", Error, {Moment})
      BY <1>1, <2>2 DEF Right, ChangeTold, Error
    <3>2. QED
      BY <1>0, <1>1, <2>2, <3>1, ReplyFacts, Answered
  <2>3. QED
    BY <1>3, <2>1, <2>2 DEF LockAgent, ServiceLock, Lock
<1>4. ASSUME NEW p \in Passphrases, UnlockAgent(c, p) PROVE CallOK(c)'
  <2>1. CASE locked' = FALSE /\ Answer(c, "unlock", Ok)
    <3>1. Right("unlock", Ok, Moment') /\ ChangeTold("unlock", Ok, {Moment'})
      BY <1>1, <2>1 DEF Right, ChangeTold, Done, Ok
    <3>2. QED
      BY <1>0, <1>1, <2>1, <3>1, ReplyFacts, Answered
  <2>2. CASE Answer(c, "unlock", Error)
    <3>1. Right("unlock", Error, Moment) /\ ChangeTold("unlock", Error, {Moment})
      BY DEF Right, ChangeTold, Error
    <3>2. QED
      BY <1>0, <1>1, <2>2, <3>1, ReplyFacts, Answered
  <2>3. QED
    BY <1>4, <2>1, <2>2 DEF UnlockAgent, ServiceUnlock, Unlock
<1>5. QED
  BY <1>2, <1>3, <1>4

\* AddKeyToAgent, which asks the agent without dialling.
LEMMA AddIsTrue ==
    ASSUME NEW c \in Clients, CallOK(c), Record, AddDirect(c)
    PROVE  CallOK(c)'
<1>0. ~JustAnswered(c) /\ AtRest(c) /\ AtRest(c)' /\ call[c].key \in Keys
  <2>1. UNCHANGED <<removing, outcome>>
    BY DEF AddDirect, Add, avars, clientVars
  <2>2. QED
    BY <2>1 DEF AddDirect, CallOK, JustAnswered, AtRest
<1>1. /\ "add" \in Ops
      /\ Moment.locked = locked /\ Moment'.held = held'
  BY DEF Ops, Moment
<1> DEFINE r == [ok |-> TRUE, key |-> call[c].key]
<1>2. CASE Add(call[c].key, call[c].timeout) /\ Answer(c, "add", r)
  <2>1. call[c].key \in held' /\ r \in Replies
    BY <1>0, <1>2, ReplyFacts DEF Add
  <2>2. Right("add", r, Moment') /\ ChangeTold("add", r, {Moment'})
    BY <1>1, <2>1 DEF Right, ChangeTold, Done
  <2>3. QED
    BY <1>0, <1>1, <1>2, <2>1, <2>2, Answered
<1>3. CASE locked /\ Answer(c, "add", Error)
  <2>1. Right("add", Error, Moment) /\ ChangeTold("add", Error, {Moment})
    BY <1>1, <1>3 DEF Right, ChangeTold, Error
  <2>2. QED
    BY <1>0, <1>1, <1>3, <2>1, ReplyFacts, Answered
<1>4. QED
  BY <1>2, <1>3 DEF AddDirect

\* A handler that begins: it dials, reads the key file, or answers at once.
LEMMA BeginsOK ==
    ASSUME NEW c \in Clients, CallOK(c), Record,
           \/ \E op \in SocketOps, socket \in BOOLEAN : Connect(c, op, socket)
           \/ \E file \in Keys \union {BadFile}, t \in Timeouts : AddRead(c, file, t)
           \/ RemoveConnectFails(c)
    PROVE  CallOK(c)'
<1>0. ~JustAnswered(c) /\ AtRest(c) /\ AtRest(c)'
  <2>1. Idle(c) /\ UNCHANGED <<removing, outcome>>
    BY DEF Connect, AddRead, RemoveConnectFails, avars, clientVars
  <2>2. QED
    BY <2>1 DEF Idle, Free, JustAnswered, AtRest
<1>1. ASSUME NEW op \in Ops \ {"status"}, Answer(c, op, NotReached) PROVE CallOK(c)'
  <2>1. Right(op, NotReached, Moment) /\ ChangeTold(op, NotReached, {Moment})
    BY DEF Right, ChangeTold, NotReached, Ops, SocketOps
  <2>2. QED
    BY <1>0, <1>1, <2>1, ReplyFacts, Answered
<1>2. ASSUME NEW op \in SocketOps, NEW socket \in BOOLEAN, Connect(c, op, socket)
      PROVE  CallOK(c)'
  <2>1. CASE socket
    <3>1. call'[c] = [op |-> op, stage |-> "connected"]
      BY <1>2, <2>1 DEF Connect, Rested
    <3>2. QED
      BY <1>0, <3>1 DEF CallOK, Ops
  <2>2. CASE ~socket /\ op = "status"
    <3> DEFINE r == [running |-> FALSE, locked |-> FALSE, count |-> 0]
    <3>1. Answer(c, op, r) /\ op \in Ops
      BY <1>2, <2>2 DEF Connect, Ops
    <3>2. r \in Replies /\ Right(op, r, Moment) /\ ChangeTold(op, r, {Moment})
      BY <2>2, ReplyFacts DEF Right, ChangeTold
    <3>3. QED
      BY <1>0, <3>1, <3>2, Answered
  <2>3. CASE ~socket /\ op # "status"
    BY <1>1, <1>2, <2>3 DEF Connect, Ops
  <2>4. QED
    BY <2>1, <2>2, <2>3
<1>3. ASSUME NEW file \in Keys \union {BadFile}, NEW t \in Timeouts, AddRead(c, file, t)
      PROVE  CallOK(c)'
  <2>1. CASE file \in Keys
    <3>1. call'[c] = [op |-> "add", stage |-> "parsed", key |-> file, timeout |-> t]
      BY <1>3, <2>1 DEF AddRead, Rested
    <3>2. QED
      BY <1>0, <2>1, <3>1 DEF CallOK, Ops
  <2>2. CASE file \notin Keys
    BY <1>1, <1>3, <2>2 DEF AddRead, Ops
  <2>3. QED
    BY <2>1, <2>2
<1>4. CASE RemoveConnectFails(c)
  BY <1>1, <1>4 DEF RemoveConnectFails, Ops
<1>5. QED
  BY <1>2, <1>3, <1>4

\* The two requests of RemoveKeyFromAgent, whose first may end the call.
LEMMA RemovalIsTrue ==
    ASSUME NEW c \in Clients, CallOK(c), AgentTypeOK, AgentTypeOK', Record, RemoveKeyFromAgent(c)
    PROVE  CallOK(c)'
<1>1. Moment.locked = locked /\ Moment.held = held /\ Moment'.held = held'
  BY DEF Moment
<1>2. ASSUME NEW k \in Keys, Idle(c), RemoveList(c, k),
             call' = [Rested EXCEPT ![c] = [op |-> "remove", stage |-> "listed", key |-> k]]
      PROVE  CallOK(c)'
  <2>1. call'[c] = [op |-> "remove", stage |-> "listed", key |-> k]
    BY <1>2 DEF Rested
  <2>2. Moment \in moments'[c]
    <3>1. call'[c].stage = "listed" /\ Free.stage = "free" /\ call[c] = Free
      BY <1>2, <2>1 DEF Free, Idle
    <3>2. ~Idle(c)' /\ ~JustAnswered(c)
      BY <3>1 DEF Idle, JustAnswered, Free
    <3>3. QED
      BY <3>2 DEF Record
  <2>3. CASE locked \/ k \notin held
    <3>1. outcome'[c] = (IF locked THEN "locked" ELSE "ok") /\ removing'[c] = {}
      BY <1>2, <2>3 DEF RemoveList, AgentTypeOK, KeyTypeOK
    <3>2. RemovalTold(k, outcome'[c], moments'[c])
      BY <1>1, <2>2, <2>3, <3>1 DEF RemovalTold
    <3>3. Removing(c, k)'
      BY <3>1, <3>2 DEF Removing, Outcomes
    <3>4. QED
      BY <2>1, <3>3 DEF CallOK, Ops
  <2>4. CASE ~locked /\ k \in held
    <3>1. outcome'[c] = "none" /\ removing'[c] = {k}
      BY <1>2, <2>4 DEF RemoveList, AgentTypeOK, KeyTypeOK
    <3>2. RemovalTold(k, outcome'[c], moments'[c])
      BY <3>1 DEF RemovalTold
    <3>3. Removing(c, k)'
      BY <1>1, <2>2, <2>4, <3>1, <3>2 DEF Removing
    <3>4. QED
      BY <2>1, <3>3 DEF CallOK, Ops
  <2>5. QED
    BY <2>3, <2>4
<1>3. CASE RemoveFound(c) /\ call' = Rested
  <2> DEFINE k == call[c].key
  <2>1. call[c].stage = "listed" /\ call[c].op = "remove"
    BY <1>3 DEF RemoveFound, CallOK, AtRest
  <2>2. outcome[c] = "none" /\ removing[c] = {k} /\ \E s \in moments[c] : k \in s.held
    BY <1>3, <2>1 DEF RemoveFound, CallOK, Removing
  <2>3. ~JustAnswered(c) /\ ~Idle(c)
    BY <2>1, <2>2 DEF JustAnswered, Idle
  <2>4. call'[c] = call[c] /\ moments'[c] = moments[c] \union {Moment, Moment'}
    BY <1>3, <2>3 DEF Rested, Record
  <2>5. removing'[c] = {}
    BY <1>3 DEF RemoveFound, AgentTypeOK, KeyTypeOK
  <2>6. CASE locked \/ k \notin held
    <3>0. locked \/ removing[c] \intersect held = {}
      BY <2>2, <2>6
    <3>1. outcome'[c] = IF locked THEN "locked" ELSE "not found"
      BY <1>3, <3>0 DEF RemoveFound, AgentTypeOK, KeyTypeOK
    <3>2. RemovalTold(k, outcome'[c], moments'[c])
      BY <1>1, <2>2, <2>4, <2>6, <3>1 DEF RemovalTold
    <3>3. Removing(c, k)'
      BY <2>4, <2>5, <3>1, <3>2 DEF Removing, Outcomes
    <3>4. QED
      BY <2>1, <2>4, <3>3 DEF CallOK
  <2>7. CASE ~locked /\ k \in held
    <3>1. outcome'[c] = "ok" /\ k \notin held'
      BY <1>3, <2>2, <2>7 DEF RemoveFound, AgentTypeOK, KeyTypeOK
    <3>2. RemovalTold(k, outcome'[c], moments'[c])
      BY <1>1, <2>4, <3>1 DEF RemovalTold
    <3>3. Removing(c, k)'
      BY <2>4, <2>5, <3>1, <3>2 DEF Removing, Outcomes
    <3>4. QED
      BY <2>1, <2>4, <3>3 DEF CallOK
  <2>8. QED
    BY <2>6, <2>7
<1>4. QED
  BY <1>2, <1>3 DEF RemoveKeyFromAgent

\* A handler serves its own call: the others rest.
LEMMA OthersRest ==
    ASSUME NEW c \in Clients, Handler(c), AgentTypeOK, NEW d \in Clients, d # c
    PROVE  call'[d] = Rested[d] /\ removing'[d] = removing[d] /\ outcome'[d] = outcome[d]
<1>1. call'[d] = Rested[d]
  <2>1. ASSUME NEW op, NEW r, Answer(c, op, r) PROVE call'[d] = Rested[d]
    BY <2>1 DEF Answer, Rested
  <2>2. ASSUME NEW op \in SocketOps, NEW socket \in BOOLEAN, Connect(c, op, socket)
        PROVE  call'[d] = Rested[d]
    BY <2>1, <2>2 DEF Connect, Rested
  <2>3. ASSUME NEW file \in Keys \union {BadFile}, NEW t \in Timeouts, AddRead(c, file, t)
        PROVE  call'[d] = Rested[d]
    BY <2>1, <2>3 DEF AddRead, Rested
  <2>4. CASE RemoveKeyFromAgent(c)
    BY <2>4 DEF RemoveKeyFromAgent, Rested
  <2>5. CASE GetAgentStatus(c) \/ ListAgentKeys(c) \/ (\E k \in Keys : Sign(c, k)) \/ AddDirect(c)
                \/ RemoveConnectFails(c)
    BY <2>1, <2>5 DEF GetAgentStatus, ListAgentKeys, ListKeys, Sign, AddDirect, RemoveConnectFails
  <2>6. CASE \/ RemoveAllKeysFromAgent(c)
             \/ \E p \in Passphrases : LockAgent(c, p) \/ UnlockAgent(c, p)
    BY <2>1, <2>6 DEF RemoveAllKeysFromAgent, ServiceRemoveAll, LockAgent, ServiceLock,
                      UnlockAgent, ServiceUnlock
  <2>7. QED
    BY <2>2, <2>3, <2>4, <2>5, <2>6 DEF Handler
<1>2. removing'[d] = removing[d] /\ outcome'[d] = outcome[d]
  <2>1. CASE UNCHANGED <<removing, outcome>>
    BY <2>1
  <2>2. ASSUME NEW k \in Keys, RemoveList(c, k)
        PROVE  removing'[d] = removing[d] /\ outcome'[d] = outcome[d]
    BY <2>2 DEF RemoveList, AgentTypeOK, KeyTypeOK
  <2>3. CASE RemoveFound(c)
    BY <2>3 DEF RemoveFound, AgentTypeOK, KeyTypeOK
  <2>4. \/ UNCHANGED <<removing, outcome>>
        \/ RemoveFound(c) \/ \E k \in Keys : RemoveList(c, k)
    BY DEF Handler, Connect, GetAgentStatus, ListAgentKeys, ListKeys, RemoveAllKeysFromAgent,
           ServiceRemoveAll, RemoveAll, LockAgent, ServiceLock, Lock, UnlockAgent, ServiceUnlock,
           Unlock, Sign, AddRead, AddDirect, Add, RemoveConnectFails, RemoveKeyFromAgent,
           avars, clientVars
  <2>5. QED
    BY <2>1, <2>2, <2>3, <2>4
<1>3. QED
  BY <1>1, <1>2

\* Every step keeps what each call stands for.
LEMMA CallsStep ==
    ASSUME AgentInv, CallsInv, [ServiceNext]_serviceVars
    PROVE  AgentInv' /\ CallsInv'
<1>1. AgentInv' /\ IsFiniteSet(held')
  BY ServiceStepsAgent, AgentInvStep, HeldStaysFinite DEF CallsInv
<1>2. AgentTypeOK /\ AgentTypeOK' /\ IsFiniteSet(held) /\ \A c \in Clients : CallOK(c)
  BY <1>1 DEF AgentInv, CallsInv
<1>3. ASSUME Agent, Record, NEW c \in Clients PROVE CallOK(c)'
  <2>1. call'[c] = Rested[c] /\ removing' = removing /\ outcome' = outcome
    BY <1>3 DEF Agent, Add, Remove, RemoveAll, Lock, Unlock, ExpireKeys, Advance, clientVars
  <2>2. QED
    BY <1>2, <1>3, <2>1, Rests
<1>4. ASSUME NEW c \in Clients, Handler(c), Record, NEW d \in Clients PROVE CallOK(d)'
  <2>1. CASE d # c
    BY <1>2, <1>4, <2>1, OthersRest, Rests
  <2>2. CASE d = c
    BY <1>2, <1>4, <2>2, BeginsOK, ReadsAreTrue, ChangesAreTrue, AddIsTrue, RemovalIsTrue
    DEF Handler
  <2>3. QED
    BY <2>1, <2>2
<1>5. CASE UNCHANGED serviceVars
  <2>1. ASSUME NEW c \in Clients PROVE CallOK(c)'
    BY <1>2, <1>5 DEF serviceVars, svcVars, avars, clientVars, CallOK, AtRest, Removing, Told
  <2>2. QED
    BY <1>1, <2>1 DEF CallsInv
<1>6. QED
  BY <1>1, <1>3, <1>4, <1>5 DEF CallsInv, ServiceNext

\* Each answer of the AgentService handlers is true of a moment of its call:
\* what a client reads was so, all of it together, and a change that is answered
\* with success was there, however the calls, ssh-add and the expiry loop
\* interleave.
THEOREM ServiceAnswersTrue == ServiceSpec => []AnswersHold
<1>1. ServiceInit => AgentInv /\ CallsInv
  <2> SUFFICES ASSUME ServiceInit PROVE AgentInv /\ CallsInv
    OBVIOUS
  <2>1. AgentInv
    BY AgentInvInit DEF ServiceInit
  <2>2. IsFiniteSet(held)
    BY FS_EmptySet DEF ServiceInit, AgentInit
  <2>3. ASSUME NEW c \in Clients PROVE CallOK(c)
    BY DEF ServiceInit, AgentInit, Free, CallOK, AtRest
  <2>4. QED
    BY <2>1, <2>2, <2>3 DEF CallsInv
<1>2. AgentInv /\ CallsInv => AnswersHold
  <2> SUFFICES ASSUME AgentInv, CallsInv PROVE AnswersHold
    OBVIOUS
  <2>1. \A c \in Clients : CallOK(c)
    BY DEF CallsInv
  <2>2. ServiceTypeOK
    BY <2>1 DEF AgentInv, ServiceTypeOK, CallOK, Ops
  <2>3. ReadsMeetAMoment
    BY <2>1 DEF ReadsMeetAMoment, CallOK, Told
  <2>4. ASSUME NEW c \in Clients, JustAnswered(c), call[c].stage # "done"
        PROVE  call[c].stage = "listed"
    BY <2>1, <2>4 DEF JustAnswered, CallOK, AtRest
  <2>5. AnswersTrue
    BY <2>1, <2>4 DEF AnswersTrue, CallOK, Told, Removing
  <2>6. QED
    BY <2>2, <2>3, <2>5 DEF AnswersHold
<1>3. AgentInv /\ CallsInv /\ [ServiceNext]_serviceVars => (AgentInv /\ CallsInv)'
  BY CallsStep
<1>4. QED
  BY <1>1, <1>2, <1>3, PTL DEF ServiceSpec
================================================================================
