------------------------------ MODULE ManagedAgent ------------------------------
(***************************************************************************)
(* agent.ManagedAgent (skeys-core/agent/server.go): the SSH agent that the *)
(* daemon runs, its keys, their timeouts and its lock.  Every operation is *)
(* one critical section of m.mu, so it is one action here.  The daemon's   *)
(* own RPCs reach the agent over its socket through agent.Service, where   *)
(* RemoveKeyByFingerprint is two requests with other operations between.   *)
(*                                                                         *)
(* Every change of the agent spawns one notifyChange goroutine; changes    *)
(* counts them, and module AgentWatch runs them.                           *)
(***************************************************************************)
EXTENDS Naturals

CONSTANTS
    Keys,             \* fingerprints
    Passphrases,
    NoPass,           \* lockPass = nil
    Clients,          \* concurrent RemoveKeyFromAgent requests
    Timeouts,         \* requested lifetimes in seconds; 0 asks for none
    LifetimeModulus,  \* 2^32: LifetimeSecs is a uint32
    ExpiryPeriod,     \* the ticker of expiryLoop, 10s in the code
    MaxTime,          \* bound: how long the model runs
    MaxChanges        \* bound: how many changes the agent undergoes

ASSUME ManagedAgentAssumption ==
    /\ NoPass \notin Passphrases
    /\ Timeouts \subseteq Nat
    /\ LifetimeModulus \in Nat \ {0}
    /\ ExpiryPeriod \in Nat \ {0}
    /\ MaxTime \in Nat /\ MaxChanges \in Nat

VARIABLES
    held,        \* the fingerprints in m.keys
    addedAt,     \* addedAt[k] and
    lifetime,    \* lifetime[k]: the managedKey of k, if held
    requested,   \* requested[k]: the timeout its last AddKeyToAgent asked for
    locked,
    lockPass,
    now,
    lastTick,    \* when expireKeys last ran
    changes,     \* how many notifyChange goroutines have been spawned
    removing,    \* removing[c]: the key found by c's List, before its Remove
    outcome      \* outcome[c]: what c's last RemoveKeyFromAgent returned

keyVars == <<held, addedAt, lifetime, requested>>
lockVars == <<locked, lockPass>>
timeVars == <<now, lastTick>>
clientVars == <<removing, outcome>>
avars == <<keyVars, lockVars, timeVars, changes, clientVars>>

\* NewManagedAgent, Start: no keys, unlocked, the ticker just started.
AgentInit ==
    /\ held = {}
    /\ addedAt = [k \in Keys |-> 0]
    /\ lifetime = [k \in Keys |-> 0]
    /\ requested = [k \in Keys |-> 0]
    /\ locked = FALSE
    /\ lockPass = NoPass
    /\ now = 0
    /\ lastTick = 0
    /\ changes = 0
    /\ removing = [c \in Clients |-> {}]
    /\ outcome = [c \in Clients |-> "none"]

\* go m.notifyChange()
SpawnNotify ==
    /\ changes < MaxChanges
    /\ changes' = changes + 1
--------------------------------------------------------------------------------
\* uint32(lifetime.GetSeconds())
LifetimeSecs(timeout) == timeout % LifetimeModulus

\* AddKeyToAgent -> AddKeyDirect -> Add: a key that is already held is
\* replaced.  A locked agent refuses.
Add(k, timeout) ==
    /\ ~locked
    /\ held' = held \union {k}
    /\ addedAt' = [addedAt EXCEPT ![k] = now]
    /\ lifetime' = [lifetime EXCEPT ![k] = LifetimeSecs(timeout)]
    /\ requested' = [requested EXCEPT ![k] = timeout]
    /\ SpawnNotify
    /\ UNCHANGED <<lockVars, timeVars, clientVars>>

\* Remove over the socket (ssh-add -d): a locked agent or an unknown key is an
\* error.
Remove(k) ==
    /\ ~locked
    /\ k \in held
    /\ held' = held \ {k}
    /\ SpawnNotify
    /\ UNCHANGED <<addedAt, lifetime, requested, lockVars, timeVars, clientVars>>

\* Mutant: RemoveAll forgets that the agent may be locked.
RemoveAllLocked ==
    /\ held' = {}
    /\ SpawnNotify
    /\ UNCHANGED <<addedAt, lifetime, requested, lockVars, timeVars, clientVars>>

\* RemoveAll: succeeds, and notifies, for an empty agent too.
RemoveAll ==
    /\ ~locked
    /\ held' = {}
    /\ SpawnNotify
    /\ UNCHANGED <<addedAt, lifetime, requested, lockVars, timeVars, clientVars>>

\* Lock: an agent that is already locked refuses.
Lock(p) ==
    /\ ~locked
    /\ locked' = TRUE
    /\ lockPass' = p
    /\ SpawnNotify
    /\ UNCHANGED <<keyVars, timeVars, clientVars>>

\* Unlock: only with the passphrase the agent was locked with.
Unlock(p) ==
    /\ locked
    /\ p = lockPass
    /\ locked' = FALSE
    /\ lockPass' = NoPass
    /\ SpawnNotify
    /\ UNCHANGED <<keyVars, timeVars, clientVars>>
--------------------------------------------------------------------------------
\* key.lifetime > 0 && now.Sub(key.addedAt) > key.lifetime
Expired(k) == lifetime[k] > 0 /\ now - addedAt[k] > lifetime[k]

\* Mutant: a locked agent does not expire keys.
ExpireKeysUnlessLocked ==
    LET expired == {k \in held : ~locked /\ Expired(k)} IN
    /\ now = lastTick + ExpiryPeriod
    /\ lastTick' = now
    /\ held' = held \ expired
    /\ IF expired = {} THEN UNCHANGED changes ELSE SpawnNotify
    /\ UNCHANGED <<addedAt, lifetime, requested, lockVars, now, clientVars>>

\* expireKeys, run by expiryLoop on every tick, whether the agent is locked or
\* not; it notifies only if a key expired.
ExpireKeys ==
    LET expired == {k \in held : Expired(k)} IN
    /\ now = lastTick + ExpiryPeriod
    /\ lastTick' = now
    /\ held' = held \ expired
    /\ IF expired = {} THEN UNCHANGED changes ELSE SpawnNotify
    /\ UNCHANGED <<addedAt, lifetime, requested, lockVars, now, clientVars>>

\* A second passes.  The ticker is taken to be punctual: time does not pass a
\* tick that expireKeys has not served.
Advance ==
    /\ now < MaxTime
    /\ now < lastTick + ExpiryPeriod
    /\ now' = now + 1
    /\ UNCHANGED <<keyVars, lockVars, lastTick, changes, clientVars>>
--------------------------------------------------------------------------------
\* Service.RemoveKeyByFingerprint, the List request: an error if the agent is
\* locked; success if the key is not there; else Remove comes next.  A client
\* makes one call.
RemoveList(c, k) ==
    /\ removing[c] = {}
    /\ outcome[c] = "none"
    /\ IF locked \/ k \notin held
       THEN /\ outcome' = [outcome EXCEPT ![c] = IF locked THEN "locked" ELSE "ok"]
            /\ UNCHANGED removing
       ELSE /\ removing' = [removing EXCEPT ![c] = {k}]
            /\ UNCHANGED outcome
    /\ UNCHANGED <<keyVars, lockVars, timeVars, changes>>

\* The Remove request of the same call.
RemoveFound(c) ==
    /\ removing[c] # {}
    /\ removing' = [removing EXCEPT ![c] = {}]
    /\ IF locked \/ removing[c] \intersect held = {}
       THEN /\ outcome' = [outcome EXCEPT ![c] = IF locked THEN "locked" ELSE "not found"]
            /\ UNCHANGED <<held, changes>>
       ELSE /\ outcome' = [outcome EXCEPT ![c] = "ok"]
            /\ held' = held \ removing[c]
            /\ SpawnNotify
    /\ UNCHANGED <<addedAt, lifetime, requested, lockVars, timeVars>>

AgentNext ==
    \/ \E k \in Keys, timeout \in Timeouts : Add(k, timeout)
    \/ \E k \in Keys : Remove(k)
    \/ RemoveAll
    \/ \E p \in Passphrases : Lock(p) \/ Unlock(p)
    \/ ExpireKeys
    \/ Advance
    \/ \E c \in Clients, k \in Keys : RemoveList(c, k)
    \/ \E c \in Clients : RemoveFound(c)

AgentSpec == AgentInit /\ [][AgentNext]_avars
--------------------------------------------------------------------------------
Outcomes == {"none", "ok", "locked", "not found"}

LockTypeOK ==
    /\ locked \in BOOLEAN
    /\ lockPass \in Passphrases \union {NoPass}
    /\ locked <=> lockPass # NoPass

KeyTypeOK ==
    /\ held \subseteq Keys
    /\ addedAt \in [Keys -> Nat]
    /\ lifetime \in [Keys -> Nat]
    /\ requested \in [Keys -> Nat]
    /\ now \in Nat /\ lastTick \in Nat /\ changes \in Nat
    /\ lastTick <= now /\ now <= lastTick + ExpiryPeriod
    /\ removing \in [Clients -> SUBSET Keys]
    /\ outcome \in [Clients -> Outcomes]

\* Types; a passphrase is remembered exactly while the agent is locked, and
\* time never passes an unserved tick.
AgentTypeOK == LockTypeOK /\ KeyTypeOK

\* "Keys automatically removed after the specified duration": a key added with
\* a timeout that fits LifetimeSecs leaves the agent within that timeout and
\* one period of the expiry loop, whatever happened to it and to the lock.
TimeoutHonoured ==
    \A k \in held :
       requested[k] \in 1..(LifetimeModulus - 1) =>
          now <= addedAt[k] + requested[k] + ExpiryPeriod

\* "Your keys stay loaded and ready to use once unlocked": while the agent is
\* locked no key comes or goes, except by the end of its own timeout.
LockKeepsKeys ==
    [][locked => /\ held' \subseteq held
                 /\ \A k \in held \ held' :
                       /\ LifetimeSecs(requested[k]) > 0
                       /\ now > addedAt[k] + LifetimeSecs(requested[k])]_avars
================================================================================
