------------------------------- MODULE AgentWatch -------------------------------
(***************************************************************************)
(* How watchers learn of changes of the managed agent: Subscriptions       *)
(* (skeys-core/agent/watcher.go) and Watch and notifyChange                *)
(* (skeys-core/agent/server.go).                                           *)
(*                                                                         *)
(* Each change of the agent spawns a notifyChange goroutine, each Watch a  *)
(* goroutine that sends the initial state.  Both read the status and the   *)
(* keys in two critical sections of m.mu and then offer the update to every*)
(* subscriber under the read lock of s.mu; nothing orders the goroutines.  *)
(* A subscription's cleanup goroutine unregisters it under the write lock  *)
(* and closes its channel after releasing it.                              *)
(***************************************************************************)
EXTENDS ManagedAgent, Sequences

CONSTANTS
    Subs,       \* the watches that can ever be made
    Notifiers,  \* bound: goroutines that notify at the same time
    Nobody      \* the watch of a goroutine that serves none

ASSUME AgentWatchAssumption == Nobody \notin Subs

VARIABLES
    subscribers,  \* s.subscribers
    buf,          \* buf[s]: contents of the channel
    closed,       \* the closed channels
    cancelled,    \* the watches whose context is done
    watch,        \* watch[s]: "new", "live", "removed" or "closed"
    spawned,      \* notifyChange goroutines that have started to run
    pc,           \* pc[g]: where notifying goroutine g is
    for,          \* for[g]: the Watch whose initial state g sends, or Nobody
    update,       \* update[g]: the AgentUpdate it has put together
    pending,      \* pending[g]: the subscribers Notify has not reached
    seen,         \* seen[s]: the updates the stream has sent on, the last one
    crashed       \* a send on a closed channel

subVars == <<subscribers, closed, watch>>
goVars == <<spawned, pc, for, update, pending>>
nvars == <<subVars, buf, cancelled, goVars, seen, crashed>>
vars == <<avars, nvars>>

\* What WatchAgent streams: the lock and the keys; the keys are none when the
\* agent is locked, as ListKeys then returns nil.
NoUpdate == [isLocked |-> FALSE, keys |-> {}, sent |-> FALSE]

CurrentUpdate == [isLocked |-> locked, keys |-> IF locked THEN {} ELSE held, sent |-> TRUE]

Init ==
    /\ AgentInit
    /\ subscribers = {}
    /\ buf = [s \in Subs |-> <<>>]
    /\ closed = {}
    /\ cancelled = {}
    /\ watch = [s \in Subs |-> "new"]
    /\ spawned = 0
    /\ pc = [g \in Notifiers |-> "idle"]
    /\ for = [g \in Notifiers |-> Nobody]
    /\ update = [g \in Notifiers |-> NoUpdate]
    /\ pending = [g \in Notifiers |-> {}]
    /\ seen = [s \in Subs |-> NoUpdate]
    /\ crashed = FALSE

\* s.mu is read-locked while a Notify is under way; writers wait for it.
WriteLockFree == \A g \in Notifiers : pc[g] # "sending"

Goto(g, label) == pc' = [pc EXCEPT ![g] = label]
--------------------------------------------------------------------------------
\* Subscribe: registers a new subscription under the write lock.
Subscribe(s) ==
    /\ watch[s] = "new"
    /\ WriteLockFree
    /\ watch' = [watch EXCEPT ![s] = "live"]
    /\ subscribers' = subscribers \union {s}

\* Mutant: Watch does not send the initial state.
WatchSilent(s, g) ==
    /\ ~crashed
    /\ pc[g] = "idle"
    /\ Subscribe(s)
    /\ UNCHANGED <<avars, closed, buf, cancelled, goVars, seen, crashed>>

\* Watch: subscribes, and starts a goroutine for the initial state.
Watch(s, g) ==
    /\ ~crashed
    /\ pc[g] = "idle"
    /\ Subscribe(s)
    /\ Goto(g, "status")
    /\ for' = [for EXCEPT ![g] = s]
    /\ UNCHANGED <<avars, closed, buf, cancelled, spawned, update, pending, seen, crashed>>

\* The stream of s ends: its context is cancelled.
Cancel(s) ==
    /\ watch[s] = "live" /\ s \notin cancelled
    /\ cancelled' = cancelled \union {s}
    /\ UNCHANGED <<avars, subVars, buf, goVars, seen, crashed>>

\* Mutant: the subscription is deleted without taking the write lock.
CleanupDeleteUnlocked(s) ==
    /\ ~crashed
    /\ watch[s] = "live" /\ s \in cancelled
    /\ subscribers' = subscribers \ {s}
    /\ watch' = [watch EXCEPT ![s] = "removed"]
    /\ UNCHANGED <<avars, closed, buf, cancelled, goVars, seen, crashed>>

\* The cleanup goroutine: <-subCtx.Done(), then delete under s.mu ...
CleanupDelete(s) ==
    /\ ~crashed
    /\ watch[s] = "live" /\ s \in cancelled
    /\ WriteLockFree
    /\ subscribers' = subscribers \ {s}
    /\ watch' = [watch EXCEPT ![s] = "removed"]
    /\ UNCHANGED <<avars, closed, buf, cancelled, goVars, seen, crashed>>

\* Mutant: the channel is never closed.
CleanupCloseMissing(s) ==
    /\ ~crashed
    /\ watch[s] = "removed"
    /\ watch' = [watch EXCEPT ![s] = "closed"]
    /\ UNCHANGED <<avars, subscribers, closed, buf, cancelled, goVars, seen, crashed>>

\* ... and close(ch) after releasing it.
CleanupClose(s) ==
    /\ ~crashed
    /\ watch[s] = "removed"
    /\ closed' = closed \union {s}
    /\ watch' = [watch EXCEPT ![s] = "closed"]
    /\ UNCHANGED <<avars, subscribers, buf, cancelled, goVars, seen, crashed>>

\* WatchAgent: for update := range updates { stream.Send(...) }
Consume(s) ==
    /\ ~crashed
    /\ buf[s] # <<>>
    /\ seen' = [seen EXCEPT ![s] = Head(buf[s])]
    /\ buf' = [buf EXCEPT ![s] = Tail(@)]
    /\ UNCHANGED <<avars, subVars, cancelled, goVars, crashed>>
--------------------------------------------------------------------------------
\* A spawned notifyChange starts to run.
BeginNotify(g) ==
    /\ ~crashed
    /\ pc[g] = "idle"
    /\ spawned < changes
    /\ spawned' = spawned + 1
    /\ for' = [for EXCEPT ![g] = Nobody]
    /\ Goto(g, "count")
    /\ UNCHANGED <<avars, subVars, buf, cancelled, update, pending, seen, crashed>>

\* if m.subscriptions.Count() == 0 { return }
CountSubscribers(g) ==
    /\ ~crashed
    /\ pc[g] = "count"
    /\ Goto(g, IF subscribers = {} THEN "idle" ELSE "status")
    /\ UNCHANGED <<avars, subVars, buf, cancelled, spawned, for, update, pending, seen, crashed>>

\* status := m.Status()
ReadStatus(g) ==
    /\ ~crashed
    /\ pc[g] = "status"
    /\ update' = [update EXCEPT ![g] = [CurrentUpdate EXCEPT !.keys = {}]]
    /\ Goto(g, "keys")
    /\ UNCHANGED <<avars, subVars, buf, cancelled, spawned, for, pending, seen, crashed>>

\* keys, _ := m.ListKeys(); Watch's goroutine then looks at its context.
ReadKeys(g) ==
    /\ ~crashed
    /\ pc[g] = "keys"
    /\ update' = [update EXCEPT ![g].keys = CurrentUpdate.keys]
    /\ Goto(g, IF for[g] \in cancelled THEN "idle" ELSE "notify")
    /\ UNCHANGED <<avars, subVars, buf, cancelled, spawned, for, pending, seen, crashed>>

\* Notify takes the read lock of s.mu ...
NotifyLock(g) ==
    /\ ~crashed
    /\ pc[g] = "notify"
    /\ pending' = [pending EXCEPT ![g] = subscribers]
    /\ Goto(g, "sending")
    /\ UNCHANGED <<avars, subVars, buf, cancelled, spawned, for, update, seen, crashed>>

\* make(chan AgentUpdate, 1)
ChanCapacity == 1

\* ... and tries each subscriber, in the random order of a Go map: the update
\* is sent if there is room, skipped if the context is done (either, if both
\* hold), and dropped if there is no room.
NotifyOne(g, s) ==
    /\ ~crashed
    /\ pc[g] = "sending" /\ s \in pending[g]
    /\ pending' = [pending EXCEPT ![g] = @ \ {s}]
    /\ \/ /\ Len(buf[s]) < ChanCapacity
          /\ buf' = [buf EXCEPT ![s] = Append(@, update[g])]
          /\ crashed' = (s \in closed)
       \/ /\ Len(buf[s]) >= ChanCapacity \/ s \in cancelled
          /\ UNCHANGED <<buf, crashed>>
    /\ UNCHANGED <<avars, subVars, cancelled, spawned, pc, for, update, seen>>

NotifyUnlock(g) ==
    /\ ~crashed
    /\ pc[g] = "sending" /\ pending[g] = {}
    /\ Goto(g, "idle")
    /\ UNCHANGED <<avars, subVars, buf, cancelled, spawned, for, update, pending, seen, crashed>>

NotifyStep(g) ==
    \/ BeginNotify(g) \/ CountSubscribers(g) \/ ReadStatus(g) \/ ReadKeys(g)
    \/ NotifyLock(g) \/ (\E s \in Subs : NotifyOne(g, s)) \/ NotifyUnlock(g)

CleanupStep(s) == CleanupDelete(s) \/ CleanupClose(s)

Next ==
    \/ AgentNext /\ ~crashed /\ UNCHANGED nvars
    \/ \E s \in Subs, g \in Notifiers : Watch(s, g)
    \/ \E s \in Subs : Cancel(s) \/ CleanupStep(s) \/ Consume(s)
    \/ \E g \in Notifiers : NotifyStep(g)

\* Goroutines are scheduled and the stream handlers drain their channels.
\* Nobody has to use the agent, watch it or stop watching it.
Fairness ==
    /\ \A g \in Notifiers : WF_vars(NotifyStep(g))
    /\ \A s \in Subs : WF_vars(CleanupStep(s)) /\ WF_vars(Consume(s))

Spec == Init /\ [][Next]_vars /\ Fairness
--------------------------------------------------------------------------------
WatchStates == {"new", "live", "removed", "closed"}

Labels == {"idle", "count", "status", "keys", "notify", "sending"}

Updates == [isLocked : BOOLEAN, keys : SUBSET Keys, sent : BOOLEAN]

\* Types: channels hold at most one update, and no more goroutines run than
\* were spawned.
TypeOK ==
    /\ AgentTypeOK
    /\ subscribers \subseteq Subs /\ closed \subseteq Subs /\ cancelled \subseteq Subs
    /\ buf \in [Subs -> Seq(Updates)]
    /\ \A s \in Subs : Len(buf[s]) <= ChanCapacity
    /\ watch \in [Subs -> WatchStates]
    /\ spawned \in Nat /\ spawned <= changes
    /\ pc \in [Notifiers -> Labels]
    /\ for \in [Notifiers -> Subs \union {Nobody}]
    /\ update \in [Notifiers -> Updates]
    /\ pending \in [Notifiers -> SUBSET Subs]
    /\ seen \in [Subs -> Updates]
    /\ crashed \in BOOLEAN

\* No Notify ever sends on a channel that a cleanup goroutine has closed,
\* although the channel is closed outside the lock.
NoSendOnClosed == ~crashed

\* The subscriptions: types, channels within their capacity, and no send on a
\* closed one.
WatchSafe == TypeOK /\ NoSendOnClosed

\* A watch that has been told to end is closed in the end: "The channel is
\* closed when the context is cancelled."
CancelledIsClosed == \A s \in Subs : (s \in cancelled) ~> (s \in closed)

\* Every watch that is not cancelled gets a first update: "Sends an initial
\* update immediately".
InitialUpdateArrives ==
    \A s \in Subs : (watch[s] = "live") ~> (seen[s].sent \/ s \in cancelled)

\* "sends agent keys and status whenever they change": when the agent no
\* longer changes, every live stream ends up showing its lock and its keys.
WatchConverges ==
    \A s \in Subs : (watch[s] = "live") ~> (seen[s] = CurrentUpdate \/ s \in cancelled)
================================================================================
