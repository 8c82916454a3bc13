------------------------------- MODULE KeyWatcher -------------------------------
(***************************************************************************)
(* keysWatcher (skeys-core/keys/watcher.go) beside the calls that change   *)
(* the key files and the agent.  Events of the directory and signals of    *)
(* the agent arm a debounce timer; its callback sendUpdate runs in a       *)
(* goroutine of its own, so a slow one may still be at work when the next  *)
(* begins, and both use prevKeys.  Events of *.pub files are skipped.      *)
(***************************************************************************)
EXTENDS KeyFiles

CONSTANTS
    Updates,      \* bound: sendUpdate goroutines at the same time
    WatchedCalls  \* bound: calls made in a behaviour with the watcher

VARIABLES
    loop,         \* where watchLoop is
    dirEvent,     \* an event of a file that is not skipped is waiting
    told,         \* how many notifyChange goroutines have run
    agentSignal,  \* agentChanges holds a signal
    timer,        \* the debounce timer is armed
    update,       \* update[u]: a sendUpdate goroutine
    prevKeys,
    shown,        \* the last KeysUpdate broadcast
    overlapped,   \* history: two sendUpdates were at work at once
    pubSince,     \* history: names whose .pub changed after the last listing
    blind         \* history: the agent did not answer the last listing

watchVars == <<loop, dirEvent, told, agentSignal, timer, update, prevKeys, shown, overlapped, pubSince, blind>>
kvars == <<avars, kfvars, watchVars>>

Nothing == [k |-> "none"]
Failure == [k |-> "error"]
Idle == [at |-> "idle", list |-> Nothing]

WatcherInit ==
    /\ loop = "off"
    /\ dirEvent = FALSE /\ agentSignal = FALSE /\ timer = FALSE
    /\ told = 0
    /\ update = [u \in Updates |-> Idle]
    /\ prevKeys = Nothing /\ shown = Nothing
    /\ overlapped = FALSE
    /\ pubSince = {} /\ blind = FALSE

WatchInit == KeyInit /\ WatcherInit

\* What List returns; a key is not in the agent when the agent does not answer.
Seen(unanswered) ==
    [n \in Names |-> IF unanswered /\ List[n] # NoKey THEN [List[n] EXCEPT !.inAgent = FALSE] ELSE List[n]]

Listing(unanswered) == [k |-> "list", keys |-> Seen(unanswered)]

\* A listing is made, and the agent answers it or not.
Lists ==
    /\ blind' \in BOOLEAN
    /\ IF blind' THEN Accident ELSE UNCHANGED accidents
    /\ pubSince' = {}

Made == Cardinality({c \in Calls : kpc[c] # "new"})

\* What the watcher has of a step of a call: the directory watch reports changes of files that
\* shouldSkipFile lets pass.
Observed ==
    /\ loop # "off" => Made' <= WatchedCalls
    /\ dirEvent' = (dirEvent \/ (loop \notin {"off", "adding", "ended"} /\ priv' # priv))
    /\ pubSince' = pubSince \union {n \in Names : pub'[n] # pub[n]}
    /\ UNCHANGED <<loop, told, agentSignal, timer, update, prevKeys, shown, overlapped, blind>>
--------------------------------------------------------------------------------
(* start and watchLoop up to its select. *)

\* start, by the first Watch.
StartWatcher ==
    /\ loop = "off" /\ Made <= WatchedCalls
    /\ loop' = "adding"
    /\ UNCHANGED <<avars, kfvars, dirEvent, told, agentSignal, timer, update, prevKeys, shown, overlapped, pubSince, blind>>

\* watcher.Add(sshDir)
WatchDirectory ==
    /\ loop = "adding"
    /\ loop' = "subscribing"
    /\ UNCHANGED <<avars, kfvars, dirEvent, told, agentSignal, timer, update, prevKeys, shown, overlapped, pubSince, blind>>

\* There is no watcher, or the directory cannot be watched or listed: the
\* error is broadcast and the loop is over, though started stays true.
WatchFails ==
    /\ loop \in {"adding", "listing"}
    /\ Accident
    /\ loop' = "ended"
    /\ shown' = Failure
    /\ UNCHANGED <<avars, fileVars, callVars, histVars, dirEvent, told, agentSignal, timer, update,
                   prevKeys, overlapped, pubSince, blind>>

\* SubscribeChanges
SubscribeChanges ==
    /\ loop = "subscribing"
    /\ loop' = "listing"
    /\ UNCHANGED <<avars, kfvars, dirEvent, told, agentSignal, timer, update, prevKeys, shown, overlapped, pubSince, blind>>

FirstList ==
    /\ loop = "listing"
    /\ Lists
    /\ prevKeys' = Listing(blind')
    /\ loop' = "sending"
    /\ UNCHANGED <<avars, fileVars, callVars, histVars, dirEvent, told, agentSignal, timer, update,
                   shown, overlapped>>

FirstSend ==
    /\ loop = "sending"
    /\ shown' = prevKeys
    /\ loop' = "waiting"
    /\ UNCHANGED <<avars, kfvars, dirEvent, told, agentSignal, timer, update, prevKeys, overlapped, pubSince, blind>>
--------------------------------------------------------------------------------
\* A notifyChange goroutine of the agent runs; the subscription turns its
\* update into a signal on a channel of one slot, which nobody misses.
AgentTells ==
    /\ told < changes
    /\ told' = told + 1
    /\ agentSignal' = (agentSignal \/ loop \in {"listing", "sending", "waiting"})
    /\ UNCHANGED <<avars, kfvars, loop, dirEvent, timer, update, prevKeys, shown, overlapped, pubSince, blind>>

\* case event := <-watcher.Events: the timer is stopped and armed anew.
TakeEvent ==
    /\ loop = "waiting" /\ dirEvent
    /\ dirEvent' = FALSE
    /\ timer' = TRUE
    /\ UNCHANGED <<avars, kfvars, loop, told, agentSignal, update, prevKeys, shown, overlapped, pubSince, blind>>

\* case <-agentChanges
TakeSignal ==
    /\ loop = "waiting" /\ agentSignal
    /\ agentSignal' = FALSE
    /\ timer' = TRUE
    /\ UNCHANGED <<avars, kfvars, loop, dirEvent, told, update, prevKeys, shown, overlapped, pubSince, blind>>

\* time.AfterFunc: Stop does not wait for a callback that has begun.
TimerFires(u) ==
    /\ timer /\ update[u] = Idle
    /\ timer' = FALSE
    /\ update' = [update EXCEPT ![u].at = "begun"]
    /\ overlapped' = (overlapped \/ \E v \in Updates : update[v] # Idle)
    /\ UNCHANGED <<avars, kfvars, loop, dirEvent, told, agentSignal, prevKeys, shown, pubSince, blind>>

UpdateLists(u) ==
    /\ update[u].at = "begun"
    /\ Lists
    /\ update' = [update EXCEPT ![u] = [at |-> "listed", list |-> Listing(blind')]]
    /\ UNCHANGED <<avars, fileVars, callVars, histVars, loop, dirEvent, told, agentSignal, timer,
                   prevKeys, shown, overlapped>>

\* The directory cannot be listed: the error is broadcast, and the list to compare
\* with stays the one before it.
UpdateListFails(u) ==
    /\ update[u].at = "begun"
    /\ Accident
    /\ shown' = Failure
    /\ update' = [update EXCEPT ![u] = Idle]
    /\ UNCHANGED <<avars, fileVars, callVars, histVars, loop, dirEvent, told, agentSignal, timer,
                   prevKeys, overlapped, pubSince, blind>>

\* Mutant: keys are told apart by their fingerprints alone.
KeysEqualByFingerprint(a, b) ==
    LET fps(l) == [n \in Names |-> IF l.keys[n].k = "key" THEN {l.keys[n].fp} ELSE {}] IN
    a.k = b.k /\ (a.k = "list" => fps(a) = fps(b))

\* keysEqual: a Key holds whether it is in the agent and has a passphrase.
KeysEqual(a, b) == a = b

\* An equal list is not broadcast.
UpdateSends(u) ==
    /\ update[u].at = "listed"
    /\ IF KeysEqual(prevKeys, update[u].list)
       THEN update' = [update EXCEPT ![u] = Idle] /\ UNCHANGED shown
       ELSE update' = [update EXCEPT ![u].at = "sent"] /\ shown' = update[u].list
    /\ UNCHANGED <<avars, kfvars, loop, dirEvent, told, agentSignal, timer, prevKeys, overlapped, pubSince, blind>>

UpdateRemembers(u) ==
    /\ update[u].at = "sent"
    /\ prevKeys' = update[u].list
    /\ update' = [update EXCEPT ![u] = Idle]
    /\ UNCHANGED <<avars, kfvars, loop, dirEvent, told, agentSignal, timer, shown, overlapped, pubSince, blind>>

\* The daemon is killed and started again, and with it the watcher.
Crash ==
    /\ KeyCrash
    /\ loop' = "off"
    /\ dirEvent' = FALSE /\ agentSignal' = FALSE /\ timer' = FALSE
    /\ told' = changes
    /\ update' = [u \in Updates |-> Idle]
    /\ prevKeys' = Nothing /\ shown' = Nothing
    /\ overlapped' = FALSE
    /\ pubSince' = {} /\ blind' = FALSE

WatcherNext ==
    \/ StartWatcher \/ WatchDirectory \/ WatchFails \/ SubscribeChanges \/ FirstList \/ FirstSend
    \/ AgentTells \/ TakeEvent \/ TakeSignal
    \/ \E u \in Updates : \/ TimerFires(u) \/ UpdateLists(u) \/ UpdateListFails(u)
                          \/ UpdateSends(u) \/ UpdateRemembers(u)

WatchNext ==
    \/ KeyNext /\ Observed
    \/ WatcherNext
    \/ Crash

--------------------------------------------------------------------------------
\* When nothing is under way in the watcher, what it last broadcast is the
\* listing: no change of a private key, of the agent or of its lock is missed,
\* whenever it came.  Excepted is what the code does not see: a .pub file written
\* after the listing that its private key caused; the keys in an agent that did
\* not answer the last listing; and two sendUpdates at once.  An error may be the
\* last broadcast, too: after a listing that failed, a list equal to the one
\* before it is not sent.
QuietIsCurrent ==
    (/\ loop = "waiting" /\ ~dirEvent /\ ~agentSignal /\ told = changes /\ ~timer
     /\ \A u \in Updates : update[u] = Idle
     /\ ~overlapped)
       => \/ shown = Failure
          \/ shown.k = "list" /\ \A n \in Names \ pubSince : shown.keys[n] = Seen(blind)[n]
================================================================================
