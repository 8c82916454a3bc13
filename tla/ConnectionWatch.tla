---------------------------- MODULE ConnectionWatch ----------------------------
(***************************************************************************)
(* The watcher of the connection pool (skeys-core/remote/watcher.go) and   *)
(* WatchConnections on top of it: one polling loop lists the pool every    *)
(* two seconds and broadcasts the list if it finds it changed.  How a      *)
(* broadcast reaches the streams is in modules Broadcaster and PollWatcher *)
(* and is left out here: prev is what every stream was last sent.          *)
(***************************************************************************)
EXTENDS ConnectionPool

VARIABLES
    watching,  \* the polling loop: "off", "first" (started) or "polling"
    prev       \* prevConnections, the last list that was broadcast

watchVars == <<watching, prev>>
allVars == <<vars, watchVars>>

\* Watch -> ensureWatcher, subscribe -> start: the first watch starts the loop.
\* Bound: it comes at once or never.
WatchInit ==
    /\ Init
    /\ watching \in {"off", "first"}
    /\ prev = {}

\* pollLoop lists the pool, under the read lock of p.mu, and broadcasts it.
PollFirst ==
    /\ watching = "first"
    /\ poolMu = NoOne
    /\ watching' = "polling"
    /\ prev' = Pooled
    /\ UNCHANGED vars

\* Mutant: the lengths are not compared.
connectionsEqualAnyLength(a, b) == \A c \in b : c \in a \/ b # {}

\* connectionsEqual: lists of one length are equal unless a connection that is
\* in both has changed its host, port, user or version, which none does; one
\* whose ID is in b only makes them equal.
connectionsEqual(a, b) == Cardinality(a) = Cardinality(b)

\* A tick of pollLoop.
PollTick ==
    /\ watching = "polling"
    /\ poolMu = NoOne
    /\ ~connectionsEqual(prev, Pooled)
    /\ prev' = Pooled
    /\ UNCHANGED <<vars, watching>>

WatchNext ==
    \/ Next /\ UNCHANGED watchVars
    \/ PollFirst \/ PollTick

\* The ticker goes on, and List gets the lock in the end.
WatchSpec ==
    /\ WatchInit /\ [][WatchNext]_allVars
    /\ LockFairness
    /\ SF_allVars(PollFirst) /\ SF_allVars(PollTick)
--------------------------------------------------------------------------------
\* "streams connection updates": again and again as many connections are shown
\* as the pool has, whatever goes on in it meanwhile, so a connect or a disconnect,
\* by whomever, is seen.  Which connections they are is not promised: one that is
\* replaced by another between two ticks stays on show (connectionsEqual).
CountShown == []<>(watching = "off" \/ Cardinality(prev) = Cardinality(Pooled))
================================================================================
