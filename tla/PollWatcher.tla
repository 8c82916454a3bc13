------------------------------ MODULE PollWatcher ------------------------------
(***************************************************************************)
(* The polling watcher shared by the daemon's Watch streams: one poll loop *)
(* lists a resource every two seconds and broadcasts it when it changed; a *)
(* forwarder goroutine per Watch call copies from its subscription to an   *)
(* output channel of capacity one that the gRPC stream handler drains.     *)
(*                                                                         *)
(* Translated from skeys-core/hosts/watcher.go and config/watcher.go, which *)
(* repeat start, pollLoop and Watch line by line (known hosts, authorized   *)
(* keys, client config); only the config watcher has Stop, and only the     *)
(* lists of the hosts watchers can fail.                                    *)
(*                                                                         *)
(* The listed resource is a version number: two lists are equal exactly    *)
(* when no change lies between them, as reflect.DeepEqual of all entries.  *)
(***************************************************************************)
EXTENDS Broadcaster

CONSTANTS
    Loops,      \* bound: how many poll loops can ever be started, as 1..n
    MaxStops,   \* bound: how often Stop is called; a behaviour has a Stop or
                \* changes of the resource, not both
    StartsSick  \* whether the first list may fail: a subset of BOOLEAN

ASSUME PollWatcherAssumption ==
    /\ MaxValue >= 1       \* the resource has a first version
    /\ Loops \in Nat
    /\ MaxStops \in Nat
    /\ StartsSick \subseteq BOOLEAN

VARIABLES
    source,     \* version of the watched resource
    sick,       \* listing the resource fails
    started,    \* w.started
    loop,       \* loop[l]: where poll loop l is
    stopped,    \* the poll loops whose context is cancelled
    cur,        \* cur[l]: what loop l has just listed
    prev,       \* prev[l]: the loop's previous state
    fwd,        \* fwd[s]: where the Watch call of s and its forwarder are
    done,       \* the watches whose context is cancelled
    out,        \* out[s]: contents of the output channel
    seen,       \* seen[s]: the last update the stream handler sent on
    stops       \* how often Stop was called

envVars == <<source, sick>>
loopVars == <<started, loop, stopped, cur, prev, stops>>
watchVars == <<fwd, done, out, seen>>
wvars == <<envVars, loopVars, watchVars>>
vars == <<bvars, wvars>>

LoopIds == 1..Loops

\* An update that carries an error instead of a list.
ErrUpdate == 0

Init ==
    /\ BroadcasterInit
    /\ source = 1
    /\ sick \in StartsSick
    /\ started = FALSE
    /\ loop = [l \in LoopIds |-> "off"]
    /\ stopped = {}
    /\ cur = [l \in LoopIds |-> Nil]
    /\ prev = [l \in LoopIds |-> Nil]
    /\ fwd = [s \in Subs |-> "none"]
    /\ done = {}
    /\ out = [s \in Subs |-> <<>>]
    /\ seen = [s \in Subs |-> Nil]
    /\ stops = 0
--------------------------------------------------------------------------------
(* The environment: the file or agent behind the watcher, and the client.    *)

SourceChange ==
    /\ source < MaxValue /\ stops = 0
    /\ source' = source + 1
    /\ UNCHANGED <<bvars, sick, loopVars, watchVars>>

Heal ==
    /\ sick
    /\ sick' = FALSE
    /\ UNCHANGED <<bvars, source, loopVars, watchVars>>

CancelWatch(s) ==
    /\ fwd[s] # "none" /\ s \notin done
    /\ done' = done \union {s}
    /\ UNCHANGED <<bvars, envVars, loopVars, fwd, out, seen>>

\* The gRPC handler: for update := range outCh { stream.Send(update) }.  An
\* error update makes it return, which ends the stream and its context.
Consume(s) ==
    /\ Alive
    /\ out[s] # <<>>
    /\ seen[s] # ErrUpdate
    /\ seen' = [seen EXCEPT ![s] = Head(out[s])]
    /\ out' = [out EXCEPT ![s] = Tail(@)]
    /\ done' = IF Head(out[s]) = ErrUpdate THEN done \union {s} ELSE done
    /\ UNCHANGED <<bvars, envVars, loopVars, fwd>>
--------------------------------------------------------------------------------
\* Mutant: start without the started flag, so that every Watch spawns a loop.
StartAlways ==
    \E l \in LoopIds :
       /\ loop[l] = "off"
       /\ started' = TRUE
       /\ loop' = [loop EXCEPT ![l] = "listing"]

\* start
Start ==
    IF started THEN UNCHANGED <<started, loop>>
    ELSE /\ \E l \in LoopIds :
              /\ loop[l] = "off"
              /\ loop' = [loop EXCEPT ![l] = "listing"]
         /\ started' = TRUE

\* Watch, up to the return of w.start().
WatchStart(s) ==
    /\ Alive
    /\ fwd[s] = "none"
    /\ Start
    /\ fwd' = [fwd EXCEPT ![s] = "starting"]
    /\ UNCHANGED <<bvars, envVars, stopped, cur, prev, stops, done, out, seen>>

\* subscribe: w.broadcaster.Subscribe(true).
WatchSubscribe(s) ==
    /\ fwd[s] = "starting"
    /\ SubscribeRegister(s, TRUE)
    /\ UNCHANGED wvars

\* The rest of Subscribe, and the start of the forwarder.
WatchForward(s) ==
    /\ SubscribeReplay(s)
    /\ fwd' = [fwd EXCEPT ![s] = "idle"]
    /\ UNCHANGED <<envVars, loopVars, done, out, seen>>

\* case update := <-subCh
ForwardTake(s) ==
    /\ fwd[s] = "idle"
    /\ Receive(s)
    /\ fwd' = [fwd EXCEPT ![s] = "holding"]
    /\ UNCHANGED <<envVars, loopVars, done, out, seen>>

\* case outCh <- update
ForwardPut(s) ==
    /\ Alive
    /\ fwd[s] = "holding"
    /\ Len(out[s]) < ChanCapacity
    /\ out' = [out EXCEPT ![s] = Append(@, got[s])]
    /\ fwd' = [fwd EXCEPT ![s] = "idle"]
    /\ UNCHANGED <<bvars, envVars, loopVars, done, seen>>

\* The forwarder returns: its context is done, or its subscription was closed
\* and is drained.  The deferred unsubscribe and close(outCh) are part of it.
ForwardExit(s) ==
    /\ \/ fwd[s] \in {"idle", "holding"} /\ s \in done
       \/ fwd[s] = "idle" /\ s \in closed /\ buf[s] = <<>>
    /\ Unsubscribe(s)
    /\ fwd' = [fwd EXCEPT ![s] = "exited"]
    /\ UNCHANGED <<envVars, loopVars, done, out, seen>>
--------------------------------------------------------------------------------
(* pollLoop.  Listing and broadcasting are two steps: the resource and the   *)
(* subscriptions change between them.                                        *)

ListInitial(l) ==
    /\ Alive
    /\ loop[l] = "listing"
    /\ ~sick
    /\ cur' = [cur EXCEPT ![l] = source]
    /\ loop' = [loop EXCEPT ![l] = "sending"]
    /\ UNCHANGED <<bvars, envVars, started, stopped, prev, stops, watchVars>>

\* The first list failed: the error is broadcast and the loop returns, with
\* w.started still true.
ListInitialFails(l) ==
    /\ loop[l] = "listing"
    /\ sick
    /\ Broadcast(ErrUpdate)
    /\ loop' = [loop EXCEPT ![l] = "ended"]
    /\ UNCHANGED <<envVars, started, stopped, cur, prev, stops, watchVars>>

\* The list is broadcast and remembered as the previous one.
Send(l) ==
    /\ loop[l] = "sending"
    /\ Broadcast(cur[l])
    /\ prev' = [prev EXCEPT ![l] = cur[l]]
    /\ loop' = [loop EXCEPT ![l] = "waiting"]
    /\ UNCHANGED <<envVars, started, stopped, cur, stops, watchVars>>

\* case <-ticker.C: a failed list is skipped, an equal one is not broadcast.
\* A cancelled loop may still take this case when both are ready.
Tick(l) ==
    /\ Alive
    /\ loop[l] = "waiting"
    /\ ~sick
    /\ source # prev[l]
    /\ cur' = [cur EXCEPT ![l] = source]
    /\ loop' = [loop EXCEPT ![l] = "sending"]
    /\ UNCHANGED <<bvars, envVars, started, stopped, prev, stops, watchVars>>

\* case <-ctx.Done()
LoopExit(l) ==
    /\ Alive
    /\ loop[l] = "waiting" /\ l \in stopped
    /\ loop' = [loop EXCEPT ![l] = "ended"]
    /\ UNCHANGED <<bvars, envVars, started, stopped, cur, prev, stops, watchVars>>

\* Stop: cancels the loop and closes every subscription, under w.mu.
Stop ==
    /\ stops < MaxStops /\ source = 1
    /\ stops' = stops + 1
    /\ stopped' = stopped \union {l \in LoopIds : loop[l] # "off"}
    /\ started' = FALSE
    /\ Close
    /\ UNCHANGED <<envVars, loop, cur, prev, watchVars>>

WatchStep(s) == \/ WatchSubscribe(s) \/ WatchForward(s)
                \/ ForwardTake(s) \/ ForwardPut(s) \/ ForwardExit(s)

LoopStep(l) == \/ ListInitial(l) \/ ListInitialFails(l) \/ Send(l)
               \/ Tick(l) \/ LoopExit(l)

Next ==
    \/ SourceChange \/ Heal \/ Stop
    \/ \E s \in Subs : CancelWatch(s) \/ Consume(s) \/ WatchStart(s) \/ WatchStep(s)
    \/ \E l \in LoopIds : LoopStep(l)

\* Goroutines are scheduled, the ticker keeps firing, and the stream handler
\* keeps draining its channel.  Nobody has to change the resource, call Watch,
\* cancel or Stop; a failing list is repaired in the end.
Fairness ==
    /\ WF_vars(Heal)
    /\ \A s \in Subs : WF_vars(WatchStep(s)) /\ WF_vars(Consume(s))
    /\ \A l \in LoopIds : WF_vars(LoopStep(l))

Spec == Init /\ [][Next]_vars /\ Fairness
--------------------------------------------------------------------------------
\* The watcher's state keeps its types, the output channels their capacity.
TypeOK ==
    /\ BroadcasterTypeOK
    /\ source \in 1..MaxValue
    /\ sick \in BOOLEAN /\ started \in BOOLEAN
    /\ loop \in [LoopIds -> {"off", "listing", "sending", "waiting", "ended"}]
    /\ stopped \subseteq LoopIds
    /\ cur \in [LoopIds -> Nat \union {Nil}] /\ prev \in [LoopIds -> Nat \union {Nil}]
    /\ fwd \in [Subs -> {"none", "starting", "idle", "holding", "exited"}]
    /\ done \subseteq Subs
    /\ \A s \in Subs : Len(out[s]) <= ChanCapacity
    /\ seen \in [Subs -> Nat \union {Nil}]
    /\ stops \in 0..MaxStops

\* However many Watch calls race, and even across Stop, at most one poll loop
\* is running that has not been told to stop.
OneLiveLoop ==
    \A k, l \in LoopIds :
       (loop[k] # "off" /\ loop[l] # "off" /\ k \notin stopped /\ l \notin stopped) => k = l

\* The poll loops: types, and never two that both poll, whoever races to start
\* or stop them.
WatcherSafe == TypeOK /\ OneLiveLoop

\* Every Watch that is not cancelled gets a first update, the cached one or a
\* new one, although the loop may broadcast before the subscription exists;
\* unless Stop closes the subscription.
FirstUpdateArrives ==
    \A s \in Subs : (fwd[s] = "starting") ~> (seen[s] # Nil \/ s \in done \/ stops > 0)

\* A stream never shows an older list after a newer one.  The bound leaves out
\* what a Stop would add: the last broadcast of a stopped loop may follow the
\* first one of the next.
StreamGoesForward ==
    [][\A s \in Subs : (seen'[s] # seen[s] /\ seen[s] # Nil) => seen'[s] > seen[s]]_vars
================================================================================
