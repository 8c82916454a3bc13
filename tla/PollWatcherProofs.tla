--------------------------- MODULE PollWatcherProofs ---------------------------
(***************************************************************************)
(* Proofs about Broadcaster, alone and driven by PollWatcher, for any set  *)
(* of subscriptions and any number of poll loops, stops and broadcasts.    *)
(* The broadcaster's invariant is proved once, for any producer that never *)
(* broadcasts an older value after a newer one; a producer that numbers    *)
(* its broadcasts is one, and the poll loops together are shown to be one. *)
(***************************************************************************)
EXTENDS PollWatcher, SequenceTheorems, TLAPS

\* x has been broadcast, or is nothing.
Sent(x) == x # Nil => lastValue # Nil /\ x <= lastValue

\* The four parts of the inductive invariant.
RegisteredAreOpen == subscribers \intersect closed = {}

FreshAreBlank ==
    \A s \in Subs :
       /\ pc[s] = "new" => s \notin subscribers /\ s \notin closed /\ buf[s] = <<>>
       /\ pc[s] \in {"new", "replaying"} => got[s] = Nil

InOrder ==
    \A s \in Subs :
       /\ Sent(lastVal[s])
       /\ Sent(got[s])
       /\ buf[s] # <<>> => /\ Sent(Head(buf[s]))
                           /\ got[s] # Nil => Head(buf[s]) >= got[s]

NothingMissed ==
    \A s \in subscribers \intersect replays :
       lastValue # Nil => \/ pc[s] = "replaying" /\ lastVal[s] # Nil
                          \/ buf[s] # <<>>
                          \/ got[s] # Nil

\* v is not older than the value broadcast last.
NotOlder(v) == lastValue # Nil => v >= lastValue

\* One operation of the broadcaster, for any producer that goes forward.
BroadcasterStep ==
    \/ \E s \in Subs :
          \/ \E replay \in BOOLEAN : SubscribeRegister(s, replay)
          \/ SubscribeReplay(s)
          \/ Unsubscribe(s)
          \/ Receive(s)
    \/ \E v \in Nat : NotOlder(v) /\ Broadcast(v)
    \/ Close

\* What a step may do to the values the readers have.
ReadersForward ==
    \A s \in Subs : (got'[s] # got[s] /\ got[s] # Nil) => got'[s] > got[s]

BroadcasterInv ==
    /\ BroadcasterTypeOK
    /\ OnlyReplayPanics
    /\ RegisteredAreOpen
    /\ FreshAreBlank
    /\ InOrder
    /\ NothingMissed

\* A channel that is not empty holds at least one value.
LEMMA NonEmptyLen ==
    ASSUME NEW ch \in Seq(Nat), ch # <<>>
    PROVE  Len(ch) \in Nat /\ Len(ch) >= 1
<1>1. Len(ch) \in Nat \ {0}
  BY EmptySeq
<1>2. \A n \in Nat \ {0} : n >= 1
  OBVIOUS
<1>3. QED
  BY <1>1, <1>2

\* What a non-blocking send leaves in a channel: never more than its capacity,
\* never empty, and the older value first.
LEMMA TrySendFacts ==
    ASSUME NEW ch \in Seq(Nat), Len(ch) <= ChanCapacity, NEW v \in Nat
    PROVE  /\ TrySend(ch, v) \in Seq(Nat)
           /\ Len(TrySend(ch, v)) <= ChanCapacity
           /\ TrySend(ch, v) # <<>>
           /\ Head(TrySend(ch, v)) = IF ch = <<>> THEN v ELSE Head(ch)
<1>1. CASE ch = <<>>
  BY <1>1 DEF TrySend, ChanCapacity
<1>2. CASE ch # <<>>
  <2>1. Len(ch) \in Nat /\ Len(ch) >= 1 /\ Len(ch) <= 1
    BY <1>2, NonEmptyLen DEF ChanCapacity
  <2>2. TrySend(ch, v) = ch
    BY <2>1 DEF TrySend, ChanCapacity
  <2>3. QED
    BY <1>2, <2>2
<1>3. QED
  BY <1>1, <1>2

\* What a receive leaves in a channel of capacity one: nothing.
LEMMA TailFacts ==
    ASSUME NEW ch \in Seq(Nat), Len(ch) <= ChanCapacity, ch # <<>>
    PROVE  Head(ch) \in Nat /\ Tail(ch) = <<>>
<1>1. Len(ch) \in Nat /\ Len(ch) >= 1 /\ Len(ch) <= 1
  BY NonEmptyLen DEF ChanCapacity
<1>2. Head(ch) \in Nat /\ Tail(ch) \in Seq(Nat) /\ Len(Tail(ch)) = Len(ch) - 1
  BY HeadTailProperties
<1>3. ~(Len(Tail(ch)) >= 1)
  BY <1>1, <1>2
<1>4. QED
  BY <1>2, <1>3, NonEmptyLen

\* The invariant holds in the initial state.
LEMMA BroadcasterInvInit == BroadcasterInit => BroadcasterInv
  BY BroadcasterAssumption
  DEF BroadcasterInit, BroadcasterInv, BroadcasterTypeOK, OnlyReplayPanics,
      RegisteredAreOpen, FreshAreBlank, InOrder, NothingMissed, Sent, Stages,
      ChanCapacity

\* Every operation of the broadcaster preserves the invariant.
LEMMA BroadcasterInvStep ==
    BroadcasterInv /\ [BroadcasterStep]_bvars => BroadcasterInv'
<1> SUFFICES ASSUME BroadcasterInv, [BroadcasterStep]_bvars
             PROVE  BroadcasterInv'
  OBVIOUS
<1> USE BroadcasterAssumption
<1> USE DEF BroadcasterInv, BroadcasterTypeOK, OnlyReplayPanics, Stages
<1>1. ASSUME NEW s \in Subs, NEW replay \in BOOLEAN, SubscribeRegister(s, replay)
      PROVE  BroadcasterInv'
  <2>1. BroadcasterTypeOK' /\ OnlyReplayPanics' /\ RegisteredAreOpen'
    BY <1>1 DEF SubscribeRegister, RegisteredAreOpen, FreshAreBlank
  <2>2. FreshAreBlank'
    BY <1>1 DEF SubscribeRegister, FreshAreBlank
  <2>3. InOrder'
    BY <1>1 DEF SubscribeRegister, InOrder, Sent
  <2>4. NothingMissed'
    BY <1>1 DEF SubscribeRegister, NothingMissed, FreshAreBlank
  <2>5. QED
    BY <2>1, <2>2, <2>3, <2>4
<1>2. ASSUME NEW s \in Subs, SubscribeReplay(s)
      PROVE  BroadcasterInv'
  <2>1. CASE HasReplay(s) /\ s \notin closed
    <3>1. buf[s] \in Seq(Nat) /\ Len(buf[s]) <= ChanCapacity /\ lastVal[s] \in Nat
      BY <2>1 DEF HasReplay
    <3>2. buf' = [buf EXCEPT ![s] = TrySend(buf[s], lastVal[s])]
      BY <1>2, <2>1 DEF SubscribeReplay
    <3>3. /\ TrySend(buf[s], lastVal[s]) \in Seq(Nat)
          /\ Len(TrySend(buf[s], lastVal[s])) <= ChanCapacity
          /\ TrySend(buf[s], lastVal[s]) # <<>>
          /\ Head(TrySend(buf[s], lastVal[s])) =
                 IF buf[s] = <<>> THEN lastVal[s] ELSE Head(buf[s])
      BY <3>1, TrySendFacts
    <3>4. BroadcasterTypeOK' /\ OnlyReplayPanics' /\ RegisteredAreOpen'
      BY <1>2, <2>1, <3>2, <3>3 DEF SubscribeReplay, RegisteredAreOpen
    <3>5. FreshAreBlank'
      BY <1>2, <3>2 DEF SubscribeReplay, FreshAreBlank
    <3>6. InOrder'
      BY <1>2, <3>2, <3>3 DEF SubscribeReplay, InOrder, Sent, FreshAreBlank
    <3>7. NothingMissed'
      BY <1>2, <3>2, <3>3 DEF SubscribeReplay, NothingMissed
    <3>8. QED
      BY <3>4, <3>5, <3>6, <3>7
  <2>2. CASE ~(HasReplay(s) /\ s \notin closed)
    <3>1. buf' = buf
      BY <1>2, <2>2 DEF SubscribeReplay
    <3>2. BroadcasterTypeOK' /\ OnlyReplayPanics' /\ RegisteredAreOpen'
      BY <1>2, <3>1 DEF SubscribeReplay, RegisteredAreOpen
    <3>3. FreshAreBlank' /\ InOrder'
      BY <1>2, <3>1 DEF SubscribeReplay, FreshAreBlank, InOrder, Sent
    <3>4. NothingMissed'
      BY <1>2, <2>2, <3>1
      DEF SubscribeReplay, NothingMissed, HasReplay, RegisteredAreOpen
    <3>5. QED
      BY <3>2, <3>3, <3>4
  <2>3. QED
    BY <2>1, <2>2
<1>3. ASSUME NEW s \in Subs, Unsubscribe(s)
      PROVE  BroadcasterInv'
  <2>1. BroadcasterTypeOK' /\ OnlyReplayPanics' /\ RegisteredAreOpen'
    BY <1>3 DEF Unsubscribe, RegisteredAreOpen
  <2>2. FreshAreBlank' /\ InOrder' /\ NothingMissed'
    BY <1>3 DEF Unsubscribe, FreshAreBlank, InOrder, Sent, NothingMissed
  <2>3. QED
    BY <2>1, <2>2
<1>4. ASSUME NEW s \in Subs, Receive(s)
      PROVE  BroadcasterInv'
  <2>1. Head(buf[s]) \in Nat /\ Tail(buf[s]) = <<>>
    BY <1>4, TailFacts DEF Receive
  <2>2. /\ buf' = [buf EXCEPT ![s] = <<>>]
        /\ got' = [got EXCEPT ![s] = Head(buf[s])]
    BY <1>4, <2>1 DEF Receive
  <2>3. <<>> \in Seq(Nat) /\ Len(<<>>) <= ChanCapacity
    BY DEF ChanCapacity
  <2>4. BroadcasterTypeOK' /\ OnlyReplayPanics' /\ RegisteredAreOpen'
    BY <1>4, <2>1, <2>2, <2>3 DEF Receive, RegisteredAreOpen
  <2>5. FreshAreBlank'
    BY <1>4, <2>2 DEF Receive, FreshAreBlank
  <2>6. InOrder'
    BY <1>4, <2>1, <2>2 DEF Receive, InOrder, Sent
  <2>7. NothingMissed'
    BY <1>4, <2>1, <2>2 DEF Receive, NothingMissed
  <2>8. QED
    BY <2>4, <2>5, <2>6, <2>7
<1>5. ASSUME NEW v \in Nat, NotOlder(v), Broadcast(v)
      PROVE  BroadcasterInv'
  <2>1. v \in Nat /\ (lastValue # Nil => v >= lastValue)
    BY <1>5 DEF NotOlder
  <2>2. ASSUME NEW s \in Subs
        PROVE  /\ TrySend(buf[s], v) \in Seq(Nat)
               /\ Len(TrySend(buf[s], v)) <= ChanCapacity
               /\ TrySend(buf[s], v) # <<>>
               /\ Head(TrySend(buf[s], v)) =
                      IF buf[s] = <<>> THEN v ELSE Head(buf[s])
    BY <2>1, TrySendFacts
  <2>3. BroadcasterTypeOK' /\ OnlyReplayPanics' /\ RegisteredAreOpen'
    BY <1>5, <2>1, <2>2 DEF Broadcast, RegisteredAreOpen
  <2>4. FreshAreBlank'
    BY <1>5 DEF Broadcast, FreshAreBlank
  <2>5. InOrder'
    <3>1. \A s \in Subs : buf'[s] # <<>> =>
             Head(buf'[s]) = IF buf[s] = <<>> THEN v ELSE Head(buf[s])
      BY <1>5, <2>2 DEF Broadcast
    <3>2. /\ lastValue' = v /\ got' = got /\ lastVal' = lastVal
          /\ v # Nil
      BY <1>5, <2>1 DEF Broadcast
    <3>3. \A s \in Subs : buf[s] # <<>> => Head(buf[s]) \in Nat
      BY TailFacts
    <3>4. QED
      BY <2>1, <3>1, <3>2, <3>3 DEF InOrder, Sent
  <2>6. NothingMissed'
    BY <1>5, <2>2 DEF Broadcast, NothingMissed
  <2>7. QED
    BY <2>3, <2>4, <2>5, <2>6
<1>6. ASSUME Close
      PROVE  BroadcasterInv'
  BY <1>6 DEF Close, RegisteredAreOpen, FreshAreBlank, InOrder, Sent, NothingMissed
<1>7. CASE UNCHANGED bvars
  BY <1>7 DEF bvars, RegisteredAreOpen, FreshAreBlank, InOrder, Sent, NothingMissed
<1>8. QED
  BY <1>1, <1>2, <1>3, <1>4, <1>5, <1>6, <1>7 DEF BroadcasterStep

\* A reader never receives a value older than one it already has.
LEMMA BroadcasterStepForward ==
    BroadcasterInv /\ [BroadcasterStep]_bvars => [ReadersForward]_bvars
<1> SUFFICES ASSUME BroadcasterInv, BroadcasterStep PROVE ReadersForward
  OBVIOUS
<1>1. ASSUME NEW s \in Subs, Receive(s) PROVE ReadersForward
  <2>1. Head(buf[s]) \in Nat
    BY <1>1, TailFacts DEF Receive, BroadcasterInv, BroadcasterTypeOK
  <2>2. QED
    BY <1>1, <2>1 DEF Receive, BroadcasterInv, BroadcasterTypeOK, InOrder, ReadersForward
<1>2. ASSUME got' = got PROVE ReadersForward
  BY <1>2 DEF ReadersForward
<1>3. QED
  BY <1>1, <1>2
  DEF BroadcasterStep, SubscribeRegister, SubscribeReplay, Unsubscribe, Broadcast, Close

\* A producer that numbers its broadcasts goes forward.
LEMMA NumberedGoForward ==
    BroadcasterInv /\ [BroadcasterNext]_bvars => [BroadcasterStep]_bvars
<1> SUFFICES ASSUME BroadcasterInv, BroadcasterNext PROVE BroadcasterStep
  OBVIOUS
<1>1. NextValue \in Nat /\ NotOlder(NextValue)
  BY BroadcasterAssumption DEF BroadcasterInv, BroadcasterTypeOK, NextValue, NotOlder
<1>2. QED
  BY <1>1 DEF BroadcasterNext, BroadcasterStep

\* The types of the broadcaster's state hold in every reachable state.
THEOREM BroadcasterTyped == BroadcasterSpec => []BroadcasterTypeOK
<1>1. BroadcasterInv => BroadcasterTypeOK
  BY DEF BroadcasterInv
<1>2. QED
  BY <1>1, BroadcasterInvInit, BroadcasterInvStep, NumberedGoForward, PTL DEF BroadcasterSpec

\* Neither Broadcast, nor Unsubscribe, nor Close ever sends on a closed channel
\* or closes one twice; the replay of Subscribe is the only operation that can.
THEOREM BroadcasterPanics == BroadcasterSpec => []OnlyReplayPanics
<1>1. BroadcasterInv => OnlyReplayPanics
  BY DEF BroadcasterInv
<1>2. QED
  BY <1>1, BroadcasterInvInit, BroadcasterInvStep, NumberedGoForward, PTL DEF BroadcasterSpec

\* A subscription made with replay misses no value between its registration
\* and its replay.
THEOREM BroadcasterReplays == BroadcasterSpec => []NoReaderLeftBlank
<1>1. BroadcasterInv => NoReaderLeftBlank
  BY DEF BroadcasterInv, NothingMissed, NoReaderLeftBlank
<1>2. QED
  BY <1>1, BroadcasterInvInit, BroadcasterInvStep, NumberedGoForward, PTL DEF BroadcasterSpec

\* Both together: the split of Subscribe breaks nothing but what its replay can.
THEOREM BroadcasterIsSafe == BroadcasterSpec => []BroadcastSafe
  BY BroadcasterPanics, BroadcasterReplays, PTL DEF BroadcastSafe

\* A reader never receives a value older than one it already has.
THEOREM BroadcasterOrdered == BroadcasterSpec => ReaderNeverGoesBack
  BY BroadcasterInvInit, BroadcasterInvStep, NumberedGoForward, BroadcasterStepForward, PTL
  DEF BroadcasterSpec, ReaderNeverGoesBack, ReadersForward
--------------------------------------------------------------------------------
(* The poll loops and the forwarders.                                        *)

\* Once Stop has run, every loop ever started has been told to stop.
IdleMeansStopped == ~started => \A l \in LoopIds : loop[l] # "off" => l \in stopped

\* The bound of the model: a Stop, or changes of the resource, not both.
StopsOrChanges == (stops = 0 => stopped = {}) /\ (stops # 0 => source = 1)

\* What the loops have listed was there, and what one is about to broadcast is
\* not older than what was broadcast last.
ListedForward ==
    /\ lastValue # Nil => lastValue <= source
    /\ \A l \in LoopIds :
          /\ cur[l] # Nil => 1 <= cur[l] /\ cur[l] <= source
          /\ loop[l] = "sending" => cur[l] # Nil /\ NotOlder(cur[l])

\* As long as lists fail, no list has been broadcast or is about to be.
FailingMeansNothingSent ==
    sick => /\ lastValue \in {Nil, ErrUpdate}
            /\ \A l \in LoopIds : loop[l] # "sending"

\* From the subscription over the output channel to the stream, newer values
\* come after older ones.
StreamInOrder ==
    \A s \in Subs :
       /\ fwd[s] = "holding" => got[s] # Nil
       /\ seen[s] # Nil => got[s] # Nil /\ seen[s] <= got[s]
       /\ out[s] # <<>> => /\ got[s] # Nil
                           /\ Head(out[s]) <= got[s]
                           /\ seen[s] # Nil => seen[s] <= Head(out[s])

WatcherInv ==
    /\ BroadcasterInv
    /\ TypeOK
    /\ out \in [Subs -> Seq(Nat)]
    /\ OneLiveLoop
    /\ IdleMeansStopped
    /\ StopsOrChanges
    /\ ListedForward
    /\ FailingMeansNothingSent
    /\ StreamInOrder

\* The invariant holds in the initial state.
LEMMA WatcherInvInit == Init => WatcherInv
<1> SUFFICES ASSUME Init PROVE WatcherInv
  OBVIOUS
<1> USE BroadcasterAssumption, PollWatcherAssumption
<1>1. BroadcasterInv
  BY BroadcasterInvInit DEF Init
<1>2. TypeOK /\ out \in [Subs -> Seq(Nat)]
  <2>1. sick \in BOOLEAN /\ started \in BOOLEAN /\ stopped \subseteq LoopIds /\ done \subseteq Subs
    BY DEF Init
  <2>2. source \in 1..MaxValue /\ stops \in 0..MaxStops
    BY DEF Init
  <2>3. /\ loop \in [LoopIds -> {"off", "listing", "sending", "waiting", "ended"}]
        /\ cur \in [LoopIds -> Nat \union {Nil}] /\ prev \in [LoopIds -> Nat \union {Nil}]
        /\ fwd \in [Subs -> {"none", "starting", "idle", "holding", "exited"}]
        /\ seen \in [Subs -> Nat \union {Nil}]
    BY DEF Init
  <2>4. out \in [Subs -> Seq(Nat)] /\ \A s \in Subs : Len(out[s]) <= ChanCapacity
    BY DEF Init, ChanCapacity
  <2>5. QED
    BY <1>1, <2>1, <2>2, <2>3, <2>4 DEF TypeOK, BroadcasterInv
<1>3. /\ OneLiveLoop /\ IdleMeansStopped /\ StopsOrChanges
      /\ FailingMeansNothingSent /\ StreamInOrder
  BY DEF Init, BroadcasterInit, OneLiveLoop, IdleMeansStopped, StopsOrChanges,
         FailingMeansNothingSent, StreamInOrder
<1>4. ListedForward
  BY DEF Init, BroadcasterInit, ListedForward
<1>5. QED
  BY <1>1, <1>2, <1>3, <1>4 DEF WatcherInv

\* The poll loops together are a producer that goes forward: what a loop
\* broadcasts is not older than the broadcast before it, and an error is
\* broadcast only before any list.
LEMMA LoopsGoForward == WatcherInv /\ [Next]_vars => [BroadcasterStep]_bvars
<1> SUFFICES ASSUME WatcherInv, [Next]_vars PROVE [BroadcasterStep]_bvars
  OBVIOUS
<1>1. ASSUME NEW l \in LoopIds, ListInitialFails(l) PROVE BroadcasterStep
  <2>1. ErrUpdate \in Nat /\ NotOlder(ErrUpdate)
    BY <1>1 DEF ListInitialFails, WatcherInv, FailingMeansNothingSent, NotOlder, ErrUpdate
  <2>2. QED
    BY <1>1, <2>1 DEF ListInitialFails, BroadcasterStep
<1>2. ASSUME NEW l \in LoopIds, Send(l) PROVE BroadcasterStep
  <2>1. cur[l] \in Nat /\ NotOlder(cur[l])
    BY <1>2 DEF Send, WatcherInv, TypeOK, ListedForward
  <2>2. QED
    BY <1>2, <2>1 DEF Send, BroadcasterStep
<1>3. ASSUME NEW s \in Subs, WatchStep(s) PROVE [BroadcasterStep]_bvars
  <2>1. ASSUME WatchSubscribe(s) PROVE BroadcasterStep
    BY <2>1 DEF WatchSubscribe, BroadcasterStep
  <2>2. ASSUME WatchForward(s) PROVE BroadcasterStep
    BY <2>2 DEF WatchForward, BroadcasterStep
  <2>3. ASSUME ForwardTake(s) PROVE BroadcasterStep
    BY <2>3 DEF ForwardTake, BroadcasterStep
  <2>4. ASSUME ForwardExit(s) PROVE BroadcasterStep
    BY <2>4 DEF ForwardExit, BroadcasterStep
  <2>5. ASSUME ForwardPut(s) PROVE UNCHANGED bvars
    BY <2>5 DEF ForwardPut
  <2>6. QED
    BY <1>3, <2>1, <2>2, <2>3, <2>4, <2>5 DEF WatchStep
<1>4. ASSUME Stop PROVE BroadcasterStep
  BY <1>4 DEF Stop, BroadcasterStep
<1>5. ASSUME \/ SourceChange \/ Heal
             \/ \E s \in Subs : CancelWatch(s) \/ Consume(s) \/ WatchStart(s)
             \/ \E l \in LoopIds : ListInitial(l) \/ Tick(l) \/ LoopExit(l)
             \/ UNCHANGED vars
      PROVE  UNCHANGED bvars
  BY <1>5 DEF SourceChange, Heal, CancelWatch, Consume, WatchStart, ListInitial, Tick,
              LoopExit, vars
<1>6. QED
  BY <1>1, <1>2, <1>3, <1>4, <1>5 DEF Next, LoopStep

\* What a step leaves of the forwarders' order when neither a forwarder nor a
\* stream moves.
LEMMA StreamUntouched ==
    ASSUME StreamInOrder, UNCHANGED <<got, out, seen>>, 
           \A s \in Subs : fwd'[s] = "holding" => fwd[s] = "holding"
    PROVE  StreamInOrder'
  BY DEF StreamInOrder

\* Every step of the watcher preserves its invariant.
LEMMA WatcherInvStep == WatcherInv /\ [Next]_vars => WatcherInv'
<1> SUFFICES ASSUME WatcherInv, [Next]_vars PROVE WatcherInv'
  OBVIOUS
<1> USE BroadcasterAssumption, PollWatcherAssumption
<1>0. BroadcasterInv'
  BY LoopsGoForward, BroadcasterInvStep DEF WatcherInv
<1>t. BroadcasterTypeOK'
  BY <1>0 DEF BroadcasterInv
<1>a. ASSUME UNCHANGED <<bvars, loopVars>>, source' >= source, source' \in 1..MaxValue,
             stops # 0 => source' = source, sick' \in BOOLEAN, sick' => sick
      PROVE  /\ OneLiveLoop' /\ IdleMeansStopped' /\ StopsOrChanges'
             /\ ListedForward' /\ FailingMeansNothingSent'
  <2>1. OneLiveLoop' /\ IdleMeansStopped' /\ StopsOrChanges'
    BY <1>a DEF WatcherInv, OneLiveLoop, IdleMeansStopped, StopsOrChanges, loopVars
  <2>2. ListedForward'
    BY <1>a DEF WatcherInv, TypeOK, BroadcasterTypeOK, ListedForward, NotOlder, loopVars, bvars
  <2>3. FailingMeansNothingSent'
    BY <1>a DEF WatcherInv, FailingMeansNothingSent, loopVars, bvars
  <2>4. QED
    BY <2>1, <2>2, <2>3
<1>b. source \in 1..MaxValue /\ source \in Nat /\ sick \in BOOLEAN
  BY DEF WatcherInv, TypeOK
<1>1. ASSUME SourceChange PROVE WatcherInv'
  <2>1. /\ UNCHANGED <<bvars, loopVars, watchVars>> /\ source' \in 1..MaxValue
        /\ source' >= source /\ stops = 0 /\ sick' = sick
    BY <1>1, <1>b DEF SourceChange
  <2>2. TypeOK' /\ (out \in [Subs -> Seq(Nat)])'
    BY <1>t, <2>1 DEF WatcherInv, TypeOK, loopVars, watchVars
  <2>3. StreamInOrder'
    BY <2>1, StreamUntouched DEF WatcherInv, bvars, watchVars
  <2>4. QED
    BY <1>0, <1>a, <1>b, <2>1, <2>2, <2>3 DEF WatcherInv
<1>2. ASSUME Heal PROVE WatcherInv'
  <2>1. UNCHANGED <<bvars, source, loopVars, watchVars>> /\ sick' = FALSE
    BY <1>2 DEF Heal
  <2>2. TypeOK' /\ (out \in [Subs -> Seq(Nat)])'
    BY <1>t, <2>1 DEF WatcherInv, TypeOK, loopVars, watchVars
  <2>3. StreamInOrder'
    BY <2>1, StreamUntouched DEF WatcherInv, bvars, watchVars
  <2>4. source' >= source /\ source' \in 1..MaxValue
    BY <1>b, <2>1
  <2>5. sick' \in BOOLEAN /\ (sick' => sick)
    BY <2>1
  <2>6. QED
    BY <1>0, <1>a, <2>1, <2>2, <2>3, <2>4, <2>5 DEF WatcherInv
<1>3. ASSUME Stop PROVE WatcherInv'
  <2>1. TypeOK' /\ (out \in [Subs -> Seq(Nat)])'
    <3>1. stops' \in 0..MaxStops
      BY <1>3 DEF Stop, WatcherInv, TypeOK
    <3>2. started' = FALSE /\ stopped' \subseteq LoopIds /\ UNCHANGED <<envVars, loop, cur, prev, watchVars>>
      BY <1>3 DEF Stop, WatcherInv, TypeOK
    <3>3. QED
      BY <1>t, <3>1, <3>2 DEF WatcherInv, TypeOK, watchVars, envVars
  <2>2. OneLiveLoop' /\ IdleMeansStopped'
    BY <1>3 DEF Stop, WatcherInv, OneLiveLoop, IdleMeansStopped
  <2>3. StopsOrChanges'
    BY <1>3 DEF Stop, WatcherInv, TypeOK, StopsOrChanges, envVars
  <2>4. ListedForward' /\ FailingMeansNothingSent'
    BY <1>3 DEF Stop, Close, WatcherInv, ListedForward, NotOlder, FailingMeansNothingSent, envVars
  <2>5. StreamInOrder'
    BY <1>3, StreamUntouched DEF Stop, Close, WatcherInv, watchVars
  <2>6. QED
    BY <1>0, <2>1, <2>2, <2>3, <2>4, <2>5 DEF WatcherInv
<1>4. ASSUME NEW s \in Subs, CancelWatch(s) PROVE WatcherInv'
  <2>1. UNCHANGED <<bvars, source, sick, loopVars, out, seen, fwd>> /\ done' \subseteq Subs
    BY <1>4 DEF CancelWatch, envVars, WatcherInv, TypeOK
  <2>2. TypeOK' /\ (out \in [Subs -> Seq(Nat)])'
    BY <1>t, <2>1 DEF WatcherInv, TypeOK, loopVars
  <2>3. StreamInOrder'
    BY <2>1, StreamUntouched DEF WatcherInv, bvars
  <2>4. QED
    BY <1>0, <1>a, <1>b, <2>1, <2>2, <2>3 DEF WatcherInv
<1>5. ASSUME NEW s \in Subs, Consume(s) PROVE WatcherInv'
  <2>1. Head(out[s]) \in Nat /\ Tail(out[s]) = <<>>
    BY <1>5, TailFacts DEF Consume, WatcherInv, TypeOK
  <2>2. /\ UNCHANGED <<bvars, source, sick, loopVars, fwd>>
        /\ done' \subseteq Subs
        /\ seen' = [seen EXCEPT ![s] = Head(out[s])]
        /\ out' = [out EXCEPT ![s] = <<>>]
    BY <1>5, <2>1 DEF Consume, envVars, WatcherInv, TypeOK
  <2>3. TypeOK' /\ (out \in [Subs -> Seq(Nat)])'
    BY <1>t, <2>1, <2>2 DEF WatcherInv, TypeOK, loopVars, ChanCapacity
  <2>4. StreamInOrder'
    BY <1>5, <2>1, <2>2 DEF Consume, WatcherInv, StreamInOrder, TypeOK, bvars
  <2>5. QED
    BY <1>0, <1>a, <1>b, <2>2, <2>3, <2>4 DEF WatcherInv
<1>6. ASSUME NEW s \in Subs, WatchStart(s) PROVE WatcherInv'
  <2>1. /\ UNCHANGED <<bvars, source, sick, stopped, cur, prev, stops, done, out, seen>>
        /\ fwd' = [fwd EXCEPT ![s] = "starting"]
    BY <1>6 DEF WatchStart, envVars
  <2>2. StreamInOrder'
    BY <2>1, StreamUntouched DEF WatcherInv, bvars, TypeOK
  <2>3. CASE started
    <3>1. UNCHANGED <<started, loop>>
      BY <1>6, <2>3 DEF WatchStart, Start
    <3>2. UNCHANGED loopVars
      BY <2>1, <3>1 DEF loopVars
    <3>3. TypeOK' /\ (out \in [Subs -> Seq(Nat)])'
      BY <1>t, <2>1, <3>1 DEF WatcherInv, TypeOK
    <3>4. QED
      BY <1>0, <1>a, <1>b, <2>1, <2>2, <3>2, <3>3 DEF WatcherInv
  <2>4. CASE ~started
    <3>1. PICK l \in LoopIds : loop[l] = "off" /\ loop' = [loop EXCEPT ![l] = "listing"]
      BY <1>6, <2>4 DEF WatchStart, Start
    <3>2. started' = TRUE
      BY <1>6, <2>4 DEF WatchStart, Start
    <3>3. TypeOK' /\ (out \in [Subs -> Seq(Nat)])'
      BY <1>t, <2>1, <3>1, <3>2 DEF WatcherInv, TypeOK
    <3>4. OneLiveLoop' /\ IdleMeansStopped'
      BY <2>1, <2>4, <3>1, <3>2 DEF WatcherInv, TypeOK, OneLiveLoop, IdleMeansStopped
    <3>5. StopsOrChanges' /\ FailingMeansNothingSent'
      BY <2>1, <3>1 DEF WatcherInv, TypeOK, StopsOrChanges, FailingMeansNothingSent, bvars
    <3>6. ListedForward'
      BY <2>1, <3>1 DEF WatcherInv, TypeOK, ListedForward, NotOlder, bvars
    <3>7. QED
      BY <1>0, <2>2, <3>3, <3>4, <3>5, <3>6 DEF WatcherInv
  <2>5. QED
    BY <2>3, <2>4
<1>7. ASSUME NEW s \in Subs, WatchStep(s) PROVE WatcherInv'
  <2>1. UNCHANGED <<source, sick, loopVars, done, seen, lastValue>>
    BY <1>7 DEF WatchStep, WatchSubscribe, WatchForward, ForwardTake, ForwardPut, ForwardExit,
                envVars, wvars, watchVars, SubscribeRegister, SubscribeReplay, Receive,
                Unsubscribe, bvars
  <2>2. /\ OneLiveLoop' /\ IdleMeansStopped' /\ StopsOrChanges'
        /\ ListedForward' /\ FailingMeansNothingSent'
    BY <2>1 DEF WatcherInv, OneLiveLoop, IdleMeansStopped, StopsOrChanges, ListedForward,
                NotOlder, FailingMeansNothingSent, loopVars
  <2>3. ASSUME WatchSubscribe(s) \/ WatchForward(s) \/ ForwardExit(s)
        PROVE  TypeOK' /\ (out \in [Subs -> Seq(Nat)])' /\ StreamInOrder'
    <3>1. /\ UNCHANGED <<got, out, seen>>
          /\ \/ fwd' = fwd
             \/ fwd' = [fwd EXCEPT ![s] = "idle"]
             \/ fwd' = [fwd EXCEPT ![s] = "exited"]
      BY <2>3 DEF WatchSubscribe, WatchForward, ForwardExit, wvars, watchVars,
                  SubscribeRegister, SubscribeReplay, Unsubscribe
    <3>2. TypeOK' /\ (out \in [Subs -> Seq(Nat)])'
      BY <1>t, <2>1, <3>1 DEF WatcherInv, TypeOK, loopVars
    <3>3. StreamInOrder'
      BY <3>1, StreamUntouched DEF WatcherInv, TypeOK
    <3>4. QED
      BY <3>2, <3>3
  <2>4. ASSUME ForwardTake(s)
        PROVE  TypeOK' /\ (out \in [Subs -> Seq(Nat)])' /\ StreamInOrder'
    <3>1. Head(buf[s]) \in Nat
      BY <2>4, TailFacts DEF ForwardTake, Receive, WatcherInv, TypeOK, BroadcasterTypeOK
    <3>2. /\ UNCHANGED <<out, seen>> /\ fwd' = [fwd EXCEPT ![s] = "holding"]
          /\ got' = [got EXCEPT ![s] = Head(buf[s])]
          /\ got[s] # Nil => Head(buf[s]) >= got[s]
      BY <2>4 DEF ForwardTake, Receive, WatcherInv, BroadcasterInv, InOrder
    <3>3. TypeOK' /\ (out \in [Subs -> Seq(Nat)])'
      BY <1>t, <2>1, <3>2 DEF WatcherInv, TypeOK, loopVars
    <3>4. \A r \in Subs : out[r] # <<>> => Head(out[r]) \in Nat
      BY TailFacts DEF WatcherInv, TypeOK
    <3>5. \A r \in Subs : got[r] # Nil => got'[r] # Nil /\ got'[r] >= got[r]
      BY <3>1, <3>2 DEF WatcherInv, TypeOK, BroadcasterTypeOK
    <3>6. got'[s] # Nil /\ (\A r \in Subs : got'[r] \in Nat \union {Nil} /\ got[r] \in Nat \union {Nil})
      BY <3>1, <3>2 DEF WatcherInv, TypeOK, BroadcasterTypeOK
    <3>7. \A r \in Subs : fwd'[r] = "holding" => got'[r] # Nil
      BY <3>2, <3>5, <3>6 DEF WatcherInv, TypeOK, StreamInOrder
    <3>8. \A r \in Subs : seen[r] \in Nat \union {Nil}
      BY DEF WatcherInv, TypeOK
    <3>9. StreamInOrder'
      BY <3>2, <3>4, <3>5, <3>6, <3>7, <3>8 DEF WatcherInv, StreamInOrder
    <3>10. QED
      BY <3>3, <3>9
  <2>5. ASSUME ForwardPut(s)
        PROVE  TypeOK' /\ (out \in [Subs -> Seq(Nat)])' /\ StreamInOrder'
    <3>1. out[s] \in Seq(Nat) /\ got[s] \in Nat
      BY <2>5 DEF ForwardPut, WatcherInv, TypeOK, BroadcasterTypeOK, StreamInOrder
    <3>2. out[s] = <<>>
      BY <2>5, <3>1, NonEmptyLen DEF ForwardPut, ChanCapacity
    <3>3. /\ UNCHANGED <<got, seen>> /\ fwd' = [fwd EXCEPT ![s] = "idle"]
          /\ out' = [out EXCEPT ![s] = <<got[s]>>]
      BY <2>5, <3>1, <3>2 DEF ForwardPut, bvars
    <3>4. TypeOK' /\ (out \in [Subs -> Seq(Nat)])'
      BY <1>t, <2>1, <3>1, <3>3 DEF WatcherInv, TypeOK, loopVars, ChanCapacity
    <3>5. StreamInOrder'
      BY <3>1, <3>3 DEF WatcherInv, TypeOK, BroadcasterTypeOK, StreamInOrder
    <3>6. QED
      BY <3>4, <3>5
  <2>6. QED
    BY <1>0, <1>7, <2>2, <2>3, <2>4, <2>5 DEF WatcherInv, WatchStep
<1>8. ASSUME NEW l \in LoopIds, ListInitial(l) \/ Tick(l) PROVE WatcherInv'
  <2>1. /\ UNCHANGED <<bvars, source, sick, started, stopped, prev, stops, watchVars>>
        /\ ~sick /\ loop[l] # "off"
        /\ cur' = [cur EXCEPT ![l] = source]
        /\ loop' = [loop EXCEPT ![l] = "sending"]
    BY <1>8 DEF ListInitial, Tick, envVars
  <2>2. TypeOK' /\ (out \in [Subs -> Seq(Nat)])'
    BY <1>t, <1>b, <2>1 DEF WatcherInv, TypeOK, watchVars
  <2>3. OneLiveLoop' /\ IdleMeansStopped' /\ StopsOrChanges'
    BY <2>1 DEF WatcherInv, TypeOK, OneLiveLoop, IdleMeansStopped, StopsOrChanges
  <2>4. ListedForward'
    BY <1>b, <2>1 DEF WatcherInv, TypeOK, BroadcasterTypeOK, ListedForward, NotOlder, bvars
  <2>5. FailingMeansNothingSent'
    BY <2>1 DEF FailingMeansNothingSent
  <2>6. StreamInOrder'
    BY <2>1, StreamUntouched DEF WatcherInv, bvars, watchVars
  <2>7. QED
    BY <1>0, <2>2, <2>3, <2>4, <2>5, <2>6 DEF WatcherInv
<1>9. ASSUME NEW l \in LoopIds, ListInitialFails(l) \/ LoopExit(l) PROVE WatcherInv'
  <2>1. /\ UNCHANGED <<got, source, sick, started, stopped, cur, prev, stops, watchVars>>
        /\ loop[l] # "off" /\ loop' = [loop EXCEPT ![l] = "ended"]
        /\ \/ lastValue' = lastValue
           \/ sick /\ lastValue' = ErrUpdate
    <3>1. CASE ListInitialFails(l)
      BY <3>1 DEF ListInitialFails, envVars, Broadcast
    <3>2. CASE LoopExit(l)
      BY <3>2 DEF LoopExit, envVars, bvars
    <3>3. QED
      BY <1>9, <3>1, <3>2
  <2>2. TypeOK' /\ (out \in [Subs -> Seq(Nat)])'
    BY <1>t, <2>1 DEF WatcherInv, TypeOK, watchVars
  <2>3. OneLiveLoop' /\ IdleMeansStopped' /\ StopsOrChanges'
    BY <2>1 DEF WatcherInv, TypeOK, OneLiveLoop, IdleMeansStopped, StopsOrChanges
  <2>4. ListedForward'
    BY <1>b, <2>1 DEF WatcherInv, TypeOK, ListedForward, NotOlder, FailingMeansNothingSent,
                      ErrUpdate
  <2>5. FailingMeansNothingSent'
    BY <2>1 DEF WatcherInv, TypeOK, FailingMeansNothingSent
  <2>6. StreamInOrder'
    BY <2>1, StreamUntouched DEF WatcherInv, watchVars
  <2>7. QED
    BY <1>0, <2>2, <2>3, <2>4, <2>5, <2>6 DEF WatcherInv
<1>10. ASSUME NEW l \in LoopIds, Send(l) PROVE WatcherInv'
  <2>1. /\ UNCHANGED <<got, source, sick, started, stopped, cur, stops, watchVars>>
        /\ loop[l] = "sending" /\ loop' = [loop EXCEPT ![l] = "waiting"]
        /\ prev' = [prev EXCEPT ![l] = cur[l]]
        /\ lastValue' = cur[l]
    BY <1>10 DEF Send, envVars, Broadcast
  <2>2. TypeOK' /\ (out \in [Subs -> Seq(Nat)])'
    BY <1>t, <2>1 DEF WatcherInv, TypeOK, watchVars
  <2>3. OneLiveLoop' /\ IdleMeansStopped' /\ StopsOrChanges'
    BY <2>1 DEF WatcherInv, TypeOK, OneLiveLoop, IdleMeansStopped, StopsOrChanges
  <2>4. ASSUME NEW k \in LoopIds, loop'[k] = "sending" PROVE cur[k] >= cur[l]
    <3>1. k # l /\ loop[k] = "sending"
      BY <2>1, <2>4 DEF WatcherInv, TypeOK
    <3>2. source = 1
      BY <2>1, <3>1 DEF WatcherInv, OneLiveLoop, StopsOrChanges
    <3>3. QED
      BY <2>1, <3>1, <3>2 DEF WatcherInv, TypeOK, ListedForward
  <2>5. ListedForward'
    BY <2>1, <2>4 DEF WatcherInv, TypeOK, ListedForward, NotOlder
  <2>6. FailingMeansNothingSent'
    BY <2>1 DEF WatcherInv, FailingMeansNothingSent
  <2>7. StreamInOrder'
    BY <2>1, StreamUntouched DEF WatcherInv, watchVars
  <2>8. QED
    BY <1>0, <2>2, <2>3, <2>5, <2>6, <2>7 DEF WatcherInv
<1>11. CASE UNCHANGED vars
  <2>1. UNCHANGED <<bvars, source, sick, loopVars, watchVars>>
    BY <1>11 DEF vars, wvars, envVars
  <2>2. TypeOK' /\ (out \in [Subs -> Seq(Nat)])'
    BY <1>t, <2>1 DEF WatcherInv, TypeOK, loopVars, watchVars
  <2>3. StreamInOrder'
    BY <2>1, StreamUntouched DEF WatcherInv, bvars, watchVars
  <2>4. QED
    BY <1>0, <1>a, <1>b, <2>1, <2>2, <2>3 DEF WatcherInv
<1>12. QED
  BY <1>1, <1>2, <1>3, <1>4, <1>5, <1>6, <1>7, <1>8, <1>9, <1>10, <1>11 DEF Next, LoopStep

\* However many Watch calls race to start it, and across Stop, never two poll
\* loops poll; and the watcher's state keeps its types.
THEOREM WatcherIsSafe == Spec => []WatcherSafe
<1>1. WatcherInv => WatcherSafe
  BY DEF WatcherInv, WatcherSafe
<1>2. QED
  BY <1>1, WatcherInvInit, WatcherInvStep, PTL DEF Spec

\* The broadcaster keeps its promises when the poll loops, the Watch calls and
\* Stop drive it.
THEOREM WatcherBroadcasts == Spec => []BroadcastSafe
<1>1. WatcherInv => BroadcastSafe
  BY DEF WatcherInv, BroadcasterInv, NothingMissed, NoReaderLeftBlank, BroadcastSafe
<1>2. QED
  BY <1>1, WatcherInvInit, WatcherInvStep, PTL DEF Spec

\* No forwarder of a Watch call receives an older list after a newer one.
THEOREM WatcherOrdered == Spec => ReaderNeverGoesBack
<1>1. WatcherInv => BroadcasterInv
  BY DEF WatcherInv
<1>2. QED
  BY <1>1, WatcherInvInit, WatcherInvStep, LoopsGoForward, BroadcasterStepForward, PTL
  DEF Spec, ReaderNeverGoesBack, ReadersForward

\* No stream shows an older list after a newer one.
THEOREM StreamsGoForward == Spec => StreamGoesForward
<1> DEFINE Forward == \A s \in Subs :
                         (seen'[s] # seen[s] /\ seen[s] # Nil) => seen'[s] > seen[s]
<1>1. WatcherInv /\ [Next]_vars => [Forward]_vars
  <2> SUFFICES ASSUME WatcherInv, Next PROVE Forward
    OBVIOUS
  <2>1. ASSUME NEW s \in Subs, Consume(s) PROVE Forward
    <3>1. Head(out[s]) \in Nat
      BY <2>1, TailFacts DEF Consume, WatcherInv, TypeOK
    <3>2. QED
      BY <2>1, <3>1 DEF Consume, WatcherInv, TypeOK, StreamInOrder
  <2>2. ASSUME seen' = seen PROVE Forward
    BY <2>2
  <2>3. QED
    BY <2>1, <2>2
    DEF Next, SourceChange, Heal, Stop, CancelWatch, WatchStart, WatchStep, WatchSubscribe,
        WatchForward, ForwardTake, ForwardPut, ForwardExit, LoopStep, ListInitial,
        ListInitialFails, Send, Tick, LoopExit, watchVars, wvars
<1>2. QED
  BY <1>1, WatcherInvInit, WatcherInvStep, PTL DEF Spec, StreamGoesForward
================================================================================
