------------------------------ MODULE Broadcaster ------------------------------
(***************************************************************************)
(* broadcast.Broadcaster (skeys-core/broadcast/broadcaster.go): one        *)
(* producer fans values out to subscriber channels of capacity one.        *)
(* Subscribe is two steps: the registration under b.mu, and the replay of  *)
(* the cached value after b.mu has been released.  Broadcast, Unsubscribe  *)
(* and Close are one critical section of b.mu each.                        *)
(*                                                                         *)
(* A value is the number of the broadcast that carries it, so that order   *)
(* and loss are visible.  A subscription is used once, as a Go channel is. *)
(***************************************************************************)
EXTENDS Naturals, Sequences

CONSTANTS
    Subs,       \* the subscriptions (channels) that can ever be made
    Nil,        \* the nil *T of lastValue, and "nothing received yet"
    MaxValue    \* bound: how many values the producer broadcasts

ASSUME BroadcasterAssumption ==
    /\ Nil \notin Nat
    /\ MaxValue \in Nat

VARIABLES
    subscribers,  \* b.subscribers: the registered channels
    lastValue,    \* b.lastValue
    buf,          \* buf[s]: contents of channel s
    closed,       \* the channels that have been closed
    pc,           \* pc[s]: where the caller of Subscribe for s is
    replays,      \* the subscriptions made with replay = true
    lastVal,      \* lastVal[s]: Subscribe's local copy of lastValue
    got,          \* got[s]: the last value the reader took from channel s
    panic         \* what crashed the process: "none", or the faulty operation

bvars == <<subscribers, lastValue, buf, closed, pc, replays, lastVal, got, panic>>

\* Mutant: a larger channel buffer.
ChanCapacityTwo == 2

\* make(chan T, 1)
ChanCapacity == 1

\* New
BroadcasterInit ==
    /\ subscribers = {}
    /\ lastValue = Nil
    /\ buf = [s \in Subs |-> <<>>]
    /\ closed = {}
    /\ pc = [s \in Subs |-> "new"]
    /\ replays = {}
    /\ lastVal = [s \in Subs |-> Nil]
    /\ got = [s \in Subs |-> Nil]
    /\ panic = "none"

Alive == panic = "none"

\* A non-blocking send, select { case ch <- v: default: }: a full channel
\* drops the value that is being sent.
TrySend(ch, v) == IF Len(ch) < ChanCapacity THEN Append(ch, v) ELSE ch

\* Subscribe, up to the release of b.mu.
SubscribeRegister(s, replay) ==
    /\ Alive
    /\ pc[s] = "new"
    /\ subscribers' = subscribers \union {s}
    /\ replays' = IF replay THEN replays \union {s} ELSE replays
    /\ lastVal' = [lastVal EXCEPT ![s] = lastValue]
    /\ pc' = [pc EXCEPT ![s] = "replaying"]
    /\ UNCHANGED <<lastValue, buf, closed, got, panic>>

\* Mutant: the test for a cached value is inverted.
HasReplayInverted(s) == s \in replays /\ lastVal[s] = Nil

\* replay && lastVal != nil
HasReplay(s) == s \in replays /\ lastVal[s] # Nil

\* Subscribe, after the release of b.mu: the replay, and the return of the
\* channel to the caller.  Sending on a closed channel panics, in a select too.
SubscribeReplay(s) ==
    /\ Alive
    /\ pc[s] = "replaying"
    /\ panic' = IF HasReplay(s) /\ s \in closed THEN "replay" ELSE panic
    /\ buf' = IF HasReplay(s) /\ s \notin closed
              THEN [buf EXCEPT ![s] = TrySend(@, lastVal[s])] ELSE buf
    /\ pc' = [pc EXCEPT ![s] = "open"]
    /\ UNCHANGED <<subscribers, lastValue, closed, replays, lastVal, got>>

\* Unsubscribe: closes the channel only if it is still registered.
Unsubscribe(s) ==
    /\ Alive
    /\ pc[s] = "open"
    /\ panic' = IF s \in subscribers /\ s \in closed THEN "close" ELSE panic
    /\ closed' = IF s \in subscribers THEN closed \union {s} ELSE closed
    /\ subscribers' = subscribers \ {s}
    /\ pc' = [pc EXCEPT ![s] = "done"]
    /\ UNCHANGED <<lastValue, buf, replays, lastVal, got>>

\* Broadcast: caches the value, then offers it to every registered channel.
Broadcast(v) ==
    /\ Alive
    /\ lastValue' = v
    /\ panic' = IF subscribers \intersect closed # {} THEN "broadcast" ELSE panic
    /\ buf' = [s \in Subs |-> IF s \in subscribers THEN TrySend(buf[s], v) ELSE buf[s]]
    /\ UNCHANGED <<subscribers, closed, pc, replays, lastVal, got>>

\* Mutant: the channels are closed but stay in the map.
CloseKeeps ==
    /\ Alive
    /\ panic' = IF subscribers \intersect closed # {} THEN "close" ELSE panic
    /\ closed' = closed \union subscribers
    /\ UNCHANGED <<subscribers, lastValue, buf, pc, replays, lastVal, got>>

\* Close: closes and forgets every registered channel; lastValue stays cached.
Close ==
    /\ Alive
    /\ panic' = IF subscribers \intersect closed # {} THEN "close" ELSE panic
    /\ closed' = closed \union subscribers
    /\ subscribers' = {}
    /\ UNCHANGED <<lastValue, buf, pc, replays, lastVal, got>>

\* The reader of channel s takes its value; it has the channel only once
\* Subscribe has returned it, and a closed channel is drained first.
Receive(s) ==
    /\ Alive
    /\ pc[s] \in {"open", "done"}
    /\ buf[s] # <<>>
    /\ got' = [got EXCEPT ![s] = Head(buf[s])]
    /\ buf' = [buf EXCEPT ![s] = Tail(@)]
    /\ UNCHANGED <<subscribers, lastValue, closed, pc, replays, lastVal, panic>>

\* The next number a producer that numbers its broadcasts sends.
NextValue == IF lastValue = Nil THEN 1 ELSE lastValue + 1

BroadcasterNext ==
    \/ \E s \in Subs :
          \/ \E replay \in BOOLEAN : SubscribeRegister(s, replay)
          \/ SubscribeReplay(s)
          \/ Unsubscribe(s)
          \/ Receive(s)
    \/ NextValue <= MaxValue /\ Broadcast(NextValue)
    \/ Close

BroadcasterSpec == BroadcasterInit /\ [][BroadcasterNext]_bvars
--------------------------------------------------------------------------------
Stages == {"new", "replaying", "open", "done"}

\* The variables keep their types: a channel never holds more than its
\* capacity, and only the four stages of a subscription occur.
BroadcasterTypeOK ==
    /\ subscribers \subseteq Subs
    /\ lastValue \in Nat \union {Nil}
    /\ buf \in [Subs -> Seq(Nat)]
    /\ \A s \in Subs : Len(buf[s]) <= ChanCapacity
    /\ closed \subseteq Subs
    /\ pc \in [Subs -> Stages]
    /\ replays \subseteq Subs
    /\ lastVal \in [Subs -> Nat \union {Nil}]
    /\ got \in [Subs -> Nat \union {Nil}]
    /\ panic \in {"none", "replay", "broadcast", "close"}

\* Closing and broadcasting can never crash the process, whatever the order
\* of Subscribe, Unsubscribe, Broadcast and Close: only the replay of
\* Subscribe, which runs outside b.mu, can send on a closed channel, and only
\* when Close ran between its two halves.
OnlyReplayPanics == panic \in {"none", "replay"}

\* A reader never goes back: each value it takes is newer than the one before,
\* although the replay is sent outside the lock and may race broadcasts.
ReaderNeverGoesBack ==
    [][\A s \in Subs :
          (got'[s] # got[s] /\ got[s] # Nil) => got'[s] > got[s]]_bvars

\* No reader is left blank: a registered subscription made with replay whose
\* channel is empty and whose reader has received nothing means that nothing
\* was ever broadcast, so no value falls between the registration and the
\* replay.
NoReaderLeftBlank ==
    \A s \in subscribers \intersect replays :
       (pc[s] = "open" /\ buf[s] = <<>> /\ got[s] = Nil) => lastValue = Nil

\* What the split of Subscribe into registration and replay must not break:
\* no panic but the one of the replay, and no value missed in between.
BroadcastSafe == OnlyReplayPanics /\ NoReaderLeftBlank
================================================================================
