------------------------------ MODULE DurableStore ------------------------------
(***************************************************************************)
(* What the store promises, without its files, its mutex or its crashes: a *)
(* map whose durable contents change only when a request is acknowledged.  *)
(* The acknowledged request finds its own value stored.  Every other item  *)
(* keeps its value, or takes one that a request which was answered with an *)
(* error had tried to give it since the last save.  What it does not       *)
(* promise: once a process has started without reading what is stored,     *)
(* every item may be gone after the next save.                             *)
(***************************************************************************)
CONSTANTS
    Requests,   \* the requests, each made once
    Items,      \* what can be stored: key paths and remote IDs
    Values,     \* what can be stored under an item
    Absent      \* nothing is stored under an item

VARIABLES
    stored,     \* stored[x]: what a restart that reads it finds under x
    tried,      \* tried[x]: values x may take in the next save
    done        \* the requests that were answered with success

dvars == <<stored, tried, done>>

NothingTried == [x \in Items |-> {}]

DurableInit ==
    /\ stored = [x \in Items |-> Absent]
    /\ tried = NothingTried
    /\ done = {}

\* A request changes an item in memory.
Try(x, v) ==
    /\ tried' = [tried EXCEPT ![x] = @ \union {v}]
    /\ UNCHANGED <<stored, done>>

\* Request r is saved and acknowledged.
Persist(r, x, v) ==
    /\ v \in tried[x]
    /\ stored' \in [Items -> Values \union {Absent}]
    /\ \A y \in Items : stored'[y] \in {stored[y]} \union tried[y]
    /\ stored'[x] = v
    /\ tried' = NothingTried
    /\ done' = done \union {r}

\* The process ends: what was not saved is lost.
Forget ==
    /\ tried' = NothingTried
    /\ UNCHANGED <<stored, done>>

\* A process starts without what is stored: it takes every item for absent.
StartEmpty ==
    /\ tried' = [x \in Items |-> {Absent}]
    /\ UNCHANGED <<stored, done>>

DurableNext ==
    \/ \E x \in Items, v \in Values \union {Absent} : Try(x, v)
    \/ \E r \in Requests, x \in Items, v \in Values \union {Absent} : Persist(r, x, v)
    \/ Forget
    \/ StartEmpty

DurableSpec == DurableInit /\ [][DurableNext]_dvars

================================================================================
