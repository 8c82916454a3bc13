--------------------------------- MODULE Store ---------------------------------
(***************************************************************************)
(* storage.Store (skeys-core/storage/storage.go): the daemon's saved       *)
(* remotes and key metadata, kept in memory and rewritten as a whole to    *)
(* metadata.json on every change, through metadata.json.tmp and a rename.  *)
(* Every change holds s.mu; a save that fails leaves the change in memory. *)
(* The requests are those of the remote and metadata adapters; UpdateRemote*)
(* reads the saved remote first and writes it back under another lock.     *)
(*                                                                         *)
(* An item is a key path or a remote ID.  A value is what the user set     *)
(* (name) and, for a remote, when it was last connected.                   *)
(***************************************************************************)
EXTENDS Naturals

CONSTANTS
    Requests,    \* the RPCs, each made once
    KeyPaths,    \* paths with key metadata
    Remotes,     \* remote IDs; uuid.New never gives one twice
    Names,       \* the user's part of a value
    Nobody,      \* s.mu is free
    Absent,      \* no entry in the map
    NoFile,      \* the file does not exist
    Torn,        \* the file is not the JSON of any contents
    CanFail,     \* whether reading, writing and renaming files may fail
    CanCrash,    \* whether the daemon may be killed
    MaxClock     \* bound: the last time at which a remote is connected

Items == KeyPaths \union Remotes

Values == [name : Names, last : 0..MaxClock]
Contents == [Items -> Values \union {Absent}]

ASSUME StoreAssumption ==
    /\ MaxClock \in Nat
    /\ KeyPaths \intersect Remotes = {}
    /\ Nobody \notin Requests
    /\ Absent \notin Values
    /\ NoFile \notin Contents
    /\ Torn \notin Contents
    /\ NoFile # Torn
    /\ CanFail \in BOOLEAN
    /\ CanCrash \in BOOLEAN

VARIABLES
    mem,     \* s.data
    meta,    \* metadata.json
    tmp,     \* metadata.json.tmp
    up,      \* the daemon is running
    mu,      \* who holds s.mu for writing
    pc,      \* pc[r]: where request r is
    op,      \* op[r]: which request it is
    item,    \* item[r]: the item it is about
    val,     \* val[r]: the value it carries
    reply,   \* reply[r]: how it was answered
    used,    \* the remote IDs that were ever given out
    clock,   \* time.Now
    tried,   \* tried[x]: values x got in memory since the last save
    gone     \* remotes whose deletion was acknowledged

svars == <<mem, meta, tmp, up, mu, pc, op, item, val, reply, used, clock, tried, gone>>

Empty == [x \in Items |-> Absent]
NothingTried == [x \in Items |-> {}]
AllDropped == [x \in Items |-> {Absent}]

\* load, and NewStore when it fails: a file that is missing or does not parse
\* gives an empty store.
Load(file) == IF file \in {NoFile, Torn} THEN Empty ELSE file

\* NewStore in a directory without a metadata file.
Init ==
    /\ mem = Empty
    /\ meta = NoFile
    /\ tmp = NoFile
    /\ up = TRUE
    /\ mu = Nobody
    /\ pc = [r \in Requests |-> "new"]
    /\ op = [r \in Requests |-> "none"]
    /\ item \in [Requests -> Items]
    /\ val = [r \in Requests |-> Absent]
    /\ reply = [r \in Requests |-> "none"]
    /\ used = {}
    /\ clock = 0
    /\ tried = NothingTried
    /\ gone = {}

--------------------------------------------------------------------------------
\* A request reaches the store with the operation o and the value v.
Ready(r, o, v) ==
    /\ up
    /\ pc[r] = "new"
    /\ pc' = [pc EXCEPT ![r] = "ready"]
    /\ op' = [op EXCEPT ![r] = o]
    /\ val' = [val EXCEPT ![r] = v]
    /\ UNCHANGED <<mem, meta, tmp, up, mu, item, reply, tried, gone>>

\* SetKeyMetadata
SetKeyMetadata(r) ==
    /\ item[r] \in KeyPaths
    /\ \E n \in Names : Ready(r, "set", [name |-> n, last |-> 0])
    /\ UNCHANGED <<used, clock>>

\* AddRemote: uuid.New, and no connection yet.
AddRemote(r) ==
    /\ item[r] \in Remotes \ used
    /\ used' = used \union {item[r]}
    /\ \E n \in Names : Ready(r, "set", [name |-> n, last |-> 0])
    /\ UNCHANGED clock

\* A client has seen the remote: its AddRemote is over.
Known(x) == x \in used /\ \A q \in Requests :
                              item[q] = x /\ op[q] = "set" => pc[q] = "done"

\* DeleteKeyMetadata and DeleteRemote, of an item that need not exist.
DeleteKeyMetadata(r) ==
    /\ item[r] \in KeyPaths
    /\ Ready(r, "delete", Absent)
    /\ UNCHANGED <<used, clock>>

DeleteRemote(r) ==
    /\ item[r] \in Remotes /\ Known(item[r])
    /\ Ready(r, "delete", Absent)
    /\ UNCHANGED <<used, clock>>

Delete(r) == DeleteKeyMetadata(r) \/ DeleteRemote(r)

\* UpdateRemote: GetRemoteServer under a lock of its own, then the new
\* settings with the old LastConnectedAt.
UpdateRemote(r) ==
    /\ item[r] \in Remotes
    /\ mu = Nobody
    /\ mem[item[r]] # Absent
    /\ \E n \in Names : Ready(r, "update", [name |-> n, last |-> mem[item[r]].last])
    /\ UNCHANGED <<used, clock>>

\* Connect: GetRemoteServer, the dial (ConnectionPool), and the time of the
\* connection for UpdateRemoteServerLastConnected.
Connect(r) ==
    /\ item[r] \in Remotes
    /\ mu = Nobody
    /\ mem[item[r]] # Absent
    /\ clock < MaxClock
    /\ clock' = clock + 1
    /\ Ready(r, "touch", [mem[item[r]] EXCEPT !.last = clock + 1])
    /\ UNCHANGED used

--------------------------------------------------------------------------------
\* What the request makes of its item.
NewValue(r) == IF op[r] = "touch" THEN [mem[item[r]] EXCEPT !.last = val[r].last]
                                  ELSE val[r]

\* Mutant: an update does not look whether the remote still exists.
RefusedNever(r) == op[r] = "touch" /\ mem[item[r]] = Absent

\* UpdateRemoteServer and UpdateRemoteServerLastConnected need the remote.
Refused(r) == op[r] \in {"update", "touch"} /\ mem[item[r]] = Absent

Answer(r, how) ==
    /\ pc' = [pc EXCEPT ![r] = "done"]
    /\ reply' = [reply EXCEPT ![r] = how]

\* "remote server not found"
Refuse(r) ==
    /\ pc[r] = "ready"
    /\ mu = Nobody
    /\ Refused(r)
    /\ Answer(r, "error")
    /\ UNCHANGED <<mem, meta, tmp, up, mu, op, item, val, used, clock, tried, gone>>

\* s.mu.Lock and the change of the map.
Change(r) ==
    /\ pc[r] = "ready"
    /\ mu = Nobody
    /\ ~Refused(r)
    /\ mu' = r
    /\ mem' = [mem EXCEPT ![item[r]] = NewValue(r)]
    /\ tried' = [tried EXCEPT ![item[r]] = @ \union {NewValue(r)}]
    /\ pc' = [pc EXCEPT ![r] = "open"]
    /\ UNCHANGED <<meta, tmp, up, op, item, val, reply, used, clock, gone>>

\* save: os.WriteFile creates or empties the temporary file ...
SaveOpen(r) ==
    /\ pc[r] = "open"
    /\ tmp' = Torn
    /\ pc' = [pc EXCEPT ![r] = "write"]
    /\ UNCHANGED <<mem, meta, up, mu, op, item, val, reply, used, clock, tried, gone>>

\* ... and writes it.
SaveWrite(r) ==
    /\ pc[r] = "write"
    /\ tmp' = mem
    /\ pc' = [pc EXCEPT ![r] = "rename"]
    /\ UNCHANGED <<mem, meta, up, mu, op, item, val, reply, used, clock, tried, gone>>

\* Mutant: the failure of a save is not reported.
SaveFailsSilently(r) ==
    /\ CanFail
    /\ pc[r] \in {"open", "write", "rename"}
    /\ tmp' = IF pc[r] = "rename" THEN NoFile ELSE tmp
    /\ mu' = Nobody
    /\ Answer(r, "ok")
    /\ UNCHANGED <<mem, meta, up, op, item, val, used, clock, tried, gone>>

\* A step of save fails: a failed rename removes the temporary file, a failed
\* write leaves it.  The change stays in memory.
SaveFails(r) ==
    /\ CanFail
    /\ pc[r] \in {"open", "write", "rename"}
    /\ tmp' = IF pc[r] = "rename" THEN NoFile ELSE tmp
    /\ mu' = Nobody
    /\ Answer(r, "error")
    /\ UNCHANGED <<mem, meta, up, op, item, val, used, clock, tried, gone>>

\* os.Rename, the release of s.mu and the answer.
SaveRename(r) ==
    /\ pc[r] = "rename"
    /\ meta' = tmp
    /\ tmp' = NoFile
    /\ mu' = Nobody
    /\ Answer(r, "ok")
    /\ tried' = NothingTried
    /\ gone' = IF op[r] = "delete" THEN gone \union ({item[r]} \intersect Remotes) ELSE gone
    /\ UNCHANGED <<mem, up, op, item, val, used, clock>>

--------------------------------------------------------------------------------
\* The daemon is killed: its requests get no answer.
Crash ==
    /\ CanCrash
    /\ up
    /\ up' = FALSE
    /\ mem' = Empty
    /\ mu' = Nobody
    /\ pc' = [r \in Requests |-> IF pc[r] = "new" THEN "new" ELSE "done"]
    /\ tried' = NothingTried
    /\ UNCHANGED <<meta, tmp, op, item, val, reply, used, clock, gone>>

\* NewStore of the next daemon.
Restart ==
    /\ ~up
    /\ up' = TRUE
    /\ mem' = Load(meta)
    /\ UNCHANGED <<meta, tmp, mu, pc, op, item, val, reply, used, clock, tried, gone>>

\* NewStore, when os.ReadFile fails on a file that is there and intact: it
\* starts empty, and the next save overwrites what could not be read.
RestartUnread ==
    /\ CanFail
    /\ ~up
    /\ meta # NoFile
    /\ up' = TRUE
    /\ mem' = Empty
    /\ tried' = AllDropped
    /\ UNCHANGED <<meta, tmp, mu, pc, op, item, val, reply, used, clock, gone>>

Next ==
    \/ \E r \in Requests :
          \/ SetKeyMetadata(r) \/ AddRemote(r) \/ Delete(r)
          \/ UpdateRemote(r) \/ Connect(r)
          \/ Refuse(r) \/ Change(r)
          \/ SaveOpen(r) \/ SaveWrite(r) \/ SaveFails(r) \/ SaveRename(r)
    \/ Crash
    \/ Restart
    \/ RestartUnread

Spec == Init /\ [][Next]_svars

--------------------------------------------------------------------------------
\* Types; s.mu is held exactly by the request that is saving.
TypeOK ==
    /\ mem \in Contents
    /\ meta \in Contents \union {NoFile, Torn}
    /\ tmp \in Contents \union {NoFile, Torn}
    /\ up \in BOOLEAN
    /\ mu \in Requests \union {Nobody}
    /\ pc \in [Requests -> {"new", "ready", "open", "write", "rename", "done"}]
    /\ op \in [Requests -> {"none", "set", "delete", "update", "touch"}]
    /\ item \in [Requests -> Items]
    /\ val \in [Requests -> Values \union {Absent}]
    /\ reply \in [Requests -> {"none", "ok", "error"}]
    /\ used \subseteq Remotes
    /\ clock \in 0..MaxClock
    /\ tried \in [Items -> SUBSET (Values \union {Absent})]
    /\ gone \subseteq Remotes
    /\ \A r \in Requests : mu = r <=> pc[r] \in {"open", "write", "rename"}

\* "Write to temp file first, then rename for atomicity": whenever the daemon
\* is killed or a write fails, metadata.json is never left half-written.
NeverTorn == meta # Torn

\* A remote whose deletion was acknowledged does not come back: not by an
\* update that read it before, not by a failed save, not by a restart.
NoResurrection == \A x \in gone : Load(meta)[x] = Absent /\ (up => mem[x] = Absent)

\* The store through failing writes, kills and racing requests: s.mu has the
\* right holder, the file is whole, and what was deleted stays deleted.
StoreSafe == TypeOK /\ NeverTorn /\ NoResurrection

\* The store keeps the promise of DurableStore: acknowledged changes are what
\* the file holds and a restart that can read it finds, and nothing else
\* changes.  After a restart that could not read the file the promise is
\* weaker, as the code is: every entry may be lost in the next save.
Durable == INSTANCE DurableStore WITH
    stored <- Load(meta),
    done <- {r \in Requests : reply[r] = "ok"}

DurableSpec == Durable!DurableSpec

================================================================================
