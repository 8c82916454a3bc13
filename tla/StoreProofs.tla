------------------------------ MODULE StoreProofs ------------------------------
(***************************************************************************)
(* Proofs about Store, for any requests, items and values, with failing    *)
(* writes and crashes: it implements DurableStore, metadata.json is never  *)
(* half-written, and a deleted remote does not come back.                  *)
(***************************************************************************)
EXTENDS StoreReads, TLAPS

Saving == {"open", "write", "rename"}

\* The memory holds what the file holds, but for what was tried since.
MemoryFollows ==
    \A x \in Items : up => mem[x] \in {Load(meta)[x]} \union tried[x]

\* What a request knows while it is under way.
Underway ==
    \A r \in Requests :
       /\ pc[r] \in Saving => mem[item[r]] \in tried[item[r]]
       /\ pc[r] = "rename" => tmp = mem
       /\ pc[r] # "done" => reply[r] = "none"
       /\ pc[r] \notin {"new", "done"} => op[r] # "none"
       /\ op[r] = "touch" => val[r] \in Values
       /\ op[r] = "delete" => val[r] = Absent
       /\ (pc[r] \in Saving /\ op[r] = "delete") => mem[item[r]] = Absent
       /\ (op[r] = "delete" /\ item[r] \in Remotes) => Known(item[r])

\* No request is under way in a daemon that is down.
DownIsQuiet == ~up => \A r \in Requests : pc[r] \in {"new", "done"}

\* A deleted remote is nowhere: not in the file, not in memory, and no request
\* under way will create it.
GoneIsGone ==
    \A x \in gone :
       /\ Known(x)
       /\ Load(meta)[x] = Absent
       /\ tried[x] \subseteq {Absent}

StoreInv == TypeOK /\ NeverTorn /\ MemoryFollows /\ Underway /\ DownIsQuiet /\ GoneIsGone

\* An item known to the clients stays known.
LEMMA KnownStays ==
    ASSUME StoreInv, NEW x \in Remotes, Known(x), [Next]_svars
    PROVE  Known(x)'
<1>1. CASE UNCHANGED svars
  BY <1>1 DEF Known, svars
<1> USE DEF Known
<1>2. ASSUME NEW r \in Requests,
             SetKeyMetadata(r) \/ AddRemote(r) \/ Delete(r) \/ UpdateRemote(r) \/ Connect(r)
      PROVE  Known(x)'
  BY <1>2, StoreAssumption
     DEF SetKeyMetadata, AddRemote, Delete, DeleteKeyMetadata, DeleteRemote, UpdateRemote, Connect, Ready, StoreInv, TypeOK
<1>3. ASSUME NEW r \in Requests,
             Refuse(r) \/ Change(r) \/ SaveOpen(r) \/ SaveWrite(r) \/ SaveFails(r) \/ SaveRename(r)
      PROVE  Known(x)'
  BY <1>3 DEF Refuse, Change, SaveOpen, SaveWrite, SaveFails, SaveRename, Answer, StoreInv, TypeOK
<1>4. CASE Crash
  BY <1>4 DEF Crash, StoreInv, TypeOK
<1>5. CASE Restart \/ RestartUnread
  BY <1>5 DEF Restart, RestartUnread
<1>6. QED
  BY <1>1, <1>2, <1>3, <1>4, <1>5 DEF Next

\* What Load gives of a file that is not half-written.
LEMMA LoadType ==
    ASSUME NEW f \in Contents \union {NoFile, Torn}
    PROVE  /\ Load(f) \in Contents
           /\ f \in Contents => Load(f) = f
BY StoreAssumption DEF Load, Empty, Contents

LEMMA InitInv == Init => StoreInv
BY StoreAssumption
   DEF Init, StoreInv, TypeOK, NeverTorn, MemoryFollows, Underway, DownIsQuiet, GoneIsGone,
       Load, Empty, Contents, NothingTried, Saving, Known

\* A request that reaches the store changes neither memory nor files.
LEMMA CallInv ==
    ASSUME StoreInv, NEW r \in Requests,
           SetKeyMetadata(r) \/ AddRemote(r) \/ Delete(r) \/ UpdateRemote(r) \/ Connect(r)
    PROVE  StoreInv'
<1>1. PICK o \in {"set", "delete", "update", "touch"}, v \in Values \union {Absent} :
         /\ Ready(r, o, v)
         /\ o = "touch" => v \in Values
         /\ o = "delete" => v = Absent /\ (item[r] \in Remotes => Known(item[r]))
         /\ clock' \in 0..MaxClock
         /\ used' \subseteq Remotes
  <2>1. CASE SetKeyMetadata(r)
    BY <2>1, StoreAssumption DEF SetKeyMetadata, StoreInv, TypeOK, Values
  <2>2. CASE AddRemote(r)
    BY <2>2, StoreAssumption DEF AddRemote, StoreInv, TypeOK, Values
  <2>3. CASE Delete(r)
    BY <2>3, StoreAssumption DEF Delete, DeleteKeyMetadata, DeleteRemote, StoreInv, TypeOK
  <2>4. CASE UpdateRemote(r)
    <3>1. mem[item[r]] \in Values
      BY <2>4 DEF UpdateRemote, StoreInv, TypeOK, Contents
    <3>2. QED
      BY <2>4, <3>1 DEF UpdateRemote, StoreInv, TypeOK, Values
  <2>5. CASE Connect(r)
    <3>1. mem[item[r]] \in Values
      BY <2>5 DEF Connect, StoreInv, TypeOK, Contents
    <3>2. clock + 1 \in 0..MaxClock
      BY <2>5, StoreAssumption DEF Connect, StoreInv, TypeOK
    <3>3. [mem[item[r]] EXCEPT !.last = clock + 1] \in Values
      BY <3>1, <3>2 DEF Values
    <3>4. QED
      BY <2>5, <3>2, <3>3 DEF Connect, StoreInv, TypeOK
  <2>6. QED
    BY <2>1, <2>2, <2>3, <2>4, <2>5
<1>2. /\ UNCHANGED <<mem, meta, tmp, up, mu, item, reply, tried, gone>>
      /\ up /\ pc[r] = "new"
      /\ pc' = [pc EXCEPT ![r] = "ready"]
      /\ op' = [op EXCEPT ![r] = o]
      /\ val' = [val EXCEPT ![r] = v]
  BY <1>1 DEF Ready
<1>3. TypeOK'
  BY <1>1, <1>2 DEF StoreInv, TypeOK
<1>4. NeverTorn' /\ MemoryFollows' /\ DownIsQuiet'
  BY <1>2 DEF StoreInv, TypeOK, NeverTorn, MemoryFollows, DownIsQuiet, Load
<1>5. \A x \in Remotes : Known(x) => Known(x)'
  BY KnownStays DEF Next
<1>6. Underway'
  <2> SUFFICES ASSUME NEW q \in Requests
               PROVE  /\ pc'[q] \in Saving => mem'[item'[q]] \in tried'[item'[q]]
                      /\ pc'[q] = "rename" => tmp' = mem'
                      /\ pc'[q] # "done" => reply'[q] = "none"
                      /\ pc'[q] \notin {"new", "done"} => op'[q] # "none"
                      /\ op'[q] = "touch" => val'[q] \in Values
                      /\ op'[q] = "delete" => val'[q] = Absent
                      /\ (pc'[q] \in Saving /\ op'[q] = "delete") => mem'[item'[q]] = Absent
                      /\ (op'[q] = "delete" /\ item'[q] \in Remotes) => Known(item[q])'
    BY <1>2 DEF Underway
  <2>1. (op'[q] = "delete" /\ item'[q] \in Remotes) => Known(item[q])'
    BY <1>1, <1>2, <1>5 DEF StoreInv, TypeOK, Underway
  <2>2. QED
    BY <1>1, <1>2, <2>1 DEF StoreInv, TypeOK, Underway, Saving
<1>7. GoneIsGone'
  BY <1>2, <1>5 DEF StoreInv, TypeOK, GoneIsGone, Load
<1>8. QED
  BY <1>3, <1>4, <1>6, <1>7 DEF StoreInv

\* An answer that is not a success leaves files and memory to the next save.
LEMMA AnswerInv ==
    ASSUME StoreInv, NEW r \in Requests, Refuse(r) \/ SaveFails(r)
    PROVE  StoreInv'
<1>1. /\ UNCHANGED <<mem, meta, up, op, item, val, used, clock, tried, gone>>
      /\ pc' = [pc EXCEPT ![r] = "done"]
      /\ reply' = [reply EXCEPT ![r] = "error"]
      /\ tmp' \in {tmp, NoFile}
      /\ mu' = Nobody
      /\ \A q \in Requests : q # r => pc[q] \notin Saving
  BY StoreAssumption DEF Refuse, SaveFails, Answer, StoreInv, TypeOK, Saving
<1>2. TypeOK'
  BY <1>1, StoreAssumption DEF StoreInv, TypeOK, Saving
<1>3. NeverTorn' /\ MemoryFollows' /\ DownIsQuiet'
  BY <1>1 DEF StoreInv, TypeOK, NeverTorn, MemoryFollows, DownIsQuiet, Load
<1>4. \A x \in Remotes : Known(x) => Known(x)'
  BY KnownStays DEF Next
<1>5. Underway'
  BY <1>1, <1>4 DEF StoreInv, TypeOK, Underway, Saving
<1>6. GoneIsGone'
  BY <1>1, <1>4 DEF StoreInv, TypeOK, GoneIsGone, Load
<1>7. QED
  BY <1>2, <1>3, <1>5, <1>6 DEF StoreInv

\* The change of the map under the lock.
LEMMA ChangeInv ==
    ASSUME StoreInv, NEW r \in Requests, Change(r)
    PROVE  StoreInv' /\ NewValue(r) \in Values \union {Absent}
<1> DEFINE v == NewValue(r)
<1>1. /\ UNCHANGED <<meta, tmp, up, op, item, val, reply, used, clock, gone>>
      /\ pc[r] = "ready"
      /\ pc' = [pc EXCEPT ![r] = "open"]
      /\ mu = Nobody /\ mu' = r
      /\ mem' = [mem EXCEPT ![item[r]] = v]
      /\ tried' = [tried EXCEPT ![item[r]] = @ \union {v}]
      /\ \A q \in Requests : pc[q] \notin Saving
  BY StoreAssumption DEF Change, StoreInv, TypeOK, Saving
<1>2. v \in Values \union {Absent}
  <2>1. CASE op[r] = "touch"
    <3>1. mem[item[r]] \in Values
      BY <2>1 DEF Change, Refused, StoreInv, TypeOK, Contents
    <3>2. val[r] \in Values
      BY <2>1 DEF StoreInv, Underway
    <3>3. QED
      BY <2>1, <3>1, <3>2 DEF NewValue, Values
  <2>2. CASE op[r] # "touch"
    BY <2>2 DEF NewValue, StoreInv, TypeOK
  <2>3. QED
    BY <2>1, <2>2
<1>3. TypeOK'
  <2>1. mem' \in Contents
    BY <1>1, <1>2 DEF StoreInv, TypeOK, Contents
  <2>2. tried' \in [Items -> SUBSET (Values \union {Absent})]
    BY <1>1, <1>2 DEF StoreInv, TypeOK
  <2>3. QED
    BY <1>1, <2>1, <2>2 DEF StoreInv, TypeOK, Saving
<1>4. NeverTorn' /\ DownIsQuiet'
  BY <1>1 DEF StoreInv, TypeOK, NeverTorn, DownIsQuiet
<1>5. MemoryFollows'
  BY <1>1 DEF StoreInv, TypeOK, Contents, MemoryFollows, Load
<1>6. \A x \in Remotes : Known(x) => Known(x)'
  BY KnownStays DEF Next
<1>7. op[r] = "delete" => v = Absent
  BY DEF NewValue, StoreInv, Underway
<1>8. Underway'
  BY <1>1, <1>6, <1>7 DEF StoreInv, TypeOK, Contents, Underway, Saving
<1>9. GoneIsGone'
  <2> SUFFICES ASSUME NEW x \in gone
               PROVE  tried'[x] \subseteq {Absent}
    BY <1>1, <1>6 DEF StoreInv, TypeOK, GoneIsGone, Load
  <2>1. CASE x # item[r]
    BY <1>1, <2>1 DEF StoreInv, TypeOK, GoneIsGone
  <2>2. CASE x = item[r]
    <3>1. up
      BY <1>1 DEF StoreInv, DownIsQuiet
    <3>2. mem[x] = Absent
      BY <3>1 DEF StoreInv, TypeOK, GoneIsGone, MemoryFollows, Items
    <3>3. op[r] \notin {"update", "touch"}
      BY <2>2, <3>2 DEF Change, Refused
    <3>4. op[r] # "set"
      BY <1>1, <2>2 DEF StoreInv, GoneIsGone, Known
    <3>5. op[r] # "none"
      BY <1>1 DEF StoreInv, Underway
    <3>6. v = Absent
      BY <1>7, <3>3, <3>4, <3>5 DEF StoreInv, TypeOK
    <3>7. QED
      BY <1>1, <2>2, <3>6 DEF StoreInv, TypeOK, GoneIsGone
  <2>3. QED
    BY <2>1, <2>2
<1>10. QED
  BY <1>2, <1>3, <1>4, <1>5, <1>8, <1>9 DEF StoreInv

\* The two steps that write the temporary file.
LEMMA WriteInv ==
    ASSUME StoreInv, NEW r \in Requests, SaveOpen(r) \/ SaveWrite(r)
    PROVE  StoreInv'
<1>1. /\ UNCHANGED <<mem, meta, up, mu, op, item, val, reply, used, clock, tried, gone>>
      /\ pc[r] \in {"open", "write"}
      /\ \/ pc' = [pc EXCEPT ![r] = "write"] /\ tmp' = Torn
         \/ pc' = [pc EXCEPT ![r] = "rename"] /\ tmp' = mem
      /\ \A q \in Requests : q # r => pc[q] \notin Saving
  BY DEF SaveOpen, SaveWrite, StoreInv, TypeOK, Saving
<1>2. TypeOK'
  BY <1>1 DEF StoreInv, TypeOK, Saving
<1>3. NeverTorn' /\ MemoryFollows' /\ DownIsQuiet'
  BY <1>1 DEF StoreInv, TypeOK, NeverTorn, MemoryFollows, DownIsQuiet, Load
<1>4. \A x \in Remotes : Known(x) => Known(x)'
  BY KnownStays DEF Next
<1>5. Underway'
  BY <1>1, <1>4 DEF StoreInv, TypeOK, Underway, Saving
<1>6. GoneIsGone'
  BY <1>1, <1>4 DEF StoreInv, TypeOK, GoneIsGone, Load
<1>7. QED
  BY <1>2, <1>3, <1>5, <1>6 DEF StoreInv

\* The rename: the file becomes the memory.
LEMMA RenameInv ==
    ASSUME StoreInv, NEW r \in Requests, SaveRename(r)
    PROVE  StoreInv'
<1>1. /\ UNCHANGED <<mem, up, op, item, val, used, clock>>
      /\ pc[r] = "rename"
      /\ pc' = [pc EXCEPT ![r] = "done"]
      /\ reply' = [reply EXCEPT ![r] = "ok"]
      /\ tmp = mem /\ meta' = mem /\ tmp' = NoFile
      /\ mu' = Nobody
      /\ tried' = NothingTried
      /\ gone' \subseteq gone \union ({item[r]} \intersect Remotes)
      /\ op[r] # "delete" => gone' = gone
      /\ \A q \in Requests : q # r => pc[q] \notin Saving
      /\ up
  BY DEF SaveRename, Answer, StoreInv, TypeOK, Saving, Underway, DownIsQuiet
<1>2. Load(meta') = mem
  BY <1>1, LoadType DEF StoreInv, TypeOK
<1>3. TypeOK'
  BY <1>1, StoreAssumption DEF StoreInv, TypeOK, Saving, NothingTried
<1>4. NeverTorn' /\ DownIsQuiet'
  BY <1>1, StoreAssumption DEF StoreInv, TypeOK, NeverTorn, DownIsQuiet
<1>5. MemoryFollows'
  BY <1>1, <1>2 DEF MemoryFollows, Load
<1>6. \A x \in Remotes : Known(x) => Known(x)'
  BY KnownStays DEF Next
<1>7. Underway'
  BY <1>1, <1>6 DEF StoreInv, TypeOK, Underway, Saving
<1>8. GoneIsGone'
  <2> SUFFICES ASSUME NEW x \in gone'
               PROVE  Known(x)' /\ Load(meta')[x] = Absent /\ tried'[x] \subseteq {Absent}
    BY DEF GoneIsGone, Load
  <2>1. x \in Remotes /\ x \in Items
    BY <1>3 DEF TypeOK, Items
  <2>2. tried'[x] = {}
    BY <1>1, <2>1 DEF NothingTried
  <2>3. CASE x \in gone
    <3>1. mem[x] = Absent
      BY <1>1, <2>1, <2>3 DEF StoreInv, MemoryFollows, GoneIsGone
    <3>2. QED
      BY <1>2, <1>6, <2>1, <2>2, <2>3, <3>1 DEF StoreInv, GoneIsGone
  <2>4. CASE x \notin gone
    <3>1. x = item[r] /\ op[r] = "delete"
      BY <1>1, <2>4
    <3>2. QED
      BY <1>1, <1>2, <1>6, <2>1, <2>2, <3>1 DEF StoreInv, Underway, Saving
  <2>5. QED
    BY <2>3, <2>4
<1>9. QED
  BY <1>3, <1>4, <1>5, <1>7, <1>8 DEF StoreInv

\* The end of a daemon and the start of the next.
LEMMA RestartInv ==
    ASSUME StoreInv, Crash \/ Restart \/ RestartUnread
    PROVE  StoreInv'
<1>1. \A x \in Remotes : Known(x) => Known(x)'
  BY KnownStays DEF Next
<1>2. CASE Crash
  <2>1. TypeOK'
    BY <1>2, StoreAssumption DEF Crash, StoreInv, TypeOK, Empty, Contents, NothingTried
  <2>2. NeverTorn' /\ MemoryFollows' /\ DownIsQuiet'
    BY <1>2 DEF Crash, StoreInv, TypeOK, NeverTorn, MemoryFollows, DownIsQuiet
  <2>3. Underway'
    BY <1>1, <1>2 DEF Crash, StoreInv, TypeOK, Underway, Saving
  <2>4. GoneIsGone'
    <3>1. \A x \in gone : x \in Remotes /\ x \in Items
      BY DEF StoreInv, TypeOK, Items
    <3>2. QED
      BY <1>1, <1>2, <3>1 DEF Crash, StoreInv, GoneIsGone, Load, NothingTried
  <2>5. QED
    BY <2>1, <2>2, <2>3, <2>4 DEF StoreInv
<1>3. CASE Restart
  <2>1. mem' \in Contents
    BY <1>3, LoadType DEF Restart, StoreInv, TypeOK
  <2>2. TypeOK'
    BY <1>3, <2>1 DEF Restart, StoreInv, TypeOK
  <2>3. NeverTorn' /\ MemoryFollows' /\ DownIsQuiet'
    BY <1>3 DEF Restart, StoreInv, TypeOK, NeverTorn, MemoryFollows, DownIsQuiet, Load
  <2>4. Underway'
    BY <1>1, <1>3 DEF Restart, StoreInv, TypeOK, Underway, Saving, DownIsQuiet
  <2>5. GoneIsGone'
    BY <1>1, <1>3 DEF Restart, StoreInv, TypeOK, GoneIsGone, Load
  <2>6. QED
    BY <2>2, <2>3, <2>4, <2>5 DEF StoreInv
<1>4. CASE RestartUnread
  <2>1. TypeOK'
    BY <1>4 DEF RestartUnread, StoreInv, TypeOK, Empty, Contents, AllDropped
  <2>2. NeverTorn' /\ MemoryFollows' /\ DownIsQuiet'
    BY <1>4 DEF RestartUnread, StoreInv, TypeOK, NeverTorn, MemoryFollows, DownIsQuiet, Empty, AllDropped
  <2>3. Underway'
    BY <1>1, <1>4 DEF RestartUnread, StoreInv, TypeOK, Underway, Saving, DownIsQuiet
  <2>4. GoneIsGone'
    <3>1. \A x \in gone : x \in Items
      BY DEF StoreInv, TypeOK, Items
    <3>2. meta' = meta /\ gone' = gone /\ gone \subseteq Remotes /\ tried' = AllDropped
      BY <1>4 DEF RestartUnread, StoreInv, TypeOK
    <3>3. \A x \in gone : tried'[x] = {Absent}
      BY <3>1, <3>2 DEF AllDropped
    <3>4. QED
      BY <1>1, <3>2, <3>3 DEF StoreInv, GoneIsGone, Load, Empty
  <2>5. QED
    BY <2>1, <2>2, <2>3, <2>4 DEF StoreInv
<1>5. QED
  BY <1>2, <1>3, <1>4

LEMMA NextInv == StoreInv /\ [Next]_svars => StoreInv'
<1> SUFFICES ASSUME StoreInv, [Next]_svars PROVE StoreInv'
  OBVIOUS
<1>1. CASE UNCHANGED svars
  BY <1>1 DEF svars, StoreInv, TypeOK, NeverTorn, MemoryFollows, Underway, DownIsQuiet,
              GoneIsGone, Known, Load
<1>2. CASE Next
  BY <1>2, CallInv, AnswerInv, ChangeInv, WriteInv, RenameInv, RestartInv DEF Next
<1>3. QED
  BY <1>1, <1>2

LEMMA InvHolds == Spec => []StoreInv
BY InitInv, NextInv, PTL DEF Spec

\* The store's state keeps its types, and s.mu is held exactly by the request
\* that is saving: no error path of a save leaves the store locked.
THEOREM StoreTyped == Spec => []TypeOK
BY InvHolds, PTL DEF StoreInv

\* metadata.json is never half-written, whatever write fails and whenever the
\* daemon is killed.
THEOREM StoreNeverTorn == Spec => []NeverTorn
BY InvHolds, PTL DEF StoreInv

\* A remote whose deletion was acknowledged is in no later memory and in no
\* later file.
THEOREM StoreDeletes == Spec => []NoResurrection
<1>1. StoreInv => NoResurrection
  <2> SUFFICES ASSUME StoreInv, NEW x \in gone
               PROVE  Load(meta)[x] = Absent /\ (up => mem[x] = Absent)
    BY DEF NoResurrection
  <2>1. x \in Items
    BY DEF StoreInv, TypeOK, Items
  <2>2. QED
    BY <2>1 DEF StoreInv, GoneIsGone, MemoryFollows
<1>2. QED
  BY <1>1, InvHolds, PTL

\* The mutex has the right holder, the file is whole and what was deleted stays
\* deleted, through failing writes, kills and racing requests.
THEOREM StoreIsSafe == Spec => []StoreSafe
BY StoreTyped, StoreNeverTorn, StoreDeletes, PTL DEF StoreSafe

\* A step of the store is a step of DurableStore or changes nothing there.
LEMMA StepRefines ==
    ASSUME StoreInv, [Next]_svars
    PROVE  [Durable!DurableNext]_(Durable!dvars)
<1> USE DEF Durable!dvars
<1>1. CASE UNCHANGED svars
  BY <1>1 DEF svars, Load
<1>2. ASSUME NEW r \in Requests,
             SetKeyMetadata(r) \/ AddRemote(r) \/ Delete(r) \/ UpdateRemote(r) \/ Connect(r)
      PROVE  UNCHANGED Durable!dvars
  BY <1>2 DEF SetKeyMetadata, AddRemote, Delete, DeleteKeyMetadata, DeleteRemote, UpdateRemote, Connect, Ready, Load
<1>3. ASSUME NEW r \in Requests, Refuse(r) \/ SaveFails(r)
      PROVE  UNCHANGED Durable!dvars
  <2>1. reply[r] = "none"
    BY <1>3 DEF Refuse, SaveFails, StoreInv, Underway
  <2>2. reply' = [reply EXCEPT ![r] = "error"] /\ UNCHANGED <<meta, tried>>
    BY <1>3 DEF Refuse, SaveFails, Answer
  <2>3. {q \in Requests : reply[q] = "ok"}' = {q \in Requests : reply[q] = "ok"}
    BY <2>1, <2>2 DEF StoreInv, TypeOK
  <2>4. QED
    BY <2>2, <2>3 DEF Load
<1>4. ASSUME NEW r \in Requests, Change(r)
      PROVE  Durable!DurableNext
  <2>1. item[r] \in Items /\ NewValue(r) \in Values \union {Absent}
    BY <1>4, ChangeInv DEF StoreInv, TypeOK
  <2>2. Durable!Try(item[r], NewValue(r))
    BY <1>4 DEF Change, Durable!Try, Load
  <2>3. QED
    BY <2>1, <2>2 DEF Durable!DurableNext
<1>5. ASSUME NEW r \in Requests, SaveOpen(r) \/ SaveWrite(r)
      PROVE  UNCHANGED Durable!dvars
  BY <1>5 DEF SaveOpen, SaveWrite, Load
<1>6. ASSUME NEW r \in Requests, SaveRename(r)
      PROVE  Durable!DurableNext
  <2>1. meta' = mem /\ up /\ pc[r] = "rename"
    BY <1>6 DEF SaveRename, StoreInv, Underway, DownIsQuiet
  <2>2. Load(meta') = mem
    BY <2>1, LoadType DEF StoreInv, TypeOK
  <2>3. Load(meta)' = mem
    BY <2>2 DEF Load
  <2>4. item[r] \in Items /\ mem[item[r]] \in Values \union {Absent}
    BY DEF StoreInv, TypeOK, Contents
  <2>5. mem[item[r]] \in tried[item[r]]
    BY <2>1 DEF StoreInv, Underway, Saving
  <2>6. \A y \in Items : mem[y] \in {Load(meta)[y]} \union tried[y]
    BY <2>1 DEF StoreInv, MemoryFollows
  <2>7. {q \in Requests : reply[q] = "ok"}' = {q \in Requests : reply[q] = "ok"} \union {r}
    BY <1>6 DEF SaveRename, Answer, StoreInv, TypeOK
  <2>8. tried' = Durable!NothingTried
    BY <1>6 DEF SaveRename, NothingTried, Durable!NothingTried
  <2>9. mem \in [Items -> Values \union {Absent}]
    BY DEF StoreInv, TypeOK, Contents
  <2>10. Durable!Persist(r, item[r], mem[item[r]])
    BY <2>3, <2>5, <2>6, <2>7, <2>8, <2>9 DEF Durable!Persist
  <2>11. QED
    BY <2>4, <2>10 DEF Durable!DurableNext, Durable!Persist
<1>7. CASE Crash
  <2>1. Durable!Forget
    BY <1>7 DEF Crash, Durable!Forget, NothingTried, Durable!NothingTried, Load
  <2>2. QED
    BY <2>1 DEF Durable!DurableNext
<1>8. CASE Restart
  BY <1>8 DEF Restart, Load
<1>9. CASE RestartUnread
  <2>1. Durable!StartEmpty
    BY <1>9 DEF RestartUnread, Durable!StartEmpty, AllDropped, Load
  <2>2. QED
    BY <2>1 DEF Durable!DurableNext
<1>10. QED
  BY <1>1, <1>2, <1>3, <1>4, <1>5, <1>6, <1>7, <1>8, <1>9 DEF Next

\* The store implements DurableStore: an acknowledged change is what the file
\* holds and a restart that can read it finds.  An entry changes only in a save,
\* to a value that some request tried to give it, or is lost after a restart
\* that could not read the file.
THEOREM StoreIsDurable == Spec => DurableSpec
<1>1. Init => Durable!DurableInit
  BY DEF Init, Durable!DurableInit, Load, Empty, NothingTried, Durable!NothingTried
<1>2. StoreInv /\ [Next]_svars => [Durable!DurableNext]_(Durable!dvars)
  BY StepRefines
<1>3. QED
  BY <1>1, <1>2, InvHolds, PTL DEF Spec, DurableSpec, Durable!DurableSpec
--------------------------------------------------------------------------------
(* The reads.                                                                *)

\* What the memory of a running daemon holds differs from the file only in items
\* that are being saved, and in items of which a request has failed.
DiffersByFailure ==
    up => \A x \in Items : mem[x] # Absent =>
             \/ mem[x] = Load(meta)[x]
             \/ \E r \in Requests : item[r] = x /\ (pc[r] \in Saving \/ reply[r] = "error")

\* Reads change nothing of the store.
LEMMA ReadsLeaveStore == ReadSpec => Spec
<1>1. ReadInit => Init
  BY DEF ReadInit
<1>2. [ReadNext]_readVars => [Next]_svars
  BY DEF ReadNext, readVars, GetKeyMetadata, GetRemoteServer, ListKeyMetadata,
         ListRemoteServers, Read
<1>3. QED
  BY <1>1, <1>2, PTL DEF ReadSpec, Spec

\* Every step of the store explains where memory and file differ.
LEMMA DiffersStep ==
    ASSUME StoreInv, DiffersByFailure, [Next]_svars
    PROVE  DiffersByFailure'
<1> SUFFICES ASSUME up', NEW x \in Items, mem'[x] # Absent
             PROVE  \/ mem'[x] = Load(meta)'[x]
                    \/ \E q \in Requests : item'[q] = x /\ (pc'[q] \in Saving \/ reply'[q] = "error")
  BY DEF DiffersByFailure, Load
<1>1. CASE UNCHANGED svars
  BY <1>1 DEF svars, DiffersByFailure, Load
<1>2. ASSUME NEW r \in Requests,
             SetKeyMetadata(r) \/ AddRemote(r) \/ Delete(r) \/ UpdateRemote(r) \/ Connect(r)
      PROVE  \/ mem'[x] = Load(meta)'[x]
             \/ \E q \in Requests : item'[q] = x /\ (pc'[q] \in Saving \/ reply'[q] = "error")
  <2>1. /\ UNCHANGED <<mem, meta, up, item, reply>>
        /\ pc[r] = "new" /\ pc' = [pc EXCEPT ![r] = "ready"]
    BY <1>2 DEF SetKeyMetadata, AddRemote, Delete, DeleteKeyMetadata, DeleteRemote,
                UpdateRemote, Connect, Ready
  <2>2. \A q \in Requests : pc[q] \in Saving => pc'[q] \in Saving
    BY <2>1 DEF StoreInv, TypeOK, Saving
  <2>3. QED
    BY <2>1, <2>2 DEF DiffersByFailure, Load
<1>3. ASSUME NEW r \in Requests, Refuse(r) \/ SaveFails(r)
      PROVE  \/ \E q \in Requests : item'[q] = x /\ (pc'[q] \in Saving \/ reply'[q] = "error")
             \/ mem'[x] = Load(meta)'[x]
  <2>1. /\ UNCHANGED <<mem, meta, up, item>>
        /\ pc' = [pc EXCEPT ![r] = "done"]
        /\ reply' = [reply EXCEPT ![r] = "error"]
    BY <1>3 DEF Refuse, SaveFails, Answer
  <2>2. \A q \in Requests : pc[q] \in Saving \/ reply[q] = "error" =>
                            pc'[q] \in Saving \/ reply'[q] = "error"
    BY <2>1 DEF StoreInv, TypeOK
  <2>3. QED
    BY <2>1, <2>2 DEF DiffersByFailure, Load
<1>4. ASSUME NEW r \in Requests, Change(r)
      PROVE  \/ mem'[x] = Load(meta)'[x]
             \/ \E q \in Requests : item'[q] = x /\ (pc'[q] \in Saving \/ reply'[q] = "error")
  <2>1. /\ UNCHANGED <<meta, up, item, reply>>
        /\ pc' = [pc EXCEPT ![r] = "open"]
        /\ mem' = [mem EXCEPT ![item[r]] = NewValue(r)]
    BY <1>4 DEF Change
  <2>2. CASE x = item[r]
    BY <2>1, <2>2 DEF StoreInv, TypeOK, Saving
  <2>3. CASE x # item[r]
    <3>1. mem'[x] = mem[x]
      BY <2>1, <2>3 DEF StoreInv, TypeOK, Contents
    <3>2. \A q \in Requests : pc[q] \in Saving => pc'[q] \in Saving
      BY <2>1 DEF StoreInv, TypeOK, Saving
    <3>3. QED
      BY <2>1, <3>1, <3>2 DEF DiffersByFailure, Load
  <2>4. QED
    BY <2>2, <2>3
<1>5. ASSUME NEW r \in Requests, SaveOpen(r) \/ SaveWrite(r)
      PROVE  \/ mem'[x] = Load(meta)'[x]
             \/ \E q \in Requests : item'[q] = x /\ (pc'[q] \in Saving \/ reply'[q] = "error")
  <2>1. /\ UNCHANGED <<mem, meta, up, item, reply>>
        /\ \A q \in Requests : pc[q] \in Saving => pc'[q] \in Saving
    BY <1>5 DEF SaveOpen, SaveWrite, StoreInv, TypeOK, Saving
  <2>2. QED
    BY <2>1 DEF DiffersByFailure, Load
<1>6. ASSUME NEW r \in Requests, SaveRename(r)
      PROVE  mem'[x] = Load(meta)'[x]
  <2>1. meta' = mem /\ mem' = mem
    BY <1>6 DEF SaveRename, StoreInv, Underway
  <2>2. QED
    BY <2>1, LoadType DEF StoreInv, TypeOK, Load
<1>7. CASE Crash
  BY <1>7 DEF Crash
<1>8. CASE Restart
  BY <1>8 DEF Restart, Load
<1>9. CASE RestartUnread
  BY <1>9 DEF RestartUnread, Empty
<1>10. QED
  BY <1>1, <1>2, <1>3, <1>4, <1>5, <1>6, <1>7, <1>8, <1>9 DEF Next

\* A read that gets the lock answers nothing that a failure does not explain.
LEMMA ReadIsDurable ==
    ASSUME StoreInv, DiffersByFailure, NEW items \in SUBSET Items, Read(items)
    PROVE  AnswersDurable'
<1> SUFFICES ASSUME NEW x \in DOMAIN answer'
             PROVE  \/ answer'[x] = Load(meta)'[x]
                    \/ \E r \in Requests : item'[r] = x /\ reply'[r] = "error"
  BY DEF AnswersDurable, Load
<1>1. x \in Items /\ answer'[x] = mem[x] /\ mem[x] # Absent
  BY DEF Read, Entries
<1>2. up /\ \A r \in Requests : pc[r] \notin Saving
  BY StoreAssumption DEF Read, StoreInv, TypeOK, Saving
<1>3. UNCHANGED <<meta, item, reply>>
  BY DEF Read, svars
<1>4. QED
  BY <1>1, <1>2, <1>3 DEF DiffersByFailure, Load

\* The entries that a reading request is answered are those of the file, but for
\* items of which a request was answered with an error.
THEOREM ReadsAreDurable == ReadSpec => []AnswersDurable
<1> DEFINE Inv == StoreInv /\ DiffersByFailure /\ AnswersDurable
<1>1. ReadInit => Inv
  <2> SUFFICES ASSUME ReadInit PROVE Inv
    OBVIOUS
  <2>1. StoreInv
    BY InitInv DEF ReadInit
  <2>2. DiffersByFailure
    BY DEF ReadInit, Init, DiffersByFailure, Load
  <2>3. AnswersDurable
    BY DEF ReadInit, None, AnswersDurable
  <2>4. QED
    BY <2>1, <2>2, <2>3
<1>2. Inv /\ [ReadNext]_readVars => Inv'
  <2> SUFFICES ASSUME Inv, [ReadNext]_readVars PROVE Inv'
    OBVIOUS
  <2>1. [Next]_svars
    BY DEF ReadNext, readVars, GetKeyMetadata, GetRemoteServer, ListKeyMetadata,
           ListRemoteServers, Read
  <2>2. StoreInv' /\ DiffersByFailure'
    BY <2>1, NextInv, DiffersStep
  <2>3. ASSUME UNCHANGED readVars PROVE AnswersDurable'
    BY <2>3 DEF readVars, svars, AnswersDurable, Load
  <2>4. ASSUME answer' = None PROVE AnswersDurable'
    BY <2>4 DEF None, AnswersDurable
  <2>5. ASSUME NEW items \in SUBSET Items, Read(items) PROVE AnswersDurable'
    BY <2>5, ReadIsDurable
  <2>6. ASSUME NEW x \in Items, GetKeyMetadata(x) \/ GetRemoteServer(x) PROVE AnswersDurable'
    <3>1. {x} \in SUBSET Items /\ Read({x})
      BY <2>6 DEF GetKeyMetadata, GetRemoteServer
    <3>2. QED
      BY ONLY <2>5, <3>1
  <2>7. ASSUME ListKeyMetadata \/ ListRemoteServers PROVE AnswersDurable'
    <3>1. KeyPaths \in SUBSET Items /\ Remotes \in SUBSET Items
      BY DEF Items
    <3>2. Read(KeyPaths) \/ Read(Remotes)
      BY <2>7 DEF ListKeyMetadata, ListRemoteServers
    <3>3. QED
      BY ONLY <2>5, <3>1, <3>2
  <2>8. QED
    BY <2>2, <2>3, <2>4, <2>6, <2>7 DEF ReadNext
<1>3. Inv => AnswersDurable
  OBVIOUS
<1>4. QED
  BY <1>1, <1>2, <1>3, PTL DEF ReadSpec

\* With its readers the store is as safe as without them ...
THEOREM ReadStoreIsSafe == ReadSpec => []StoreSafe
BY ReadsLeaveStore, StoreIsSafe, PTL

\* ... and implements DurableStore.
THEOREM ReadStoreIsDurable == ReadSpec => DurableSpec
BY ReadsLeaveStore, StoreIsDurable, PTL

================================================================================
