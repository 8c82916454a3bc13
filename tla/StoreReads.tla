------------------------------- MODULE StoreReads -------------------------------
(***************************************************************************)
(* The requests that read the store of module Store: they copy entries of  *)
(* the map under the read lock of s.mu, so between two changes, and answer *)
(* from memory, not from the file.                                         *)
(***************************************************************************)
EXTENDS Store

VARIABLE answer    \* what the last step answered: items with their values

readVars == <<svars, answer>>

None == [x \in {} |-> Absent]

\* What is in the map of these items.
Entries(items) == [x \in {y \in items : mem[y] # Absent} |-> mem[x]]

\* Mutant: the read lock is not taken.
ReadUnlocked(items) ==
    /\ up
    /\ answer' = Entries(items)
    /\ UNCHANGED svars

\* s.mu.RLock waits for a change that is being saved.
Read(items) ==
    /\ up
    /\ mu = Nobody
    /\ answer' = Entries(items)
    /\ UNCHANGED svars

\* GetKeyMetadata and GetRemoteServer; "not found" is the empty answer.
GetKeyMetadata(x) == x \in KeyPaths /\ Read({x})
GetRemoteServer(x) == x \in Remotes /\ Read({x})

ListKeyMetadata == Read(KeyPaths)
ListRemoteServers == Read(Remotes)

ReadInit == Init /\ answer = None

ReadNext ==
    \/ Next /\ answer' = None
    \/ \E x \in Items : GetKeyMetadata(x) \/ GetRemoteServer(x)
    \/ ListKeyMetadata \/ ListRemoteServers

ReadSpec == ReadInit /\ [][ReadNext]_readVars
--------------------------------------------------------------------------------
\* The user is shown no entry that a restart would lose or change: an entry
\* that is answered is the one in metadata.json, unless a request about it has
\* failed.  That an entry is answered at all is not promised: a daemon that
\* could not read the file answers none of its entries.
AnswersDurable ==
    \A x \in DOMAIN answer :
       answer[x] = Load(meta)[x] \/ \E r \in Requests : item[r] = x /\ reply[r] = "error"
================================================================================
