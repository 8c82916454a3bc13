------------------------------- MODULE KeyService -------------------------------
(***************************************************************************)
(* KeyService: the key files with their watcher and the agent, and the     *)
(* pushing of keys to remote hosts.  The two share no state that either    *)
(* changes, so a behaviour exercises one of them.                          *)
(***************************************************************************)
EXTENDS PushKey, KeyWatcher

VARIABLE part   \* what this behaviour is about

svars == <<kvars, pvars, part>>

Init ==
    /\ part \in {"files", "push"}
    /\ WatchInit
    /\ PushInit
    /\ part = "files" => lines = <<>>
    /\ part = "push" => \A n \in Names : priv[n] = NoFile

Next ==
    \/ part = "files" /\ WatchNext /\ UNCHANGED <<pvars, part>>
    \/ part = "push" /\ PushNext /\ UNCHANGED <<kvars, part>>

Spec == Init /\ [][Next]_svars
--------------------------------------------------------------------------------
FileTypeOK(f) == f.k \in {"none", "cut", "key"}

\* Types; a sendUpdate that has listed holds a list, and nothing is shown before
\* the loop has got to its first list.
TypeOK ==
    /\ part \in {"files", "push"}
    /\ LockTypeOK
    /\ held \subseteq Keys
    /\ \A n \in Names : FileTypeOK(priv[n]) /\ FileTypeOK(pub[n])
    /\ answer \in [Calls -> {"none", "ok", "error"}]
    /\ doubt \subseteq Names
    /\ told <= changes
    /\ \A u \in Updates : update[u].at \in {"listed", "sent"} <=> update[u].list.k = "list"
    /\ (shown.k = "list") => loop = "waiting"

\* No key is lost and none is left behind: a key nobody deletes keeps its file,
\* and a deleted one leaves the agent.
KeysSafe == TypeOK /\ DeletedLeavesAgent /\ KeySurvives
================================================================================
