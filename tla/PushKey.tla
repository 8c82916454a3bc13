--------------------------------- MODULE PushKey --------------------------------
(***************************************************************************)
(* PushKeyToRemote (skeys-daemon/internal/adapter/keys.go): a script run   *)
(* over a pooled connection appends a public key to authorized_keys on the *)
(* remote host unless the key is there.  Execute holds the connection's    *)
(* lock for the whole command, so scripts run one after the other; the     *)
(* connection may be lost before a script runs or before its answer comes  *)
(* back, and the user tries again.                                         *)
(*                                                                         *)
(* A line of the file is the sequence of key texts on it.  sshd reads the  *)
(* first and takes the rest of the line for a comment.                     *)
(***************************************************************************)
EXTENDS Naturals, Sequences, Functions

CONSTANTS
    PushKeys,    \* keys in ~/.ssh, by fingerprint
    OtherKey,    \* a key that the remote file may hold before, and no key of ours
    MaxPushes    \* bound: requests made

VARIABLES
    lines,      \* authorized_keys on the remote host
    eol,        \* it ends with a newline, or is empty
    connected,  \* the pool has a connection for the remote
    pushes,     \* requests made
    pushed      \* history: keys that a request reported as pushed

pvars == <<lines, eol, connected, pushes, pushed>>

\* The remote file is empty, or holds a line that is ended properly.
PushInit ==
    /\ lines \in {<<>>, <<<<OtherKey>>>>}
    /\ eol = TRUE
    /\ connected = FALSE
    /\ pushes = 0
    /\ pushed = {}

Text == UNION {Range(lines[i]) : i \in DOMAIN lines}

\* What sshd accepts; external.
Authorised == {lines[i][1] : i \in DOMAIN lines}

\* Mutant: the script appends without looking.
ScriptBlind(k) == [exists |-> FALSE,
                   lines |-> IF eol THEN Append(lines, <<k>>) ELSE [lines EXCEPT ![Len(lines)] = Append(@, k)],
                   eol |-> FALSE]

\* The script: grep -F finds the text anywhere, printf '%s' ends no line.
Script(k) ==
    IF k \in Text THEN [exists |-> TRUE, lines |-> lines, eol |-> eol]
    ELSE [exists |-> FALSE,
          lines |-> IF eol THEN Append(lines, <<k>>) ELSE [lines EXCEPT ![Len(lines)] = Append(@, k)],
          eol |-> FALSE]

Request == pushes < MaxPushes /\ pushes' = pushes + 1

\* The script ran; answered, or not: then the request reports a failure.
PushKeyToRemote(k) ==
    /\ Request
    /\ connected
    /\ LET s == Script(k) IN lines' = s.lines /\ eol' = s.eol
    /\ \/ pushed' = pushed \union {k} /\ UNCHANGED connected
       \/ connected' = FALSE /\ UNCHANGED pushed

\* findConnectionByRemoteID finds none.
PushRefused ==
    /\ Request
    /\ ~connected
    /\ UNCHANGED <<lines, eol, connected, pushed>>

\* Execute fails before the script has run.
PushFails ==
    /\ Request
    /\ connected /\ connected' = FALSE
    /\ UNCHANGED <<lines, eol, pushed>>

Connect ==
    /\ ~connected
    /\ connected' = TRUE
    /\ UNCHANGED <<lines, eol, pushes, pushed>>

PushNext == (\E k \in PushKeys : PushKeyToRemote(k)) \/ PushRefused \/ PushFails \/ Connect

PushSpec == PushInit /\ [][PushNext]_pvars
--------------------------------------------------------------------------------
\* However often a push is repeated after a lost answer, the file holds the
\* key once.
PushedOnce ==
    /\ pushed \subseteq Text
    /\ \A i, j \in DOMAIN lines : \A p \in DOMAIN lines[i], q \in DOMAIN lines[j] :
          lines[i][p] = lines[j][q] => i = j /\ p = q

\* Pushing a key, again after a lost answer too, leaves it in the file once and
\* takes nobody's access away.
PushSafe == [][PushedOnce' /\ Authorised \subseteq Authorised']_pvars
================================================================================
