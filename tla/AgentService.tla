------------------------------ MODULE AgentService ------------------------------
(***************************************************************************)
(* agent.Service and the AgentService handlers (skeys-core/agent/agent.go, *)
(* skeys-daemon/internal/adapter/agent.go) on top of the managed agent.    *)
(* Except for AddKeyToAgent, which calls the agent directly, a handler     *)
(* dials the agent's socket and then sends its request: the lock and the   *)
(* keys may change between its steps.  The socket (another daemon may have *)
(* removed it) and the key file are met once in a call, as inputs.         *)
(*                                                                         *)
(* Each client of ManagedAgent makes one call, of any kind.                *)
(***************************************************************************)
EXTENDS ManagedAgent, FiniteSets

CONSTANTS
    BadFile   \* a key file that is missing or that ParseRawPrivateKey rejects

VARIABLES
    call,     \* call[c]: the handler of c
    moments   \* history: moments[c] are the states the call of c has met

svcVars == <<call, moments>>
serviceVars == <<avars, svcVars>>

Free == [op |-> "none", stage |-> "free"]
Ok == [ok |-> TRUE]
Error == [ok |-> FALSE, reached |-> TRUE]      \* the agent refused
NotReached == [ok |-> FALSE, reached |-> FALSE]

\* What a request to the agent could find.
Moment == [locked |-> locked, held |-> held]

ServiceInit ==
    /\ AgentInit
    /\ call = [c \in Clients |-> Free]
    /\ moments = [c \in Clients |-> {}]

Idle(c) == call[c] = Free /\ removing[c] = {} /\ outcome[c] = "none"

JustAnswered(c) ==
    call[c].stage = "done" \/ (call[c].op = "remove" /\ outcome[c] # "none")

\* A call whose answer has been looked at is forgotten.
Over == [op |-> "none", stage |-> "over"]

\* What every step makes of the calls that it does not serve.
Rested == [c \in Clients |-> IF JustAnswered(c) THEN Over ELSE call[c]]

Answer(c, op, reply) ==
    call' = [Rested EXCEPT ![c] = [op |-> op, stage |-> "done", reply |-> reply]]
--------------------------------------------------------------------------------
\* The requests that are one dial and one request each.
SocketOps == {"status", "list", "remove_all", "lock", "unlock", "sign"}

\* connect: no socket, no connection.  Status finds the same with os.Stat, the
\* socket mode and net.Dial, and answers that the agent is not running.
Connect(c, op, socket) ==
    /\ Idle(c)
    /\ IF socket
       THEN call' = [Rested EXCEPT ![c] = [op |-> op, stage |-> "connected"]]
       ELSE Answer(c, op, IF op = "status"
                          THEN [running |-> FALSE, locked |-> FALSE, count |-> 0]
                          ELSE NotReached)
    /\ UNCHANGED avars

Connected(c, op) == call[c] = [op |-> op, stage |-> "connected"]

\* External: the text of the client's error for a refused List.  Status looks
\* for the word "locked" in it, which the agent protocol does not transmit; the
\* model leaves open whether the library puts it there.
FailureTexts == {"locked", "other"}

\* Status, the List request.
StatusAnswer(text) ==
    [running |-> TRUE,
     locked  |-> locked /\ text = "locked",
     count   |-> IF locked THEN 0 ELSE Cardinality(held)]

GetAgentStatus(c) ==
    /\ Connected(c, "status")
    /\ \E text \in FailureTexts : Answer(c, "status", StatusAnswer(text))
    /\ UNCHANGED avars

\* ManagedAgent.List
List == IF locked THEN Error ELSE [ok |-> TRUE, keys |-> held]

\* Service.ListKeys: the fingerprints of what List returned.
ListKeys(c) == Answer(c, "list", List) /\ UNCHANGED avars

ListAgentKeys(c) == Connected(c, "list") /\ ListKeys(c)

\* The RemoveAll, Lock and Unlock of agent.Service, and their handlers.
ServiceRemoveAll(c) ==
    \/ RemoveAll /\ Answer(c, "remove_all", Ok)
    \/ locked /\ Answer(c, "remove_all", Error) /\ UNCHANGED avars

ServiceLock(c, p) ==
    \/ Lock(p) /\ Answer(c, "lock", Ok)
    \/ locked /\ Answer(c, "lock", Error) /\ UNCHANGED avars

ServiceUnlock(c, p) ==
    \/ Unlock(p) /\ Answer(c, "unlock", Ok)
    \/ ~locked /\ Answer(c, "unlock", Error) /\ UNCHANGED avars
    \/ p # lockPass /\ Answer(c, "unlock", Error) /\ UNCHANGED avars

RemoveAllKeysFromAgent(c) == Connected(c, "remove_all") /\ ServiceRemoveAll(c)
LockAgent(c, p) == Connected(c, "lock") /\ ServiceLock(c, p)
UnlockAgent(c, p) == Connected(c, "unlock") /\ ServiceUnlock(c, p)

\* SignWithFlags, for an ssh client on the agent's socket; the flags only choose
\* the algorithm.
Sign(c, k) ==
    /\ Connected(c, "sign")
    /\ Answer(c, "sign", IF ~locked /\ k \in held THEN [ok |-> TRUE, by |-> k]
                                                  ELSE Error)
    /\ UNCHANGED avars
--------------------------------------------------------------------------------
\* AddKeyToAgent reads and parses the private key file, ...
AddRead(c, file, timeout) ==
    /\ Idle(c)
    /\ IF file \in Keys
       THEN call' = [Rested EXCEPT ![c] = [op |-> "add", stage |-> "parsed",
                                         key |-> file, timeout |-> timeout]]
       ELSE Answer(c, "add", NotReached)
    /\ UNCHANGED avars

\* Mutant: the answer of the agent is ignored.
AddDirectUnchecked(c) ==
    /\ call[c].op = "add" /\ call[c].stage = "parsed"
    /\ \/ Add(call[c].key, call[c].timeout)
       \/ locked /\ UNCHANGED avars
    /\ Answer(c, "add", [ok |-> TRUE, key |-> call[c].key])

\* ... and hands the key to the managed agent with AddKeyDirect.
AddDirect(c) ==
    /\ call[c].op = "add" /\ call[c].stage = "parsed"
    /\ \/ /\ Add(call[c].key, call[c].timeout)
          /\ Answer(c, "add", [ok |-> TRUE, key |-> call[c].key])
       \/ /\ locked
          /\ Answer(c, "add", Error)
          /\ UNCHANGED avars

\* RemoveKeyFromAgent -> RemoveKeyByFingerprint: connect, List, Remove.
RemoveConnectFails(c) ==
    /\ Idle(c)
    /\ Answer(c, "remove", NotReached)
    /\ UNCHANGED avars

RemoveKeyFromAgent(c) ==
    /\ \/ /\ Idle(c)
          /\ \E k \in Keys :
                /\ RemoveList(c, k)
                /\ call' = [Rested EXCEPT ![c] = [op |-> "remove", stage |-> "listed",
                                                key |-> k]]
       \/ RemoveFound(c) /\ call' = Rested
--------------------------------------------------------------------------------
Agent ==
    /\ \/ \E k \in Keys : (\E t \in Timeouts : Add(k, t)) \/ Remove(k)
       \/ RemoveAll
       \/ \E p \in Passphrases : Lock(p) \/ Unlock(p)
       \/ ExpireKeys
       \/ Advance
    /\ call' = Rested

Handler(c) ==
    \/ \E op \in SocketOps, socket \in BOOLEAN : Connect(c, op, socket)
    \/ GetAgentStatus(c)
    \/ ListAgentKeys(c)
    \/ RemoveAllKeysFromAgent(c)
    \/ \E p \in Passphrases : LockAgent(c, p) \/ UnlockAgent(c, p)
    \/ \E k \in Keys : Sign(c, k)
    \/ \E file \in Keys \union {BadFile}, t \in Timeouts : AddRead(c, file, t)
    \/ AddDirect(c)
    \/ RemoveConnectFails(c)
    \/ RemoveKeyFromAgent(c)

\* The states before and after every step of the system are moments of the
\* calls under way.  They are kept until the answer has been looked at.
Record ==
    moments' = [c \in Clients |->
                   IF JustAnswered(c) \/ (Idle(c) /\ Idle(c)') THEN {}
                   ELSE moments[c] \union {Moment, Moment'}]

ServiceNext == (Agent \/ \E c \in Clients : Handler(c)) /\ Record

ServiceSpec == ServiceInit /\ [][ServiceNext]_serviceVars
--------------------------------------------------------------------------------
Replies ==
    [ok : {TRUE}] \union [ok : {FALSE}, reached : BOOLEAN]
    \union [ok : {TRUE}, keys : SUBSET Keys]
    \union [ok : {TRUE}, by : Keys] \union [ok : {TRUE}, key : Keys]
    \union [running : BOOLEAN, locked : BOOLEAN, count : Nat]

ServiceTypeOK ==
    /\ AgentTypeOK
    /\ \A c \in Clients :
          /\ call[c].op \in SocketOps \union {"none", "add", "remove"}
          /\ call[c].stage = "done" => call[c].reply \in Replies

\* Right(op, r, s): r is what the state s has to say to a reading call.
Right(op, r, s) ==
    CASE op = "status" -> r.running =>
            /\ r.locked => s.locked
            /\ r.count = IF s.locked THEN 0 ELSE Cardinality(s.held)
      [] op = "list" -> IF r.ok THEN ~s.locked /\ r.keys = s.held
                                ELSE r.reached => s.locked
      [] op = "sign" -> r.ok => ~s.locked /\ r.by \in s.held
      [] OTHER -> TRUE

\* GetAgentStatus, ListAgentKeys and Sign: what a client reads was true, all of
\* it together, at one moment of its call, and nothing is signed or listed for
\* a locked agent.
ReadsMeetAMoment ==
    \A c \in Clients :
       call[c].stage = "done" =>
          \E s \in moments[c] : Right(call[c].op, call[c].reply, s)

\* Done(op, r, s): the effect that a call of op reports with r is there in s.
Done(op, r, s) ==
    CASE op = "add" -> r.key \in s.held
      [] op = "remove_all" -> s.held = {}
      [] op = "lock" -> s.locked
      [] op = "unlock" -> ~s.locked

\* A success means that what was asked for held at a moment of S, and a refusal
\* that the agent was locked at one (Unlock: or the passphrase was wrong).
ChangeTold(op, r, S) ==
    op \in {"add", "remove_all", "lock", "unlock"} =>
       IF r.ok THEN \E s \in S : Done(op, r, s)
       ELSE r.reached /\ op # "unlock" => \E s \in S : s.locked

\* The same of RemoveKeyFromAgent.  Its "not found" means that somebody else
\* took the key out between its List and its Remove.
RemovalTold(k, result, S) ==
    /\ result \in {"ok", "not found"} => \E s \in S : k \notin s.held
    /\ result = "locked" => \E s \in S : s.locked
    /\ result = "not found" => \E s \in S : k \in s.held

\* The calls that change the agent: what they answer was so at a moment of the
\* call, though keys and lock change under the handler.
AnswersTrue ==
    \A c \in {d \in Clients : JustAnswered(d)} :
       IF call[c].stage = "done" THEN ChangeTold(call[c].op, call[c].reply, moments[c])
                                ELSE RemovalTold(call[c].key, outcome[c], moments[c])

\* Every answer of the agent's service, reading or changing, is true of a moment
\* of its call, although each handler takes the agent's mutex several times.
AnswersHold == ServiceTypeOK /\ ReadsMeetAMoment /\ AnswersTrue
================================================================================
