-------------------------------- MODULE KeyFiles --------------------------------
(***************************************************************************)
(* KeyService on the key files of ~/.ssh (skeys-core/keys/service.go and   *)
(* keygen.go, skeys-daemon/internal/adapter/keys.go), together with the    *)
(* managed agent: GenerateKey, DeleteKey, ChangePassphrase and             *)
(* AddKeyToAgent.  The service has no lock, so the steps of calls on one   *)
(* name interleave; os.WriteFile cuts the file before it fills it.         *)
(*                                                                         *)
(* doubt and alone are history: doubt holds the names left to luck by a    *)
(* crash, a failed write or calls that overlapped on the name.             *)
(***************************************************************************)
EXTENDS ManagedAgent, Functions, FiniteSets

CONSTANTS
    Names,        \* key names; all valid, see Delete and Generate
    KeyPasses,    \* passphrases of private keys, "" for none
    KeyKinds,     \* proto key types that requests ask for
    MaxAccidents  \* bound: crashes of the daemon, and writes, removals, listings and
                  \* connections to the agent that fail

VARIABLES
    priv,       \* priv[n], pub[n]: the files n and n.pub
    pub,
    kpc,        \* kpc[c]: where call c is
    req,        \* req[c]: its request
    mem,        \* mem[c]: the key it has generated, read or fingerprinted
    answer,     \* answer[c]
    accidents,
    promised,   \* history: promised[n], what the last answers say n holds
    doubt,
    alone,      \* alone[c]: no call on the same name has overlapped c
    gone        \* history: keys whose files and agent entry Delete removed

fileVars == <<priv, pub>>
callVars == <<kpc, req, mem, answer>>
histVars == <<promised, doubt, alone, gone>>
kfvars == <<fileVars, callVars, histVars, accidents>>

Calls == Clients

NoFile == [k |-> "none"]
Cut == [k |-> "cut"]    \* created or truncated, and not yet written
NoKey == [k |-> "none"]

--------------------------------------------------------------------------------
(* What is read of the files. *)

\* fromProtoKeyType: an unspecified type asks for ed25519.
FromProtoKeyType(kind) ==
    CASE kind = "RSA" -> "rsa" [] kind = "ECDSA" -> "ecdsa"
      [] kind = "ED25519_SK" -> "ed25519-sk" [] OTHER -> "ed25519"

\* GenerateKeyPair makes no keys that live in hardware.
Generable(type) == type \in {"ed25519", "ecdsa", "rsa"}

\* The algorithm that a public key file names; external.
AlgorithmOf(type) ==
    CASE type = "rsa" -> "ssh-rsa" [] type = "ecdsa" -> "ecdsa-sha2-nistp256"
      [] type = "ed25519" -> "ssh-ed25519"

\* parseKeyType
ParseKeyType(alg) ==
    CASE alg = "ssh-rsa" -> "rsa" [] alg = "ssh-ed25519" -> "ed25519"
      [] alg = "ecdsa-sha2-nistp256" -> "ecdsa" [] OTHER -> "unknown"

\* toProtoKeyType
ToProtoKeyType(type) ==
    CASE type = "rsa" -> "RSA" [] type = "ecdsa" -> "ECDSA"
      [] type = "ed25519" -> "ED25519" [] OTHER -> "UNSPECIFIED"

\* checkHasPassphrase: a file that is missing or incomplete has none.
HasPassphrase(file) == file.k = "key" /\ file.pass # ""

\* ssh.ParseRawPrivateKey with or without a passphrase; external.  A passphrase
\* for a key that has none is an error too.
Opens(file, pass) == file.k = "key" /\ file.pass = pass

\* CalculateFingerprint: the key of a file that parses as a public key.
CalculateFingerprint(file) == IF file.k = "key" /\ "alg" \in DOMAIN file THEN {file.fp} ELSE {}

\* Fingerprint reads n.pub; when there is none it tries the private key, which
\* does not parse as a public one.
Fingerprint(n) == CalculateFingerprint(IF pub[n] = NoFile THEN priv[n] ELSE pub[n])

\* ListLoadedFingerprints: a locked agent answers with an error.
LoadedFingerprints == IF locked THEN {} ELSE held

\* isKeyInAgent
IsKeyInAgent(fps) == fps \subseteq LoadedFingerprints

\* load: an error without a complete public key.
Load(n) ==
    IF pub[n].k # "key" THEN NoKey
    ELSE [k |-> "key", fp |-> pub[n].fp, type |-> ParseKeyType(pub[n].alg),
          hasPassphrase |-> HasPassphrase(priv[n]), inAgent |-> IsKeyInAgent(Fingerprint(n))]

\* List: the names that have a file of their own and a .pub beside it.
List == [n \in Names |-> IF priv[n].k = "none" THEN NoKey ELSE Load(n)]

\* toProtoKey
ToProtoKey(key) ==
    [k |-> "key", fp |-> key.fp, kind |-> ToProtoKeyType(key.type),
     hasPassphrase |-> key.hasPassphrase, inAgent |-> key.inAgent]

\* ListKeys: what a client is shown.
ListKeys == [n \in Names |-> IF List[n] = NoKey THEN NoKey ELSE ToProtoKey(List[n])]
--------------------------------------------------------------------------------
\* NewService, on a directory that may hold keys from an earlier life.
KeyInit ==
    /\ AgentInit
    /\ \E there \in SUBSET Names, fp \in Injection(Names, Keys), pass \in [Names -> KeyPasses] :
         /\ priv = [n \in Names |-> IF n \in there THEN [k |-> "key", fp |-> fp[n], pass |-> pass[n]] ELSE NoFile]
         /\ pub = [n \in Names |-> IF n \in there THEN [k |-> "key", fp |-> fp[n], alg |-> "ssh-ed25519"] ELSE NoFile]
         /\ promised = [n \in Names |->
               IF n \in there THEN [k |-> "key", fp |-> fp[n], kind |-> "ED25519", pass |-> pass[n]] ELSE NoKey]
    /\ kpc = [c \in Calls |-> "new"]
    /\ req = [c \in Calls |-> [op |-> "none"]]
    /\ mem = [c \in Calls |-> NoKey]
    /\ answer = [c \in Calls |-> "none"]
    /\ accidents = 0
    /\ doubt = {} /\ gone = {}
    /\ alone = [c \in Calls |-> TRUE]

Active(c) == kpc[c] \notin {"new", "done"}

Goto(c, label) == kpc' = [kpc EXCEPT ![c] = label]

On(c, n) == Active(c) /\ req[c].name = n

\* A request arrives: calls on the same name are alone no more.
Arrive(c, r, label) ==
    /\ kpc[c] = "new"
    /\ Goto(c, label)
    /\ req' = [req EXCEPT ![c] = r]
    /\ alone' = [d \in Calls |-> IF d = c THEN \A e \in Calls : ~On(e, r.name)
                                 ELSE alone[d] /\ ~On(d, r.name)]
    /\ UNCHANGED <<avars, fileVars, mem, answer, promised, doubt, gone, accidents>>

\* The call answers.  It settles its name if it succeeded with no call beside
\* it; otherwise what the name holds is in doubt, unless nothing was touched.
Answer(c, a, settles, touched, content) ==
    /\ Goto(c, "done")
    /\ answer' = [answer EXCEPT ![c] = a]
    /\ LET n == req[c].name IN
       /\ promised' = [promised EXCEPT ![n] = IF a = "ok" /\ settles THEN content ELSE @]
       /\ doubt' = IF ~touched THEN doubt
                   ELSE IF a = "ok" /\ alone[c] THEN (IF settles THEN doubt \ {n} ELSE doubt)
                   ELSE doubt \union {n}

Accident == accidents < MaxAccidents /\ accidents' = accidents + 1

\* The key that a private key file would hold for call c.
MyPriv(c, pass) == [k |-> "key", fp |-> mem[c].fp, pass |-> pass]
--------------------------------------------------------------------------------
(* Generate and GenerateKeyPair. *)

GenerateKey(c, n, kind, pass) ==
    Arrive(c, [op |-> "generate", name |-> n, kind |-> kind, old |-> "", pass |-> pass], "stat")

\* Every key in use or in the making.
Used == {priv[n].fp : n \in {m \in Names : priv[m].k = "key"}}
           \union {pub[n].fp : n \in {m \in Names : pub[m].k = "key"}}
           \union {mem[c].fp : c \in {d \in Calls : mem[d].k = "key"}} \union held \union gone

\* The name is free and the type can be generated.
Generate(c) ==
    /\ kpc[c] = "stat"
    /\ priv[req[c].name] = NoFile
    /\ Generable(FromProtoKeyType(req[c].kind))
    /\ \E k \in Keys \ Used : mem' = [mem EXCEPT ![c] = [k |-> "key", fp |-> k]]
    /\ Goto(c, "openPriv")
    /\ UNCHANGED <<avars, fileVars, req, answer, histVars, accidents>>

GenerateRefused(c) ==
    /\ kpc[c] = "stat"
    /\ priv[req[c].name] # NoFile \/ ~Generable(FromProtoKeyType(req[c].kind))
    /\ Answer(c, "error", FALSE, FALSE, NoKey)
    /\ UNCHANGED <<avars, fileVars, req, mem, alone, gone, accidents>>

\* os.WriteFile of the private key: open ...
OpenPrivate(c) ==
    /\ kpc[c] = "openPriv"
    /\ priv' = [priv EXCEPT ![req[c].name] = Cut]
    /\ Goto(c, "writePriv")
    /\ UNCHANGED <<avars, pub, req, mem, answer, histVars, accidents>>

\* ... and write.
WritePrivate(c) ==
    /\ kpc[c] = "writePriv"
    /\ priv' = [priv EXCEPT ![req[c].name] = MyPriv(c, req[c].pass)]
    /\ Goto(c, "openPub")
    /\ UNCHANGED <<avars, pub, req, mem, answer, histVars, accidents>>

\* The write fails: the part that was written stays.
WritePrivateFails(c) ==
    /\ kpc[c] = "writePriv"
    /\ Accident
    /\ Answer(c, "error", FALSE, TRUE, NoKey)
    /\ UNCHANGED <<avars, fileVars, req, mem, alone, gone>>

OpenPublic(c) ==
    /\ kpc[c] = "openPub"
    /\ pub' = [pub EXCEPT ![req[c].name] = Cut]
    /\ Goto(c, "writePub")
    /\ UNCHANGED <<avars, priv, req, mem, answer, histVars, accidents>>

WritePublic(c) ==
    /\ kpc[c] = "writePub"
    /\ pub' = [pub EXCEPT ![req[c].name] =
                  [k |-> "key", fp |-> mem[c].fp, alg |-> AlgorithmOf(FromProtoKeyType(req[c].kind))]]
    /\ Goto(c, "load")
    /\ UNCHANGED <<avars, priv, req, mem, answer, histVars, accidents>>

\* The public key cannot be written: the private one is removed again.
WritePublicFails(c) ==
    /\ kpc[c] = "writePub"
    /\ Accident
    /\ priv' = [priv EXCEPT ![req[c].name] = NoFile]
    /\ Answer(c, "error", FALSE, TRUE, NoKey)
    /\ UNCHANGED <<avars, pub, req, mem, alone, gone>>

\* return s.load(ctx, opts.Name)
LoadGenerated(c) ==
    /\ kpc[c] = "load"
    /\ LET kind == ToProtoKeyType(FromProtoKeyType(req[c].kind)) IN
       Answer(c, IF Load(req[c].name) = NoKey THEN "error" ELSE "ok", TRUE, TRUE,
              [k |-> "key", fp |-> mem[c].fp, kind |-> kind, pass |-> req[c].pass])
    /\ UNCHANGED <<avars, fileVars, req, mem, alone, gone, accidents>>
--------------------------------------------------------------------------------
(* Delete: the fingerprint, the agent, the two files. *)

DeleteKey(c, n) ==
    Arrive(c, [op |-> "delete", name |-> n, kind |-> "", old |-> "", pass |-> ""], "fingerprint")

\* Without a fingerprint the agent is not asked.
TakeFingerprint(c) ==
    /\ kpc[c] = "fingerprint"
    /\ LET fps == Fingerprint(req[c].name) IN
       /\ Goto(c, IF fps = {} THEN "removePriv" ELSE "agent")
       /\ mem' = [mem EXCEPT ![c] = IF fps = {} THEN NoKey ELSE [k |-> "key", fp |-> CHOOSE k \in fps : TRUE]]
    /\ UNCHANGED <<avars, fileVars, req, answer, histVars, accidents>>

\* RemoveKeyByFingerprint: what it returns is only logged.
AskAgent(c) ==
    /\ kpc[c] = "agent"
    /\ RemoveList(c, mem[c].fp)
    /\ Goto(c, IF removing'[c] = {} THEN "removePriv" ELSE "agentFound")
    /\ UNCHANGED <<fileVars, req, mem, answer, histVars, accidents>>

\* The agent cannot be connected to, or one of the two requests fails on the way:
\* that is logged too, and the files are removed all the same.
AskAgentFails(c) ==
    /\ kpc[c] \in {"agent", "agentFound"}
    /\ Accident
    /\ removing' = [removing EXCEPT ![c] = {}]
    /\ outcome' = [outcome EXCEPT ![c] = "failed"]
    /\ Goto(c, "removePriv")
    /\ UNCHANGED <<keyVars, lockVars, timeVars, changes, fileVars, req, mem, answer, histVars>>

\* Mutant: the key is looked for and not removed.
RemoveFromAgentSkipped(c) ==
    /\ kpc[c] = "agentFound"
    /\ removing' = [removing EXCEPT ![c] = {}]
    /\ outcome' = [outcome EXCEPT ![c] = "ok"]
    /\ Goto(c, "removePriv")
    /\ UNCHANGED <<keyVars, lockVars, timeVars, changes, fileVars, req, mem, answer, histVars, accidents>>

RemoveFromAgent(c) ==
    /\ kpc[c] = "agentFound"
    /\ RemoveFound(c)
    /\ Goto(c, "removePriv")
    /\ UNCHANGED <<fileVars, req, mem, answer, histVars, accidents>>

RemovePrivate(c) ==
    /\ kpc[c] = "removePriv"
    /\ priv' = [priv EXCEPT ![req[c].name] = NoFile]
    /\ gone' = IF alone[c] /\ req[c].name \notin doubt /\ outcome[c] \notin {"locked", "failed"}
                  /\ mem[c].k = "key"
               THEN gone \union {mem[c].fp} ELSE gone
    /\ Goto(c, "removePub")
    /\ UNCHANGED <<avars, pub, req, mem, answer, promised, doubt, alone, accidents>>

\* Mutant: the public key stays.
RemovePublicForgotten(c) ==
    /\ kpc[c] = "removePub"
    /\ Answer(c, "ok", TRUE, TRUE, NoKey)
    /\ UNCHANGED <<avars, fileVars, req, mem, alone, gone, accidents>>

RemovePublic(c) ==
    /\ kpc[c] = "removePub"
    /\ pub' = [pub EXCEPT ![req[c].name] = NoFile]
    /\ Answer(c, "ok", TRUE, TRUE, NoKey)
    /\ UNCHANGED <<avars, priv, req, mem, alone, gone, accidents>>

\* A file cannot be removed.
RemoveFails(c) ==
    /\ kpc[c] \in {"removePriv", "removePub"}
    /\ Accident
    /\ Answer(c, "error", FALSE, TRUE, NoKey)
    /\ UNCHANGED <<avars, fileVars, req, mem, alone, gone>>
--------------------------------------------------------------------------------
(* ChangePassphrase: read, then write over the only copy. *)

ChangePassphrase(c, n, old, new) ==
    Arrive(c, [op |-> "passphrase", name |-> n, kind |-> "", old |-> old, pass |-> new], "read")

\* The file is complete and the old passphrase is its own.
ReadPrivate(c) ==
    /\ kpc[c] = "read"
    /\ LET file == priv[req[c].name] IN
       /\ Opens(file, req[c].old)
       /\ mem' = [mem EXCEPT ![c] = [k |-> "key", fp |-> file.fp]]
    /\ Goto(c, "reopen")
    /\ UNCHANGED <<avars, fileVars, req, answer, histVars, accidents>>

ReadRefused(c) ==
    /\ kpc[c] = "read"
    /\ ~Opens(priv[req[c].name], req[c].old)
    /\ Answer(c, "error", FALSE, FALSE, NoKey)
    /\ UNCHANGED <<avars, fileVars, req, mem, alone, gone, accidents>>

ReopenPrivate(c) ==
    /\ kpc[c] = "reopen"
    /\ priv' = [priv EXCEPT ![req[c].name] = Cut]
    /\ Goto(c, "rewrite")
    /\ UNCHANGED <<avars, pub, req, mem, answer, histVars, accidents>>

RewritePrivate(c) ==
    /\ kpc[c] = "rewrite"
    /\ priv' = [priv EXCEPT ![req[c].name] = MyPriv(c, req[c].pass)]
    /\ LET n == req[c].name IN
       Answer(c, "ok", promised[n].k = "key" /\ n \notin doubt, TRUE,
              IF promised[n].k = "key" THEN [promised[n] EXCEPT !.pass = req[c].pass] ELSE NoKey)
    /\ UNCHANGED <<avars, pub, req, mem, alone, gone, accidents>>

RewriteFails(c) ==
    /\ kpc[c] = "rewrite"
    /\ Accident
    /\ Answer(c, "error", FALSE, TRUE, NoKey)
    /\ UNCHANGED <<avars, fileVars, req, mem, alone, gone>>
--------------------------------------------------------------------------------
(* AddKeyToAgent: read the file, then add the key. *)

AddKeyToAgent(c, n, pass) ==
    Arrive(c, [op |-> "add", name |-> n, kind |-> "", old |-> "", pass |-> pass], "readKey")

ReadKey(c) ==
    /\ kpc[c] = "readKey"
    /\ LET file == priv[req[c].name] IN
       IF Opens(file, req[c].pass)
       THEN /\ mem' = [mem EXCEPT ![c] = [k |-> "key", fp |-> file.fp]]
            /\ Goto(c, "send")
            /\ UNCHANGED <<answer, promised, doubt>>
       ELSE /\ Answer(c, "error", FALSE, FALSE, NoKey)
            /\ UNCHANGED mem
    /\ UNCHANGED <<avars, fileVars, req, alone, gone, accidents>>

SendKey(c) ==
    /\ kpc[c] = "send"
    /\ IF locked
       THEN Answer(c, "error", FALSE, FALSE, NoKey) /\ UNCHANGED avars
       ELSE Answer(c, "ok", FALSE, FALSE, NoKey) /\ Add(mem[c].fp, 0)
    /\ UNCHANGED <<fileVars, req, mem, alone, gone, accidents>>
--------------------------------------------------------------------------------
\* Someone locks or unlocks the agent.  The guard leaves every call its change.
LockOrUnlock ==
    /\ changes + Cardinality(Calls) < MaxChanges
    /\ \E p \in Passphrases : Lock(p) \/ Unlock(p)
    /\ UNCHANGED kfvars

\* The daemon is killed and started again: calls end where they are, and the
\* agent, which lives in the daemon, is empty and unlocked.
KeyCrash ==
    /\ Accident
    /\ kpc' = [c \in Calls |-> IF Active(c) THEN "done" ELSE kpc[c]]
    /\ doubt' = doubt \union {req[c].name : c \in {d \in Calls : Active(d) /\ req[d].op # "add"}}
    /\ held' = {}
    /\ locked' = FALSE /\ lockPass' = NoPass
    /\ removing' = [c \in Calls |-> {}]
    /\ UNCHANGED <<addedAt, lifetime, requested, timeVars, changes, outcome,
                   fileVars, req, mem, answer, promised, alone, gone>>

CallStep(c) ==
    \/ Generate(c) \/ GenerateRefused(c) \/ OpenPrivate(c) \/ WritePrivate(c) \/ WritePrivateFails(c)
    \/ OpenPublic(c) \/ WritePublic(c) \/ WritePublicFails(c) \/ LoadGenerated(c)
    \/ TakeFingerprint(c) \/ AskAgent(c) \/ AskAgentFails(c) \/ RemoveFromAgent(c)
    \/ RemovePrivate(c) \/ RemovePublic(c) \/ RemoveFails(c)
    \/ ReadPrivate(c) \/ ReadRefused(c) \/ ReopenPrivate(c) \/ RewritePrivate(c) \/ RewriteFails(c)
    \/ ReadKey(c) \/ SendKey(c)

\* A request may come.
CallArrives(c) ==
    \E n \in Names :
       \/ \E kind \in KeyKinds, pass \in KeyPasses : GenerateKey(c, n, kind, pass)
       \/ DeleteKey(c, n)
       \/ \E old, new \in KeyPasses : ChangePassphrase(c, n, old, new)
       \/ \E pass \in KeyPasses : AddKeyToAgent(c, n, pass)

KeyNext == LockOrUnlock \/ \E c \in Calls : CallArrives(c) \/ CallStep(c)
--------------------------------------------------------------------------------
AtRest(n) == \A c \in Calls : ~On(c, n) \/ req[c].op = "add"

\* A name that no call is changing and no accident has hit holds what the
\* answers say: both files of one key of the kind asked for, under the last
\* passphrase set, or neither file.  A Delete or Generate that succeeds alone
\* makes good what earlier accidents left behind.
FilesAsAnswered ==
    \A n \in Names : (AtRest(n) /\ n \notin doubt) =>
       IF promised[n] = NoKey THEN priv[n] = NoFile /\ pub[n] = NoFile
       ELSE /\ ListKeys[n].k = "key"
            /\ ListKeys[n].fp = promised[n].fp /\ ListKeys[n].kind = promised[n].kind
            /\ ListKeys[n].hasPassphrase = (promised[n].pass # "")
            /\ priv[n] = [k |-> "key", fp |-> promised[n].fp, pass |-> promised[n].pass]

\* A key whose files Delete removed is not left in an agent that answered it, nor
\* put back by a call that comes later: RemoveKeyByFingerprint comes before the
\* files go, and AddKeyToAgent needs the file.  Delete answers ok without that
\* when the agent is locked, cannot be connected to or breaks off, and when
\* another call on the key overlaps.
DeletedLeavesAgent == gone \intersect held = {}

\* Whatever overlaps, a name whose key was there or was generated, that nobody
\* deletes, keeps a complete private key; only a crash or a failed write can
\* leave the name without one.
KeySurvives ==
    (accidents = 0) =>
       \A n \in Names :
          (AtRest(n) /\ promised[n] # NoKey /\ \A c \in Calls : req[c].op = "delete" => req[c].name # n)
             => priv[n].k = "key"
================================================================================
