------------------------------ MODULE KnownHosts ------------------------------
(***************************************************************************)
(* The known_hosts file and its users: hosts.KnownHostsManager              *)
(* (skeys-core/hosts/known_hosts.go), which appends a key itself and lets   *)
(* ssh-keygen remove or hash names, and the test of a connection            *)
(* (remote/connection.go TestConnection with remote/hostkey.go), which      *)
(* checks a host's key, adds it when the user trusts it, and then dials     *)
(* with a callback that checks it again.                                    *)
(*                                                                         *)
(* ssh-keygen -R and -H are external: they read the file, write a copy and  *)
(* rename it over the file, and refuse one with a line that is no key.  A   *)
(* line names an address, which is the host with its port unless that is    *)
(* the default, and a key; hashed or not, the name matches.  A key is added *)
(* behind the last line, or on it when nothing ends it.                     *)
(***************************************************************************)
EXTENDS Naturals, Sequences, SequencesExt, KeptLines

CONSTANTS
    Calls,       \* the RPCs on known_hosts, each made once
    HostNames,   \* the hosts
    HostKeys,    \* the keys a host may have
    Missing,     \* the file does not exist
    KnownFiles,  \* what the file may contain at first
    MaxRekeys,   \* bound: how often a host changes its key
    MaxKeygens   \* bound: how many calls use ssh-keygen

VARIABLES
    known,    \* known_hosts: Missing or a sequence of lines
    knownEnds,\* it is missing or empty or ends with a newline
    hostKey,  \* hostKey[h]: the key the host presents
    kpc,      \* kpc[c]: where the call is
    kcall,    \* kcall[c]: the call
    snap,     \* snap[c]: the file as ssh-keygen or the dialer's callback has read it
    found,    \* found[c]: status and scanned key of a test
    result,   \* result[c]: how it ended
    rekeys,   \* how often a host changed its key
    keygens,  \* how many calls used ssh-keygen
    trusted,  \* addresses and keys that a call was told are in the file
    raced     \* ssh-keygen ran while another call changed the file

kvars == <<known, knownEnds, hostKey, kpc, kcall, snap, found, result, rekeys, keygens, trusted, raced>>

NoKey == "none"
Statuses == {"unspecified", "verified", "unknown", "mismatch", "added"}

\* Add, AddHostKey and the adapters: port 22 is the default, as is 0.
Address(h, p) == <<h, IF p = 0 THEN 22 ELSE p>>
Ports == {0, 22, 2222}
Addresses == HostNames \X {22, 2222}

\* A line whose text is no key has NoKey.
Line(a, k, hashed) == [addr |-> a, key |-> k, hashed |-> hashed]
KnownLines == [addr : Addresses, key : HostKeys \union {NoKey}, hashed : BOOLEAN]

\* A missing file is none of its contents, and what a scan without a file
\* leaves is no key.
ASSUME KnownHostsAssumption ==
    /\ Missing \notin Seq(KnownLines) /\ KnownFiles \subseteq Seq(KnownLines) \union {Missing}
    /\ NoKey \notin HostKeys
    /\ MaxRekeys \in Nat /\ MaxKeygens \in Nat

Content(f) == IF f = Missing THEN <<>> ELSE f

\* Lookup and the knownhosts callback: the keys that the file has for an address.
KeysOf(f, a) == {l.key : l \in {x \in ToSet(Content(f)) : x.addr = a}} \ {NoKey}

\* knownhosts.New: a line without a key fails the whole file.
Parses(f) == \A l \in ToSet(Content(f)) : l.key # NoKey

\* NewKnownHostsManager, NewHostKeyVerifier
KnownInit ==
    /\ known \in KnownFiles
    /\ knownEnds \in BOOLEAN /\ (Content(known) = <<>> => knownEnds)
    /\ hostKey \in [HostNames -> HostKeys]
    /\ kpc = [c \in Calls |-> "new"]
    /\ kcall = [c \in Calls |-> [op |-> "none"]]
    /\ snap = [c \in Calls |-> <<>>]
    /\ found = [c \in Calls |-> [status |-> "unspecified", key |-> NoKey]]
    /\ result = [c \in Calls |-> "none"]
    /\ rekeys = 0 /\ keygens = 0
    /\ trusted = {}
    /\ raced = FALSE

Go(c, to) == kpc' = [kpc EXCEPT ![c] = to]
End1(c, how) == Go(c, "done") /\ result' = [result EXCEPT ![c] = how]

Begin1(c, q, to) ==
    /\ kpc[c] = "new"
    /\ kcall' = [kcall EXCEPT ![c] = q]
    /\ Go(c, to)
    /\ UNCHANGED <<known, knownEnds, hostKey, snap, found, result, rekeys, trusted, raced>>

\* A host gets a new key.
Rekey(h) ==
    /\ rekeys < MaxRekeys /\ rekeys' = rekeys + 1
    /\ \E k \in HostKeys \ {hostKey[h]} : hostKey' = [hostKey EXCEPT ![h] = k]
    /\ UNCHANGED <<known, knownEnds, kpc, kcall, snap, found, result, keygens, trusted, raced>>

--------------------------------------------------------------------------------
\* ScanHostKeys of the manager: ssh-keyscan asks the host for its key.
Scanned(h, p) == [addr |-> Address(h, p), key |-> hostKey[h]]

\* The handler ScanHostKeys; the client keeps the answer to add the key later.
ScanHostKeys(c) ==
    \E h \in HostNames, p \in Ports :
       /\ LET k == Scanned(h, p)
          IN  Begin1(c, [op |-> "add", addr |-> k.addr, key |-> k.key], "scanned")
       /\ UNCHANGED keygens

\* AddKnownHost: the client adds a key that was scanned, maybe long ago.
AddKnownHost(c) ==
    /\ kpc[c] = "scanned"
    /\ Go(c, "append")
    /\ UNCHANGED <<known, knownEnds, hostKey, kcall, snap, found, result, rekeys, keygens, trusted, raced>>

\* The calls that read the file through ssh-keygen and have not renamed yet.
Rewriting == {c \in Calls : kpc[c] = "rename"}

\* What becomes of the last line with another behind it: a comment of it goes
\* on, or the text of its key is spoiled.
GluedLines(x) == {x, [x EXCEPT !.key = NoKey]}

\* One appending write of a line, by which the file is created when it is
\* missing: what it leaves, and what it adds for good.
Appends(l) ==
    /\ IF knownEnds
       THEN known' = Append(Content(known), l) /\ trusted' = trusted \union {<<l.addr, l.key>>}
       ELSE /\ \E g \in GluedLines(Last(known)) : known' = [known EXCEPT ![Len(known)] = g]
            /\ UNCHANGED trusted
    /\ knownEnds' = TRUE
    /\ raced' = (raced \/ Rewriting # {})

\* Add: for a hashed name the line is hashed in a temporary file first.
KnownAppend(c) ==
    /\ kpc[c] = "append"
    /\ \E hashed \in BOOLEAN : Appends(Line(kcall[c].addr, kcall[c].key, hashed))
    /\ Go(c, "appended")
    /\ UNCHANGED <<hostKey, kcall, snap, found, result, rekeys, keygens>>

\* List and parseLine: every line with its number; a hashed name is not shown.
ListKnown(f) ==
    [i \in DOMAIN Content(f) |->
        [id |-> i, name |-> IF f[i].hashed THEN <<"[hashed]">> ELSE f[i].addr, key |-> f[i].key,
         hashed |-> f[i].hashed]]

\* toProtoKnownHost
ToProtoKnownHost(h) ==
    [id |-> h.id, hostnames |-> h.name, publicKey |-> h.key, isHashed |-> h.hashed, lineNumber |-> h.id]

\* ListKnownHosts, of this moment.
ListKnownHosts == LET hs == ListKnown(known) IN [i \in DOMAIN hs |-> ToProtoKnownHost(hs[i])]

\* The answer of Add is the last line of a new list, whoever added it, and its
\* own line when the list is empty or fails.
KnownAnswer(c) ==
    /\ kpc[c] = "appended"
    /\ LET list == ListKnown(known)
       IN  \/ End1(c, IF list # <<>> /\ Last(list).key # kcall[c].key THEN "other" ELSE "ok")
          \/ End1(c, "ok")
    /\ UNCHANGED <<known, knownEnds, hostKey, kcall, snap, found, rekeys, keygens, trusted, raced>>

\* Add fails: the temporary file, ssh-keygen or the file cannot be used.
KnownAppendFails(c) ==
    /\ kpc[c] = "append"
    /\ End1(c, "error")
    /\ UNCHANGED <<known, knownEnds, hostKey, kcall, snap, found, rekeys, keygens, trusted, raced>>

\* RemoveKnownHost and HashKnownHosts
RemoveKnownHost(c) ==
    /\ keygens < MaxKeygens /\ keygens' = keygens + 1
    /\ \E h \in HostNames, p \in Ports : Begin1(c, [op |-> "remove", addr |-> Address(h, p)], "keygen")

HashKnownHosts(c) ==
    /\ keygens < MaxKeygens /\ keygens' = keygens + 1
    /\ Begin1(c, [op |-> "hash"], "keygen")

\* ssh-keygen reads the file, or fails without one or with a line that is no key.
KeygenRead(c) ==
    /\ kpc[c] = "keygen"
    /\ IF known = Missing \/ ~Parses(known) THEN End1(c, "error") /\ UNCHANGED snap
       ELSE Go(c, "rename") /\ snap' = [snap EXCEPT ![c] = known] /\ UNCHANGED result
    /\ UNCHANGED <<known, knownEnds, hostKey, kcall, found, rekeys, keygens, trusted, raced>>

\* Mutant: the names of a file are hashed by removing them.
KeygenOutputDrops(c) ==
    Kept(snap[c], {l \in ToSet(snap[c]) : kcall[c].op = "remove" /\ l.addr # kcall[c].addr})

\* What ssh-keygen -R or -H makes of the file it has read.
KeygenOutput(c) ==
    IF kcall[c].op = "hash" THEN [i \in DOMAIN snap[c] |-> [snap[c][i] EXCEPT !.hashed = TRUE]]
    ELSE Kept(snap[c], {l \in ToSet(snap[c]) : l.addr # kcall[c].addr})

\* ssh-keygen renames its copy over the file, and Remove or Hash deletes the
\* .old file it leaves.
KeygenRename(c) ==
    /\ kpc[c] = "rename"
    /\ known' = KeygenOutput(c) /\ knownEnds' = TRUE
    /\ trusted' = IF kcall[c].op = "hash" THEN trusted
                  ELSE {t \in trusted : t[1] # kcall[c].addr}
    /\ raced' = (raced \/ Rewriting # {c})
    /\ End1(c, "ok")
    /\ UNCHANGED <<hostKey, kcall, snap, found, rekeys, keygens>>

--------------------------------------------------------------------------------
\* TestConnection of a host, with or without the user's trust in its key.
TestConnection(c) ==
    \E h \in HostNames, p \in Ports, trust \in BOOLEAN :
       /\ Begin1(c, [op |-> "test", host |-> h, addr |-> Address(h, p), trust |-> trust], "check")
       /\ UNCHANGED keygens

\* The status of the key k of an address, and the key when it was scanned.
Status(f, a, k) ==
    CASE f = Missing -> [status |-> "unknown", key |-> NoKey]
      [] k \in KeysOf(f, a) -> [status |-> "verified", key |-> k]
      [] KeysOf(f, a) = {} -> [status |-> "unknown", key |-> k]
      [] OTHER -> [status |-> "mismatch", key |-> k]

\* CheckHostKey: without a file nothing is scanned; otherwise the host's key is
\* scanned and compared.
CheckHostKey(c) ==
    /\ kpc[c] = "check" /\ Parses(known)
    /\ found' = [found EXCEPT ![c] = Status(known, kcall[c].addr, hostKey[kcall[c].host])]
    /\ Go(c, "decide")
    /\ UNCHANGED <<known, knownEnds, hostKey, kcall, snap, result, rekeys, keygens, trusted, raced>>

\* The file does not parse, or the host does not answer the scan.
CheckFails(c) ==
    /\ kpc[c] = "check" /\ known # Missing
    /\ End1(c, "failed")
    /\ UNCHANGED <<known, knownEnds, hostKey, kcall, snap, found, rekeys, keygens, trusted, raced>>

\* Mutant: the user's trust is not asked for.
RefusedOnMismatch(c) == found[c].status = "mismatch"

\* A mismatch is refused, and so is an unknown host that is not trusted.
TestRefused(c) ==
    \/ found[c].status = "mismatch"
    \/ found[c].status = "unknown" /\ ~kcall[c].trust

Refuse1(c) ==
    /\ kpc[c] = "decide" /\ TestRefused(c)
    /\ End1(c, found[c].status)
    /\ UNCHANGED <<known, knownEnds, hostKey, kcall, snap, found, rekeys, keygens, trusted, raced>>

\* The host is unknown and its key was scanned.
ToAdd(c) == kpc[c] = "decide" /\ ~TestRefused(c) /\ found[c].status # "verified" /\ found[c].key # NoKey

\* AddHostKey
AddHostKey(c) ==
    /\ ToAdd(c)
    /\ Appends(Line(kcall[c].addr, found[c].key, FALSE))
    /\ found' = [found EXCEPT ![c].status = "added"]
    /\ Go(c, "auth")
    /\ UNCHANGED <<hostKey, kcall, snap, result, rekeys, keygens>>

\* AddHostKey fails: the directory or the file cannot be used.
AddHostKeyFails(c) ==
    /\ ToAdd(c)
    /\ End1(c, "failed")
    /\ UNCHANGED <<known, knownEnds, hostKey, kcall, snap, found, rekeys, keygens, trusted, raced>>

\* A verified host, and an unknown one of which no key was scanned.
NothingToAdd(c) ==
    /\ kpc[c] = "decide" /\ ~TestRefused(c)
    /\ found[c].status = "verified" \/ found[c].key = NoKey
    /\ Go(c, "auth")
    /\ UNCHANGED <<known, knownEnds, hostKey, kcall, snap, found, result, rekeys, keygens, trusted, raced>>

\* The ways to authenticate, of a private key that may be given (as bytes or in
\* a file), unreadable or without its passphrase, and of an agent: a key that
\* can be used is used alone, and the agent only when there is none.
GivenKeys == {"none", "usable", "unreadable", "locked"}
AuthMethods(given, agentUp) ==
    CASE given = "unreadable" -> {}
      [] given = "usable" -> {"key"}
      [] OTHER -> IF agentUp THEN {"agent"} ELSE {}

\* A way to authenticate was found (the given key, or the agent), and
\* CreateHostKeyCallback(false) has read the file once more.
Callback(c) ==
    /\ kpc[c] = "auth" /\ Parses(known)
    /\ \E given \in GivenKeys, agentUp \in BOOLEAN : AuthMethods(given, agentUp) # {}
    /\ snap' = [snap EXCEPT ![c] = Content(known)]
    /\ Go(c, "dial")
    /\ UNCHANGED <<known, knownEnds, hostKey, kcall, found, result, rekeys, keygens, trusted, raced>>

\* No way to authenticate: the key file cannot be read or parsed, needs a
\* passphrase, or the agent does not answer; or the file does not parse.
NoAuth(c) ==
    /\ kpc[c] = "auth"
    /\ \/ \E given \in GivenKeys, agentUp \in BOOLEAN : AuthMethods(given, agentUp) = {}
       \/ ~Parses(known)
    /\ End1(c, "failed")
    /\ UNCHANGED <<known, knownEnds, hostKey, kcall, snap, found, rekeys, keygens, trusted, raced>>

\* ssh.Dial: the host presents its key, and the callback accepts it when the
\* file had it.  The host may refuse the user.
Dial(c) ==
    /\ kpc[c] = "dial"
    /\ \/ hostKey[kcall[c].host] \in KeysOf(snap[c], kcall[c].addr) /\ End1(c, "success")
       \/ End1(c, "failed")
    /\ UNCHANGED <<known, knownEnds, hostKey, kcall, snap, found, rekeys, keygens, trusted, raced>>

KnownNext ==
    \/ \E h \in HostNames : Rekey(h)
    \/ \E c \in Calls :
         \/ ScanHostKeys(c) \/ AddKnownHost(c) \/ KnownAppend(c) \/ KnownAnswer(c)
         \/ KnownAppendFails(c)
         \/ RemoveKnownHost(c) \/ HashKnownHosts(c) \/ KeygenRead(c) \/ KeygenRename(c)
         \/ TestConnection(c) \/ CheckHostKey(c) \/ CheckFails(c) \/ Refuse1(c)
         \/ AddHostKey(c) \/ AddHostKeyFails(c) \/ NothingToAdd(c) \/ Callback(c) \/ NoAuth(c) \/ Dial(c)

--------------------------------------------------------------------------------
\* Lines, keys and calls are the ones that there may be, and calls end only in
\* the ways their handlers have.
KnownTypeOK ==
    /\ known \in Seq(KnownLines) \union {Missing}
    /\ hostKey \in [HostNames -> HostKeys]
    /\ kpc \in [Calls -> {"new", "scanned", "append", "appended", "keygen", "rename", "check",
                         "decide", "auth", "dial", "done"}]
    /\ snap \in [Calls -> Seq(KnownLines)]
    /\ found \in [Calls -> [status : Statuses, key : HostKeys \union {NoKey}]]
    /\ result \in [Calls -> {"none", "ok", "other", "error", "failed", "success", "unknown", "mismatch"}]
    /\ rekeys \in 0..MaxRekeys /\ keygens \in 0..MaxKeygens
    /\ raced \in BOOLEAN /\ knownEnds \in BOOLEAN

\* A key that a call has added behind the last line is in the file until its host
\* is removed, unless ssh-keygen replaced the file while another call changed it,
\* and whatever is added later; and it is listed, under its address or as a
\* hashed entry.  A key that went to a last line which nothing ended is not
\* claimed: it is part of that line, in no list, and Add answers all the same.
AddedStays ==
    ~raced => \A t \in trusted :
                 /\ t[2] \in KeysOf(known, t[1])
                 /\ \E h \in ToSet(ListKnownHosts) :
                       h.publicKey = t[2] /\ (h.isHashed \/ h.hostnames = t[1])

\* The file of the known hosts: its lines, and every key that was added.
KnownSafe == KnownTypeOK /\ AddedStays

\* A test only succeeds with a key that the file has for the host, whatever the
\* host presents between the scan and the dial.  Checked while ssh-keygen does
\* not replace the file and no Add spoils its last line.
SuccessIsKnown ==
    [][\A c \in Calls :
          (result[c] # result'[c] /\ result'[c] = "success" /\ keygens = 0 /\ Parses(known))
             => hostKey[kcall[c].host] \in KeysOf(known, kcall[c].addr)]_kvars

\* The request of call c says that the host at a may have the key k: it names the
\* key, or it tests the host and trusts what the scan will find.
Consents(c, a, k) ==
    \/ kcall[c].op = "add" /\ kcall[c].addr = a /\ kcall[c].key = k
    \/ kcall[c].op = "test" /\ kcall[c].addr = a /\ kcall[c].trust

\* A key gets into the file only by a call whose own request consents to it: not
\* by a test without the user's trust, and not by the trust of another call.  Two
\* ssh-keygens at a time may bring back a line that was removed.  The consent of
\* a test is to whatever key its own scan finds: nothing in the request names the
\* fingerprint that an earlier test has shown to the user.
OnlyConsented ==
    [][\A a \in Addresses : \A k \in KeysOf(known', a) \ KeysOf(known, a) :
          raced' \/ \E c \in Calls : kpc'[c] # kpc[c] /\ Consents(c, a, k)]_kvars

\* A test never puts a second key beside the one that the user's file has for
\* a host, even when the user trusts it: that key has changed, and the test is
\* refused.  Only a key that another call has added meanwhile may be there, or
\* one that two ssh-keygens at a time have brought back: the slower one renames
\* a copy that has the line which the other has removed.
NoSilentRekey ==
    [][\A c \in Calls :
          (/\ kpc[c] = "decide" /\ kpc'[c] = "auth" /\ known' # known
           /\ ~raced \/ keygens <= 1)
          => KeysOf(known, kcall[c].addr) \subseteq {t[2] : t \in trusted}]_kvars

\* TestConnection in its three steps: it dials with keys of the file, puts none
\* there without the user's consent, and lets none take the place of another.
HostKeysTrusted == SuccessIsKnown /\ OnlyConsented /\ NoSilentRekey
================================================================================
