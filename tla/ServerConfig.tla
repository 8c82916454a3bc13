------------------------------ MODULE ServerConfig ------------------------------
(***************************************************************************)
(* ServerConfigManager (skeys-core/config/server.go) and the handlers of   *)
(* ConfigService that use it.  UpdateServerConfig applies its updates one  *)
(* by one, each a read of sshd_config, an edit in memory and an            *)
(* os.WriteFile, which cuts the file before it fills it; nothing is locked.*)
(* The daemon gives the manager no PrivilegeExecutor, so Validate and      *)
(* RestartService only ever answer with an error.                          *)
(***************************************************************************)
EXTENDS Naturals, Sequences, SequencesExt

CONSTANTS
    Editors,      \* calls of UpdateServerConfig
    CfgRequests,  \* the updates a call may ask for
    CfgFiles,     \* what sshd_config may hold at first
    MaxFaults     \* bound: writes of sshd_config that fail

VARIABLES
    paths,      \* paths[p]: {} if there is no config p, else what the daemon may do with it;
                \* the machine's, and only read here
    conf,       \* the lines of sshd_config
    epc,        \* epc[c]: where call c is
    ereq,       \* ereq[c]: the updates that are left
    ebuf,       \* ebuf[c]: the new content
    ereply,     \* ereply[c]
    faults,
    meantConf,  \* history: the value of each directive that the calls meant, and whether
                \* the file has its place before all Match blocks
    spoiled     \* history: calls overlapped, or a write failed

cfgVars == <<conf, epc, ereq, ebuf, ereply, faults, meantConf, spoiled>>

CfgKeys == {"Port", "PermitRootLogin"}
NoValue == 0

Set(key, val) == [k |-> "set", key |-> key, val |-> val]
Comment(key, val) == [k |-> "comment", key |-> key, val |-> val]
Match == [k |-> "match", key |-> "", val |-> NoValue]

Change(key, val) == [delete |-> FALSE, key |-> key, val |-> val]
Deletion(key) == [delete |-> TRUE, key |-> key, val |-> NoValue]

\* A line of another directive has the key "".
Line == [k : {"set", "comment", "match"}, key : CfgKeys \union {""}, val : Nat]

ASSUME ConfigAssumption ==
    /\ CfgFiles \subseteq Seq(Line)
    /\ CfgRequests \subseteq Seq([delete : BOOLEAN, key : CfgKeys, val : Nat])
--------------------------------------------------------------------------------
MatchBefore(f, i) == \E j \in 1..(i - 1) : f[j].k = "match"

\* parse: directives and commented directives; a Match block never ends.
Parse(f) ==
    [i \in DOMAIN f |-> [key |-> f[i].key, val |-> f[i].val, isCommented |-> f[i].k = "comment",
                         inMatch |-> MatchBefore(f, i), directive |-> f[i].k # "match"]]

\* toProtoServerConfig: every directive with its line number, which is the order
\* of the list; a Match line is none.
ToProtoServerConfig(ds) ==
    [i \in {j \in DOMAIN ds : ds[j].directive} |->
        [key |-> ds[i].key, value |-> ds[i].val, lineNumber |-> i,
         isCommented |-> ds[i].isCommented, matchBlock |-> ds[i].inMatch]]

\* GetDirective
GetDirective(f, key) ==
    LET ds == Parse(f)
        i == SelectInSeq(ds, LAMBDA d : d.directive /\ d.key = key /\ ~d.isCommented /\ ~d.inMatch)
    IN  IF i = 0 THEN NoValue ELSE ds[i].val

\* What sshd takes from the file for every user: the first value that stands
\* before all Match blocks; external.  Of several Port lines, at all of which
\* sshd listens, it is the first.
Effective(f, key) ==
    LET head == SelectInSeq(f, LAMBDA l : l.k = "match")
        i == SelectInSeq(f, LAMBDA l : l.k = "set" /\ l.key = key)
    IN  IF i = 0 \/ (head # 0 /\ head < i) THEN NoValue ELSE f[i].val

\* What it takes for a user that all Match blocks match: the first value; external.
EffectiveMatched(f, key) ==
    LET i == SelectInSeq(f, LAMBDA l : l.k = "set" /\ l.key = key)
    IN  IF i = 0 THEN NoValue ELSE f[i].val

\* The first line about the key, a comment or not.
Mention(f, key) == SelectInSeq(f, LAMBDA l : l.k # "match" /\ l.key = key)

\* Mutant: the last line about the key is replaced.
UpdateDirectiveLast(f, key, val) ==
    LET i == SelectLastInSeq(f, LAMBDA l : l.k # "match" /\ l.key = key)
    IN  IF i = 0 THEN Append(f, Set(key, val)) ELSE [f EXCEPT ![i] = Set(key, val)]

\* updateDirective: it is replaced, or a line is appended.
UpdateDirective(f, key, val) ==
    LET i == Mention(f, key)
    IN  IF i = 0 THEN Append(f, Set(key, val)) ELSE [f EXCEPT ![i] = Set(key, val)]

\* The place of a directive, which is the end if no line is about it, is before
\* all Match blocks: it is one for every user.
ForAll(f, key) ==
    LET i == Mention(f, key) IN ~MatchBefore(f, IF i = 0 THEN Len(f) + 1 ELSE i)
--------------------------------------------------------------------------------
CfgInit ==
    /\ conf \in CfgFiles
    /\ epc = [c \in Editors |-> "new"]
    /\ ereq = [c \in Editors |-> <<>>]
    /\ ebuf = [c \in Editors |-> <<>>]
    /\ ereply = [c \in Editors |-> "none"]
    /\ faults = 0
    /\ meantConf = [key \in CfgKeys |->
          [all |-> ForAll(conf, key),
           val |-> IF ForAll(conf, key) THEN Effective(conf, key) ELSE EffectiveMatched(conf, key)]]
    /\ spoiled = FALSE

Editing == {c \in Editors : epc[c] \notin {"new", "done"}}

ToStep(c, label) == epc' = [epc EXCEPT ![c] = label]
\* The call ends; nothing of what it worked with is left.
Reply(c, r) ==
    /\ ToStep(c, "done")
    /\ ereply' = [ereply EXCEPT ![c] = r]
    /\ ereq' = [ereq EXCEPT ![c] = <<>>]
    /\ ebuf' = [ebuf EXCEPT ![c] = <<>>]

UpdateServerConfig(c) ==
    /\ epc[c] = "new"
    /\ \E ups \in CfgRequests : ereq' = [ereq EXCEPT ![c] = ups]
    /\ ToStep(c, "read")
    /\ spoiled' = (spoiled \/ Editing # {})
    /\ UNCHANGED <<conf, ebuf, ereply, faults, meantConf>>

\* "Delete is not directly supported, skip for now"
SkipDelete(c) ==
    /\ epc[c] = "read" /\ ereq[c] # <<>> /\ Head(ereq[c]).delete
    /\ ereq' = [ereq EXCEPT ![c] = Tail(@)]
    /\ UNCHANGED <<conf, epc, ebuf, ereply, faults, meantConf, spoiled>>

\* Read and updateDirective.
ReadConfig(c) ==
    /\ epc[c] = "read" /\ ereq[c] # <<>> /\ ~Head(ereq[c]).delete
    /\ "read" \in paths["server"]
    /\ ebuf' = [ebuf EXCEPT ![c] = UpdateDirective(conf, Head(ereq[c]).key, Head(ereq[c]).val)]
    /\ ToStep(c, "open")
    /\ UNCHANGED <<conf, ereq, ereply, faults, meantConf, spoiled>>

\* No permission to read the file, for an update or for the answer after the
\* last: what the updates before did stays.
ReadRefused(c) ==
    /\ epc[c] = "read" /\ ~(ereq[c] # <<>> /\ Head(ereq[c]).delete)
    /\ "read" \notin paths["server"]
    /\ Reply(c, "error")
    /\ UNCHANGED <<conf, faults, meantConf, spoiled>>

OpenConfig(c) ==
    /\ epc[c] = "open" /\ "write" \in paths["server"]
    /\ conf' = <<>>
    /\ ToStep(c, "write")
    /\ UNCHANGED <<ereq, ebuf, ereply, faults, meantConf, spoiled>>

\* None to write it.
OpenRefused(c) ==
    /\ epc[c] = "open" /\ "write" \notin paths["server"]
    /\ Reply(c, "error")
    /\ UNCHANGED <<conf, faults, meantConf, spoiled>>

WriteConfig(c) ==
    /\ epc[c] = "write"
    /\ conf' = ebuf[c]
    /\ LET up == Head(ereq[c]) IN meantConf' = [meantConf EXCEPT ![up.key].val = up.val]
    /\ ereq' = [ereq EXCEPT ![c] = Tail(@)]
    /\ ebuf' = [ebuf EXCEPT ![c] = <<>>]
    /\ ToStep(c, "read")
    /\ UNCHANGED <<ereply, faults, spoiled>>

WriteConfigFails(c) ==
    /\ epc[c] = "write" /\ faults < MaxFaults
    /\ faults' = faults + 1
    /\ spoiled' = TRUE
    /\ Reply(c, "error")
    /\ UNCHANGED <<conf, meantConf>>

\* All updates are done: the config is read again for the answer.
AnswerConfig(c) ==
    /\ epc[c] = "read" /\ ereq[c] = <<>>
    /\ "read" \in paths["server"]
    /\ Reply(c, "ok")
    /\ UNCHANGED <<conf, faults, meantConf, spoiled>>

\* Validate and RestartService return before they run anything, because the
\* daemon gives the manager no PrivilegeExecutor.
Validate == "error"
RestartService == "error"

ValidateServerConfig(c) ==
    /\ epc[c] = "new"
    /\ Reply(c, Validate)
    /\ UNCHANGED <<conf, faults, meantConf, spoiled>>

RestartSSHService(c) ==
    /\ epc[c] = "new"
    /\ Reply(c, RestartService)
    /\ UNCHANGED <<conf, faults, meantConf, spoiled>>

CfgStep(c) ==
    \/ UpdateServerConfig(c) \/ SkipDelete(c) \/ ReadConfig(c) \/ ReadRefused(c)
    \/ OpenConfig(c) \/ OpenRefused(c) \/ WriteConfig(c) \/ WriteConfigFails(c) \/ AnswerConfig(c)
    \/ ValidateServerConfig(c) \/ RestartSSHService(c)

\* GetServerConfig, of this moment.
GetServerConfig == ToProtoServerConfig(Parse(conf))

CfgNext == \E c \in Editors : CfgStep(c)
--------------------------------------------------------------------------------
\* The value that a client of GetServerConfig takes for a directive's.
SeenValue(key) ==
    LET ds == GetServerConfig
        hits == {i \in DOMAIN ds : ds[i].key = key /\ ~ds[i].isCommented /\ ~ds[i].matchBlock}
    IN  IF hits = {} THEN NoValue ELSE ds[Min(hits)].value

\* When nobody writes sshd_config, no calls overlapped and no write failed, sshd
\* finds for every directive the value of the last update, or its first value if
\* none came, whichever lines, comments and Match blocks the file has; no update
\* disturbs another directive, and a failed call keeps what its earlier updates
\* did.  A directive with its place behind a Match line is one for the users
\* that are matched: there the update lands, though its call answers ok; all
\* other users stay with the default, and so GetServerConfig and GetDirective
\* say.  A deletion is answered with ok, too, and changes nothing.
ConfigAsMeant ==
    (Editing = {} /\ ~spoiled) =>
       \A key \in CfgKeys :
          LET general == IF meantConf[key].all THEN meantConf[key].val ELSE NoValue
          IN  /\ Effective(conf, key) = general
              /\ GetDirective(conf, key) = general /\ SeenValue(key) = general
              /\ ~meantConf[key].all => EffectiveMatched(conf, key) = meantConf[key].val
================================================================================
