----------------------------- MODULE ClientConfig -----------------------------
(***************************************************************************)
(* ~/.ssh/config under the daemon: config.ClientConfig (client.go), whose   *)
(* parsed copy is edited and saved by the ConfigService handlers and        *)
(* reloaded by the polling watcher (config/watcher.go), and                 *)
(* sshconfig.Manager (manager.go), which adds and removes the managed block *)
(* in the same file without the parsed copy.  Neither takes a lock.         *)
(*                                                                         *)
(* A save is a backup, a truncation and a write: other requests, the        *)
(* watcher, the user's editor and the end of the daemon fit in between.     *)
(* A file that is missing is not told apart from an empty one.              *)
(***************************************************************************)
EXTENDS ConfigText

CONSTANTS
    Requests,    \* the RPCs, each made once
    Edits,       \* Edits[r]: what request r may ask for
    Files,       \* what the file may contain at first
    EditorItem,  \* what the user's editor appends to the file
    MaxFaults    \* bound: failed writes, crashes and saves of the editor together

VARIABLES
    file,      \* ~/.ssh/config
    bak,       \* config.bak, written by ClientConfig
    skeysBak,  \* config.skeys.bak, written by Manager
    config,    \* c.config, the parsed copy
    polling,   \* the watcher's loop runs; it never stops
    up,        \* the daemon runs
    pc,        \* pc[r]: where request r is
    edit,      \* edit[r]: what it asks for
    out,       \* out[r]: the content it is going to write
    reply,     \* reply[r]: how it was answered
    faults,    \* how often something failed or the editor saved
    whole,     \* what the file contained when it was last written completely
    want,      \* what a client that knows all answers expects in the file
    crowded,   \* two requests, or a request and the editor, overlapped
    buried     \* a save made its backup of a file that was cut short

fileVars == <<file, bak, skeysBak, whole>>
ghosts == <<want, crowded, buried>>
vars == <<fileVars, config, polling, up, pc, edit, out, reply, faults, ghosts>>

NoEdit == [op |-> "none"]
Unknown == [known |-> FALSE]

\* The requests that a crash or another request would disturb.
Busy == {r \in Requests : pc[r] \notin {"new", "done"}}

OnFile(r) == edit[r].op \in {"enable", "disable"}

\* The managed block as it is in the file.
Block(s) == IF \E i \in DOMAIN s : i + 2 \in DOMAIN s /\ SubSeq(s, i, i + 2) = ManagedBlock
            THEN "on" ELSE IF IsEnabled(s) THEN "broken" ELSE "off"

\* What options mean to ssh: without a Port line the port is 22.
Effective(o) == [o EXCEPT !.port = IF @ = 0 THEN 22 ELSE @]

\* What lines say to ssh: of those with the same key the first counts.
Said(s, at) == [k \in {s[i].key : i \in at} |-> s[Min({i \in at : s[i].key = k})].val]

Directives(s) == {i \in DOMAIN s : s[i].k = "dir"}
Under(s, h) == {i \in Directives(s) : Owner(s, i) = h}

\* The lines that apply to every connection: before the first header, or below a
\* Host * such as that of the managed block.
Everywhere(s) == {i \in Directives(s) : IsChild(s, i) => ID(s[Owner(s, i)]) = ID(Entry("host", Star, Plain))}

\* What a block says, and what the whole file says, block after block.
BlockOf(e, said) == [id |-> ID(e), opts |-> Effective(e.opts), said |-> said]

Blocks(s) ==
    LET at == KeptAt([i \in DOMAIN s |-> i], {i \in DOMAIN s : IsHeader(s[i])})
    IN  [n \in DOMAIN at |-> BlockOf(s[at[n]], Said(s, Under(s, at[n]) \ Everywhere(s)))]

View(s) == [known |-> TRUE, globals |-> Said(s, Everywhere(s)), blocks |-> Blocks(s), block |-> Block(s)]

\* NewClientConfig, with load.
ConfigInit ==
    /\ file \in Files
    /\ bak = <<>> /\ skeysBak = <<>>
    /\ config = file
    /\ polling = FALSE
    /\ up = TRUE
    /\ pc = [r \in Requests |-> "new"]
    /\ edit = [r \in Requests |-> NoEdit]
    /\ out = [r \in Requests |-> <<>>]
    /\ reply = [r \in Requests |-> "none"]
    /\ faults = 0
    /\ whole = file
    /\ want = View(file)
    /\ crowded = FALSE
    /\ buried = FALSE

--------------------------------------------------------------------------------
\* The content a handler has worked out before it touches the parsed copy.
Draft(e, s) ==
    CASE e.op = "reorder" -> Reordered(s, e.ids)
      [] e.op = "set" -> SetGlobal(s, e.key, e.val)
      [] e.op = "unset" -> DeleteGlobal(s, e.key)
      [] OTHER -> <<>>

\* The entry that a request stands for.  Those of HostConfig carry a HostEntry,
\* and Update puts the alias of the request back in.
NewEntry(e) ==
    CASE e.op = "create" -> FromHostEntry(FromProtoHostConfig(e.host))
      [] e.op = "updateHost" -> FromHostEntry([FromProtoHostConfig(e.host) EXCEPT !.alias = e.alias])
      [] OTHER -> FromProtoSSHConfigEntry(e.entry)

\* The file starts with one managed block or none, the user's editor adds none,
\* and requests carry options as the messages have them.
ASSUME ClientConfigAssumption ==
    /\ MaxFaults \in Nat
    /\ \A f \in Files : f \in Seq(ToSet(f)) /\ (\A x \in ToSet(f) : IsItem(x)) /\ SingleBlock(f)
    /\ IsItem(EditorItem) /\ EditorItem # Begin
    /\ \A r \in Requests : \A e \in Edits[r] :
          /\ e.op \in {"add", "create", "update", "updateHost"} => NewEntry(e).opts \in Options
          /\ e.op = "reorder" => e.ids \in Seq(ToSet(e.ids))

\* The ID of the entry that Update and Delete by alias go on with.
Target(e) == IF e.op \in {"updateHost", "deleteHost"} THEN <<"host", <<e.alias>>>> ELSE e.id

\* What the checks of a handler refuse, on the parsed copy s.  Update by alias
\* looks for the alias and then for the entry with this pattern alone.
Refused(e, s) ==
    CASE e.op \in {"add", "create"} -> SharesPattern(s, NewEntry(e))
      [] e.op \in {"update", "delete"} -> e.id \notin EntryIDs(s)
      [] e.op = "updateHost" -> ~HasAlias(s, e.alias) \/ Target(e) \notin EntryIDs(s)
      [] e.op = "reorder" -> ~(ToSet(e.ids) \subseteq EntryIDs(s))
      [] e.op = "unset" -> TopLevelHits(s, e.key) = {}
      [] OTHER -> FALSE

\* The change of the parsed copy that precedes the save.
Edited(r, s) ==
    CASE edit[r].op \in {"add", "create", "update", "updateHost"} -> Patch(s, BuildEntryBlock(NewEntry(edit[r])))
      [] edit[r].op \in {"delete", "deleteHost"} -> DeleteBlock(s, Target(edit[r]))
      [] OTHER -> out[r]

Move(r, to) == pc' = [pc EXCEPT ![r] = to]

\* A request ends with this answer, and its locals are gone.
Finish(r, how) ==
    /\ Move(r, "done")
    /\ reply' = [reply EXCEPT ![r] = how]
    /\ edit' = [edit EXCEPT ![r] = NoEdit]
    /\ out' = [out EXCEPT ![r] = <<>>]

\* It goes on instead.
Proceed(r, e, to) ==
    /\ Move(r, to)
    /\ edit' = [edit EXCEPT ![r] = e]
    /\ UNCHANGED reply

\* What a client knows of the file is void once requests overlap or a handler
\* works on a parsed copy that is not the file's, and when a block that Reorder
\* has broken is removed.
StartKnown(e) ==
    want' = IF \/ Busy # {}
               \/ e.op \notin {"enable", "disable"} /\ config # file
               \/ e.op = "disable" /\ Block(file) = "broken"
            THEN Unknown ELSE want

\* A handler is called.
Call(r, e) ==
    /\ up /\ pc[r] = "new"
    /\ crowded' = (crowded \/ Busy # {})
    /\ StartKnown(e)
    /\ UNCHANGED <<fileVars, polling, up, faults, buried>>

\* A check fails: an unknown ID, a pattern that exists, a directive not found.
StartRefused(r, e) ==
    /\ Refused(e, config)
    /\ Call(r, e)
    /\ Finish(r, "error")
    /\ UNCHANGED config

\* Enable finds the block in the file, or Disable finds none.
StartSettled(r, e) ==
    /\ \/ e.op = "enable" /\ IsEnabled(file)
       \/ e.op = "disable" /\ ~IsEnabled(file)
    /\ Call(r, e)
    /\ Finish(r, "ok")
    /\ UNCHANGED config

StartEnable(r, e) ==
    /\ e.op = "enable" /\ ~IsEnabled(file)
    /\ Call(r, e)
    /\ Proceed(r, e, "read")
    /\ UNCHANGED <<config, out>>

StartDisable(r, e) ==
    /\ e.op = "disable" /\ IsEnabled(file)
    /\ Call(r, e)
    /\ out' = [out EXCEPT ![r] = RemoveManagedBlock(file)]
    /\ Proceed(r, e, "backup")
    /\ UNCHANGED config

\* The other handlers: the checks passed.  Reorder and the global directives
\* have worked out the new content, an update has deleted the old entry.
StartEdit(r, e) ==
    /\ e.op \notin {"enable", "disable"} /\ ~Refused(e, config)
    /\ Call(r, e)
    /\ config' = IF e.op \in {"update", "updateHost"} THEN DeleteBlock(config, Target(e)) ELSE config
    /\ out' = [out EXCEPT ![r] = Draft(e, config)]
    /\ Proceed(r, e, "edit")

Start(r, e) == \/ StartRefused(r, e) \/ StartSettled(r, e) \/ StartEnable(r, e)
               \/ StartDisable(r, e) \/ StartEdit(r, e)

\* Enable reads the file a second time and prepends the block.
EnableRead(r) ==
    /\ pc[r] = "read"
    /\ out' = [out EXCEPT ![r] = ManagedBlock \o file]
    /\ Move(r, "backup")
    /\ UNCHANGED <<fileVars, config, polling, up, edit, reply, faults, ghosts>>

\* Patch and Delete, or c.config = sshconf.ParseConfig(content).
EditConfig(r) ==
    /\ pc[r] = "edit"
    /\ config' = Edited(r, config)
    /\ Move(r, "backup")
    /\ UNCHANGED <<fileVars, polling, up, edit, out, reply, faults, ghosts>>

\* Mutant: the file is opened before the backup is made.
BackupCut(r) ==
    /\ pc[r] = "backup"
    /\ file' = <<>>
    /\ IF OnFile(r) THEN skeysBak' = <<>> /\ UNCHANGED bak ELSE bak' = <<>> /\ UNCHANGED skeysBak
    /\ Move(r, "open")
    /\ UNCHANGED <<whole, config, polling, up, edit, out, reply, faults, ghosts>>

\* backup, and the backup of writeConfig.
Backup(r) ==
    /\ pc[r] = "backup"
    /\ IF OnFile(r) THEN skeysBak' = file /\ UNCHANGED bak ELSE bak' = file /\ UNCHANGED skeysBak
    /\ buried' = (buried \/ file # whole)
    /\ Move(r, "open")
    /\ UNCHANGED <<file, whole, config, polling, up, edit, out, reply, faults, want, crowded>>

\* WriteFile opens the file, which cuts it, for the content it has by now.
Open(r) ==
    /\ pc[r] = "open"
    /\ file' = <<>>
    /\ out' = IF OnFile(r) THEN out ELSE [out EXCEPT ![r] = config]
    /\ Move(r, "write")
    /\ UNCHANGED <<bak, skeysBak, whole, config, polling, up, edit, reply, faults, ghosts>>

\* WriteFile writes from the start of the file: what another writer has put
\* beyond the end of this content stays.
Write(r) ==
    /\ pc[r] = "write"
    /\ file' = out[r] \o SubSeq(file, Len(out[r]) + 1, Len(file))
    /\ whole' = file'
    /\ Move(r, "answer")
    /\ UNCHANGED <<bak, skeysBak, config, polling, up, edit, out, reply, faults, ghosts>>

\* What an acknowledged request means for a file that says w: a new entry is
\* one more block, an updated one stays at its place, entries put in an order
\* take their places in it, a global directive applies to every connection, and
\* what the request does not name is as before.
Promise(e, w) ==
    LET place(id) == SelectInSeq(w.blocks, LAMBDA b : b.id = id)
        places == {n \in DOMAIN w.blocks : \E i \in DOMAIN e.ids : n = place(e.ids[i])}
        ordered(n) == w.blocks[place(e.ids[Cardinality({m \in places : m <= n})])]
        unless(f, k) == Restrict(f, DOMAIN f \ {k})
    IN  CASE e.op \in {"add", "create"} -> [w EXCEPT !.blocks = Append(@, BlockOf(NewEntry(e), <<>>))]
          [] e.op \in {"update", "updateHost"} ->
                [w EXCEPT !.blocks[place(Target(e))] = BlockOf(NewEntry(e), <<>>)]
          [] e.op \in {"delete", "deleteHost"} ->
                IF place(Target(e)) = 0 THEN w ELSE [w EXCEPT !.blocks = RemoveAt(@, place(Target(e)))]
          [] e.op = "reorder" ->
                [w EXCEPT !.blocks = [n \in DOMAIN @ |-> IF n \in places THEN ordered(n) ELSE @[n]]]
          [] e.op = "set" -> [w EXCEPT !.globals = (e.key :> e.val) @@ unless(@, e.key)]
          [] e.op = "unset" -> [w EXCEPT !.globals = unless(@, e.key)]
          [] e.op = "enable" ->
                [w EXCEPT !.block = "on", !.blocks = <<BlockOf(ManagedBlock[2], <<>>)>> \o @]
          [] e.op = "disable" -> [w EXCEPT !.block = "off", !.blocks = Tail(@)]

\* The requests that the code answers with ok and does not do to a file of text
\* s: an entry added in place of one with the same header; an update of a block
\* that is not the last, which makes it the last; a reorder of a file that has
\* more in it than the named entries, each with at most one line of an option;
\* a directive that is written below a header, or removed above one that keeps it.
Strays(e, s) ==
    LET hs == {i \in DOMAIN s : IsHeader(s[i])}
        named == {HeaderAt(s, e.ids[i]) : i \in DOMAIN e.ids}
        key == {i \in Directives(s) : s[i].key = e.key}
        begin == SelectInSeq(s, LAMBDA x : x = Begin)
    IN  CASE e.op \in {"add", "create"} -> HeaderAt(s, ID(NewEntry(e))) # 0
          [] e.op \in {"update", "updateHost"} ->
                Max(hs) # HeaderAt(s, Target(e)) \/ ID(NewEntry(e)) \in {ID(s[i]) : i \in hs} \ {Target(e)}
          [] e.op = "reorder" -> \/ hs # named \/ Everywhere(s) # {} \/ Begin \in ToSet(s)
                                 \/ \E h \in hs : \/ s[h].opts.fwd > 1
                                                 \/ \E i, j \in Under(s, h) : i # j /\ s[i].key = s[j].key
          [] e.op = "set" -> IF begin # 0 /\ \A i \in TopLevelHits(s, e.key) : i > begin
                             THEN Owner(s, begin) # 0
                             ELSE TopLevelHits(s, e.key) = {} /\ hs # {}
          [] e.op = "unset" -> key \intersect Everywhere(s) # TopLevelHits(s, e.key)
          [] OTHER -> FALSE

\* The answer.  The HostConfig handlers look the alias up in the parsed copy
\* once more, and report an error when it is gone.
Answer(r) ==
    /\ pc[r] = "answer"
    /\ Finish(r, IF \/ edit[r].op = "create" /\ ~HasAlias(config, edit[r].host.alias)
                    \/ edit[r].op = "updateHost" /\ ~HasAlias(config, edit[r].alias)
                 THEN "error" ELSE "ok")
    /\ want' = IF ~want.known THEN want
               ELSE IF ~OnFile(r) /\ Strays(edit[r], bak) THEN View(file)
               ELSE Promise(edit[r], want)
    /\ UNCHANGED <<fileVars, config, polling, up, faults, crowded, buried>>

\* A read, the backup, the opening or the writing fails.  The parsed copy keeps
\* the change and a file that was cut stays cut.
Fail(r) ==
    /\ faults < MaxFaults /\ faults' = faults + 1
    /\ pc[r] \in {"read", "backup", "open", "write"}
    /\ Finish(r, "error")
    /\ want' = IF pc[r] = "write" THEN Unknown ELSE want
    /\ UNCHANGED <<fileVars, config, polling, up, crowded, buried>>

--------------------------------------------------------------------------------
\* The first Watch starts the polling loop.
Watch == up /\ ~polling /\ polling' = TRUE
         /\ UNCHANGED <<fileVars, config, up, pc, edit, out, reply, faults, ghosts>>

\* A tick of the loop: load, whatever the handlers have in the parsed copy.
Poll ==
    /\ up /\ polling
    /\ config # file
    /\ config' = file
    /\ want' = IF Busy = {} THEN want ELSE Unknown
    /\ UNCHANGED <<fileVars, polling, up, pc, edit, out, reply, faults, crowded, buried>>

\* The user saves the file from an editor.
EditorSaves ==
    /\ faults < MaxFaults /\ faults' = faults + 1
    /\ file' = Append(file, EditorItem)
    /\ whole' = file'
    /\ want' = IF Busy = {} /\ want.known THEN View(file') ELSE Unknown
    /\ crowded' = (crowded \/ Busy # {})
    /\ UNCHANGED <<bak, skeysBak, config, polling, up, pc, edit, out, reply, buried>>

\* The daemon is killed.  Its requests are not answered.
Crash ==
    /\ up /\ faults < MaxFaults /\ faults' = faults + 1
    /\ up' = FALSE
    /\ polling' = FALSE
    /\ pc' = [r \in Requests |-> IF r \in Busy THEN "done" ELSE pc[r]]
    /\ want' = IF Busy = {} THEN want ELSE Unknown
    /\ edit' = [r \in Requests |-> NoEdit]
    /\ out' = [r \in Requests |-> <<>>]
    /\ config' = <<>>
    /\ UNCHANGED <<fileVars, reply, crowded, buried>>

\* The next daemon loads the file.
Restart ==
    /\ ~up
    /\ up' = TRUE
    /\ config' = file
    /\ UNCHANGED <<fileVars, polling, pc, edit, out, reply, faults, ghosts>>

Handle(r, op) == \E e \in {x \in Edits[r] : x.op = op} : Start(r, e)

\* The handlers of ConfigService that change the file.
CreateHostConfig(r) == Handle(r, "create")
UpdateHostConfig(r) == Handle(r, "updateHost")
DeleteHostConfig(r) == Handle(r, "deleteHost")
CreateSSHConfigEntry(r) == Handle(r, "add")
UpdateSSHConfigEntry(r) == Handle(r, "update")
DeleteSSHConfigEntry(r) == Handle(r, "delete")
ReorderSSHConfigEntries(r) == Handle(r, "reorder")
SetGlobalDirective(r) == Handle(r, "set")
DeleteGlobalDirective(r) == Handle(r, "unset")
EnableSshConfig(r) == Handle(r, "enable")
DisableSshConfig(r) == Handle(r, "disable")

Request(r) == \/ CreateHostConfig(r) \/ UpdateHostConfig(r) \/ DeleteHostConfig(r)
              \/ CreateSSHConfigEntry(r) \/ UpdateSSHConfigEntry(r) \/ DeleteSSHConfigEntry(r)
              \/ ReorderSSHConfigEntries(r) \/ SetGlobalDirective(r)
              \/ DeleteGlobalDirective(r) \/ EnableSshConfig(r) \/ DisableSshConfig(r)

Step(r) == \/ EnableRead(r) \/ EditConfig(r) \/ Backup(r)
           \/ Open(r) \/ Write(r) \/ Answer(r) \/ Fail(r)

ConfigNext ==
    \/ \E r \in Requests : Request(r) \/ Step(r)
    \/ Watch \/ Poll \/ EditorSaves \/ Crash \/ Restart

ConfigSpec == ConfigInit /\ [][ConfigNext]_vars

--------------------------------------------------------------------------------
\* The handlers that only read, as what they answer: entries and hosts from the
\* parsed copy, global directives and the status of the block from the file.
ListSSHConfigEntries ==
    LET es == ListEntries(config) IN [i \in DOMAIN es |-> ToProtoSSHConfigEntry(es[i])]

GetSSHConfigEntry(id) == ToProtoSSHConfigEntry(GetEntry(config, id))

ListHostConfigs ==
    LET hs == ListHosts(config) IN [i \in DOMAIN hs |-> ToProtoHostConfig(hs[i])]

GetHostConfig(alias) == ToProtoHostConfig(GetHost(config, alias))

ListGlobalDirectives == {[key |-> file[i].key, value |-> file[i].val] : i \in GlobalDirectives(file)}

GetSshConfigStatus == IsEnabled(file)

\* A client that lists the entries, and looks each one up, sees the blocks of w
\* but Host *, in their order and with their options, of an option with several
\* lines one; by alias it sees the first Host block of that name.
Shows(w) ==
    LET shown == SelectSeq(w.blocks, LAMBDA b : b.id # <<"host", Star>>)
        shows(p, o) == /\ p.port = o.port /\ p.compression = o.compression
                       /\ p.fwd = o.fwd \/ (p.fwd = 1 /\ o.fwd = 2)
        first(id) == shown[SelectInSeq(shown, LAMBDA b : b.id = id)]
    IN  /\ [n \in DOMAIN ListSSHConfigEntries |-> ListSSHConfigEntries[n].id]
              = [n \in DOMAIN shown |-> shown[n].id]
        /\ \A n \in DOMAIN shown :
              /\ shows(Effective(FromProtoSSHOptions(ListSSHConfigEntries[n].options)), shown[n].opts)
              /\ shows(Effective(FromProtoSSHOptions(GetSSHConfigEntry(shown[n].id).options)),
                       first(shown[n].id).opts)
        /\ \A p \in ToSet(ListHostConfigs) :
              \E n \in DOMAIN shown :
                 /\ shown[n].id[1] = "host" /\ shown[n].id[2][1] = p.alias
                 /\ Effective(FromHostEntry(FromProtoHostConfig(GetHostConfig(p.alias))).opts).port
                       = shown[n].opts.port

\* What a request that strays still does to a file that said w and now says v:
\* the entry is there and the others are as they were; the entries that were
\* named are there in their order; the directive's key is all that changed.
Salvages(e, w, v) ==
    LET others(bs, ids) == SelectSeq(bs, LAMBDA b : b.id \notin ids)
        new == BlockOf(NewEntry(e), <<>>)
        but(f) == Restrict(f, DOMAIN f \ {e.key})
    IN  CASE e.op \in {"add", "create", "update", "updateHost"} ->
                /\ new \in ToSet(v.blocks)
                /\ others(v.blocks, {new.id, Target(e)}) = others(w.blocks, {new.id, Target(e)})
                /\ v.globals = w.globals /\ v.block = w.block
          [] e.op = "reorder" ->
                /\ [n \in DOMAIN v.blocks |-> v.blocks[n].id] = e.ids
                /\ \A n \in DOMAIN v.blocks : \E b \in ToSet(w.blocks) :
                      /\ v.blocks[n].id = b.id /\ v.blocks[n].opts = ExtractOptions(b.opts)
                      /\ DOMAIN v.blocks[n].said = DOMAIN b.said
          [] e.op \in {"set", "unset"} ->
                /\ but(v.globals) = but(w.globals) /\ v.block = w.block
                /\ [n \in DOMAIN v.blocks |-> [v.blocks[n] EXCEPT !.said = but(@)]]
                      = [n \in DOMAIN w.blocks |-> [w.blocks[n] EXCEPT !.said = but(@)]]

--------------------------------------------------------------------------------
\* The control state keeps its types; the watcher only runs in a daemon.
ConfigTypeOK ==
    /\ polling \in BOOLEAN /\ up \in BOOLEAN /\ (polling => up)
    /\ pc \in [Requests -> {"new", "read", "edit", "backup", "open", "write", "answer", "done"}]
    /\ \A r \in Requests : edit[r] \in Edits[r] \union {NoEdit}
    /\ reply \in [Requests -> {"none", "ok", "error"}]
    /\ (~up => Busy = {})
    /\ \A i \in DOMAIN file : IsHeader(file[i]) => file[i].opts \in Options
    /\ faults \in 0..MaxFaults

\* Requests that follow one another, each on a parsed copy that is up to date,
\* leave a file that says to ssh, block after block, what their answers promise,
\* and nothing else: but for the requests that stray, after which it says what
\* Salvages leaves them, and for Enable, which takes a block that a reorder has
\* broken for one that is on.
FileIsPromised == (want.known /\ Busy = {}) => View(file) = want

\* Unless two writers overlap, the file never gets a second managed block, however
\* stale the parsed copy is that is written back.
OneBlock == ~crowded => SingleBlock(file)

\* Whatever fails and whenever the daemon is killed, the last complete file can
\* be restored from the file or one of the two backups, until a further save
\* backs up a file that was cut short.
Recoverable == (~crowded /\ ~buried) => whole \in {file, bak, skeysBak}

\* The file of the client config: one managed block, and a whole copy of the text
\* whatever fails.
ConfigSafe == ConfigTypeOK /\ OneBlock /\ Recoverable

\* A request that was alone and worked on an up-to-date copy is never answered
\* with an error after it has saved its change; and a directive whose setting
\* was acknowledged is one that ListGlobalDirectives lists, with the new value.
AnswerTrue ==
    [][\A r \in Requests : (pc[r] = "answer" /\ reply'[r] # reply[r] /\ want.known) =>
          /\ reply'[r] = "ok"
          /\ edit[r].op = "set" =>
                [key |-> edit[r].key, value |-> edit[r].val] \in ListGlobalDirectives]_vars

\* A request that the code does not do as it was asked still has done the part of
\* it that Salvages says, and has left the rest of the file to its meaning.
StraysOnlySo ==
    [][\A r \in Requests :
          (/\ pc[r] = "answer" /\ reply'[r] = "ok" /\ want.known
           /\ ~OnFile(r) /\ Strays(edit[r], bak)) => Salvages(edit[r], want, View(file))]_vars

\* What a client lists after an acknowledged request is what the requests so far
\* have promised: every entry of the file in its place with its options, through
\* the messages in both directions, and whether the managed block is there.  Only
\* the parsed copy after Enable or Disable is not the file's.
ListedAsPromised ==
    [][\A r \in Requests : (pc[r] = "answer" /\ reply'[r] = "ok" /\ want.known) =>
          /\ GetSshConfigStatus' = (want'.block # "off")
          /\ (edit[r].op \notin {"enable", "disable"} => Shows(want)')]_vars

================================================================================
