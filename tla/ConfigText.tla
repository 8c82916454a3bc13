------------------------------ MODULE ConfigText ------------------------------
(***************************************************************************)
(* The text of ~/.ssh/config as skeys reads and rewrites it                 *)
(* (skeys-core/config/client.go, skeys-core/sshconfig/manager.go).  A file  *)
(* is a sequence of items: a Host or Match header with the options written  *)
(* under it, a directive (indented or not), and the two marker comments of  *)
(* the managed block.                                                       *)
(*                                                                         *)
(* The parser is the sshconf library, which is not part of the repository.  *)
(* As client.go relies on it: a directive after a header is a child of the  *)
(* nearest header before it even when it is not indented, a comment is a    *)
(* top-level line, Patch replaces the block with the given header or        *)
(* appends one, Delete removes a block with its children.                   *)
(*                                                                         *)
(* Of the options, those are kept that the code treats differently: Port    *)
(* (22 is not written), Compression (lost in a HostEntry) and fwd, lines of *)
(* one extra option such as LocalForward (a map keeps only one of them).    *)
(***************************************************************************)
EXTENDS Naturals, Sequences, SequencesExt, KeptLines

Star == <<"*">>

Options == [port : {0, 22, 2222}, compression : BOOLEAN, fwd : 0..2]
Plain == [port |-> 0, compression |-> FALSE, fwd |-> 0]

\* An entry is what ListEntries returns and a request carries: the ID of an
\* entry is a hash of its type and patterns, so it is these two.
Entry(type, pats, o) == [k |-> type, pats |-> pats, opts |-> o]
ID(e) == <<e.k, e.pats>>

Directive(key, val, indented) == [k |-> "dir", key |-> key, val |-> val, in |-> indented]
Begin == [k |-> "begin"]
End == [k |-> "end"]

\* buildManagedBlock: Host * with IdentityAgent, between the markers.
ManagedBlock == <<Begin, Entry("host", Star, [Plain EXCEPT !.fwd = 1]), End>>

--------------------------------------------------------------------------------
IsHeader(x) == x.k \in {"host", "match"}

\* There is one managed block or none.
SingleBlock(s) == \A i, j \in DOMAIN s : s[i] = Begin /\ s[j] = Begin => i = j

\* What a file consists of.
IsItem(x) ==
    \/ x \in {Begin, End}
    \/ IsHeader(x) /\ x = Entry(x.k, x.pats, x.opts) /\ x.opts \in Options
    \/ x = Directive(x.key, x.val, x.in)

\* The header that owns item i, 0 for a top-level item.
Owner(s, i) == SelectLastInSubSeq(s, 1, i - 1, IsHeader)

IsChild(s, i) == s[i].k = "dir" /\ Owner(s, i) # 0

HeaderAt(s, id) == SelectInSeq(s, LAMBDA x : IsHeader(x) /\ ID(x) = id)

\* sshconf.Delete: the block with this header and its children.
DeleteBlock(s, id) ==
    LET h == HeaderAt(s, id)
    IN  IF h = 0 THEN s
        ELSE KeptAt(s, {i \in DOMAIN s : i # h /\ ~(IsChild(s, i) /\ Owner(s, i) = h)})

\* sshconf.Patch: the block replaces the one with its header, or is appended.
Patch(s, e) ==
    LET h == HeaderAt(s, ID(e))
    IN  IF h = 0 THEN Append(s, e)
        ELSE KeptAt([s EXCEPT ![h] = e], {i \in DOMAIN s : ~(IsChild(s, i) /\ Owner(s, i) = h)})

--------------------------------------------------------------------------------
\* extractOptions: of an option that is not one of the known ones, the map of
\* extra options keeps one line.
ExtractOptions(o) == [o EXCEPT !.fwd = IF @ = 0 THEN 0 ELSE 1]

\* buildEntryBlock: port 22 is the default and is not written.
BuildEntryBlock(e) == Entry(e.k, e.pats, [e.opts EXCEPT !.port = IF @ = 22 THEN 0 ELSE @])

\* ListEntries: every header but Host *, in file order.
Headers(s) == {i \in DOMAIN s : IsHeader(s[i]) /\ ~(s[i].k = "host" /\ s[i].pats = Star)}

AsListed(x) == Entry(x.k, x.pats, ExtractOptions(x.opts))

ListEntries(s) == LET hs == KeptAt(s, Headers(s)) IN [i \in DOMAIN hs |-> AsListed(hs[i])]

EntryIDs(s) == {ID(s[i]) : i \in Headers(s)}

\* GetEntry: the first with this ID.
GetEntry(s, id) == AsListed(s[HeaderAt(s, id)])

\* A HostEntry has one alias and no Compression.
HostEntry(alias, port, fwd) == [alias |-> alias, port |-> port, fwd |-> fwd]

\* toHostEntry
ToHostEntry(e) == HostEntry(e.pats[1], e.opts.port, e.opts.fwd)

\* hostEntryToSSHConfigEntry
FromHostEntry(h) == Entry("host", <<h.alias>>, [Plain EXCEPT !.port = h.port, !.fwd = h.fwd])

\* List: the Host blocks as HostEntries, in file order.
Hosts(s) == {i \in Headers(s) : s[i].k = "host"}

ListHosts(s) == LET hs == KeptAt(s, Hosts(s)) IN [i \in DOMAIN hs |-> ToHostEntry(AsListed(hs[i]))]

\* Get: the first with this alias ...
WithAlias(s, alias) == {i \in Hosts(s) : s[i].pats[1] = alias}

GetHost(s, alias) == ToHostEntry(AsListed(s[Min(WithAlias(s, alias))]))

\* ... if there is one.
HasAlias(s, alias) == WithAlias(s, alias) # {}

\* AddEntry's check for duplicates compares the patterns of Host blocks.
SharesPattern(s, e) ==
    e.k = "host" /\ \E i \in Hosts(s) : ToSet(s[i].pats) \intersect ToSet(e.pats) # {}

--------------------------------------------------------------------------------
\* The messages of the API.  Options may be absent, and a type that is not set
\* means a Host block.
NoOptions == [absent |-> TRUE]


ToProtoSSHOptions(o) == [port |-> o.port, compression |-> o.compression, extra |-> o.fwd]

FromProtoSSHOptions(p) ==
    IF p = NoOptions THEN Plain ELSE [port |-> p.port, compression |-> p.compression, fwd |-> p.extra]

ToProtoSSHConfigEntry(e) ==
    [id |-> ID(e), type |-> IF e.k = "match" THEN "MATCH" ELSE "HOST",
     patterns |-> e.pats, options |-> ToProtoSSHOptions(e.opts)]

\* The ID of the message is not used: the patterns give it.
FromProtoSSHConfigEntry(p) ==
    Entry(IF p.type = "MATCH" THEN "match" ELSE "host", p.patterns, FromProtoSSHOptions(p.options))

ToProtoHostConfig(h) == [alias |-> h.alias, port |-> h.port, extraOptions |-> h.fwd]

FromProtoHostConfig(p) == HostEntry(p.alias, p.port, p.extraOptions)

--------------------------------------------------------------------------------
\* GetGlobalDirectives reads the file itself: the lines that are not indented.
GlobalDirectives(s) == {i \in DOMAIN s : s[i].k = "dir" /\ ~s[i].in}

\* What SetGlobalDirective and DeleteGlobalDirective write of the lines they
\* keep: the children of a header are indented.
Indented(s) == [i \in DOMAIN s |-> IF IsChild(s, i) THEN Directive(s[i].key, s[i].val, TRUE) ELSE s[i]]

TopLevelHits(s, key) == {i \in DOMAIN s : s[i].k = "dir" /\ ~IsChild(s, i) /\ s[i].key = key}

\* SetGlobalDirective: the top-level lines with this key are replaced; without
\* one, the line is written before the managed block or at the end of the file.
SetGlobal(s, key, val) ==
    LET line == Directive(key, val, FALSE)
        t == Indented(s)
        b == SelectInSeq(s, LAMBDA x : x = Begin)
        hits == TopLevelHits(s, key)
    IN  IF b # 0 /\ \A i \in hits : i > b
        THEN InsertAt([i \in DOMAIN t |-> IF i \in hits THEN line ELSE t[i]], b, line)
        ELSE IF hits # {} THEN [i \in DOMAIN t |-> IF i \in hits THEN line ELSE t[i]]
        ELSE Append(t, line)

\* DeleteGlobalDirective, of a key that has a top-level line.
DeleteGlobal(s, key) == KeptAt(Indented(s), DOMAIN s \ TopLevelHits(s, key))

\* The child directives of an entry are extra options to the code: one line
\* for each key, indented.
ExtraOptions(s, h) ==
    LET children == {i \in DOMAIN s : IsChild(s, i) /\ Owner(s, i) = h}
    IN  KeptAt(Indented(s), {i \in children : \A j \in children : j > i => s[j].key # s[i].key})

\* Reorder: the comments before the first header, then the listed entries,
\* built from their options.  Nothing else is written.
Reordered(s, ids) ==
    LET first == SelectInSeq(s, IsHeader)
        preamble == IF first = 0 THEN s ELSE SubSeq(s, 1, first - 1)
    IN  Kept(preamble, {Begin, End})
        \o FlattenSeq([i \in DOMAIN ids |->
               <<BuildEntryBlock(GetEntry(s, ids[i]))>> \o ExtraOptions(s, HeaderAt(s, ids[i]))])

--------------------------------------------------------------------------------

\* IsEnabled
IsEnabled(s) == Contains(s, Begin)

\* removeManagedBlock: everything from a begin marker to the next end marker,
\* or to the end of the file when there is none.
RemoveManagedBlock(s) ==
    KeptAt(s, {i \in DOMAIN s :
                 /\ s[i] \notin {Begin, End}
                 /\ SelectLastInSubSeq(s, 1, i, LAMBDA x : x = Begin)
                       <= SelectLastInSubSeq(s, 1, i, LAMBDA x : x = End)})
================================================================================
