---------------------------- MODULE AuthorizedKeys ----------------------------
(***************************************************************************)
(* hosts.AuthorizedKeysManager (skeys-core/hosts/authorized_keys.go) and    *)
(* the HostsService handlers that change authorized_keys.  A key is named   *)
(* by its line number in a listing a client has made before.  Remove and    *)
(* Update read the file again, keep the keys they can parse and rewrite the *)
(* file in place, without a lock and without a backup; Add appends, to the  *)
(* last line when nothing ends it.                                          *)
(*                                                                         *)
(* A line is a key with its options, a note (a comment or a blank line), or *)
(* garbled: sshd finds no key on it.  Of options it matters whether there   *)
(* are any and whether they contain a space, because the code takes the     *)
(* first field of the line for them all.                                    *)
(***************************************************************************)
EXTENDS Naturals, Sequences, SequencesExt, KeptLines

CONSTANTS
    Clients,       \* the clients; each lists the keys and makes one request
    NewKey,        \* NewKey[c]: the key client c adds
    AuthFiles,     \* what the file may contain at first
    MaxAuthFaults  \* bound: failed writes

VARIABLES
    auth,      \* authorized_keys
    authEnds,  \* the file is empty or ends with a newline
    apc,       \* apc[c]: where client c and its request are
    listed,    \* listed[c]: the file as client c has listed it
    call,      \* call[c]: the request
    text,      \* text[c]: the content it is going to write
    answer,    \* answer[c]: what it was answered
    authFaults,\* how often a write failed
    meant      \* the keys with their options as the clients mean them to be

avars == <<auth, authEnds, apc, listed, call, text, answer, authFaults, meant>>

KeyLine(k, o) == [k |-> "key", key |-> k, opt |-> o]
Note == [k |-> "note"]
Garbled(k, o) == [k |-> "garbled", key |-> k, opt |-> o]

OptionForms == {"none", "plain", "spaced"}

IsLine(l) ==
    l = Note \/ (l \in {KeyLine(l.key, l.opt), Garbled(l.key, l.opt)} /\ l.opt \in OptionForms)

ASSUME AuthorizedKeysAssumption ==
    /\ \A f \in AuthFiles : f \in Seq(ToSet(f)) /\ \A l \in ToSet(f) : IsLine(l)
    /\ MaxAuthFaults \in Nat

NoCall == [op |-> "none"]
NoAnswer == [k |-> "none"]
Error == [k |-> "error"]
Ok == [k |-> "ok"]
Void == [known |-> FALSE]

\* The keys that open the account, with their options.
Admitted(s) == {<<l.key, l.opt>> : l \in {x \in ToSet(s) : x.k = "key"}}

\* The keys meant to open the account, and those that an Add may have lost by
\* writing to a line that nothing ended: its own key and the one of that line.
Meant(keys, lost) == [known |-> TRUE, keys |-> keys, lost |-> lost]

\* NewAuthorizedKeysManager
AuthInit ==
    /\ auth \in AuthFiles
    /\ authEnds \in BOOLEAN /\ (auth = <<>> => authEnds)
    /\ apc = [c \in Clients |-> "new"]
    /\ listed = [c \in Clients |-> <<>>]
    /\ call = [c \in Clients |-> NoCall]
    /\ text = [c \in Clients |-> <<>>]
    /\ answer = [c \in Clients |-> NoAnswer]
    /\ authFaults = 0
    /\ meant = Meant(Admitted(auth), {})

--------------------------------------------------------------------------------
\* parseLine, parseOptions: a note gives nothing, any other line an entry with
\* its line number.  The first field is the options unless it is a key type: of
\* options with a space it is a part, and the word after it passes for the type.
ParseLine(s, i) ==
    LET spaced == s[i] # Note /\ s[i].opt = "spaced"
    IN  [id |-> i, line |-> s[i],
         options |-> IF spaced THEN "cut" ELSE IF s[i] = Note THEN "none" ELSE s[i].opt,
         type |-> IF spaced THEN "word" ELSE "type"]

\* List
List(s) == LET all == [i \in DOMAIN s |-> ParseLine(s, i)]
           IN  Kept(all, {e \in ToSet(all) : e.line # Note})

Lines(entries) == [j \in DOMAIN entries |-> entries[j].line]

\* Mutant: Remove numbers the entries instead of the lines.
RemoveByPosition(s, id) == LET es == List(s) IN Lines([j \in 1..Len(es) - 1 |-> IF j < id THEN es[j] ELSE es[j + 1]])

\* Remove: the entries with another line number.
Remaining(s, id) == Lines(Kept(List(s), {e \in ToSet(List(s)) : e.id # id}))

\* Update of one line: its first field is replaced when it is the options.  Of
\* options with spaces the other words stay before the key type, and sshd finds
\* no key on the line.
WithOptions(line, o) ==
    IF line.opt = "spaced" THEN Garbled(line.key, "spaced") ELSE [line EXCEPT !.opt = o]

Updated(s, id, o) ==
    LET es == List(s)
    IN  [j \in DOMAIN es |-> IF es[j].id = id THEN WithOptions(es[j].line, o) ELSE es[j].line]

--------------------------------------------------------------------------------
Writing == {c \in Clients : apc[c] \in {"called", "open", "write", "appended", "updated"}}

\* ListAuthorizedKeys
ListAuthorizedKeys(c) ==
    /\ apc[c] = "new"
    /\ apc' = [apc EXCEPT ![c] = "listed"]
    /\ listed' = [listed EXCEPT ![c] = auth]
    /\ UNCHANGED <<auth, authEnds, call, text, answer, authFaults, meant>>

\* The key of line id stands on another line, too.
Twice(s, id) == \E i \in DOMAIN s \ {id} : s[i].k = "key" /\ s[i].key = s[id].key

\* A request is sent.  What the clients mean is void when requests overlap, when
\* a line number comes from a listing that is out of date or is one of several
\* for its key, and when the options it replaces contain a space.
Send(c, q) ==
    /\ apc[c] = "listed"
    /\ apc' = [apc EXCEPT ![c] = "called"]
    /\ call' = [call EXCEPT ![c] = q]
    /\ meant' = IF \/ Writing # {}
                   \/ q.op # "add" /\ (listed[c] # auth \/ Twice(listed[c], q.id))
                   \/ q.op = "update" /\ listed[c][q.id].opt = "spaced"
                THEN Void ELSE meant
    /\ UNCHANGED <<auth, authEnds, listed, text, answer, authFaults>>

\* AddAuthorizedKey, UpdateAuthorizedKey, RemoveAuthorizedKey
AddAuthorizedKey(c) == \E o \in OptionForms : Send(c, [op |-> "add", opt |-> o])

Named(c) == {e.id : e \in {x \in ToSet(List(listed[c])) : x.line.k = "key"}}

UpdateAuthorizedKey(c) ==
    \E i \in Named(c), o \in OptionForms : Send(c, [op |-> "update", id |-> i, opt |-> o])

RemoveAuthorizedKey(c) == \E i \in Named(c) : Send(c, [op |-> "remove", id |-> i])

\* Add: one appending write.
Append1(c) ==
    /\ apc[c] = "called" /\ call[c].op = "add" /\ authEnds
    /\ auth' = Append(auth, KeyLine(NewKey[c], call[c].opt))
    /\ apc' = [apc EXCEPT ![c] = "appended"]
    /\ UNCHANGED <<authEnds, listed, call, text, answer, authFaults, meant>>

\* What becomes of a line with the one for a new key behind it: a comment goes
\* on, as does the comment of a key; the text of a key is spoiled; and spaces do
\* no harm.
Glued(line, new) ==
    CASE line = Note -> {Note, new}
      [] line.k = "key" -> {line, Garbled(line.key, line.opt)}
      [] OTHER -> {line}

\* The same write when the file does not end with a newline.
AppendGlued(c) ==
    /\ apc[c] = "called" /\ call[c].op = "add" /\ ~authEnds
    /\ \E l \in Glued(Last(auth), KeyLine(NewKey[c], call[c].opt)) :
          auth' = [auth EXCEPT ![Len(auth)] = l]
    /\ authEnds' = TRUE
    /\ meant' = IF meant.known
                THEN Meant(meant.keys, meant.lost \union {<<NewKey[c], call[c].opt>>}
                                                  \union Admitted(<<Last(auth)>>))
                ELSE meant
    /\ apc' = [apc EXCEPT ![c] = "appended"]
    /\ UNCHANGED <<listed, call, text, answer, authFaults>>

\* Remove and Update read and filter the file, ...
Rewrite(c) ==
    /\ apc[c] = "called" /\ call[c].op # "add"
    /\ text' = [text EXCEPT ![c] = IF call[c].op = "remove" THEN Remaining(auth, call[c].id)
                                   ELSE Updated(auth, call[c].id, call[c].opt)]
    /\ apc' = [apc EXCEPT ![c] = "open"]
    /\ UNCHANGED <<auth, authEnds, listed, call, answer, authFaults, meant>>

\* ... cut it ...
Cut(c) ==
    /\ apc[c] = "open"
    /\ auth' = <<>> /\ authEnds' = TRUE
    /\ apc' = [apc EXCEPT ![c] = "write"]
    /\ UNCHANGED <<listed, call, text, answer, authFaults, meant>>

\* ... and write from its start.
WriteBack(c) ==
    /\ apc[c] = "write"
    /\ auth' = text[c] \o SubSeq(auth, Len(text[c]) + 1, Len(auth))
    /\ authEnds' = TRUE
    /\ apc' = [apc EXCEPT ![c] = "updated"]
    /\ UNCHANGED <<listed, call, text, answer, authFaults, meant>>

\* The keys a request leaves, by the key behind the line number that it named.
Intended(c, keys) ==
    LET line == listed[c][call[c].id]
        rest == keys \ {<<line.key, line.opt>>}
    IN  CASE call[c].op = "add" -> keys \union {<<NewKey[c], call[c].opt>>}
          [] call[c].op = "remove" -> rest
          [] OTHER -> rest \union {<<line.key, call[c].opt>>}

\* The answer to Add is the last key of a new list.
AddAnswer(s, c) == Last(List(s))

\* A request is answered: Add and Update list the file once more, and answer
\* with the last key, with the key that has the line number now, or an error.
AuthAnswer(c) ==
    /\ apc[c] \in {"appended", "updated"}
    /\ LET hit == {e \in ToSet(List(auth)) : e.id = call[c].id}
       IN  answer' = [answer EXCEPT ![c] =
              CASE call[c].op = "add" -> IF List(auth) = <<>> THEN Error ELSE AddAnswer(auth, c)
                [] call[c].op = "update" -> IF hit = {} THEN Error ELSE CHOOSE e \in hit : TRUE
                [] OTHER -> Ok]
    /\ meant' = IF meant.known THEN Meant(Intended(c, meant.keys), meant.lost) ELSE meant
    /\ apc' = [apc EXCEPT ![c] = "done"]
    /\ UNCHANGED <<auth, authEnds, listed, call, text, authFaults>>

\* Reading, appending, opening or writing fails, or listing the file for the
\* answer to Add or Update; a file that was cut stays cut.
AuthFail(c) ==
    /\ authFaults < MaxAuthFaults /\ authFaults' = authFaults + 1
    /\ \/ apc[c] \in {"called", "open", "write"}
       \/ apc[c] \in {"appended", "updated"} /\ call[c].op # "remove"
    /\ answer' = [answer EXCEPT ![c] = Error]
    /\ meant' = IF apc[c] \in {"called", "open"} THEN meant ELSE Void
    /\ apc' = [apc EXCEPT ![c] = "done"]
    /\ UNCHANGED <<auth, authEnds, listed, call, text>>

AuthNext ==
    \E c \in Clients :
       \/ ListAuthorizedKeys(c)
       \/ AddAuthorizedKey(c) \/ UpdateAuthorizedKey(c) \/ RemoveAuthorizedKey(c)
       \/ Append1(c) \/ AppendGlued(c) \/ Rewrite(c) \/ Cut(c) \/ WriteBack(c)
       \/ AuthAnswer(c) \/ AuthFail(c)

--------------------------------------------------------------------------------
\* The lines of the file are the ones it may have, and requests are where their
\* handlers can be.
AuthTypeOK ==
    /\ \A i \in DOMAIN auth : auth[i].k \in {"key", "note", "garbled"}
    /\ apc \in [Clients -> {"new", "listed", "called", "open", "write", "appended", "updated", "done"}]
    /\ authFaults \in 0..MaxAuthFaults /\ authEnds \in BOOLEAN

\* The file admits these keys, but for some that were lost.
Admits(s, keys, lost) == Admitted(s) \subseteq keys /\ keys \ lost \subseteq Admitted(s)

\* The requests of clients whose line numbers are up to date and that do not
\* overlap do to the keys that open the account what the clients meant: no other
\* key is removed, added, or given other options.  An Add to a file that does not
\* end with a newline may lose the new key and the one on the last line, though
\* it is answered like the others; it touches no other key.
KeysAsMeant == (meant.known /\ Writing = {}) => Admits(auth, meant.keys, meant.lost)

\* As long as nobody interferes, a client that adds a key is answered with its
\* own line, and with its options and key type when the options have no space;
\* unless the key went to a last line that nothing ended.
AddAnswersOwn ==
    \A c \in Clients :
       (/\ meant.known /\ call[c].op = "add" /\ answer[c] \notin {NoAnswer, Error}
        /\ <<NewKey[c], call[c].opt>> \notin meant.lost)
          => /\ answer[c].line = KeyLine(NewKey[c], call[c].opt)
             /\ call[c].opt # "spaced" => answer[c].options = call[c].opt /\ answer[c].type = "type"

\* The authorized keys: the keys that open the account, and the answers of Add,
\* are what the clients meant.
AuthorizedSafe == AuthTypeOK /\ KeysAsMeant /\ AddAnswersOwn
================================================================================
