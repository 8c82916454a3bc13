---------------------------- MODULE KeyServiceProofs ----------------------------
(***************************************************************************)
(* Proofs about the key files, their watcher and the pushing of keys, for  *)
(* any number of names, keys, calls, sendUpdate goroutines and accidents.  *)
(***************************************************************************)
EXTENDS KeyService, SequenceTheorems, TLAPS

(* Pushing keys. *)

\* The file as the script finds it: whole lines, of which only the last may lack
\* its newline.
LinesOK ==
    /\ lines \in Seq(Seq(PushKeys \union {OtherKey}))
    /\ \A i \in 1..Len(lines) : lines[i] # <<>>
    /\ ~eol => lines # <<>>

PushInv == LinesOK /\ PushedOnce

\* A sequence is a function from its positions.
LEMMA Positions ==
    ASSUME NEW S, NEW s \in Seq(S)
    PROVE  Len(s) \in Nat /\ DOMAIN s = 1..Len(s) /\ \A i \in 1..Len(s) : s[i] \in S
  BY LenProperties, ElementOfSeq

LEMMA TextIs ==
    ASSUME LinesOK
    PROVE  Text = UNION {{lines[i][p] : p \in DOMAIN lines[i]} : i \in DOMAIN lines}
  BY DEF Text, Range

\* Appending to a file that ends with a newline starts a line.
LEMMA NewLine ==
    ASSUME PushInv, NEW k \in PushKeys, k \notin Text, lines' = Append(lines, <<k>>)
    PROVE  /\ lines' \in Seq(Seq(PushKeys \union {OtherKey}))
           /\ lines' # <<>>
           /\ \A i \in 1..Len(lines') : lines'[i] # <<>>
           /\ Text' = Text \union {k}
           /\ \A i, j \in DOMAIN lines' : \A p \in DOMAIN lines'[i], q \in DOMAIN lines'[j] :
                 lines'[i][p] = lines'[j][q] => i = j /\ p = q
           /\ Authorised \subseteq Authorised'
<1> DEFINE Line == Seq(PushKeys \union {OtherKey})
           N == Len(lines)
<1>1. <<k>> \in Line /\ lines \in Seq(Line)
  BY DEF PushInv, LinesOK
<1>2. /\ lines' \in Seq(Line) /\ Len(lines') = N + 1 /\ lines'[N + 1] = <<k>>
      /\ \A i \in 1..N : lines'[i] = lines[i]
  BY <1>1, AppendProperties
<1>3. N \in Nat /\ DOMAIN lines = 1..N /\ DOMAIN lines' = 1..(N + 1)
  BY <1>1, <1>2, LenProperties
<1>4. DOMAIN <<k>> = {1} /\ <<k>>[1] = k /\ <<k>> # <<>>
  OBVIOUS
<1>5. \A i \in 1..(N + 1) : i \in 1..N \/ i = N + 1
  BY <1>3
<1>6. \A i \in 1..(N + 1) : lines'[i] # <<>>
  BY <1>2, <1>3, <1>4, <1>5 DEF PushInv, LinesOK
<1>7. \A i \in 1..N : \A p \in DOMAIN lines[i] : lines[i][p] \in Text
  BY <1>3, TextIs DEF PushInv
<1>8. lines' # <<>>
  BY <1>2, <1>3
<1>9. Text' = Text \union {k}
  <2>1. LinesOK' \/ TRUE
    OBVIOUS
  <2>2. Text' = UNION {{lines'[i][p] : p \in DOMAIN lines'[i]} : i \in DOMAIN lines'}
    BY DEF Text, Range
  <2>3. ASSUME NEW x PROVE x \in Text' <=> \E i \in 1..(N + 1) : \E p \in DOMAIN lines'[i] : x = lines'[i][p]
    BY <2>2, <1>3
  <2>4. ASSUME NEW x PROVE x \in Text <=> \E i \in 1..N : \E p \in DOMAIN lines[i] : x = lines[i][p]
    BY TextIs, <1>3 DEF PushInv
  <2>5. N + 1 \in 1..(N + 1) /\ 1..N \subseteq 1..(N + 1)
    BY <1>3
  <2> HIDE DEF N
  <2>6. ASSUME NEW x PROVE x \in Text' => x \in Text \union {k}
    BY <2>3, <2>4, <1>2, <1>4, <1>5
  <2>7. ASSUME NEW x \in Text PROVE x \in Text'
    <3>1. PICK i \in 1..N : \E p \in DOMAIN lines[i] : x = lines[i][p]
      BY <2>4
    <3>2. lines'[i] = lines[i] /\ i \in 1..(N + 1)
      BY <1>2, <2>5
    <3> QED
      BY <2>3, <3>1, <3>2
  <2>8. k \in Text'
    BY <2>3, <2>5, <1>2, <1>4
  <2> QED
    BY <2>6, <2>7, <2>8
<1>10. ASSUME NEW i \in 1..(N + 1), NEW j \in 1..(N + 1),
              NEW p \in DOMAIN lines'[i], NEW q \in DOMAIN lines'[j],
              lines'[i][p] = lines'[j][q]
       PROVE  i = j /\ p = q
  <2>1. CASE i = N + 1 /\ j = N + 1
    BY <2>1, <1>2, <1>4
  <2>2. CASE i \in 1..N /\ j \in 1..N
    <3>1. lines'[i] = lines[i] /\ lines'[j] = lines[j] /\ i \in DOMAIN lines /\ j \in DOMAIN lines
      BY <2>2, <1>2, <1>3
    <3>2. p \in DOMAIN lines[i] /\ q \in DOMAIN lines[j] /\ lines[i][p] = lines[j][q]
      BY <3>1, <1>10
    <3> HIDE DEF N
    <3> QED
      BY <3>1, <3>2 DEF PushInv, PushedOnce
  <2>3. CASE i \in 1..N /\ j = N + 1
    BY <2>3, <1>10, <1>2, <1>4, <1>7
  <2>4. CASE i = N + 1 /\ j \in 1..N
    BY <2>4, <1>10, <1>2, <1>4, <1>7
  <2> QED
    BY <2>1, <2>2, <2>3, <2>4, <1>5
<1>11. Authorised \subseteq Authorised'
  <2>1. 1..N \subseteq 1..(N + 1)
    BY <1>3
  <2> QED
    BY <2>1, <1>2, <1>3 DEF Authorised
<1> QED
  BY <1>2, <1>3, <1>6, <1>8, <1>9, <1>10, <1>11

\* Appending to a file whose last line is not ended makes that line longer.
LEMMA LongerLine ==
    ASSUME PushInv, ~eol, NEW k \in PushKeys, k \notin Text,
           lines' = [lines EXCEPT ![Len(lines)] = Append(@, k)]
    PROVE  /\ lines' \in Seq(Seq(PushKeys \union {OtherKey}))
           /\ lines' # <<>>
           /\ \A i \in 1..Len(lines') : lines'[i] # <<>>
           /\ Text' = Text \union {k}
           /\ \A i, j \in DOMAIN lines' : \A p \in DOMAIN lines'[i], q \in DOMAIN lines'[j] :
                 lines'[i][p] = lines'[j][q] => i = j /\ p = q
           /\ Authorised \subseteq Authorised'
<1> DEFINE Line == Seq(PushKeys \union {OtherKey})
           N == Len(lines)
           last == lines[N]
           M == Len(last)
<1>1. lines \in Seq(Line) /\ lines # <<>> /\ \A i \in 1..N : lines[i] # <<>>
  BY DEF PushInv, LinesOK
<1>2. N \in Nat /\ N >= 1 /\ N \in 1..N /\ DOMAIN lines = 1..N
  BY <1>1, EmptySeq, LenProperties
<1>3. last \in Line /\ last # <<>>
  BY <1>1, <1>2, ElementOfSeq
<1>4. M \in Nat /\ M >= 1 /\ DOMAIN last = 1..M
  BY <1>3, EmptySeq, LenProperties
<1>5. /\ Append(last, k) \in Line /\ Len(Append(last, k)) = M + 1 /\ Append(last, k)[M + 1] = k
      /\ \A p \in 1..M : Append(last, k)[p] = last[p]
      /\ DOMAIN Append(last, k) = 1..(M + 1)
  <2>1. k \in PushKeys \union {OtherKey}
    OBVIOUS
  <2> QED
    BY <2>1, <1>3, AppendProperties, LenProperties
<1>6. /\ DOMAIN lines' = 1..N /\ lines'[N] = Append(last, k)
      /\ \A i \in 1..N : i # N => lines'[i] = lines[i]
  BY <1>2
<1>7. lines' \in Seq(Line) /\ Len(lines') = N
  BY <1>1, <1>2, <1>5, ExceptSeq
<1>8. lines' # <<>>
  BY <1>7, <1>2
<1>9. Append(last, k) # <<>>
  BY <1>5, <1>4
<1>10. \A i \in 1..N : lines'[i] # <<>>
  BY <1>1, <1>6, <1>9
<1>11. \A i \in 1..N : \A p \in DOMAIN lines[i] : lines[i][p] \in Text
  BY <1>2, TextIs DEF PushInv
<1>12. \A p \in 1..(M + 1) : p \in 1..M \/ p = M + 1
  BY <1>4
<1>13. /\ \A i \in 1..N : DOMAIN lines[i] \subseteq DOMAIN lines'[i]
       /\ \A i \in 1..N : \A p \in DOMAIN lines[i] : lines'[i][p] = lines[i][p]
       /\ \A i \in 1..N : \A p \in DOMAIN lines'[i] : p \notin DOMAIN lines[i] => i = N /\ p = M + 1
  <2>1. 1..M \subseteq 1..(M + 1)
    BY <1>4
  <2> HIDE DEF M, N
  <2> QED
    BY <2>1, <1>4, <1>5, <1>6, <1>12
<1>14. M + 1 \in DOMAIN lines'[N] /\ lines'[N][M + 1] = k
  <2>1. M + 1 \in 1..(M + 1)
    BY <1>4
  <2> HIDE DEF M, N, last
  <2> QED
    BY <2>1, <1>5, <1>6
<1>15. Text' = Text \union {k}
  <2>2. Text' = UNION {{lines'[i][p] : p \in DOMAIN lines'[i]} : i \in DOMAIN lines'}
    BY DEF Text, Range
  <2>3. ASSUME NEW x PROVE x \in Text' <=> \E i \in 1..N : \E p \in DOMAIN lines'[i] : x = lines'[i][p]
    <3> HIDE DEF N
    <3> QED
      BY <2>2, <1>6
  <2>4. ASSUME NEW x PROVE x \in Text <=> \E i \in 1..N : \E p \in DOMAIN lines[i] : x = lines[i][p]
    BY TextIs, <1>2 DEF PushInv
  <2> HIDE DEF M, N
  <2>6. ASSUME NEW x PROVE x \in Text' => x \in Text \union {k}
    BY <2>3, <2>4, <1>13, <1>14
  <2>7. ASSUME NEW x \in Text PROVE x \in Text'
    BY <2>3, <2>4, <1>13
  <2>8. k \in Text'
    BY <2>3, <1>2, <1>14
  <2> QED
    BY <2>6, <2>7, <2>8
<1>16. ASSUME NEW i \in 1..N, NEW j \in 1..N,
              NEW p \in DOMAIN lines'[i], NEW q \in DOMAIN lines'[j],
              lines'[i][p] = lines'[j][q]
       PROVE  i = j /\ p = q
  <2> HIDE DEF M, N
  <2>1. CASE p \in DOMAIN lines[i] /\ q \in DOMAIN lines[j]
    BY <2>1, <1>16, <1>2, <1>13 DEF PushInv, PushedOnce
  <2>2. CASE p \in DOMAIN lines[i] /\ q \notin DOMAIN lines[j]
    BY <2>2, <1>16, <1>11, <1>13, <1>14
  <2>3. CASE p \notin DOMAIN lines[i] /\ q \in DOMAIN lines[j]
    BY <2>3, <1>16, <1>11, <1>13, <1>14
  <2>4. CASE p \notin DOMAIN lines[i] /\ q \notin DOMAIN lines[j]
    BY <2>4, <1>13
  <2> QED
    BY <2>1, <2>2, <2>3, <2>4
<1>17. Authorised \subseteq Authorised'
  <2>1. \A i \in 1..N : 1 \in DOMAIN lines[i]
    <3>1. ASSUME NEW i \in 1..N PROVE 1 \in DOMAIN lines[i]
      <4>1. lines[i] \in Line /\ lines[i] # <<>>
        BY <1>1, ElementOfSeq
      <4> QED
        BY <4>1, EmptySeq, LenProperties
    <3> QED
      BY <3>1
  <2> HIDE DEF M, N
  <2> QED
    BY <2>1, <1>2, <1>6, <1>13 DEF Authorised
<1>18. \A i \in 1..Len(lines') : lines'[i] # <<>>
  BY <1>7, <1>10
<1>19. \A i, j \in DOMAIN lines' : \A p \in DOMAIN lines'[i], q \in DOMAIN lines'[j] :
          lines'[i][p] = lines'[j][q] => i = j /\ p = q
  <2> HIDE DEF N
  <2> QED
    BY <1>6, <1>16
<1> QED
  BY <1>7, <1>8, <1>15, <1>17, <1>18, <1>19

\* A request leaves the keys on the remote host each in its place.
LEMMA PushStep ==
    ASSUME PushInv, [PushNext]_pvars
    PROVE  PushInv' /\ Authorised \subseteq Authorised'
<1>1. ASSUME UNCHANGED <<lines, eol>>, pushed' = pushed
      PROVE  PushInv' /\ Authorised \subseteq Authorised'
  <2>1. Text' = Text /\ Authorised' = Authorised
    BY <1>1 DEF Text, Authorised
  <2>2. LinesOK'
    BY <1>1 DEF PushInv, LinesOK
  <2>3. PushedOnce'
    BY <1>1, <2>1 DEF PushInv, PushedOnce
  <2> QED
    BY <2>1, <2>2, <2>3 DEF PushInv
<1>2. ASSUME NEW k \in PushKeys, PushKeyToRemote(k)
      PROVE  PushInv' /\ Authorised \subseteq Authorised'
  <2>1. pushed' \subseteq pushed \union {k}
    BY <1>2 DEF PushKeyToRemote
  <2>2. CASE k \in Text
    <3>1. lines' = lines /\ eol' = eol
      BY <1>2, <2>2 DEF PushKeyToRemote, Script
    <3>2. Text' = Text /\ Authorised' = Authorised
      BY <3>1 DEF Text, Authorised
    <3>3. LinesOK'
      BY <3>1 DEF PushInv, LinesOK
    <3>4. PushedOnce'
      BY <2>1, <2>2, <3>1, <3>2 DEF PushInv, PushedOnce
    <3> QED
      BY <3>2, <3>3, <3>4 DEF PushInv
  <2>3. CASE k \notin Text
    <3>1. /\ lines' = IF eol THEN Append(lines, <<k>>) ELSE [lines EXCEPT ![Len(lines)] = Append(@, k)]
          /\ eol' = FALSE
      BY <1>2, <2>3 DEF PushKeyToRemote, Script
    <3>2. /\ lines' \in Seq(Seq(PushKeys \union {OtherKey}))
          /\ lines' # <<>>
          /\ \A i \in 1..Len(lines') : lines'[i] # <<>>
          /\ Text' = Text \union {k}
          /\ \A i, j \in DOMAIN lines' : \A p \in DOMAIN lines'[i], q \in DOMAIN lines'[j] :
                lines'[i][p] = lines'[j][q] => i = j /\ p = q
          /\ Authorised \subseteq Authorised'
      <4>1. CASE eol
        BY <4>1, <2>3, <3>1, NewLine
      <4>2. CASE ~eol
        BY <4>2, <2>3, <3>1, LongerLine
      <4> QED
        BY <4>1, <4>2
    <3>3. LinesOK'
      BY <3>2 DEF LinesOK
    <3>4. PushedOnce'
      BY <3>2, <2>1 DEF PushedOnce, PushInv
    <3> QED
      BY <3>2, <3>3, <3>4 DEF PushInv
  <2> QED
    BY <2>2, <2>3
<1>3. CASE PushRefused \/ PushFails \/ Connect \/ UNCHANGED pvars
  BY <1>1, <1>3 DEF PushRefused, PushFails, Connect, pvars
<1> QED
  BY <1>2, <1>3 DEF PushNext

\* Pushing a key, again after a lost answer too, leaves every pushed key in the
\* file once and takes nobody's access away (PushKeyToRemote).
THEOREM PushesAreSafe == Spec => PushSafe
<1>1. Init => PushInv
  <2> SUFFICES ASSUME Init PROVE PushInv
    OBVIOUS
  <2>1. lines = <<>> \/ lines = <<<<OtherKey>>>>
    BY DEF Init, PushInit
  <2>2. eol = TRUE /\ pushed = {}
    BY DEF Init, PushInit
  <2>3. LinesOK
    <3>1. <<>> \in Seq(Seq(PushKeys \union {OtherKey}))
      OBVIOUS
    <3>2. <<OtherKey>> \in Seq(PushKeys \union {OtherKey})
      OBVIOUS
    <3>3. <<<<OtherKey>>>> \in Seq(Seq(PushKeys \union {OtherKey}))
      BY <3>2
    <3>4. \A i \in 1..Len(lines) : lines[i] # <<>>
      BY <2>1
    <3> QED
      BY <2>1, <2>2, <3>1, <3>3, <3>4 DEF LinesOK
  <2>4. PushedOnce
    BY <2>1, <2>2 DEF PushedOnce
  <2> QED
    BY <2>3, <2>4 DEF PushInv
<1>2. PushInv /\ [Next]_svars => [PushNext]_pvars
  BY DEF Next, svars
<1>3. PushInv /\ [Next]_svars => PushInv' /\ [PushedOnce' /\ Authorised \subseteq Authorised']_pvars
  BY <1>2, PushStep DEF PushInv
<1> QED
  BY <1>1, <1>2, <1>3, PTL DEF Spec, PushSafe

(* The calls on the key files. *)

GenerateLabels == {"stat", "openPriv", "writePriv", "openPub", "writePub", "load"}
DeleteLabels == {"fingerprint", "agent", "agentFound", "removePriv", "removePub"}
PassphraseLabels == {"read", "reopen", "rewrite"}
AddLabels == {"readKey", "send"}
Labels == {"new", "done"} \union GenerateLabels \union DeleteLabels \union PassphraseLabels \union AddLabels

\* The labels at which a call has begun to change the files of its name.
TouchLabels == {"writePriv", "openPub", "writePub", "load", "removePub", "rewrite"}

HasKey(r) == r.k = "key" /\ r.fp \in Keys

FileOK(f) == f = NoFile \/ f = Cut \/ HasKey(f)

Promise(r) == r = NoKey \/ \E fp, kind, pass : r = [k |-> "key", fp |-> fp, kind |-> kind, pass |-> pass]

\* What the label of a call says about its request and the key it works on.
CallOK(c) ==
    /\ kpc[c] \in Labels
    /\ kpc[c] = "new" => req[c].op = "none" /\ mem[c] = NoKey
    /\ kpc[c] # "new" => req[c].name \in Names
    /\ mem[c] = NoKey \/ HasKey(mem[c])
    /\ kpc[c] \in GenerateLabels => req[c].op = "generate"
    /\ kpc[c] \in GenerateLabels \ {"stat"} => HasKey(mem[c]) /\ Generable(FromProtoKeyType(req[c].kind))
    /\ kpc[c] \in DeleteLabels => req[c].op = "delete"
    /\ kpc[c] \in {"agent", "agentFound"} => HasKey(mem[c])
    /\ kpc[c] = "agentFound" => removing[c] = {mem[c].fp}
    /\ kpc[c] \in PassphraseLabels => req[c].op = "passphrase"
    /\ kpc[c] \in {"reopen", "rewrite"} => HasKey(mem[c])
    /\ kpc[c] \in AddLabels => req[c].op = "add"
    /\ kpc[c] = "send" => HasKey(mem[c])

CallsOK ==
    /\ DOMAIN kpc = Calls /\ DOMAIN req = Calls /\ DOMAIN mem = Calls
    /\ DOMAIN alone = Calls /\ DOMAIN removing = Calls /\ DOMAIN outcome = Calls
    /\ \A c \in Calls : CallOK(c)
    /\ answer \in [Calls -> {"none", "ok", "error"}]

FilesOK ==
    /\ DOMAIN priv = Names /\ DOMAIN pub = Names /\ DOMAIN promised = Names
    /\ \A n \in Names : FileOK(priv[n]) /\ FileOK(pub[n])
    /\ \A n \in Names : Promise(promised[n])
    /\ doubt \subseteq Names
    /\ held \subseteq Keys
    /\ accidents \in Nat

\* Two calls on a name at the same time: neither is alone.
AloneOK == \A c, d \in Calls : (alone[c] /\ Active(c) /\ Active(d) /\ req[c].name = req[d].name) => c = d

KeyTypes == LockTypeOK /\ CallsOK /\ FilesOK /\ AloneOK

\* Key k is, or was about to be, in a file of name n.
Owns(n, k) ==
    \/ priv[n].k = "key" /\ priv[n].fp = k
    \/ pub[n].k = "key" /\ pub[n].fp = k
    \/ \E c \in Calls : mem[c].k = "key" /\ mem[c].fp = k /\ req[c].name = n

OneOwner == \A k : \A n, m \in Names : Owns(n, k) /\ Owns(m, k) => n = m

\* A key that Delete removed is in no private key file and in the hands of no
\* call that could bring it back.
GoneOK ==
    \A k \in gone :
       /\ k \notin held
       /\ \A n \in Names : priv[n].k = "key" => priv[n].fp # k
       /\ \A c \in Calls : (Active(c) /\ req[c].op # "delete" /\ mem[c].k = "key") => mem[c].fp # k

\* A Delete that has had its answer from an unlocked agent.
AgentFree ==
    \A c \in Calls :
       (kpc[c] = "removePriv" /\ alone[c] /\ outcome[c] \notin {"locked", "failed"} /\ mem[c].k = "key") => mem[c].fp \notin held

GoneInv == OneOwner /\ GoneOK /\ AgentFree

Deleted(n) == \E c \in Calls : req[c].op = "delete" /\ req[c].name = n

\* Without an accident and a Delete, a private key file that was cut is about to
\* be written, and one that was there or has been made stays.
SurviveInv ==
    accidents = 0 =>
       \A n \in Names : ~Deleted(n) =>
          /\ priv[n] = Cut => \E c \in Calls : kpc[c] \in {"writePriv", "rewrite"} /\ req[c].name = n
          /\ promised[n] # NoKey => priv[n] # NoFile
          /\ \A c \in Calls : (kpc[c] \in {"writePriv", "openPub", "writePub", "load", "rewrite"} /\ req[c].name = n)
                 => priv[n] # NoFile

\* The files of n are what the answers promise.
PubHolds(n) ==
    /\ pub[n].k = "key" /\ pub[n].fp = promised[n].fp
    /\ ToProtoKeyType(ParseKeyType(pub[n].alg)) = promised[n].kind

Holds(n) ==
    IF promised[n] = NoKey THEN priv[n] = NoFile /\ pub[n] = NoFile
    ELSE priv[n] = [k |-> "key", fp |-> promised[n].fp, pass |-> promised[n].pass] /\ PubHolds(n)

Touched(n) == \E c \in Calls : kpc[c] \in TouchLabels /\ req[c].name = n

\* What a call that is alone has made of the files so far.
Progress(c) ==
    LET n == req[c].name IN
    /\ kpc[c] \in {"openPub", "writePub", "load"} => priv[n] = MyPriv(c, req[c].pass)
    /\ kpc[c] = "load" =>
          pub[n] = [k |-> "key", fp |-> mem[c].fp, alg |-> AlgorithmOf(FromProtoKeyType(req[c].kind))]
    /\ kpc[c] = "removePub" => priv[n] = NoFile
    /\ (kpc[c] \in {"reopen", "rewrite"} /\ n \notin doubt) =>
          promised[n] # NoKey /\ promised[n].fp = mem[c].fp /\ PubHolds(n)

SettledInv ==
    /\ \A n \in Names \ doubt : ~Touched(n) => Holds(n)
    /\ \A c \in Calls : alone[c] => Progress(c)

KeyInv == KeyTypes /\ GoneInv /\ SurviveInv /\ SettledInv

(* The watcher. *)

Dirty ==
    \/ dirEvent \/ agentSignal \/ timer
    \/ told < changes
    \/ \E u \in Updates : update[u].at = "begun"

Current(l) == l.k = "list" /\ \A n \in Names \ pubSince : l.keys[n] = Seen(blind)[n]

\* What was broadcast last is the list to compare with, or an error.
Last == shown = prevKeys \/ shown = Failure

UpdateOK(u) ==
    /\ update[u] = [at |-> update[u].at, list |-> update[u].list]
    /\ \/ update[u].at \in {"idle", "begun"} /\ update[u].list = Nothing
       \/ update[u].at \in {"listed", "sent"} /\ update[u].list.k = "list"

WatchTypes ==
    /\ changes \in Nat /\ told \in Nat /\ told <= changes
    /\ DOMAIN update = Updates /\ \A u \in Updates : UpdateOK(u)
    /\ loop # "waiting" => /\ ~timer /\ ~overlapped /\ shown.k # "list"
                           /\ \A u \in Updates : update[u] = Idle

\* The last of the lists that sendUpdate has got hold of is the current one, or
\* there is cause for another.
Follows(u) ==
    /\ update[u].at = "begun" => Last
    /\ update[u].at = "listed" => Last /\ (Dirty \/ Current(update[u].list))
    /\ update[u].at = "sent" => shown = update[u].list /\ (Dirty \/ Current(shown))

WatchInv ==
    /\ WatchTypes
    /\ loop = "sending" => prevKeys.k = "list" /\ (Dirty \/ Current(prevKeys))
    /\ (loop = "waiting" /\ ~overlapped) =>
          /\ \A u, v \in Updates : update[u] # Idle /\ update[v] # Idle => u = v
          /\ \A u \in Updates : Follows(u)
          /\ (\A u \in Updates : update[u] = Idle) => Last /\ (Dirty \/ shown = Failure \/ Current(shown))

ServiceInv == part \in {"files", "push"} /\ KeyInv /\ WatchInv

(* What a step of a call leaves alone. *)

Frame(c) ==
    LET n == req[c].name IN
    /\ req' = req /\ alone' = alone
    /\ DOMAIN kpc' = Calls /\ DOMAIN mem' = Calls /\ DOMAIN answer' = Calls
    /\ DOMAIN removing' = Calls /\ DOMAIN outcome' = Calls
    /\ DOMAIN priv' = Names /\ DOMAIN pub' = Names /\ DOMAIN promised' = Names
    /\ \A d \in Calls : d # c => /\ kpc'[d] = kpc[d] /\ mem'[d] = mem[d] /\ answer'[d] = answer[d]
                                 /\ removing'[d] = removing[d] /\ outcome'[d] = outcome[d]
    /\ \A m \in Names : m # n => /\ priv'[m] = priv[m] /\ pub'[m] = pub[m] /\ promised'[m] = promised[m]
                                 /\ m \in doubt' <=> m \in doubt
    /\ doubt' \subseteq doubt \union {n}

LEMMA Actives ==
    ASSUME NEW c \in Calls, CallStep(c)
    PROVE  Active(c)
  BY DEF CallStep, Active, Generate, GenerateRefused, OpenPrivate, WritePrivate, WritePrivateFails, OpenPublic, WritePublic, WritePublicFails, LoadGenerated, TakeFingerprint, AskAgent, AskAgentFails, RemoveFromAgent, RemovePrivate, RemovePublic, RemoveFails, ReadPrivate, ReadRefused, ReopenPrivate, RewritePrivate, RewriteFails, ReadKey, SendKey

\* A step of a call changes the call and the files of its name.
LEMMA StepFrame ==
    ASSUME KeyTypes, NEW c \in Calls, CallStep(c)
    PROVE  Frame(c)
<1> DEFINE n == req[c].name
<1>0. Active(c)
  BY Actives
<1>1. n \in Names
  BY <1>0 DEF KeyTypes, CallsOK, CallOK, Active
<1>2. /\ DOMAIN kpc = Calls /\ DOMAIN mem = Calls /\ DOMAIN answer = Calls
      /\ DOMAIN removing = Calls /\ DOMAIN outcome = Calls
      /\ DOMAIN priv = Names /\ DOMAIN pub = Names /\ DOMAIN promised = Names
  BY DEF KeyTypes, CallsOK, FilesOK
<1> USE <1>1, <1>2
<1> USE DEF Frame, Answer, Goto, avars, keyVars, lockVars, timeVars, clientVars, fileVars, callVars, histVars, Calls
<1>3. CASE Generate(c)
  BY <1>3 DEF Generate
<1>4. CASE GenerateRefused(c)
  BY <1>4 DEF GenerateRefused
<1>5. CASE OpenPrivate(c)
  BY <1>5 DEF OpenPrivate
<1>6. CASE WritePrivate(c)
  BY <1>6 DEF WritePrivate
<1>7. CASE WritePrivateFails(c)
  BY <1>7 DEF WritePrivateFails
<1>8. CASE OpenPublic(c)
  BY <1>8 DEF OpenPublic
<1>9. CASE WritePublic(c)
  BY <1>9 DEF WritePublic
<1>10. CASE WritePublicFails(c)
  BY <1>10 DEF WritePublicFails
<1>11. CASE LoadGenerated(c)
  BY <1>11 DEF LoadGenerated
<1>12. CASE TakeFingerprint(c)
  BY <1>12 DEF TakeFingerprint
<1>13. CASE AskAgent(c)
  BY <1>13 DEF AskAgent, RemoveList
<1>13a. CASE AskAgentFails(c)
  BY <1>13a DEF AskAgentFails
<1>14. CASE RemoveFromAgent(c)
  BY <1>14 DEF RemoveFromAgent, RemoveFound, SpawnNotify
<1>15. CASE RemovePrivate(c)
  BY <1>15 DEF RemovePrivate
<1>16. CASE RemovePublic(c)
  BY <1>16 DEF RemovePublic
<1>17. CASE RemoveFails(c)
  BY <1>17 DEF RemoveFails
<1>18. CASE ReadPrivate(c)
  BY <1>18 DEF ReadPrivate
<1>19. CASE ReadRefused(c)
  BY <1>19 DEF ReadRefused
<1>20. CASE ReopenPrivate(c)
  BY <1>20 DEF ReopenPrivate
<1>21. CASE RewritePrivate(c)
  BY <1>21 DEF RewritePrivate
<1>22. CASE RewriteFails(c)
  BY <1>22 DEF RewriteFails
<1>23. CASE ReadKey(c)
  BY <1>23 DEF ReadKey
<1>24. CASE SendKey(c)
  BY <1>24 DEF SendKey, Add, SpawnNotify, Answer
<1> QED
  BY <1>3, <1>4, <1>5, <1>6, <1>7, <1>8, <1>9, <1>10, <1>11, <1>12, <1>13, <1>13a, <1>14, <1>15, <1>16, <1>17, <1>18, <1>19, <1>20, <1>21, <1>22, <1>23, <1>24 DEF CallStep

\* The fingerprint of a name is that of one of its files.
LEMMA FingerprintIs ==
    ASSUME NEW n \in Names, NEW k \in Fingerprint(n)
    PROVE  \/ pub[n].k = "key" /\ pub[n].fp = k
           \/ priv[n].k = "key" /\ priv[n].fp = k
<1>1. CASE pub[n] = NoFile
  BY <1>1 DEF Fingerprint, CalculateFingerprint
<1>2. CASE pub[n] # NoFile
  BY <1>2 DEF Fingerprint, CalculateFingerprint
<1> QED
  BY <1>1, <1>2

\* A call works on a key of a kind that fits its label.
LEMMA CallStepOK ==
    ASSUME KeyTypes, NEW c \in Calls, CallStep(c)
    PROVE  CallOK(c)'
<1> DEFINE n == req[c].name
<1>1. n \in Names /\ CallOK(c) /\ FileOK(priv[n]) /\ FileOK(pub[n])
  BY Actives DEF KeyTypes, CallsOK, CallOK, FilesOK, Active
<1>2. DOMAIN kpc = Calls /\ DOMAIN mem = Calls /\ DOMAIN removing = Calls
  BY DEF KeyTypes, CallsOK
<1> USE <1>1, <1>2
<1> USE DEF CallOK, Answer, Goto, avars, keyVars, lockVars, timeVars, clientVars, fileVars, callVars, histVars, Calls,
            Labels, GenerateLabels, DeleteLabels, PassphraseLabels, AddLabels, HasKey, NoKey, NoFile, Cut
<1>3. CASE Generate(c)
  BY <1>3 DEF Generate
<1>4. CASE GenerateRefused(c)
  BY <1>4 DEF GenerateRefused
<1>5. CASE OpenPrivate(c)
  BY <1>5 DEF OpenPrivate
<1>6. CASE WritePrivate(c)
  BY <1>6 DEF WritePrivate
<1>7. CASE WritePrivateFails(c)
  BY <1>7 DEF WritePrivateFails
<1>8. CASE OpenPublic(c)
  BY <1>8 DEF OpenPublic
<1>9. CASE WritePublic(c)
  BY <1>9 DEF WritePublic
<1>10. CASE WritePublicFails(c)
  BY <1>10 DEF WritePublicFails
<1>11. CASE LoadGenerated(c)
  BY <1>11 DEF LoadGenerated
<1>12. CASE TakeFingerprint(c)
  <2>1. Fingerprint(n) \subseteq Keys
    BY FingerprintIs DEF FileOK
  <2> HIDE DEF n
  <2>2. CASE Fingerprint(n) = {}
    BY <1>12, <2>2 DEF TakeFingerprint, n
  <2>3. CASE Fingerprint(n) # {}
    <3>1. (CHOOSE k \in Fingerprint(n) : TRUE) \in Keys
      BY <2>1, <2>3
    <3> QED
      BY <1>12, <2>3, <3>1 DEF TakeFingerprint, n
  <2> QED
    BY <2>2, <2>3
<1>13. CASE AskAgent(c)
  BY <1>13 DEF AskAgent, RemoveList
<1>13a. CASE AskAgentFails(c)
  BY <1>13a DEF AskAgentFails
<1>14. CASE RemoveFromAgent(c)
  BY <1>14 DEF RemoveFromAgent, RemoveFound, SpawnNotify
<1>15. CASE RemovePrivate(c)
  BY <1>15 DEF RemovePrivate
<1>16. CASE RemovePublic(c)
  BY <1>16 DEF RemovePublic
<1>17. CASE RemoveFails(c)
  BY <1>17 DEF RemoveFails
<1>18. CASE ReadPrivate(c)
  BY <1>18 DEF ReadPrivate, Opens, FileOK
<1>19. CASE ReadRefused(c)
  BY <1>19 DEF ReadRefused
<1>20. CASE ReopenPrivate(c)
  BY <1>20 DEF ReopenPrivate
<1>21. CASE RewritePrivate(c)
  BY <1>21 DEF RewritePrivate
<1>22. CASE RewriteFails(c)
  BY <1>22 DEF RewriteFails
<1>23. CASE ReadKey(c)
  BY <1>23 DEF ReadKey, Opens, FileOK
<1>24. CASE SendKey(c)
  BY <1>24 DEF SendKey, Add, SpawnNotify, Answer
<1> QED
  BY <1>3, <1>4, <1>5, <1>6, <1>7, <1>8, <1>9, <1>10, <1>11, <1>12, <1>13, <1>13a, <1>14, <1>15, <1>16, <1>17, <1>18, <1>19, <1>20, <1>21, <1>22, <1>23, <1>24 DEF CallStep

\* The files hold keys, and so does the agent.
LEMMA FilesStepOK ==
    ASSUME KeyTypes, NEW c \in Calls, CallStep(c)
    PROVE  /\ \A n \in Names : FileOK(priv[n])' /\ FileOK(pub[n])'
           /\ \A n \in Names : Promise(promised[n])'
           /\ held' \subseteq Keys /\ accidents' \in Nat
           /\ answer' \in [Calls -> {"none", "ok", "error"}]
<1> DEFINE n == req[c].name
<1>1. /\ n \in Names /\ CallOK(c) /\ FileOK(priv[n]) /\ FileOK(pub[n])
      /\ Promise(promised[n])
      /\ held \subseteq Keys /\ accidents \in Nat /\ answer \in [Calls -> {"none", "ok", "error"}]
  BY Actives DEF KeyTypes, CallsOK, CallOK, FilesOK, Active
<1>2. /\ DOMAIN priv = Names /\ DOMAIN pub = Names /\ DOMAIN promised = Names
  BY DEF KeyTypes, CallsOK, FilesOK
<1> DEFINE Own == /\ FileOK(priv[n])' /\ FileOK(pub[n])'
                  /\ Promise(promised[n])'
                  /\ held' \subseteq Keys /\ accidents' \in Nat
                  /\ answer' \in [Calls -> {"none", "ok", "error"}]
<1>3. req' = req
  BY StepFrame DEF Frame
<1>4. n' = n
  BY <1>3
<1> HIDE DEF n
<1>a. Own
  <2> USE <1>1, <1>2, <1>3
  <2> USE DEF CallOK, FileOK, Answer, Goto, avars, keyVars, lockVars, timeVars, clientVars, fileVars, callVars, histVars, Calls,
              Labels, GenerateLabels, DeleteLabels, PassphraseLabels, AddLabels, HasKey, NoKey, NoFile, Cut, n, MyPriv, Accident
  <2>1. CASE Generate(c)
    BY <2>1 DEF Generate
  <2>2. CASE GenerateRefused(c)
    BY <2>2 DEF GenerateRefused
  <2>3. CASE OpenPrivate(c)
    BY <2>3 DEF OpenPrivate
  <2>4. CASE WritePrivate(c)
    BY <2>4 DEF WritePrivate
  <2>5. CASE WritePrivateFails(c)
    BY <2>5 DEF WritePrivateFails
  <2>6. CASE OpenPublic(c)
    BY <2>6 DEF OpenPublic
  <2>7. CASE WritePublic(c)
    BY <2>7 DEF WritePublic
  <2>8. CASE WritePublicFails(c)
    BY <2>8 DEF WritePublicFails
  <2>9. CASE LoadGenerated(c)
    <3>1. promised'[n] = promised[n] \/ \E fp, kind, pass : promised'[n] = [k |-> "key", fp |-> fp, kind |-> kind, pass |-> pass]
      BY <2>9 DEF LoadGenerated
    <3>2. Promise(promised[n])'
      <4> HIDE DEF n, CallOK, FileOK, MyPriv, HasKey
      <4> QED
        BY <3>1, <1>1, <1>4 DEF Promise
    <3> QED
      BY <2>9, <3>2 DEF LoadGenerated
  <2>10. CASE TakeFingerprint(c)
    BY <2>10 DEF TakeFingerprint
  <2>11. CASE AskAgent(c)
    BY <2>11 DEF AskAgent, RemoveList
  <2>11a. CASE AskAgentFails(c)
    BY <2>11a DEF AskAgentFails
  <2>12. CASE RemoveFromAgent(c)
    BY <2>12 DEF RemoveFromAgent, RemoveFound, SpawnNotify
  <2>13. CASE RemovePrivate(c)
    BY <2>13 DEF RemovePrivate
  <2>14. CASE RemovePublic(c)
    <3>1. promised'[n] = promised[n] \/ promised'[n] = NoKey
      BY <2>14 DEF RemovePublic
    <3>2. Promise(promised[n])'
      <4> HIDE DEF n, CallOK, FileOK, MyPriv, HasKey
      <4> QED
        BY <3>1, <1>1, <1>4 DEF Promise
    <3> QED
      BY <2>14, <3>2 DEF RemovePublic
  <2>15. CASE RemoveFails(c)
    BY <2>15 DEF RemoveFails
  <2>16. CASE ReadPrivate(c)
    BY <2>16 DEF ReadPrivate
  <2>17. CASE ReadRefused(c)
    BY <2>17 DEF ReadRefused
  <2>18. CASE ReopenPrivate(c)
    BY <2>18 DEF ReopenPrivate
  <2>19. CASE RewritePrivate(c)
    <3>1. \/ promised'[n] = promised[n]
          \/ promised'[n] = NoKey
          \/ promised[n].k = "key" /\ promised'[n] = [promised[n] EXCEPT !.pass = req[c].pass]
      BY <2>19 DEF RewritePrivate
    <3>2. ASSUME promised[n].k = "key", promised'[n] = [promised[n] EXCEPT !.pass = req[c].pass]
          PROVE  \E fp, kind, pass : promised'[n] = [k |-> "key", fp |-> fp, kind |-> kind, pass |-> pass]
      <4>0. promised[n] # NoKey
        BY <3>2 DEF NoKey
      <4>1. PICK fp, kind, pass : promised[n] = [k |-> "key", fp |-> fp, kind |-> kind, pass |-> pass]
        <5> HIDE DEF n, NoKey
        <5> QED
          BY <4>0, <1>1 DEF Promise
      <4>2. promised'[n] = [k |-> "key", fp |-> fp, kind |-> kind, pass |-> req[c].pass]
        BY <3>2, <4>1
      <4> QED
        BY <4>2
    <3>3. Promise(promised[n])'
      <4> HIDE DEF n, CallOK, FileOK, MyPriv, HasKey
      <4> QED
        BY <3>1, <3>2, <1>1, <1>4 DEF Promise
    <3> QED
      BY <2>19, <3>3 DEF RewritePrivate
  <2>20. CASE RewriteFails(c)
    BY <2>20 DEF RewriteFails
  <2>21. CASE ReadKey(c)
    BY <2>21 DEF ReadKey
  <2>22. CASE SendKey(c)
    BY <2>22 DEF SendKey, Add, SpawnNotify
  <2> QED
    BY <2>1, <2>2, <2>3, <2>4, <2>5, <2>6, <2>7, <2>8, <2>9, <2>10, <2>11, <2>11a, <2>12, <2>13, <2>14, <2>15, <2>16, <2>17, <2>18, <2>19, <2>20, <2>21, <2>22 DEF CallStep
<1>b. \A m \in Names : m # n => priv'[m] = priv[m] /\ pub'[m] = pub[m] /\ promised'[m] = promised[m]
  BY StepFrame DEF Frame, n
<1>c. \A m \in Names : FileOK(priv[m]) /\ FileOK(pub[m]) /\ Promise(promised[m])
  BY DEF KeyTypes, FilesOK
<1>e. ASSUME NEW m \in Names PROVE FileOK(priv[m])' /\ FileOK(pub[m])' /\ Promise(promised[m])'
  <2>1. CASE m = n
    BY <2>1, <1>a, <1>4 DEF FileOK, Promise
  <2>2. CASE m # n
    BY <2>2, <1>b, <1>c DEF FileOK, Promise
  <2> QED
    BY <2>1, <2>2
<1> QED
  BY <1>a, <1>e

\* The passphrase of the agent and its lock change together.
LEMMA LockStepOK ==
    ASSUME LockTypeOK, KeyNext \/ KeyCrash
    PROVE  LockTypeOK'
<1>1. CASE LockOrUnlock
  <2>1. PICK p \in Passphrases : Lock(p) \/ Unlock(p)
    BY <1>1 DEF LockOrUnlock
  <2> QED
    BY <2>1, ManagedAgentAssumption DEF Lock, Unlock, LockTypeOK
<1>2. ASSUME NEW c \in Calls, CallArrives(c) \/ CallStep(c)
      PROVE  LockTypeOK'
  <2>1. UNCHANGED <<locked, lockPass>>
    BY <1>2 DEF CallArrives, GenerateKey, DeleteKey, ChangePassphrase, AddKeyToAgent, Arrive, avars, lockVars,
       RemoveFound, RemoveList, Add, CallStep, Generate, GenerateRefused, OpenPrivate, WritePrivate, WritePrivateFails, OpenPublic, WritePublic, WritePublicFails, LoadGenerated, TakeFingerprint, AskAgent, AskAgentFails, RemoveFromAgent, RemovePrivate, RemovePublic, RemoveFails, ReadPrivate, ReadRefused, ReopenPrivate, RewritePrivate, RewriteFails, ReadKey, SendKey
  <2> QED
    BY <2>1 DEF LockTypeOK
<1>3. CASE KeyCrash
  BY <1>3 DEF KeyCrash, LockTypeOK
<1> QED
  BY <1>1, <1>2, <1>3 DEF KeyNext

LEMMA CallTypesStep ==
    ASSUME KeyTypes, NEW c \in Calls, CallStep(c)
    PROVE  KeyTypes'
<1> USE DEF KeyTypes
<1>1. Frame(c) /\ Active(c)
  BY StepFrame, Actives
<1>2. LockTypeOK'
  BY LockStepOK DEF KeyNext
<1>3. CallsOK'
  <2>1. ASSUME NEW d \in Calls, d # c
        PROVE  CallOK(d)'
    <3>1. CallOK(d)
      BY DEF CallsOK
    <3>2. kpc'[d] = kpc[d] /\ mem'[d] = mem[d] /\ answer'[d] = answer[d] /\ removing'[d] = removing[d] /\ req' = req
      BY <1>1, <2>1 DEF Frame
    <3> QED
      BY <3>1, <3>2 DEF CallOK
  <2>2. CallOK(c)' /\ answer' \in [Calls -> {"none", "ok", "error"}]
    BY CallStepOK, FilesStepOK
  <2> QED
    BY <2>1, <2>2, <1>1 DEF CallsOK, Frame
<1>4. FilesOK'
  <2>1. doubt' \subseteq Names
    BY <1>1 DEF Frame, FilesOK, CallsOK, CallOK, Active
  <2> QED
    BY <2>1, <1>1, FilesStepOK DEF FilesOK, Frame
<1>5. AloneOK'
  <2>1. \A d \in Calls : Active(d)' => Active(d)
    BY <1>1 DEF Frame, Active
  <2> QED
    BY <2>1, <1>1 DEF AloneOK, Frame
<1> QED
  BY <1>2, <1>3, <1>4, <1>5

\* Nothing of the files, of the calls and of the keys in the agent changes.
LEMMA KeysUnchanged ==
    ASSUME KeyInv, LockTypeOK', UNCHANGED <<fileVars, callVars, histVars, held, removing, outcome>>,
           accidents' = accidents \/ (accidents' \in Nat /\ accidents' # 0)
    PROVE  KeyInv'
<1> USE DEF KeyInv, fileVars, callVars, histVars
<1>1. KeyTypes'
  BY DEF KeyTypes, CallsOK, CallOK, FilesOK, FileOK, Promise, AloneOK, Active
<1>2. GoneInv'
  <2>1. OneOwner'
    BY DEF GoneInv, OneOwner, Owns
  <2>2. GoneOK'
    BY DEF GoneInv, GoneOK, Active
  <2>3. AgentFree'
    BY DEF GoneInv, AgentFree
  <2> QED
    BY <2>1, <2>2, <2>3 DEF GoneInv
<1>3. SurviveInv'
  BY DEF SurviveInv, Deleted
<1>4. SettledInv'
  BY DEF SettledInv, Touched, Holds, PubHolds, Progress, MyPriv
<1> QED
  BY <1>1, <1>2, <1>3, <1>4

LEMMA LockKeepsKeyInv ==
    ASSUME KeyInv, LockOrUnlock
    PROVE  KeyInv'
<1>1. LockTypeOK'
  BY LockStepOK DEF KeyNext, KeyInv, KeyTypes
<1>2. UNCHANGED <<kfvars, held, removing, outcome>>
  BY DEF LockOrUnlock, Lock, Unlock, keyVars, clientVars
<1> QED
  BY <1>1, <1>2, KeysUnchanged DEF kfvars

\* A call arrives at the label that its request leads to.
LEMMA ArriveIs ==
    ASSUME NEW c \in Calls, CallArrives(c)
    PROVE  \E r, label :
              /\ Arrive(c, r, label)
              /\ r.name \in Names
              /\ \/ r.op = "generate" /\ label = "stat"
                 \/ r.op = "delete" /\ label = "fingerprint"
                 \/ r.op = "passphrase" /\ label = "read"
                 \/ r.op = "add" /\ label = "readKey"
<1>1. PICK n \in Names :
         \/ \E kind \in KeyKinds, pass \in KeyPasses : GenerateKey(c, n, kind, pass)
         \/ DeleteKey(c, n)
         \/ \E old, new \in KeyPasses : ChangePassphrase(c, n, old, new)
         \/ \E pass \in KeyPasses : AddKeyToAgent(c, n, pass)
  BY DEF CallArrives
<1>2. ASSUME NEW kind \in KeyKinds, NEW pass \in KeyPasses, GenerateKey(c, n, kind, pass)
      PROVE  \E r : Arrive(c, r, "stat") /\ r.name = n /\ r.op = "generate"
  <2> DEFINE r == [op |-> "generate", name |-> n, kind |-> kind, old |-> "", pass |-> pass]
  <2>1. Arrive(c, r, "stat")
    BY <1>2 DEF GenerateKey
  <2>2. r.name = n /\ r.op = "generate"
    OBVIOUS
  <2> HIDE DEF r
  <2> QED
    BY <2>1, <2>2
<1>3. ASSUME DeleteKey(c, n)
      PROVE  \E r : Arrive(c, r, "fingerprint") /\ r.name = n /\ r.op = "delete"
  <2> DEFINE r == [op |-> "delete", name |-> n, kind |-> "", old |-> "", pass |-> ""]
  <2>1. Arrive(c, r, "fingerprint")
    BY <1>3 DEF DeleteKey
  <2>2. r.name = n /\ r.op = "delete"
    OBVIOUS
  <2> HIDE DEF r
  <2> QED
    BY <2>1, <2>2
<1>4. ASSUME NEW old \in KeyPasses, NEW new \in KeyPasses, ChangePassphrase(c, n, old, new)
      PROVE  \E r : Arrive(c, r, "read") /\ r.name = n /\ r.op = "passphrase"
  <2> DEFINE r == [op |-> "passphrase", name |-> n, kind |-> "", old |-> old, pass |-> new]
  <2>1. Arrive(c, r, "read")
    BY <1>4 DEF ChangePassphrase
  <2>2. r.name = n /\ r.op = "passphrase"
    OBVIOUS
  <2> HIDE DEF r
  <2> QED
    BY <2>1, <2>2
<1>5. ASSUME NEW pass \in KeyPasses, AddKeyToAgent(c, n, pass)
      PROVE  \E r : Arrive(c, r, "readKey") /\ r.name = n /\ r.op = "add"
  <2> DEFINE r == [op |-> "add", name |-> n, kind |-> "", old |-> "", pass |-> pass]
  <2>1. Arrive(c, r, "readKey")
    BY <1>5 DEF AddKeyToAgent
  <2>2. r.name = n /\ r.op = "add"
    OBVIOUS
  <2> HIDE DEF r
  <2> QED
    BY <2>1, <2>2
<1> QED
  BY <1>1, <1>2, <1>3, <1>4, <1>5

LEMMA ArriveKeepsKeyInv ==
    ASSUME KeyInv, NEW c \in Calls, CallArrives(c)
    PROVE  KeyInv'
<1>1. PICK r, label :
              /\ Arrive(c, r, label)
              /\ r.name \in Names
              /\ \/ r.op = "generate" /\ label = "stat"
                 \/ r.op = "delete" /\ label = "fingerprint"
                 \/ r.op = "passphrase" /\ label = "read"
                 \/ r.op = "add" /\ label = "readKey"
  BY ArriveIs
<1>2. /\ kpc[c] = "new" /\ mem[c] = NoKey
      /\ kpc' = [kpc EXCEPT ![c] = label]
      /\ req' = [req EXCEPT ![c] = r]
      /\ alone' = [d \in Calls |-> IF d = c THEN \A e \in Calls : ~On(e, r.name) ELSE alone[d] /\ ~On(d, r.name)]
      /\ UNCHANGED <<fileVars, mem, answer, promised, doubt, gone, accidents, held, removing, outcome, locked, lockPass>>
  BY <1>1 DEF Arrive, Goto, avars, keyVars, clientVars, lockVars, KeyInv, KeyTypes, CallsOK, CallOK
<1>3. DOMAIN kpc = Calls /\ DOMAIN req = Calls
  BY DEF KeyInv, KeyTypes, CallsOK
<1>4. /\ kpc'[c] = label /\ req'[c] = r /\ kpc'[c] # "new" /\ kpc'[c] # "done"
      /\ label \notin TouchLabels /\ label \in Labels /\ label # "removePriv" /\ label # "reopen"
      /\ DOMAIN kpc' = Calls /\ DOMAIN req' = Calls
      /\ \A d \in Calls : d # c => kpc'[d] = kpc[d] /\ req'[d] = req[d]
  BY <1>1, <1>2, <1>3 DEF TouchLabels, Labels, GenerateLabels, DeleteLabels, PassphraseLabels, AddLabels
<1>5. mem'[c] = NoKey /\ mem'[c].k # "key"
  BY <1>2 DEF NoKey
<1>6. KeyTypes'
  <2>1. LockTypeOK'
    BY <1>2 DEF KeyInv, KeyTypes, LockTypeOK
  <2>2. CallsOK'
    <3>1. CallOK(c)'
      BY <1>1, <1>4, <1>5 DEF CallOK, GenerateLabels, DeleteLabels, PassphraseLabels, AddLabels
    <3>2. ASSUME NEW d \in Calls, d # c PROVE CallOK(d)'
      BY <1>2, <1>4, <3>2 DEF CallOK, KeyInv, KeyTypes, CallsOK
    <3> QED
      BY <1>2, <1>4, <3>1, <3>2 DEF CallsOK, KeyInv, KeyTypes
  <2>3. FilesOK'
    BY <1>2 DEF KeyInv, KeyTypes, FilesOK, FileOK, Promise, fileVars
  <2>4. AloneOK'
    <3>1. ASSUME NEW d \in Calls, NEW e \in Calls, alone'[d], Active(d)', Active(e)', req'[d].name = req'[e].name
          PROVE  d = e
      <4>1. CASE d = c /\ e # c
        BY <3>1, <4>1, <1>2, <1>4 DEF Active, On
      <4>2. CASE d # c /\ e = c
        BY <3>1, <4>2, <1>2, <1>4 DEF Active, On
      <4>3. CASE d # c /\ e # c
        BY <3>1, <4>3, <1>2, <1>4 DEF Active, KeyInv, KeyTypes, AloneOK
      <4> QED
        BY <4>1, <4>2, <4>3
    <3> QED
      BY <3>1 DEF AloneOK
  <2> QED
    BY <2>1, <2>2, <2>3, <2>4 DEF KeyTypes
<1>7. GoneInv'
  <2>1. OneOwner'
    <3>1. ASSUME NEW n, NEW k, Owns(n, k)' PROVE Owns(n, k)
      <4>1. CASE \E d \in Calls : mem'[d].k = "key" /\ mem'[d].fp = k /\ req'[d].name = n
        BY <4>1, <1>2, <1>4, <1>5 DEF Owns
      <4> QED
        BY <3>1, <4>1, <1>2 DEF Owns, fileVars
    <3> QED
      BY <3>1 DEF KeyInv, GoneInv, OneOwner
  <2>2. GoneOK'
    BY <1>2, <1>4, <1>5 DEF KeyInv, GoneInv, GoneOK, Active, fileVars
  <2>3. AgentFree'
    BY <1>2, <1>4 DEF KeyInv, GoneInv, AgentFree
  <2> QED
    BY <2>1, <2>2, <2>3 DEF GoneInv
<1>8. SurviveInv'
  <2>1. SUFFICES ASSUME accidents = 0, NEW n \in Names, ~Deleted(n)'
                 PROVE  /\ priv[n] = Cut => \E d \in Calls : kpc'[d] \in {"writePriv", "rewrite"} /\ req'[d].name = n
                        /\ promised[n] # NoKey => priv[n] # NoFile
                        /\ \A d \in Calls : (kpc'[d] \in {"writePriv", "openPub", "writePub", "load", "rewrite"} /\ req'[d].name = n)
                              => priv[n] # NoFile
    BY <1>2 DEF SurviveInv, fileVars
  <2>2. req[c].op # "delete"
    BY <1>2 DEF KeyInv, KeyTypes, CallsOK, CallOK
  <2>3. ~Deleted(n)
    BY <2>1, <2>2, <1>4 DEF Deleted
  <2>4. \A d \in Calls : kpc[d] \in {"writePriv", "openPub", "writePub", "load", "rewrite"} => kpc'[d] = kpc[d] /\ req'[d] = req[d]
    BY <1>2, <1>4
  <2>5. \A d \in Calls : kpc'[d] \in {"writePriv", "openPub", "writePub", "load", "rewrite"} => kpc'[d] = kpc[d] /\ req'[d] = req[d]
    BY <1>4 DEF TouchLabels
  <2> QED
    BY <2>1, <2>3, <2>4, <2>5 DEF KeyInv, SurviveInv
<1>9. SettledInv'
  <2>1. ASSUME NEW n \in Names \ doubt, ~Touched(n)' PROVE Holds(n)'
    <3>1. ~Touched(n)
      BY <2>1, <1>2, <1>4 DEF Touched, TouchLabels
    <3>2. Holds(n)
      BY <3>1 DEF KeyInv, SettledInv
    <3> QED
      BY <3>2, <1>2 DEF Holds, PubHolds, fileVars
  <2>2. ASSUME NEW d \in Calls, alone'[d] PROVE Progress(d)'
    <3>1. CASE d = c
      BY <3>1, <1>4 DEF Progress, TouchLabels
    <3>2. CASE d # c
      <4>1. Progress(d)
        BY <2>2, <3>2, <1>2 DEF KeyInv, SettledInv
      <4> QED
        BY <4>1, <3>2, <1>2, <1>4 DEF Progress, fileVars, MyPriv, PubHolds
    <3> QED
      BY <3>1, <3>2
  <2> QED
    BY <2>1, <2>2, <1>2 DEF SettledInv
<1> QED
  BY <1>6, <1>7, <1>8, <1>9 DEF KeyInv

\* A crash leaves every call at its end and every name that was being changed in
\* doubt.
LEMMA CrashKeepsKeyInv ==
    ASSUME KeyInv, KeyCrash
    PROVE  KeyInv'
<1>1. /\ \A c \in Calls : kpc'[c] = IF Active(c) THEN "done" ELSE kpc[c]
      /\ DOMAIN kpc' = Calls /\ DOMAIN removing' = Calls
      /\ \A c \in Calls : kpc'[c] \in {"new", "done"} /\ (kpc'[c] = "new" <=> kpc[c] = "new")
      /\ UNCHANGED <<fileVars, req, mem, answer, promised, alone, gone, outcome>>
      /\ held' = {} /\ accidents' \in Nat /\ accidents' # 0
  BY DEF KeyCrash, Accident, Active, KeyInv, KeyTypes, FilesOK
<1>2. doubt \subseteq doubt' /\ doubt' = doubt \union {req[c].name : c \in {d \in Calls : Active(d) /\ req[d].op # "add"}}
  BY DEF KeyCrash
<1>3. KeyTypes'
  <2>1. LockTypeOK'
    BY LockStepOK DEF KeyInv, KeyTypes
  <2>2. CallsOK'
    <3>1. ASSUME NEW c \in Calls PROVE CallOK(c)'
      BY <1>1 DEF KeyInv, KeyTypes, CallsOK, CallOK, Labels, GenerateLabels, DeleteLabels, PassphraseLabels, AddLabels
    <3> QED
      BY <1>1, <3>1 DEF KeyInv, KeyTypes, CallsOK
  <2>3. FilesOK'
    <3>1. doubt' \subseteq Names
      BY <1>2 DEF KeyInv, KeyTypes, FilesOK, CallsOK, CallOK, Active
    <3> QED
      BY <3>1, <1>1 DEF KeyInv, KeyTypes, FilesOK, FileOK, Promise, fileVars
  <2>4. AloneOK'
    BY <1>1 DEF AloneOK, Active
  <2> QED
    BY <2>1, <2>2, <2>3, <2>4 DEF KeyTypes
<1>4. GoneInv'
  <2>1. OneOwner'
    BY <1>1 DEF KeyInv, GoneInv, OneOwner, Owns, fileVars
  <2>2. GoneOK' /\ AgentFree'
    BY <1>1 DEF KeyInv, GoneInv, GoneOK, AgentFree, Active, fileVars
  <2> QED
    BY <2>1, <2>2 DEF GoneInv
<1>5. SurviveInv'
  BY <1>1 DEF SurviveInv
<1>6. SettledInv'
  <2>1. ASSUME NEW n \in Names, n \notin doubt' PROVE Holds(n)'
    <3>1. ~Touched(n)
      <4>1. ASSUME NEW c \in Calls, kpc[c] \in TouchLabels, req[c].name = n PROVE FALSE
        <5>1. Active(c) /\ req[c].op # "add"
          BY <4>1 DEF Active, TouchLabels, KeyInv, KeyTypes, CallsOK, CallOK, GenerateLabels, DeleteLabels, PassphraseLabels
        <5> QED
          BY <4>1, <5>1, <1>2, <2>1
      <4> QED
        BY <4>1 DEF Touched
    <3>2. Holds(n)
      BY <3>1, <1>2, <2>1 DEF KeyInv, SettledInv
    <3> QED
      BY <3>2, <1>1 DEF Holds, PubHolds, fileVars
  <2>2. ASSUME NEW c \in Calls PROVE Progress(c)'
    BY <1>1 DEF Progress
  <2> QED
    BY <2>1, <2>2 DEF SettledInv
<1> QED
  BY <1>3, <1>4, <1>5, <1>6 DEF KeyInv

\* What a step of a call does to its key, to the files of its name, to the agent
\* and to gone.
LEMMA CallEffect ==
    ASSUME KeyTypes, NEW c \in Calls, CallStep(c), NEW n, n = req[c].name
    PROVE  /\ \/ priv'[n] = priv[n] \/ priv'[n] = Cut \/ priv'[n] = NoFile
              \/ priv'[n].k = "key" /\ priv'[n].fp = mem[c].fp /\ HasKey(mem[c]) /\ req[c].op # "delete"
           /\ \/ pub'[n] = pub[n] \/ pub'[n] = Cut \/ pub'[n] = NoFile
              \/ pub'[n].k = "key" /\ pub'[n].fp = mem[c].fp /\ HasKey(mem[c])
           /\ \/ mem'[c] = mem[c] \/ mem'[c] = NoKey
              \/ mem'[c].k = "key" /\ priv[n].k = "key" /\ mem'[c].fp = priv[n].fp
              \/ mem'[c].k = "key" /\ pub[n].k = "key" /\ mem'[c].fp = pub[n].fp /\ req[c].op = "delete"
              \/ mem'[c].k = "key" /\ mem'[c].fp \notin Used /\ UNCHANGED fileVars
           /\ \/ held' \subseteq held
              \/ held' = held \union {mem[c].fp} /\ HasKey(mem[c]) /\ req[c].op = "add"
           /\ \/ gone' = gone
              \/ /\ gone' = gone \union {mem[c].fp} /\ held' = held /\ priv'[n] = NoFile /\ mem' = mem /\ pub' = pub
                 /\ kpc[c] = "removePriv" /\ alone[c] /\ outcome[c] \notin {"locked", "failed"} /\ mem[c].k = "key"
<1>1. n \in Names /\ CallOK(c)
  BY Actives DEF KeyTypes, CallsOK, CallOK, Active
<1>2. DOMAIN priv = Names /\ DOMAIN pub = Names /\ DOMAIN mem = Calls
  BY DEF KeyTypes, CallsOK, FilesOK
<1> USE <1>1, <1>2
<1> USE DEF CallOK, avars, keyVars, lockVars, timeVars, clientVars, fileVars, callVars, histVars, Calls,
            GenerateLabels, DeleteLabels, PassphraseLabels, AddLabels, MyPriv, HasKey
<1>3. CASE Generate(c)
  BY <1>3 DEF Generate
<1>4. CASE GenerateRefused(c)
  BY <1>4 DEF GenerateRefused
<1>5. CASE OpenPrivate(c)
  BY <1>5 DEF OpenPrivate
<1>6. CASE WritePrivate(c)
  BY <1>6 DEF WritePrivate
<1>7. CASE WritePrivateFails(c)
  BY <1>7 DEF WritePrivateFails
<1>8. CASE OpenPublic(c)
  BY <1>8 DEF OpenPublic
<1>9. CASE WritePublic(c)
  BY <1>9 DEF WritePublic
<1>10. CASE WritePublicFails(c)
  BY <1>10 DEF WritePublicFails
<1>11. CASE LoadGenerated(c)
  BY <1>11 DEF LoadGenerated
<1>12. CASE TakeFingerprint(c)
  <2>1. CASE Fingerprint(n) = {}
    BY <1>12, <2>1 DEF TakeFingerprint
  <2>2. CASE Fingerprint(n) # {}
    <3>1. (CHOOSE k \in Fingerprint(n) : TRUE) \in Fingerprint(n)
      BY <2>2
    <3>2. mem'[c] = [k |-> "key", fp |-> CHOOSE k \in Fingerprint(n) : TRUE] /\ UNCHANGED <<priv, pub, held, gone>>
      BY <1>12, <2>2 DEF TakeFingerprint
    <3>3. req[c].op = "delete"
      BY <1>12 DEF TakeFingerprint
    <3> HIDE DEF HasKey, CallOK
    <3> QED
      BY <3>1, <3>2, <3>3, FingerprintIs
  <2> QED
    BY <2>1, <2>2
<1>13. CASE AskAgent(c)
  BY <1>13 DEF AskAgent, RemoveList
<1>13a. CASE AskAgentFails(c)
  BY <1>13a DEF AskAgentFails
<1>14. CASE RemoveFromAgent(c)
  BY <1>14 DEF RemoveFromAgent, RemoveFound
<1>15. CASE RemovePrivate(c)
  BY <1>15 DEF RemovePrivate
<1>16. CASE RemovePublic(c)
  BY <1>16 DEF RemovePublic
<1>17. CASE RemoveFails(c)
  BY <1>17 DEF RemoveFails
<1>18. CASE ReadPrivate(c)
  BY <1>18 DEF ReadPrivate, Opens
<1>19. CASE ReadRefused(c)
  BY <1>19 DEF ReadRefused
<1>20. CASE ReopenPrivate(c)
  BY <1>20 DEF ReopenPrivate
<1>21. CASE RewritePrivate(c)
  BY <1>21 DEF RewritePrivate
<1>22. CASE RewriteFails(c)
  BY <1>22 DEF RewriteFails
<1>23. CASE ReadKey(c)
  <2>1. /\ UNCHANGED <<priv, pub, held, gone>>
        /\ mem' = mem \/ (priv[n].k = "key" /\ mem'[c].k = "key" /\ mem'[c].fp = priv[n].fp)
    <3>1. CASE Opens(priv[n], req[c].pass)
      <4>1. priv[n].k = "key" /\ mem' = [mem EXCEPT ![c] = [k |-> "key", fp |-> priv[n].fp]]
        BY <1>23, <3>1 DEF ReadKey, Opens
      <4> QED
        BY <1>23, <4>1 DEF ReadKey
    <3>2. CASE ~Opens(priv[n], req[c].pass)
      BY <1>23, <3>2 DEF ReadKey
    <3> QED
      BY <3>1, <3>2
  <2> QED
    BY <2>1
<1>24. CASE SendKey(c)
  BY <1>24 DEF SendKey, Add
<1> QED
  BY <1>3, <1>4, <1>5, <1>6, <1>7, <1>8, <1>9, <1>10, <1>11, <1>12, <1>13, <1>13a, <1>14, <1>15, <1>16, <1>17, <1>18, <1>19, <1>20, <1>21, <1>22, <1>23, <1>24 DEF CallStep

\* A key stays with its name.
LEMMA OneOwnerStep ==
    ASSUME KeyInv, NEW c \in Calls, CallStep(c)
    PROVE  OneOwner'
<1> DEFINE n == req[c].name
<1>1. Frame(c) /\ n \in Names /\ n' = n /\ req' = req
  BY StepFrame, Actives DEF KeyInv, KeyTypes, CallsOK, CallOK, Active, Frame
<1> HIDE DEF n
<1>2. ASSUME NEW m \in Names, NEW k, Owns(m, k)'
      PROVE  Owns(m, k) \/ (m = n /\ mem'[c].k = "key" /\ mem'[c].fp = k /\ k \notin Used /\ UNCHANGED fileVars)
  <2>1. \/ priv'[n] = priv[n] \/ priv'[n] = Cut \/ priv'[n] = NoFile
        \/ priv'[n].k = "key" /\ priv'[n].fp = mem[c].fp /\ HasKey(mem[c])
    BY CallEffect DEF n, KeyInv
  <2>2. \/ pub'[n] = pub[n] \/ pub'[n] = Cut \/ pub'[n] = NoFile
        \/ pub'[n].k = "key" /\ pub'[n].fp = mem[c].fp /\ HasKey(mem[c])
    BY CallEffect DEF n, KeyInv
  <2>3. \/ mem'[c] = mem[c] \/ mem'[c] = NoKey
        \/ mem'[c].k = "key" /\ priv[n].k = "key" /\ mem'[c].fp = priv[n].fp
        \/ mem'[c].k = "key" /\ pub[n].k = "key" /\ mem'[c].fp = pub[n].fp
        \/ mem'[c].k = "key" /\ mem'[c].fp \notin Used /\ UNCHANGED fileVars
    BY CallEffect DEF n, KeyInv
  <2>4. CASE priv'[m].k = "key" /\ priv'[m].fp = k
    <3>1. CASE m = n
      BY <2>1, <2>4, <3>1 DEF Owns, HasKey, Cut, NoFile, n
    <3>2. CASE m # n
      BY <2>4, <3>2, <1>1 DEF Owns, Frame, n
    <3> QED
      BY <3>1, <3>2
  <2>5. CASE pub'[m].k = "key" /\ pub'[m].fp = k
    <3>1. CASE m = n
      BY <2>2, <2>5, <3>1 DEF Owns, HasKey, Cut, NoFile, n
    <3>2. CASE m # n
      BY <2>5, <3>2, <1>1 DEF Owns, Frame, n
    <3> QED
      BY <3>1, <3>2
  <2>6. ASSUME NEW d \in Calls, mem'[d].k = "key", mem'[d].fp = k, req[d].name = m
        PROVE  Owns(m, k) \/ (m = n /\ mem'[c].k = "key" /\ mem'[c].fp = k /\ k \notin Used /\ UNCHANGED fileVars)
    <3>1. CASE d = c
      BY <2>3, <2>6, <3>1 DEF Owns, NoKey, n
    <3>2. CASE d # c
      BY <2>6, <3>2, <1>1 DEF Owns, Frame
    <3> QED
      BY <3>1, <3>2
  <2> QED
    BY <1>2, <2>4, <2>5, <2>6, <1>1 DEF Owns
<1>3. ASSUME NEW m \in Names, NEW k, Owns(m, k) PROVE k \in Used
  BY <1>3 DEF Owns, Used
<1>4. ASSUME NEW k, NEW m \in Names, NEW l \in Names, Owns(m, k)', Owns(l, k)' PROVE m = l
  BY <1>2, <1>3, <1>4 DEF KeyInv, GoneInv, OneOwner
<1> QED
  BY <1>4 DEF OneOwner

\* A call that is alone shares its key with no other that is under way.
LEMMA AloneWithKey ==
    ASSUME KeyInv, NEW c \in Calls, NEW d \in Calls, Active(c), Active(d), alone[c] \/ alone[d],
           mem[c].k = "key", mem[d].k = "key", mem[c].fp = mem[d].fp
    PROVE  c = d
<1>1. req[c].name \in Names /\ req[d].name \in Names
  BY DEF KeyInv, KeyTypes, CallsOK, CallOK, Active
<1>2. Owns(req[c].name, mem[c].fp) /\ Owns(req[d].name, mem[c].fp)
  BY DEF Owns
<1>3. req[c].name = req[d].name
  BY <1>1, <1>2 DEF KeyInv, GoneInv, OneOwner
<1> QED
  BY <1>3 DEF KeyInv, KeyTypes, AloneOK

LEMMA GoneStep ==
    ASSUME KeyInv, NEW c \in Calls, CallStep(c)
    PROVE  GoneOK'
<1> DEFINE n == req[c].name
<1>1. Frame(c) /\ Active(c) /\ n \in Names /\ n' = n /\ req' = req /\ CallOK(c)
  BY StepFrame, Actives DEF KeyInv, KeyTypes, CallsOK, CallOK, Active, Frame
<1>2. \A d \in Calls : Active(d)' => Active(d)
  BY <1>1 DEF Frame, Active
<1>3. \A m \in Names : m # n => priv'[m] = priv[m]
  BY <1>1 DEF Frame
<1>4. \A d \in Calls : d # c => mem'[d] = mem[d]
  BY <1>1 DEF Frame
<1>5. ASSUME NEW k \in gone
      PROVE  /\ k \notin held'
             /\ \A m \in Names : priv'[m].k = "key" => priv'[m].fp # k
             /\ \A d \in Calls : (Active(d)' /\ req'[d].op # "delete" /\ mem'[d].k = "key") => mem'[d].fp # k
  <2>1. /\ k \notin held
        /\ \A m \in Names : priv[m].k = "key" => priv[m].fp # k
        /\ \A d \in Calls : (Active(d) /\ req[d].op # "delete" /\ mem[d].k = "key") => mem[d].fp # k
    BY DEF KeyInv, GoneInv, GoneOK
  <2>2. k \notin held'
    <3>1. held' \subseteq held \/ (held' = held \union {mem[c].fp} /\ HasKey(mem[c]) /\ req[c].op = "add")
      BY CallEffect DEF KeyInv
    <3> QED
      BY <3>1, <2>1, <1>1 DEF HasKey
  <2>3. ASSUME NEW m \in Names, priv'[m].k = "key" PROVE priv'[m].fp # k
    <3>1. CASE m = n
      <4>1. \/ priv'[n] = priv[n] \/ priv'[n] = Cut \/ priv'[n] = NoFile
            \/ priv'[n].k = "key" /\ priv'[n].fp = mem[c].fp /\ HasKey(mem[c]) /\ req[c].op # "delete"
        BY CallEffect DEF KeyInv
      <4> HIDE DEF n
      <4> QED
        BY <4>1, <3>1, <2>1, <2>3, <1>1 DEF HasKey, Cut, NoFile
    <3>2. CASE m # n
      BY <3>2, <2>1, <2>3, <1>3
    <3> QED
      BY <3>1, <3>2
  <2>4. ASSUME NEW d \in Calls, Active(d)', req'[d].op # "delete", mem'[d].k = "key" PROVE mem'[d].fp # k
    <3>1. CASE d = c
      <4>1. \/ mem'[c] = mem[c] \/ mem'[c] = NoKey
            \/ mem'[c].k = "key" /\ priv[n].k = "key" /\ mem'[c].fp = priv[n].fp
            \/ mem'[c].k = "key" /\ pub[n].k = "key" /\ mem'[c].fp = pub[n].fp /\ req[c].op = "delete"
            \/ mem'[c].k = "key" /\ mem'[c].fp \notin Used
        BY CallEffect DEF KeyInv
      <4>2. k \in Used
        BY DEF Used
      <4> HIDE DEF n
      <4> QED
        BY <4>1, <4>2, <3>1, <2>1, <2>4, <1>1, <1>2 DEF NoKey
    <3>2. CASE d # c
      BY <3>2, <2>1, <2>4, <1>1, <1>2, <1>4
    <3> QED
      BY <3>1, <3>2
  <2> QED
    BY <2>2, <2>3, <2>4
<1>6. ASSUME gone' # gone
      PROVE  /\ gone' = gone \union {mem[c].fp}
             /\ mem[c].fp \notin held'
             /\ \A m \in Names : priv'[m].k = "key" => priv'[m].fp # mem[c].fp
             /\ \A d \in Calls : (Active(d)' /\ req'[d].op # "delete" /\ mem'[d].k = "key") => mem'[d].fp # mem[c].fp
  <2>1. /\ gone' = gone \union {mem[c].fp} /\ held' = held /\ priv'[n] = NoFile /\ mem' = mem /\ pub' = pub
        /\ kpc[c] = "removePriv" /\ alone[c] /\ outcome[c] \notin {"locked", "failed"} /\ mem[c].k = "key"
    BY <1>6, CallEffect DEF KeyInv
  <2>2. mem[c].fp \notin held'
    BY <2>1 DEF KeyInv, GoneInv, AgentFree
  <2>3. ASSUME NEW m \in Names, priv'[m].k = "key", priv'[m].fp = mem[c].fp PROVE FALSE
    <3>1. m # n
      BY <2>1, <2>3 DEF NoFile
    <3>2. Owns(m, mem[c].fp) /\ Owns(n, mem[c].fp)
      BY <3>1, <2>1, <2>3, <1>3 DEF Owns
    <3> QED
      BY <3>1, <3>2, <1>1 DEF KeyInv, GoneInv, OneOwner
  <2>4. ASSUME NEW d \in Calls, Active(d)', req'[d].op # "delete", mem'[d].k = "key", mem'[d].fp = mem[c].fp PROVE FALSE
    <3>1. d = c
      BY <2>1, <2>4, <1>1, <1>2, AloneWithKey
    <3>2. req[c].op = "delete"
      BY <2>1, <1>1 DEF CallOK, DeleteLabels
    <3> QED
      BY <2>4, <3>1, <3>2, <1>1
  <2> QED
    BY <2>1, <2>2, <2>3, <2>4
<1> QED
  BY <1>5, <1>6 DEF GoneOK

LEMMA AgentFreeStep ==
    ASSUME KeyInv, NEW c \in Calls, CallStep(c)
    PROVE  AgentFree'
<1>1. Frame(c) /\ Active(c) /\ CallOK(c)
  BY StepFrame, Actives DEF KeyInv, KeyTypes, CallsOK
<1>2. SUFFICES ASSUME NEW d \in Calls, kpc'[d] = "removePriv", alone'[d], outcome'[d] \notin {"locked", "failed"}, mem'[d].k = "key"
               PROVE  mem'[d].fp \notin held'
  BY DEF AgentFree
<1>3. CASE d # c
  <2>1. /\ kpc[d] = "removePriv" /\ alone[d] /\ outcome[d] \notin {"locked", "failed"} /\ mem[d].k = "key" /\ mem'[d] = mem[d]
    BY <1>1, <1>2, <1>3 DEF Frame
  <2>2. mem[d].fp \notin held
    BY <2>1 DEF KeyInv, GoneInv, AgentFree
  <2>3. held' \subseteq held \/ (held' = held \union {mem[c].fp} /\ HasKey(mem[c]))
    BY CallEffect DEF KeyInv
  <2>4. mem[d].fp # mem[c].fp \/ ~HasKey(mem[c])
    BY <2>1, <1>1, <1>3, AloneWithKey DEF HasKey, Active
  <2> QED
    BY <2>1, <2>2, <2>3, <2>4
<1>4. CASE d = c
  <2>0. DOMAIN kpc = Calls /\ DOMAIN mem = Calls /\ DOMAIN outcome = Calls
    BY DEF KeyInv, KeyTypes, CallsOK
  <2>1. TakeFingerprint(c) \/ AskAgent(c) \/ AskAgentFails(c) \/ RemoveFromAgent(c)
    BY <1>2, <1>4, <2>0 DEF CallStep, Goto, Answer, Generate, GenerateRefused, OpenPrivate, WritePrivate, WritePrivateFails, OpenPublic, WritePublic, WritePublicFails, LoadGenerated, RemovePrivate, RemovePublic, RemoveFails, ReadPrivate, ReadRefused, ReopenPrivate, RewritePrivate, RewriteFails, ReadKey, SendKey
  <2>2. CASE TakeFingerprint(c)
    <3>1. CASE Fingerprint(req[c].name) = {}
      BY <1>2, <1>4, <2>0, <2>2, <3>1 DEF TakeFingerprint, Goto, NoKey
    <3>2. CASE Fingerprint(req[c].name) # {}
      BY <1>2, <1>4, <2>0, <2>2, <3>2 DEF TakeFingerprint, Goto
    <3> QED
      BY <3>1, <3>2
  <2>3. CASE AskAgent(c)
    <3>1. removing[c] = {} /\ removing'[c] = {} /\ mem' = mem /\ held' = held
      BY <1>2, <1>4, <2>0, <2>3 DEF AskAgent, RemoveList, Goto, keyVars
    <3>2. CASE mem[c].fp \in held
      <4>1. CASE locked
        BY <1>2, <1>4, <2>0, <2>3, <4>1 DEF AskAgent, RemoveList
      <4>2. CASE ~locked
        <5>1. removing' = [removing EXCEPT ![c] = {mem[c].fp}]
          BY <2>3, <3>2, <4>2 DEF AskAgent, RemoveList
        <5>2. DOMAIN removing = Calls
          BY DEF KeyInv, KeyTypes, CallsOK
        <5> QED
          BY <3>1, <5>1, <5>2
      <4> QED
        BY <4>1, <4>2
    <3> QED
      BY <1>4, <3>1, <3>2
  <2>3a. CASE AskAgentFails(c)
    BY <1>2, <1>4, <2>0, <2>3a DEF AskAgentFails
  <2>4. CASE RemoveFromAgent(c)
    <3>1. removing[c] = {mem[c].fp} /\ mem' = mem /\ outcome'[c] # "locked"
      BY <1>1, <1>2, <1>4, <2>4 DEF RemoveFromAgent, CallOK
    <3> QED
      BY <1>4, <2>0, <2>4, <3>1 DEF RemoveFromAgent, RemoveFound
  <2> QED
    BY <2>1, <2>2, <2>3, <2>3a, <2>4
<1> QED
  BY <1>3, <1>4

\* Without an accident, no step of a call but Delete's takes a private key away.
LEMMA SurviveEffect ==
    ASSUME KeyTypes, NEW c \in Calls, CallStep(c), NEW n, n = req[c].name, req[c].op # "delete", accidents' = 0
    PROVE  /\ priv'[n] # NoFile \/ priv'[n] = priv[n]
           /\ priv'[n] = Cut => kpc'[c] \in {"writePriv", "rewrite"}
                                \/ (priv[n] = Cut /\ kpc[c] \notin {"writePriv", "rewrite"})
           /\ promised'[n] # NoKey => promised[n] # NoKey \/ kpc[c] = "load" \/ priv'[n] # NoFile
           /\ kpc'[c] \in {"writePriv", "openPub", "writePub", "load", "rewrite"} =>
                 kpc[c] \in {"writePriv", "openPub", "writePub", "load", "rewrite"} \/ priv'[n] # NoFile
           /\ accidents = 0
<1>1. n \in Names /\ CallOK(c) /\ accidents \in Nat
  BY Actives DEF KeyTypes, CallsOK, CallOK, Active, FilesOK
<1>2. DOMAIN priv = Names /\ DOMAIN kpc = Calls /\ DOMAIN promised = Names
  BY DEF KeyTypes, CallsOK, FilesOK
<1>3. kpc[c] \notin DeleteLabels
  BY <1>1 DEF CallOK
<1>4. ~Accident
  BY <1>1 DEF Accident
<1> USE <1>1, <1>2, <1>3, <1>4
<1> USE DEF DeleteLabels, avars, keyVars, lockVars, timeVars, clientVars, fileVars, callVars, histVars, Calls,
            MyPriv, Answer, Goto, Cut, NoFile
<1>5. CASE Generate(c)
  BY <1>5 DEF Generate
<1>6. CASE GenerateRefused(c)
  BY <1>6 DEF GenerateRefused
<1>7. CASE OpenPrivate(c)
  BY <1>7 DEF OpenPrivate
<1>8. CASE WritePrivate(c)
  BY <1>8 DEF WritePrivate
<1>9. CASE WritePrivateFails(c)
  BY <1>9 DEF WritePrivateFails
<1>10. CASE OpenPublic(c)
  BY <1>10 DEF OpenPublic
<1>11. CASE WritePublic(c)
  BY <1>11 DEF WritePublic
<1>12. CASE WritePublicFails(c)
  BY <1>12 DEF WritePublicFails
<1>13. CASE LoadGenerated(c)
  BY <1>13 DEF LoadGenerated
<1>14. CASE TakeFingerprint(c)
  BY <1>14 DEF TakeFingerprint
<1>15. CASE AskAgent(c)
  BY <1>15 DEF AskAgent
<1>15a. CASE AskAgentFails(c)
  BY <1>15a DEF AskAgentFails
<1>16. CASE RemoveFromAgent(c)
  BY <1>16 DEF RemoveFromAgent
<1>17. CASE RemovePrivate(c)
  BY <1>17 DEF RemovePrivate
<1>18. CASE RemovePublic(c)
  BY <1>18 DEF RemovePublic
<1>19. CASE RemoveFails(c)
  BY <1>19 DEF RemoveFails
<1>20. CASE ReadPrivate(c)
  BY <1>20 DEF ReadPrivate
<1>21. CASE ReadRefused(c)
  BY <1>21 DEF ReadRefused
<1>22. CASE ReopenPrivate(c)
  BY <1>22 DEF ReopenPrivate
<1>23. CASE RewritePrivate(c)
  BY <1>23 DEF RewritePrivate
<1>24. CASE RewriteFails(c)
  BY <1>24 DEF RewriteFails
<1>25. CASE ReadKey(c)
  BY <1>25 DEF ReadKey
<1>26. CASE SendKey(c)
  BY <1>26 DEF SendKey
<1> QED
  BY <1>5, <1>6, <1>7, <1>8, <1>9, <1>10, <1>11, <1>12, <1>13, <1>14, <1>15, <1>15a, <1>16, <1>17, <1>18, <1>19, <1>20, <1>21, <1>22, <1>23, <1>24, <1>25, <1>26 DEF CallStep

LEMMA SurviveStep ==
    ASSUME KeyInv, NEW c \in Calls, CallStep(c)
    PROVE  SurviveInv'
<1> DEFINE L == {"writePriv", "openPub", "writePub", "load", "rewrite"}
           S(m) == /\ priv[m] = Cut => \E d \in Calls : kpc[d] \in {"writePriv", "rewrite"} /\ req[d].name = m
                   /\ promised[m] # NoKey => priv[m] # NoFile
                   /\ \A d \in Calls : (kpc[d] \in L /\ req[d].name = m) => priv[m] # NoFile
<1>1. Frame(c) /\ req' = req
  BY StepFrame DEF KeyInv, Frame
<1>2. \A d \in Calls : d # c => kpc'[d] = kpc[d]
  BY <1>1 DEF Frame
<1>3. SUFFICES ASSUME accidents' = 0, NEW m \in Names, ~Deleted(m)'
               PROVE  S(m)'
  BY DEF SurviveInv
<1>4. ~Deleted(m)
  BY <1>1, <1>3 DEF Deleted
<1>5. accidents = 0
  <2>1. accidents' = accidents \/ accidents' = accidents + 1
    BY DEF CallStep, Accident, Generate, GenerateRefused, OpenPrivate, WritePrivate, WritePrivateFails, OpenPublic, WritePublic, WritePublicFails, LoadGenerated, TakeFingerprint, AskAgent, AskAgentFails, RemoveFromAgent, RemovePrivate, RemovePublic, RemoveFails, ReadPrivate, ReadRefused, ReopenPrivate, RewritePrivate, RewriteFails, ReadKey, SendKey
  <2>2. accidents \in Nat
    BY DEF KeyInv, KeyTypes, FilesOK
  <2> QED
    BY <2>1, <2>2, <1>3
<1>6. S(m)
  BY <1>3, <1>4, <1>5 DEF KeyInv, SurviveInv
<1>7. CASE m # req[c].name
  <2>1. priv'[m] = priv[m] /\ promised'[m] = promised[m]
    BY <1>1, <1>7 DEF Frame
  <2> QED
    BY <2>1, <1>1, <1>2, <1>6, <1>7
<1>8. CASE m = req[c].name
  <2>1. req[c].op # "delete"
    BY <1>4, <1>8 DEF Deleted
  <2>2. /\ priv'[m] # NoFile \/ priv'[m] = priv[m]
        /\ priv'[m] = Cut => kpc'[c] \in {"writePriv", "rewrite"} \/ (priv[m] = Cut /\ kpc[c] \notin {"writePriv", "rewrite"})
        /\ promised'[m] # NoKey => promised[m] # NoKey \/ kpc[c] = "load" \/ priv'[m] # NoFile
        /\ kpc'[c] \in L => kpc[c] \in L \/ priv'[m] # NoFile
    BY <1>3, <1>8, <2>1, SurviveEffect DEF KeyInv
  <2>3. ASSUME priv'[m] = Cut PROVE \E d \in Calls : kpc'[d] \in {"writePriv", "rewrite"} /\ req'[d].name = m
    <3>1. CASE kpc'[c] \in {"writePriv", "rewrite"}
      BY <3>1, <1>1, <1>8
    <3>2. CASE priv[m] = Cut /\ kpc[c] \notin {"writePriv", "rewrite"}
      <4>1. PICK d \in Calls : kpc[d] \in {"writePriv", "rewrite"} /\ req[d].name = m
        BY <3>2, <1>6
      <4>2. d # c
        BY <3>2, <4>1
      <4> QED
        BY <4>1, <4>2, <1>1, <1>2
    <3> QED
      BY <2>2, <2>3, <3>1, <3>2
  <2>4. ASSUME promised'[m] # NoKey PROVE priv'[m] # NoFile
    BY <2>2, <2>4, <1>6, <1>8
  <2>5. ASSUME NEW d \in Calls, kpc'[d] \in L, req'[d].name = m PROVE priv'[m] # NoFile
    <3>1. CASE d = c
      BY <2>2, <2>5, <3>1, <1>6, <1>8
    <3>2. CASE d # c
      BY <2>2, <2>5, <3>2, <1>1, <1>2, <1>6
    <3> QED
      BY <3>1, <3>2
  <2> QED
    BY <2>3, <2>4, <2>5
<1> QED
  BY <1>7, <1>8

\* A key of a type that can be generated is listed as the type it was asked for.
LEMMA KindsAgree ==
    ASSUME NEW t, Generable(t)
    PROVE  ToProtoKeyType(ParseKeyType(AlgorithmOf(t))) = ToProtoKeyType(t)
<1>1. t = "ed25519" \/ t = "ecdsa" \/ t = "rsa"
  BY DEF Generable
<1>2. CASE t = "ed25519"
  BY <1>2 DEF AlgorithmOf, ParseKeyType
<1>3. CASE t = "ecdsa"
  BY <1>3 DEF AlgorithmOf, ParseKeyType
<1>4. CASE t = "rsa"
  BY <1>4 DEF AlgorithmOf, ParseKeyType
<1> QED
  BY <1>1, <1>2, <1>3, <1>4

\* A call that is alone on its name is the only one that touches it.
LEMMA AloneTouches ==
    ASSUME KeyInv, NEW c \in Calls, Active(c), alone[c], kpc[c] \notin TouchLabels
    PROVE  ~Touched(req[c].name)
<1>1. ASSUME NEW d \in Calls, kpc[d] \in TouchLabels, req[d].name = req[c].name
      PROVE  FALSE
  <2>1. Active(d)
    BY <1>1 DEF Active, TouchLabels
  <2> QED
    BY <1>1, <2>1 DEF KeyInv, KeyTypes, AloneOK
<1> QED
  BY <1>1 DEF Touched

LEMMA ProgressStep ==
    ASSUME KeyInv, NEW c \in Calls, CallStep(c), alone[c]
    PROVE  Progress(c)'
<1> DEFINE n == req[c].name
<1>1. n \in Names /\ CallOK(c) /\ Active(c) /\ Progress(c) /\ req' = req
  BY Actives, StepFrame DEF KeyInv, KeyTypes, CallsOK, CallOK, Active, SettledInv, Frame
<1>2. DOMAIN priv = Names /\ DOMAIN pub = Names /\ DOMAIN kpc = Calls /\ DOMAIN promised = Names /\ DOMAIN mem = Calls
  BY DEF KeyInv, KeyTypes, CallsOK, FilesOK
<1>3. CASE kpc'[c] \notin {"openPub", "writePub", "load", "removePub", "reopen", "rewrite"}
  BY <1>3 DEF Progress
<1>4. CASE WritePrivate(c)
  <2>1. kpc'[c] = "openPub" /\ mem' = mem /\ priv'[n] = MyPriv(c, req[c].pass)
    BY <1>1, <1>2, <1>4 DEF WritePrivate, Goto
  <2> QED
    BY <2>1, <1>1 DEF Progress, MyPriv
<1>5. CASE OpenPublic(c)
  <2>1. kpc[c] = "openPub" /\ kpc'[c] = "writePub" /\ mem' = mem /\ priv' = priv
    BY <1>1, <1>2, <1>5 DEF OpenPublic, Goto
  <2> QED
    BY <2>1, <1>1 DEF Progress, MyPriv
<1>6. CASE WritePublic(c)
  <2>1. /\ kpc[c] = "writePub" /\ kpc'[c] = "load" /\ mem' = mem /\ priv' = priv
        /\ pub'[n] = [k |-> "key", fp |-> mem[c].fp, alg |-> AlgorithmOf(FromProtoKeyType(req[c].kind))]
    BY <1>1, <1>2, <1>6 DEF WritePublic, Goto
  <2> QED
    BY <2>1, <1>1 DEF Progress, MyPriv
<1>7. CASE RemovePrivate(c)
  <2>1. kpc'[c] = "removePub" /\ priv'[n] = NoFile
    BY <1>1, <1>2, <1>7 DEF RemovePrivate, Goto
  <2> QED
    BY <2>1, <1>1 DEF Progress
<1>8. CASE ReadPrivate(c)
  <2>1. /\ kpc[c] = "read" /\ kpc'[c] = "reopen" /\ priv[n].k = "key" /\ mem'[c].fp = priv[n].fp
        /\ UNCHANGED <<fileVars, promised, doubt>>
    BY <1>1, <1>2, <1>8 DEF ReadPrivate, Goto, Opens, histVars
  <2>2. ASSUME n \notin doubt PROVE promised[n] # NoKey /\ promised[n].fp = mem'[c].fp /\ PubHolds(n)
    <3>1. Holds(n)
      BY <2>1, <2>2, <1>1, AloneTouches DEF KeyInv, SettledInv, TouchLabels
    <3>2. promised[n] # NoKey
      BY <3>1, <2>1 DEF Holds, NoFile
    <3> QED
      BY <3>1, <3>2, <2>1 DEF Holds
  <2>3. n \notin doubt' => promised'[n] # NoKey /\ promised'[n].fp = mem'[c].fp /\ PubHolds(n)'
    BY <2>1, <2>2, <1>1 DEF PubHolds, fileVars
  <2> QED
    BY <2>1, <2>3, <1>1 DEF Progress
<1>9. CASE ReopenPrivate(c)
  <2>1. kpc[c] = "reopen" /\ kpc'[c] = "rewrite" /\ UNCHANGED <<pub, mem, promised, doubt>>
    BY <1>1, <1>2, <1>9 DEF ReopenPrivate, Goto, histVars
  <2> QED
    BY <2>1, <1>1 DEF Progress, PubHolds
<1>10. CASE Generate(c)
  <2>1. kpc'[c] = "openPriv"
    BY <1>2, <1>10 DEF Generate, Goto
  <2> QED
    BY <2>1, <1>3
<1>11. CASE OpenPrivate(c)
  <2>1. kpc'[c] = "writePriv"
    BY <1>2, <1>11 DEF OpenPrivate, Goto
  <2> QED
    BY <2>1, <1>3
<1>12. CASE TakeFingerprint(c) \/ AskAgent(c) \/ AskAgentFails(c) \/ RemoveFromAgent(c)
  <2>1. kpc'[c] \in {"agent", "agentFound", "removePriv"}
    BY <1>2, <1>12 DEF TakeFingerprint, AskAgent, AskAgentFails, RemoveFromAgent, Goto
  <2> QED
    BY <2>1, <1>3
<1>13. CASE ReadKey(c)
  <2>1. kpc'[c] \in {"send", "done"}
    BY <1>2, <1>13 DEF ReadKey, Goto, Answer
  <2> QED
    BY <2>1, <1>3
<1>14. CASE \/ GenerateRefused(c) \/ WritePrivateFails(c) \/ WritePublicFails(c) \/ LoadGenerated(c)
            \/ RemovePublic(c) \/ RemoveFails(c) \/ ReadRefused(c) \/ RewritePrivate(c) \/ RewriteFails(c) \/ SendKey(c)
  <2>1. kpc'[c] = "done"
    BY <1>2, <1>14 DEF GenerateRefused, WritePrivateFails, WritePublicFails, LoadGenerated, RemovePublic, RemoveFails,
       ReadRefused, RewritePrivate, RewriteFails, SendKey, Goto, Answer
  <2> QED
    BY <2>1, <1>3
<1> QED
  BY <1>4, <1>5, <1>6, <1>7, <1>8, <1>9, <1>10, <1>11, <1>12, <1>13, <1>14 DEF CallStep

\* A step that leaves a name neither touched nor in doubt leaves it as answered.
LEMMA HoldsStep ==
    ASSUME KeyInv, NEW c \in Calls, CallStep(c), req[c].name \notin doubt', ~Touched(req[c].name)'
    PROVE  Holds(req[c].name)'
<1> DEFINE n == req[c].name
<1>1. n \in Names /\ CallOK(c) /\ Active(c) /\ (alone[c] => Progress(c)) /\ req' = req /\ n' = n
  BY Actives, StepFrame DEF KeyInv, KeyTypes, CallsOK, CallOK, Active, SettledInv, Frame
<1>2. /\ DOMAIN priv = Names /\ DOMAIN pub = Names /\ DOMAIN kpc = Calls /\ DOMAIN promised = Names
      /\ Promise(promised[n])
  BY <1>1 DEF KeyInv, KeyTypes, CallsOK, FilesOK
<1>3. kpc'[c] \notin TouchLabels
  BY <1>1 DEF Touched
<1>4. \A d \in Calls : d # c => ~(kpc[d] \in TouchLabels /\ req[d].name = n)
  <2>1. \A d \in Calls : d # c => kpc'[d] = kpc[d]
    BY StepFrame DEF KeyInv, Frame
  <2> QED
    BY <2>1, <1>1 DEF Touched
<1>5. ASSUME kpc[c] \notin TouchLabels, UNCHANGED <<priv, pub, doubt>>, promised'[n] = promised[n]
      PROVE  Holds(n)'
  <2>1. Holds(n)
    BY <1>1, <1>4, <1>5 DEF Touched, KeyInv, SettledInv
  <2> QED
    BY <2>1, <1>1, <1>5 DEF Holds, PubHolds
<1>6. CASE Generate(c) \/ TakeFingerprint(c) \/ AskAgent(c) \/ AskAgentFails(c) \/ RemoveFromAgent(c) \/ ReadPrivate(c)
  BY <1>5, <1>6 DEF Generate, TakeFingerprint, AskAgent, AskAgentFails, RemoveFromAgent, ReadPrivate, fileVars, histVars, TouchLabels
<1>7. CASE GenerateRefused(c) \/ ReadRefused(c) \/ ReadKey(c) \/ SendKey(c)
  <2>1. kpc[c] \notin TouchLabels /\ UNCHANGED <<priv, pub, doubt>>
    BY <1>7 DEF GenerateRefused, ReadRefused, ReadKey, SendKey, Answer, fileVars, TouchLabels
  <2>2. promised'[n] = promised[n]
    BY <1>1, <1>2, <1>7 DEF GenerateRefused, ReadRefused, ReadKey, SendKey, Answer
  <2> QED
    BY <2>1, <2>2, <1>5
<1>8. CASE OpenPrivate(c) \/ OpenPublic(c) \/ WritePrivate(c) \/ WritePublic(c) \/ RemovePrivate(c) \/ ReopenPrivate(c)
  <2>1. kpc'[c] \in TouchLabels
    BY <1>2, <1>8 DEF OpenPrivate, OpenPublic, WritePrivate, WritePublic, RemovePrivate, ReopenPrivate, Goto, TouchLabels
  <2> QED
    BY <2>1, <1>3
<1>9. CASE WritePrivateFails(c) \/ WritePublicFails(c) \/ RemoveFails(c) \/ RewriteFails(c)
  <2>1. n \in doubt'
    BY <1>9 DEF WritePrivateFails, WritePublicFails, RemoveFails, RewriteFails, Answer
  <2> QED
    BY <2>1
<1>10. CASE LoadGenerated(c)
  <2> DEFINE kind == ToProtoKeyType(FromProtoKeyType(req[c].kind))
             content == [k |-> "key", fp |-> mem[c].fp, kind |-> kind, pass |-> req[c].pass]
  <2>1. alone[c] /\ promised'[n] = content
    BY <1>1, <1>2, <1>10 DEF LoadGenerated, Answer
  <2>2. /\ priv'[n] = MyPriv(c, req[c].pass)
        /\ pub'[n] = [k |-> "key", fp |-> mem[c].fp, alg |-> AlgorithmOf(FromProtoKeyType(req[c].kind))]
    BY <2>1, <1>1, <1>10 DEF LoadGenerated, Progress, fileVars
  <2>3. Generable(FromProtoKeyType(req[c].kind))
    BY <1>1, <1>10 DEF LoadGenerated, CallOK, GenerateLabels
  <2>4. ToProtoKeyType(ParseKeyType(AlgorithmOf(FromProtoKeyType(req[c].kind)))) = kind
    BY <2>3, KindsAgree
  <2>5. promised'[n] # NoKey
    BY <2>1 DEF NoKey
  <2>6. PubHolds(n)'
    <3> HIDE DEF n
    <3>1. pub'[n].alg = AlgorithmOf(FromProtoKeyType(req[c].kind)) /\ pub'[n].k = "key" /\ pub'[n].fp = mem[c].fp
      BY <2>2
    <3>2. promised'[n].fp = mem[c].fp /\ promised'[n].kind = kind
      BY <2>1
    <3> HIDE DEF kind, content
    <3> QED
      BY <3>1, <3>2, <2>4, <1>1 DEF PubHolds
  <2>7. priv'[n] = [k |-> "key", fp |-> promised'[n].fp, pass |-> promised'[n].pass]
    BY <2>1, <2>2 DEF MyPriv
  <2> HIDE DEF n
  <2> QED
    BY <2>5, <2>6, <2>7, <1>1 DEF Holds, n
<1>11. CASE RemovePublic(c)
  <2>1. alone[c] /\ promised'[n] = NoKey
    BY <1>1, <1>2, <1>11 DEF RemovePublic, Answer
  <2>2. priv'[n] = NoFile /\ pub'[n] = NoFile
    BY <2>1, <1>1, <1>2, <1>11 DEF RemovePublic, Progress
  <2> QED
    BY <2>1, <2>2, <1>1 DEF Holds
<1>12. CASE RewritePrivate(c)
  <2>1. kpc[c] = "rewrite" /\ alone[c] /\ n \notin doubt
    BY <1>1, <1>12 DEF RewritePrivate, Answer
  <2>2. promised[n] # NoKey /\ promised[n].fp = mem[c].fp /\ PubHolds(n)
    BY <2>1, <1>1 DEF Progress
  <2>3. PICK fp, kind, pass : promised[n] = [k |-> "key", fp |-> fp, kind |-> kind, pass |-> pass]
    BY <2>2, <1>2 DEF Promise
  <2>4. promised'[n] = [promised[n] EXCEPT !.pass = req[c].pass]
    <3>1. promised[n].k = "key"
      BY <2>3
    <3> QED
      BY <3>1, <2>1, <1>1, <1>2, <1>12 DEF RewritePrivate, Answer
  <2>5. promised'[n] = [k |-> "key", fp |-> fp, kind |-> kind, pass |-> req[c].pass]
    BY <2>3, <2>4
  <2>6. promised'[n] # NoKey /\ promised'[n].fp = promised[n].fp /\ promised'[n].kind = promised[n].kind
        /\ promised'[n].pass = req[c].pass
    BY <2>3, <2>5 DEF NoKey
  <2>7. priv'[n] = [k |-> "key", fp |-> mem[c].fp, pass |-> req[c].pass] /\ pub' = pub
    BY <1>1, <1>2, <1>12 DEF RewritePrivate, MyPriv
  <2> HIDE DEF n
  <2>8. PubHolds(n)'
    BY <2>2, <2>6, <2>7, <1>1 DEF PubHolds
  <2>9. priv'[n] = [k |-> "key", fp |-> promised'[n].fp, pass |-> promised'[n].pass]
    BY <2>2, <2>6, <2>7
  <2> QED
    BY <2>6, <2>8, <2>9, <1>1 DEF Holds, n
<1> QED
  BY <1>6, <1>7, <1>8, <1>9, <1>10, <1>11, <1>12 DEF CallStep

LEMMA SettledStep ==
    ASSUME KeyInv, NEW c \in Calls, CallStep(c)
    PROVE  SettledInv'
<1>1. Frame(c) /\ Active(c)
  BY StepFrame, Actives DEF KeyInv
<1>2. ASSUME NEW n \in Names, n \notin doubt', ~Touched(n)' PROVE Holds(n)'
  <2>1. CASE n = req[c].name
    <3>1. req[c].name \notin doubt' /\ ~Touched(req[c].name)' /\ req' = req
      BY <2>1, <1>1, <1>2 DEF Frame, Touched
    <3>2. Holds(req[c].name)'
      BY <3>1, HoldsStep
    <3> QED
      BY <3>1, <3>2, <2>1 DEF Holds, PubHolds
  <2>2. CASE n # req[c].name
    <3>1. n \notin doubt /\ ~Touched(n)
      BY <2>2, <1>1, <1>2 DEF Frame, Touched
    <3>2. Holds(n)
      BY <3>1 DEF KeyInv, SettledInv
    <3>3. priv'[n] = priv[n] /\ pub'[n] = pub[n] /\ promised'[n] = promised[n]
      BY <2>2, <1>1 DEF Frame
    <3> QED
      BY <3>2, <3>3 DEF Holds, PubHolds
  <2> QED
    BY <2>1, <2>2
<1>3. ASSUME NEW d \in Calls, alone'[d] PROVE Progress(d)'
  <2>1. CASE d = c
    BY <2>1, <1>1, <1>3, ProgressStep DEF Frame
  <2>2. CASE d # c
    <3>1. kpc'[d] = kpc[d] /\ mem'[d] = mem[d] /\ req' = req /\ alone[d]
      BY <2>2, <1>1, <1>3 DEF Frame
    <3>2. CASE Active(d)
      <4>1. req[d].name # req[c].name /\ req[d].name \in Names
        BY <3>1, <3>2, <2>2, <1>1 DEF KeyInv, KeyTypes, AloneOK, CallsOK, CallOK, Active
      <4>2. /\ priv'[req[d].name] = priv[req[d].name] /\ pub'[req[d].name] = pub[req[d].name]
            /\ promised'[req[d].name] = promised[req[d].name] /\ (req[d].name \in doubt' <=> req[d].name \in doubt)
        BY <4>1, <1>1 DEF Frame
      <4>3. Progress(d)
        BY <3>1 DEF KeyInv, SettledInv
      <4> QED
        BY <3>1, <4>2, <4>3 DEF Progress, MyPriv, PubHolds
    <3>3. CASE ~Active(d)
      BY <3>1, <3>3 DEF Active, Progress
    <3> QED
      BY <3>2, <3>3
  <2> QED
    BY <2>1, <2>2
<1> QED
  BY <1>2, <1>3 DEF SettledInv

LEMMA KeyInvStep ==
    ASSUME KeyInv, KeyNext
    PROVE  KeyInv'
<1>1. CASE LockOrUnlock
  BY <1>1, LockKeepsKeyInv
<1>2. ASSUME NEW c \in Calls, CallArrives(c) PROVE KeyInv'
  BY <1>2, ArriveKeepsKeyInv
<1>3. ASSUME NEW c \in Calls, CallStep(c) PROVE KeyInv'
  <2>1. KeyTypes'
    BY <1>3, CallTypesStep DEF KeyInv
  <2>2. GoneInv'
    BY <1>3, OneOwnerStep, GoneStep, AgentFreeStep DEF GoneInv
  <2>3. SurviveInv'
    BY <1>3, SurviveStep
  <2>4. SettledInv'
    BY <1>3, SettledStep
  <2> QED
    BY <2>1, <2>2, <2>3, <2>4 DEF KeyInv
<1> QED
  BY <1>1, <1>2, <1>3 DEF KeyNext

\* The keys that are there when the daemon starts have one name each.
LEMMA KeyInvInit == KeyInit => KeyInv
<1> SUFFICES ASSUME KeyInit PROVE KeyInv
  OBVIOUS
<1>1. PICK there \in SUBSET Names, fp \in Injection(Names, Keys), pass \in [Names -> KeyPasses] :
         /\ priv = [n \in Names |-> IF n \in there THEN [k |-> "key", fp |-> fp[n], pass |-> pass[n]] ELSE NoFile]
         /\ pub = [n \in Names |-> IF n \in there THEN [k |-> "key", fp |-> fp[n], alg |-> "ssh-ed25519"] ELSE NoFile]
         /\ promised = [n \in Names |->
               IF n \in there THEN [k |-> "key", fp |-> fp[n], kind |-> "ED25519", pass |-> pass[n]] ELSE NoKey]
  BY DEF KeyInit
<1>2. /\ AgentInit
      /\ kpc = [c \in Calls |-> "new"] /\ req = [c \in Calls |-> [op |-> "none"]]
      /\ mem = [c \in Calls |-> NoKey] /\ answer = [c \in Calls |-> "none"]
      /\ accidents = 0 /\ doubt = {} /\ gone = {} /\ alone = [c \in Calls |-> TRUE]
  BY DEF KeyInit
<1>3. /\ \A n \in Names : fp[n] \in Keys
      /\ \A n, m \in Names : fp[n] = fp[m] => n = m
  <2>1. fp \in [Names -> Keys] /\ IsInjective(fp)
    BY DEF Injection
  <2> QED
    BY <2>1 DEF IsInjective
<1>4. \A n \in there : /\ priv[n] = [k |-> "key", fp |-> fp[n], pass |-> pass[n]]
                       /\ pub[n] = [k |-> "key", fp |-> fp[n], alg |-> "ssh-ed25519"]
                       /\ promised[n] = [k |-> "key", fp |-> fp[n], kind |-> "ED25519", pass |-> pass[n]]
  <2>1. ASSUME NEW n \in there
        PROVE  /\ priv[n] = [k |-> "key", fp |-> fp[n], pass |-> pass[n]]
               /\ pub[n] = [k |-> "key", fp |-> fp[n], alg |-> "ssh-ed25519"]
               /\ promised[n] = [k |-> "key", fp |-> fp[n], kind |-> "ED25519", pass |-> pass[n]]
    <3>1. n \in Names
      OBVIOUS
    <3> QED
      BY <1>1, <3>1
  <2> QED
    BY <2>1
<1>4a. \A n \in there : /\ priv[n].k = "key" /\ priv[n].fp = fp[n] /\ n \in Names
                        /\ pub[n].k = "key" /\ pub[n].fp = fp[n] /\ pub[n].alg = "ssh-ed25519"
                        /\ promised[n].k = "key" /\ promised[n].fp = fp[n] /\ promised[n].kind = "ED25519"
                        /\ promised[n].pass = pass[n]
  <2>1. SUFFICES ASSUME NEW n \in there
                 PROVE  /\ priv[n].k = "key" /\ priv[n].fp = fp[n] /\ n \in Names
                        /\ pub[n].k = "key" /\ pub[n].fp = fp[n] /\ pub[n].alg = "ssh-ed25519"
                        /\ promised[n].k = "key" /\ promised[n].fp = fp[n] /\ promised[n].kind = "ED25519"
                        /\ promised[n].pass = pass[n]
    OBVIOUS
  <2>2. /\ priv[n] = [k |-> "key", fp |-> fp[n], pass |-> pass[n]]
        /\ pub[n] = [k |-> "key", fp |-> fp[n], alg |-> "ssh-ed25519"]
        /\ promised[n] = [k |-> "key", fp |-> fp[n], kind |-> "ED25519", pass |-> pass[n]]
    BY <1>4
  <2> QED
    BY <2>2
<1>5. \A n \in Names \ there : priv[n] = NoFile /\ pub[n] = NoFile /\ promised[n] = NoKey
  BY <1>1
<1>6. \A c \in Calls : kpc[c] = "new" /\ req[c].op = "none" /\ mem[c] = NoKey
  BY <1>2
<1>7. KeyTypes
  <2>1. LockTypeOK
    BY <1>2, ManagedAgentAssumption DEF AgentInit, LockTypeOK
  <2>2. CallsOK
    BY <1>2 DEF CallsOK, CallOK, AgentInit, Labels, GenerateLabels, DeleteLabels, PassphraseLabels, AddLabels, Calls
  <2>3. FilesOK
    <3>1. ASSUME NEW n \in Names PROVE FileOK(priv[n]) /\ FileOK(pub[n]) /\ Promise(promised[n])
      <4>1. CASE n \in there
        <5>1. HasKey(priv[n]) /\ HasKey(pub[n])
          BY <4>1, <1>3, <1>4a DEF HasKey
        <5>2. Promise(promised[n])
          BY <4>1, <1>4 DEF Promise
        <5> QED
          BY <5>1, <5>2 DEF FileOK
      <4>2. CASE n \notin there
        BY <4>2, <1>5 DEF FileOK, Promise
      <4> QED
        BY <4>1, <4>2
    <3>2. DOMAIN priv = Names /\ DOMAIN pub = Names /\ DOMAIN promised = Names
      BY <1>1
    <3> QED
      BY <3>1, <3>2, <1>2 DEF FilesOK, AgentInit
  <2>4. AloneOK
    BY <1>6 DEF AloneOK, Active
  <2> QED
    BY <2>1, <2>2, <2>3, <2>4 DEF KeyTypes
<1>8. GoneInv
  <2>1. ASSUME NEW k, NEW n \in Names, Owns(n, k) PROVE n \in there /\ fp[n] = k
    <3>1. CASE n \in there
      BY <2>1, <3>1, <1>4a, <1>6 DEF Owns, NoKey
    <3>2. CASE n \notin there
      BY <2>1, <3>2, <1>5, <1>6 DEF Owns, NoKey, NoFile
    <3> QED
      BY <3>1, <3>2
  <2>2. OneOwner
    BY <2>1, <1>3 DEF OneOwner
  <2>3. GoneOK /\ AgentFree
    BY <1>2 DEF GoneOK, AgentFree
  <2> QED
    BY <2>2, <2>3 DEF GoneInv
<1>9. SurviveInv
  <2>1. ASSUME NEW n \in Names PROVE priv[n] # Cut /\ (promised[n] # NoKey => priv[n] # NoFile)
    <3>1. CASE n \in there
      BY <3>1, <1>4a DEF Cut, NoFile
    <3>2. CASE n \notin there
      BY <3>2, <1>5 DEF Cut, NoFile
    <3> QED
      BY <3>1, <3>2
  <2> QED
    BY <2>1, <1>6 DEF SurviveInv
<1>10. SettledInv
  <2>1. ASSUME NEW n \in Names PROVE Holds(n)
    <3>1. CASE n \in there
      <4>1. promised[n] # NoKey
        BY <3>1, <1>4a DEF NoKey
      <4>2. ToProtoKeyType(ParseKeyType("ssh-ed25519")) = "ED25519"
        BY DEF ToProtoKeyType, ParseKeyType
      <4>3. PubHolds(n)
        BY <3>1, <4>2, <1>4a DEF PubHolds
      <4> QED
        BY <3>1, <4>1, <4>3, <1>4, <1>4a DEF Holds
    <3>2. CASE n \notin there
      BY <3>2, <1>5 DEF Holds
    <3> QED
      BY <3>1, <3>2
  <2>2. \A c \in Calls : Progress(c)
    BY <1>6 DEF Progress
  <2> QED
    BY <2>1, <2>2 DEF SettledInv
<1> QED
  BY <1>7, <1>8, <1>9, <1>10 DEF KeyInv

(* The steps of the watcher. *)

\* Every change of the agent is told to its subscribers.
LEMMA ChangesTell ==
    ASSUME KeyNext
    PROVE  \/ held' = held /\ locked' = locked /\ changes' = changes
           \/ changes' = changes + 1
<1>1. CASE LockOrUnlock
  BY <1>1 DEF LockOrUnlock, Lock, Unlock, SpawnNotify
<1>2. ASSUME NEW c \in Calls, CallArrives(c)
      PROVE  held' = held /\ locked' = locked /\ changes' = changes
  BY <1>2, ArriveIs DEF Arrive, avars, keyVars, lockVars
<1>3. ASSUME NEW c \in Calls, CallStep(c)
      PROVE  \/ held' = held /\ locked' = locked /\ changes' = changes
             \/ changes' = changes + 1
  <2>1. CASE AskAgent(c)
    BY <2>1 DEF AskAgent, RemoveList, keyVars, lockVars
  <2>2. CASE RemoveFromAgent(c)
    BY <2>2 DEF RemoveFromAgent, RemoveFound, SpawnNotify, lockVars
  <2>3. CASE SendKey(c)
    BY <2>3 DEF SendKey, Add, SpawnNotify, avars, keyVars, lockVars
  <2>4. CASE ~AskAgent(c) /\ ~RemoveFromAgent(c) /\ ~SendKey(c)
    BY <1>3, <2>4 DEF CallStep, avars, keyVars, lockVars, Generate, GenerateRefused, OpenPrivate, WritePrivate, WritePrivateFails, OpenPublic, WritePublic, WritePublicFails, LoadGenerated, TakeFingerprint, AskAgentFails, RemovePrivate, RemovePublic, RemoveFails, ReadPrivate, ReadRefused, ReopenPrivate, RewritePrivate, RewriteFails, ReadKey
  <2> QED
    BY <2>1, <2>2, <2>3, <2>4
<1> QED
  BY <1>1, <1>2, <1>3 DEF KeyNext

\* A listing of a name depends on its files and on the agent.
LEMMA ListDepends ==
    ASSUME NEW n \in Names, priv' = priv, pub'[n] = pub[n], held' = held, locked' = locked
    PROVE  List'[n] = List[n]
  BY DEF List, Load, HasPassphrase, IsKeyInAgent, LoadedFingerprints, Fingerprint, CalculateFingerprint

LEMMA SeenDepends ==
    ASSUME UNCHANGED <<priv, pub, held, locked>>
    PROVE  List' = List /\ \A b : Seen(b)' = Seen(b)
<1>1. List' = List
  BY DEF List, Load, HasPassphrase, IsKeyInAgent, LoadedFingerprints, Fingerprint, CalculateFingerprint
<1> QED
  BY <1>1 DEF Seen, NoKey

\* A step of a call or of the agent leaves a current list current, or gives
\* cause for another.
LEMMA StaysCurrent ==
    ASSUME WatchTypes, KeyNext, Observed, loop \in {"sending", "waiting"}, NEW l, Dirty \/ Current(l)
    PROVE  Dirty' \/ Current(l)'
<1>1. UNCHANGED <<loop, told, agentSignal, timer, update, blind>>
  BY DEF Observed
<1>2. dirEvent' = (dirEvent \/ priv' # priv)
  BY DEF Observed
<1>3. pubSince' = pubSince \union {n \in Names : pub'[n] # pub[n]}
  BY DEF Observed
<1>4. CASE Dirty
  <2>1. told < changes => told' < changes'
    BY <1>1, ChangesTell DEF WatchTypes
  <2> QED
    BY <1>1, <1>2, <1>4, <2>1 DEF Dirty
<1>5. CASE Current(l) /\ priv' # priv
  BY <1>2, <1>5 DEF Dirty
<1>6. CASE Current(l) /\ changes' = changes + 1
  BY <1>1, <1>6 DEF Dirty, WatchTypes
<1>7. CASE Current(l) /\ priv' = priv /\ held' = held /\ locked' = locked
  <2>1. ASSUME NEW n \in Names \ pubSince' PROVE l.keys[n] = Seen(blind)'[n]
    <3>1. n \notin pubSince /\ pub'[n] = pub[n]
      BY <1>3
    <3>2. List'[n] = List[n] /\ l.keys[n] = Seen(blind)[n]
      BY <3>1, <1>7, ListDepends DEF Current
    <3> QED
      BY <3>2, <1>1 DEF Seen, NoKey
  <2> QED
    BY <2>1, <1>7 DEF Current
<1> QED
  BY <1>4, <1>5, <1>6, <1>7, ChangesTell

LEMMA ObservedStep ==
    ASSUME WatchInv, KeyNext, Observed
    PROVE  WatchInv'
<1>1. UNCHANGED <<loop, told, agentSignal, timer, update, prevKeys, shown, overlapped, blind>>
  BY DEF Observed
<1>2. WatchTypes'
  <2>1. changes' \in Nat /\ told <= changes'
    BY ChangesTell DEF WatchInv, WatchTypes
  <2> QED
    BY <1>1, <2>1 DEF WatchInv, WatchTypes, UpdateOK, Idle
<1>3. ASSUME loop' = "sending" PROVE prevKeys'.k = "list" /\ (Dirty' \/ Current(prevKeys)')
  BY <1>1, <1>3, StaysCurrent DEF WatchInv, Current
<1>4. ASSUME loop' = "waiting", ~overlapped'
      PROVE  /\ \A u, v \in Updates : update'[u] # Idle /\ update'[v] # Idle => u = v
             /\ \A u \in Updates : Follows(u)'
             /\ (\A u \in Updates : update'[u] = Idle) => Last' /\ (Dirty' \/ shown' = Failure \/ Current(shown)')
  <2>1. loop = "waiting" /\ ~overlapped /\ Last' = Last
    BY <1>1, <1>4 DEF Last, Failure
  <2>2. ASSUME NEW l, Dirty \/ Current(l) PROVE Dirty' \/ Current(l)'
    BY <2>1, <2>2, StaysCurrent DEF WatchInv
  <2>3. ASSUME NEW u \in Updates PROVE Follows(u)'
    BY <1>1, <2>1, <2>2 DEF WatchInv, Follows, Current
  <2>4. ASSUME \A u \in Updates : update'[u] = Idle PROVE Last' /\ (Dirty' \/ shown' = Failure \/ Current(shown)')
    BY <1>1, <2>1, <2>2, <2>4 DEF WatchInv, Current
  <2> QED
    BY <1>1, <2>1, <2>3, <2>4 DEF WatchInv
<1> QED
  BY <1>2, <1>3, <1>4 DEF WatchInv, Idle, Nothing, Failure

\* A sendUpdate goroutine is idle, or it has begun, listed or sent.
LEMMA Ats ==
    ASSUME WatchTypes, NEW u \in Updates
    PROVE  /\ update[u].at \in {"idle", "begun", "listed", "sent"}
           /\ update[u] = Idle <=> update[u].at = "idle"
           /\ update[u].at = "begun" => update[u] = [at |-> "begun", list |-> Nothing]
           /\ update[u].at \in {"listed", "sent"} => update[u].list.k = "list"
           /\ update[u].at # "idle" => loop = "waiting"
<1>1. UpdateOK(u)
  BY DEF WatchTypes
<1>2. loop # "waiting" => update[u] = Idle
  BY DEF WatchTypes
<1>3. Idle.at = "idle"
  BY DEF Idle
<1> QED
  BY <1>1, <1>2, <1>3 DEF UpdateOK, Idle

\* The steps of the loop before it waits, and those that only move a signal on.
LEMMA LoopStep ==
    ASSUME WatchInv, StartWatcher \/ WatchDirectory \/ WatchFails \/ SubscribeChanges \/ FirstList \/ FirstSend
    PROVE  WatchInv'
<1>1. /\ loop # "waiting" /\ ~timer /\ ~overlapped /\ shown.k # "list"
      /\ \A u \in Updates : update[u] = Idle /\ UpdateOK(u)
      /\ UNCHANGED <<changes, told, dirEvent, agentSignal, timer, update, overlapped>>
  BY DEF WatchInv, WatchTypes, StartWatcher, WatchDirectory, WatchFails, SubscribeChanges, FirstList, FirstSend, avars
<1>2. ASSUME loop' # "waiting", shown'.k # "list" PROVE WatchTypes'
  BY <1>1, <1>2 DEF WatchInv, WatchTypes, UpdateOK, Idle
<1>3. CASE StartWatcher \/ WatchDirectory \/ SubscribeChanges
  <2>1. loop' \notin {"waiting", "sending"} /\ shown' = shown
    BY <1>3 DEF StartWatcher, WatchDirectory, SubscribeChanges
  <2> QED
    BY <2>1, <1>1, <1>2 DEF WatchInv
<1>4. CASE WatchFails
  <2>1. loop' = "ended" /\ shown'.k = "error"
    BY <1>4 DEF WatchFails, Failure
  <2> QED
    BY <2>1, <1>1, <1>2 DEF WatchInv
<1>5. CASE FirstList
  <2>1. loop' = "sending" /\ shown' = shown /\ prevKeys' = Listing(blind') /\ pubSince' = {} /\ UNCHANGED <<priv, pub, held, locked>>
    BY <1>5 DEF FirstList, Lists, avars, keyVars, lockVars, fileVars
  <2>2. \A b : Seen(b)' = Seen(b)
    BY <2>1, SeenDepends
  <2>3. Current(prevKeys)' /\ prevKeys'.k = "list"
    <3>1. prevKeys'.k = "list" /\ prevKeys'.keys = Seen(blind')
      BY <2>1 DEF Listing
    <3>2. Seen(blind)' = Seen(blind')
      BY <2>2, SeenDepends, <2>1 DEF Seen
    <3> QED
      BY <3>1, <3>2 DEF Current
  <2> QED
    BY <2>1, <2>3, <1>1, <1>2 DEF WatchInv
<1>6. CASE FirstSend
  <2>1. /\ loop = "sending" /\ loop' = "waiting" /\ shown' = prevKeys
        /\ UNCHANGED <<prevKeys, pubSince, blind, priv, pub, held, locked>>
    BY <1>6 DEF FirstSend, avars, keyVars, lockVars, kfvars, fileVars
  <2>2. Seen(blind)' = Seen(blind)
    BY <2>1, SeenDepends DEF Seen
  <2>3. prevKeys.k = "list" /\ (Dirty \/ Current(prevKeys))
    BY <2>1 DEF WatchInv
  <2>4. Dirty' = Dirty /\ (Current(prevKeys) => Current(shown)')
    BY <2>1, <2>2, <1>1 DEF Dirty, Current
  <2>5. WatchTypes'
    BY <2>1, <1>1 DEF WatchInv, WatchTypes, UpdateOK, Idle
  <2>6. \A u \in Updates : update'[u] = Idle /\ Idle' = Idle /\ update'[u].at = "idle"
    BY <1>1 DEF Idle, Nothing
  <2>7. \A u \in Updates : Follows(u)'
    BY <2>6 DEF Follows
  <2> QED
    BY <2>1, <2>3, <2>4, <2>5, <2>6, <2>7 DEF WatchInv, Last
<1> QED
  BY <1>3, <1>4, <1>5, <1>6

LEMMA SignalStep ==
    ASSUME WatchInv, AgentTells \/ TakeEvent \/ TakeSignal
    PROVE  WatchInv'
<1>1. UNCHANGED <<changes, loop, update, prevKeys, shown, overlapped, pubSince, blind, priv, pub, held, locked>>
  BY DEF AgentTells, TakeEvent, TakeSignal, avars, keyVars, lockVars, kfvars, fileVars
<1>2. WatchTypes'
  BY <1>1 DEF WatchInv, WatchTypes, UpdateOK, Idle, AgentTells, TakeEvent, TakeSignal
<1>3. Last' = Last
  BY <1>1 DEF Last, Failure
<1>4. loop \in {"sending", "waiting"} => Dirty'
  BY DEF AgentTells, TakeEvent, TakeSignal, Dirty
<1>5. ASSUME NEW u \in Updates, loop = "waiting", Follows(u) PROVE Follows(u)'
  BY <1>1, <1>3, <1>4, <1>5 DEF Follows
<1>6. Idle' = Idle
  BY DEF Idle, Nothing
<1> QED
  BY <1>1, <1>2, <1>3, <1>4, <1>5, <1>6 DEF WatchInv

\* sendUpdate: as long as no second one overlaps it, what it has got hold of is
\* what is shown next.
LEMMA UpdateStep ==
    ASSUME WatchInv, NEW u \in Updates,
           TimerFires(u) \/ UpdateLists(u) \/ UpdateListFails(u) \/ UpdateSends(u) \/ UpdateRemembers(u)
    PROVE  WatchInv'
<1>0. WatchTypes
  BY DEF WatchInv
<1>1. UNCHANGED <<changes, told, loop, dirEvent, agentSignal, priv, pub, held, locked>>
  BY DEF TimerFires, UpdateLists, UpdateListFails, UpdateSends, UpdateRemembers, avars, keyVars, lockVars, kfvars, fileVars
<1>2. Idle' = Idle /\ Idle.at = "idle" /\ Idle.list = Nothing /\ Nothing.k = "none"
  BY DEF Idle, Nothing
<1>2a. Seen(blind)' = Seen(blind')
  BY <1>1, SeenDepends DEF Seen
<1>3. loop = "waiting"
  BY <1>0, Ats DEF TimerFires, UpdateLists, UpdateListFails, UpdateSends, UpdateRemembers, WatchTypes
<1>4. DOMAIN update = Updates /\ DOMAIN update' = Updates /\ \A v \in Updates : v # u => update'[v] = update[v]
  BY <1>0 DEF WatchTypes, TimerFires, UpdateLists, UpdateListFails, UpdateSends, UpdateRemembers
<1>5. overlapped => overlapped'
  BY DEF TimerFires, UpdateLists, UpdateListFails, UpdateSends, UpdateRemembers
<1>6. ASSUME UpdateOK(u)' PROVE WatchTypes'
  <2>1. \A v \in Updates : v # u => UpdateOK(v)'
    BY <1>0, <1>4 DEF WatchTypes, UpdateOK, Nothing
  <2> QED
    BY <2>1, <1>0, <1>1, <1>3, <1>4, <1>6 DEF WatchTypes
\* With u alone at work, the invariant is about u.
<1>7. ASSUME UpdateOK(u)', \A v \in Updates : v # u => update[v] = Idle,
             Follows(u)', update'[u] = Idle => Last' /\ (Dirty' \/ shown' = Failure \/ Current(shown)')
      PROVE  WatchInv'
  <2>1. \A v \in Updates : v # u => update'[v] = Idle /\ update'[v].at = "idle"
    BY <1>2, <1>4, <1>7
  <2>2. \A v \in Updates : Follows(v)'
    BY <2>1, <1>7 DEF Follows
  <2> QED
    BY <2>1, <2>2, <1>1, <1>2, <1>3, <1>6, <1>7 DEF WatchInv, Failure
<1>8. ASSUME UpdateOK(u)', overlapped' PROVE WatchInv'
  BY <1>1, <1>3, <1>6, <1>8 DEF WatchInv
<1>9. CASE TimerFires(u)
  <2>1. update'[u] = [at |-> "begun", list |-> Nothing] /\ UNCHANGED <<shown, prevKeys>> /\ update[u] = Idle
    BY <1>4, <1>9 DEF TimerFires, Idle
  <2>2. update'[u].at = "begun" /\ update'[u].list = Nothing /\ Nothing' = Nothing
    BY <2>1 DEF Nothing
  <2>3. UpdateOK(u)'
    BY <2>1, <2>2 DEF UpdateOK
  <2>4. CASE ~overlapped'
    <3>1. ~overlapped /\ \A v \in Updates : update[v] = Idle
      BY <1>9, <2>4 DEF TimerFires
    <3>2. Last'
      BY <3>1, <1>3, <2>1 DEF WatchInv, Last, Failure
    <3>3. Follows(u)'
      BY <3>2, <2>1, <2>2 DEF Follows
    <3>4. update'[u] # Idle
      BY <2>2, <1>2
    <3> QED
      BY <3>1, <3>3, <3>4, <2>3, <1>7
  <2> QED
    BY <2>3, <2>4, <1>8
<1>10. ASSUME overlapped' = overlapped, ~overlapped, update[u].at # "idle"
       PROVE  \A v \in Updates : v # u => update[v] = Idle
  BY <1>10, <1>0, <1>2, <1>3, Ats DEF WatchInv
<1>11. CASE UpdateLists(u)
  <2>1. /\ update[u].at = "begun" /\ update'[u] = [at |-> "listed", list |-> Listing(blind')] /\ pubSince' = {}
        /\ UNCHANGED <<shown, prevKeys, overlapped, timer>>
    BY <1>4, <1>11 DEF UpdateLists, Lists
  <2>2. update'[u].at = "listed" /\ update'[u].list.k = "list" /\ update'[u].list.keys = Seen(blind')
    BY <2>1 DEF Listing
  <2>3. UpdateOK(u)'
    BY <2>1, <2>2 DEF UpdateOK
  <2>4. CASE ~overlapped
    <3>1. Last'
      BY <2>1, <2>4, <1>3 DEF WatchInv, Follows, Last, Failure
    <3>2. Current(update[u].list)'
      BY <2>1, <2>2, <1>2a DEF Current
    <3>3. Follows(u)'
      BY <3>1, <3>2, <2>1, <2>2 DEF Follows
    <3>4. update'[u] # Idle
      BY <2>2, <1>2
    <3> QED
      BY <3>3, <3>4, <2>1, <2>3, <2>4, <1>7, <1>10
  <2> QED
    BY <2>1, <2>3, <2>4, <1>8
<1>11a. CASE UpdateListFails(u)
  <2>1. /\ update[u].at = "begun" /\ update'[u] = Idle /\ shown' = Failure /\ overlapped' = overlapped
    BY <1>4, <1>11a DEF UpdateListFails
  <2>2. update'[u].at = "idle" /\ update'[u].list = Nothing /\ Nothing' = Nothing
    BY <2>1, <1>2 DEF Nothing
  <2>3. UpdateOK(u)'
    BY <2>1, <2>2 DEF UpdateOK, Idle
  <2>4. Last' /\ shown' = Failure
    BY <2>1 DEF Last, Failure
  <2>5. Follows(u)'
    BY <2>2 DEF Follows
  <2> QED
    BY <2>1, <2>3, <2>4, <2>5, <1>7, <1>8, <1>10
<1>12. CASE UpdateSends(u)
  <2>1. /\ update[u].at = "listed" /\ update[u] = [at |-> update[u].at, list |-> update[u].list] /\ update[u].list.k = "list"
        /\ UNCHANGED <<prevKeys, overlapped, timer, pubSince, blind>>
    BY <1>0, <1>12, Ats DEF UpdateSends, WatchTypes, UpdateOK
  <2>2. ~overlapped => Last /\ (Dirty \/ Current(update[u].list))
    BY <2>1, <1>3 DEF WatchInv, Follows
  <2>3. ASSUME NEW v \in Updates, update'[v].at # "begun", update[v].at = "begun" PROVE FALSE
    <3>1. v # u
      BY <2>1, <2>3
    <3> QED
      BY <2>3, <3>1, <1>4
  <2>4. Dirty => Dirty'
    BY <2>1, <2>3, <1>1 DEF Dirty
  <2>5. ASSUME NEW l, Current(l) PROVE Current(l)'
    BY <2>5, <2>1, <1>2a DEF Current
  <2>6. CASE prevKeys = update[u].list
    <3>1. update'[u] = Idle /\ shown' = shown
      BY <2>6, <1>4, <1>12 DEF UpdateSends, KeysEqual
    <3>2. update'[u].at = "idle" /\ update'[u].list = Nothing /\ Nothing' = Nothing
      BY <3>1, <1>2 DEF Nothing
    <3>3. UpdateOK(u)'
      BY <3>1, <3>2 DEF UpdateOK, Idle
    <3>4. ~overlapped => Last' /\ (Dirty' \/ shown' = Failure \/ Current(shown)')
      BY <3>1, <2>1, <2>2, <2>4, <2>5, <2>6 DEF Current, Last, Failure
    <3>5. Follows(u)'
      BY <3>2 DEF Follows
    <3> QED
      BY <3>3, <3>4, <3>5, <2>1, <1>7, <1>8, <1>10
  <2>7. CASE prevKeys # update[u].list
    <3>1. update' = [update EXCEPT ![u].at = "sent"] /\ shown' = update[u].list
      BY <2>7, <1>12 DEF UpdateSends, KeysEqual
    <3>2. update'[u] = [at |-> "sent", list |-> update[u].list]
      BY <3>1, <2>1, <1>4
    <3>3. update'[u].at = "sent" /\ update'[u].list = update[u].list
      BY <3>2
    <3>4. UpdateOK(u)'
      BY <3>2, <3>3, <2>1 DEF UpdateOK
    <3>5. ~overlapped => Follows(u)'
      <4>1. Current(update[u].list) => Current(shown)'
        BY <3>1, <2>5 DEF Current
      <4> QED
        BY <4>1, <3>1, <3>3, <2>2, <2>4 DEF Follows
    <3>6. update'[u] # Idle
      BY <3>3, <1>2
    <3> QED
      BY <3>4, <3>5, <3>6, <2>1, <1>7, <1>8, <1>10
  <2> QED
    BY <2>6, <2>7
<1>13. CASE UpdateRemembers(u)
  <2>1. /\ update[u].at = "sent" /\ prevKeys' = update[u].list /\ update'[u] = Idle
        /\ UNCHANGED <<shown, overlapped, timer, pubSince, blind>>
    BY <1>4, <1>13 DEF UpdateRemembers
  <2>2. update'[u].at = "idle" /\ update'[u].list = Nothing /\ Nothing' = Nothing
    BY <2>1, <1>2 DEF Nothing
  <2>3. UpdateOK(u)'
    BY <2>1, <2>2 DEF UpdateOK, Idle
  <2>4. Dirty => Dirty'
    BY <2>1, <1>1, <1>4 DEF Dirty
  <2>5. Current(shown) => Current(shown)'
    BY <2>1, <1>2a DEF Current
  <2>6. ~overlapped => Last' /\ (Dirty' \/ shown' = Failure \/ Current(shown)')
    BY <2>1, <2>4, <2>5, <1>3 DEF WatchInv, Follows, Last
  <2>7. Follows(u)'
    BY <2>2 DEF Follows
  <2> QED
    BY <2>1, <2>3, <2>6, <2>7, <1>7, <1>8, <1>10
<1> QED
  BY <1>9, <1>11, <1>11a, <1>12, <1>13

\* Within a behaviour about the files, and in one about pushing, where neither
\* the files nor the watcher change.
LEMMA ServiceStep == ServiceInv /\ [Next]_svars => ServiceInv'
<1> SUFFICES ASSUME ServiceInv, [Next]_svars PROVE ServiceInv'
  OBVIOUS
<1> USE DEF ServiceInv
<1>1. ASSUME UNCHANGED kvars PROVE KeyInv' /\ WatchInv'
  <2>1. UNCHANGED <<fileVars, callVars, histVars, held, removing, outcome, accidents, locked, lockPass>>
    BY <1>1 DEF kvars, kfvars, avars, keyVars, clientVars, lockVars
  <2>2. KeyInv'
    <3>1. LockTypeOK'
      BY <2>1 DEF KeyInv, KeyTypes, LockTypeOK
    <3> QED
      BY <2>1, <3>1, KeysUnchanged
  <2>3. UNCHANGED <<changes, watchVars, priv, pub, held, locked>>
    BY <1>1 DEF kvars, kfvars, avars, keyVars, lockVars, fileVars
  <2>4. Seen(blind)' = Seen(blind)
    BY <2>3, SeenDepends DEF Seen, watchVars
  <2>5. WatchInv'
    <3> USE DEF watchVars
    <3>1. WatchTypes'
      BY <2>3 DEF WatchInv, WatchTypes, UpdateOK, Idle, Nothing
    <3>2. \A u \in Updates : Follows(u) => Follows(u)'
      BY <2>3, <2>4 DEF Follows, Dirty, Current, Last, Failure
    <3>3. (Dirty => Dirty') /\ (Current(prevKeys) => Current(prevKeys)') /\ (Current(shown) => Current(shown)')
          /\ Idle' = Idle /\ Last' = Last
      BY <2>3, <2>4 DEF Dirty, Current, Idle, Nothing, Last, Failure
    <3> QED
      BY <2>3, <3>1, <3>2, <3>3 DEF WatchInv, Failure
  <2> QED
    BY <2>2, <2>5
<1>2. CASE part = "files" /\ WatchNext /\ UNCHANGED <<pvars, part>>
  <2>1. CASE KeyNext /\ Observed
    BY <1>2, <2>1, KeyInvStep, ObservedStep
  <2>2. CASE WatcherNext
    <3>1. KeyInv'
      <4>1. /\ UNCHANGED <<fileVars, callVars, histVars, held, removing, outcome, locked, lockPass>>
            /\ accidents' = accidents \/ accidents' = accidents + 1
        BY <2>2 DEF WatcherNext, StartWatcher, WatchDirectory, WatchFails, SubscribeChanges, FirstList, FirstSend,
           AgentTells, TakeEvent, TakeSignal, TimerFires, Lists, UpdateLists, UpdateListFails, UpdateSends, UpdateRemembers,
           avars, keyVars, clientVars, lockVars, kfvars, Accident
      <4>2. LockTypeOK' /\ accidents \in Nat
        BY <4>1 DEF KeyInv, KeyTypes, LockTypeOK, FilesOK
      <4> QED
        BY <4>1, <4>2, KeysUnchanged
    <3>2. WatchInv'
      BY <2>2, LoopStep, SignalStep, UpdateStep DEF WatcherNext
    <3> QED
      BY <1>2, <3>1, <3>2
  <2>3. CASE Crash
    <3>1. KeyInv'
      BY <2>3, CrashKeepsKeyInv DEF Crash
    <3>2. WatchInv'
      <4>1. /\ loop' = "off" /\ ~timer' /\ ~overlapped' /\ shown' = Nothing /\ changes' = changes /\ told' = changes
            /\ update' = [u \in Updates |-> Idle]
        BY <2>3 DEF Crash, KeyCrash
      <4>2. \A u \in Updates : UpdateOK(u)' /\ update'[u] = Idle'
        BY <4>1 DEF UpdateOK, Idle, Nothing
      <4>3. WatchTypes'
        BY <4>1, <4>2 DEF WatchInv, WatchTypes, Nothing
      <4> QED
        BY <4>1, <4>3 DEF WatchInv
    <3> QED
      BY <1>2, <3>1, <3>2
  <2> QED
    BY <1>2, <2>1, <2>2, <2>3 DEF WatchNext
<1>3. CASE part = "push" /\ PushNext /\ UNCHANGED <<kvars, part>>
  BY <1>1, <1>3
<1>4. CASE UNCHANGED svars
  BY <1>1, <1>4 DEF svars
<1> QED
  BY <1>2, <1>3, <1>4 DEF Next

LEMMA ServiceInit == Init => ServiceInv
<1> SUFFICES ASSUME Init PROVE ServiceInv
  OBVIOUS
<1>1. KeyInit /\ WatcherInit /\ part \in {"files", "push"}
  BY DEF Init, WatchInit
<1>2. \A u \in Updates : UpdateOK(u) /\ update[u] = Idle
  BY <1>1 DEF WatcherInit, UpdateOK, Idle, Nothing
<1>3. WatchTypes
  BY <1>1, <1>2 DEF WatchTypes, WatcherInit, KeyInit, AgentInit, Nothing
<1>4. WatchInv
  BY <1>1, <1>3 DEF WatchInv, WatcherInit
<1> QED
  BY <1>1, <1>4, KeyInvInit DEF ServiceInv

\* The invariant makes the files, the agent and what the watcher has shown what
\* the properties say of them.
LEMMA Settled == ServiceInv => FilesAsAnswered
<1> SUFFICES ASSUME KeyInv, NEW n \in Names, AtRest(n), n \notin doubt
             PROVE  IF promised[n] = NoKey THEN priv[n] = NoFile /\ pub[n] = NoFile
                    ELSE /\ ListKeys[n].k = "key"
                         /\ ListKeys[n].fp = promised[n].fp /\ ListKeys[n].kind = promised[n].kind
                         /\ ListKeys[n].hasPassphrase = (promised[n].pass # "")
                         /\ priv[n] = [k |-> "key", fp |-> promised[n].fp, pass |-> promised[n].pass]
  BY DEF FilesAsAnswered, ServiceInv
<1>1. ~Touched(n)
  <2>1. ASSUME NEW c \in Calls, kpc[c] \in TouchLabels, req[c].name = n PROVE FALSE
    <3>1. CallOK(c) /\ Active(c)
      BY <2>1 DEF KeyInv, KeyTypes, CallsOK, Active, TouchLabels
    <3>2. req[c].op # "add"
      BY <2>1, <3>1 DEF CallOK, TouchLabels, GenerateLabels, DeleteLabels, PassphraseLabels
    <3> QED
      BY <2>1, <3>1, <3>2 DEF AtRest, On
  <2> QED
    BY <2>1 DEF Touched
<1>2. Holds(n)
  BY <1>1 DEF KeyInv, SettledInv
<1>3. CASE promised[n] = NoKey
  BY <1>2, <1>3 DEF Holds
<1>4. CASE promised[n] # NoKey
  <2> DEFINE shownKey == [k |-> "key", fp |-> pub[n].fp, type |-> ParseKeyType(pub[n].alg),
                          hasPassphrase |-> HasPassphrase(priv[n]), inAgent |-> IsKeyInAgent(Fingerprint(n))]
  <2>1. priv[n] = [k |-> "key", fp |-> promised[n].fp, pass |-> promised[n].pass] /\ PubHolds(n)
    BY <1>2, <1>4 DEF Holds
  <2>2. priv[n].k = "key" /\ priv[n].pass = promised[n].pass
    BY <2>1
  <2>3. List[n] = shownKey
    BY <2>1, <2>2 DEF List, Load, PubHolds
  <2>4. shownKey.k = "key" /\ shownKey.fp = pub[n].fp /\ shownKey.type = ParseKeyType(pub[n].alg)
        /\ shownKey.hasPassphrase = HasPassphrase(priv[n])
    OBVIOUS
  <2> HIDE DEF shownKey
  <2>5. List[n] # NoKey
    BY <2>3, <2>4 DEF NoKey
  <2>6. ListKeys[n] = ToProtoKey(List[n])
    BY <2>5 DEF ListKeys
  <2>7. /\ ListKeys[n].k = "key" /\ ListKeys[n].fp = pub[n].fp
        /\ ListKeys[n].kind = ToProtoKeyType(ParseKeyType(pub[n].alg))
        /\ ListKeys[n].hasPassphrase = HasPassphrase(priv[n])
    BY <2>3, <2>4, <2>6 DEF ToProtoKey
  <2>8. HasPassphrase(priv[n]) = (promised[n].pass # "")
    BY <2>2 DEF HasPassphrase
  <2> QED
    BY <1>4, <2>1, <2>7, <2>8 DEF PubHolds
<1> QED
  BY <1>3, <1>4

LEMMA Survived == ServiceInv => KeysSafe
<1> SUFFICES ASSUME ServiceInv PROVE KeysSafe
  OBVIOUS
<1>1. KeyInv /\ WatchInv
  BY DEF ServiceInv
<1>2. TypeOK
  <2>1. ASSUME NEW n \in Names PROVE FileTypeOK(priv[n]) /\ FileTypeOK(pub[n])
    BY <1>1 DEF KeyInv, KeyTypes, FilesOK, FileOK, FileTypeOK, NoFile, Cut, HasKey
  <2>2. \A u \in Updates : update[u].at \in {"listed", "sent"} <=> update[u].list.k = "list"
    BY <1>1 DEF WatchInv, WatchTypes, UpdateOK, Nothing
  <2>3. answer \in [Calls -> {"none", "ok", "error"}]
    BY <1>1 DEF KeyInv, KeyTypes, CallsOK
  <2> QED
    BY <1>1, <2>1, <2>2, <2>3 DEF TypeOK, ServiceInv, KeyInv, KeyTypes, FilesOK, CallsOK, WatchInv, WatchTypes
<1>3. DeletedLeavesAgent
  BY <1>1 DEF DeletedLeavesAgent, KeyInv, GoneInv, GoneOK
<1>4. KeySurvives
  <2>1. SUFFICES ASSUME accidents = 0, NEW n \in Names, AtRest(n), promised[n] # NoKey,
                        \A c \in Calls : req[c].op = "delete" => req[c].name # n
                 PROVE  priv[n].k = "key"
    BY DEF KeySurvives
  <2>2. ~Deleted(n)
    BY <2>1 DEF Deleted
  <2>3. /\ priv[n] = Cut => \E c \in Calls : kpc[c] \in {"writePriv", "rewrite"} /\ req[c].name = n
        /\ priv[n] # NoFile
    BY <1>1, <2>1, <2>2 DEF KeyInv, SurviveInv
  <2>4. ASSUME NEW c \in Calls, kpc[c] \in {"writePriv", "rewrite"}, req[c].name = n PROVE FALSE
    <3>1. CallOK(c) /\ Active(c)
      BY <1>1, <2>4 DEF KeyInv, KeyTypes, CallsOK, Active
    <3>2. req[c].op # "add"
      BY <2>4, <3>1 DEF CallOK, GenerateLabels, PassphraseLabels
    <3> QED
      BY <2>1, <2>4, <3>1, <3>2 DEF AtRest, On
  <2>5. FileOK(priv[n])
    BY <1>1 DEF KeyInv, KeyTypes, FilesOK
  <2> QED
    BY <2>3, <2>4, <2>5 DEF FileOK, HasKey
<1> QED
  BY <1>2, <1>3, <1>4 DEF KeysSafe

LEMMA Shown == ServiceInv => QuietIsCurrent
<1> SUFFICES ASSUME WatchInv, loop = "waiting", ~dirEvent, ~agentSignal, told = changes, ~timer,
                    \A u \in Updates : update[u] = Idle, ~overlapped
             PROVE  shown = Failure \/ Current(shown)
  BY DEF QuietIsCurrent, ServiceInv, Current
<1>1. Dirty \/ shown = Failure \/ Current(shown)
  BY DEF WatchInv
<1>2. ~Dirty
  BY DEF Dirty, WatchInv, WatchTypes, Idle
<1> QED
  BY <1>1, <1>2

LEMMA ServiceIsInvariant == Spec => []ServiceInv
  BY ServiceInit, ServiceStep, PTL DEF Spec

\* No key is lost and none is left behind: a key that nobody deletes keeps its
\* file as long as the daemon meets no accident, and one that Delete removed
\* alone, with an agent that answered and was not locked, has left the agent,
\* however the calls interleave (KeyService).
THEOREM KeysAreSafe == Spec => []KeysSafe
  BY ServiceIsInvariant, Survived, PTL

\* A name at rest that no accident has hit holds what the answers say, both
\* files of one key of the kind asked for under the last passphrase, or neither
\* (Generate, Delete, ChangePassphrase).
THEOREM FilesAreAsAnswered == Spec => []FilesAsAnswered
  BY ServiceIsInvariant, Settled, PTL

\* A watcher with nothing to do has broadcast the current listing, as the agent
\* answered when it was made, or the error of a listing that failed, unless two
\* sendUpdates overlapped (keysWatcher).
THEOREM QuietWatcherIsCurrent == Spec => []QuietIsCurrent
  BY ServiceIsInvariant, Shown, PTL

================================================================================
