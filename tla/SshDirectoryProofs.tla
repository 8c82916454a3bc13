--------------------------- MODULE SshDirectoryProofs ---------------------------
(***************************************************************************)
(* Proofs about the files of ~/.ssh.                                       *)
(***************************************************************************)
EXTENDS SshDirectory, SequenceTheorems, WellFoundedInduction, TLAPS

LEMMA NatMin ==
    ASSUME NEW S \in SUBSET Nat, S # {}
    PROVE  \E m \in S : \A n \in S : m <= n
<1> DEFINE LT == OpToRel(<, Nat)
<1>1. IsWellFoundedOn(LT, Nat)
  BY NatLessThanWellFounded, Zenon
<1>2. LT = {ss \in Nat \X Nat : ss[1] < ss[2]}
  BY DEF OpToRel
<1> HIDE DEF LT
<1>3. PICK m \in S : \A n \in S : ~ (<<n, m>> \in LT)
  BY <1>1, WFMin
<1>4. \A n \in S : ~ (n < m)
  BY <1>2, <1>3
<1>5. QED
  BY <1>4

\* Induction up to a bound, over a set instead of a predicate.
LEMMA UpToBound ==
    ASSUME NEW N \in Nat, NEW S, 0 \in S,
           \A n \in Nat : n < N /\ n \in S => n + 1 \in S
    PROVE  \A n \in 0..N : n \in S
<1> DEFINE bad == {n \in 0..N : n \notin S}
<1>1. SUFFICES ASSUME bad # {} PROVE FALSE
  OBVIOUS
<1>2. PICK m \in bad : \A n \in bad : m <= n
  <2>1. bad \in SUBSET Nat
    OBVIOUS
  <2>2. QED
    BY <1>1, <2>1, NatMin
<1>3. m # 0 /\ m - 1 \in 0..N /\ m - 1 < m /\ m - 1 \in Nat /\ m - 1 < N
  BY <1>2
<1>4. m - 1 \in S
  BY <1>2, <1>3
<1>5. m - 1 + 1 = m /\ m - 1 + 1 \in S
  BY <1>3, <1>4, <1>2
<1>6. QED
  BY <1>2, <1>5

\* f is KeptAt's recursive function up to n.
KeptUpTo(f, n, s, at) ==
    f = [i \in 0..n |-> IF i = 0 THEN <<>>
                        ELSE IF i \in at THEN Append(f[i - 1], s[i])
                        ELSE f[i - 1]]

LEMMA KeptIsFound ==
    ASSUME NEW s, Len(s) \in Nat, NEW at
    PROVE  \E f : KeptUpTo(f, Len(s), s, at) /\ KeptAt(s, at) = f[Len(s)]
<1> DEFINE S == {n \in Nat : \E f : KeptUpTo(f, n, s, at)}
<1>1. 0 \in S
  <2>1. KeptUpTo([i \in 0..0 |-> <<>>], 0, s, at)
    BY DEF KeptUpTo
  <2>2. QED
    BY <2>1
<1>2. ASSUME NEW n \in Nat, n \in S
      PROVE  n + 1 \in S
  <2>1. PICK f : KeptUpTo(f, n, s, at)
    BY <1>2
  <2> DEFINE last == IF n + 1 \in at THEN Append(f[n], s[n + 1]) ELSE f[n]
             g == [i \in 0..n+1 |-> IF i = n + 1 THEN last ELSE f[i]]
  <2>2. \A i \in 0..n+1 : i = n + 1 \/ (i \in 0..n /\ i # n + 1)
    OBVIOUS
  <2>3. g[n] = f[n] /\ g[n + 1] = last /\ n + 1 - 1 = n /\ n + 1 # 0
    OBVIOUS
  <2>4. ASSUME NEW i \in 0..n
        PROVE  g[i] = IF i = 0 THEN <<>>
                      ELSE IF i \in at THEN Append(g[i - 1], s[i])
                      ELSE g[i - 1]
    <3>1. g[i] = f[i] /\ (i # 0 => g[i - 1] = f[i - 1])
      BY <2>4
    <3>2. f[i] = IF i = 0 THEN <<>>
                 ELSE IF i \in at THEN Append(f[i - 1], s[i])
                 ELSE f[i - 1]
      BY <2>1 DEF KeptUpTo
    <3> HIDE DEF g
    <3>3. QED
      BY <3>1, <3>2
  <2>5. g = [i \in 0..n+1 |-> g[i]]
    OBVIOUS
  <2> HIDE DEF g
  <2>6. ASSUME NEW i \in 0..n+1
        PROVE  g[i] = IF i = 0 THEN <<>>
                      ELSE IF i \in at THEN Append(g[i - 1], s[i])
                      ELSE g[i - 1]
    <3>1. CASE i = n + 1
      <4>1. g[i] = last /\ g[i - 1] = f[n] /\ i # 0
        BY <2>3, <3>1
      <4>2. QED
        BY <3>1, <4>1
    <3>2. CASE i \in 0..n
      BY <2>4, <3>2
    <3>3. QED
      BY <2>2, <3>1, <3>2
  <2>7. KeptUpTo(g, n + 1, s, at)
    BY <2>5, <2>6 DEF KeptUpTo
  <2>8. QED
    BY <2>7
<1>3. \E f : KeptUpTo(f, Len(s), s, at)
  <2> HIDE DEF S
  <2>1. \A n \in 0..Len(s) : n \in S
    BY <1>1, <1>2, UpToBound
  <2>2. Len(s) \in S
    BY <2>1
  <2>3. QED
    BY <2>2 DEF S
<1> DEFINE f == CHOOSE f : KeptUpTo(f, Len(s), s, at)
<1>4. KeptUpTo(f, Len(s), s, at)
  BY <1>3
<1>5. KeptAt(s, at) = f[Len(s)]
  BY DEF KeptAt, KeptUpTo
<1>6. QED
  BY <1>4, <1>5

\* r consists of the lines of s at the numbers up to n that are in at, in their
\* order; g are these numbers.
Picked(g, r, s, at, n) ==
    /\ g \in Seq(Nat) /\ Len(g) = Len(r)
    /\ \A i \in 1..Len(r) : g[i] \in 1..n /\ g[i] \in at /\ r[i] = s[g[i]]
    /\ \A i, j \in 1..Len(r) : i < j => g[i] < g[j]
    /\ \A k \in 1..n : k \in at => \E i \in 1..Len(r) : g[i] = k

LEMMA PickOne ==
    ASSUME NEW T, NEW s \in Seq(T), NEW at, NEW n \in Nat, n + 1 \in 1..Len(s), n + 1 \in at,
           NEW r \in Seq(T), NEW g, Picked(g, r, s, at, n)
    PROVE  /\ Append(r, s[n + 1]) \in Seq(T)
           /\ Picked(Append(g, n + 1), Append(r, s[n + 1]), s, at, n + 1)
<1> DEFINE q == Append(r, s[n + 1])
           h == Append(g, n + 1)
<1>1. /\ Len(r) \in Nat /\ g \in Seq(Nat) /\ Len(g) = Len(r) /\ n + 1 \in Nat /\ s[n + 1] \in T
  BY ElementOfSeq DEF Picked
<1>2. /\ q \in Seq(T) /\ Len(q) = Len(r) + 1 /\ q[Len(r) + 1] = s[n + 1]
      /\ \A i \in 1..Len(r) : q[i] = r[i]
  BY <1>1
<1>3. /\ h \in Seq(Nat) /\ Len(h) = Len(r) + 1 /\ h[Len(r) + 1] = n + 1
      /\ \A i \in 1..Len(r) : h[i] = g[i]
  BY <1>1
<1>4. \A i : i \in 1..Len(q) <=> i \in 1..Len(r) \/ i = Len(r) + 1
  BY <1>1, <1>2
<1> HIDE DEF q, h
<1>5. ASSUME NEW i \in 1..Len(q)
      PROVE  h[i] \in 1..n+1 /\ h[i] \in at /\ q[i] = s[h[i]]
  <2>1. CASE i = Len(r) + 1
    BY <1>2, <1>3, <2>1
  <2>2. CASE i \in 1..Len(r)
    <3>1. g[i] \in 1..n /\ g[i] \in at /\ r[i] = s[g[i]]
      BY <2>2 DEF Picked
    <3>2. QED
      BY <1>2, <1>3, <2>2, <3>1
  <2>3. QED
    BY <1>4, <2>1, <2>2
<1>6. ASSUME NEW i \in 1..Len(q), NEW j \in 1..Len(q), i < j
      PROVE  h[i] < h[j]
  <2>1. i \in 1..Len(r)
    BY <1>1, <1>2, <1>6
  <2>2. h[i] = g[i] /\ g[i] \in 1..n
    BY <1>3, <2>1 DEF Picked
  <2>3. CASE j = Len(r) + 1
    BY <1>3, <2>2, <2>3
  <2>4. CASE j \in 1..Len(r)
    <3>1. g[i] < g[j]
      BY <1>6, <2>1, <2>4 DEF Picked
    <3>2. QED
      BY <1>3, <2>2, <2>4, <3>1
  <2>5. QED
    BY <1>4, <2>3, <2>4
<1>7. ASSUME NEW k \in 1..n+1, k \in at
      PROVE  \E i \in 1..Len(q) : h[i] = k
  <2>1. CASE k = n + 1
    <3>1. Len(r) + 1 \in 1..Len(q)
      BY <1>1, <1>2
    <3>2. QED
      BY <1>3, <2>1, <3>1
  <2>2. CASE k \in 1..n
    <3>1. PICK i \in 1..Len(r) : g[i] = k
      BY <1>7, <2>2 DEF Picked
    <3>2. i \in 1..Len(q) /\ h[i] = k
      BY <1>3, <1>4, <3>1
    <3>3. QED
      BY <3>2
  <2>3. k = n + 1 \/ k \in 1..n
    BY <1>7
  <2>4. QED
    BY <2>1, <2>2, <2>3
<1>8. Picked(h, q, s, at, n + 1)
  BY <1>2, <1>3, <1>5, <1>6, <1>7 DEF Picked
<1>9. QED
  BY <1>2, <1>8 DEF q, h

\* KeptAt keeps the lines at its numbers, all of them and in their order.
LEMMA KeptAtFacts ==
    ASSUME NEW T, NEW s \in Seq(T), NEW at
    PROVE  KeptAt(s, at) \in Seq(T) /\ \E g : Picked(g, KeptAt(s, at), s, at, Len(s))
<1>1. Len(s) \in Nat
  OBVIOUS
<1>2. PICK f : KeptUpTo(f, Len(s), s, at) /\ KeptAt(s, at) = f[Len(s)]
  BY <1>1, KeptIsFound
<1> DEFINE Grown(i) == IF i \in at THEN Append(f[i - 1], s[i]) ELSE f[i - 1]
<1>3. f[0] = <<>> /\ \A i \in 1..Len(s) : f[i] = Grown(i)
  <2> DEFINE Item(i) == IF i = 0 THEN <<>> ELSE Grown(i)
  <2>1. \A i \in 0..Len(s) : f[i] = Item(i)
    <3>1. f = [i \in 0..Len(s) |-> Item(i)]
      BY <1>2 DEF KeptUpTo
    <3> HIDE DEF Item
    <3>2. QED
      BY <3>1
  <2>2. 0 \in 0..Len(s) /\ \A i \in 1..Len(s) : i \in 0..Len(s) /\ i # 0
    BY <1>1
  <2> HIDE DEF Grown
  <2>3. f[0] = Item(0) /\ \A i \in 1..Len(s) : f[i] = Item(i) /\ i # 0
    BY <2>1, <2>2
  <2>4. QED
    BY <2>3
<1> DEFINE S == {n \in 0..Len(s) : f[n] \in Seq(T) /\ \E g : Picked(g, f[n], s, at, n)}
<1>4. 0 \in S
  <2>1. <<>> \in Seq(T) /\ <<>> \in Seq(Nat) /\ Len(<<>>) = 0 /\ 1..0 = {}
    OBVIOUS
  <2>2. Picked(<<>>, f[0], s, at, 0)
    BY <1>3, <2>1 DEF Picked
  <2>3. 0 \in 0..Len(s)
    BY <1>1
  <2>4. QED
    BY <1>3, <2>1, <2>2, <2>3
<1>5. ASSUME NEW n \in Nat, n < Len(s), n \in S
      PROVE  n + 1 \in S
  <2>1. n + 1 \in 1..Len(s) /\ n + 1 \in 0..Len(s) /\ n + 1 - 1 = n
    BY <1>1, <1>5
  <2>2. f[n + 1] = IF n + 1 \in at THEN Append(f[n], s[n + 1]) ELSE f[n]
    <3>1. f[n + 1] = Grown(n + 1)
      <4> HIDE DEF Grown
      <4>1. QED
        BY <1>3, <2>1
    <3>2. QED
      BY <2>1, <3>1
  <2>3. PICK g : Picked(g, f[n], s, at, n)
    BY <1>5
  <2>4. f[n] \in Seq(T)
    BY <1>5
  <2>5. CASE n + 1 \in at
    <3>1. /\ Append(f[n], s[n + 1]) \in Seq(T)
          /\ Picked(Append(g, n + 1), Append(f[n], s[n + 1]), s, at, n + 1)
      BY <2>1, <2>3, <2>4, <2>5, PickOne
    <3>2. QED
      BY <2>1, <2>2, <2>5, <3>1
  <2>6. CASE n + 1 \notin at
    <3>1. f[n + 1] = f[n]
      BY <2>2, <2>6
    <3>2. \A k \in 1..n+1 : k \in at => k \in 1..n
      BY <2>6
    <3>3. \A k \in 1..n : k \in 1..n+1
      OBVIOUS
    <3>4. Picked(g, f[n], s, at, n + 1)
      BY <2>3, <3>2, <3>3 DEF Picked
    <3>5. QED
      BY <2>1, <2>4, <3>1, <3>4
  <2>7. QED
    BY <2>5, <2>6
<1>6. Len(s) \in S
  <2> HIDE DEF S
  <2>1. \A n \in 0..Len(s) : n \in S
    BY <1>1, <1>4, <1>5, UpToBound
  <2>2. QED
    BY <1>1, <2>1
<1>7. QED
  BY <1>2, <1>6

\* What stays of a file: its lines that are kept, the last of them at its end.
LEMMA KeptFacts ==
    ASSUME NEW T, NEW s \in Seq(T), NEW keep
    PROVE  /\ Kept(s, keep) \in Seq(T)
           /\ ToSet(Kept(s, keep)) = ToSet(s) \intersect keep
           /\ (Len(s) # 0 /\ s[Len(s)] \in keep)
                => Len(Kept(s, keep)) # 0 /\ Kept(s, keep)[Len(Kept(s, keep))] = s[Len(s)]
<1> DEFINE at == {i \in DOMAIN s : s[i] \in keep}
           r == Kept(s, keep)
<1>1. Len(s) \in Nat /\ DOMAIN s = 1..Len(s)
  OBVIOUS
<1>2. r = KeptAt(s, at)
  BY DEF Kept
<1> HIDE DEF at, r
<1>3. r \in Seq(T) /\ \E g : Picked(g, r, s, at, Len(s))
  BY <1>2, KeptAtFacts
<1>4. PICK g : Picked(g, r, s, at, Len(s))
  BY <1>3
<1>5. Len(r) \in Nat /\ DOMAIN r = 1..Len(r)
  BY <1>3
<1>6. \A i \in 1..Len(r) : g[i] \in 1..Len(s) /\ g[i] \in at /\ r[i] = s[g[i]]
  BY <1>4 DEF Picked
<1>7. \A k \in 1..Len(s) : k \in at => \E i \in 1..Len(r) : g[i] = k
  BY <1>4 DEF Picked
<1>8. ToSet(r) = ToSet(s) \intersect keep
  <2>1. \A i \in 1..Len(r) : r[i] \in ToSet(s) /\ r[i] \in keep
    BY <1>1, <1>6 DEF at, ToSet
  <2>2. \A k \in 1..Len(s) : s[k] \in keep => \E i \in 1..Len(r) : r[i] = s[k]
    BY <1>1, <1>6, <1>7 DEF at
  <2>3. QED
    BY <1>1, <1>5, <2>1, <2>2 DEF ToSet
<1>9. ASSUME Len(s) # 0, s[Len(s)] \in keep
      PROVE  Len(r) # 0 /\ r[Len(r)] = s[Len(s)]
  <2>1. PICK i \in 1..Len(r) : g[i] = Len(s)
    <3>1. Len(s) \in 1..Len(s) /\ Len(s) \in at
      BY <1>1, <1>9 DEF at
    <3>2. QED
      BY <1>7, <3>1
  <2>2. Len(r) \in 1..Len(r) /\ g[Len(r)] \in 1..Len(s) /\ (i < Len(r) => g[i] < g[Len(r)])
    BY <1>4, <1>5, <1>6, <2>1 DEF Picked
  <2>3. ~ (i < Len(r))
    <3>1. SUFFICES ASSUME i < Len(r) PROVE FALSE
      OBVIOUS
    <3>2. Len(s) < g[Len(r)]
      BY <2>1, <2>2, <3>1
    <3>3. g[Len(r)] \in 1..Len(s)
      BY <2>2
    <3>4. QED
      BY <1>1, <3>2, <3>3
  <2>4. i = Len(r)
    <3>1. Len(r) \in Nat /\ i \in 1..Len(r)
      BY <1>5, <2>1
    <3>2. \A n \in Nat : \A j \in 1..n : ~ (j < n) => j = n
      OBVIOUS
    <3>3. QED
      BY <2>3, <3>1, <3>2
  <2>5. r[i] = s[Len(s)]
    BY <1>6, <2>1
  <2>6. QED
    BY <1>5, <2>1, <2>4, <2>5
<1>10. QED
  BY <1>3, <1>8, <1>9 DEF r

--------------------------------------------------------------------------------
\* known_hosts

Labels == {"new", "scanned", "append", "appended", "keygen", "rename", "check",
           "decide", "auth", "dial", "done"}
Ends == {"ok", "other", "error", "failed", "success", "unknown", "mismatch"}

KnownTypes ==
    /\ known \in Seq(KnownLines) \union {Missing}
    /\ hostKey \in [HostNames -> HostKeys]
    /\ kpc \in [Calls -> Labels]
    /\ kcall = [c \in Calls |-> kcall[c]]
    /\ snap \in [Calls -> Seq(KnownLines)]
    /\ found \in [Calls -> [status : Statuses, key : HostKeys \union {NoKey}]]
    /\ result \in [Calls -> Ends \union {"none"}]
    /\ rekeys \in 0..MaxRekeys /\ keygens \in 0..MaxKeygens
    /\ raced \in BOOLEAN /\ knownEnds \in BOOLEAN

\* What a call is about while it is under way.
CallKnown(c) ==
    /\ kpc[c] \in {"scanned", "append", "appended"} =>
          kcall[c].op = "add" /\ kcall[c].addr \in Addresses /\ kcall[c].key \in HostKeys
    /\ kpc[c] \in {"check", "decide", "auth", "dial"} =>
          kcall[c].op = "test" /\ kcall[c].addr \in Addresses /\ kcall[c].host \in HostNames
    /\ kpc[c] = "decide" => found[c].status \in {"verified", "unknown", "mismatch"}

AtKeygen(c) == kpc[c] \in {"keygen", "rename"}

\* keygens counts the calls that use ssh-keygen.
KeygensCounted ==
    /\ keygens = 0 => \A c \in Calls : ~AtKeygen(c)
    /\ keygens <= 1 => \A c, d \in Calls : AtKeygen(c) /\ AtKeygen(d) => c = d

\* The copy that ssh-keygen has read: the file, unless another call has changed
\* it since; lines of the file, if it is the only one and none has been spoiled.
CopiesFit ==
    \A c \in Calls : kpc[c] = "rename" =>
       /\ ~raced => snap[c] = known
       /\ (keygens <= 1 /\ Parses(known)) => \A a : KeysOf(snap[c], a) \subseteq KeysOf(known, a)

\* What the callback of a dial has read is still in the file.
CallbackFits ==
    (keygens = 0 /\ Parses(known)) =>
       \A c \in Calls : kpc[c] = "dial" => \A a : KeysOf(snap[c], a) \subseteq KeysOf(known, a)

\* Of a host that a test did not find in the file, the file and the copies of it
\* have what calls have added since.
Shown(a, k) == k \in KeysOf(known, a) \/ \E d \in Calls : kpc[d] = "rename" /\ k \in KeysOf(snap[d], a)

NoneBeside ==
    (~raced \/ keygens <= 1) =>
       \A c \in Calls :
          (kpc[c] = "decide" /\ found[c].status = "unknown" /\ found[c].key # NoKey) =>
             \A k : Shown(kcall[c].addr, k) => <<kcall[c].addr, k>> \in trusted

AddedAreThere == ~raced => \A t \in trusted : t[2] \in KeysOf(known, t[1])

\* Every call that writes ends the file with a newline.
EndsFit ==
    /\ Content(known) = <<>> => knownEnds
    /\ ~knownEnds => trusted = {}

KnownInv ==
    /\ KnownTypes /\ \A c \in Calls : CallKnown(c)
    /\ KeygensCounted /\ CopiesFit /\ CallbackFits /\ NoneBeside /\ AddedAreThere /\ EndsFit

LEMMA ContentIsText ==
    ASSUME NEW f \in Seq(KnownLines) \union {Missing}
    PROVE  Content(f) \in Seq(KnownLines) /\ (f \in Seq(KnownLines) => Content(f) = f)
  BY KnownHostsAssumption DEF Content

\* A file with a line at its end has the lines it had and that one.
LEMMA AppendedLines ==
    ASSUME NEW s \in Seq(KnownLines), NEW l \in KnownLines
    PROVE  Append(s, l) \in Seq(KnownLines) /\ ToSet(Append(s, l)) = ToSet(s) \union {l}
<1>1. /\ Len(s) \in Nat /\ DOMAIN s = 1..Len(s)
      /\ DOMAIN Append(s, l) = 1..Len(s) + 1
      /\ Append(s, l)[Len(s) + 1] = l
      /\ \A i \in 1..Len(s) : Append(s, l)[i] = s[i]
  OBVIOUS
<1>2. \A i : i \in 1..Len(s) + 1 <=> i \in 1..Len(s) \/ i = Len(s) + 1
  BY <1>1
<1>3. QED
  BY <1>1, <1>2, AppendProperties DEF ToSet

\* A last line with another behind it names no other key, and the file does not
\* parse unless it is as it was.
LEMMA GluedKeys ==
    ASSUME NEW f \in Seq(KnownLines), f # <<>>, NEW g \in GluedLines(Last(f)),
           NEW r, r = [f EXCEPT ![Len(f)] = g]
    PROVE  /\ r \in Seq(KnownLines)
           /\ \A a : KeysOf(r, a) \subseteq KeysOf(f, a)
           /\ Parses(r) => r = f
<1>1. PICK n \in Nat : n = Len(f) /\ DOMAIN f = 1..n /\ n \in DOMAIN f
  OBVIOUS
<1>2. f[n] \in KnownLines /\ Last(f) = f[n]
  BY <1>1, ElementOfSeq DEF Last
<1>3. g \in KnownLines /\ (g = f[n] \/ g.key = NoKey)
  <2>1. g = f[n] \/ g = [f[n] EXCEPT !.key = NoKey]
    BY <1>2 DEF GluedLines
  <2>2. \A x \in KnownLines : LET y == [x EXCEPT !.key = NoKey] IN y \in KnownLines /\ y.key = NoKey
    BY DEF KnownLines
  <2>3. QED
    BY <1>2, <2>1, <2>2
<1>4. r = [i \in 1..n |-> IF i = n THEN g ELSE f[i]]
  <2>1. f = [i \in 1..n |-> f[i]]
    BY <1>1
  <2>2. r = [f EXCEPT ![n] = g]
    BY <1>1
  <2>3. QED
    BY <1>1, <2>1, <2>2, Zenon
<1>5. r \in Seq(KnownLines)
  <2>1. r \in [1..n -> KnownLines]
    BY <1>1, <1>3, <1>4, ElementOfSeq
  <2>2. QED
    BY <1>1, <2>1, SeqDef
<1>6. Content(r) = r /\ Content(f) = f
  BY <1>5, ContentIsText
<1>7. DOMAIN r = 1..n /\ r[n] = g /\ \A i \in 1..n : r[i] = f[i] \/ r[i].key = NoKey
  BY <1>1, <1>3, <1>4
<1>8. \A a : KeysOf(r, a) \subseteq KeysOf(f, a)
  <2>1. \A x \in ToSet(r) : x \in ToSet(f) \/ x.key = NoKey
    BY <1>1, <1>7 DEF ToSet
  <2>2. QED
    BY <1>6, <2>1 DEF KeysOf
<1>9. Parses(r) => r = f
  <2>1. SUFFICES ASSUME Parses(r) PROVE r = f
    OBVIOUS
  <2>2. g \in ToSet(r)
    BY <1>1, <1>7 DEF ToSet
  <2>3. g = f[n]
    BY <1>3, <1>6, <2>1, <2>2 DEF Parses
  <2>4. f = [i \in 1..n |-> f[i]]
    BY <1>1
  <2>5. r = [i \in 1..n |-> f[i]]
    BY <1>4, <2>3
  <2>6. QED
    BY <2>4, <2>5
<1>10. QED
  BY <1>5, <1>8, <1>9

\* One appending write: what it leaves of the keys and of what was trusted.
LEMMA AppendsFacts ==
    ASSUME KnownTypes, EndsFit, NEW l \in KnownLines, l.key \in HostKeys, Appends(l)
    PROVE  /\ known' \in Seq(KnownLines) /\ knownEnds' = TRUE /\ raced' \in BOOLEAN
           /\ trusted' = IF knownEnds THEN trusted \union {<<l.addr, l.key>>} ELSE {}
           /\ trusted \subseteq trusted'
           /\ \A a : KeysOf(known', a) \subseteq
                        KeysOf(known, a) \union (IF knownEnds /\ l.addr = a THEN {l.key} ELSE {})
           /\ knownEnds => \A a : KeysOf(known, a) \union (IF l.addr = a THEN {l.key} ELSE {})
                                    \subseteq KeysOf(known', a)
           /\ Parses(known') => Parses(known) /\ \A a : KeysOf(known, a) \subseteq KeysOf(known', a)
           /\ ~raced' => ~raced /\ Rewriting = {}
<1>1. knownEnds' = TRUE /\ raced' \in BOOLEAN /\ (~raced' => ~raced /\ Rewriting = {})
  <2>1. knownEnds' = TRUE /\ raced' = (raced \/ Rewriting # {})
    BY DEF Appends
  <2>2. QED
    BY <2>1, Zenon DEF KnownTypes
<1>2. CASE knownEnds
  <2>1. known' = Append(Content(known), l) /\ trusted' = trusted \union {<<l.addr, l.key>>}
    BY <1>2 DEF Appends
  <2>2. known \in Seq(KnownLines) \union {Missing}
    BY DEF KnownTypes
  <2>3. /\ known' \in Seq(KnownLines)
        /\ \A a : KeysOf(known', a) = KeysOf(known, a) \union (IF l.addr = a THEN {l.key} ELSE {})
        /\ Parses(known') => Parses(known)
    <3>1. PICK f, r : f = known /\ r = known'
      OBVIOUS
    <3>2. Content(f) \in Seq(KnownLines) /\ r = Append(Content(f), l)
      BY <2>1, <2>2, <3>1, ContentIsText
    <3>3. r \in Seq(KnownLines) /\ ToSet(r) = ToSet(Content(f)) \union {l}
      BY <3>2, AppendedLines
    <3>4. Content(r) = r
      BY <3>3, ContentIsText
    <3>5. \A a : KeysOf(r, a) = KeysOf(f, a) \union (IF l.addr = a THEN {l.key} ELSE {})
      BY <3>3, <3>4, KnownHostsAssumption DEF KeysOf
    <3>6. Parses(r) => Parses(f)
      BY <3>3, <3>4 DEF Parses
    <3>7. QED
      BY <3>1, <3>3, <3>5, <3>6
  <2>4. QED
    BY <1>1, <1>2, <2>1, <2>3
<1>3. CASE ~knownEnds
  <2>1. PICK g \in GluedLines(Last(known)) : known' = [known EXCEPT ![Len(known)] = g]
    BY <1>3 DEF Appends
  <2>2. trusted' = {} /\ trusted = {}
    BY <1>3 DEF Appends, EndsFit
  <2>3. known \in Seq(KnownLines) /\ known # <<>>
    BY <1>3 DEF EndsFit, Content, KnownTypes
  <2>4. /\ known' \in Seq(KnownLines)
        /\ \A a : KeysOf(known', a) \subseteq KeysOf(known, a)
        /\ Parses(known') => known' = known
    BY <2>1, <2>3, GluedKeys
  <2>5. QED
    BY <1>1, <1>3, <2>2, <2>4
<1>4. QED
  BY <1>2, <1>3 DEF KnownTypes

\* What ssh-keygen leaves: all keys when it hashes, those of the other
\* addresses when it removes one.
LEMMA OutputKeys ==
    ASSUME NEW c \in Calls, snap[c] \in Seq(KnownLines)
    PROVE  /\ KeygenOutput(c) \in Seq(KnownLines)
           /\ \A a : KeysOf(KeygenOutput(c), a)
                      = IF kcall[c].op = "hash" \/ a # kcall[c].addr THEN KeysOf(snap[c], a) ELSE {}
<1> DEFINE s == snap[c]
<1>1. s \in Seq(KnownLines) /\ DOMAIN s = 1..Len(s) /\ Len(s) \in Nat
      /\ \A i \in DOMAIN s : s[i] \in KnownLines
  BY ElementOfSeq
<1>2. CASE kcall[c].op = "hash"
  <2> DEFINE h == [i \in DOMAIN s |-> [s[i] EXCEPT !.hashed = TRUE]]
  <2>1. KeygenOutput(c) = h
    BY <1>2 DEF KeygenOutput
  <2> HIDE DEF s
  <2>2. \A i \in DOMAIN s : h[i] \in KnownLines /\ h[i].addr = s[i].addr /\ h[i].key = s[i].key
    <3>1. ASSUME NEW x \in KnownLines
          PROVE  LET y == [x EXCEPT !.hashed = TRUE]
                 IN  y \in KnownLines /\ y.addr = x.addr /\ y.key = x.key
      BY DEF KnownLines
    <3>2. QED
      BY <1>1, <3>1
  <2>3. h \in Seq(KnownLines) /\ DOMAIN h = DOMAIN s
    BY <1>1, <2>2, SeqDef
  <2> HIDE DEF h
  <2>4. ASSUME NEW a
        PROVE  {l.key : l \in {x \in ToSet(h) : x.addr = a}} = {l.key : l \in {x \in ToSet(s) : x.addr = a}}
    <3>1. ToSet(h) = {h[i] : i \in DOMAIN s} /\ ToSet(s) = {s[i] : i \in DOMAIN s}
      BY <2>3 DEF ToSet
    <3>2. QED
      BY <2>2, <3>1
  <2>5. \A a : KeysOf(h, a) = KeysOf(s, a)
    <3>1. Content(h) = h /\ Content(s) = s
      BY <1>1, <2>3, ContentIsText
    <3>2. QED
      BY <2>4, <3>1 DEF KeysOf
  <2>6. QED
    BY <1>2, <2>1, <2>3, <2>5 DEF s
<1>3. CASE kcall[c].op # "hash"
  <2> DEFINE keep == {l \in ToSet(s) : l.addr # kcall[c].addr}
             r == Kept(s, keep)
  <2>1. KeygenOutput(c) = r
    BY <1>3 DEF KeygenOutput
  <2>2. r \in Seq(KnownLines) /\ ToSet(r) = keep
    <3>1. r \in Seq(KnownLines) /\ ToSet(r) = ToSet(s) \intersect keep
      <4> HIDE DEF s, keep
      <4>1. QED
        BY <1>1, KeptFacts
    <3>2. QED
      BY <3>1
  <2> HIDE DEF s, r
  <2>3. \A a : KeysOf(r, a) = IF a # kcall[c].addr THEN KeysOf(s, a) ELSE {}
    BY <1>1, <2>2, ContentIsText DEF KeysOf
  <2>4. QED
    BY <1>3, <2>1, <2>2, <2>3 DEF s
<1>4. QED
  BY <1>2, <1>3

LEMMA KnownInitInv == ASSUME KnownInit PROVE KnownInv
<1>1. known \in Seq(KnownLines) \union {Missing} /\ hostKey \in [HostNames -> HostKeys]
  BY KnownHostsAssumption DEF KnownInit
<1>2. kpc \in [Calls -> Labels] /\ keygens \in Nat /\ raced \in BOOLEAN /\ knownEnds \in BOOLEAN
  BY DEF KnownInit, Labels
<1>3. kcall = [c \in Calls |-> kcall[c]]
  BY DEF KnownInit
<1>4. snap \in [Calls -> Seq(KnownLines)]
  <2>1. <<>> \in Seq(KnownLines)
    OBVIOUS
  <2>2. QED
    BY <2>1 DEF KnownInit
<1>5. found \in [Calls -> [status : Statuses, key : HostKeys \union {NoKey}]]
  BY DEF KnownInit, Statuses
<1>6. KnownTypes
  <2>1. /\ result \in [Calls -> Ends \union {"none"}]
        /\ rekeys \in 0..MaxRekeys /\ keygens \in 0..MaxKeygens
    BY KnownHostsAssumption DEF KnownInit, Ends
  <2>2. QED
    BY <1>1, <1>2, <1>3, <1>4, <1>5, <2>1 DEF KnownTypes
<1>7. QED
  BY <1>6 DEF KnownInit, KnownInv, CallKnown, KeygensCounted, AtKeygen, CopiesFit, CallbackFits,
              NoneBeside, AddedAreThere, EndsFit

\* Every step keeps types, and what a call is about fits its place.
LEMMA KnownTypesStep ==
    ASSUME KnownTypes, \A c \in Calls : CallKnown(c), EndsFit, KnownNext
    PROVE  KnownTypes' /\ \A c \in Calls : CallKnown(c)'
<1> DEFINE Same(c) == \A d \in Calls \ {c} : kpc'[d] = kpc[d] /\ kcall'[d] = kcall[d] /\ found'[d] = found[d]
<1>1. ASSUME NEW c \in Calls, Same(c), CallKnown(c)'
      PROVE  \A d \in Calls : CallKnown(d)'
  <2>1. ASSUME NEW d \in Calls \ {c}
        PROVE  CallKnown(d)'
    <3>1. CallKnown(d) /\ kpc'[d] = kpc[d] /\ kcall'[d] = kcall[d] /\ found'[d] = found[d]
      BY <1>1
    <3>2. QED
      BY <3>1 DEF CallKnown
  <2>2. QED
    BY <1>1, <2>1
<1>2. ASSUME NEW h \in HostNames, Rekey(h)
      PROVE  KnownTypes' /\ \A c \in Calls : CallKnown(c)'
  BY <1>2, KnownHostsAssumption DEF Rekey, KnownTypes, CallKnown
<1>3. \A h \in HostNames, p \in Ports : Address(h, p) \in Addresses
  BY DEF Address, Addresses, Ports
<1>4. ASSUME NEW c \in Calls, NEW q, NEW to \in Labels, Begin1(c, q, to), keygens' \in 0..MaxKeygens,
             to = "scanned" => q.op = "add" /\ q.addr \in Addresses /\ q.key \in HostKeys,
             to = "check" => q.op = "test" /\ q.addr \in Addresses /\ q.host \in HostNames,
             to \in {"scanned", "check", "keygen"}
      PROVE  KnownTypes' /\ \A d \in Calls : CallKnown(d)'
  <2>1. KnownTypes'
    <3>1. UNCHANGED <<known, knownEnds, hostKey, snap, found, result, rekeys, raced>>
      BY <1>4 DEF Begin1
    <3>2. kpc' \in [Calls -> Labels]
      BY <1>4 DEF Begin1, Go, KnownTypes
    <3>3. kcall' = [d \in Calls |-> kcall'[d]]
      <4>1. kcall = [d \in Calls |-> kcall[d]] /\ kcall' = [kcall EXCEPT ![c] = q]
        BY <1>4 DEF Begin1, KnownTypes
      <4>2. DOMAIN kcall = Calls
        BY <4>1
      <4>3. kcall' = [d \in Calls |-> IF d = c THEN q ELSE kcall[d]]
        BY <4>1, <4>2
      <4>4. QED
        BY <4>3
    <3>4. QED
      BY <1>4, <3>1, <3>2, <3>3 DEF KnownTypes
  <2>2. Same(c) /\ kpc'[c] = to /\ kcall'[c] = q
    BY <1>4 DEF Begin1, Go, KnownTypes
  <2>3. CallKnown(c)'
    BY <1>4, <2>2 DEF CallKnown
  <2>4. QED
    BY <1>1, <2>1, <2>2, <2>3
<1>5. ASSUME NEW c \in Calls, NEW to \in Labels,
             kpc' = [kpc EXCEPT ![c] = to], result' \in [Calls -> Ends \union {"none"}],
             UNCHANGED <<hostKey, kcall, rekeys>>, keygens' = keygens, raced' \in BOOLEAN, knownEnds' \in BOOLEAN,
             known' \in Seq(KnownLines) \union {Missing}, snap' \in [Calls -> Seq(KnownLines)],
             found' \in [Calls -> [status : Statuses, key : HostKeys \union {NoKey}]],
             \A d \in Calls \ {c} : found'[d] = found[d],
             CallKnown(c)'
      PROVE  KnownTypes' /\ \A d \in Calls : CallKnown(d)'
  <2>1. KnownTypes'
    BY <1>5 DEF KnownTypes
  <2>2. Same(c)
    BY <1>5 DEF KnownTypes
  <2>3. QED
    BY <1>1, <1>5, <2>1, <2>2
<1>6. CASE \E h \in HostNames : Rekey(h)
  BY <1>2, <1>6
<1>7. ASSUME NEW c \in Calls,
             \/ ScanHostKeys(c) \/ TestConnection(c) \/ RemoveKnownHost(c) \/ HashKnownHosts(c)
      PROVE  KnownTypes' /\ \A d \in Calls : CallKnown(d)'
  <2>1. CASE ScanHostKeys(c)
    <3>1. PICK h \in HostNames, p \in Ports :
             /\ Begin1(c, [op |-> "add", addr |-> Address(h, p), key |-> hostKey[h]], "scanned")
             /\ keygens' = keygens
      BY <2>1 DEF ScanHostKeys, Scanned
    <3>2. hostKey[h] \in HostKeys /\ keygens' \in 0..MaxKeygens /\ "scanned" \in Labels
      BY <3>1 DEF KnownTypes, Labels
    <3>3. QED
      BY <1>3, <1>4, <3>1, <3>2
  <2>2. CASE TestConnection(c)
    <3>1. PICK h \in HostNames, p \in Ports, trust \in BOOLEAN :
             /\ Begin1(c, [op |-> "test", host |-> h, addr |-> Address(h, p), trust |-> trust], "check")
             /\ keygens' = keygens
      BY <2>2 DEF TestConnection
    <3>2. keygens' \in 0..MaxKeygens /\ "check" \in Labels
      BY <3>1 DEF KnownTypes, Labels
    <3>3. QED
      BY <1>3, <1>4, <3>1, <3>2
  <2>3. CASE RemoveKnownHost(c) \/ HashKnownHosts(c)
    <3>1. PICK q : Begin1(c, q, "keygen") /\ keygens' = keygens + 1 /\ keygens < MaxKeygens
      BY <2>3 DEF RemoveKnownHost, HashKnownHosts
    <3>2. keygens' \in 0..MaxKeygens /\ "keygen" \in Labels
      BY <3>1, KnownHostsAssumption DEF KnownTypes, Labels
    <3>3. QED
      BY <1>4, <3>1, <3>2
  <2>4. QED
    BY <1>7, <2>1, <2>2, <2>3
<1>8. ASSUME NEW c \in Calls,
             \/ AddKnownHost(c) \/ KnownAnswer(c) \/ KnownAppendFails(c) \/ CheckFails(c)
             \/ Refuse1(c) \/ AddHostKeyFails(c) \/ NothingToAdd(c) \/ NoAuth(c) \/ Dial(c)
      PROVE  KnownTypes' /\ \A d \in Calls : CallKnown(d)'
  <2>1. UNCHANGED <<known, knownEnds, hostKey, kcall, snap, found, rekeys, keygens, trusted, raced>>
    BY <1>8 DEF AddKnownHost, KnownAnswer, KnownAppendFails, CheckFails, Refuse1, AddHostKeyFails,
                NothingToAdd, NoAuth, Dial
  <2>2. \E to \in {"append", "auth", "done"} :
           /\ kpc' = [kpc EXCEPT ![c] = to]
           /\ \/ \E how \in Ends : result' = [result EXCEPT ![c] = how]
              \/ UNCHANGED result
           /\ to = "append" => kpc[c] = "scanned"
           /\ to = "auth" => kpc[c] = "decide"
    BY <1>8 DEF AddKnownHost, KnownAnswer, KnownAppendFails, CheckFails, Refuse1, AddHostKeyFails,
                NothingToAdd, NoAuth, Dial, Go, End1, TestRefused, Ends
  <2>3. PICK to \in {"append", "auth", "done"} :
           /\ kpc' = [kpc EXCEPT ![c] = to]
           /\ \/ \E how \in Ends : result' = [result EXCEPT ![c] = how]
              \/ UNCHANGED result
           /\ to = "append" => kpc[c] = "scanned"
           /\ to = "auth" => kpc[c] = "decide"
    BY <2>2
  <2>4. kpc'[c] = to /\ to \in Labels
    BY <2>3 DEF KnownTypes, Labels
  <2>5. CallKnown(c)'
    BY <2>1, <2>3, <2>4 DEF CallKnown
  <2>6. result' \in [Calls -> Ends \union {"none"}]
    BY <2>3 DEF KnownTypes
  <2>7. QED
    BY <1>5, <2>1, <2>3, <2>4, <2>5, <2>6 DEF KnownTypes
<1>9. ASSUME NEW c \in Calls, KnownAppend(c)
      PROVE  KnownTypes' /\ \A d \in Calls : CallKnown(d)'
  <2>1. PICK hashed \in BOOLEAN : Appends(Line(kcall[c].addr, kcall[c].key, hashed))
    BY <1>9 DEF KnownAppend
  <2>2. /\ Line(kcall[c].addr, kcall[c].key, hashed) \in KnownLines
        /\ Line(kcall[c].addr, kcall[c].key, hashed).key \in HostKeys
    BY <1>9 DEF KnownAppend, CallKnown, Line, KnownLines
  <2>3. known' \in Seq(KnownLines) /\ knownEnds' \in BOOLEAN /\ raced' \in BOOLEAN
    BY <2>1, <2>2, AppendsFacts
  <2>4. kpc'[c] = "appended" /\ "appended" \in Labels
    BY <1>9 DEF KnownAppend, Go, KnownTypes, Labels
  <2>5. CallKnown(c)'
    BY <1>9, <2>4 DEF KnownAppend, CallKnown
  <2>6. QED
    BY <1>5, <1>9, <2>3, <2>4, <2>5 DEF KnownAppend, Go, KnownTypes
<1>10. ASSUME NEW c \in Calls, KeygenRead(c)
       PROVE  KnownTypes' /\ \A d \in Calls : CallKnown(d)'
  <2>1. CASE known = Missing \/ ~Parses(known)
    <3>1. /\ kpc' = [kpc EXCEPT ![c] = "done"] /\ result' = [result EXCEPT ![c] = "error"]
          /\ UNCHANGED <<known, knownEnds, hostKey, kcall, snap, found, rekeys, keygens, raced>>
      BY <1>10, <2>1 DEF KeygenRead, Go, End1
    <3>2. kpc'[c] = "done" /\ "done" \in Labels
      BY <3>1 DEF KnownTypes, Labels
    <3>3. CallKnown(c)'
      BY <3>2 DEF CallKnown
    <3>4. result' \in [Calls -> Ends \union {"none"}]
      BY <3>1 DEF KnownTypes, Ends
    <3>5. raced' \in BOOLEAN /\ knownEnds' \in BOOLEAN /\ snap' \in [Calls -> Seq(KnownLines)] /\ known' \in Seq(KnownLines) \union {Missing}
      BY <3>1 DEF KnownTypes
    <3>6. found' \in [Calls -> [status : Statuses, key : HostKeys \union {NoKey}]]
      BY <3>1 DEF KnownTypes
    <3>7. QED
      BY <1>5, <3>1, <3>2, <3>3, <3>4, <3>5, <3>6
  <2>2. CASE known # Missing /\ Parses(known)
    <3>1. /\ kpc' = [kpc EXCEPT ![c] = "rename"] /\ snap' = [snap EXCEPT ![c] = known]
          /\ UNCHANGED <<known, knownEnds, hostKey, kcall, found, result, rekeys, keygens, raced>>
      BY <1>10, <2>2 DEF KeygenRead, Go
    <3>2. kpc'[c] = "rename" /\ "rename" \in Labels
      BY <3>1 DEF KnownTypes, Labels
    <3>3. CallKnown(c)'
      BY <3>2 DEF CallKnown
    <3>4. snap' \in [Calls -> Seq(KnownLines)]
      BY <2>2, <3>1 DEF KnownTypes
    <3>5. result' \in [Calls -> Ends \union {"none"}] /\ raced' \in BOOLEAN /\ knownEnds' \in BOOLEAN /\ known' \in Seq(KnownLines) \union {Missing}
      BY <3>1 DEF KnownTypes
    <3>6. found' \in [Calls -> [status : Statuses, key : HostKeys \union {NoKey}]]
      BY <3>1 DEF KnownTypes
    <3>7. QED
      BY <1>5, <3>1, <3>2, <3>3, <3>4, <3>5, <3>6
  <2>3. QED
    BY <2>1, <2>2
<1>11. ASSUME NEW c \in Calls, KeygenRename(c)
       PROVE  KnownTypes' /\ \A d \in Calls : CallKnown(d)'
  <2>1. known' \in Seq(KnownLines)
    BY <1>11, OutputKeys DEF KeygenRename, KnownTypes
  <2>2. kpc'[c] = "done" /\ "done" \in Labels /\ raced' \in BOOLEAN /\ knownEnds' \in BOOLEAN
    BY <1>11 DEF KeygenRename, End1, Go, KnownTypes, Labels
  <2>3. CallKnown(c)'
    BY <2>2 DEF CallKnown
  <2>4. QED
    BY <1>5, <1>11, <2>1, <2>2, <2>3 DEF KeygenRename, End1, Go, KnownTypes, Ends
<1>12. ASSUME NEW c \in Calls, CheckHostKey(c)
       PROVE  KnownTypes' /\ \A d \in Calls : CallKnown(d)'
  <2> DEFINE st == Status(known, kcall[c].addr, hostKey[kcall[c].host])
  <2>1. hostKey[kcall[c].host] \in HostKeys
    BY <1>12 DEF CheckHostKey, CallKnown, KnownTypes
  <2>2. /\ st \in [status : Statuses, key : HostKeys \union {NoKey}]
        /\ st.status \in {"verified", "unknown", "mismatch"}
    BY <2>1 DEF Status, Statuses
  <2> HIDE DEF st
  <2>3. found' = [found EXCEPT ![c] = st]
    BY <1>12 DEF CheckHostKey, st
  <2>4. kpc'[c] = "decide" /\ "decide" \in Labels /\ found'[c] = st
    BY <1>12, <2>3 DEF CheckHostKey, Go, KnownTypes, Labels
  <2>5. CallKnown(c)'
    BY <1>12, <2>2, <2>4 DEF CheckHostKey, CallKnown
  <2>6. /\ found' \in [Calls -> [status : Statuses, key : HostKeys \union {NoKey}]]
        /\ \A d \in Calls \ {c} : found'[d] = found[d]
    BY <2>2, <2>3 DEF KnownTypes
  <2>7. QED
    BY <1>5, <1>12, <2>4, <2>5, <2>6 DEF CheckHostKey, Go, KnownTypes
<1>13. ASSUME NEW c \in Calls, AddHostKey(c)
       PROVE  KnownTypes' /\ \A d \in Calls : CallKnown(d)'
  <2>1. /\ Line(kcall[c].addr, found[c].key, FALSE) \in KnownLines
        /\ Line(kcall[c].addr, found[c].key, FALSE).key \in HostKeys
    <3>1. found[c].key \in HostKeys
      BY <1>13 DEF AddHostKey, ToAdd, KnownTypes
    <3>2. QED
      BY <1>13, <3>1 DEF AddHostKey, ToAdd, CallKnown, Line, KnownLines
  <2>2. known' \in Seq(KnownLines) /\ knownEnds' \in BOOLEAN /\ raced' \in BOOLEAN
    BY <1>13, <2>1, AppendsFacts DEF AddHostKey
  <2>3. /\ found' \in [Calls -> [status : Statuses, key : HostKeys \union {NoKey}]]
        /\ \A d \in Calls \ {c} : found'[d] = found[d]
    BY <1>13 DEF AddHostKey, KnownTypes, Statuses
  <2>4. kpc'[c] = "auth" /\ "auth" \in Labels
    BY <1>13 DEF AddHostKey, Go, KnownTypes, Labels
  <2>5. CallKnown(c)'
    BY <1>13, <2>4 DEF AddHostKey, ToAdd, CallKnown
  <2>6. QED
    BY <1>5, <1>13, <2>2, <2>3, <2>4, <2>5 DEF AddHostKey, Go, KnownTypes
<1>14. ASSUME NEW c \in Calls, Callback(c)
       PROVE  KnownTypes' /\ \A d \in Calls : CallKnown(d)'
  <2>1. snap' \in [Calls -> Seq(KnownLines)]
    BY <1>14, ContentIsText DEF Callback, KnownTypes
  <2>2. kpc'[c] = "dial" /\ "dial" \in Labels
    BY <1>14 DEF Callback, Go, KnownTypes, Labels
  <2>3. CallKnown(c)'
    BY <1>14, <2>2 DEF Callback, CallKnown
  <2>4. QED
    BY <1>5, <1>14, <2>1, <2>2, <2>3 DEF Callback, Go, KnownTypes
<1>15. QED
  BY <1>6, <1>7, <1>8, <1>9, <1>10, <1>11, <1>12, <1>13, <1>14 DEF KnownNext

\* A step of one call on known_hosts that leaves the file alone and does not go
\* where a copy of it, or what it had, matters.
LEMMA QuietKnownStep ==
    ASSUME KnownInv, NEW c \in Calls, NEW to,
           UNCHANGED <<known, knownEnds, keygens, trusted, raced, snap, found>>,
           kpc' = [kpc EXCEPT ![c] = to], to \notin {"keygen", "rename", "dial", "decide"},
           \A d \in Calls \ {c} : kcall'[d] = kcall[d]
    PROVE  KeygensCounted' /\ CopiesFit' /\ CallbackFits' /\ NoneBeside' /\ AddedAreThere' /\ EndsFit'
<1>1. /\ kpc'[c] = to
      /\ \A d \in Calls \ {c} : kpc'[d] = kpc[d]
  BY DEF KnownInv, KnownTypes
<1>2. Parses(known)' = Parses(known) /\ \A a : KeysOf(known, a)' = KeysOf(known, a)
  BY DEF KeysOf, Parses, Content
<1>3. \A d \in Calls : \A a : KeysOf(snap[d], a)' = KeysOf(snap[d], a)
  BY DEF KeysOf, Content
<1>4. KeygensCounted'
  BY <1>1 DEF KnownInv, KeygensCounted, AtKeygen
<1>5. CopiesFit'
  BY <1>1, <1>2, <1>3 DEF KnownInv, CopiesFit
<1>6. CallbackFits'
  BY <1>1, <1>2, <1>3 DEF KnownInv, CallbackFits
<1>7. NoneBeside'
  <2>1. \A a, k : Shown(a, k)' => Shown(a, k)
    BY <1>1, <1>2, <1>3 DEF Shown
  <2>2. QED
    BY <1>1, <2>1 DEF KnownInv, NoneBeside
<1>8. AddedAreThere'
  BY <1>2 DEF KnownInv, AddedAreThere
<1>9. EndsFit'
  BY DEF KnownInv, EndsFit, Content
<1>10. QED
  BY <1>4, <1>5, <1>6, <1>7, <1>8, <1>9

\* A key is appended for a call that a test or the client makes.
LEMMA AppendKnownStep ==
    ASSUME KnownInv, NEW c \in Calls, NEW to, NEW k \in HostKeys, NEW hashed \in BOOLEAN,
           kcall[c].addr \in Addresses, Appends(Line(kcall[c].addr, k, hashed)),
           UNCHANGED <<keygens, snap, kcall>>,
           kpc' = [kpc EXCEPT ![c] = to], to \in {"appended", "auth"},
           \A d \in Calls \ {c} : found'[d] = found[d]
    PROVE  KeygensCounted' /\ CopiesFit' /\ CallbackFits' /\ NoneBeside' /\ AddedAreThere' /\ EndsFit'
<1> DEFINE new(a) == IF kcall[c].addr = a THEN {k} ELSE {}
<1>1. /\ kpc'[c] = to
      /\ \A d \in Calls \ {c} : kpc'[d] = kpc[d]
  BY DEF KnownInv, KnownTypes
<1>2. /\ known' \in Seq(KnownLines) /\ knownEnds' = TRUE
      /\ trusted' = IF knownEnds THEN trusted \union {<<kcall[c].addr, k>>} ELSE {}
      /\ trusted \subseteq trusted'
      /\ \A a : KeysOf(known', a) \subseteq KeysOf(known, a) \union (IF knownEnds THEN new(a) ELSE {})
      /\ knownEnds => \A a : KeysOf(known, a) \union new(a) \subseteq KeysOf(known', a)
      /\ Parses(known') => Parses(known) /\ \A a : KeysOf(known, a) \subseteq KeysOf(known', a)
      /\ ~raced' => ~raced /\ Rewriting = {}
  <2> DEFINE l == Line(kcall[c].addr, k, hashed)
  <2>1. l \in KnownLines /\ l.addr = kcall[c].addr /\ l.key = k
    BY DEF Line, KnownLines
  <2> HIDE DEF l
  <2>2. Appends(l)
    BY DEF l
  <2>3. /\ known' \in Seq(KnownLines) /\ knownEnds' = TRUE
        /\ trusted' = IF knownEnds THEN trusted \union {<<l.addr, l.key>>} ELSE {}
        /\ trusted \subseteq trusted'
        /\ \A a : KeysOf(known', a) \subseteq
                     KeysOf(known, a) \union (IF knownEnds /\ l.addr = a THEN {l.key} ELSE {})
        /\ knownEnds => \A a : KeysOf(known, a) \union (IF l.addr = a THEN {l.key} ELSE {})
                                 \subseteq KeysOf(known', a)
        /\ Parses(known') => Parses(known) /\ \A a : KeysOf(known, a) \subseteq KeysOf(known', a)
        /\ ~raced' => ~raced /\ Rewriting = {}
    BY <2>1, <2>2, AppendsFacts DEF KnownInv
  <2>4. QED
    BY <2>1, <2>3
<1>4. KeygensCounted'
  BY <1>1 DEF KnownInv, KeygensCounted, AtKeygen
<1>5. ~raced' => ~raced /\ \A d \in Calls : kpc[d] # "rename"
  BY <1>2 DEF Rewriting
<1>6. CopiesFit'
  BY <1>1, <1>2, <1>5 DEF KnownInv, CopiesFit
<1>7. CallbackFits'
  BY <1>1, <1>2 DEF KnownInv, CallbackFits
<1>8. NoneBeside'
  <2>1. SUFFICES ASSUME ~raced' \/ keygens' <= 1, NEW d \in Calls,
                        kpc'[d] = "decide", found'[d].status = "unknown", found'[d].key # NoKey,
                        NEW j, Shown(kcall[d].addr, j)'
                 PROVE  <<kcall[d].addr, j>> \in trusted'
    BY DEF NoneBeside
  <2>2. d # c /\ kpc[d] = "decide" /\ found'[d] = found[d] /\ (~raced \/ keygens <= 1)
    BY <1>1, <1>5, <2>1
  <2>3. CASE Shown(kcall[d].addr, j)
    <3>1. <<kcall[d].addr, j>> \in trusted
      BY <2>1, <2>2, <2>3 DEF KnownInv, NoneBeside
    <3>2. QED
      BY <1>2, <3>1
  <2>4. CASE knownEnds /\ j \in new(kcall[d].addr)
    BY <1>2, <2>4
  <2>5. Shown(kcall[d].addr, j) \/ (knownEnds /\ j \in new(kcall[d].addr))
    <3> HIDE DEF new
    <3>1. QED
      BY <1>1, <1>2, <2>1 DEF Shown
  <2>6. QED
    BY <2>3, <2>4, <2>5
<1>9. AddedAreThere'
  <2>1. SUFFICES ASSUME ~raced', NEW t \in trusted' PROVE t[2] \in KeysOf(known', t[1])
    BY DEF AddedAreThere
  <2>2. knownEnds /\ (t \in trusted \/ t = <<kcall[c].addr, k>>)
    BY <1>2, <2>1
  <2>3. CASE t \in trusted
    BY <1>2, <1>5, <2>1, <2>2, <2>3 DEF KnownInv, AddedAreThere
  <2>4. CASE t = <<kcall[c].addr, k>>
    BY <1>2, <2>2, <2>4
  <2>5. QED
    BY <2>2, <2>3, <2>4
<1>10. EndsFit'
  BY <1>2 DEF EndsFit
<1>11. QED
  BY <1>4, <1>6, <1>7, <1>8, <1>9, <1>10

LEMMA KnownStep == ASSUME KnownInv, [KnownNext]_kvars PROVE KnownInv'
<1> DEFINE Rest == KeygensCounted /\ CopiesFit /\ CallbackFits /\ NoneBeside /\ AddedAreThere /\ EndsFit
<1>1. ASSUME UNCHANGED <<known, knownEnds, kpc, kcall, snap, found, keygens, trusted, raced>>
      PROVE  Rest'
  <2>1. /\ Parses(known)' = Parses(known)
        /\ \A a : KeysOf(known, a)' = KeysOf(known, a)
        /\ \A d \in Calls : \A a : KeysOf(snap[d], a)' = KeysOf(snap[d], a)
    BY <1>1 DEF KeysOf, Parses, Content
  <2>2. KeygensCounted' /\ AddedAreThere' /\ EndsFit'
    BY <1>1, <2>1 DEF KnownInv, KeygensCounted, AtKeygen, AddedAreThere, EndsFit, Content
  <2>3. CopiesFit' /\ CallbackFits'
    BY <1>1, <2>1 DEF KnownInv, CopiesFit, CallbackFits
  <2>4. NoneBeside'
    <3>1. \A a, k : Shown(a, k)' => Shown(a, k)
      BY <1>1, <2>1 DEF Shown
    <3>2. QED
      BY <1>1, <3>1 DEF KnownInv, NoneBeside
  <2>5. QED
    BY <2>2, <2>3, <2>4
<1>2. ASSUME NEW h \in HostNames, Rekey(h)
      PROVE  Rest'
  BY <1>1, <1>2 DEF Rekey
<1>3. ASSUME NEW c \in Calls, ScanHostKeys(c) \/ TestConnection(c)
      PROVE  Rest'
  <2>1. \E q, to : to \in {"scanned", "check"} /\ Begin1(c, q, to) /\ UNCHANGED keygens
    <3>1. CASE ScanHostKeys(c)
      <4>1. \E q : Begin1(c, q, "scanned") /\ UNCHANGED keygens
        BY <3>1 DEF ScanHostKeys
      <4>2. QED
        BY <4>1
    <3>2. CASE TestConnection(c)
      <4>1. \E q : Begin1(c, q, "check") /\ UNCHANGED keygens
        BY <3>2 DEF TestConnection
      <4>2. QED
        BY <4>1
    <3>3. QED
      BY <1>3, <3>1, <3>2
  <2>2. PICK q, to : to \in {"scanned", "check"} /\ Begin1(c, q, to) /\ UNCHANGED keygens
    BY <2>1
  <2>3. \A d \in Calls \ {c} : kcall'[d] = kcall[d]
    BY <2>2 DEF Begin1, KnownInv, KnownTypes
  <2>4. QED
    BY <2>2, <2>3, QuietKnownStep DEF Begin1, Go
<1>4. ASSUME NEW c \in Calls,
             \/ AddKnownHost(c) \/ KnownAnswer(c) \/ KnownAppendFails(c) \/ CheckFails(c)
             \/ Refuse1(c) \/ AddHostKeyFails(c) \/ NothingToAdd(c) \/ NoAuth(c) \/ Dial(c)
      PROVE  Rest'
  <2>1. UNCHANGED <<known, knownEnds, kcall, snap, found, keygens, trusted, raced>>
    BY <1>4 DEF AddKnownHost, KnownAnswer, KnownAppendFails, CheckFails, Refuse1, AddHostKeyFails,
                NothingToAdd, NoAuth, Dial
  <2>2. \E to \in {"append", "auth", "done"} : kpc' = [kpc EXCEPT ![c] = to]
    BY <1>4 DEF AddKnownHost, KnownAnswer, KnownAppendFails, CheckFails, Refuse1, AddHostKeyFails,
                NothingToAdd, NoAuth, Dial, Go, End1
  <2>3. QED
    BY <2>1, <2>2, QuietKnownStep
<1>5. ASSUME NEW c \in Calls, RemoveKnownHost(c) \/ HashKnownHosts(c)
      PROVE  Rest'
  <2>1. PICK q : Begin1(c, q, "keygen") /\ keygens' = keygens + 1
    BY <1>5 DEF RemoveKnownHost, HashKnownHosts
  <2>2. UNCHANGED <<known, knownEnds, snap, found, trusted, raced>> /\ keygens \in Nat /\ keygens' # 0
    BY <2>1 DEF Begin1, KnownInv, KnownTypes
  <2>3. /\ kpc'[c] = "keygen"
        /\ \A d \in Calls \ {c} : kpc'[d] = kpc[d] /\ kcall'[d] = kcall[d]
    BY <2>1 DEF Begin1, Go, KnownInv, KnownTypes
  <2>4. keygens' <= 1 => keygens = 0 /\ keygens <= 1
    BY <2>1, <2>2
  <2>5. KeygensCounted'
    BY <2>2, <2>3, <2>4 DEF KnownInv, KeygensCounted, AtKeygen
  <2>6. /\ Parses(known)' = Parses(known)
        /\ \A a : KeysOf(known, a)' = KeysOf(known, a)
        /\ \A d \in Calls : \A a : KeysOf(snap[d], a)' = KeysOf(snap[d], a)
    BY <2>2 DEF KeysOf, Parses, Content
  <2>7. CopiesFit' /\ CallbackFits'
    BY <2>2, <2>3, <2>4, <2>6 DEF KnownInv, CopiesFit, CallbackFits
  <2>8. NoneBeside'
    <3>1. \A a, k : Shown(a, k)' => Shown(a, k)
      BY <2>2, <2>3, <2>6 DEF Shown
    <3>2. QED
      BY <2>2, <2>3, <2>4, <3>1 DEF KnownInv, NoneBeside
  <2>9. AddedAreThere' /\ EndsFit'
    BY <2>2, <2>6 DEF KnownInv, AddedAreThere, EndsFit, Content
  <2>10. QED
    BY <2>5, <2>7, <2>8, <2>9
<1>6. ASSUME NEW c \in Calls, KnownAppend(c)
      PROVE  Rest'
  <2>1. PICK hashed \in BOOLEAN : Appends(Line(kcall[c].addr, kcall[c].key, hashed))
    BY <1>6 DEF KnownAppend
  <2>2. kcall[c].addr \in Addresses /\ kcall[c].key \in HostKeys
    BY <1>6 DEF KnownAppend, KnownInv, CallKnown
  <2>3. /\ UNCHANGED <<keygens, snap, kcall, found>>
        /\ kpc' = [kpc EXCEPT ![c] = "appended"]
    BY <1>6 DEF KnownAppend, Go
  <2>4. QED
    BY <2>1, <2>2, <2>3, AppendKnownStep
<1>7. ASSUME NEW c \in Calls, AddHostKey(c)
      PROVE  Rest'
  <2>1. kcall[c].addr \in Addresses /\ found[c].key \in HostKeys
    BY <1>7 DEF AddHostKey, ToAdd, KnownInv, CallKnown, KnownTypes
  <2>2. \A d \in Calls \ {c} : found'[d] = found[d]
    BY <1>7 DEF AddHostKey, KnownInv, KnownTypes
  <2>3. /\ Appends(Line(kcall[c].addr, found[c].key, FALSE))
        /\ UNCHANGED <<keygens, snap, kcall>>
        /\ kpc' = [kpc EXCEPT ![c] = "auth"]
    BY <1>7 DEF AddHostKey, Go
  <2>4. QED
    BY <2>1, <2>2, <2>3, AppendKnownStep
<1>8. ASSUME NEW c \in Calls, KeygenRead(c)
      PROVE  Rest'
  <2>1. CASE known = Missing \/ ~Parses(known)
    <3>1. /\ kpc' = [kpc EXCEPT ![c] = "done"]
          /\ UNCHANGED <<known, knownEnds, keygens, trusted, raced, snap, found, kcall>>
      BY <1>8, <2>1 DEF KeygenRead, Go, End1
    <3>2. QED
      BY <3>1, QuietKnownStep
  <2>2. CASE known # Missing /\ Parses(known)
    <3>1. UNCHANGED <<known, knownEnds, keygens, trusted, raced, found, kcall>> /\ kpc[c] = "keygen"
      BY <1>8 DEF KeygenRead
    <3>2. /\ kpc'[c] = "rename" /\ snap'[c] = known
          /\ \A d \in Calls \ {c} : kpc'[d] = kpc[d] /\ snap'[d] = snap[d]
      BY <1>8, <2>2 DEF KeygenRead, Go, KnownInv, KnownTypes
    <3>3. KeygensCounted'
      BY <3>1, <3>2 DEF KnownInv, KeygensCounted, AtKeygen
    <3>4. CopiesFit' /\ CallbackFits'
      BY <3>1, <3>2 DEF KnownInv, CopiesFit, CallbackFits
    <3>5. NoneBeside'
      <4>1. \A a, k : Shown(a, k)' => Shown(a, k)
        BY <3>1, <3>2 DEF Shown
      <4>2. \A d \in Calls : kpc'[d] = "decide" => kpc[d] = "decide"
        BY <3>2
      <4>3. QED
        BY <3>1, <4>1, <4>2 DEF KnownInv, NoneBeside
    <3>6. AddedAreThere' /\ EndsFit'
      BY <3>1 DEF KnownInv, AddedAreThere, EndsFit, Content
    <3>7. QED
      BY <3>3, <3>4, <3>5, <3>6
  <2>3. QED
    BY <2>1, <2>2
<1>9. ASSUME NEW c \in Calls, KeygenRename(c)
      PROVE  Rest'
  <2>1. /\ kpc[c] = "rename" /\ known' = KeygenOutput(c)
        /\ raced' = (raced \/ Rewriting # {c})
        /\ UNCHANGED <<kcall, snap, found, keygens>>
    BY <1>9 DEF KeygenRename
  <2>2. /\ kpc'[c] = "done"
        /\ \A d \in Calls \ {c} : kpc'[d] = kpc[d]
    BY <1>9 DEF KeygenRename, End1, Go, KnownInv, KnownTypes
  <2>3. ~raced' => ~raced /\ snap[c] = known /\ \A d \in Calls \ {c} : kpc[d] # "rename"
    <3>1. ~raced' => ~raced /\ Rewriting = {c}
      BY <2>1 DEF KnownInv, KnownTypes
    <3>2. QED
      BY <2>1, <3>1 DEF Rewriting, KnownInv, CopiesFit
  <2>4. \A a : KeysOf(known', a)
               = IF kcall[c].op = "hash" \/ a # kcall[c].addr THEN KeysOf(snap[c], a) ELSE {}
    BY <2>1, OutputKeys DEF KnownInv, KnownTypes
  <2>5. keygens \in Nat /\ keygens # 0 /\ (keygens <= 1 => \A d \in Calls \ {c} : ~AtKeygen(d))
    BY <2>1 DEF KnownInv, KnownTypes, KeygensCounted, AtKeygen
  <2>6. KeygensCounted'
    BY <2>1, <2>2 DEF KnownInv, KeygensCounted, AtKeygen
  <2>7. CopiesFit'
    BY <2>1, <2>2, <2>3, <2>5 DEF CopiesFit, AtKeygen
  <2>8. CallbackFits'
    BY <2>1, <2>5 DEF CallbackFits
  <2>9. (~raced' \/ keygens' <= 1) =>
           (~raced \/ keygens <= 1) /\ \A d \in Calls : kpc'[d] # "rename"
    BY <2>1, <2>2, <2>3, <2>5 DEF AtKeygen
  <2>10. \A t \in trusted : kcall[c].op = "hash" \/ t[1] # kcall[c].addr => t \in trusted'
    BY <1>9 DEF KeygenRename
  <2>11. NoneBeside'
    <3>1. SUFFICES ASSUME ~raced' \/ keygens' <= 1, NEW d \in Calls,
                          kpc'[d] = "decide", found'[d].status = "unknown", found'[d].key # NoKey,
                          NEW j, Shown(kcall[d].addr, j)'
                   PROVE  <<kcall[d].addr, j>> \in trusted'
      BY <2>1 DEF NoneBeside
    <3>2. d # c /\ kpc[d] = "decide" /\ found'[d] = found[d]
      BY <2>1, <2>2, <3>1
    <3>3. j \in KeysOf(known', kcall[d].addr)
      <4>1. \A e \in Calls : kpc'[e] # "rename"
        BY <2>9, <3>1
      <4>2. \A a : Shown(a, j)' => j \in KeysOf(known', a)
        BY <4>1 DEF Shown
      <4>3. kcall' = kcall
        BY <2>1
      <4>4. QED
        BY <3>1, <4>2, <4>3
    <3>4. j \in KeysOf(snap[c], kcall[d].addr) /\ (kcall[c].op = "hash" \/ kcall[d].addr # kcall[c].addr)
      BY <2>4, <3>3
    <3>5. Shown(kcall[d].addr, j)
      BY <2>1, <3>4 DEF Shown
    <3>6. <<kcall[d].addr, j>> \in trusted
      BY <2>9, <3>1, <3>2, <3>5 DEF KnownInv, NoneBeside
    <3>7. QED
      BY <2>10, <3>4, <3>6
  <2>12. AddedAreThere'
    <3>1. SUFFICES ASSUME ~raced', NEW t \in trusted'
                   PROVE  t[2] \in KeysOf(known', t[1])
      BY DEF AddedAreThere
    <3>2. t \in trusted /\ (kcall[c].op = "hash" \/ t[1] # kcall[c].addr)
      BY <1>9, <3>1 DEF KeygenRename
    <3>3. t[2] \in KeysOf(snap[c], t[1])
      BY <2>3, <3>1, <3>2 DEF KnownInv, AddedAreThere
    <3>4. QED
      BY <2>4, <3>2, <3>3
  <2>13. EndsFit'
    BY <1>9 DEF KeygenRename, EndsFit
  <2>14. QED
    BY <2>6, <2>7, <2>8, <2>11, <2>12, <2>13
<1>10. ASSUME NEW c \in Calls, CheckHostKey(c)
       PROVE  Rest'
  <2> DEFINE st == Status(known, kcall[c].addr, hostKey[kcall[c].host])
  <2>1. UNCHANGED <<known, knownEnds, kcall, snap, keygens, trusted, raced>> /\ kpc[c] = "check" /\ Parses(known)
    BY <1>10 DEF CheckHostKey
  <2>2. /\ kpc'[c] = "decide" /\ found'[c] = st
        /\ \A d \in Calls \ {c} : kpc'[d] = kpc[d] /\ found'[d] = found[d]
    BY <1>10 DEF CheckHostKey, Go, KnownInv, KnownTypes
  <2>3. (st.status = "unknown" /\ st.key # NoKey) => KeysOf(known, kcall[c].addr) = {}
    BY DEF Status
  <2> HIDE DEF st
  <2>4. KeygensCounted' /\ AddedAreThere' /\ EndsFit'
    BY <2>1, <2>2 DEF KnownInv, KeygensCounted, AtKeygen, AddedAreThere, EndsFit, Content
  <2>5. CopiesFit' /\ CallbackFits'
    BY <2>1, <2>2 DEF KnownInv, CopiesFit, CallbackFits
  <2>6. NoneBeside'
    <3>1. \A a, k : Shown(a, k)' => Shown(a, k)
      BY <2>1, <2>2 DEF Shown
    <3>2. (~raced \/ keygens <= 1) => \A a, k : Shown(a, k) => k \in KeysOf(known, a)
      BY <2>1 DEF Shown, KnownInv, CopiesFit
    <3>3. QED
      BY <2>1, <2>2, <2>3, <3>1, <3>2 DEF KnownInv, NoneBeside
  <2>7. QED
    BY <2>4, <2>5, <2>6
<1>11. ASSUME NEW c \in Calls, Callback(c)
       PROVE  Rest'
  <2>1. UNCHANGED <<known, knownEnds, kcall, found, keygens, trusted, raced>> /\ kpc[c] = "auth"
    BY <1>11 DEF Callback
  <2>2. /\ kpc'[c] = "dial" /\ snap'[c] = Content(known)
        /\ \A d \in Calls \ {c} : kpc'[d] = kpc[d] /\ snap'[d] = snap[d]
    BY <1>11 DEF Callback, Go, KnownInv, KnownTypes
  <2>3. \A a : KeysOf(Content(known), a) = KeysOf(known, a)
    <3>1. Content(Content(known)) = Content(known)
      BY ContentIsText DEF KnownInv, KnownTypes
    <3>2. QED
      BY <3>1 DEF KeysOf
  <2>4. KeygensCounted' /\ AddedAreThere' /\ EndsFit'
    BY <2>1, <2>2 DEF KnownInv, KeygensCounted, AtKeygen, AddedAreThere, EndsFit, Content
  <2>5. CopiesFit' /\ CallbackFits'
    BY <2>1, <2>2, <2>3 DEF KnownInv, CopiesFit, CallbackFits
  <2>6. NoneBeside'
    <3>1. \A a, k : Shown(a, k)' => Shown(a, k)
      BY <2>1, <2>2 DEF Shown
    <3>2. QED
      BY <2>1, <2>2, <3>1 DEF KnownInv, NoneBeside
  <2>7. QED
    BY <2>4, <2>5, <2>6
<1>12. CASE KnownNext
  <2>1. KnownTypes' /\ \A c \in Calls : CallKnown(c)'
    BY <1>12, KnownTypesStep DEF KnownInv
  <2>2. Rest'
    BY <1>2, <1>3, <1>4, <1>5, <1>6, <1>7, <1>8, <1>9, <1>10, <1>11, <1>12 DEF KnownNext
  <2>3. QED
    BY <2>1, <2>2 DEF KnownInv
<1>13. CASE UNCHANGED kvars
  <2>1. KnownTypes' /\ \A c \in Calls : CallKnown(c)'
    BY <1>13 DEF kvars, KnownInv, KnownTypes, CallKnown
  <2>2. Rest'
    BY <1>1, <1>13 DEF kvars
  <2>3. QED
    BY <2>1, <2>2 DEF KnownInv
<1>14. QED
  BY <1>12, <1>13

\* Only a dial succeeds, with a key that the callback had from the file.
LEMMA SuccessStep ==
    ASSUME KnownInv, [KnownNext]_kvars, NEW c \in Calls,
           result[c] # result'[c], result'[c] = "success", keygens = 0, Parses(known)
    PROVE  hostKey[kcall[c].host] \in KeysOf(known, kcall[c].addr)
<1> DEFINE Other(d) == \E how : how # "success" /\ result' = [result EXCEPT ![d] = how]
<1>1. \A d \in Calls : ~Other(d)
  <2>1. ASSUME NEW d \in Calls, NEW how, how # "success", result' = [result EXCEPT ![d] = how]
        PROVE  FALSE
    <3>1. result'[c] = IF c = d THEN how ELSE result[c]
      BY <2>1 DEF KnownInv, KnownTypes
    <3>2. QED
      BY <2>1, <3>1
  <2>2. QED
    BY <2>1
<1>2. result' # result
  OBVIOUS
<1>3. \A d \in Calls : /\ ~KnownAnswer(d) /\ ~KnownAppendFails(d) /\ ~KeygenRead(d) /\ ~KeygenRename(d)
                       /\ ~CheckFails(d) /\ ~AddHostKeyFails(d) /\ ~NoAuth(d)
  BY <1>1, <1>2 DEF KnownAnswer, KnownAppendFails, KeygenRead, KeygenRename, CheckFails,
                    AddHostKeyFails, NoAuth, End1
<1>4. \A d \in Calls : ~Refuse1(d)
  BY <1>1 DEF Refuse1, TestRefused, End1
<1>5. \A d \in Calls : /\ ~ScanHostKeys(d) /\ ~TestConnection(d) /\ ~RemoveKnownHost(d)
                       /\ ~HashKnownHosts(d)
  BY <1>2 DEF ScanHostKeys, TestConnection, RemoveKnownHost, HashKnownHosts, Begin1
<1>6. \A d \in Calls : /\ ~AddKnownHost(d) /\ ~KnownAppend(d) /\ ~CheckHostKey(d) /\ ~AddHostKey(d)
                       /\ ~NothingToAdd(d) /\ ~Callback(d)
  BY <1>2 DEF AddKnownHost, KnownAppend, CheckHostKey, AddHostKey, NothingToAdd, Callback
<1>7. \A h \in HostNames : ~Rekey(h)
  BY <1>2 DEF Rekey
<1>8. PICK d \in Calls : Dial(d)
  <2>1. KnownNext
    BY <1>2 DEF kvars
  <2>2. QED
    BY <2>1, <1>3, <1>4, <1>5, <1>6, <1>7 DEF KnownNext
<1>9. d = c
  <2>1. \E how : result' = [result EXCEPT ![d] = how]
    BY <1>8 DEF Dial, End1
  <2>2. QED
    BY <2>1 DEF KnownInv, KnownTypes
<1>10. kpc[c] = "dial" /\ hostKey[kcall[c].host] \in KeysOf(snap[c], kcall[c].addr)
  <2>1. ~End1(c, "failed")
    BY <1>1 DEF End1
  <2>2. QED
    BY <1>8, <1>9, <2>1 DEF Dial
<1>11. QED
  BY <1>10 DEF KnownInv, CallbackFits

\* Only AddHostKey takes a test from its decision on with a changed file.
LEMMA RekeyStep ==
    ASSUME KnownInv, [KnownNext]_kvars, NEW c \in Calls,
           kpc[c] = "decide", kpc'[c] = "auth", known' # known, ~raced \/ keygens <= 1
    PROVE  KeysOf(known, kcall[c].addr) \subseteq {t[2] : t \in trusted}
<1>1. ASSUME NEW d \in Calls, NEW to, kpc' = [kpc EXCEPT ![d] = to]
      PROVE  d = c
  BY <1>1 DEF KnownInv, KnownTypes
<1>2. \A h \in HostNames : ~Rekey(h)
  BY DEF Rekey
<1>3. \A d \in Calls : /\ ~ScanHostKeys(d) /\ ~TestConnection(d) /\ ~RemoveKnownHost(d)
                       /\ ~HashKnownHosts(d)
  BY DEF ScanHostKeys, TestConnection, RemoveKnownHost, HashKnownHosts, Begin1
<1>4. \A d \in Calls : /\ ~AddKnownHost(d) /\ ~KnownAnswer(d) /\ ~KnownAppendFails(d) /\ ~KeygenRead(d)
                       /\ ~CheckHostKey(d) /\ ~CheckFails(d) /\ ~Refuse1(d) /\ ~AddHostKeyFails(d)
                       /\ ~NothingToAdd(d)
                       /\ ~Callback(d) /\ ~NoAuth(d) /\ ~Dial(d)
  BY DEF AddKnownHost, KnownAnswer, KnownAppendFails, KeygenRead, CheckHostKey, CheckFails, Refuse1,
         AddHostKeyFails, NothingToAdd, Callback, NoAuth, Dial
<1>5. \A d \in Calls : ~KnownAppend(d) /\ ~KeygenRename(d)
  BY <1>1 DEF KnownAppend, KeygenRename, Go, End1
<1>6. PICK d \in Calls : AddHostKey(d)
  <2>1. KnownNext
    BY DEF kvars
  <2>2. QED
    BY <2>1, <1>2, <1>3, <1>4, <1>5 DEF KnownNext
<1>7. d = c
  BY <1>1, <1>6 DEF AddHostKey, Go
<1>8. found[c].status = "unknown" /\ found[c].key # NoKey
  BY <1>6, <1>7 DEF AddHostKey, ToAdd, TestRefused, KnownInv, CallKnown
<1>9. \A k \in KeysOf(known, kcall[c].addr) : <<kcall[c].addr, k>> \in trusted
  BY <1>8 DEF KnownInv, NoneBeside, Shown
<1>10. \A k : <<kcall[c].addr, k>>[2] = k
  OBVIOUS
<1>11. QED
  BY <1>9, <1>10

\* A new key in the file comes from the call that took the step, and its request
\* says so.
LEMMA ConsentStep ==
    ASSUME KnownInv, [KnownNext]_kvars, ~raced', NEW a \in Addresses,
           NEW k \in KeysOf(known', a) \ KeysOf(known, a)
    PROVE  \E c \in Calls : kpc'[c] # kpc[c] /\ Consents(c, a, k)
<1>1. known' # known
  OBVIOUS
<1>2. /\ \A h \in HostNames : ~Rekey(h)
      /\ \A d \in Calls : /\ ~ScanHostKeys(d) /\ ~TestConnection(d) /\ ~RemoveKnownHost(d)
                          /\ ~HashKnownHosts(d)
  BY <1>1 DEF Rekey, ScanHostKeys, TestConnection, RemoveKnownHost, HashKnownHosts, Begin1
<1>3. \A d \in Calls : /\ ~AddKnownHost(d) /\ ~KnownAnswer(d) /\ ~KnownAppendFails(d) /\ ~KeygenRead(d)
                       /\ ~CheckHostKey(d) /\ ~CheckFails(d) /\ ~Refuse1(d) /\ ~AddHostKeyFails(d)
                       /\ ~NothingToAdd(d) /\ ~Callback(d) /\ ~NoAuth(d) /\ ~Dial(d)
  BY <1>1 DEF AddKnownHost, KnownAnswer, KnownAppendFails, KeygenRead, CheckHostKey, CheckFails, Refuse1,
         AddHostKeyFails, NothingToAdd, Callback, NoAuth, Dial
<1>4. PICK c \in Calls : KnownAppend(c) \/ AddHostKey(c) \/ KeygenRename(c)
  <2>1. KnownNext
    BY <1>1 DEF kvars
  <2>2. QED
    BY <2>1, <1>2, <1>3 DEF KnownNext
<1>5. ASSUME NEW j \in HostKeys, NEW hashed \in BOOLEAN, kcall[c].addr \in Addresses,
             Appends(Line(kcall[c].addr, j, hashed))
      PROVE  a = kcall[c].addr /\ k = j
  <2> DEFINE l == Line(kcall[c].addr, j, hashed)
  <2>1. l \in KnownLines /\ l.addr = kcall[c].addr /\ l.key = j
    BY <1>5 DEF Line, KnownLines
  <2> HIDE DEF l
  <2>2. Appends(l)
    BY <1>5 DEF l
  <2>3. k \in KeysOf(known, a) \union (IF knownEnds /\ l.addr = a THEN {l.key} ELSE {})
    BY <2>1, <2>2, AppendsFacts DEF KnownInv
  <2>4. QED
    BY <2>1, <2>3
<1>6. CASE KnownAppend(c)
  <2>1. PICK hashed \in BOOLEAN : Appends(Line(kcall[c].addr, kcall[c].key, hashed))
    BY <1>6 DEF KnownAppend
  <2>2. kcall[c].op = "add" /\ kcall[c].addr \in Addresses /\ kcall[c].key \in HostKeys
    BY <1>6 DEF KnownAppend, KnownInv, CallKnown
  <2>3. a = kcall[c].addr /\ k = kcall[c].key
    BY <1>5, <2>1, <2>2
  <2>4. kpc[c] = "append" /\ kpc'[c] = "appended"
    BY <1>6 DEF KnownAppend, Go, KnownInv, KnownTypes
  <2>5. QED
    BY <2>2, <2>3, <2>4 DEF Consents
<1>7. CASE AddHostKey(c)
  <2>1. kpc[c] = "decide" /\ kpc'[c] = "auth"
    BY <1>7 DEF AddHostKey, ToAdd, Go, KnownInv, KnownTypes
  <2>2. kcall[c].op = "test" /\ kcall[c].addr \in Addresses /\ found[c].key \in HostKeys
    BY <1>7, <2>1 DEF AddHostKey, ToAdd, KnownInv, CallKnown, KnownTypes
  <2>3. kcall[c].trust
    BY <1>7, <2>1 DEF AddHostKey, ToAdd, TestRefused, KnownInv, CallKnown
  <2>4. a = kcall[c].addr
    BY <1>5, <1>7, <2>2 DEF AddHostKey
  <2>5. QED
    BY <2>1, <2>2, <2>3, <2>4 DEF Consents
<1>8. CASE KeygenRename(c)
  <2>1. known' = KeygenOutput(c) /\ raced' = (raced \/ Rewriting # {c}) /\ kpc[c] = "rename"
    BY <1>8 DEF KeygenRename
  <2>2. ~raced
    BY <2>1 DEF KnownInv, KnownTypes
  <2>3. snap[c] = known
    BY <2>1, <2>2 DEF KnownInv, CopiesFit
  <2>4. KeysOf(known', a) \subseteq KeysOf(known, a)
    <3>1. KeysOf(KeygenOutput(c), a) \subseteq KeysOf(snap[c], a)
      BY OutputKeys DEF KnownInv, KnownTypes
    <3>2. QED
      BY <2>1, <2>3, <3>1
  <2>5. QED
    BY <2>4
<1>9. QED
  BY <1>4, <1>6, <1>7, <1>8

LEMMA KnownInvariant == Spec => []KnownInv
<1>1. Init => KnownInv
  BY KnownInitInv DEF Init
<1>2. KnownInv /\ [Next]_dirVars => KnownInv'
  <2>1. [Next]_dirVars => [KnownNext]_kvars
    BY DEF Next, dirVars, kvars
  <2>2. QED
    BY <2>1, KnownStep
<1>3. QED
  BY <1>1, <1>2, PTL DEF Spec

\* A test of a connection succeeds only with a key that the file has for the
\* host, puts none there unless its request trusts what it scans, and none beside
\* another key of the host, for any number of calls and whatever the hosts present
\* (TestConnection, CheckHostKey, AddHostKey).
THEOREM OnlyTrustedHosts == Spec => HostKeysTrusted
<1>1. KnownInv /\ [Next]_dirVars =>
         [\A c \in Calls :
             (result[c] # result'[c] /\ result'[c] = "success" /\ keygens = 0 /\ Parses(known))
                => hostKey[kcall[c].host] \in KeysOf(known, kcall[c].addr)]_kvars
  <2>1. [Next]_dirVars => [KnownNext]_kvars
    BY DEF Next, dirVars, kvars
  <2>2. QED
    BY <2>1, SuccessStep
<1>2. KnownInv /\ [Next]_dirVars =>
         [\A c \in Calls :
             (/\ kpc[c] = "decide" /\ kpc'[c] = "auth" /\ known' # known
              /\ ~raced \/ keygens <= 1)
                => KeysOf(known, kcall[c].addr) \subseteq {t[2] : t \in trusted}]_kvars
  <2>1. [Next]_dirVars => [KnownNext]_kvars
    BY DEF Next, dirVars, kvars
  <2>2. QED
    BY <2>1, RekeyStep
<1>3. KnownInv /\ [Next]_dirVars =>
         [\A a \in Addresses : \A k \in KeysOf(known', a) \ KeysOf(known, a) :
             raced' \/ \E c \in Calls : kpc'[c] # kpc[c] /\ Consents(c, a, k)]_kvars
  <2>1. [Next]_dirVars => [KnownNext]_kvars
    BY DEF Next, dirVars, kvars
  <2>2. QED
    BY <2>1, ConsentStep
<1>4. QED
  BY <1>1, <1>2, <1>3, KnownInvariant, PTL
     DEF Spec, HostKeysTrusted, SuccessIsKnown, OnlyConsented, NoSilentRekey

\* A key that AddKnownHost or TestConnection has added behind the last line stays
\* in known_hosts and in its listing until its host is removed, unless ssh-keygen
\* ran while another call changed the file.
THEOREM AddedKeysStay == Spec => []KnownSafe
<1>1. KnownInv => AddedStays
  <2>1. SUFFICES ASSUME KnownInv, ~raced, NEW t \in trusted
                 PROVE  /\ t[2] \in KeysOf(known, t[1])
                        /\ \E h \in ToSet(ListKnownHosts) :
                              h.publicKey = t[2] /\ (h.isHashed \/ h.hostnames = t[1])
    BY DEF AddedStays
  <2> DEFINE s == Content(known)
  <2>2. t[2] \in KeysOf(known, t[1])
    BY <2>1 DEF KnownInv, AddedAreThere
  <2>3. PICK i \in DOMAIN s : s[i].addr = t[1] /\ s[i].key = t[2]
    BY <2>2 DEF KeysOf, ToSet
  <2> HIDE DEF s
  <2>4. DOMAIN ListKnown(known) = DOMAIN s /\ DOMAIN ListKnownHosts = DOMAIN s
    BY DEF ListKnown, ListKnownHosts, s
  <2>5. ListKnown(known)[i] =
           [id |-> i, name |-> IF s[i].hashed THEN <<"[hashed]">> ELSE s[i].addr, key |-> s[i].key,
            hashed |-> s[i].hashed]
    <3>1. s = known
      BY <2>3 DEF s, Content
    <3>2. QED
      BY <2>3, <3>1 DEF ListKnown, s
  <2>6. ListKnownHosts[i] = ToProtoKnownHost(ListKnown(known)[i])
    <3>1. i \in DOMAIN ListKnown(known)
      BY <2>3, <2>4
    <3>2. ListKnownHosts = [j \in DOMAIN ListKnown(known) |-> ToProtoKnownHost(ListKnown(known)[j])]
      BY DEF ListKnownHosts
    <3>3. QED
      BY <3>1, <3>2, Zenon
  <2>7. /\ ListKnownHosts[i].publicKey = s[i].key
        /\ ListKnownHosts[i].isHashed = s[i].hashed
        /\ ListKnownHosts[i].hostnames = IF s[i].hashed THEN <<"[hashed]">> ELSE s[i].addr
    BY <2>5, <2>6 DEF ToProtoKnownHost
  <2>8. ListKnownHosts[i] \in ToSet(ListKnownHosts)
    BY <2>3, <2>4 DEF ToSet
  <2>9. ListKnownHosts[i].isHashed \/ ListKnownHosts[i].hostnames = t[1]
    <3>1. CASE s[i].hashed
      BY <2>7, <3>1, Zenon
    <3>2. CASE ~s[i].hashed
      BY <2>3, <2>7, <3>2
    <3>3. QED
      BY <3>1, <3>2
  <2>10. QED
    BY <2>2, <2>3, <2>7, <2>8, <2>9
<1>2. KnownInv => KnownTypeOK
  BY DEF KnownInv, KnownTypes, KnownTypeOK, Labels, Ends
<1>3. KnownInv => KnownSafe
  BY <1>1, <1>2 DEF KnownSafe
<1>4. QED
  BY <1>3, KnownInvariant, PTL

--------------------------------------------------------------------------------
\* authorized_keys

\* A text of lines that authorized_keys may have.
IsText(s) == \E T : s \in Seq(T) /\ \A l \in T : IsLine(l)

\* The entries that Kept leaves of a list, one by one.
LEMMA AppendSet ==
    ASSUME NEW T, NEW s \in Seq(T), NEW l
    PROVE  ToSet(Append(s, l)) = ToSet(s) \union {l}
<1>1. /\ Len(s) \in Nat /\ DOMAIN s = 1..Len(s)
      /\ DOMAIN Append(s, l) = 1..Len(s) + 1
      /\ Append(s, l)[Len(s) + 1] = l
      /\ \A i \in 1..Len(s) : Append(s, l)[i] = s[i]
  OBVIOUS
<1>2. \A i : i \in 1..Len(s) + 1 <=> i \in 1..Len(s) \/ i = Len(s) + 1
  BY <1>1
<1>3. QED
  BY <1>1, <1>2 DEF ToSet

LEMMA LineKinds ==
    ASSUME NEW l, IsLine(l)
    PROVE  /\ l.k \in {"key", "note", "garbled"}
           /\ l # Note => l.k \in {"key", "garbled"} /\ l.opt \in OptionForms
           /\ l.k = "key" => l = KeyLine(l.key, l.opt) /\ l.opt \in OptionForms
  BY DEF IsLine, Note, Garbled, KeyLine

LEMMA TextLines ==
    ASSUME NEW s, IsText(s)
    PROVE  /\ Len(s) \in Nat /\ DOMAIN s = 1..Len(s)
           /\ \A i \in DOMAIN s : IsLine(s[i])
           /\ \A l \in ToSet(s) : IsLine(l)
<1>1. PICK T : s \in Seq(T) /\ \A l \in T : IsLine(l)
  BY DEF IsText
<1>2. \A i \in DOMAIN s : s[i] \in T
  BY <1>1, ElementOfSeq
<1>3. QED
  BY <1>1, <1>2 DEF ToSet

\* A text from a function on 1..n.
LEMMA TextOf ==
    ASSUME NEW n \in Nat, NEW s, s = [i \in 1..n |-> s[i]], \A i \in 1..n : IsLine(s[i])
    PROVE  IsText(s) /\ Len(s) = n
<1> DEFINE T == {s[i] : i \in 1..n}
<1>1. s \in [1..n -> T]
  OBVIOUS
<1>2. s \in Seq(T)
  BY <1>1, SeqDef
<1>3. \A l \in T : IsLine(l)
  OBVIOUS
<1>4. Len(s) = n
  BY <1>1, <1>2, LenProperties
<1>5. QED
  BY <1>2, <1>3, <1>4 DEF IsText

LEMMA EmptyText == IsText(<<>>) /\ Admitted(<<>>) = {}
<1>1. <<>> \in Seq({}) /\ ToSet(<<>>) = {}
  BY DEF ToSet
<1>2. QED
  BY <1>1 DEF IsText, Admitted

\* What the file admits after Add has appended a key.
LEMMA AppendedText ==
    ASSUME NEW s, IsText(s), NEW k, NEW o \in OptionForms
    PROVE  LET r == Append(s, KeyLine(k, o))
           IN  /\ IsText(r) /\ Len(r) # 0 /\ r[Len(r)] = KeyLine(k, o)
               /\ Admitted(r) = Admitted(s) \union {<<k, o>>}
<1> DEFINE l == KeyLine(k, o)
           r == Append(s, l)
<1>1. PICK T : s \in Seq(T) /\ \A x \in T : IsLine(x)
  BY DEF IsText
<1>2. IsLine(l) /\ l.k = "key" /\ l.key = k /\ l.opt = o
  BY DEF IsLine, KeyLine
<1> HIDE DEF l
<1>3. r \in Seq(T \union {l}) /\ \A x \in T \union {l} : IsLine(x)
  <2>1. s \in Seq(T \union {l}) /\ l \in T \union {l}
    BY <1>1
  <2>2. QED
    BY <1>1, <1>2, <2>1, AppendProperties
<1>4. IsText(r)
  BY <1>3 DEF IsText
<1>5. Len(r) # 0 /\ r[Len(r)] = l
  BY <1>1
<1>6. ToSet(r) = ToSet(s) \union {l}
  BY <1>1, AppendSet
<1> HIDE DEF r
<1>7. Admitted(r) = Admitted(s) \union {<<k, o>>}
  BY <1>2, <1>6 DEF Admitted
<1>8. QED
  BY <1>4, <1>5, <1>7 DEF l, r

\* The keys a file admits, by the lines they stand on.
LEMMA AdmittedLines ==
    ASSUME NEW s
    PROVE  \A p : p \in Admitted(s) <=> \E i \in DOMAIN s : s[i].k = "key" /\ p = <<s[i].key, s[i].opt>>
  BY DEF Admitted, ToSet

\* A line that is the key on it or no key at all.
LEMMA LineAdmits ==
    ASSUME NEW l, IsLine(l)
    PROVE  Admitted(<<l>>) = IF l.k = "key" THEN {<<l.key, l.opt>>} ELSE {}
<1>1. ToSet(<<l>>) = {l}
  BY DEF ToSet
<1>2. QED
  BY <1>1 DEF Admitted

\* What the file admits after Add has written to its last line: the new key may
\* be there or not, and the one of that line too, but all others are.
LEMMA GluedText ==
    ASSUME NEW s, IsText(s), Len(s) # 0, NEW k, NEW o \in OptionForms,
           NEW l \in Glued(Last(s), KeyLine(k, o))
    PROVE  LET r == [s EXCEPT ![Len(s)] = l]
           IN  /\ IsText(r)
               /\ Admitted(r) \subseteq Admitted(s) \union {<<k, o>>}
               /\ Admitted(s) \ Admitted(<<Last(s)>>) \subseteq Admitted(r)
<1> DEFINE n == Len(s)
           r == [s EXCEPT ![n] = l]
<1>1. n \in Nat /\ n \in DOMAIN s /\ DOMAIN s = 1..n /\ \A i \in DOMAIN s : IsLine(s[i])
  BY TextLines
<1>2. Last(s) = s[n] /\ IsLine(s[n])
  BY <1>1 DEF Last
<1>3. /\ IsLine(l)
      /\ l.k = "key" => (l = s[n] \/ (l.key = k /\ l.opt = o))
  BY <1>2, LineKinds DEF Glued, IsLine, Note, KeyLine, Garbled
<1>4. r = [i \in 1..n |-> r[i]] /\ r[n] = l /\ \A i \in 1..n : i # n => r[i] = s[i]
  <2>1. s = [i \in 1..n |-> s[i]]
    <3>1. PICK T : s \in Seq(T)
      BY DEF IsText
    <3>2. QED
      BY <1>1, <3>1
  <2>2. QED
    BY <1>1, <2>1
<1> HIDE DEF r
<1>5. \A i \in 1..n : IsLine(r[i])
  BY <1>1, <1>3, <1>4
<1>6. IsText(r)
  BY <1>1, <1>4, <1>5, TextOf
<1>7. DOMAIN r = DOMAIN s
  BY <1>1, <1>4
<1>8. \A p \in Admitted(r) : p \in Admitted(s) \union {<<k, o>>}
  <2>1. SUFFICES ASSUME NEW p, NEW i \in DOMAIN s, r[i].k = "key", p = <<r[i].key, r[i].opt>>
                 PROVE  p \in Admitted(s) \union {<<k, o>>}
    BY <1>7, AdmittedLines
  <2>2. CASE r[i] = s[i]
    BY <2>1, <2>2, AdmittedLines
  <2>3. CASE r[i] # s[i]
    BY <1>1, <1>3, <1>4, <2>1, <2>3
  <2>4. QED
    BY <2>2, <2>3
<1>9. \A p \in Admitted(s) : p \notin Admitted(<<Last(s)>>) => p \in Admitted(r)
  <2>1. SUFFICES ASSUME NEW p, p \notin Admitted(<<Last(s)>>),
                        NEW i \in DOMAIN s, s[i].k = "key", p = <<s[i].key, s[i].opt>>
                 PROVE  p \in Admitted(r)
    BY AdmittedLines
  <2>2. i # n
    BY <1>2, <2>1, LineAdmits
  <2>3. r[i] = s[i]
    BY <1>1, <1>4, <2>2
  <2>4. QED
    BY <1>7, <2>1, <2>3, AdmittedLines
<1>10. QED
  BY <1>6, <1>8, <1>9 DEF r

\* List: the lines that are no notes, with their numbers; the last line is the
\* last entry.
LEMMA ListFacts ==
    ASSUME NEW s, IsText(s)
    PROVE  /\ List(s) \in Seq({ParseLine(s, i) : i \in DOMAIN s})
           /\ ToSet(List(s)) = {ParseLine(s, i) : i \in {j \in DOMAIN s : s[j] # Note}}
           /\ (Len(s) # 0 /\ s[Len(s)] # Note)
                 => Len(List(s)) # 0 /\ List(s)[Len(List(s))] = ParseLine(s, Len(s))
<1> DEFINE T == {ParseLine(s, i) : i \in DOMAIN s}
           all == [i \in DOMAIN s |-> ParseLine(s, i)]
           keep == {e \in ToSet(all) : e.line # Note}
<1>1. Len(s) \in Nat /\ DOMAIN s = 1..Len(s)
  BY TextLines
<1>2. \A i : ParseLine(s, i).id = i /\ ParseLine(s, i).line = s[i]
  BY DEF ParseLine
<1>3. all \in Seq(T) /\ Len(all) = Len(s) /\ DOMAIN all = DOMAIN s
  <2>1. all \in [1..Len(s) -> T]
    BY <1>1
  <2>2. all \in Seq(T)
    BY <1>1, <2>1, SeqDef
  <2>3. QED
    BY <1>1, <2>1, <2>2, LenProperties
<1>4. ToSet(all) = T
  BY DEF ToSet
<1>5. List(s) = Kept(all, keep)
  BY DEF List
<1>6. keep = {ParseLine(s, i) : i \in {j \in DOMAIN s : s[j] # Note}}
  <2>1. keep = {e \in T : e.line # Note}
    BY <1>4
  <2>2. QED
    BY <1>2, <2>1
<1>7. Len(s) # 0 => all[Len(s)] = ParseLine(s, Len(s)) /\ Len(s) \in DOMAIN s
  BY <1>1
<1>8. keep \subseteq ToSet(all)
  OBVIOUS
<1> HIDE DEF all, keep, T
<1>9. /\ Kept(all, keep) \in Seq(T)
      /\ ToSet(Kept(all, keep)) = ToSet(all) \intersect keep
      /\ (Len(all) # 0 /\ all[Len(all)] \in keep)
           => Len(Kept(all, keep)) # 0 /\ Kept(all, keep)[Len(Kept(all, keep))] = all[Len(all)]
  BY <1>3, KeptFacts
<1>10. (Len(s) # 0 /\ s[Len(s)] # Note) => all[Len(s)] \in keep
  BY <1>6, <1>7
<1>11. QED
  BY <1>3, <1>5, <1>6, <1>7, <1>8, <1>9, <1>10 DEF T

\* What Remove leaves: the lines that are no notes and have another number.
LEMMA RemainingText ==
    ASSUME NEW s, IsText(s), NEW id
    PROVE  /\ IsText(Remaining(s, id))
           /\ ToSet(Remaining(s, id)) = {s[i] : i \in {j \in DOMAIN s : s[j] # Note /\ j # id}}
<1> DEFINE T == {ParseLine(s, i) : i \in DOMAIN s}
           keep == {e \in ToSet(List(s)) : e.id # id}
           es == Kept(List(s), keep)
<1>1. /\ List(s) \in Seq(T)
      /\ ToSet(List(s)) = {ParseLine(s, i) : i \in {j \in DOMAIN s : s[j] # Note}}
  BY ListFacts
<1>2. \A i : ParseLine(s, i).id = i /\ ParseLine(s, i).line = s[i]
  BY DEF ParseLine
<1>3. keep = {ParseLine(s, i) : i \in {j \in DOMAIN s : s[j] # Note /\ j # id}}
  BY <1>1, <1>2
<1>4. es \in Seq(T) /\ ToSet(es) = keep
  <2> HIDE DEF T, keep
  <2>1. ToSet(es) = ToSet(List(s)) \intersect keep /\ es \in Seq(T)
    BY <1>1, KeptFacts
  <2>2. keep \subseteq ToSet(List(s))
    BY DEF keep
  <2>3. QED
    BY <2>1, <2>2
<1>5. Remaining(s, id) = [j \in DOMAIN es |-> es[j].line]
  BY DEF Remaining, Lines
<1> HIDE DEF es, keep, T
<1>6. Len(es) \in Nat /\ DOMAIN es = 1..Len(es)
  BY <1>4
<1>7. ToSet(Remaining(s, id)) = {e.line : e \in keep}
  <2>1. keep = {es[j] : j \in DOMAIN es}
    BY <1>4 DEF ToSet
  <2>2. ToSet(Remaining(s, id)) = {es[j].line : j \in DOMAIN es}
    BY <1>5 DEF ToSet
  <2>3. QED
    BY <2>1, <2>2
<1>8. {e.line : e \in keep} = {s[i] : i \in {j \in DOMAIN s : s[j] # Note /\ j # id}}
  BY <1>2, <1>3
<1>9. \A j \in DOMAIN es : IsLine(es[j].line)
  <2>1. \A j \in DOMAIN es : es[j] \in keep
    BY <1>4 DEF ToSet
  <2>2. QED
    BY <1>2, <1>3, <2>1, TextLines
<1>10. IsText(Remaining(s, id))
  <2> DEFINE r == Remaining(s, id)
  <2>1. r = [j \in 1..Len(es) |-> r[j]] /\ \A j \in 1..Len(es) : IsLine(r[j])
    BY <1>5, <1>6, <1>9
  <2> HIDE DEF r
  <2>2. IsText(r)
    BY <1>6, <2>1, TextOf
  <2>3. QED
    BY <2>2 DEF r
<1>11. QED
  BY <1>7, <1>8, <1>10

\* What Update leaves: the lines that are no notes, one of them with new options.
LEMMA UpdatedText ==
    ASSUME NEW s, IsText(s), NEW id, NEW o \in OptionForms
    PROVE  /\ IsText(Updated(s, id, o))
           /\ ToSet(Updated(s, id, o))
                 = {IF i = id THEN WithOptions(s[i], o) ELSE s[i] : i \in {j \in DOMAIN s : s[j] # Note}}
<1> DEFINE T == {ParseLine(s, i) : i \in DOMAIN s}
           es == List(s)
           To(e) == IF e.id = id THEN WithOptions(e.line, o) ELSE e.line
           entries == {ParseLine(s, i) : i \in {j \in DOMAIN s : s[j] # Note}}
<1>1. es \in Seq(T) /\ ToSet(es) = entries
  BY ListFacts
<1>2. \A i : ParseLine(s, i).id = i /\ ParseLine(s, i).line = s[i]
  BY DEF ParseLine
<1>3. Updated(s, id, o) = [j \in DOMAIN es |-> To(es[j])]
  BY DEF Updated
<1>4. Len(es) \in Nat /\ DOMAIN es = 1..Len(es)
  BY <1>1
<1>5. \A j \in DOMAIN es : es[j] \in entries
  BY <1>1 DEF ToSet
<1>6. ASSUME NEW i \in DOMAIN s, s[i] # Note
      PROVE  IsLine(To(ParseLine(s, i)))
  <2>1. IsLine(s[i]) /\ s[i].k \in {"key", "garbled"} /\ s[i].opt \in OptionForms
    BY <1>6, TextLines, LineKinds
  <2>2. IsLine(WithOptions(s[i], o))
    BY <2>1 DEF WithOptions, IsLine, Garbled, KeyLine, Note, OptionForms
  <2>3. QED
    BY <1>2, <2>1, <2>2
<1>7. \A j \in DOMAIN es : IsLine(To(es[j]))
  <2> HIDE DEF To, es
  <2>1. QED
    BY <1>5, <1>6
<1>8. ToSet(Updated(s, id, o)) = {To(e) : e \in entries}
  <2> HIDE DEF To, es, entries
  <2>1. entries = {es[j] : j \in DOMAIN es}
    BY <1>1 DEF ToSet
  <2>2. ToSet(Updated(s, id, o)) = {To(es[j]) : j \in DOMAIN es}
    BY <1>3 DEF ToSet
  <2>3. QED
    BY <2>1, <2>2
<1>9. {To(e) : e \in entries}
         = {IF i = id THEN WithOptions(s[i], o) ELSE s[i] : i \in {j \in DOMAIN s : s[j] # Note}}
  <2>1. \A i : To(ParseLine(s, i)) = IF i = id THEN WithOptions(s[i], o) ELSE s[i]
    BY <1>2
  <2> HIDE DEF To
  <2>2. QED
    BY <2>1
<1>10. IsText(Updated(s, id, o))
  <2> DEFINE r == Updated(s, id, o)
  <2>1. r = [j \in 1..Len(es) |-> r[j]] /\ \A j \in 1..Len(es) : IsLine(r[j])
    <3> HIDE DEF To, es
    <3>1. QED
      BY <1>3, <1>4, <1>7
  <2> HIDE DEF r, es
  <2>2. IsText(r)
    BY <1>4, <2>1, TextOf
  <2>3. QED
    BY <2>2 DEF r
<1>11. QED
  BY <1>8, <1>9, <1>10

LEMMA RemainingAdmits ==
    ASSUME NEW s, IsText(s), NEW id \in DOMAIN s, s[id].k = "key", ~Twice(s, id)
    PROVE  Admitted(Remaining(s, id)) = Admitted(s) \ {<<s[id].key, s[id].opt>>}
<1> DEFINE J == {j \in DOMAIN s : s[j] # Note /\ j # id}
<1>1. ToSet(Remaining(s, id)) = {s[i] : i \in J}
  BY RemainingText
<1>2. Admitted(Remaining(s, id)) = {<<l.key, l.opt>> : l \in {x \in {s[i] : i \in J} : x.k = "key"}}
  BY <1>1 DEF Admitted
<1>3. \A p : p \in Admitted(Remaining(s, id)) <=> \E i \in J : s[i].k = "key" /\ p = <<s[i].key, s[i].opt>>
  BY <1>2
<1>4. \A i \in DOMAIN s : s[i].k = "key" => s[i] # Note
  BY DEF Note
<1>5. \A i \in DOMAIN s \ {id} : s[i].k = "key" => s[i].key # s[id].key
  BY DEF Twice
<1>6. \A i \in DOMAIN s : s[i].k = "key" => (i \in J <=> <<s[i].key, s[i].opt>> # <<s[id].key, s[id].opt>>)
  BY <1>4, <1>5
<1> HIDE DEF J
<1>7. J \subseteq DOMAIN s
  BY DEF J
<1>8. \A p : p \in Admitted(Remaining(s, id)) <=> p \in Admitted(s) /\ p # <<s[id].key, s[id].opt>>
  BY <1>3, <1>6, <1>7, AdmittedLines
<1>9. QED
  BY <1>8

LEMMA UpdatedAdmits ==
    ASSUME NEW s, IsText(s), NEW id \in DOMAIN s, s[id].k = "key", ~Twice(s, id), s[id].opt # "spaced",
           NEW o \in OptionForms
    PROVE  Admitted(Updated(s, id, o)) = (Admitted(s) \ {<<s[id].key, s[id].opt>>}) \union {<<s[id].key, o>>}
<1> DEFINE J == {j \in DOMAIN s : s[j] # Note}
           To(i) == IF i = id THEN WithOptions(s[i], o) ELSE s[i]
<1>1. ToSet(Updated(s, id, o)) = {To(i) : i \in J}
  BY UpdatedText
<1>2. To(id) = KeyLine(s[id].key, o) /\ \A i : i # id => To(i) = s[i]
  BY TextLines, LineKinds DEF WithOptions, KeyLine
<1>3. To(id).k = "key" /\ To(id).key = s[id].key /\ To(id).opt = o
  BY <1>2 DEF KeyLine
<1> HIDE DEF To
<1>4. Admitted(Updated(s, id, o)) = {<<l.key, l.opt>> : l \in {x \in {To(i) : i \in J} : x.k = "key"}}
  BY <1>1 DEF Admitted
<1>5. \A p : p \in Admitted(Updated(s, id, o))
               <=> \E i \in J : To(i).k = "key" /\ p = <<To(i).key, To(i).opt>>
  BY <1>4
<1>6. \A i \in DOMAIN s : s[i].k = "key" => i \in J
  BY DEF Note
<1>7. J \subseteq DOMAIN s
  OBVIOUS
<1>8. \A i \in DOMAIN s \ {id} : s[i].k = "key" => s[i].key # s[id].key
  BY DEF Twice
<1> HIDE DEF J
<1>9. \A p : p \in Admitted(Updated(s, id, o))
               <=> p = <<s[id].key, o>> \/ \E i \in DOMAIN s \ {id} : s[i].k = "key" /\ p = <<s[i].key, s[i].opt>>
  BY <1>2, <1>3, <1>5, <1>6, <1>7
<1>10. \A p : (\E i \in DOMAIN s \ {id} : s[i].k = "key" /\ p = <<s[i].key, s[i].opt>>)
                <=> p \in Admitted(s) /\ p # <<s[id].key, s[id].opt>>
  BY <1>8, AdmittedLines
<1>11. QED
  BY <1>9, <1>10

\* Writing a text from the start of another gives a text; of an empty file, the
\* text itself.
LEMMA WrittenOver ==
    ASSUME NEW s, IsText(s), NEW t, IsText(t)
    PROVE  LET r == t \o SubSeq(s, Len(t) + 1, Len(s))
           IN  IsText(r) /\ (s = <<>> => r = t)
<1> DEFINE u == SubSeq(s, Len(t) + 1, Len(s))
<1>1. PICK S : s \in Seq(S) /\ \A l \in S : IsLine(l)
  BY DEF IsText
<1>2. PICK T : t \in Seq(T) /\ \A l \in T : IsLine(l)
  BY DEF IsText
<1>3. s \in Seq(S \union T) /\ t \in Seq(S \union T) /\ \A l \in S \union T : IsLine(l)
  BY <1>1, <1>2
<1>4. u \in Seq(S \union T)
  <2>1. Len(t) \in Nat /\ Len(s) \in Nat
    BY <1>1, <1>2
  <2>2. QED
    BY <1>3, <2>1
<1>5. IsText(t \o u)
  <2>1. t \o u \in Seq(S \union T)
    BY <1>3, <1>4
  <2>2. QED
    BY <1>3, <2>1 DEF IsText
<1>6. s = <<>> => u = <<>>
  BY <1>2, <1>3
<1>7. t \o <<>> = t
  BY <1>2
<1>8. QED
  BY <1>5, <1>6, <1>7

Places == {"new", "listed", "called", "open", "write", "appended", "updated", "done"}

\* The files and the texts are lines that authorized_keys may have.
AuthTypes ==
    /\ IsText(auth)
    /\ authEnds \in BOOLEAN /\ (Len(auth) = 0 => authEnds)
    /\ apc \in [Clients -> Places]
    /\ authFaults \in 0..MaxAuthFaults
    /\ listed = [c \in Clients |-> listed[c]]
    /\ text = [c \in Clients |-> text[c]]
    /\ call = [c \in Clients |-> call[c]]
    /\ answer = [c \in Clients |-> answer[c]]
    /\ \A c \in Clients : IsText(listed[c]) /\ IsText(text[c])

\* A request adds a key, or removes or updates the key on a line of the listing.
AuthCall(c) ==
    \/ call[c].op = "add" /\ call[c].opt \in OptionForms
    \/ /\ call[c].op \in {"remove", "update"}
       /\ call[c].id \in DOMAIN listed[c] /\ listed[c][call[c].id].k = "key"
       /\ call[c].op = "update" => call[c].opt \in OptionForms

\* The handlers' places are those of their requests.
AuthCalls ==
    \A c \in Clients :
       /\ apc[c] \in {"new", "listed"} => call[c] = NoCall
       /\ apc[c] \notin {"new", "listed"} => AuthCall(c)
       /\ apc[c] = "appended" => call[c].op = "add"
       /\ apc[c] \in {"open", "write", "updated"} => call[c].op # "add"
       /\ apc[c] # "done" => answer[c] = NoAnswer

\* The file admits what its keys are meant to be, but for the lost ones.
AsMeant(f) == Admits(f, meant.keys, meant.lost)

\* How far client c has brought the file from what the clients mean it to be to
\* what its own request intends.
Progress(c) ==
    LET id == call[c].id
    IN  /\ apc[c] \in {"called", "open"} => AsMeant(auth)
        /\ (apc[c] = "called" /\ call[c].op # "add") => listed[c] = auth /\ ~Twice(auth, id)
        /\ (apc[c] = "called" /\ call[c].op = "update") => auth[id].opt # "spaced"
        /\ apc[c] \in {"open", "write"} => Admits(text[c], Intended(c, meant.keys), meant.lost)
        /\ apc[c] = "write" => auth = <<>>
        /\ apc[c] \in {"appended", "updated"} => Admits(auth, Intended(c, meant.keys), meant.lost)
        /\ (apc[c] = "appended" /\ <<NewKey[c], call[c].opt>> \notin meant.lost)
             => Len(auth) # 0 /\ auth[Len(auth)] = KeyLine(NewKey[c], call[c].opt)

\* As long as it is known what the clients mean, one request at a time is served,
\* and the file is as far as its handler.
AuthMeant ==
    /\ meant = Void \/ meant = Meant(meant.keys, meant.lost)
    /\ meant.known => /\ \A c, d \in Writing : c = d
                      /\ Writing = {} => AsMeant(auth)
                      /\ \A c \in Writing : Progress(c)

AuthInv == AuthTypes /\ AuthCalls /\ AuthMeant /\ AddAnswersOwn

LEMMA AuthInitInv == ASSUME AuthInit PROVE AuthInv
<1> USE DEF AuthInit
<1>1. IsText(auth)
  <2>1. auth \in Seq(ToSet(auth)) /\ \A l \in ToSet(auth) : IsLine(l)
    BY AuthorizedKeysAssumption
  <2>2. QED
    BY <2>1 DEF IsText
<1>2. AuthTypes
  <2>1. Len(auth) = 0 => auth = <<>>
    BY <1>1 DEF IsText
  <2>2. QED
    BY <1>1, <2>1, EmptyText, AuthorizedKeysAssumption DEF AuthTypes, Places
<1>3. AuthCalls
  BY DEF AuthCalls
<1>4. AuthMeant
  <2>1. Writing = {}
    BY DEF Writing
  <2>2. QED
    BY <2>1 DEF AuthMeant, Meant, AsMeant, Admits
<1>5. AddAnswersOwn
  BY DEF AddAnswersOwn
<1>6. QED
  BY <1>2, <1>3, <1>4, <1>5 DEF AuthInv

LEMMA NamedLines ==
    ASSUME NEW c \in Clients, IsText(listed[c])
    PROVE  \A i \in Named(c) : i \in DOMAIN listed[c] /\ listed[c][i].k = "key"
<1>1. ToSet(List(listed[c]))
         = {ParseLine(listed[c], i) : i \in {j \in DOMAIN listed[c] : listed[c][j] # Note}}
  BY ListFacts
<1>2. \A i : ParseLine(listed[c], i).id = i /\ ParseLine(listed[c], i).line = listed[c][i]
  BY DEF ParseLine
<1>3. QED
  BY <1>1, <1>2 DEF Named

\* What Send leaves alone and where it brings the client.
LEMMA SendTypes ==
    ASSUME AuthTypes, AuthCalls, NEW c \in Clients, NEW q, Send(c, q),
           \/ q.op = "add" /\ q.opt \in OptionForms
           \/ /\ q.op \in {"remove", "update"} /\ q.id \in Named(c)
              /\ q.op = "update" => q.opt \in OptionForms
    PROVE  AuthTypes' /\ AuthCalls'
<1> USE DEF Send
<1>1. AuthTypes'
  BY DEF AuthTypes, Places
<1>2. apc' = [apc EXCEPT ![c] = "called"] /\ call' = [call EXCEPT ![c] = q]
  OBVIOUS
<1>3. apc'[c] = "called" /\ call'[c] = q /\ \A d \in Clients \ {c} : apc'[d] = apc[d] /\ call'[d] = call[d]
  BY <1>2 DEF AuthTypes
<1>4. AuthCall(c)'
  <2>1. q.op # "add" => q.id \in DOMAIN listed[c] /\ listed[c][q.id].k = "key"
    BY NamedLines DEF AuthTypes
  <2>2. QED
    BY <1>3, <2>1 DEF AuthCall
<1>5. answer'[c] = NoAnswer
  BY DEF AuthCalls
<1>6. \A d \in Clients \ {c} : AuthCall(d) => AuthCall(d)'
  BY <1>3 DEF AuthCall
<1>7. QED
  BY <1>1, <1>3, <1>4, <1>5, <1>6 DEF AuthCalls

LEMMA AuthTypesStep ==
    ASSUME AuthTypes, AuthCalls, AuthNext
    PROVE  AuthTypes' /\ AuthCalls'
<1>1. PICK c \in Clients :
         \/ ListAuthorizedKeys(c)
         \/ AddAuthorizedKey(c) \/ UpdateAuthorizedKey(c) \/ RemoveAuthorizedKey(c)
         \/ Append1(c) \/ AppendGlued(c) \/ Rewrite(c) \/ Cut(c) \/ WriteBack(c)
         \/ AuthAnswer(c) \/ AuthFail(c)
  BY DEF AuthNext
<1> DEFINE Held == \A d \in Clients : AuthCall(d) => AuthCall(d)'
<1>2. CASE ListAuthorizedKeys(c)
  <2> USE <1>2 DEF ListAuthorizedKeys
  <2>1. AuthTypes'
    BY DEF AuthTypes, Places
  <2>2. \A d \in Clients \ {c} : AuthCall(d) => AuthCall(d)'
    BY DEF AuthCall, AuthTypes
  <2>3. QED
    BY <2>1, <2>2 DEF AuthCalls, AuthTypes
<1>3. CASE AddAuthorizedKey(c)
  <2>1. PICK o \in OptionForms : Send(c, [op |-> "add", opt |-> o])
    BY <1>3 DEF AddAuthorizedKey
  <2>2. QED
    BY <2>1, SendTypes
<1>4. CASE UpdateAuthorizedKey(c)
  <2>1. PICK i \in Named(c), o \in OptionForms : Send(c, [op |-> "update", id |-> i, opt |-> o])
    BY <1>4 DEF UpdateAuthorizedKey
  <2>2. QED
    BY <2>1, SendTypes
<1>5. CASE RemoveAuthorizedKey(c)
  <2>1. PICK i \in Named(c) : Send(c, [op |-> "remove", id |-> i])
    BY <1>5 DEF RemoveAuthorizedKey
  <2>2. QED
    BY <2>1, SendTypes
<1>6. CASE Append1(c)
  <2> USE <1>6 DEF Append1
  <2>1. call[c].opt \in OptionForms
    BY DEF AuthCalls, AuthCall
  <2>2. IsText(auth') /\ Len(auth') # 0
    BY <2>1, AppendedText DEF AuthTypes
  <2>3. AuthTypes'
    BY <2>2 DEF AuthTypes, Places
  <2>4. Held
    BY DEF AuthCall
  <2>5. QED
    BY <2>3, <2>4 DEF AuthCalls, AuthTypes
<1>6a. CASE AppendGlued(c)
  <2>1. PICK l \in Glued(Last(auth), KeyLine(NewKey[c], call[c].opt)) : auth' = [auth EXCEPT ![Len(auth)] = l]
    BY <1>6a DEF AppendGlued
  <2>2. call[c].opt \in OptionForms /\ Len(auth) # 0
    BY <1>6a DEF AppendGlued, AuthCalls, AuthCall, AuthTypes
  <2>3. IsText(auth')
    BY <2>1, <2>2, GluedText DEF AuthTypes
  <2>4. AuthTypes'
    BY <1>6a, <2>3 DEF AppendGlued, AuthTypes, Places
  <2>5. Held
    BY <1>6a DEF AppendGlued, AuthCall
  <2>6. QED
    BY <1>6a, <2>4, <2>5 DEF AppendGlued, AuthCalls, AuthTypes
<1>7. CASE Rewrite(c)
  <2> USE <1>7 DEF Rewrite
  <2>1. call[c].op = "update" => call[c].opt \in OptionForms
    BY DEF AuthCalls, AuthCall
  <2>2. call[c].op \in {"remove", "update"}
    BY DEF AuthCalls, AuthCall
  <2>3. IsText(text'[c])
    BY <2>1, <2>2, RemainingText, UpdatedText DEF AuthTypes
  <2>4. AuthTypes'
    BY <2>3 DEF AuthTypes, Places
  <2>5. Held
    BY DEF AuthCall
  <2>6. QED
    BY <2>4, <2>5 DEF AuthCalls, AuthTypes
<1>8. CASE Cut(c)
  <2> USE <1>8 DEF Cut
  <2>1. AuthTypes'
    BY EmptyText DEF AuthTypes, Places
  <2>2. Held
    BY DEF AuthCall
  <2>3. QED
    BY <2>1, <2>2 DEF AuthCalls, AuthTypes
<1>9. CASE WriteBack(c)
  <2> USE <1>9 DEF WriteBack
  <2>1. IsText(auth')
    BY WrittenOver DEF AuthTypes
  <2>2. AuthTypes'
    BY <2>1 DEF AuthTypes, Places
  <2>3. Held
    BY DEF AuthCall
  <2>4. QED
    BY <2>2, <2>3 DEF AuthCalls, AuthTypes
<1>10. CASE AuthAnswer(c)
  <2>1. /\ apc[c] \in {"appended", "updated"} /\ apc' = [apc EXCEPT ![c] = "done"]
        /\ \E a : answer' = [answer EXCEPT ![c] = a]
        /\ UNCHANGED <<auth, authEnds, listed, call, text, authFaults>>
    BY <1>10 DEF AuthAnswer
  <2>2. AuthTypes'
    BY <2>1 DEF AuthTypes, Places
  <2>3. Held
    BY <2>1 DEF AuthCall
  <2>4. QED
    BY <2>1, <2>2, <2>3 DEF AuthCalls, AuthTypes
<1>11. CASE AuthFail(c)
  <2>1. /\ apc[c] \in {"called", "open", "write", "appended", "updated"} /\ apc' = [apc EXCEPT ![c] = "done"]
        /\ answer' = [answer EXCEPT ![c] = Error]
        /\ UNCHANGED <<auth, authEnds, listed, call, text>>
    BY <1>11 DEF AuthFail
  <2>2. authFaults' \in 0..MaxAuthFaults
    BY <1>11, AuthorizedKeysAssumption DEF AuthFail, AuthTypes
  <2>3. AuthTypes'
    BY <2>1, <2>2 DEF AuthTypes, Places
  <2>4. Held
    BY <2>1 DEF AuthCall
  <2>5. QED
    BY <2>1, <2>3, <2>4 DEF AuthCalls, AuthTypes
<1>12. QED
  BY <1>1, <1>2, <1>3, <1>4, <1>5, <1>6, <1>6a, <1>7, <1>8, <1>9, <1>10, <1>11

\* Who is writing after client c has been brought to another place.
LEMMA WritingStep ==
    ASSUME NEW p, NEW c \in Clients, apc \in [Clients -> Places], apc' = [apc EXCEPT ![c] = p]
    PROVE  Writing' = IF p \in {"called", "open", "write", "appended", "updated"}
                      THEN Writing \union {c} ELSE Writing \ {c}
  BY DEF Writing, Places

\* Where what the clients mean stays known, the handler that takes a step is the
\* only one, and it is its progress that counts.
LEMMA MeantKept ==
    ASSUME AuthMeant, NEW c \in Writing, Writing' \subseteq Writing, meant' = meant,
           meant.known => /\ Writing' = {} => AsMeant(auth)'
                          /\ c \in Writing' => Progress(c)'
    PROVE  AuthMeant'
<1>1. meant.known => \A d \in Writing : d = c
  BY DEF AuthMeant
<1>2. meant.known => \A d \in Writing' : d = c
  BY <1>1
<1>3. (meant = Void \/ meant = Meant(meant.keys, meant.lost))'
  BY DEF AuthMeant, Void, Meant
<1>5. ASSUME meant'.known PROVE Writing' = {} => AsMeant(auth)'
  BY <1>5
<1>6. ASSUME meant'.known, NEW d \in Writing' PROVE Progress(d)'
  BY <1>2, <1>6
<1>7. QED
  BY <1>2, <1>3, <1>5, <1>6 DEF AuthMeant

LEMMA SendMeant ==
    ASSUME AuthTypes, AuthMeant, NEW c \in Clients, NEW q, Send(c, q)
    PROVE  AuthMeant'
<1> USE DEF Send
<1>1. CASE meant' = Void
  <2>1. meant'.known = FALSE
    BY <1>1 DEF Void
  <2>2. QED
    BY <1>1, <2>1 DEF AuthMeant
<1>2. CASE meant' # Void
  <2>1. /\ meant' = meant /\ Writing = {}
        /\ q.op # "add" => listed[c] = auth /\ ~Twice(auth, q.id)
        /\ q.op = "update" => listed[c][q.id].opt # "spaced"
    BY <1>2
  <2>2. apc'[c] = "called" /\ call'[c] = q /\ UNCHANGED <<auth, listed>>
    BY DEF AuthTypes
  <2>3. Writing' = {c}
    BY <2>1, WritingStep DEF AuthTypes
  <2>4. meant.known => AsMeant(auth)'
    BY <2>1, <2>2 DEF AuthMeant, AsMeant, Admits, Admitted
  <2>5. q.op = "update" => auth[q.id].opt # "spaced"
    BY <2>1
  <2>6. meant.known => Progress(c)'
    BY <2>1, <2>2, <2>4, <2>5 DEF Progress, Twice
  <2>7. QED
    BY <2>1, <2>3, <2>6 DEF AuthMeant, Void, Meant
<1>3. QED
  BY <1>1, <1>2

\* What one request does to the keys, step by step.
LEMMA MeantStep ==
    ASSUME AuthTypes, AuthCalls, AuthMeant, AuthNext
    PROVE  AuthMeant'
<1>1. PICK c \in Clients :
         \/ ListAuthorizedKeys(c)
         \/ AddAuthorizedKey(c) \/ UpdateAuthorizedKey(c) \/ RemoveAuthorizedKey(c)
         \/ Append1(c) \/ AppendGlued(c) \/ Rewrite(c) \/ Cut(c) \/ WriteBack(c)
         \/ AuthAnswer(c) \/ AuthFail(c)
  BY DEF AuthNext
<1>2. c \in Writing => (meant.known => Progress(c))
  BY DEF AuthMeant
<1>3. CASE ListAuthorizedKeys(c)
  <2>1. Writing' = Writing /\ c \notin Writing
    BY <1>3, WritingStep DEF AuthTypes, Writing, ListAuthorizedKeys
  <2>2. UNCHANGED <<auth, meant, call, text>> /\ \A d \in Writing : apc'[d] = apc[d] /\ listed'[d] = listed[d]
    BY <1>3, <2>1 DEF AuthTypes, Writing, ListAuthorizedKeys
  <2>3. ASSUME NEW d \in Writing, Progress(d)
        PROVE  Progress(d)'
    <3>1. Intended(d, meant.keys)' = Intended(d, meant.keys)
      BY <2>2 DEF Intended
    <3>2. QED
      BY <2>2, <2>3, <3>1 DEF Progress, AsMeant, Admits, Admitted, Twice
  <2>4. AsMeant(auth)' = AsMeant(auth)
    BY <2>2 DEF AsMeant, Admits, Admitted
  <2>5. (meant = Void \/ meant = Meant(meant.keys, meant.lost))'
    BY <2>2 DEF AuthMeant, Void, Meant
  <2>6. QED
    BY <2>1, <2>2, <2>3, <2>4, <2>5 DEF AuthMeant
<1>4. CASE AddAuthorizedKey(c) \/ UpdateAuthorizedKey(c) \/ RemoveAuthorizedKey(c)
  <2>1. \E q : Send(c, q)
    BY <1>4 DEF AddAuthorizedKey, UpdateAuthorizedKey, RemoveAuthorizedKey
  <2>2. QED
    BY <2>1, SendMeant
<1>5. CASE Append1(c)
  <2>1. /\ Writing' = Writing /\ c \in Writing /\ UNCHANGED <<meant, listed, call>> /\ apc'[c] = "appended"
        /\ apc[c] = "called" /\ call[c].op = "add" /\ auth' = Append(auth, KeyLine(NewKey[c], call[c].opt))
    BY <1>5, WritingStep DEF AuthTypes, Writing, Append1
  <2>2. ASSUME meant.known PROVE Progress(c)'
    <3>1. AsMeant(auth)
      BY <1>2, <2>1, <2>2 DEF Progress
    <3>2. call[c].opt \in OptionForms
      BY <2>1 DEF AuthCalls, AuthCall
    <3>3. /\ Len(auth') # 0 /\ auth'[Len(auth')] = KeyLine(NewKey[c], call[c].opt)
          /\ Admits(auth', meant.keys \union {<<NewKey[c], call[c].opt>>}, meant.lost)
      <4> DEFINE r == Append(auth, KeyLine(NewKey[c], call[c].opt))
      <4>1. IsText(auth)
        BY DEF AuthTypes
      <4>2. /\ Len(r) # 0 /\ r[Len(r)] = KeyLine(NewKey[c], call[c].opt)
            /\ Admitted(r) = Admitted(auth) \union {<<NewKey[c], call[c].opt>>}
        BY <3>2, <4>1, AppendedText
      <4> HIDE DEF r
      <4>3. auth' = r
        BY <2>1 DEF r
      <4>4. QED
        BY <3>1, <4>2, <4>3 DEF AsMeant, Admits
    <3>4. Intended(c, meant.keys)' = meant.keys \union {<<NewKey[c], call[c].opt>>}
      <4>1. meant' = meant /\ call'[c].op = "add" /\ call'[c].opt = call[c].opt
        BY <2>1
      <4>2. QED
        BY <4>1 DEF Intended
    <3>5. QED
      BY <2>1, <3>3, <3>4 DEF Progress, Admits, Admitted
  <2>3. QED
    BY <2>1, <2>2, MeantKept
<1>5a. CASE AppendGlued(c)
  <2>1. PICK l \in Glued(Last(auth), KeyLine(NewKey[c], call[c].opt)) : auth' = [auth EXCEPT ![Len(auth)] = l]
    BY <1>5a DEF AppendGlued
  <2>2. /\ Writing' = Writing /\ c \in Writing /\ UNCHANGED <<listed, call>>
        /\ apc[c] = "called" /\ call[c].op = "add"
        /\ apc'[c] = "appended" /\ \A d \in Clients \ {c} : apc'[d] = apc[d]
    BY <1>5a, WritingStep DEF AuthTypes, Writing, AppendGlued
  <2>3. CASE meant.known
    <3> DEFINE new == <<NewKey[c], call[c].opt>>
               lost == meant.lost \union {new} \union Admitted(<<Last(auth)>>)
    <3>2. meant' = Meant(meant.keys, lost)
      BY <1>5a, <2>3 DEF AppendGlued
    <3>3. meant' = Meant(meant.keys, lost) /\ meant'.keys = meant.keys /\ meant'.lost = lost /\ meant'.known
      <4> HIDE DEF lost
      <4>1. \A K : Meant(K, lost).keys = K /\ Meant(K, lost).lost = lost /\ Meant(K, lost).known
        BY DEF Meant
      <4>2. QED
        BY <3>2, <4>1, Zenon
    <3>4. AsMeant(auth)
      BY <1>2, <2>2, <2>3 DEF Progress
    <3>5. call[c].opt \in OptionForms /\ Len(auth) # 0
      BY <1>5a, <2>2 DEF AppendGlued, AuthCalls, AuthCall, AuthTypes
    <3>6. /\ Admitted(auth') \subseteq Admitted(auth) \union {new}
          /\ Admitted(auth) \ Admitted(<<Last(auth)>>) \subseteq Admitted(auth')
      BY <2>1, <3>5, GluedText DEF AuthTypes
    <3>7. Admits(auth', meant.keys \union {new}, lost)
      BY <3>4, <3>6 DEF AsMeant, Admits
    <3>8. Intended(c, meant.keys)' = meant.keys \union {new}
      BY <2>2, <3>3 DEF Intended
    <3>9. Progress(c)'
      <4> HIDE DEF lost, new
      <4>1. new \in lost /\ new = <<NewKey[c], call[c].opt>>
        BY DEF lost, new
      <4>2. QED
        BY <2>2, <3>3, <3>7, <3>8, <4>1 DEF Progress, Admits, Admitted
    <3>10. \A d \in Writing' : d = c
      BY <2>2, <2>3 DEF AuthMeant
    <3>11. QED
      <4> HIDE DEF lost
      <4>1. QED
        BY <2>2, <3>3, <3>9, <3>10 DEF AuthMeant
  <2>4. CASE ~meant.known
    <3>1. meant' = meant
      BY <1>5a, <2>4 DEF AppendGlued
    <3>2. QED
      BY <2>2, <2>4, <3>1, MeantKept
  <2>5. QED
    BY <2>3, <2>4
<1>6. CASE Rewrite(c)
  <2> USE <1>6 DEF Rewrite
  <2>1. /\ Writing' = Writing /\ c \in Writing /\ UNCHANGED <<meant, auth, listed, call>> /\ apc'[c] = "open"
        /\ text'[c] = IF call[c].op = "remove" THEN Remaining(auth, call[c].id)
                      ELSE Updated(auth, call[c].id, call[c].opt)
    BY WritingStep DEF AuthTypes, Writing
  <2>2. ASSUME meant.known PROVE Progress(c)'
    <3> DEFINE id == call[c].id
               rest == meant.keys \ {<<auth[id].key, auth[id].opt>>}
    <3>1. /\ AsMeant(auth) /\ listed[c] = auth /\ ~Twice(auth, id)
          /\ call[c].op = "update" => auth[id].opt # "spaced"
      BY <1>2, <2>1, <2>2 DEF Progress
    <3>2. call[c].op \in {"remove", "update"} /\ id \in DOMAIN auth /\ auth[id].k = "key"
      BY <3>1 DEF AuthCalls, AuthCall
    <3>3. CASE call[c].op = "remove"
      <4>1. Admits(text'[c], rest, meant.lost)
        BY <2>1, <3>1, <3>2, <3>3, RemainingAdmits DEF AuthTypes, AsMeant, Admits
      <4>2. Intended(c, meant.keys)' = rest
        BY <2>1, <3>1, <3>3 DEF Intended
      <4>3. QED
        BY <2>1, <3>1, <3>3, <4>1, <4>2 DEF Progress, AsMeant, Admits, Admitted
    <3>4. CASE call[c].op = "update"
      <4>1. call[c].opt \in OptionForms
        BY <3>4 DEF AuthCalls, AuthCall
      <4>2. Admits(text'[c], rest \union {<<auth[id].key, call[c].opt>>}, meant.lost)
        BY <2>1, <3>1, <3>2, <3>4, <4>1, UpdatedAdmits DEF AuthTypes, AsMeant, Admits
      <4>3. Intended(c, meant.keys)' = rest \union {<<auth[id].key, call[c].opt>>}
        BY <2>1, <3>1, <3>4 DEF Intended
      <4>4. QED
        BY <2>1, <3>1, <3>4, <4>2, <4>3 DEF Progress, AsMeant, Admits, Admitted
    <3>5. QED
      BY <3>2, <3>3, <3>4
  <2>3. QED
    BY <2>1, <2>2, MeantKept
<1>7. CASE Cut(c)
  <2> USE <1>7 DEF Cut
  <2>1. /\ Writing' = Writing /\ c \in Writing /\ UNCHANGED <<meant, text, listed, call>>
        /\ apc'[c] = "write" /\ auth' = <<>>
    BY WritingStep DEF AuthTypes, Writing
  <2>2. ASSUME meant.known PROVE Progress(c)'
    <3>1. Admits(text[c], Intended(c, meant.keys), meant.lost)
      BY <1>2, <2>1, <2>2 DEF Progress
    <3>2. Intended(c, meant.keys)' = Intended(c, meant.keys)
      BY <2>1 DEF Intended
    <3>3. QED
      BY <2>1, <3>1, <3>2 DEF Progress, Admits, Admitted
  <2>3. QED
    BY <2>1, <2>2, MeantKept
<1>8. CASE WriteBack(c)
  <2> USE <1>8 DEF WriteBack
  <2>1. /\ Writing' = Writing /\ c \in Writing /\ UNCHANGED <<meant, listed, call>> /\ apc'[c] = "updated"
    BY WritingStep DEF AuthTypes, Writing
  <2>2. ASSUME meant.known PROVE Progress(c)'
    <3>1. auth = <<>> /\ Admits(text[c], Intended(c, meant.keys), meant.lost)
      BY <1>2, <2>1, <2>2 DEF Progress
    <3>2. auth' = text[c]
      BY <3>1, WrittenOver DEF AuthTypes
    <3>3. Intended(c, meant.keys)' = Intended(c, meant.keys)
      BY <2>1 DEF Intended
    <3>4. QED
      BY <2>1, <3>1, <3>2, <3>3 DEF Progress, Admits, Admitted
  <2>3. QED
    BY <2>1, <2>2, MeantKept
<1>9. CASE AuthAnswer(c)
  <2>1. /\ apc' = [apc EXCEPT ![c] = "done"] /\ apc[c] \in {"appended", "updated"}
        /\ meant' = IF meant.known THEN Meant(Intended(c, meant.keys), meant.lost) ELSE meant
        /\ UNCHANGED <<auth, listed, call, text>>
    BY <1>9 DEF AuthAnswer
  <2>2. Writing' = Writing \ {c} /\ c \in Writing
    BY <2>1, WritingStep DEF AuthTypes, Writing
  <2>3. CASE meant.known
    <3>1. Writing' = {}
      BY <2>2, <2>3 DEF AuthMeant
    <3>2. Admits(auth, Intended(c, meant.keys), meant.lost)
      BY <1>2, <2>1, <2>2, <2>3 DEF Progress
    <3>3. meant' = Meant(Intended(c, meant.keys), meant.lost) /\ meant' = Meant(meant'.keys, meant'.lost)
      BY <2>1, <2>3 DEF Meant
    <3>4. AsMeant(auth)'
      BY <2>1, <3>2, <3>3 DEF Meant, AsMeant, Admits, Admitted
    <3>5. QED
      BY <3>1, <3>3, <3>4 DEF AuthMeant
  <2>4. CASE ~meant.known
    <3>1. meant' = meant
      BY <2>1, <2>4
    <3>2. QED
      BY <2>2, <2>4, <3>1, MeantKept
  <2>5. QED
    BY <2>3, <2>4
<1>10. CASE AuthFail(c)
  <2>1. /\ apc' = [apc EXCEPT ![c] = "done"] /\ apc[c] \in {"called", "open", "write", "appended", "updated"}
        /\ meant' = IF apc[c] \in {"called", "open"} THEN meant ELSE Void
        /\ UNCHANGED <<auth, listed, call, text>>
    BY <1>10 DEF AuthFail
  <2>2. Writing' = Writing \ {c} /\ c \in Writing
    BY <2>1, WritingStep DEF AuthTypes, Writing
  <2>3. CASE apc[c] \notin {"called", "open"}
    <3>1. meant' = Void /\ meant'.known = FALSE
      BY <2>1, <2>3 DEF Void
    <3>2. QED
      BY <3>1 DEF AuthMeant
  <2>4. CASE apc[c] \in {"called", "open"}
    <3>1. meant' = meant
      BY <2>1, <2>4
    <3>2. meant.known => AsMeant(auth)'
      BY <1>2, <2>1, <2>2, <2>4, <3>1 DEF Progress, AsMeant, Admits, Admitted
    <3>3. QED
      BY <2>2, <3>1, <3>2, MeantKept
  <2>5. QED
    BY <2>3, <2>4
<1>11. QED
  BY <1>1, <1>3, <1>4, <1>5, <1>5a, <1>6, <1>7, <1>8, <1>9, <1>10

\* The answer to Add is read from a list made after the key was appended.
LEMMA AnswersOwnStep ==
    ASSUME AuthInv, AuthNext
    PROVE  AddAnswersOwn'
<1> USE DEF AuthInv
<1>1. PICK c \in Clients :
         \/ ListAuthorizedKeys(c)
         \/ AddAuthorizedKey(c) \/ UpdateAuthorizedKey(c) \/ RemoveAuthorizedKey(c)
         \/ Append1(c) \/ AppendGlued(c) \/ Rewrite(c) \/ Cut(c) \/ WriteBack(c)
         \/ AuthAnswer(c) \/ AuthFail(c)
  BY DEF AuthNext
<1>2. CASE ListAuthorizedKeys(c) \/ Append1(c) \/ Rewrite(c) \/ Cut(c) \/ WriteBack(c)
  <2>1. UNCHANGED <<meant, call, answer>>
    BY <1>2 DEF ListAuthorizedKeys, Append1, Rewrite, Cut, WriteBack
  <2>2. QED
    BY <2>1 DEF AddAnswersOwn
<1>2a. CASE AppendGlued(c)
  <2>1. UNCHANGED <<call, answer>>
    BY <1>2a DEF AppendGlued
  <2>2. meant'.known = meant.known /\ (meant.known => meant.lost \subseteq meant'.lost)
    <3>1. CASE meant.known
      <4> DEFINE lost == meant.lost \union {<<NewKey[c], call[c].opt>>} \union Admitted(<<Last(auth)>>)
      <4>1. meant' = Meant(meant.keys, lost) /\ meant.lost \subseteq lost
        BY <1>2a, <3>1 DEF AppendGlued
      <4> HIDE DEF lost
      <4>2. QED
        BY <3>1, <4>1 DEF Meant
    <3>2. CASE ~meant.known
      <4>1. meant' = meant
        BY <1>2a, <3>2 DEF AppendGlued
      <4>2. QED
        BY <3>2, <4>1
    <3>3. QED
      BY <3>1, <3>2
  <2>3. QED
    BY <2>1, <2>2 DEF AddAnswersOwn
<1>3. CASE AddAuthorizedKey(c) \/ UpdateAuthorizedKey(c) \/ RemoveAuthorizedKey(c)
  <2>1. PICK q : Send(c, q)
    BY <1>3 DEF AddAuthorizedKey, UpdateAuthorizedKey, RemoveAuthorizedKey
  <2>2. /\ apc[c] = "listed" /\ call' = [call EXCEPT ![c] = q] /\ answer' = answer
        /\ meant' = meant \/ meant' = Void
    BY <2>1 DEF Send
  <2>3. meant'.known => meant' = meant
    BY <2>2 DEF Void
  <2>4. answer'[c] = NoAnswer
    BY <2>2 DEF AuthCalls
  <2>5. \A d \in Clients \ {c} : call'[d] = call[d] /\ answer'[d] = answer[d]
    BY <2>2 DEF AuthTypes
  <2>6. QED
    BY <2>3, <2>4, <2>5 DEF AddAnswersOwn
<1>4. CASE AuthAnswer(c)
  <2>1. /\ apc[c] \in {"appended", "updated"} /\ UNCHANGED <<auth, call>>
        /\ meant'.known => meant.known /\ meant'.lost = meant.lost
        /\ \A d \in Clients \ {c} : answer'[d] = answer[d]
    BY <1>4 DEF AuthAnswer, AuthTypes, Meant
  <2>2. ASSUME meant.known, call[c].op = "add", <<NewKey[c], call[c].opt>> \notin meant.lost
        PROVE  answer'[c] = ParseLine(auth, Len(auth)) /\ auth[Len(auth)] = KeyLine(NewKey[c], call[c].opt)
    <3>1. apc[c] = "appended" /\ c \in Writing
      BY <2>1, <2>2 DEF AuthCalls, Writing
    <3>2. Len(auth) # 0 /\ auth[Len(auth)] = KeyLine(NewKey[c], call[c].opt)
      BY <2>2, <3>1 DEF AuthMeant, Progress
    <3>3. auth[Len(auth)] # Note
      BY <3>2 DEF KeyLine, Note
    <3>4. Len(List(auth)) # 0 /\ List(auth)[Len(List(auth))] = ParseLine(auth, Len(auth))
      BY <3>2, <3>3, ListFacts DEF AuthTypes
    <3>5. AddAnswer(auth, c) = ParseLine(auth, Len(auth))
      BY <3>4 DEF AddAnswer, Last
    <3>6. answer'[c] = IF List(auth) = <<>> THEN Error ELSE AddAnswer(auth, c)
      BY <1>4, <2>2 DEF AuthAnswer, AuthTypes
    <3>7. List(auth) # <<>>
      BY <3>4
    <3>8. QED
      BY <3>2, <3>5, <3>6, <3>7
  <2>3. ASSUME NEW l, NEW o, auth[Len(auth)] = KeyLine(l, o)
        PROVE  /\ ParseLine(auth, Len(auth)).line = KeyLine(l, o)
               /\ o # "spaced" => /\ ParseLine(auth, Len(auth)).options = o
                                  /\ ParseLine(auth, Len(auth)).type = "type"
    BY <2>3 DEF ParseLine, KeyLine, Note
  <2>4. QED
    BY <2>1, <2>2, <2>3 DEF AddAnswersOwn
<1>5. CASE AuthFail(c)
  <2>1. answer' = [answer EXCEPT ![c] = Error] /\ UNCHANGED call /\ (meant' = Void \/ meant' = meant)
    BY <1>5 DEF AuthFail
  <2>2. meant'.known => meant' = meant
    BY <2>1 DEF Void
  <2>3. answer'[c] = Error /\ \A d \in Clients \ {c} : answer'[d] = answer[d]
    BY <2>1 DEF AuthTypes
  <2>4. QED
    BY <2>1, <2>2, <2>3 DEF AddAnswersOwn
<1>6. QED
  BY <1>1, <1>2, <1>2a, <1>3, <1>4, <1>5

LEMMA AuthStep == ASSUME AuthInv, [AuthNext]_avars PROVE AuthInv'
<1>1. CASE AuthNext
  BY <1>1, AuthTypesStep, MeantStep, AnswersOwnStep DEF AuthInv
<1>2. CASE UNCHANGED avars
  <2>1. UNCHANGED <<auth, authEnds, apc, listed, call, text, answer, authFaults, meant>>
    BY <1>2 DEF avars
  <2>2. AuthTypes'
    BY <2>1 DEF AuthInv, AuthTypes
  <2>3. AuthCalls'
    BY <2>1 DEF AuthInv, AuthCalls, AuthCall
  <2>4. AuthMeant'
    <3>1. Writing' = Writing /\ AsMeant(auth)' = AsMeant(auth)
      BY <2>1 DEF Writing, AsMeant, Admits, Admitted
    <3>2. ASSUME NEW c \in Writing, Progress(c) PROVE Progress(c)'
      <4>1. Intended(c, meant.keys)' = Intended(c, meant.keys)
        BY <2>1 DEF Intended
      <4>2. /\ Admits(text[c], Intended(c, meant.keys), meant.lost)' = Admits(text[c], Intended(c, meant.keys), meant.lost)
            /\ Admits(auth, Intended(c, meant.keys), meant.lost)' = Admits(auth, Intended(c, meant.keys), meant.lost)
        BY <2>1, <4>1 DEF Admits, Admitted
      <4>3. Twice(auth, call[c].id)' = Twice(auth, call[c].id)
        BY <2>1 DEF Twice
      <4>4. QED
        BY <2>1, <3>1, <3>2, <4>1, <4>2, <4>3 DEF Progress
    <3>3. (meant = Void \/ meant = Meant(meant.keys, meant.lost))'
      BY <2>1 DEF AuthInv, AuthMeant, Void, Meant
    <3>4. QED
      BY <2>1, <3>1, <3>2, <3>3 DEF AuthInv, AuthMeant
  <2>5. AddAnswersOwn'
    BY <2>1 DEF AuthInv, AddAnswersOwn
  <2>6. QED
    BY <2>2, <2>3, <2>4, <2>5 DEF AuthInv
<1>3. QED
  BY <1>1, <1>2

\* The keys in authorized_keys: with every number of clients, whatever the file
\* contains at first, requests that do not overlap and whose line numbers are up
\* to date do to the keys that open the account what the clients meant, and a
\* client that adds a key is answered with it.  An Add to a file that does not end
\* with a newline may lose its own key and the one on the last line, and no other.
THEOREM AuthorizedIsSafe == Spec => []AuthorizedSafe
<1>1. Init => AuthInv
  BY AuthInitInv DEF Init
<1>2. AuthInv /\ [Next]_dirVars => AuthInv'
  <2>1. [Next]_dirVars => [AuthNext]_avars
    BY DEF Next, dirVars
  <2>2. QED
    BY <2>1, AuthStep
<1>3. AuthInv => AuthorizedSafe
  <2>1. ASSUME AuthInv PROVE AuthTypeOK
    <3>1. \A i \in DOMAIN auth : auth[i].k \in {"key", "note", "garbled"}
      BY <2>1, TextLines, LineKinds DEF AuthInv, AuthTypes
    <3>2. QED
      BY <2>1, <3>1 DEF AuthInv, AuthTypes, AuthTypeOK, Places
  <2>2. AuthInv => KeysAsMeant
    BY DEF AuthInv, AuthMeant, KeysAsMeant, AsMeant
  <2>3. QED
    BY <2>1, <2>2 DEF AuthInv, AuthorizedSafe
<1>4. QED
  BY <1>1, <1>2, <1>3, PTL DEF Spec

--------------------------------------------------------------------------------
\* The client config

\* A text of items.
IsConfig(s) == \E S : s \in Seq(S) /\ \A x \in S : IsItem(x)

\* t is a text of items that has no second block unless s has.
Keeps(s, t) == IsConfig(t) /\ (SingleBlock(s) => SingleBlock(t))

LEMMA ItemKinds ==
    /\ IsItem(Begin) /\ IsItem(End) /\ End # Begin
    /\ \A key, val, in : IsItem(Directive(key, val, in)) /\ Directive(key, val, in) # Begin
    /\ \A x : IsItem(x) /\ IsHeader(x) => x = Entry(x.k, x.pats, x.opts) /\ x.opts \in Options /\ x # Begin
    /\ \A x : IsItem(x) /\ x.k = "dir" => x = Directive(x.key, x.val, x.in) /\ x # Begin
    /\ \A k, p, o : (k \in {"host", "match"} /\ o \in Options) =>
          IsItem(Entry(k, p, o)) /\ Entry(k, p, o) # Begin /\ IsHeader(Entry(k, p, o))
<1>1. IsItem(Begin) /\ IsItem(End) /\ End # Begin
  BY DEF IsItem, Begin, End
<1>2. \A key, val, in : IsItem(Directive(key, val, in)) /\ Directive(key, val, in) # Begin
  BY DEF IsItem, Begin, Directive
<1>3. \A x : IsItem(x) /\ IsHeader(x) => x = Entry(x.k, x.pats, x.opts) /\ x.opts \in Options /\ x # Begin
  BY DEF IsItem, Begin, End, Directive, IsHeader
<1>4. \A x : IsItem(x) /\ x.k = "dir" => x = Directive(x.key, x.val, x.in) /\ x # Begin
  BY DEF IsItem, Begin, End, Directive, IsHeader
<1>5. \A k, p, o : (k \in {"host", "match"} /\ o \in Options) =>
        IsItem(Entry(k, p, o)) /\ Entry(k, p, o) # Begin /\ IsHeader(Entry(k, p, o))
  BY DEF IsItem, IsHeader, Begin, Entry
<1>6. QED
  BY <1>1, <1>2, <1>3, <1>4, <1>5

LEMMA ConfigItems ==
    ASSUME NEW s, IsConfig(s)
    PROVE  Len(s) \in Nat /\ DOMAIN s = 1..Len(s) /\ \A i \in DOMAIN s : IsItem(s[i])
<1>1. PICK S : s \in Seq(S) /\ \A x \in S : IsItem(x)
  BY DEF IsConfig
<1>2. QED
  BY <1>1, ElementOfSeq

\* A text from a function on 1..n.
LEMMA ConfigOf ==
    ASSUME NEW n \in Nat, NEW s, s = [i \in 1..n |-> s[i]], \A i \in 1..n : IsItem(s[i])
    PROVE  IsConfig(s) /\ Len(s) = n /\ DOMAIN s = 1..n
<1> DEFINE S == {s[i] : i \in 1..n}
<1>1. s \in [1..n -> S]
  OBVIOUS
<1>2. s \in Seq(S)
  BY <1>1, SeqDef
<1>3. \A x \in S : IsItem(x)
  OBVIOUS
<1>4. Len(s) = n /\ DOMAIN s = 1..n
  BY <1>1, <1>2, LenProperties
<1>5. QED
  BY <1>2, <1>3, <1>4 DEF IsConfig

LEMMA EmptyConfig == IsConfig(<<>>) /\ SingleBlock(<<>>)
<1>1. <<>> \in Seq({}) /\ DOMAIN <<>> = {}
  OBVIOUS
<1>2. QED
  BY <1>1 DEF IsConfig, SingleBlock

LEMMA KeptConfig ==
    ASSUME NEW s, IsConfig(s), NEW at
    PROVE  Keeps(s, KeptAt(s, at)) /\ \A i \in DOMAIN KeptAt(s, at) : \E j \in DOMAIN s \intersect at : KeptAt(s, at)[i] = s[j]
<1> DEFINE r == KeptAt(s, at)
<1>1. PICK S : s \in Seq(S) /\ \A x \in S : IsItem(x)
  BY DEF IsConfig
<1>2. r \in Seq(S) /\ \E g : Picked(g, r, s, at, Len(s))
  BY <1>1, KeptAtFacts
<1> HIDE DEF r
<1>3. IsConfig(r)
  BY <1>1, <1>2 DEF IsConfig
<1>4. PICK g : Picked(g, r, s, at, Len(s))
  BY <1>2
<1>5. Len(r) \in Nat /\ DOMAIN r = 1..Len(r) /\ DOMAIN s = 1..Len(s)
  BY <1>1, <1>2
<1>6. \A i \in DOMAIN r : g[i] \in DOMAIN s /\ g[i] \in at /\ r[i] = s[g[i]]
  BY <1>4, <1>5 DEF Picked
<1>7. ASSUME SingleBlock(s), NEW i \in DOMAIN r, NEW j \in DOMAIN r, r[i] = Begin, r[j] = Begin
      PROVE  i = j
  <2>1. g[i] = g[j]
    BY <1>6, <1>7 DEF SingleBlock
  <2>2. g \in Seq(Nat) /\ Len(g) = Len(r)
    BY <1>4 DEF Picked
  <2>3. g[i] \in Nat
    BY <1>5, <2>2
  <2>4. (i < j => g[i] < g[j]) /\ (j < i => g[j] < g[i])
    BY <1>4, <1>5 DEF Picked
  <2>5. i \in Nat /\ j \in Nat
    BY <1>5
  <2>6. QED
    BY <2>1, <2>3, <2>4, <2>5
<1>8. QED
  BY <1>3, <1>6, <1>7 DEF Keeps, SingleBlock, r

\* Items take the place of others, none of them the begin of a block.
LEMMA ChangedConfig ==
    ASSUME NEW s, IsConfig(s), NEW t, t = [i \in DOMAIN s |-> t[i]],
           \A i \in DOMAIN s : t[i] = s[i] \/ (IsItem(t[i]) /\ t[i] # Begin)
    PROVE  Keeps(s, t) /\ DOMAIN t = DOMAIN s
<1>1. Len(s) \in Nat /\ DOMAIN s = 1..Len(s) /\ \A i \in DOMAIN s : IsItem(s[i])
  BY ConfigItems
<1>2. \A i \in 1..Len(s) : IsItem(t[i])
  BY <1>1
<1>3. IsConfig(t) /\ DOMAIN t = 1..Len(s)
  BY <1>1, <1>2, ConfigOf
<1>4. SingleBlock(s) => SingleBlock(t)
  BY <1>1, <1>3 DEF SingleBlock
<1>5. QED
  BY <1>1, <1>3, <1>4 DEF Keeps

\* One text after another, one of them without a block.
LEMMA JoinedConfig ==
    ASSUME NEW s, IsConfig(s), NEW t, IsConfig(t)
    PROVE  /\ IsConfig(s \o t)
           /\ (SingleBlock(s) /\ \A i \in DOMAIN t : t[i] # Begin) => SingleBlock(s \o t)
           /\ (SingleBlock(t) /\ \A i \in DOMAIN s : s[i] # Begin) => SingleBlock(s \o t)
<1> DEFINE r == s \o t
<1>1. PICK S : s \in Seq(S) /\ \A x \in S : IsItem(x)
  BY DEF IsConfig
<1>2. PICK T : t \in Seq(T) /\ \A x \in T : IsItem(x)
  BY DEF IsConfig
<1>3. s \in Seq(S \union T) /\ t \in Seq(S \union T) /\ \A x \in S \union T : IsItem(x)
  BY <1>1, <1>2
<1>4. r \in Seq(S \union T)
  BY <1>3
<1>5. IsConfig(r)
  BY <1>3, <1>4 DEF IsConfig
<1>6. /\ Len(s) \in Nat /\ Len(t) \in Nat /\ DOMAIN s = 1..Len(s) /\ DOMAIN t = 1..Len(t)
      /\ DOMAIN r = 1..Len(s) + Len(t)
      /\ \A i \in 1..Len(s) + Len(t) : r[i] = IF i <= Len(s) THEN s[i] ELSE t[i - Len(s)]
  BY <1>3
<1> HIDE DEF r
<1>7. \A i \in DOMAIN r : \/ i \in DOMAIN s /\ r[i] = s[i]
                          \/ i - Len(s) \in DOMAIN t /\ r[i] = t[i - Len(s)] /\ i \in Nat
  BY <1>6
<1>8. ASSUME SingleBlock(s), \A i \in DOMAIN t : t[i] # Begin PROVE SingleBlock(r)
  BY <1>7, <1>8 DEF SingleBlock
<1>9. ASSUME SingleBlock(t), \A i \in DOMAIN s : s[i] # Begin PROVE SingleBlock(r)
  <2>1. ASSUME NEW i \in DOMAIN r, NEW j \in DOMAIN r, r[i] = Begin, r[j] = Begin PROVE i = j
    <3>1. /\ i - Len(s) \in DOMAIN t /\ t[i - Len(s)] = Begin /\ i \in Nat
          /\ j - Len(s) \in DOMAIN t /\ t[j - Len(s)] = Begin /\ j \in Nat
      BY <1>7, <1>9, <2>1
    <3>2. i - Len(s) = j - Len(s)
      BY <1>9, <3>1 DEF SingleBlock
    <3>3. QED
      BY <1>6, <3>1, <3>2
  <2>2. QED
    BY <2>1 DEF SingleBlock
<1>10. QED
  BY <1>5, <1>8, <1>9 DEF r

LEMMA AppendedConfig ==
    ASSUME NEW s, IsConfig(s), NEW x, IsItem(x), x # Begin
    PROVE  Keeps(s, Append(s, x))
<1>1. Append(s, x) = s \o <<x>> /\ DOMAIN <<x>> = {1} /\ <<x>>[1] = x
  BY DEF IsConfig
<1>2. IsConfig(<<x>>)
  <2>1. <<x>> \in Seq({x}) /\ \A y \in {x} : IsItem(y)
    OBVIOUS
  <2>2. QED
    BY <2>1 DEF IsConfig
<1>3. \A i \in DOMAIN <<x>> : <<x>>[i] # Begin
  BY <1>1
<1>4. IsConfig(s \o <<x>>) /\ (SingleBlock(s) => SingleBlock(s \o <<x>>))
  BY <1>2, <1>3, JoinedConfig
<1>5. QED
  BY <1>1, <1>4 DEF Keeps

\* A part of a text.
LEMMA CutConfig ==
    ASSUME NEW s, IsConfig(s), NEW a \in Nat \ {0}, NEW b \in Nat, b <= Len(s)
    PROVE  /\ Keeps(s, SubSeq(s, a, b))
           /\ \A i \in DOMAIN SubSeq(s, a, b) : a + i - 1 \in a..b /\ SubSeq(s, a, b)[i] = s[a + i - 1]
<1> DEFINE r == SubSeq(s, a, b)
<1>1. PICK S : s \in Seq(S) /\ \A x \in S : IsItem(x)
  BY DEF IsConfig
<1>2. Len(s) \in Nat /\ DOMAIN s = 1..Len(s)
  BY <1>1
<1>3. r \in Seq(S)
  BY <1>1, <1>2
<1>4. \A i \in DOMAIN r : i \in Nat /\ a + i - 1 \in DOMAIN s /\ a + i - 1 \in a..b /\ r[i] = s[a + i - 1]
  <2>1. Len(r) = IF a <= b THEN b - a + 1 ELSE 0
    BY <1>1, <1>2
  <2>2. DOMAIN r = 1..Len(r)
    BY <1>3
  <2>3. \A i \in 1..Len(r) : r[i] = s[a + i - 1]
    BY <1>1, <1>2, <2>1
  <2>4. QED
    BY <1>2, <2>1, <2>2, <2>3
<1> HIDE DEF r
<1>5. SingleBlock(s) => SingleBlock(r)
  <2>1. ASSUME SingleBlock(s), NEW i \in DOMAIN r, NEW j \in DOMAIN r, r[i] = Begin, r[j] = Begin
        PROVE  i = j
    <3>1. a + i - 1 = a + j - 1
      BY <1>4, <2>1 DEF SingleBlock
    <3>2. i \in Nat /\ j \in Nat
      BY <1>4
    <3>3. QED
      BY <3>1, <3>2
  <2>2. QED
    BY <2>1 DEF SingleBlock
<1>6. IsConfig(r)
  BY <1>1, <1>3 DEF IsConfig
<1>7. QED
  BY <1>4, <1>5, <1>6 DEF Keeps, r

LEMMA KeepsTwice == \A s, t, u : Keeps(s, t) /\ Keeps(t, u) => Keeps(s, u)
  BY DEF Keeps

LEMMA DeletedConfig == ASSUME NEW s, IsConfig(s), NEW id PROVE Keeps(s, DeleteBlock(s, id))
<1>1. DeleteBlock(s, id) = s \/ \E at : DeleteBlock(s, id) = KeptAt(s, at)
  BY DEF DeleteBlock
<1>2. Keeps(s, s)
  BY DEF Keeps
<1>3. QED
  BY <1>1, <1>2, KeptConfig

LEMMA PatchedConfig ==
    ASSUME NEW s, IsConfig(s), NEW e, IsItem(e), e # Begin
    PROVE  Keeps(s, Patch(s, e))
<1> DEFINE h == HeaderAt(s, ID(e))
           t == [s EXCEPT ![h] = e]
<1>1. Patch(s, e) = Append(s, e) \/ \E at : Patch(s, e) = KeptAt(t, at)
  BY DEF Patch
<1> HIDE DEF h
<1>2. Keeps(s, t)
  <2>1. s = [i \in DOMAIN s |-> s[i]]
    BY DEF IsConfig
  <2>2. t = [i \in DOMAIN s |-> IF i = h THEN e ELSE s[i]]
    BY <2>1
  <2> HIDE DEF t
  <2>3. t = [i \in DOMAIN s |-> t[i]] /\ \A i \in DOMAIN s : t[i] = s[i] \/ (IsItem(t[i]) /\ t[i] # Begin)
    BY <2>2
  <2>4. QED
    BY <2>3, ChangedConfig
<1> HIDE DEF t
<1>3. \A at : Keeps(s, KeptAt(t, at))
  BY <1>2, KeptConfig, KeepsTwice DEF Keeps
<1>4. QED
  BY <1>1, <1>3, AppendedConfig

LEMMA IndentedConfig ==
    ASSUME NEW s, IsConfig(s)
    PROVE  /\ Keeps(s, Indented(s)) /\ DOMAIN Indented(s) = DOMAIN s
           /\ \A i \in DOMAIN s : Indented(s)[i].k = s[i].k
<1> DEFINE t == Indented(s)
           Child(i) == Directive(s[i].key, s[i].val, TRUE)
<1>1. t = [i \in DOMAIN s |-> IF IsChild(s, i) THEN Child(i) ELSE s[i]]
  BY DEF Indented
<1>2. \A i : IsItem(Child(i)) /\ Child(i) # Begin
  BY ItemKinds
<1>3. \A i : IsChild(s, i) => Child(i).k = s[i].k
  BY DEF IsChild, Directive
<1> HIDE DEF t, Child
<1>4. \A i \in DOMAIN s : t[i].k = s[i].k /\ (t[i] = s[i] \/ (IsItem(t[i]) /\ t[i] # Begin))
  BY <1>1, <1>2, <1>3
<1>5. t = [i \in DOMAIN s |-> t[i]]
  BY <1>1
<1>6. Keeps(s, t) /\ DOMAIN t = DOMAIN s
  BY <1>4, <1>5, ChangedConfig
<1>7. QED
  BY <1>4, <1>6 DEF t

LEMMA InsertedConfig ==
    ASSUME NEW s, IsConfig(s), NEW b \in DOMAIN s, NEW x, IsItem(x), x # Begin
    PROVE  Keeps(s, InsertAt(s, b, x))
<1> DEFINE r == InsertAt(s, b, x)
           n == Len(s)
<1>1. PICK S : s \in Seq(S) /\ \A y \in S : IsItem(y)
  BY DEF IsConfig
<1>2. n \in Nat /\ DOMAIN s = 1..n /\ b \in 1..n /\ \A i \in 1..n : IsItem(s[i])
  BY <1>1
<1>3. r \in Seq(S \union {x})
  <2>1. s \in Seq(S \union {x}) /\ <<x>> \in Seq(S \union {x})
    BY <1>1
  <2>2. SubSeq(s, 1, b - 1) \in Seq(S \union {x}) /\ SubSeq(s, b, n) \in Seq(S \union {x})
    BY <1>2, <2>1
  <2>3. QED
    BY <2>1, <2>2 DEF InsertAt
<1>4. /\ Len(r) = n + 1
      /\ \A i \in 1..n + 1 : r[i] = IF i < b THEN s[i] ELSE IF i = b THEN x ELSE s[i - 1]
  <2> DEFINE u == SubSeq(s, 1, b - 1)
             v == SubSeq(s, b, n)
  <2>1. u \in Seq(S) /\ Len(u) = b - 1 /\ \A i \in 1..b-1 : u[i] = s[i]
    BY <1>1, <1>2
  <2>2. v \in Seq(S) /\ Len(v) = n - b + 1 /\ \A i \in 1..n-b+1 : v[i] = s[b + i - 1]
    BY <1>1, <1>2
  <2>3. r = u \o <<x>> \o v
    BY DEF InsertAt
  <2> HIDE DEF u, v
  <2> DEFINE w == u \o <<x>>
  <2>4. /\ w \in Seq(S \union {x}) /\ Len(w) = b
        /\ \A i \in 1..b : w[i] = IF i < b THEN u[i] ELSE x
    <3>1. u \in Seq(S \union {x}) /\ x \in S \union {x} /\ w = Append(u, x)
      BY <2>1
    <3>2. /\ Append(u, x) \in Seq(S \union {x}) /\ Len(Append(u, x)) = Len(u) + 1
          /\ Append(u, x)[Len(u) + 1] = x
          /\ \A i \in 1..Len(u) : Append(u, x)[i] = u[i]
      BY <3>1, AppendProperties
    <3>3. b \in Nat /\ Len(u) + 1 = b
      BY <1>2, <2>1
    <3>4. \A i \in 1..b : (i < b => i \in 1..Len(u)) /\ (~(i < b) => i = b)
      BY <2>1, <3>3
    <3>5. QED
      BY <3>1, <3>2, <3>3, <3>4
  <2>5. r = w \o v /\ v \in Seq(S \union {x})
    BY <2>2, <2>3
  <2> HIDE DEF w, r
  <2>6. Len(r) = n + 1 /\ \A i \in 1..n + 1 : r[i] = IF i <= b THEN w[i] ELSE v[i - b]
    <3>1. /\ Len(w \o v) = Len(w) + Len(v)
          /\ \A i \in 1..Len(w) + Len(v) : (w \o v)[i] = IF i <= Len(w) THEN w[i] ELSE v[i - Len(w)]
      BY <2>4, <2>5, ConcatProperties
    <3>2. Len(w) = b /\ Len(w) + Len(v) = n + 1
      BY <1>2, <2>2, <2>4
    <3>3. QED
      BY <2>5, <3>1, <3>2
  <2>7. ASSUME NEW i \in 1..n + 1
        PROVE  r[i] = IF i < b THEN s[i] ELSE IF i = b THEN x ELSE s[i - 1]
    <3>1. CASE i < b
      BY <1>2, <2>1, <2>4, <2>6, <3>1
    <3>2. CASE i = b
      BY <1>2, <2>4, <2>6, <3>2
    <3>3. CASE i > b
      <4>1. i - b \in 1..n-b+1 /\ b + (i - b) - 1 = i - 1 /\ ~(i <= b) /\ ~(i < b) /\ i # b
        BY <1>2, <3>3
      <4>2. r[i] = v[i - b] /\ v[i - b] = s[b + (i - b) - 1]
        BY <2>2, <2>6, <4>1
      <4>3. QED
        BY <4>1, <4>2
    <3>4. QED
      BY <1>2, <3>1, <3>2, <3>3
  <2>8. QED
    BY <2>6, <2>7
<1> HIDE DEF r, n
<1>5. IsConfig(r)
  <2>1. \A y \in S \union {x} : IsItem(y)
    BY <1>1
  <2>2. QED
    BY <1>3, <2>1 DEF IsConfig
<1>6. DOMAIN r = 1..n + 1
  BY <1>3, <1>4
<1>7. ASSUME NEW i \in DOMAIN r, r[i] = Begin
      PROVE  \/ i < b /\ i \in DOMAIN s /\ s[i] = Begin
             \/ i > b /\ i - 1 \in DOMAIN s /\ s[i - 1] = Begin
  BY <1>2, <1>4, <1>6, <1>7
<1>8. ASSUME SingleBlock(s), NEW i \in DOMAIN r, NEW j \in DOMAIN r, r[i] = Begin, r[j] = Begin
      PROVE  i = j
  <2>1. i \in Nat /\ j \in Nat /\ b \in Nat
    BY <1>2, <1>6
  <2>2. CASE i < b /\ j < b
    BY <1>7, <1>8, <2>1, <2>2 DEF SingleBlock
  <2>3. CASE i > b /\ j > b
    <3>1. i - 1 = j - 1
      BY <1>7, <1>8, <2>1, <2>3 DEF SingleBlock
    <3>2. QED
      BY <2>1, <3>1
  <2>4. CASE i < b /\ j > b
    <3>1. i = j - 1
      BY <1>7, <1>8, <2>1, <2>4 DEF SingleBlock
    <3>2. QED
      BY <2>1, <2>4, <3>1
  <2>5. CASE i > b /\ j < b
    <3>1. i - 1 = j
      BY <1>7, <1>8, <2>1, <2>5 DEF SingleBlock
    <3>2. QED
      BY <2>1, <2>5, <3>1
  <2>6. QED
    BY <1>7, <1>8, <2>1, <2>2, <2>3, <2>4, <2>5
<1>9. QED
  BY <1>5, <1>8 DEF Keeps, SingleBlock, r

LEMMA MinIn ==
    ASSUME NEW S \in SUBSET Nat, S # {}
    PROVE  Min(S) \in S /\ \A n \in S : Min(S) <= n
<1>1. \E m \in S : \A n \in S : m <= n
  BY NatMin
<1>2. QED
  BY <1>1 DEF Min

LEMMA GlobalConfig ==
    ASSUME NEW s, IsConfig(s), NEW key, NEW val
    PROVE  Keeps(s, SetGlobal(s, key, val)) /\ Keeps(s, DeleteGlobal(s, key))
<1> DEFINE line == Directive(key, val, FALSE)
           t == Indented(s)
           b == SelectInSeq(s, LAMBDA x : x = Begin)
           hits == TopLevelHits(s, key)
           u == [i \in DOMAIN t |-> IF i \in hits THEN line ELSE t[i]]
<1>1. IsItem(line) /\ line # Begin
  BY ItemKinds
<1>2. Keeps(s, t) /\ DOMAIN t = DOMAIN s
  BY IndentedConfig
<1>3. \A at : Keeps(s, KeptAt(t, at))
  BY <1>2, KeptConfig, KeepsTwice DEF Keeps
<1>4. Keeps(s, DeleteGlobal(s, key))
  BY <1>3 DEF DeleteGlobal
<1>5. b # 0 => b \in DOMAIN s
  <2> DEFINE I == {i \in 1..Len(s) : s[i] = Begin}
  <2>1. b = IF I # {} THEN Min(I) ELSE 0
    BY DEF SelectInSeq
  <2>2. I \in SUBSET Nat /\ DOMAIN s = 1..Len(s)
    BY ConfigItems
  <2>3. I # {} => Min(I) \in I
    BY <2>2, MinIn
  <2>4. QED
    BY <2>1, <2>2, <2>3
<1>6. \/ b # 0 /\ SetGlobal(s, key, val) = InsertAt(u, b, line)
      \/ SetGlobal(s, key, val) = u
      \/ SetGlobal(s, key, val) = Append(t, line)
  BY DEF SetGlobal
<1> HIDE DEF line, t, b, hits
<1>7. Keeps(t, u) /\ DOMAIN u = DOMAIN t
  <2> HIDE DEF u
  <2>1. u = [i \in DOMAIN t |-> u[i]] /\ \A i \in DOMAIN t : u[i] = t[i] \/ (IsItem(u[i]) /\ u[i] # Begin)
    BY <1>1 DEF u
  <2>2. QED
    BY <1>2, <2>1, ChangedConfig DEF Keeps
<1> HIDE DEF u
<1>8. CASE b # 0 /\ SetGlobal(s, key, val) = InsertAt(u, b, line)
  <2>1. Keeps(u, InsertAt(u, b, line))
    BY <1>1, <1>2, <1>5, <1>7, <1>8, InsertedConfig DEF Keeps
  <2>2. QED
    BY <1>2, <1>4, <1>7, <1>8, <2>1, KeepsTwice
<1>9. CASE SetGlobal(s, key, val) = u
  BY <1>2, <1>4, <1>7, <1>9, KeepsTwice
<1>10. CASE SetGlobal(s, key, val) = Append(t, line)
  <2>1. Keeps(t, Append(t, line))
    BY <1>1, <1>2, AppendedConfig DEF Keeps
  <2>2. QED
    BY <1>2, <1>4, <1>10, <2>1, KeepsTwice
<1>11. QED
  BY <1>6, <1>8, <1>9, <1>10

\* f is FlattenSeq's recursive function up to n.
FlatUpTo(f, n, q) == f = [i \in 1..n |-> IF i = 1 THEN q[i] ELSE f[i - 1] \o q[i]]

LEMMA FlattenIsFound ==
    ASSUME NEW q, Len(q) \in Nat, Len(q) # 0
    PROVE  \E f : FlatUpTo(f, Len(q), q) /\ FlattenSeq(q) = f[Len(q)]
<1> DEFINE S == {n \in Nat : \E f : FlatUpTo(f, n, q)}
<1>1. 0 \in S
  <2>1. FlatUpTo([i \in 1..0 |-> <<>>], 0, q)
    BY DEF FlatUpTo
  <2>2. QED
    BY <2>1
<1>2. ASSUME NEW n \in Nat, n \in S
      PROVE  n + 1 \in S
  <2>1. PICK f : FlatUpTo(f, n, q)
    BY <1>2
  <2> DEFINE last == IF n + 1 = 1 THEN q[n + 1] ELSE f[n] \o q[n + 1]
             g == [i \in 1..n+1 |-> IF i = n + 1 THEN last ELSE f[i]]
  <2>2. \A i \in 1..n+1 : i = n + 1 \/ (i \in 1..n /\ i # n + 1)
    OBVIOUS
  <2>3. g[n + 1] = last /\ n + 1 - 1 = n /\ (n # 0 => g[n] = f[n])
    OBVIOUS
  <2>4. ASSUME NEW i \in 1..n
        PROVE  g[i] = IF i = 1 THEN q[i] ELSE g[i - 1] \o q[i]
    <3>1. g[i] = f[i] /\ (i # 1 => g[i - 1] = f[i - 1])
      BY <2>4
    <3>2. f[i] = IF i = 1 THEN q[i] ELSE f[i - 1] \o q[i]
      BY <2>1 DEF FlatUpTo
    <3> HIDE DEF g
    <3>3. QED
      BY <3>1, <3>2
  <2>5. g = [i \in 1..n+1 |-> g[i]]
    OBVIOUS
  <2> HIDE DEF g
  <2>6. ASSUME NEW i \in 1..n+1
        PROVE  g[i] = IF i = 1 THEN q[i] ELSE g[i - 1] \o q[i]
    <3>1. CASE i = n + 1
      <4>1. g[i] = last /\ (i # 1 => g[i - 1] = f[n])
        BY <2>3, <3>1
      <4>2. QED
        BY <3>1, <4>1
    <3>2. CASE i \in 1..n
      BY <2>4, <3>2
    <3>3. QED
      BY <2>2, <3>1, <3>2
  <2>7. FlatUpTo(g, n + 1, q)
    BY <2>5, <2>6 DEF FlatUpTo
  <2>8. QED
    BY <2>7
<1>3. \E f : FlatUpTo(f, Len(q), q)
  <2> HIDE DEF S
  <2>1. \A n \in 0..Len(q) : n \in S
    BY <1>1, <1>2, UpToBound
  <2>2. Len(q) \in S
    BY <2>1
  <2>3. QED
    BY <2>2 DEF S
<1> DEFINE f == CHOOSE f : FlatUpTo(f, Len(q), q)
<1>4. FlatUpTo(f, Len(q), q)
  BY <1>3
<1>5. FlattenSeq(q) = f[Len(q)]
  BY DEF FlattenSeq, FlatUpTo
<1>6. QED
  BY <1>4, <1>5

LEMMA FlattenIsText ==
    ASSUME NEW T, NEW q \in Seq(Seq(T))
    PROVE  FlattenSeq(q) \in Seq(T)
<1>1. Len(q) \in Nat /\ \A i \in 1..Len(q) : q[i] \in Seq(T)
  BY ElementOfSeq
<1>2. CASE Len(q) = 0
  <2>1. FlattenSeq(q) = q
    BY <1>2 DEF FlattenSeq
  <2>2. q = <<>>
    BY <1>2, EmptySeq
  <2>3. <<>> \in Seq(T)
    OBVIOUS
  <2>4. QED
    BY <2>1, <2>2, <2>3
<1>3. CASE Len(q) # 0
  <2>1. PICK f : FlatUpTo(f, Len(q), q) /\ FlattenSeq(q) = f[Len(q)]
    BY <1>1, <1>3, FlattenIsFound
  <2> DEFINE Joined(i) == IF i = 1 THEN q[i] ELSE f[i - 1] \o q[i]
  <2>2. \A i \in 1..Len(q) : f[i] = Joined(i)
    <3>1. f = [i \in 1..Len(q) |-> Joined(i)]
      BY <2>1 DEF FlatUpTo
    <3> HIDE DEF Joined
    <3>2. QED
      BY <3>1
  <2> DEFINE S == {n \in 0..Len(q) : n = 0 \/ f[n] \in Seq(T)}
  <2>3. 0 \in S
    BY <1>1
  <2>4. ASSUME NEW n \in Nat, n < Len(q), n \in S
        PROVE  n + 1 \in S
    <3>1. n + 1 \in 1..Len(q) /\ n + 1 \in 0..Len(q) /\ n + 1 - 1 = n /\ q[n + 1] \in Seq(T)
      BY <1>1, <2>4
    <3>2. f[n + 1] = IF n = 0 THEN q[n + 1] ELSE f[n] \o q[n + 1]
      <4>1. f[n + 1] = Joined(n + 1)
        <5> HIDE DEF Joined
        <5>1. QED
          BY <2>2, <3>1
      <4>2. n + 1 = 1 <=> n = 0
        OBVIOUS
      <4>3. QED
        BY <3>1, <4>1, <4>2
    <3>3. n # 0 => f[n] \in Seq(T)
      BY <2>4
    <3>4. f[n + 1] \in Seq(T)
      BY <3>1, <3>2, <3>3
    <3>5. QED
      BY <3>1, <3>4
  <2>5. Len(q) \in S
    <3> HIDE DEF S
    <3>1. \A n \in 0..Len(q) : n \in S
      BY <1>1, <2>3, <2>4, UpToBound
    <3>2. QED
      BY <1>1, <3>1
  <2>6. QED
    BY <1>3, <2>1, <2>5
<1>4. QED
  BY <1>2, <1>3

\* Texts without a block make a text without one.
LEMMA FlatConfig ==
    ASSUME NEW n \in Nat, NEW q, q = [i \in 1..n |-> q[i]],
           \A i \in 1..n : IsConfig(q[i]) /\ \A j \in DOMAIN q[i] : q[i][j] # Begin
    PROVE  IsConfig(FlattenSeq(q)) /\ \A j \in DOMAIN FlattenSeq(q) : FlattenSeq(q)[j] # Begin
<1> DEFINE T == UNION {ToSet(q[i]) : i \in 1..n}
           r == FlattenSeq(q)
<1>1. \A x \in T : IsItem(x) /\ x # Begin
  BY ConfigItems DEF ToSet
<1>2. ASSUME NEW i \in 1..n
      PROVE  q[i] \in Seq(T)
  <2>1. PICK S : q[i] \in Seq(S) /\ \A x \in S : IsItem(x)
    BY DEF IsConfig
  <2>2. \A j \in 1..Len(q[i]) : q[i][j] \in T
    BY <2>1 DEF ToSet
  <2>3. q[i] \in [1..Len(q[i]) -> T] /\ Len(q[i]) \in Nat
    BY <2>1, <2>2
  <2> HIDE DEF T
  <2>4. QED
    BY <2>3, SeqDef
<1> HIDE DEF T
<1>3. q \in Seq(Seq(T))
  <2>1. q \in [1..n -> Seq(T)]
    BY <1>2
  <2>2. QED
    BY <2>1, SeqDef
<1>4. r \in Seq(T)
  BY <1>3, FlattenIsText
<1>5. \A j \in DOMAIN r : r[j] \in T
  BY <1>4, ElementOfSeq
<1>6. QED
  BY <1>1, <1>4, <1>5 DEF IsConfig

LEMMA HeaderFound ==
    ASSUME NEW s, IsConfig(s), NEW id \in EntryIDs(s)
    PROVE  HeaderAt(s, id) \in DOMAIN s /\ IsHeader(s[HeaderAt(s, id)]) /\ ID(s[HeaderAt(s, id)]) = id
<1> DEFINE I == {i \in 1..Len(s) : IsHeader(s[i]) /\ ID(s[i]) = id}
<1>1. HeaderAt(s, id) = IF I # {} THEN Min(I) ELSE 0
  BY DEF HeaderAt, SelectInSeq
<1>2. I \in SUBSET Nat /\ DOMAIN s = 1..Len(s)
  BY ConfigItems
<1>3. I # {}
  BY <1>2 DEF EntryIDs, Headers
<1>4. Min(I) \in I
  BY <1>2, <1>3, MinIn
<1>5. QED
  BY <1>1, <1>2, <1>3, <1>4

\* The options that come out of the code are options.
LEMMA OptionsStay ==
    ASSUME NEW o \in Options
    PROVE  ExtractOptions(o) \in Options /\ [o EXCEPT !.port = IF @ = 22 THEN 0 ELSE @] \in Options
<1>1. ExtractOptions(o) \in Options
  BY DEF Options, ExtractOptions
<1>2. [o EXCEPT !.port = IF @ = 22 THEN 0 ELSE @] \in Options
  BY DEF Options
<1>3. QED
  BY <1>1, <1>2

LEMMA BuiltEntry ==
    ASSUME NEW e, e.k \in {"host", "match"}, e.opts \in Options
    PROVE  IsItem(BuildEntryBlock(e)) /\ BuildEntryBlock(e) # Begin
  BY OptionsStay, ItemKinds DEF BuildEntryBlock

LEMMA ReorderedConfig ==
    ASSUME NEW s, IsConfig(s), NEW n \in Nat, NEW ids, ids = [i \in 1..n |-> ids[i]],
           \A i \in 1..n : ids[i] \in EntryIDs(s)
    PROVE  Keeps(s, Reordered(s, ids))
<1> DEFINE first == SelectInSeq(s, IsHeader)
           preamble == IF first = 0 THEN s ELSE SubSeq(s, 1, first - 1)
           Block1(i) == <<BuildEntryBlock(GetEntry(s, ids[i]))>> \o ExtraOptions(s, HeaderAt(s, ids[i]))
           q == [i \in DOMAIN ids |-> Block1(i)]
<1>1. Reordered(s, ids) = Kept(preamble, {Begin, End}) \o FlattenSeq(q)
  BY DEF Reordered
<1>2. Keeps(s, preamble)
  <2> DEFINE I == {i \in 1..Len(s) : IsHeader(s[i])}
  <2>1. first = IF I # {} THEN Min(I) ELSE 0
    BY DEF SelectInSeq
  <2>2. I \in SUBSET Nat /\ Len(s) \in Nat
    BY ConfigItems
  <2>3. first # 0 => first \in 1..Len(s)
    BY <2>1, <2>2, MinIn
  <2> HIDE DEF first
  <2>4. first # 0 => Keeps(s, SubSeq(s, 1, first - 1))
    <3>1. first # 0 => first - 1 \in Nat /\ first - 1 <= Len(s)
      BY <2>2, <2>3
    <3>2. 1 \in Nat \ {0}
      OBVIOUS
    <3>3. QED
      BY <3>1, <3>2, CutConfig
  <2>5. Keeps(s, s)
    BY DEF Keeps
  <2>6. QED
    BY <2>4, <2>5
<1> HIDE DEF preamble
<1>3. Keeps(s, Kept(preamble, {Begin, End}))
  BY <1>2, KeptConfig, KeepsTwice DEF Keeps, Kept
<1>4. ASSUME NEW i \in 1..n
      PROVE  IsConfig(Block1(i)) /\ \A j \in DOMAIN Block1(i) : Block1(i)[j] # Begin
  <2> DEFINE e == BuildEntryBlock(GetEntry(s, ids[i]))
             h == HeaderAt(s, ids[i])
             x == ExtraOptions(s, h)
  <2>1. h \in DOMAIN s /\ IsHeader(s[h])
    BY <1>4, HeaderFound
  <2>2. s[h].k \in {"host", "match"} /\ s[h].opts \in Options
    BY <2>1, ConfigItems, ItemKinds DEF IsHeader
  <2>3. IsItem(e) /\ e # Begin
    <3>1. GetEntry(s, ids[i]) = Entry(s[h].k, s[h].pats, ExtractOptions(s[h].opts))
      BY DEF GetEntry, AsListed
    <3>2. /\ GetEntry(s, ids[i]).k = s[h].k
          /\ GetEntry(s, ids[i]).opts = ExtractOptions(s[h].opts)
      BY <3>1 DEF Entry
    <3> HIDE DEF h
    <3>3. GetEntry(s, ids[i]).k \in {"host", "match"} /\ GetEntry(s, ids[i]).opts \in Options
      BY <2>2, <3>2, OptionsStay
    <3>4. QED
      BY <3>3, BuiltEntry
  <2>4. IsConfig(x) /\ \A j \in DOMAIN x : x[j] # Begin
    <3> DEFINE children == {j \in DOMAIN s : IsChild(s, j) /\ Owner(s, j) = h}
               at == {j \in children : \A k \in children : k > j => s[k].key # s[j].key}
    <3>1. x = KeptAt(Indented(s), at)
      BY DEF ExtraOptions
    <3>2. \A j \in at : j \in DOMAIN s /\ s[j].k = "dir"
      BY DEF IsChild
    <3> HIDE DEF at, x
    <3>3. IsConfig(Indented(s)) /\ DOMAIN Indented(s) = DOMAIN s /\ \A j \in DOMAIN s : Indented(s)[j].k = s[j].k
      BY IndentedConfig DEF Keeps
    <3>4. IsConfig(x) /\ \A j \in DOMAIN x : \E k \in at : x[j] = Indented(s)[k]
      BY <3>1, <3>3, KeptConfig DEF Keeps
    <3>5. \A k \in at : Indented(s)[k] # Begin
      BY <3>2, <3>3, ConfigItems, ItemKinds
    <3>6. QED
      BY <3>4, <3>5
  <2> HIDE DEF e, x
  <2>5. Block1(i) = <<e>> \o x
    BY DEF e, x
  <2>6. IsConfig(<<e>>) /\ DOMAIN <<e>> = {1} /\ <<e>>[1] = e
    <3>1. <<e>> \in Seq({e}) /\ \A y \in {e} : IsItem(y)
      BY <2>3
    <3>2. IsConfig(<<e>>)
      BY <3>1 DEF IsConfig
    <3>3. DOMAIN <<e>> = {1} /\ <<e>>[1] = e
      OBVIOUS
    <3>4. QED
      BY <3>2, <3>3
  <2>7. IsConfig(<<e>> \o x)
    BY <2>4, <2>6, JoinedConfig
  <2>8. \A j \in DOMAIN (<<e>> \o x) : (<<e>> \o x)[j] # Begin
    BY <2>3, <2>4, <2>6, <2>7
  <2>9. QED
    BY <2>5, <2>7, <2>8
<1> HIDE DEF Block1
<1>5. q = [i \in 1..n |-> q[i]] /\ \A i \in 1..n : q[i] = Block1(i)
  BY DEF q
<1> HIDE DEF q
<1>6. IsConfig(FlattenSeq(q)) /\ \A j \in DOMAIN FlattenSeq(q) : FlattenSeq(q)[j] # Begin
  BY <1>4, <1>5, FlatConfig
<1>7. QED
  BY <1>1, <1>3, <1>6, JoinedConfig DEF Keeps

LEMMA UnmanagedConfig ==
    ASSUME NEW s, IsConfig(s)
    PROVE  Keeps(s, RemoveManagedBlock(s)) /\ \A i \in DOMAIN RemoveManagedBlock(s) : RemoveManagedBlock(s)[i] # Begin
<1> DEFINE at == {i \in DOMAIN s :
                    /\ s[i] \notin {Begin, End}
                    /\ SelectLastInSubSeq(s, 1, i, LAMBDA x : x = Begin)
                          <= SelectLastInSubSeq(s, 1, i, LAMBDA x : x = End)}
<1>1. RemoveManagedBlock(s) = KeptAt(s, at)
  BY DEF RemoveManagedBlock
<1>2. \A i \in at : s[i] # Begin
  OBVIOUS
<1> HIDE DEF at
<1>3. QED
  BY <1>1, <1>2, KeptConfig

\* Enable puts a block before the file, and the file had none.
LEMMA ManagedConfig ==
    ASSUME NEW s, IsConfig(s)
    PROVE  /\ IsConfig(ManagedBlock \o s)
           /\ (\A i \in DOMAIN s : s[i] # Begin) => SingleBlock(ManagedBlock \o s)
<1> DEFINE e == Entry("host", Star, [Plain EXCEPT !.fwd = 1])
<1>1. ManagedBlock = <<Begin, e, End>>
  BY DEF ManagedBlock
<1>2. IsItem(e) /\ e # Begin
  <2>1. Plain \in Options
    BY DEF Plain, Options
  <2>2. \A o \in Options : [o EXCEPT !.fwd = 1] \in Options
    BY DEF Options
  <2>3. [Plain EXCEPT !.fwd = 1] \in Options
    BY <2>1, <2>2
  <2>4. QED
    BY <2>3, ItemKinds
<1> HIDE DEF e
<1>3. <<Begin, e, End>> \in Seq({Begin, e, End}) /\ \A x \in {Begin, e, End} : IsItem(x)
  BY <1>2, ItemKinds
<1>4. IsConfig(ManagedBlock)
  BY <1>1, <1>3 DEF IsConfig
<1>5. SingleBlock(ManagedBlock)
  <2>1. DOMAIN ManagedBlock = 1..3 /\ ManagedBlock[2] = e /\ ManagedBlock[3] = End
    BY <1>1
  <2>2. \A i \in DOMAIN ManagedBlock : ManagedBlock[i] = Begin => i = 1
    BY <1>2, <2>1, ItemKinds
  <2>3. QED
    BY <2>2 DEF SingleBlock
<1>6. QED
  BY <1>4, <1>5, JoinedConfig

Points == {"new", "read", "edit", "backup", "open", "write", "answer", "done"}

ConfigTypes ==
    /\ polling \in BOOLEAN /\ up \in BOOLEAN /\ (polling => up)
    /\ pc \in [Requests -> Points]
    /\ edit = [r \in Requests |-> edit[r]] /\ \A r \in Requests : edit[r] \in Edits[r] \union {NoEdit}
    /\ out = [r \in Requests |-> out[r]] /\ \A r \in Requests : IsConfig(out[r])
    /\ reply \in [Requests -> {"none", "ok", "error"}]
    /\ (~up => Busy = {})
    /\ IsConfig(file) /\ IsConfig(config)
    /\ faults \in 0..MaxFaults

\* While nothing overlapped, at most one request is busy; no copy of the text has
\* a second block, and the one that is about to add a block adds it to a text
\* without one.
Alone ==
    ~crowded =>
        /\ \A r, q \in Busy : r = q
        /\ SingleBlock(file) /\ SingleBlock(config)
        /\ \A r \in Requests : /\ SingleBlock(out[r])
                               /\ pc[r] = "read" => ~IsEnabled(file)
                               /\ pc[r] = "write" => file = <<>>

\* A request that may leave the file cut short has the whole one in its backup.
BackupIsWhole ==
    (~crowded /\ ~buried) =>
        /\ whole \in {file, bak, skeysBak}
        /\ \A r \in Requests : pc[r] \in {"open", "write"} => whole = IF OnFile(r) THEN skeysBak ELSE bak

ConfigInv == ConfigTypes /\ Alone /\ BackupIsWhole
LEMMA ConfigInitInv == ASSUME ConfigInit PROVE ConfigInv
<1> USE DEF ConfigInit
<1>1. IsConfig(file) /\ SingleBlock(file) /\ MaxFaults \in Nat
  <2>1. /\ file \in Seq(ToSet(file)) /\ (\A x \in ToSet(file) : IsItem(x)) /\ SingleBlock(file)
        /\ MaxFaults \in Nat
    BY ClientConfigAssumption
  <2>2. QED
    BY <2>1 DEF IsConfig
<1>2. \A r \in Requests : pc[r] = "new" /\ edit[r] = NoEdit /\ out[r] = <<>>
  OBVIOUS
<1>3. Busy = {}
  BY <1>2 DEF Busy
<1>4. ConfigTypes
  <2>1. /\ pc \in [Requests -> Points] /\ reply \in [Requests -> {"none", "ok", "error"}]
        /\ edit = [r \in Requests |-> edit[r]] /\ out = [r \in Requests |-> out[r]]
    BY DEF Points
  <2>2. faults \in 0..MaxFaults
    BY <1>1
  <2>3. QED
    BY <1>1, <1>2, <1>3, <2>1, <2>2, EmptyConfig DEF ConfigTypes
<1>5. Alone
  BY <1>1, <1>2, <1>3, EmptyConfig DEF Alone
<1>6. BackupIsWhole
  BY <1>2 DEF BackupIsWhole
<1>7. QED
  BY <1>4, <1>5, <1>6 DEF ConfigInv

LEMMA NewEntryItem ==
    ASSUME NEW r \in Requests, NEW e \in Edits[r], e.op \in {"add", "create", "update", "updateHost"}
    PROVE  IsItem(BuildEntryBlock(NewEntry(e))) /\ BuildEntryBlock(NewEntry(e)) # Begin
<1>1. NewEntry(e).opts \in Options
  BY ClientConfigAssumption
<1>2. NewEntry(e).k \in {"host", "match"}
  <2>1. \/ \E h : NewEntry(e) = FromHostEntry(h)
        \/ \E p : NewEntry(e) = FromProtoSSHConfigEntry(p)
    BY DEF NewEntry
  <2>2. \A h : FromHostEntry(h).k = "host"
    BY DEF FromHostEntry, Entry
  <2>3. \A p : FromProtoSSHConfigEntry(p).k \in {"host", "match"}
    BY DEF FromProtoSSHConfigEntry, Entry
  <2>4. QED
    BY <2>1, <2>2, <2>3
<1>3. QED
  BY <1>1, <1>2, BuiltEntry

LEMMA DraftKeeps ==
    ASSUME NEW s, IsConfig(s), NEW r \in Requests, NEW e \in Edits[r], ~Refused(e, s)
    PROVE  Keeps(s, Draft(e, s))
<1>1. CASE e.op = "reorder"
  <2>1. e.ids \in Seq(ToSet(e.ids))
    BY <1>1, ClientConfigAssumption
  <2>2. ToSet(e.ids) \subseteq EntryIDs(s)
    BY <1>1 DEF Refused
  <2>3. /\ Len(e.ids) \in Nat /\ e.ids = [i \in 1..Len(e.ids) |-> e.ids[i]]
        /\ \A i \in 1..Len(e.ids) : e.ids[i] \in EntryIDs(s)
    BY <2>1, <2>2
  <2>4. Draft(e, s) = Reordered(s, e.ids)
    BY <1>1 DEF Draft
  <2>5. QED
    BY <2>3, <2>4, ReorderedConfig
<1>2. CASE e.op = "set"
  BY <1>2, GlobalConfig DEF Draft
<1>3. CASE e.op = "unset"
  BY <1>3, GlobalConfig DEF Draft
<1>4. CASE e.op \notin {"reorder", "set", "unset"}
  BY <1>4, EmptyConfig DEF Draft, Keeps
<1>5. QED
  BY <1>1, <1>2, <1>3, <1>4

LEMMA EditedKeeps ==
    ASSUME NEW s, IsConfig(s), NEW r \in Requests, edit[r] \in Edits[r] \union {NoEdit}, IsConfig(out[r])
    PROVE  IsConfig(Edited(r, s)) /\ (SingleBlock(s) /\ SingleBlock(out[r]) => SingleBlock(Edited(r, s)))
<1>1. CASE edit[r].op \in {"add", "create", "update", "updateHost"}
  <2>1. edit[r] \in Edits[r]
    BY <1>1 DEF NoEdit
  <2>2. Edited(r, s) = Patch(s, BuildEntryBlock(NewEntry(edit[r])))
    BY <1>1 DEF Edited
  <2>3. QED
    BY <1>1, <2>1, <2>2, NewEntryItem, PatchedConfig DEF Keeps
<1>2. CASE edit[r].op \in {"delete", "deleteHost"}
  <2>1. Edited(r, s) = DeleteBlock(s, Target(edit[r]))
    BY <1>2 DEF Edited
  <2>2. QED
    BY <2>1, DeletedConfig DEF Keeps
<1>3. CASE edit[r].op \notin {"add", "create", "update", "updateHost", "delete", "deleteHost"}
  <2>1. Edited(r, s) = out[r]
    BY <1>3 DEF Edited
  <2>2. QED
    BY <2>1
<1>4. QED
  BY <1>1, <1>2, <1>3

\* A step of request r, made alone unless requests overlap.
Steps(r, to) ==
    /\ pc' = [pc EXCEPT ![r] = to]
    /\ up /\ UNCHANGED <<polling, up>>
    /\ \E e \in Edits[r] \union {NoEdit} : edit' = [edit EXCEPT ![r] = e]
    /\ \E t : IsConfig(t) /\ out' = [out EXCEPT ![r] = t]
    /\ reply' = reply \/ \E how \in {"ok", "error"} : reply' = [reply EXCEPT ![r] = how]
    /\ (~crowded' => ~crowded /\ \A q \in Requests \ {r} : pc[q] \in {"new", "done"})

LEMMA StepTypes ==
    ASSUME ConfigTypes, NEW r \in Requests, NEW to \in Points, Steps(r, to),
           IsConfig(file'), IsConfig(config'), faults' \in 0..MaxFaults
    PROVE  ConfigTypes'
<1>1. polling' \in BOOLEAN /\ up' \in BOOLEAN /\ (polling' => up') /\ (~up' => Busy' = {})
  BY DEF ConfigTypes, Steps
<1>2. pc' \in [Requests -> Points]
  BY DEF ConfigTypes, Steps
<1>3. reply' \in [Requests -> {"none", "ok", "error"}]
  BY DEF ConfigTypes, Steps
<1>4. edit' = [q \in Requests |-> edit'[q]] /\ \A q \in Requests : edit'[q] \in Edits[q] \union {NoEdit}
  <2>1. PICK e \in Edits[r] \union {NoEdit} : edit' = [edit EXCEPT ![r] = e]
    BY DEF Steps
  <2>2. edit = [q \in Requests |-> edit[q]] /\ \A q \in Requests : edit[q] \in Edits[q] \union {NoEdit}
    BY DEF ConfigTypes
  <2>3. edit' = [q \in Requests |-> IF q = r THEN e ELSE edit[q]]
    BY <2>1, <2>2
  <2>4. QED
    BY <2>2, <2>3
<1>5. out' = [q \in Requests |-> out'[q]] /\ \A q \in Requests : IsConfig(out'[q])
  <2>1. PICK t : IsConfig(t) /\ out' = [out EXCEPT ![r] = t]
    BY DEF Steps
  <2>2. out = [q \in Requests |-> out[q]] /\ \A q \in Requests : IsConfig(out[q])
    BY DEF ConfigTypes
  <2>3. out' = [q \in Requests |-> IF q = r THEN t ELSE out[q]]
    BY <2>1, <2>2
  <2>4. QED
    BY <2>1, <2>2, <2>3
<1>6. QED
  BY <1>1, <1>2, <1>3, <1>4, <1>5 DEF ConfigTypes

LEMMA StepAlone ==
    ASSUME ConfigTypes, Alone, NEW r \in Requests, NEW to \in Points, Steps(r, to),
           ~crowded' => /\ SingleBlock(file') /\ SingleBlock(config') /\ SingleBlock(out'[r])
                        /\ to = "read" => ~IsEnabled(file')
                        /\ to = "write" => file' = <<>>
    PROVE  Alone'
<1>1. SUFFICES ASSUME ~crowded'
               PROVE  /\ \A p, q \in Busy' : p = q
                      /\ SingleBlock(file') /\ SingleBlock(config')
                      /\ \A q \in Requests : /\ SingleBlock(out'[q])
                                             /\ pc'[q] = "read" => ~IsEnabled(file')
                                             /\ pc'[q] = "write" => file' = <<>>
  BY DEF Alone
<1>2. ~crowded /\ \A q \in Requests \ {r} : pc[q] \in {"new", "done"} /\ pc'[q] = pc[q] /\ out'[q] = out[q]
  BY <1>1 DEF Steps, ConfigTypes
<1>3. pc'[r] = to
  BY DEF Steps, ConfigTypes
<1>4. \A q \in Busy' : q = r
  BY <1>2 DEF Busy
<1>5. \A q \in Requests \ {r} : SingleBlock(out'[q]) /\ pc'[q] # "read" /\ pc'[q] # "write"
  BY <1>2 DEF Alone
<1>6. QED
  BY <1>1, <1>3, <1>4, <1>5

LEMMA StepWhole ==
    ASSUME ConfigTypes, NEW r \in Requests, NEW to \in Points, Steps(r, to),
           (~crowded' /\ ~buried') =>
               /\ whole' \in {file', bak', skeysBak'}
               /\ to \in {"open", "write"} => whole' = IF OnFile(r)' THEN skeysBak' ELSE bak'
    PROVE  BackupIsWhole'
<1>1. SUFFICES ASSUME ~crowded', ~buried', NEW q \in Requests, pc'[q] \in {"open", "write"}
               PROVE  whole' = IF OnFile(q)' THEN skeysBak' ELSE bak'
  BY DEF BackupIsWhole
<1>2. q = r
  BY <1>1 DEF Steps, ConfigTypes
<1>3. pc'[r] = to
  BY DEF Steps, ConfigTypes
<1>4. QED
  BY <1>1, <1>2, <1>3

\* A request that is busy is not disturbed unless requests overlap.
LEMMA BusyAlone ==
    ASSUME ConfigInv, NEW r \in Requests, pc[r] \notin {"new", "done"}
    PROVE  up /\ (~crowded => \A q \in Requests \ {r} : pc[q] \in {"new", "done"})
<1>1. r \in Busy
  BY DEF Busy
<1>2. up
  BY <1>1 DEF ConfigInv, ConfigTypes
<1>3. ASSUME ~crowded, NEW q \in Requests \ {r} PROVE pc[q] \in {"new", "done"}
  BY <1>1, <1>3 DEF ConfigInv, Alone, Busy
<1>4. QED
  BY <1>2, <1>3

LEMMA NotEnabled ==
    ASSUME NEW s, IsConfig(s)
    PROVE  IsEnabled(s) <=> \E i \in DOMAIN s : s[i] = Begin
  BY ConfigItems DEF IsEnabled, Contains

LEMMA ConfigStartStep ==
    ASSUME ConfigInv, NEW r \in Requests, NEW e \in Edits[r], Start(r, e)
    PROVE  ConfigInv'
<1> USE DEF ConfigInv
<1>1. /\ up /\ pc[r] = "new"
      /\ UNCHANGED <<file, bak, skeysBak, whole, polling, up, faults, buried>>
      /\ (~crowded' => ~crowded /\ Busy = {})
  BY DEF Start, StartRefused, StartSettled, StartEnable, StartDisable, StartEdit, Call, fileVars
<1>2. ~crowded' => ~crowded /\ \A q \in Requests \ {r} : pc[q] \in {"new", "done"}
  BY <1>1 DEF Busy
<1>3. IsConfig(file) /\ IsConfig(config) /\ faults \in 0..MaxFaults /\ out = [q \in Requests |-> out[q]]
  BY DEF ConfigTypes
<1>4. ~crowded' => SingleBlock(file) /\ SingleBlock(config)
  BY <1>1 DEF Alone
\* It is enough that the texts it leaves are right.
<1>5. ASSUME NEW to \in Points \ {"open", "write"}, NEW t, IsConfig(t), out' = [out EXCEPT ![r] = t], pc' = [pc EXCEPT ![r] = to],
             NEW f \in Edits[r] \union {NoEdit}, edit' = [edit EXCEPT ![r] = f],
             reply' = reply \/ \E how \in {"ok", "error"} : reply' = [reply EXCEPT ![r] = how],
             IsConfig(config'), ~crowded' => SingleBlock(config') /\ SingleBlock(t),
             to = "read" => ~IsEnabled(file)
      PROVE  ConfigInv'
  <2>1. Steps(r, to)
    BY <1>1, <1>2, <1>5 DEF Steps
  <2>2. ConfigTypes'
    BY <1>1, <1>3, <1>5, <2>1, StepTypes
  <2>3. Alone'
    <3>1. out'[r] = t
      BY <1>3, <1>5
    <3>2. QED
      BY <1>1, <1>4, <1>5, <2>1, <3>1, StepAlone
  <2>4. BackupIsWhole'
    <3>1. (~crowded' /\ ~buried') => whole' \in {file', bak', skeysBak'}
      BY <1>1 DEF BackupIsWhole
    <3>2. QED
      BY <1>5, <2>1, <3>1, StepWhole
  <2>5. QED
    BY <2>2, <2>3, <2>4
<1>6. CASE StartRefused(r, e) \/ StartSettled(r, e)
  <2>1. /\ pc' = [pc EXCEPT ![r] = "done"] /\ edit' = [edit EXCEPT ![r] = NoEdit]
        /\ out' = [out EXCEPT ![r] = <<>>] /\ config' = config
        /\ \E how \in {"ok", "error"} : reply' = [reply EXCEPT ![r] = how]
    BY <1>6 DEF StartRefused, StartSettled, Finish, Move
  <2>2. "done" \in Points \ {"open", "write"}
    BY DEF Points
  <2>3. QED
    BY <1>3, <1>4, <1>5, <2>1, <2>2, EmptyConfig
<1>7. CASE StartEnable(r, e)
  <2>1. /\ pc' = [pc EXCEPT ![r] = "read"] /\ edit' = [edit EXCEPT ![r] = e]
        /\ UNCHANGED <<out, config, reply>> /\ ~IsEnabled(file)
    BY <1>7 DEF StartEnable, Proceed, Move
  <2>2. out' = [out EXCEPT ![r] = out[r]] /\ IsConfig(out[r]) /\ (~crowded' => SingleBlock(out[r]))
    BY <1>1, <1>3, <2>1 DEF ConfigTypes, Alone
  <2>3. "read" \in Points \ {"open", "write"}
    BY DEF Points
  <2>4. QED
    BY <1>3, <1>4, <1>5, <2>1, <2>2, <2>3
<1>8. CASE StartDisable(r, e)
  <2> DEFINE t == RemoveManagedBlock(file)
  <2>1. /\ pc' = [pc EXCEPT ![r] = "backup"] /\ edit' = [edit EXCEPT ![r] = e]
        /\ out' = [out EXCEPT ![r] = t] /\ config' = config /\ reply' = reply
    BY <1>8 DEF StartDisable, Proceed, Move
  <2>2. Keeps(file, t)
    BY <1>3, UnmanagedConfig
  <2> HIDE DEF t
  <2>3. IsConfig(t) /\ (~crowded' => SingleBlock(t))
    BY <1>4, <2>2 DEF Keeps
  <2>4. "backup" \in Points \ {"open", "write"}
    BY DEF Points
  <2>5. QED
    BY <1>3, <1>4, <1>5, <2>1, <2>3, <2>4
<1>9. CASE StartEdit(r, e)
  <2> DEFINE t == Draft(e, config)
  <2>1. /\ pc' = [pc EXCEPT ![r] = "edit"] /\ edit' = [edit EXCEPT ![r] = e] /\ ~Refused(e, config)
        /\ out' = [out EXCEPT ![r] = t] /\ reply' = reply
        /\ config' = DeleteBlock(config, Target(e)) \/ config' = config
    BY <1>9 DEF StartEdit, Proceed, Move
  <2>2. Keeps(config, t)
    BY <1>3, <2>1, DraftKeeps
  <2> HIDE DEF t
  <2>3. IsConfig(t) /\ (~crowded' => SingleBlock(t))
    BY <1>4, <2>2 DEF Keeps
  <2>4. IsConfig(config') /\ (~crowded' => SingleBlock(config'))
    BY <1>3, <1>4, <2>1, DeletedConfig DEF Keeps
  <2>5. "edit" \in Points \ {"open", "write"}
    BY DEF Points
  <2>6. QED
    BY <1>5, <2>1, <2>3, <2>4, <2>5
<1>10. QED
  BY <1>6, <1>7, <1>8, <1>9 DEF Start

\* The steps of a request that is under way.
LEMMA BusyStep ==
    ASSUME ConfigInv, NEW r \in Requests, Step(r)
    PROVE  ConfigInv'
<1> USE DEF ConfigInv
<1>1. pc[r] \in {"read", "edit", "backup", "open", "write", "answer"}
  BY DEF Step, EnableRead, EditConfig, Backup, Open, Write, Answer, Fail
<1>2. up /\ (~crowded => \A q \in Requests \ {r} : pc[q] \in {"new", "done"})
  BY <1>1, BusyAlone
<1>3. /\ IsConfig(file) /\ IsConfig(config) /\ IsConfig(out[r]) /\ faults \in 0..MaxFaults
      /\ edit = [q \in Requests |-> edit[q]] /\ edit[r] \in Edits[r] \union {NoEdit}
      /\ out = [q \in Requests |-> out[q]]
  BY DEF ConfigTypes
<1>4. ~crowded => /\ SingleBlock(file) /\ SingleBlock(config) /\ SingleBlock(out[r])
                  /\ pc[r] = "read" => ~IsEnabled(file)
                  /\ pc[r] = "write" => file = <<>>
  BY DEF Alone
<1>5. (~crowded /\ ~buried) => /\ whole \in {file, bak, skeysBak}
                               /\ pc[r] \in {"open", "write"} => whole = IF OnFile(r) THEN skeysBak ELSE bak
  BY DEF BackupIsWhole
<1>6. ASSUME NEW to \in Points, NEW t, IsConfig(t), out' = [out EXCEPT ![r] = t], pc' = [pc EXCEPT ![r] = to],
             edit' = edit \/ edit' = [edit EXCEPT ![r] = NoEdit],
             reply' = reply \/ \E how \in {"ok", "error"} : reply' = [reply EXCEPT ![r] = how],
             UNCHANGED <<polling, up, crowded>>, faults' \in 0..MaxFaults,
             IsConfig(file'), IsConfig(config'),
             ~crowded => /\ SingleBlock(file') /\ SingleBlock(config') /\ SingleBlock(t)
                         /\ to # "read" /\ (to = "write" => file' = <<>>),
             (~crowded /\ ~buried') => /\ whole' \in {file', bak', skeysBak'}
                                       /\ to \in {"open", "write"} => whole' = IF OnFile(r)' THEN skeysBak' ELSE bak'
      PROVE  ConfigInv'
  <2>1. \E e \in Edits[r] \union {NoEdit} : edit' = [edit EXCEPT ![r] = e]
    <3>1. edit = [edit EXCEPT ![r] = edit[r]]
      BY <1>3
    <3>2. QED
      BY <1>3, <1>6, <3>1
  <2>2. Steps(r, to)
    BY <1>2, <1>6, <2>1 DEF Steps
  <2>3. ConfigTypes'
    BY <1>6, <2>2, StepTypes
  <2>4. Alone'
    <3>1. out'[r] = t
      BY <1>3, <1>6
    <3>2. QED
      BY <1>6, <2>2, <3>1, StepAlone
  <2>5. BackupIsWhole'
    BY <1>6, <2>2, StepWhole
  <2>6. QED
    BY <2>3, <2>4, <2>5
<1>7. out = [out EXCEPT ![r] = out[r]]
  BY <1>3
<1>8. {"backup", "open", "write", "answer", "done"} \subseteq Points
  BY DEF Points
<1>9. CASE EnableRead(r)
  <2> DEFINE t == ManagedBlock \o file
  <2>1. /\ pc[r] = "read" /\ pc' = [pc EXCEPT ![r] = "backup"] /\ out' = [out EXCEPT ![r] = t]
        /\ UNCHANGED <<file, bak, skeysBak, whole, config, polling, up, edit, reply, faults, crowded, buried>>
    BY <1>9 DEF EnableRead, Move, fileVars, ghosts
  <2>2. IsConfig(t)
    BY <1>3, ManagedConfig
  <2>3. ~crowded => SingleBlock(t)
    BY <1>3, <1>4, <2>1, NotEnabled, ManagedConfig
  <2> HIDE DEF t
  <2>4. QED
    BY <1>3, <1>4, <1>5, <1>6, <1>8, <2>1, <2>2, <2>3
<1>10. CASE EditConfig(r)
  <2> DEFINE t == Edited(r, config)
  <2>1. /\ pc' = [pc EXCEPT ![r] = "backup"] /\ config' = t
        /\ UNCHANGED <<file, bak, skeysBak, whole, polling, up, edit, out, reply, faults, crowded, buried>>
    BY <1>10 DEF EditConfig, Move, fileVars, ghosts
  <2>2. IsConfig(t) /\ (~crowded => SingleBlock(t))
    BY <1>3, <1>4, EditedKeeps
  <2> HIDE DEF t
  <2>3. QED
    BY <1>3, <1>4, <1>5, <1>6, <1>7, <1>8, <2>1, <2>2
<1>11. CASE Backup(r)
  <2>1. /\ pc' = [pc EXCEPT ![r] = "open"]
        /\ UNCHANGED <<file, whole, config, polling, up, edit, out, reply, faults, crowded>>
        /\ (~buried' => ~buried /\ file = whole)
        /\ (IF OnFile(r) THEN skeysBak' ELSE bak') = file
    BY <1>11 DEF Backup, Move
  <2>2. OnFile(r)' = OnFile(r)
    BY <2>1 DEF OnFile
  <2>3. ~buried' => whole' \in {file', bak', skeysBak'} /\ whole' = IF OnFile(r)' THEN skeysBak' ELSE bak'
    BY <2>1, <2>2
  <2>4. QED
    BY <1>3, <1>4, <1>6, <1>7, <1>8, <2>1, <2>3
<1>12. CASE Open(r)
  <2>1. /\ pc[r] = "open" /\ pc' = [pc EXCEPT ![r] = "write"] /\ file' = <<>>
        /\ out' = out \/ out' = [out EXCEPT ![r] = config]
        /\ UNCHANGED <<bak, skeysBak, whole, config, polling, up, edit, reply, faults, crowded, buried>>
    BY <1>12 DEF Open, Move, ghosts
  <2>2. OnFile(r)' = OnFile(r)
    BY <2>1 DEF OnFile
  <2>3. \E t : IsConfig(t) /\ out' = [out EXCEPT ![r] = t] /\ (~crowded => SingleBlock(t))
    BY <1>3, <1>4, <1>7, <2>1
  <2>4. (~crowded /\ ~buried) => /\ whole' \in {file', bak', skeysBak'}
                                 /\ whole' = IF OnFile(r)' THEN skeysBak' ELSE bak'
    BY <1>5, <2>1, <2>2
  <2>5. QED
    BY <1>3, <1>4, <1>6, <1>8, <2>1, <2>3, <2>4, EmptyConfig
<1>13. CASE Write(r)
  <2> DEFINE t == out[r] \o SubSeq(file, Len(out[r]) + 1, Len(file))
  <2>1. /\ pc[r] = "write" /\ pc' = [pc EXCEPT ![r] = "answer"] /\ file' = t /\ whole' = file'
        /\ UNCHANGED <<bak, skeysBak, config, polling, up, edit, out, reply, faults, crowded, buried>>
    BY <1>13 DEF Write, Move, ghosts
  <2>2. /\ IsConfig(SubSeq(file, Len(out[r]) + 1, Len(file)))
        /\ file = <<>> => \A i \in DOMAIN SubSeq(file, Len(out[r]) + 1, Len(file)) :
                              SubSeq(file, Len(out[r]) + 1, Len(file))[i] # Begin
    <3>1. Len(out[r]) + 1 \in Nat \ {0} /\ Len(file) \in Nat /\ Len(file) <= Len(file)
      BY <1>3, ConfigItems
    <3>2. file = <<>> => Len(file) = 0
      OBVIOUS
    <3>3. file = <<>> => DOMAIN SubSeq(file, Len(out[r]) + 1, Len(file)) = {}
      BY <3>1, <3>2, <1>3, CutConfig
    <3>4. QED
      BY <3>1, <3>3, <1>3, CutConfig DEF Keeps
  <2>3. IsConfig(t) /\ (~crowded => SingleBlock(t))
    BY <1>3, <1>4, <2>1, <2>2, JoinedConfig
  <2> HIDE DEF t
  <2>4. QED
    BY <1>3, <1>4, <1>6, <1>7, <1>8, <2>1, <2>3
<1>14. CASE Answer(r) \/ Fail(r)
  <2>1. /\ pc' = [pc EXCEPT ![r] = "done"] /\ edit' = [edit EXCEPT ![r] = NoEdit]
        /\ out' = [out EXCEPT ![r] = <<>>]
        /\ \E how \in {"ok", "error"} : reply' = [reply EXCEPT ![r] = how]
        /\ UNCHANGED <<file, bak, skeysBak, whole, config, polling, up, crowded, buried>>
        /\ faults' = faults \/ (faults < MaxFaults /\ faults' = faults + 1)
    BY <1>14 DEF Answer, Fail, Finish, Move, fileVars
  <2>2. faults' \in 0..MaxFaults
    BY <1>3, <2>1, ClientConfigAssumption
  <2>3. QED
    BY <1>3, <1>4, <1>5, <1>6, <1>8, <2>1, <2>2, EmptyConfig
<1>15. QED
  BY <1>9, <1>10, <1>11, <1>12, <1>13, <1>14 DEF Step

LEMMA ConfigStep == ASSUME ConfigInv, [ConfigNext]_vars PROVE ConfigInv'
<1> USE DEF ConfigInv
<1>1. CASE \E r \in Requests : Request(r)
  <2>1. \E r \in Requests : \E e \in Edits[r] : Start(r, e)
    BY <1>1 DEF Request, Handle, CreateHostConfig, UpdateHostConfig, DeleteHostConfig,
         CreateSSHConfigEntry, UpdateSSHConfigEntry, DeleteSSHConfigEntry, ReorderSSHConfigEntries,
         SetGlobalDirective, DeleteGlobalDirective, EnableSshConfig, DisableSshConfig
  <2>2. QED
    BY <2>1, ConfigStartStep
<1>2. CASE \E r \in Requests : Step(r)
  BY <1>2, BusyStep
<1>3. /\ IsConfig(file) /\ IsConfig(config) /\ faults \in 0..MaxFaults /\ MaxFaults \in Nat
      /\ Busy = {} => \A r \in Requests : pc[r] \notin {"read", "open", "write"}
  BY ClientConfigAssumption DEF ConfigTypes, Busy
\* Without a request's step.
<1>4. ASSUME UNCHANGED <<pc, edit, out, reply, bak, skeysBak, buried>>
      PROVE  Busy' = Busy /\ \A r : OnFile(r)' = OnFile(r)
  BY <1>4 DEF Busy, OnFile
<1>5. CASE Watch \/ Poll \/ Restart
  <2>1. /\ UNCHANGED <<file, bak, skeysBak, whole, pc, edit, out, reply, faults, crowded, buried>>
        /\ config' \in {config, file}
        /\ polling' \in BOOLEAN /\ up' = TRUE /\ (polling' => up')
    BY <1>5 DEF Watch, Poll, Restart, fileVars, ghosts, ConfigTypes
  <2>2. ConfigTypes'
    BY <1>3, <1>4, <2>1 DEF ConfigTypes
  <2>3. Alone'
    BY <1>4, <2>1 DEF Alone
  <2>4. BackupIsWhole'
    BY <1>4, <2>1 DEF BackupIsWhole
  <2>5. QED
    BY <2>2, <2>3, <2>4
<1>6. CASE EditorSaves
  <2>1. /\ UNCHANGED <<bak, skeysBak, config, polling, up, pc, edit, out, reply, buried>>
        /\ file' = Append(file, EditorItem) /\ whole' = file'
        /\ (~crowded' => ~crowded /\ Busy = {})
        /\ faults < MaxFaults /\ faults' = faults + 1
    BY <1>6 DEF EditorSaves
  <2>2. IsItem(EditorItem) /\ EditorItem # Begin
    BY ClientConfigAssumption
  <2>3. Keeps(file, file')
    BY <1>3, <2>1, <2>2, AppendedConfig
  <2>4. faults' \in 0..MaxFaults
    BY <1>3, <2>1
  <2>5. ConfigTypes'
    BY <1>4, <2>1, <2>3, <2>4 DEF ConfigTypes, Keeps
  <2>6. Alone'
    BY <1>3, <1>4, <2>1, <2>3 DEF Alone, Keeps
  <2>7. BackupIsWhole'
    BY <1>3, <2>1 DEF BackupIsWhole
  <2>8. QED
    BY <2>5, <2>6, <2>7
<1>7. CASE Crash
  <2>1. /\ UNCHANGED <<file, bak, skeysBak, whole, reply, crowded, buried>>
        /\ up' = FALSE /\ polling' = FALSE /\ config' = <<>>
        /\ pc' = [r \in Requests |-> IF r \in Busy THEN "done" ELSE pc[r]]
        /\ edit' = [r \in Requests |-> NoEdit] /\ out' = [r \in Requests |-> <<>>]
        /\ faults < MaxFaults /\ faults' = faults + 1
    BY <1>7 DEF Crash, fileVars
  <2>2. \A r \in Requests : pc'[r] \in {"new", "done"}
    BY <2>1 DEF Busy
  <2>3. Busy' = {}
    BY <2>2 DEF Busy
  <2>4. ConfigTypes'
    <3>1. pc' \in [Requests -> Points]
      <4>1. {"new", "done"} \subseteq Points
        BY DEF Points
      <4>2. pc' = [r \in Requests |-> pc'[r]]
        BY <2>1
      <4>3. QED
        BY <2>2, <4>1, <4>2
    <3>2. /\ edit' = [r \in Requests |-> edit'[r]] /\ \A r \in Requests : edit'[r] \in Edits[r] \union {NoEdit}
          /\ out' = [r \in Requests |-> out'[r]] /\ \A r \in Requests : IsConfig(out'[r])
      BY <2>1, EmptyConfig
    <3>3. faults' \in 0..MaxFaults
      BY <1>3, <2>1
    <3>4. QED
      BY <1>3, <2>1, <2>3, <3>1, <3>2, <3>3, EmptyConfig DEF ConfigTypes
  <2>5. Alone'
    <3>1. \A r \in Requests : out'[r] = <<>> /\ pc'[r] \notin {"read", "write"}
      BY <2>1, <2>2
    <3>2. QED
      BY <2>1, <2>3, <3>1, EmptyConfig DEF Alone
  <2>6. BackupIsWhole'
    BY <2>1, <2>2 DEF BackupIsWhole
  <2>7. QED
    BY <2>4, <2>5, <2>6
<1>8. CASE UNCHANGED vars
  <2>1. /\ UNCHANGED <<file, bak, skeysBak, whole, pc, edit, out, reply, faults, crowded, buried>>
        /\ UNCHANGED <<config, polling, up>>
    BY <1>8 DEF vars, fileVars, ghosts
  <2>2. ConfigTypes'
    BY <1>4, <2>1 DEF ConfigTypes
  <2>3. Alone'
    BY <1>4, <2>1 DEF Alone
  <2>4. BackupIsWhole'
    BY <1>4, <2>1 DEF BackupIsWhole
  <2>5. QED
    BY <2>2, <2>3, <2>4
<1>9. QED
  BY <1>1, <1>2, <1>5, <1>6, <1>7, <1>8 DEF ConfigNext

\* The client config: with every number of requests, whatever the file contains
\* at first and wherever saves fail or the daemon is killed, the file never gets
\* a second managed block unless writers overlap, and the last complete text is
\* in the file or a backup.
THEOREM ConfigIsSafe == Spec => []ConfigSafe
<1>1. Init => ConfigInv
  BY ConfigInitInv DEF Init
<1>2. ConfigInv /\ [Next]_dirVars => ConfigInv'
  <2>1. [Next]_dirVars => [ConfigNext]_vars
    BY DEF Next, dirVars
  <2>2. QED
    BY <2>1, ConfigStep
<1>3. ConfigInv => ConfigSafe
  <2>1. ASSUME ConfigInv PROVE ConfigTypeOK
    <3>1. ASSUME NEW i \in DOMAIN file, IsHeader(file[i]) PROVE file[i].opts \in Options
      BY <2>1, <3>1, ConfigItems, ItemKinds DEF ConfigInv, ConfigTypes
    <3>2. QED
      BY <2>1, <3>1 DEF ConfigInv, ConfigTypes, ConfigTypeOK, Points
  <2>2. ConfigInv => OneBlock
    BY DEF ConfigInv, Alone, OneBlock
  <2>3. ConfigInv => Recoverable
    BY DEF ConfigInv, BackupIsWhole, Recoverable
  <2>4. QED
    BY <2>1, <2>2, <2>3 DEF ConfigSafe
<1>4. QED
  BY <1>1, <1>2, <1>3, PTL DEF Spec
================================================================================
