------------------------------ MODULE UpdateProofs ------------------------------
(***************************************************************************)
(* Proofs about the update manager and its settings.                       *)
(*                                                                         *)
(* The comparison of versions and the settings are proved for any number   *)
(* of callers, releases, versions and settings calls.  What ApplyUpdate    *)
(* and DownloadUpdate promise is proved for one client, of whose           *)
(* ApplyUpdate at most one step fails: nothing serialises two clients, and *)
(* of two failing steps the second may be the one that restores.           *)
(***************************************************************************)
EXTENDS UpdateService, SequenceTheorems, WellFoundedInduction, TLAPS

LEMMA IsFalse ==
    ASSUME NEW x, NEW P \in BOOLEAN, x = P, ~P
    PROVE  x = FALSE
  BY Zenon

LEMMA NatMin ==
    ASSUME NEW S \in SUBSET Nat, S # {}
    PROVE  \E m \in S : \A n \in S : m <= n
<1> DEFINE LT == OpToRel(<, Nat)
<1>1. IsWellFoundedOn(LT, Nat)
  BY NatLessThanWellFounded, Zenon
<1>2. LT = {ss \in Nat \X Nat : ss[1] < ss[2]}
  BY DEF OpToRel
<1> HIDE DEF LT
<1>3. PICK m \in S : \A n \in S : ~ (<<n, m>> \in LT)
  BY <1>1, WFMin
<1>4. \A n \in S : ~ (n < m)
  BY <1>2, <1>3
<1>5. QED
  BY <1>4

--------------------------------------------------------------------------------
\* The comparison of versions.

\* Neither part is less: the comparison goes on.
Tied(p, q) == ~PartLess(p, q) /\ ~PartLess(q, p)

\* The first part from position i on that is not the same is less in b; without
\* one a is longer.
Higher(a, b, n, i) ==
    \/ \E k \in i..n : PartLess(b[k], a[k]) /\ \A j \in i..k-1 : Tied(a[j], b[j])
    \/ Len(a) > Len(b) /\ \A j \in i..n : Tied(a[j], b[j])

\* The recursive function of isNewerVersion is determined by its equation.
LEMMA NewerIsFound ==
    ASSUME NEW a, NEW b, Len(a) \in Nat, Len(b) \in Nat
    PROVE  isNewerVersion(a, b) = Higher(a, b, IF Len(a) < Len(b) THEN Len(a) ELSE Len(b), 1)
<1> DEFINE n == IF Len(a) < Len(b) THEN Len(a) ELSE Len(b)
           Body(f) == [i \in 1..n+1 |->
                         IF i > n THEN Len(a) > Len(b)
                         ELSE IF PartLess(b[i], a[i]) THEN TRUE
                         ELSE IF PartLess(a[i], b[i]) THEN FALSE
                         ELSE f[i + 1]]
           closed == [i \in 1..n+1 |-> Higher(a, b, n, i)]
           from == CHOOSE f : f = Body(f)
<1>1. n \in Nat
  OBVIOUS
<1> HIDE DEF n
<1>4. ASSUME NEW i \in 1..n+1
      PROVE  Higher(a, b, n, i) <=> IF i > n THEN Len(a) > Len(b)
                                  ELSE IF PartLess(b[i], a[i]) THEN TRUE
                                  ELSE IF PartLess(a[i], b[i]) THEN FALSE
                                  ELSE Higher(a, b, n, i + 1)
  <2>1. CASE i > n
    <3>1. i..n = {}
      BY <1>1, <2>1
    <3>2. QED
      BY <3>1, <2>1 DEF Higher
  <2>2. CASE ~ (i > n) /\ PartLess(b[i], a[i])
    <3>1. i \in i..n /\ i..(i - 1) = {}
      BY <1>1, <2>2
    <3>2. Higher(a, b, n, i)
      BY <3>1, <2>2 DEF Higher
    <3>3. QED
      BY <3>2, <2>2
  <2>3. CASE ~ (i > n) /\ ~PartLess(b[i], a[i]) /\ PartLess(a[i], b[i])
    <3>1. i \in i..n /\ ~Tied(a[i], b[i])
      BY <1>1, <2>3 DEF Tied
    <3>2. ASSUME NEW k \in i..n, PartLess(b[k], a[k]), \A j \in i..k-1 : Tied(a[j], b[j])
          PROVE  FALSE
      <4>1. k # i
        BY <2>3, <3>2
      <4>2. i \in i..k-1
        BY <4>1, <1>1
      <4>3. QED
        BY <4>2, <3>1, <3>2
    <3>3. ~Higher(a, b, n, i)
      BY <3>1, <3>2 DEF Higher
    <3>4. QED
      BY <3>3, <2>3
  <2>4. CASE ~ (i > n) /\ ~PartLess(b[i], a[i]) /\ ~PartLess(a[i], b[i])
    <3>1. Tied(a[i], b[i])
      BY <2>4 DEF Tied
    <3>2. \A k \in i+1..n : i..k-1 = {i} \union (i+1..k-1)
      BY <1>1
    <3>3. i..n = {i} \union (i+1..n)
      BY <1>1, <2>4
    <3>4. (\E k \in i..n : PartLess(b[k], a[k]) /\ \A j \in i..k-1 : Tied(a[j], b[j]))
            <=> \E k \in i+1..n : PartLess(b[k], a[k]) /\ \A j \in i+1..k-1 : Tied(a[j], b[j])
      BY <3>1, <3>2, <3>3, <2>4
    <3>5. (\A j \in i..n : Tied(a[j], b[j])) <=> \A j \in i+1..n : Tied(a[j], b[j])
      BY <3>1, <3>3
    <3>6. Higher(a, b, n, i) <=> Higher(a, b, n, i + 1)
      BY <3>4, <3>5, Zenon DEF Higher
    <3>7. QED
      BY <3>6, <2>4
  <2>5. QED
    BY <2>1, <2>2, <2>3, <2>4
<1>5. \A i \in 1..n : i + 1 \in 1..n+1
  BY <1>1
<1>6. closed = Body(closed)
  <2>1. ASSUME NEW i \in 1..n+1, ~ (i > n)
        PROVE  closed[i + 1] = Higher(a, b, n, i + 1)
    BY <2>1, <1>1
  <2>2. ASSUME NEW i \in 1..n+1
        PROVE  Higher(a, b, n, i) = Body(closed)[i]
    <3> HIDE DEF closed
    <3>1. CASE i > n
      <4>1. Body(closed)[i] = (Len(a) > Len(b)) /\ (Higher(a, b, n, i) <=> Len(a) > Len(b))
        BY <3>1, <1>4
      <4>2. CASE Len(a) > Len(b)
        <5>1. Body(closed)[i] = TRUE /\ Higher(a, b, n, i) = TRUE
          BY <4>1, <4>2 DEF Higher
        <5>2. QED
          BY <5>1
      <4>3. CASE ~ (Len(a) > Len(b))
        <5>1. Body(closed)[i] = FALSE
          <6>1. (Len(a) > Len(b)) \in BOOLEAN
            BY SMT
          <6>2. QED
            BY <4>1, <4>3, <6>1, IsFalse
        <5>2. Higher(a, b, n, i) = FALSE
          BY <4>1, <4>3, Zenon DEF Higher
        <5>3. QED
          BY <5>1, <5>2
      <4>4. QED
        BY <4>2, <4>3
    <3>2. CASE ~ (i > n) /\ PartLess(b[i], a[i])
      <4>1. Body(closed)[i] = TRUE /\ Higher(a, b, n, i)
        BY <3>2, <1>4
      <4>2. QED
        BY <4>1 DEF Higher
    <3>3. CASE ~ (i > n) /\ ~PartLess(b[i], a[i]) /\ PartLess(a[i], b[i])
      <4>1. Body(closed)[i] = FALSE /\ ~Higher(a, b, n, i)
        BY <3>3, <1>4
      <4>2. QED
        BY <4>1 DEF Higher
    <3>4. CASE ~ (i > n) /\ ~PartLess(b[i], a[i]) /\ ~PartLess(a[i], b[i])
      <4>1. Body(closed)[i] = closed[i + 1] /\ (Higher(a, b, n, i) <=> Higher(a, b, n, i + 1))
        BY <3>4, <1>4
      <4>2. closed[i + 1] = Higher(a, b, n, i + 1)
        BY <2>1, <3>4
      <4>3. QED
        BY <4>1, <4>2 DEF Higher
    <3>5. QED
      BY <3>1, <3>2, <3>3, <3>4
  <2>3. QED
    BY <2>2
<1>7. from = Body(from)
  BY <1>6
<1> HIDE DEF from
<1>8. \A i \in 1..n+1 : from[i] = Higher(a, b, n, i)
  <2>1. SUFFICES ASSUME NEW x \in 1..n+1, from[x] # Higher(a, b, n, x)
                 PROVE  FALSE
    OBVIOUS
  <2> DEFINE S == {d \in Nat : d <= n + 1 /\ from[n + 1 - d] # Higher(a, b, n, n + 1 - d) /\ n + 1 - d >= 1}
  <2>2. n + 1 - x \in S
    <3>1. n + 1 - x \in Nat /\ n + 1 - (n + 1 - x) = x /\ n + 1 - x <= n + 1 /\ x >= 1
      BY <1>1
    <3>2. QED
      BY <3>1, <2>1
  <2>3. PICK d \in S : \A e \in S : d <= e
    <3>1. S \in SUBSET Nat /\ S # {}
      BY <2>2
    <3> HIDE DEF S
    <3>2. QED
      BY <3>1, NatMin
  <2> DEFINE i == n + 1 - d
  <2>4. i \in 1..n+1 /\ from[i] # Higher(a, b, n, i)
    BY <1>1, <2>3
  <2>5. ~ (i > n) => from[i + 1] = Higher(a, b, n, i + 1)
    <3>1. SUFFICES ASSUME ~ (i > n), from[i + 1] # Higher(a, b, n, i + 1)
                   PROVE  FALSE
      OBVIOUS
    <3>2. d - 1 \in Nat /\ n + 1 - (d - 1) = i + 1 /\ i + 1 >= 1 /\ d - 1 <= n + 1
      BY <1>1, <2>3, <3>1
    <3>3. d - 1 \in S
      BY <3>1, <3>2
    <3>4. QED
      BY <3>3, <2>3, <1>1
  <2> HIDE DEF i
  <2>6. from[i] = IF i > n THEN Len(a) > Len(b)
                  ELSE IF PartLess(b[i], a[i]) THEN TRUE
                  ELSE IF PartLess(a[i], b[i]) THEN FALSE
                  ELSE from[i + 1]
    BY <1>7, <2>4
  <2>7. CASE i > n
    <3>1. from[i] = (Len(a) > Len(b)) /\ (Higher(a, b, n, i) <=> Len(a) > Len(b))
      BY <2>4, <2>6, <2>7, <1>4
    <3>2. CASE Len(a) > Len(b)
      <4>1. from[i] = TRUE /\ Higher(a, b, n, i) = TRUE
        BY <3>1, <3>2 DEF Higher
      <4>2. QED
        BY <4>1, <2>4
    <3>3. CASE ~ (Len(a) > Len(b))
      <4>1. from[i] = FALSE
        <5>1. (Len(a) > Len(b)) \in BOOLEAN
          BY SMT
        <5>2. QED
          BY <3>1, <3>3, <5>1, IsFalse
      <4>2. Higher(a, b, n, i) = FALSE
        BY <3>1, <3>3, Zenon DEF Higher
      <4>3. QED
        BY <4>1, <4>2, <2>4
    <3>4. QED
      BY <3>2, <3>3
  <2>8. CASE ~ (i > n) /\ PartLess(b[i], a[i])
    <3>1. from[i] = TRUE /\ Higher(a, b, n, i)
      BY <2>4, <2>6, <2>8, <1>4
    <3>2. QED
      BY <3>1, <2>4 DEF Higher
  <2>9. CASE ~ (i > n) /\ ~PartLess(b[i], a[i]) /\ PartLess(a[i], b[i])
    <3>1. from[i] = FALSE /\ ~Higher(a, b, n, i)
      BY <2>4, <2>6, <2>9, <1>4
    <3>2. QED
      BY <3>1, <2>4 DEF Higher
  <2>10. CASE ~ (i > n) /\ ~PartLess(b[i], a[i]) /\ ~PartLess(a[i], b[i])
    <3>1. from[i] = from[i + 1] /\ (Higher(a, b, n, i) <=> Higher(a, b, n, i + 1))
      BY <2>4, <2>6, <2>10, <1>4
    <3>2. Higher(a, b, n, i) = Higher(a, b, n, i + 1)
      BY <3>1 DEF Higher
    <3>3. from[i + 1] = Higher(a, b, n, i + 1)
      BY <2>5, <2>10
    <3>4. QED
      BY <3>1, <3>2, <3>3, <2>4
  <2>11. QED
    BY <2>7, <2>8, <2>9, <2>10
<1>9. 1 \in 1..n+1
  BY <1>1
<1>10. isNewerVersion(a, b) = from[1]
  BY DEF isNewerVersion, from, n
<1>11. QED
  BY <1>8, <1>9, <1>10 DEF n

\* What versions consist of.
LEMMA VersionFacts ==
    ASSUME NEW v \in Versions
    PROVE  /\ Len(v) \in Nat \ {0}
           /\ \A i \in 1..Len(v) :
                 /\ v[i] \in [num : Nat, label : Nat, build : Nat]
                 /\ v[i].label # NoLabel => i = 3
                 /\ v[i].build # NoBuild => i = Len(v)
<1>1. PICK n \in Lengths : /\ v \in [1..n -> Parts]
                           /\ \A i \in 1..n : /\ v[i].label # NoLabel => i = 3
                                              /\ v[i].build # NoBuild => i = n
  BY DEF Versions
<1>2. n \in Nat /\ n # 0
  BY VersionAssumption
<1>3. v \in Seq(Parts) /\ Len(v) = n
  <2>1. v \in Seq(Parts)
    BY <1>1, <1>2, SeqDef
  <2>2. Len(v) \in Nat /\ 1..Len(v) = 1..n
    BY <1>1, <2>1, LenProperties
  <2>3. QED
    BY <1>2, <2>1, <2>2
<1>4. Parts \subseteq [num : Nat, label : Nat, build : Nat]
  <2>1. Numbers \subseteq Nat /\ Labels \union {NoLabel} \subseteq Nat /\ Builds \union {NoBuild} \subseteq Nat
    BY VersionAssumption DEF NoLabel, NoBuild
  <2>2. QED
    BY <2>1 DEF Parts
<1>5. QED
  BY <1>1, <1>2, <1>3, <1>4

\* A text is a sequence of integers.
LEMMA TextType ==
    ASSUME NEW p \in [num : Nat, label : Nat, build : Nat]
    PROVE  Text(p) \in Seq(Int)
<1>1. \A d \in Nat : Digits(d) \in Seq(Int)
  BY DEF Digits
<1>2. LabelText(p) \in Seq(Int)
  BY DEF LabelText
<1>3. BuildText(p) \in Seq(Int)
  <2>1. <<-2>> \in Seq(Int) /\ Digits(p.build) \in Seq(Int) /\ <<>> \in Seq(Int)
    BY <1>1
  <2>2. <<-2>> \o Digits(p.build) \in Seq(Int)
    BY <2>1, ConcatProperties
  <2>3. QED
    BY <2>1, <2>2 DEF BuildText
<1>4. Digits(p.num) \o LabelText(p) \in Seq(Int)
  BY <1>1, <1>2, ConcatProperties
<1>5. QED
  BY <1>3, <1>4, ConcatProperties DEF Text

\* Go's comparison of strings goes one way ...
LEMMA TextLessOneWay ==
    ASSUME NEW s \in Seq(Int), NEW t \in Seq(Int), TextLess(s, t), TextLess(t, s)
    PROVE  FALSE
<1>1. PICK i \in 1..Len(t) : /\ \A j \in 1..i-1 : j <= Len(s) /\ s[j] = t[j]
                             /\ i > Len(s) \/ s[i] < t[i]
  BY DEF TextLess
<1>2. PICK k \in 1..Len(s) : /\ \A j \in 1..k-1 : j <= Len(t) /\ t[j] = s[j]
                             /\ k > Len(t) \/ t[k] < s[k]
  BY DEF TextLess
<1>3. Len(s) \in Nat /\ Len(t) \in Nat
  BY LenProperties
<1>4. CASE i < k
  <2>1. i \in 1..k-1 /\ ~ (i > Len(s)) /\ i \in 1..Len(s)
    BY <1>3, <1>4
  <2>2. s[i] < t[i] /\ t[i] = s[i] /\ s[i] \in Int
    BY <1>1, <1>2, <2>1, ElementOfSeq
  <2>3. QED
    BY <2>2
<1>5. CASE k < i
  <2>1. k \in 1..i-1 /\ ~ (k > Len(t)) /\ k \in 1..Len(t)
    BY <1>3, <1>5
  <2>2. t[k] < s[k] /\ t[k] = s[k] /\ s[k] \in Int
    BY <1>1, <1>2, <2>1, ElementOfSeq
  <2>3. QED
    BY <2>2
<1>6. CASE i = k
  <2>1. ~ (i > Len(s)) /\ ~ (k > Len(t))
    BY <1>3, <1>6
  <2>2. s[i] < t[i] /\ t[i] < s[i] /\ s[i] \in Int /\ t[i] \in Int
    BY <1>1, <1>2, <1>6, <2>1, ElementOfSeq
  <2>3. QED
    BY <2>2
<1>7. QED
  BY <1>4, <1>5, <1>6, <1>3

\* ... and so does the comparison of parts.
LEMMA PartLessOneWay ==
    ASSUME NEW p \in [num : Nat, label : Nat, build : Nat],
           NEW q \in [num : Nat, label : Nat, build : Nat],
           PartLess(p, q), PartLess(q, p)
    PROVE  FALSE
<1>1. CASE Numeric(p) /\ Numeric(q)
  BY <1>1 DEF PartLess
<1>2. CASE ~ (Numeric(p) /\ Numeric(q))
  <2>1. TextLess(Text(p), Text(q)) /\ TextLess(Text(q), Text(p))
    BY <1>2 DEF PartLess
  <2>2. QED
    BY <2>1, TextType, TextLessOneWay
<1>3. QED
  BY <1>1, <1>2

\* isNewerVersion in the closed form, for two versions.
LEMMA NewerIsHigher2 ==
    ASSUME NEW a \in Versions, NEW b \in Versions
    PROVE  \E n \in Nat :
              /\ n = IF Len(a) < Len(b) THEN Len(a) ELSE Len(b)
              /\ isNewerVersion(a, b) <=> Higher(a, b, n, 1)
              /\ isNewerVersion(b, a) <=> Higher(b, a, n, 1)
<1> DEFINE n == IF Len(a) < Len(b) THEN Len(a) ELSE Len(b)
           m == IF Len(b) < Len(a) THEN Len(b) ELSE Len(a)
<1>1. Len(a) \in Nat /\ Len(b) \in Nat
  BY VersionFacts
<1>2. n \in Nat /\ m = n
  BY <1>1
<1>3. isNewerVersion(a, b) = Higher(a, b, n, 1)
  BY <1>1, NewerIsFound
<1>4. isNewerVersion(b, a) = Higher(b, a, m, 1)
  BY <1>1, NewerIsFound
<1> HIDE DEF m
<1>5. QED
  BY <1>2, <1>3, <1>4

LEMMA NewerIsOneWay == NewerOneWay
<1> SUFFICES ASSUME NEW a \in Versions, NEW b \in Versions,
                    isNewerVersion(a, b), isNewerVersion(b, a)
             PROVE  FALSE
  BY DEF NewerOneWay
<1>1. PICK n \in Nat : /\ n = IF Len(a) < Len(b) THEN Len(a) ELSE Len(b)
                       /\ Higher(a, b, n, 1) /\ Higher(b, a, n, 1)
  BY NewerIsHigher2
<1>2. Len(a) \in Nat /\ Len(b) \in Nat
  BY VersionFacts
<1>3. \A k \in 1..n : k \in 1..Len(a) /\ k \in 1..Len(b)
  BY <1>1, <1>2
<1>4. \A k \in 1..n : ~ (PartLess(b[k], a[k]) /\ PartLess(a[k], b[k]))
  BY <1>3, VersionFacts, PartLessOneWay
<1>5. CASE \E k \in 1..n : PartLess(b[k], a[k]) /\ \A j \in 1..k-1 : Tied(a[j], b[j])
  <2>1. PICK k \in 1..n : PartLess(b[k], a[k]) /\ \A j \in 1..k-1 : Tied(a[j], b[j])
    BY <1>5
  <2>2. ~Tied(b[k], a[k])
    BY <2>1 DEF Tied
  <2>3. PICK l \in 1..n : PartLess(a[l], b[l]) /\ \A j \in 1..l-1 : Tied(b[j], a[j])
    BY <1>1, <2>2 DEF Higher
  <2>4. k \in 1..l-1 \/ l \in 1..k-1 \/ k = l
    OBVIOUS
  <2>5. QED
    BY <1>4, <2>1, <2>3, <2>4 DEF Tied
<1>6. CASE Len(a) > Len(b) /\ \A j \in 1..n : Tied(a[j], b[j])
  <2>1. ~ (Len(b) > Len(a))
    BY <1>2, <1>6
  <2>2. PICK l \in 1..n : PartLess(a[l], b[l])
    BY <1>1, <2>1 DEF Higher
  <2>3. QED
    BY <1>6, <2>2 DEF Tied
<1>7. QED
  BY <1>1, <1>5, <1>6 DEF Higher

LEMMA OrderIsRight == OrderAgrees
<1> SUFFICES ASSUME NEW a \in Versions, NEW b \in Versions, ByNumbers(a, b)
             PROVE  isNewerVersion(a, b) <=> Precedes(b, a)
  BY DEF OrderAgrees
<1>1. PICK n \in Nat : /\ n = IF Len(a) < Len(b) THEN Len(a) ELSE Len(b)
                       /\ isNewerVersion(a, b) <=> Higher(a, b, n, 1)
  BY NewerIsHigher2
<1>2. Len(a) \in Nat /\ Len(b) \in Nat
  BY VersionFacts
<1>3. /\ \A k : k \in 1..n <=> k \in 1..Len(b) /\ k <= Len(a)
      /\ \A k : k \in 1..n <=> k \in 1..Len(a) /\ k <= Len(b)
      /\ Len(b) < Len(a) => n = Len(b)
  BY <1>1, <1>2
<1>4. \A k \in 1..n : /\ a[k] \in [num : Nat, label : Nat, build : Nat]
                      /\ b[k] \in [num : Nat, label : Nat, build : Nat]
  BY <1>3, VersionFacts
<1>5. \A k \in 1..n : a[k] = b[k] => Tied(a[k], b[k])
  BY <1>4, PartLessOneWay DEF Tied
<1>6. ASSUME NEW k \in 1..n, \A j \in 1..k-1 : a[j] = b[j], a[k] # b[k]
      PROVE  /\ PartLess(b[k], a[k]) <=> b[k].num < a[k].num
             /\ ~Tied(a[k], b[k])
  <2>1. k <= Len(b) /\ k \in 1..Len(a)
    BY <1>3
  <2>2. Numeric(a[k]) /\ Numeric(b[k])
    BY <1>6, <2>1 DEF ByNumbers
  <2>3. /\ PartLess(b[k], a[k]) <=> b[k].num < a[k].num
        /\ PartLess(a[k], b[k]) <=> a[k].num < b[k].num
    BY <2>2 DEF PartLess
  <2>4. a[k].num # b[k].num
    BY <1>4, <1>6, <2>2 DEF Numeric, NoLabel, NoBuild
  <2>5. a[k].num \in Nat /\ b[k].num \in Nat
    BY <1>4
  <2>6. QED
    BY <2>3, <2>4, <2>5 DEF Tied
\* As far as the parts are the same, they are equal.
<1>7. ASSUME NEW k \in 1..n+1, \A j \in 1..k-1 : Tied(a[j], b[j])
      PROVE  \A j \in 1..k-1 : a[j] = b[j]
  <2>1. SUFFICES ASSUME NEW x \in 1..k-1, a[x] # b[x]
                 PROVE  FALSE
    OBVIOUS
  <2> DEFINE S == {d \in Nat : d \in 1..k-1 /\ a[d] # b[d]}
  <2>2. S \in SUBSET Nat /\ x \in S
    BY <2>1, <1>1
  <2>3. PICK d \in S : \A e \in S : d <= e
    <3> HIDE DEF S
    <3>1. QED
      BY <2>2, NatMin
  <2>4. d \in 1..k-1 /\ d \in 1..n /\ a[d] # b[d]
    BY <2>3, <1>1
  <2>5. ASSUME NEW j \in 1..d-1, a[j] # b[j]
        PROVE  FALSE
    <3>1. j \in S
      BY <2>4, <2>5, <1>1
    <3>2. QED
      BY <2>3, <3>1, <2>4, <1>1
  <2>6. ~Tied(a[d], b[d])
    BY <1>6, <2>4, <2>5
  <2>7. QED
    BY <1>7, <2>4, <2>6
<1>8. ASSUME NEW k \in 1..n, PartLess(b[k], a[k]), \A j \in 1..k-1 : Tied(a[j], b[j])
      PROVE  Precedes(b, a)
  <2>1. \A j \in 1..k-1 : a[j] = b[j]
    BY <1>7, <1>8
  <2>2. a[k] # b[k]
    BY <1>5, <1>8 DEF Tied
  <2>3. b[k].num < a[k].num
    BY <1>6, <1>8, <2>1, <2>2
  <2>4. k \in 1..Len(b) /\ k <= Len(a)
    BY <1>3
  <2>5. QED
    BY <2>1, <2>3, <2>4 DEF Precedes
<1>9. ASSUME Len(a) > Len(b), \A j \in 1..n : Tied(a[j], b[j])
      PROVE  Precedes(b, a)
  <2>1. Len(b) < Len(a) /\ n = Len(b)
    BY <1>2, <1>3, <1>9
  <2>2. n + 1 \in 1..n+1 /\ 1..(n+1)-1 = 1..n
    OBVIOUS
  <2>3. \A j \in 1..n : a[j] = b[j]
    BY <1>7, <1>9, <2>2
  <2>4. QED
    BY <2>1, <2>3 DEF Precedes
<1>10. ASSUME NEW k \in 1..Len(b), k <= Len(a), b[k].num < a[k].num, \A j \in 1..k-1 : b[j] = a[j]
       PROVE  Higher(a, b, n, 1)
  <2>1. k \in 1..n
    BY <1>3, <1>10
  <2>2. a[k].num \in Nat /\ b[k].num \in Nat
    BY <1>4, <2>1
  <2>3. a[k] # b[k]
    BY <1>10, <2>2
  <2>4. PartLess(b[k], a[k])
    BY <1>6, <1>10, <2>1, <2>3
  <2>5. \A j \in 1..k-1 : Tied(a[j], b[j])
    BY <1>5, <1>10, <2>1
  <2>6. QED
    BY <2>1, <2>4, <2>5 DEF Higher
<1>11. ASSUME Len(b) < Len(a), \A j \in 1..Len(b) : b[j] = a[j]
       PROVE  Higher(a, b, n, 1)
  <2>1. n = Len(b) /\ Len(a) > Len(b)
    BY <1>2, <1>3, <1>11
  <2>2. \A j \in 1..n : Tied(a[j], b[j])
    BY <1>5, <1>11, <2>1
  <2>3. QED
    BY <2>1, <2>2 DEF Higher
<1>12. Higher(a, b, n, 1) => Precedes(b, a)
  BY <1>8, <1>9 DEF Higher
<1>13. Precedes(b, a) => Higher(a, b, n, 1)
  BY <1>10, <1>11 DEF Precedes
<1>14. QED
  BY <1>1, <1>12, <1>13

LEMMA PatchRuleIsRight == PatchRuleAgrees
<1> SUFFICES ASSUME NEW a \in Versions, NEW b \in Versions, Len(a) >= 3, Len(b) >= 3
             PROVE  (isNewerVersion(b, a) /\ ~isPatchUpdate(a, b))
                       <=> \/ a[1].num < b[1].num
                           \/ a[1].num = b[1].num /\ a[2].num < b[2].num
  BY DEF PatchRuleAgrees
<1>1. PICK n \in Nat : /\ n = IF Len(b) < Len(a) THEN Len(b) ELSE Len(a)
                       /\ isNewerVersion(b, a) <=> Higher(b, a, n, 1)
  BY NewerIsHigher2
<1>2. Len(a) \in Nat /\ Len(b) \in Nat /\ 1 \in 1..n /\ 2 \in 1..n
  BY <1>1, VersionFacts
<1>3. \A k \in {1, 2} : k \in 1..Len(a) /\ k \in 1..Len(b) /\ k # 3 /\ k # Len(a) /\ k # Len(b)
  BY <1>2
<1>4. \A k \in {1, 2} : /\ Numeric(a[k]) /\ Numeric(b[k])
                        /\ a[k].num \in Nat /\ b[k].num \in Nat
  BY <1>3, VersionFacts DEF Numeric
<1>5. \A k \in {1, 2} : /\ PartLess(a[k], b[k]) <=> a[k].num < b[k].num
                        /\ Tied(b[k], a[k]) <=> a[k].num = b[k].num
  BY <1>4 DEF PartLess, Tied
<1>6. isPatchUpdate(a, b) <=> a[1].num = b[1].num /\ a[2].num = b[2].num
  BY <1>2 DEF isPatchUpdate
<1>7. 1..(1-1) = {} /\ 1..(2-1) = {1}
  OBVIOUS
<1>8. a[1].num < b[1].num => Higher(b, a, n, 1)
  BY <1>2, <1>5, <1>7 DEF Higher
<1>9. (a[1].num = b[1].num /\ a[2].num < b[2].num) => Higher(b, a, n, 1)
  BY <1>2, <1>5, <1>7 DEF Higher
<1>10. ASSUME Higher(b, a, n, 1), ~ (a[1].num = b[1].num /\ a[2].num = b[2].num)
       PROVE  \/ a[1].num < b[1].num
              \/ a[1].num = b[1].num /\ a[2].num < b[2].num
  <2>1. ~ \A j \in 1..n : Tied(b[j], a[j])
    BY <1>2, <1>5, <1>10
  <2>2. PICK k \in 1..n : PartLess(a[k], b[k]) /\ \A j \in 1..k-1 : Tied(b[j], a[j])
    BY <1>10, <2>1 DEF Higher
  <2>3. CASE k = 1
    BY <1>5, <2>2, <2>3
  <2>4. CASE k = 2
    BY <1>5, <1>7, <2>2, <2>4
  <2>5. CASE k > 2
    <3>1. 1 \in 1..k-1 /\ 2 \in 1..k-1
      BY <2>5
    <3>2. QED
      BY <1>5, <1>10, <2>2, <3>1
  <2>6. QED
    BY <2>3, <2>4, <2>5
<1>11. /\ a[1].num < b[1].num => a[1].num # b[1].num
       /\ a[2].num < b[2].num => a[2].num # b[2].num
  BY <1>4
<1>12. QED
  BY <1>1, <1>6, <1>8, <1>9, <1>10, <1>11

\* Where numbers tell two versions apart, isNewerVersion is their order; of no
\* two versions, with labels and build numbers too, is each newer than the
\* other; and isPatchUpdate leaves out exactly the patch releases.
THEOREM VersionsAreOrdered == Spec => []VersionsOrdered
<1>1. VersionsOrdered
  BY OrderIsRight, NewerIsOneWay, PatchRuleIsRight DEF VersionsOrdered, NewerIsHigher, PatchesExcluded
<1>2. QED
  BY <1>1, PTL

--------------------------------------------------------------------------------
\* The update manager: types.

\* A download or an update under way knows its release.
HasRelease ==
    \A c \in Clients :
       pc[c] \in {"create", "body", "checksum"} \union ApplySteps => rel[c] # 0

ManagerInv == UpdateTypeOK /\ HasRelease

\* fetchLatestRelease finds one, and a prerelease only for those who want one.
LEMMA FetchedIs ==
    ASSUME latest \in Releases, NEW pre \in BOOLEAN
    PROVE  /\ Fetched(pre) \in Releases
           /\ pre \/ Fetched(pre) \notin Prereleases
<1> DEFINE S == {d \in Nat : \E r \in 1..latest : d = latest - r /\ (pre \/ r \notin Prereleases)}
<1>1. latest \in Nat /\ latest >= 1 /\ latest <= MaxVersion /\ MaxVersion \in Nat
  BY UpdateAssumption DEF Releases
<1>2. latest - 1 \in S
  <2>1. 1 \in 1..latest /\ latest - 1 \in Nat
    BY <1>1
  <2>2. QED
    BY <2>1, UpdateAssumption
<1>3. PICK d \in S : \A e \in S : d <= e
  <2>1. S \in SUBSET Nat /\ S # {}
    BY <1>2
  <2> HIDE DEF S
  <2>2. QED
    BY <2>1, NatMin
<1>4. PICK r \in 1..latest : d = latest - r /\ (pre \/ r \notin Prereleases)
  BY <1>3
<1>5. ASSUME NEW q \in r+1..latest
      PROVE  ~pre /\ q \in Prereleases
  <2>1. q \in 1..latest /\ latest - q \in Nat /\ ~ (d <= latest - q)
    BY <1>1, <1>4
  <2>2. latest - q \notin S
    BY <2>1, <1>3
  <2>3. QED
    BY <2>1, <2>2
<1>6. Fetched(pre) \in 1..latest /\ (pre \/ Fetched(pre) \notin Prereleases)
  BY <1>4, <1>5 DEF Fetched
<1>7. QED
  BY <1>1, <1>6 DEF Releases

LEMMA UpdateStarts == UpdateInit => ManagerInv
<1> SUFFICES ASSUME UpdateInit PROVE ManagerInv
  OBVIOUS
<1>1. 1 \in Releases /\ 0 \in 0..MaxVersion /\ 1 \in 0..MaxVersion
      /\ 0 \in 0..Faults /\ 0 \in 0..MaxSaves
  BY UpdateAssumption DEF Releases
<1>2. install \in Dir
  BY <1>1 DEF UpdateInit, Dir
<1>3. QED
  BY <1>1, <1>2 DEF UpdateInit, ManagerInv, UpdateTypeOK, HasRelease, States, ApplySteps

LEMMA CheckTypes ==
    ASSUME ManagerInv, NEW c \in Checkers, NEW pre \in BOOLEAN, NEW patches \in BOOLEAN,
           CheckBegin(c) \/ Check(c, pre, patches)
    PROVE  ManagerInv'
<1>1. CASE CheckBegin(c)
  BY <1>1 DEF CheckBegin, At, ManagerInv, UpdateTypeOK, HasRelease, States, ApplySteps,
              world, cache, dirs, client, store, ghost
<1>2. CASE CheckFails(c)
  BY <1>2 DEF CheckFails, At, ManagerInv, UpdateTypeOK, HasRelease, States, ApplySteps,
              world, cache, dirs, client, store, ghost
<1>3. CASE CheckNothing(c, pre, patches)
  BY <1>3 DEF CheckNothing, At, ManagerInv, UpdateTypeOK, HasRelease, States, ApplySteps,
              world, cache, dirs, client, store, ghost
<1>4. CASE CheckFound(c, pre, patches)
  <2>1. Fetched(pre) \in 0..MaxVersion /\ Fetched(pre) # 0
    <3>1. latest \in Releases
      BY DEF ManagerInv, UpdateTypeOK
    <3>2. QED
      BY <3>1, FetchedIs, UpdateAssumption DEF Releases
  <2>2. QED
    BY <1>4, <2>1 DEF CheckFound, At, ManagerInv, UpdateTypeOK, HasRelease, States, ApplySteps,
                      world, cache, dirs, client, store, ghost
<1>5. QED
  BY <1>1, <1>2, <1>3, <1>4 DEF Check

\* A download's progress that a call has to itself is one.
LEMMA ProgressOfOne ==
    ASSUME NEW c, progress.by = {c}
    PROVE  progress # NoProgress
  BY DEF NoProgress

LEMMA DownloadTypes ==
    ASSUME ManagerInv, NEW c \in Clients, Download(c)
    PROVE  ManagerInv'
<1> USE DEF At, ManagerInv, UpdateTypeOK, HasRelease, States, ApplySteps,
            world, cache, dirs, client, store, ghost
<1>0. /\ Progress(c, "downloading", 0) \in [by : {{d} : d \in Clients}, state : DownloadStates, path : 0..MaxVersion]
      /\ \A r \in 0..MaxVersion :
           Progress(c, "completed", r) \in [by : {{d} : d \in Clients}, state : DownloadStates, path : 0..MaxVersion]
  BY UpdateAssumption DEF Progress, DownloadStates
<1>1. CASE DownloadBegin(c)
  BY <1>1 DEF DownloadBegin
<1>2. CASE DownloadFails(c)
  <2>1. 0 \in 0..MaxVersion
    BY UpdateAssumption
  <2>2. progress' = progress \/ progress' = Progress(c, "downloading", 0)
    BY <1>2 DEF DownloadFails
  <2>3. progress' \in [by : {{d} : d \in Clients}, state : DownloadStates, path : 0..MaxVersion]
                      \union {NoProgress}
    <3> HIDE DEF HasRelease
    <3>1. QED
      BY <1>0, <2>2
  <2>4. QED
    BY <1>2, <2>1, <2>3 DEF DownloadFails
<1>3. CASE DownloadCreate(c)
  BY <1>3 DEF DownloadCreate
<1>4. CASE DownloadBody(c)
  <2>1. progress' \in [by : {{d} : d \in Clients}, state : DownloadStates, path : 0..MaxVersion]
    BY <1>0, <1>4 DEF DownloadBody
  <2>2. tar' \in [Releases -> {"none", "part", "good", "bad"}]
    BY <1>4 DEF DownloadBody
  <2>3. QED
    BY <1>4, <2>1, <2>2 DEF DownloadBody
<1>5. CASE DownloadRejected(c)
  <2>1. progress.by = {c} => progress # NoProgress
    BY ProgressOfOne
  <2>2. "verifying" \in DownloadStates
    BY DEF DownloadStates
  <2>3. progress.by = {c} =>
           [progress EXCEPT !.state = "verifying"]
              \in [by : {{d} : d \in Clients}, state : DownloadStates, path : 0..MaxVersion]
    BY <2>1, <2>2
  <2>4. 0 \in 0..MaxVersion
    BY UpdateAssumption
  <2>5. QED
    BY <1>5, <2>3, <2>4 DEF DownloadRejected
<1>6. CASE DownloadDone(c)
  <2>1. rel[c] \in Releases
    BY <1>6, UpdateAssumption DEF DownloadDone, Releases
  <2>2. QED
    BY <1>0, <1>6, <2>1 DEF DownloadDone
<1>7. QED
  BY <1>1, <1>2, <1>3, <1>4, <1>5, <1>6 DEF Download

LEMMA ApplyTypes ==
    ASSUME ManagerInv, NEW c \in Clients, Apply(c)
    PROVE  ManagerInv'
<1> USE DEF At, ManagerInv, UpdateTypeOK, HasRelease, States, ApplySteps,
            world, cache, dirs, client, store, ghost
<1>0. /\ EmptyDir \in Dir
      /\ \A n \in 0..Faults : (IF n > 0 THEN n - 1 ELSE 0) \in 0..Faults
      /\ Faults \in 0..Faults
      /\ \A d \in Dir : [d EXCEPT !.whole = FALSE] \in Dir /\ [d EXCEPT !.whole = TRUE] \in Dir
  <2>1. EmptyDir \in Dir
    BY UpdateAssumption DEF EmptyDir, Dir
  <2>2. Faults \in Nat
    BY UpdateAssumption
  <2>3. \A d \in Dir : [d EXCEPT !.whole = FALSE] \in Dir /\ [d EXCEPT !.whole = TRUE] \in Dir
    BY DEF Dir
  <2>4. QED
    BY <2>1, <2>2, <2>3
<1>1. CASE ApplyBegin(c)
  <2>1. left' \in [Clients -> 0..Faults]
    BY <1>0, <1>1 DEF ApplyBegin
  <2>2. cut' \in {"no", "yes", "over"}
    BY <1>1 DEF ApplyBegin
  <2>3. QED
    BY <1>1, <2>1, <2>2 DEF ApplyBegin
<1>2. CASE ApplyClean(c)
  <2>1. left' \in [Clients -> 0..Faults]
    BY <1>0, <1>2 DEF ApplyClean, Fault, Spend
  <2>2. backup' \in Dir \union {NoDir}
    BY <1>0, <1>2 DEF ApplyClean
  <2>3. QED
    BY <1>2, <2>1, <2>2 DEF ApplyClean
<1>3. CASE ApplyStash(c)
  BY <1>3 DEF ApplyStash
<1>4. CASE ApplyStashFails(c)
  BY <1>0, <1>4 DEF ApplyStashFails, Fault, Spend, Return
<1>5. CASE ApplyMkdir(c)
  BY <1>0, <1>5 DEF ApplyMkdir
<1>6. CASE ApplyMkdirFails(c)
  BY <1>0, <1>6 DEF ApplyMkdirFails, Fault, Spend
<1>7. CASE ApplyExtract(c)
  <2>1. install' \in Dir
    <3>1. (tar[rel[c]] = "good") \in BOOLEAN
      BY SMT
    <3>2. install \in Dir /\ rel[c] \in 0..MaxVersion
      BY <1>7 DEF ApplyExtract
    <3> DEFINE good == tar[rel[c]] = "good"
    <3>3. install' = [install EXCEPT !.version = rel[c], !.whole = FALSE, !.sound = good]
      BY <1>7 DEF ApplyExtract
    <3> HIDE DEF good
    <3>4. QED
      BY <3>1, <3>2, <3>3 DEF Dir, good
  <2>2. QED
    BY <1>7, <2>1 DEF ApplyExtract
<1>8. CASE ApplyDone(c)
  BY <1>0, <1>8 DEF ApplyDone, Return
<1>9. CASE ApplyExtractFails(c)
  BY <1>0, <1>9 DEF ApplyExtractFails, Spend
<1>10. CASE ApplyRemove(c)
  BY <1>0, <1>10 DEF ApplyRemove, Fault, Spend
<1>11. CASE ApplyRestore(c)
  BY <1>0, <1>11 DEF ApplyRestore, Fault, Spend, Return
<1>12. QED
  BY <1>1, <1>2, <1>3, <1>4, <1>5, <1>6, <1>7, <1>8, <1>9, <1>10, <1>11 DEF Apply

LEMMA UpdateTypes == ManagerInv /\ [UpdateNext]_uvars => ManagerInv'
<1> SUFFICES ASSUME ManagerInv, [UpdateNext]_uvars
             PROVE  ManagerInv'
  OBVIOUS
<1>1. ASSUME NEW c \in Checkers, NEW pre \in BOOLEAN, NEW patches \in BOOLEAN,
             CheckBegin(c) \/ Check(c, pre, patches)
      PROVE  ManagerInv'
  BY <1>1, CheckTypes
<1>2. ASSUME NEW c \in Clients, Download(c) \/ Apply(c)
      PROVE  ManagerInv'
  BY <1>2, DownloadTypes, ApplyTypes
<1> USE DEF ManagerInv, UpdateTypeOK, HasRelease, States, ApplySteps,
            world, cache, dirs, client, store, ghost
<1>3. CASE Publish
  <2>1. latest + 1 \in Releases
    BY <1>3, UpdateAssumption DEF Publish, Releases
  <2>2. QED
    BY <1>3, <2>1 DEF Publish
<1>4. CASE Crash
  <2>1. /\ rel' \in [Clients -> 0..MaxVersion]
        /\ \A c \in Clients \union Checkers : pc'[c] = "idle"
        /\ pc' = [c \in Clients \union Checkers |-> "idle"]
    BY <1>4, UpdateAssumption DEF Crash
  <2>2. cut' \in {"no", "yes", "over"}
    BY <1>4 DEF Crash
  <2>3. QED
    BY <1>4, <2>1, <2>2 DEF Crash
<1>5. CASE Restart
  <2>1. install.version \in Releases
    BY <1>5, UpdateAssumption DEF Restart, Dir, Releases
  <2>2. 0 \in 0..MaxVersion
    BY UpdateAssumption
  <2>3. QED
    BY <1>5, <2>1, <2>2 DEF Restart
<1>6. CASE StoreSave
  <2>1. saves + 1 \in 0..MaxSaves
    BY <1>6, UpdateAssumption DEF StoreSave
  <2>2. \A d \in Dir : [d EXCEPT !.meta = saves + 1] \in Dir
    BY <2>1 DEF Dir
  <2>3. install' \in Dir \union {NoDir} /\ acked' \in 0..MaxSaves
    BY <1>6, <2>1, <2>2 DEF StoreSave
  <2>4. QED
    BY <1>6, <2>1, <2>3 DEF StoreSave
<1>7. CASE UNCHANGED uvars
  BY <1>7 DEF uvars
<1>8. QED
  <2>1. (\E c \in Checkers : CheckBegin(c) \/ \E pre, patches \in BOOLEAN : Check(c, pre, patches))
           => ManagerInv'
    BY <1>1
  <2>2. UpdateStep => ManagerInv'
    BY <1>2, <1>3, <1>4, <1>5, Zenon DEF UpdateStep
  <2>3. QED
    BY <1>6, <1>7, <2>1, <2>2, Zenon DEF UpdateNext

--------------------------------------------------------------------------------
\* The settings.

\* Between two calls that ended well the file holds the settings in force; the
\* settings that a check loaded are among those it may use.
SettingsInv ==
    /\ part \in {"install", "settings"}
    /\ asked \subseteq Settings
    /\ file \in asked \union {NoSettings, TornSettings}
    /\ setting \in asked \union {NoSettings}
    /\ settled \in Settings \union {NoSettings}
    /\ loaded \in [Checkers -> Settings]
    /\ allowed \in [Checkers -> SUBSET Settings]
    /\ shown.answer \in Settings \union {NoSettings}
    /\ (setting = NoSettings /\ settled # NoSettings) =>
          \/ file = settled
          \/ file = NoSettings /\ settled = DefaultSettings
    /\ \A c \in Checkers : (part = "settings" /\ pc[c] = "fetch") => loaded[c] \in allowed[c]
    /\ SettingsShown

\* Every step of the whole is one of the manager or leaves it alone.
LEMMA StepsOfManager == SettingsInv /\ [Next]_vars => [UpdateNext]_uvars
<1> SUFFICES ASSUME SettingsInv, [Next]_vars PROVE [UpdateNext]_uvars
  OBVIOUS
<1>1. CASE Install
  BY <1>1 DEF Install, UpdateNext
<1>2. ASSUME NEW c \in Checkers, CheckForUpdates(c)
      PROVE  UpdateNext
  <2>1. loaded[c].pre \in BOOLEAN /\ loaded[c].patches \in BOOLEAN
    BY DEF SettingsInv, Settings
  <2>2. QED
    BY <1>2, <2>1, Zenon DEF CheckForUpdates, UpdateNext
<1>3. ASSUME NEW c \in Checkers, NEW readable \in BOOLEAN, CheckLoad(c, readable)
      PROVE  UpdateNext
  BY <1>3, Zenon DEF CheckLoad, UpdateNext
<1>4. CASE CrashOrRestart
  BY <1>4, Zenon DEF CrashOrRestart, UpdateNext, UpdateStep
<1>5. CASE part = "settings" /\ Publish /\ UNCHANGED svars
  BY <1>5, Zenon DEF UpdateNext, UpdateStep
<1>6. CASE part \in SavingParts /\ StoreSave /\ UNCHANGED svars
  BY <1>6, Zenon DEF UpdateNext
<1>7. CASE \E readable \in BOOLEAN : GetUpdateSettings(readable)
  BY <1>7, Zenon DEF GetUpdateSettings, uvars
<1>8. CASE (\E s \in Settings : SaveOpen(s)) \/ SaveWrite \/ SaveFails
  BY <1>8, Zenon DEF SaveOpen, SaveWrite, SaveFails, uvars
<1>9. CASE UNCHANGED vars
  BY <1>9, Zenon DEF vars, uvars
<1>10. QED
  BY <1>1, <1>2, <1>3, <1>4, <1>5, <1>6, <1>7, <1>8, <1>9, Zenon DEF Next

LEMMA SettingsStart == Init => SettingsInv
<1> SUFFICES ASSUME Init PROVE SettingsInv
  OBVIOUS
<1>1. DefaultSettings \in Settings
  BY DEF DefaultSettings, Settings
<1>2. shown.answer = shown.settled /\ shown.answer = DefaultSettings
  BY DEF Init
<1>3. \A c \in Checkers : pc[c] = "idle"
  BY DEF Init, UpdateInit
<1>4. QED
  BY <1>1, <1>2, <1>3 DEF Init, SettingsInv, SettingsShown

\* What a check loads it may use.
LEMMA LoadedIsAllowed ==
    ASSUME SettingsInv, NEW readable \in BOOLEAN
    PROVE  /\ LoadSettings(readable) \in Allowed
           /\ LoadSettings(readable) \in Settings
           /\ Allowed \subseteq Settings
<1>1. DefaultSettings \in Settings /\ ZeroSettings \in Settings
  BY DEF DefaultSettings, ZeroSettings, Settings
<1>2. NoSettings \notin Settings /\ TornSettings \notin Settings /\ NoSettings # TornSettings
  BY SettingsAssumption
<1> HIDE DEF Settings
<1>3. QED
  BY <1>1, <1>2 DEF SettingsInv, LoadSettings, Allowed

LEMMA SettingsSteps == SettingsInv /\ [Next]_vars => SettingsInv'
<1> SUFFICES ASSUME SettingsInv, [Next]_vars PROVE SettingsInv'
  OBVIOUS
<1>0. /\ NoSettings \notin Settings /\ TornSettings \notin Settings /\ NoSettings # TornSettings
      /\ DefaultSettings \in Settings
  BY SettingsAssumption DEF DefaultSettings, Settings
\* A step of the manager that keeps the settings and lets no check begin.
<1>1. ASSUME UNCHANGED svars,
             \A c \in Checkers : (part = "settings" /\ pc'[c] = "fetch") => pc[c] = "fetch"
      PROVE  SettingsInv'
  BY <1>1 DEF svars, SettingsInv, SettingsShown
<1>2. CASE Install
  BY <1>1, <1>2 DEF Install
<1>3. ASSUME NEW c \in Checkers, CheckForUpdates(c)
      PROVE  SettingsInv'
  <2>1. UNCHANGED svars /\ pc' = [pc EXCEPT ![c] = "idle"]
    BY <1>3 DEF CheckForUpdates, Check, CheckFails, CheckNothing, CheckFound, At
  <2>2. QED
    BY <1>1, <2>1
<1>4. ASSUME NEW c \in Checkers, NEW readable \in BOOLEAN, CheckLoad(c, readable)
      PROVE  SettingsInv'
  <2>1. /\ LoadSettings(readable) \in Allowed
        /\ LoadSettings(readable) \in Settings
        /\ Allowed \in SUBSET Settings
    BY LoadedIsAllowed
  <2>2. /\ loaded' = [loaded EXCEPT ![c] = LoadSettings(readable)]
        /\ allowed' = [allowed EXCEPT ![c] = Allowed]
        /\ pc' = [pc EXCEPT ![c] = "fetch"]
        /\ UNCHANGED <<part, file, setting, sets, settled, asked, shown>>
    BY <1>4 DEF CheckLoad, CheckBegin, At
  <2>3. loaded' \in [Checkers -> Settings] /\ allowed' \in [Checkers -> SUBSET Settings]
    BY <2>1, <2>2 DEF SettingsInv
  <2>4. ASSUME NEW d \in Checkers, part = "settings", pc'[d] = "fetch"
        PROVE  loaded'[d] \in allowed'[d]
    BY <2>1, <2>2, <2>4 DEF SettingsInv
  <2>5. QED
    BY <2>2, <2>3, <2>4 DEF SettingsInv, SettingsShown
<1>5. ASSUME NEW readable \in BOOLEAN, GetUpdateSettings(readable)
      PROVE  SettingsInv'
  <2>1. /\ shown'.answer = IF file # NoSettings /\ (~readable \/ file = TornSettings)
                            THEN NoSettings ELSE LoadSettings(readable)
        /\ shown'.settled = IF setting = NoSettings THEN settled ELSE NoSettings
        /\ UNCHANGED <<part, file, setting, sets, settled, asked, loaded, allowed, pc>>
    BY <1>5 DEF GetUpdateSettings, uvars
  <2>2. \/ shown'.answer = NoSettings
        \/ shown'.answer = DefaultSettings /\ file = NoSettings
        \/ shown'.answer = file /\ file \in asked
    BY <1>0, <2>1 DEF LoadSettings, SettingsInv
  <2>3. SettingsShown' /\ shown'.answer \in Settings \union {NoSettings}
    BY <1>0, <2>1, <2>2 DEF SettingsInv, SettingsShown
  <2>4. QED
    BY <2>1, <2>3 DEF SettingsInv
<1>6. ASSUME NEW s \in Settings, SaveOpen(s)
      PROVE  SettingsInv'
  BY <1>0, <1>6 DEF SaveOpen, SettingsInv, SettingsShown, uvars
<1>7. CASE SaveWrite
  BY <1>0, <1>7 DEF SaveWrite, SettingsInv, SettingsShown, uvars
<1>8. CASE SaveFails
  BY <1>0, <1>8 DEF SaveFails, SettingsInv, SettingsShown, uvars
<1>9. CASE CrashOrRestart
  <2>1. \A c \in Checkers : pc'[c] = "fetch" => pc[c] = "fetch"
    BY <1>9 DEF CrashOrRestart, Crash, Restart
  <2>2. /\ settled' = IF setting = NoSettings THEN settled ELSE NoSettings
        /\ setting' = NoSettings
        /\ UNCHANGED <<part, file, sets, asked, loaded, allowed, shown>>
    BY <1>9 DEF CrashOrRestart
  <2>3. QED
    BY <1>0, <2>1, <2>2 DEF SettingsInv, SettingsShown
<1>10. CASE Publish /\ UNCHANGED svars
  BY <1>1, <1>10 DEF Publish
<1>11. CASE StoreSave /\ UNCHANGED svars
  BY <1>1, <1>11 DEF StoreSave
<1>12. CASE UNCHANGED vars
  BY <1>1, <1>12 DEF vars, uvars
<1>13. QED
  BY <1>2, <1>3, <1>4, <1>5, <1>6, <1>7, <1>8, <1>9, <1>10, <1>11, <1>12, Zenon DEF Next

\* A check offers what the settings it loaded include.
LEMMA OffersFit ==
    ASSUME SettingsInv, ManagerInv, Next, NEW c \in Checkers,
           part = "settings", up', pc[c] = "fetch", pc'[c] = "idle", state' = "available"
    PROVE  \E s \in allowed[c] : /\ available' \in Prereleases => s.pre
                                 /\ Patch(available') => s.patches
<1> USE DEF world, cache, dirs, client, store, ghost
<1>1. ASSUME NEW d \in Checkers, CheckForUpdates(d)
      PROVE  CheckFound(c, loaded[c].pre, loaded[c].patches)
  <2>1. pc' = [pc EXCEPT ![d] = "idle"]
    BY <1>1 DEF CheckForUpdates, Check, CheckFails, CheckNothing, CheckFound, At
  <2>2. c = d
    BY <2>1
  <2>3. Check(c, loaded[c].pre, loaded[c].patches)
    BY <1>1, <2>2 DEF CheckForUpdates
  <2>4. QED
    BY <2>3 DEF Check, CheckFails, CheckNothing
<1>2. ASSUME NEW d \in Checkers, NEW readable \in BOOLEAN, CheckLoad(d, readable)
      PROVE  FALSE
  BY <1>2 DEF CheckLoad, CheckBegin
<1>3. ASSUME UNCHANGED pc
      PROVE  FALSE
  BY <1>3
<1>4. \/ \E d \in Checkers : CheckForUpdates(d)
      \/ \E d \in Checkers, readable \in BOOLEAN : CheckLoad(d, readable)
      \/ UNCHANGED pc
  <2>1. ~Install
    BY DEF Install
  <2>2. CrashOrRestart => UNCHANGED pc
    BY DEF CrashOrRestart, Crash, Restart
  <2>3. (\E readable \in BOOLEAN : GetUpdateSettings(readable)) => UNCHANGED pc
    BY DEF GetUpdateSettings, uvars
  <2>4. ((\E s \in Settings : SaveOpen(s)) \/ SaveWrite \/ SaveFails) => UNCHANGED pc
    BY DEF SaveOpen, SaveWrite, SaveFails, uvars
  <2>5. Publish \/ StoreSave => UNCHANGED pc
    BY DEF Publish, StoreSave
  <2>6. QED
    BY <2>1, <2>2, <2>3, <2>4, <2>5, Zenon DEF Next
<1>5. CheckFound(c, loaded[c].pre, loaded[c].patches)
  BY <1>1, <1>2, <1>3, <1>4
<1>6. loaded[c] \in allowed[c] /\ loaded[c].pre \in BOOLEAN
  BY DEF SettingsInv, Settings
<1>7. available' \in Prereleases => loaded[c].pre
  <2>1. latest \in Releases
    BY DEF ManagerInv, UpdateTypeOK
  <2>2. available' = Fetched(loaded[c].pre)
    BY <1>5 DEF CheckFound
  <2>3. QED
    BY <1>6, <2>1, <2>2, FetchedIs
<1>8. Patch(available') => loaded[c].patches
  BY <1>5 DEF CheckFound, Offered, Patch
<1>9. QED
  BY <1>6, <1>7, <1>8

LEMMA SettingsAlways == Spec => [](SettingsInv /\ ManagerInv)
<1>1. Init => SettingsInv /\ ManagerInv
  BY SettingsStart, UpdateStarts DEF Init
<1>2. SettingsInv /\ ManagerInv /\ [Next]_vars => (SettingsInv /\ ManagerInv)'
  BY SettingsSteps, UpdateTypes, StepsOfManager
<1>3. QED
  BY <1>1, <1>2, PTL DEF Spec

\* GetUpdateSettings shows the settings that SetUpdateSettings answered last.
THEOREM SettingsAreShown == Spec => []SettingsShown
<1>1. SettingsInv => SettingsShown
  BY DEF SettingsInv
<1>2. QED
  BY <1>1, SettingsAlways, PTL

\* No check offers a release that the settings in force when it began exclude,
\* however many checks go on and whatever is written under them.
THEOREM OffersAreWanted == Spec => OfferWanted
<1>1. SettingsInv /\ ManagerInv /\ [Next]_vars =>
         [\A c \in Checkers :
            (/\ part = "settings" /\ up'
             /\ pc[c] = "fetch" /\ pc'[c] = "idle" /\ state' = "available") =>
               \E s \in allowed[c] :
                  /\ available' \in Prereleases => s.pre
                  /\ Patch(available') => s.patches]_vars
  BY OffersFit
<1>2. QED
  BY <1>1, SettingsAlways, PTL DEF Spec, OfferWanted

--------------------------------------------------------------------------------
\* The installation, for one client of whose ApplyUpdate at most one step fails.

OneClient == \E c : Clients = {c}

\* Between the rename of the installation and its replacement.
Replacing == {"mkdir", "open", "extract", "remove", "restore"}

\* d is a directory with the version that the ApplyUpdate of c found.
Same(d, c) == d # NoDir /\ before[c] # NoDir /\ d.version = before[c].version

\* Where the version is that ApplyUpdate found: in its place, or in the backup.
\* When a step has failed, no other will.
VersionKept(c) ==
    /\ pc[c] \in {"clean", "stash"} => Same(install, c)
    /\ pc[c] \in Replacing => Same(backup, c)
    /\ pc[c] \in {"mkdir", "restore"} => install = NoDir
    /\ pc[c] \in {"remove", "restore"} => left[c] = 0
    /\ pc[c] \in ApplySteps => up /\ reply[c] = "none"
    /\ reply[c] = "error" => Same(install, c)
    /\ (up /\ pc[c] \notin ApplySteps) => install # NoDir

\* And where the whole installation is.
WholeKept(c) ==
    /\ (cut = "no" /\ pc[c] \in Replacing) => Whole(backup)
    /\ (cut = "no" /\ pc[c] \notin Replacing) => Whole(install)
    /\ cut = "yes" => pc[c] \notin ApplySteps /\ (Whole(install) \/ Whole(backup))

InstallInv == \A c \in Clients : VersionKept(c) /\ WholeKept(c)

LEMMA OnlyClient ==
    ASSUME OneClient, NEW c \in Clients, NEW d \in Clients
    PROVE  c = d
  BY DEF OneClient

LEMMA InstallStarts == UpdateInit => InstallInv
<1> SUFFICES ASSUME UpdateInit, NEW c \in Clients PROVE VersionKept(c) /\ WholeKept(c)
  BY DEF InstallInv
<1>1. install \in Dir /\ install.whole = TRUE
  <2>1. 1 \in 0..MaxVersion /\ 0 \in 0..MaxSaves
    BY UpdateAssumption
  <2>2. QED
    BY <2>1 DEF UpdateInit, Dir
<1>2. install # NoDir
  BY <1>1, UpdateAssumption
<1>3. pc[c] = "idle" /\ reply[c] = "none" /\ cut = "no"
  BY DEF UpdateInit
<1>4. QED
  BY <1>1, <1>2, <1>3 DEF VersionKept, WholeKept, Whole, Same, Replacing, ApplySteps

\* What leaves the directories alone and the client outside ApplyUpdate.
LEMMA InstallUntouched ==
    ASSUME ManagerInv, InstallInv, NEW c \in Clients,
           UNCHANGED <<up, install, backup, before, left, reply, cut>>,
           pc'[c] = pc[c] \/ (pc[c] \notin ApplySteps /\ pc'[c] \notin ApplySteps)
    PROVE  (VersionKept(c) /\ WholeKept(c))'
<1>1. VersionKept(c) /\ WholeKept(c)
  BY DEF InstallInv
<1>2. CASE pc'[c] = pc[c]
  BY <1>1, <1>2 DEF VersionKept, WholeKept, Same, Whole
<1>3. CASE pc[c] \notin ApplySteps /\ pc'[c] \notin ApplySteps
  <2>1. \A l : l \notin ApplySteps =>
           l \notin Replacing /\ l \notin {"clean", "stash"} /\ l \notin {"mkdir", "restore"} /\ l \notin {"remove", "restore"}
    BY DEF ApplySteps, Replacing
  <2>2. QED
    BY <1>1, <1>3, <2>1 DEF VersionKept, WholeKept, Same, Whole
<1>4. QED
  BY <1>2, <1>3

LEMMA ApplyKeeps ==
    ASSUME ManagerInv, InstallInv, Faults <= 1, NEW c \in Clients, Apply(c)
    PROVE  (VersionKept(c) /\ WholeKept(c))'
<1>1. VersionKept(c) /\ WholeKept(c)
  BY DEF InstallInv
<1>2. /\ pc[c] \in ApplySteps \union {"idle", "fetch", "create", "body", "checksum"}
      /\ \A l : pc' = [pc EXCEPT ![c] = l] => pc'[c] = l
      /\ left[c] \in 0..Faults /\ left \in [Clients -> 0..Faults] /\ Faults \in Nat
      /\ before \in [Clients -> Dir \union {NoDir}]
      /\ reply \in [Clients -> {"none", "ok", "error"}]
      /\ install \in Dir \union {NoDir} /\ backup \in Dir \union {NoDir}
      /\ NoDir \notin Dir
  BY UpdateAssumption DEF ManagerInv, UpdateTypeOK
<1>3. /\ left[c] <= 1 /\ left[c] \in Nat
      /\ \A n \in 0..1 : (IF n > 0 THEN n - 1 ELSE 0) = 0
  BY <1>2
<1>4. Spend(c) => left'[c] = 0
  BY <1>2, <1>3 DEF Spend
<1> USE DEF At, VersionKept, WholeKept, Same, Whole, Replacing, ApplySteps,
            world, cache, dirs, client, store, ghost
<1>5. CASE ApplyBegin(c)
  BY <1>1, <1>2, <1>5 DEF ApplyBegin
<1>6. CASE ApplyClean(c)
  BY <1>1, <1>2, <1>6 DEF ApplyClean
<1>7. CASE ApplyStash(c)
  BY <1>1, <1>2, <1>7 DEF ApplyStash
<1>8. CASE ApplyStashFails(c)
  BY <1>1, <1>2, <1>8 DEF ApplyStashFails, Return
<1>9. CASE ApplyMkdir(c)
  BY <1>1, <1>2, <1>9 DEF ApplyMkdir
<1>10. CASE ApplyMkdirFails(c)
  BY <1>1, <1>2, <1>4, <1>10 DEF ApplyMkdirFails, Fault
<1>11. CASE ApplyExtract(c)
  BY <1>1, <1>2, <1>11 DEF ApplyExtract
<1>12. CASE ApplyDone(c)
  <2>1. install' # NoDir /\ install'.whole = TRUE
    <3>1. install \in Dir /\ install' = [install EXCEPT !.whole = TRUE]
      BY <1>2, <1>12 DEF ApplyDone
    <3>2. install' \in Dir /\ install'.whole = TRUE
      BY <3>1 DEF Dir
    <3>3. QED
      BY <1>2, <3>2
  <2>2. reply'[c] = "ok" /\ pc'[c] = "idle"
    BY <1>2, <1>12 DEF ApplyDone, Return
  <2>3. UNCHANGED <<up, backup, before, left, cut>> /\ up
    BY <1>12 DEF ApplyDone
  <2>4. pc[c] = "extract"
    BY <1>12 DEF ApplyDone
  <2>5. QED
    BY <1>1, <2>1, <2>2, <2>3, <2>4
<1>13. CASE ApplyExtractFails(c)
  BY <1>1, <1>2, <1>4, <1>13 DEF ApplyExtractFails
<1>14. CASE ApplyRemove(c)
  BY <1>1, <1>2, <1>3, <1>14 DEF ApplyRemove, Fault
<1>15. CASE ApplyRestore(c)
  <2>1. /\ pc[c] = "restore" /\ install = NoDir /\ left[c] = 0 /\ up
        /\ Same(backup, c) /\ cut # "yes" /\ (cut = "no" => Whole(backup))
    BY <1>1, <1>15 DEF ApplyRestore
  <2>2. install' = backup /\ backup' = NoDir /\ left' = left
    BY <1>3, <1>15, <2>1 DEF ApplyRestore, Fault
  <2>3. pc'[c] = "idle" /\ reply'[c] = "error" /\ UNCHANGED <<up, before, cut>>
    BY <1>2, <1>15 DEF ApplyRestore, Return
  <2>4. QED
    BY <2>1, <2>2, <2>3
<1>16. QED
  BY <1>5, <1>6, <1>7, <1>8, <1>9, <1>10, <1>11, <1>12, <1>13, <1>14, <1>15 DEF Apply

LEMMA InstallSteps ==
    ASSUME OneClient, Faults <= 1, ManagerInv, InstallInv, [UpdateNext]_uvars
    PROVE  InstallInv'
<1> SUFFICES ASSUME NEW c \in Clients PROVE (VersionKept(c) /\ WholeKept(c))'
  BY DEF InstallInv
<1>0. VersionKept(c) /\ WholeKept(c)
  BY DEF InstallInv
<1> USE DEF At, world, cache, dirs, client, store, ghost
<1>1. ASSUME NEW d \in Checkers, NEW pre \in BOOLEAN, NEW patches \in BOOLEAN,
             CheckBegin(d) \/ Check(d, pre, patches)
      PROVE  (VersionKept(c) /\ WholeKept(c))'
  <2>1. /\ UNCHANGED <<up, install, backup, before, left, reply, cut>>
        /\ pc[d] \in {"idle", "fetch"}
        /\ pc' = [pc EXCEPT ![d] = "fetch"] \/ pc' = [pc EXCEPT ![d] = "idle"]
    BY <1>1 DEF CheckBegin, Check, CheckFails, CheckNothing, CheckFound
  <2>2. pc'[c] = pc[c] \/ (pc[c] \notin ApplySteps /\ pc'[c] \notin ApplySteps)
    BY <2>1 DEF ManagerInv, UpdateTypeOK, ApplySteps
  <2>3. QED
    BY <2>1, <2>2, InstallUntouched
<1>2. ASSUME Download(c)
      PROVE  (VersionKept(c) /\ WholeKept(c))'
  <2>1. /\ UNCHANGED <<up, install, backup, before, left, reply, cut>>
        /\ pc[c] \in {"idle", "create", "body", "checksum"}
        /\ \E l \in {"idle", "create", "body", "checksum"} : pc' = [pc EXCEPT ![c] = l]
    BY <1>2 DEF Download, DownloadBegin, DownloadFails, DownloadCreate, DownloadBody,
                DownloadRejected, DownloadDone
  <2>2. pc[c] \notin ApplySteps /\ pc'[c] \notin ApplySteps
    BY <2>1 DEF ManagerInv, UpdateTypeOK, ApplySteps
  <2>3. QED
    BY <2>1, <2>2, InstallUntouched
<1>3. ASSUME Apply(c)
      PROVE  (VersionKept(c) /\ WholeKept(c))'
  BY <1>3, ApplyKeeps
<1>4. CASE Publish
  <2>1. UNCHANGED <<up, install, backup, before, left, reply, cut, pc>>
    BY <1>4 DEF Publish
  <2>2. QED
    BY <2>1, InstallUntouched
<1>5. CASE Crash
  <2>1. /\ ~up' /\ pc'[c] = "idle"
        /\ UNCHANGED <<install, backup, before, left, reply>>
        /\ cut' = IF cut = "no" /\ ~Quiet THEN "yes" ELSE cut
        /\ up
    BY <1>5 DEF Crash
  <2>2. Quiet <=> pc[c] \notin ApplySteps
    BY <2>1, OnlyClient DEF Quiet
  <2>3. "idle" \notin ApplySteps /\ "idle" \notin Replacing /\ Replacing \subseteq ApplySteps
    BY DEF ApplySteps, Replacing
  <2>4. VersionKept(c)'
    BY <1>0, <2>1, <2>3 DEF VersionKept, Same
  <2>5. WholeKept(c)'
    BY <1>0, <2>1, <2>2, <2>3 DEF WholeKept, Whole
  <2>6. QED
    BY <2>4, <2>5
<1>6. CASE Restart
  <2>1. /\ ~up /\ install # NoDir
        /\ UNCHANGED <<install, backup, before, left, reply, cut, pc>>
    BY <1>6 DEF Restart
  <2>2. QED
    BY <1>0, <2>1 DEF VersionKept, WholeKept, Same, Whole
<1>7. CASE StoreSave
  <2>1. UNCHANGED <<up, backup, before, left, reply, cut, pc>>
    BY <1>7 DEF StoreSave
  <2>2. CASE install = NoDir
    <3>1. install' = install
      BY <1>7, <2>2 DEF StoreSave
    <3>2. QED
      BY <2>1, <3>1, InstallUntouched
  <2>3. CASE install # NoDir
    <3>1. install \in Dir /\ install' = [install EXCEPT !.meta = saves + 1]
      BY <1>7, <2>3 DEF StoreSave, ManagerInv, UpdateTypeOK
    <3>2. install'.version = install.version /\ install'.whole = install.whole
      BY <3>1 DEF Dir
    <3>3. install' # NoDir
      <4>1. saves + 1 \in 0..MaxSaves
        BY <1>7, UpdateAssumption DEF StoreSave, ManagerInv, UpdateTypeOK
      <4>2. install' \in Dir
        BY <3>1, <4>1 DEF Dir
      <4>3. QED
        BY <4>2, UpdateAssumption
    <3>4. QED
      BY <1>0, <2>1, <2>3, <3>2, <3>3 DEF VersionKept, WholeKept, Same, Whole
  <2>4. QED
    BY <2>2, <2>3
<1>8. CASE UNCHANGED uvars
  <2>1. UNCHANGED <<up, install, backup, before, left, reply, cut, pc>>
    BY <1>8 DEF uvars
  <2>2. QED
    BY <2>1, InstallUntouched
<1>9. QED
  <2>1. \A d \in Clients : d = c
    BY OnlyClient
  <2>2. (\E d \in Clients : Download(d) \/ Apply(d)) => (VersionKept(c) /\ WholeKept(c))'
    BY <1>2, <1>3, <2>1
  <2>3. UpdateStep => (VersionKept(c) /\ WholeKept(c))'
    BY <1>4, <1>5, <1>6, <2>2, Zenon DEF UpdateStep
  <2>4. (\E d \in Checkers : CheckBegin(d) \/ \E pre, patches \in BOOLEAN : Check(d, pre, patches))
           => (VersionKept(c) /\ WholeKept(c))'
    BY <1>1
  <2>5. QED
    BY <1>7, <1>8, <2>3, <2>4, Zenon DEF UpdateNext

LEMMA InstallImplies ==
    ASSUME OneClient, ManagerInv, InstallInv
    PROVE  IdleIsInstalled /\ FailedApplyRestores /\ SomeVersionSurvives
<1>1. PICK c : Clients = {c}
  BY DEF OneClient
<1>2. VersionKept(c) /\ WholeKept(c)
  BY <1>1 DEF InstallInv
<1>3. Replacing \subseteq ApplySteps
  BY DEF Replacing, ApplySteps
<1>4. IdleIsInstalled
  BY <1>1, <1>2, <1>3 DEF IdleIsInstalled, Quiet, WholeKept
<1>5. FailedApplyRestores
  BY <1>1, <1>2 DEF FailedApplyRestores, VersionKept, Same
<1>6. SomeVersionSurvives
  <2>1. CASE cut = "no"
    BY <1>2, <2>1 DEF SomeVersionSurvives, WholeKept
  <2>2. CASE cut = "yes"
    BY <1>2, <2>2 DEF SomeVersionSurvives, WholeKept
  <2>3. CASE cut = "over"
    BY <2>3 DEF SomeVersionSurvives
  <2>4. QED
    BY <2>1, <2>2, <2>3 DEF ManagerInv, UpdateTypeOK
<1>7. QED
  BY <1>4, <1>5, <1>6

--------------------------------------------------------------------------------
\* The downloads, for one client.

Downloading == {"create", "body", "checksum"}

\* A directory with everything extracted was verified.
Verified(d) == Whole(d) => d.sound \/ d.version \in skipped

\* A tarball that may be extracted was verified, too.
MayExtract(v) == tar[v] = "good" \/ (tar[v] = "bad" /\ v \in skipped)

\* What the client knows of its tarball, and the directories of theirs.
TarKnown(c) ==
    /\ pc[c] = "body" => tar[rel[c]] # "none"
    /\ pc[c] = "checksum" => tar[rel[c]] \in {"good", "bad"}
    /\ (rel[c] # 0 /\ pc[c] \notin Downloading) => tar[rel[c]] = "none" \/ MayExtract(rel[c])
    /\ pc[c] = "extract" => /\ install # NoDir /\ ~install.whole
                            /\ install.version = rel[c]
                            /\ install.sound <=> tar[rel[c]] = "good"
                            /\ tar[rel[c]] # "none"

\* In the state "ready" the client does nothing, and its download is complete.
StateKnown(c) ==
    /\ state = "ready" => /\ pc[c] \notin Downloading \union ApplySteps
                          /\ progress # NoProgress
                          /\ progress.state = "completed" /\ progress.path # 0
                          /\ tar[progress.path] \in {"good", "bad"}
    /\ state \in {"available", "downloading", "ready"} => available # 0
    /\ pc[c] \in Downloading => up /\ available # 0

DownloadInv ==
    /\ Verified(install) /\ Verified(backup)
    /\ \A c \in Clients : TarKnown(c) /\ StateKnown(c)

LEMMA DownloadStarts == UpdateInit => DownloadInv
<1> SUFFICES ASSUME UpdateInit PROVE DownloadInv
  OBVIOUS
<1>1. Verified(install) /\ Verified(backup)
  BY DEF UpdateInit, Verified, Whole
<1>2. ASSUME NEW c \in Clients
      PROVE  TarKnown(c) /\ StateKnown(c)
  BY DEF UpdateInit, TarKnown, StateKnown, Downloading
<1>3. QED
  BY <1>1, <1>2 DEF DownloadInv

\* The client's own steps outside ApplyUpdate.
LEMMA DownloadKeeps ==
    ASSUME ManagerInv, DownloadInv, OneClient, NEW c \in Clients, Download(c)
    PROVE  (TarKnown(c) /\ StateKnown(c))' /\ skipped \subseteq skipped' /\ UNCHANGED dirs
<1>1. TarKnown(c) /\ StateKnown(c)
  BY DEF DownloadInv
<1>2. /\ \A l : pc' = [pc EXCEPT ![c] = l] => pc'[c] = l
      /\ \A r : rel' = [rel EXCEPT ![c] = r] => rel'[c] = r
      /\ rel[c] \in 0..MaxVersion /\ available \in 0..MaxVersion
      /\ tar \in [Releases -> {"none", "part", "good", "bad"}]
      /\ opener \in [Releases -> Clients]
      /\ \A d \in Clients : d = c
      /\ pc[c] \in Downloading => rel[c] # 0
      /\ \A v \in 0..MaxVersion : v # 0 => v \in Releases
  BY OnlyClient, UpdateAssumption DEF ManagerInv, UpdateTypeOK, HasRelease, Downloading, Releases
<1> USE DEF At, TarKnown, StateKnown, MayExtract, Downloading, ApplySteps,
            world, cache, dirs, client, store, ghost
<1>3. CASE DownloadBegin(c)
  BY <1>1, <1>2, <1>3 DEF DownloadBegin
<1>4. CASE DownloadFails(c)
  BY <1>1, <1>2, <1>4 DEF DownloadFails
<1>5. CASE DownloadCreate(c)
  <2>1. rel[c] \in Releases
    BY <1>2, <1>5 DEF DownloadCreate
  <2>2. QED
    BY <1>1, <1>2, <1>5, <2>1 DEF DownloadCreate
<1>6. CASE DownloadBody(c)
  <2>1. rel[c] \in Releases
    BY <1>2, <1>6 DEF DownloadBody
  <2>2. opener[rel[c]] = c /\ tar[rel[c]] # "none"
    BY <1>1, <1>2, <1>6, <2>1 DEF DownloadBody
  <2>3. tar'[rel[c]] \in {"good", "bad"}
    BY <1>2, <1>6, <2>1, <2>2 DEF DownloadBody
  <2>4. state # "ready"
    BY <1>1, <1>6 DEF DownloadBody
  <2>5. QED
    BY <1>1, <1>2, <1>6, <2>3, <2>4 DEF DownloadBody
<1>7. CASE DownloadRejected(c)
  BY <1>1, <1>2, <1>7 DEF DownloadRejected
<1>8. CASE DownloadDone(c)
  <2>1. /\ pc[c] = "checksum" /\ pc'[c] = "idle"
        /\ UNCHANGED <<tar, rel, available, install, backup>>
        /\ state' = "ready" /\ progress' = Progress(c, "completed", rel[c])
        /\ tar[rel[c]] \in {"good", "bad"} /\ rel[c] # 0 /\ available # 0
    BY <1>1, <1>2, <1>8 DEF DownloadDone
  <2>2. skipped \subseteq skipped' /\ (tar[rel[c]] = "good" \/ rel[c] \in skipped')
    BY <1>8 DEF DownloadDone, Verify
  <2>3. progress' # NoProgress /\ progress'.state = "completed" /\ progress'.path = rel[c]
    BY <2>1 DEF Progress, NoProgress
  <2>4. QED
    BY <1>1, <2>1, <2>2, <2>3
<1>9. QED
  BY <1>3, <1>4, <1>5, <1>6, <1>7, <1>8 DEF Download

LEMMA ApplyDownloads ==
    ASSUME ManagerInv, DownloadInv, NEW c \in Clients, Apply(c)
    PROVE  (TarKnown(c) /\ StateKnown(c) /\ Verified(install) /\ Verified(backup))'
<1>1. TarKnown(c) /\ StateKnown(c) /\ Verified(install) /\ Verified(backup)
  BY DEF DownloadInv
<1>2. /\ \A l : pc' = [pc EXCEPT ![c] = l] => pc'[c] = l
      /\ rel[c] \in 0..MaxVersion
      /\ tar \in [Releases -> {"none", "part", "good", "bad"}]
      /\ install \in Dir \union {NoDir} /\ backup \in Dir \union {NoDir}
      /\ pc[c] \in ApplySteps => rel[c] # 0
      /\ \A v \in 0..MaxVersion : v # 0 => v \in Releases
      /\ NoDir \notin Dir
  BY UpdateAssumption DEF ManagerInv, UpdateTypeOK, HasRelease, Releases
<1> USE DEF At, TarKnown, StateKnown, MayExtract, Downloading, ApplySteps, Verified, Whole,
            world, cache, dirs, client, store, ghost
<1>3. CASE ApplyBegin(c)
  BY <1>1, <1>2, <1>3 DEF ApplyBegin
<1>4. CASE ApplyClean(c)
  <2>1. ~Whole(backup') \/ backup' = backup
    BY <1>2, <1>4 DEF ApplyClean, Dir
  <2>2. QED
    BY <1>1, <1>2, <1>4, <2>1 DEF ApplyClean
<1>5. CASE ApplyStash(c)
  BY <1>1, <1>2, <1>5 DEF ApplyStash
<1>6. CASE ApplyStashFails(c)
  BY <1>1, <1>2, <1>6 DEF ApplyStashFails, Return
<1>7. CASE ApplyMkdir(c)
  <2>1. ~EmptyDir.whole
    BY DEF EmptyDir
  <2>2. QED
    BY <1>1, <1>2, <1>7, <2>1 DEF ApplyMkdir
<1>8. CASE ApplyMkdirFails(c)
  BY <1>1, <1>2, <1>8 DEF ApplyMkdirFails
<1>9. CASE ApplyExtract(c)
  <2> DEFINE good == tar[rel[c]] = "good"
  <2>1. install \in Dir /\ install' = [install EXCEPT !.version = rel[c], !.whole = FALSE, !.sound = good]
    BY <1>2, <1>9 DEF ApplyExtract
  <2>2. /\ pc[c] = "open" /\ pc'[c] = "extract" /\ tar[rel[c]] # "none"
        /\ UNCHANGED <<tar, rel, skipped, backup, state, available, progress, up>>
    BY <1>2, <1>9 DEF ApplyExtract
  <2>3. (install'.sound = good) /\ install'.whole = FALSE /\ install'.version = rel[c]
    BY <2>1, Zenon DEF Dir
  <2>4. install' # NoDir
    <3>1. good \in BOOLEAN
      BY SMT
    <3> HIDE DEF good
    <3>2. install' \in Dir
      BY <1>2, <2>1, <3>1 DEF Dir
    <3>3. QED
      BY <1>2, <3>2
  <2>5. install'.sound <=> tar'[rel'[c]] = "good"
    BY <2>2, <2>3
  <2>6. QED
    BY <1>1, <2>2, <2>3, <2>4, <2>5
<1>10. CASE ApplyDone(c)
  <2>1. install \in Dir /\ install' = [install EXCEPT !.whole = TRUE]
    BY <1>2, <1>10 DEF ApplyDone
  <2>2. /\ install'.sound = install.sound /\ install'.version = install.version
    BY <2>1 DEF Dir
  <2>3. /\ pc[c] = "extract" /\ pc'[c] = "idle" /\ tar[rel[c]] # "part" /\ rel[c] # 0
        /\ tar' = [tar EXCEPT ![rel[c]] = "none"] /\ state' = "idle"
        /\ UNCHANGED <<rel, skipped, backup, available, progress, up>>
    BY <1>2, <1>10 DEF ApplyDone, Return
  <2>4. tar'[rel'[c]] = "none"
    BY <1>2, <2>3
  <2>5. install.sound \/ install.version \in skipped
    <3>1. pc[c] \notin {"create", "body", "checksum"}
      BY <2>3
    <3>2. MayExtract(rel[c])
      BY <1>1, <2>3, <3>1, Zenon
    <3>3. install.version = rel[c] /\ (tar[rel[c]] = "good" => install.sound)
      BY <1>1, <2>3
    <3>4. QED
      BY <3>2, <3>3, Zenon
  <2>6. (TarKnown(c) /\ StateKnown(c))'
    BY <2>3, <2>4
  <2>7. Verified(backup)'
    BY <1>1, <2>3
  <2>8. Verified(install)'
    BY <2>2, <2>3, <2>5
  <2>9. QED
    BY <2>6, <2>7, <2>8
<1>11. CASE ApplyExtractFails(c)
  BY <1>1, <1>2, <1>11 DEF ApplyExtractFails
<1>12. CASE ApplyRemove(c)
  BY <1>1, <1>2, <1>12 DEF ApplyRemove
<1>13. CASE ApplyRestore(c)
  BY <1>1, <1>2, <1>13 DEF ApplyRestore, Return
<1>14. QED
  BY <1>3, <1>4, <1>5, <1>6, <1>7, <1>8, <1>9, <1>10, <1>11, <1>12, <1>13 DEF Apply

LEMMA DownloadSteps ==
    ASSUME OneClient, ManagerInv, DownloadInv, [UpdateNext]_uvars
    PROVE  DownloadInv'
<1>1. PICK c : Clients = {c}
  BY DEF OneClient
<1>2. c \in Clients /\ TarKnown(c) /\ StateKnown(c) /\ Verified(install) /\ Verified(backup)
  BY <1>1 DEF DownloadInv
<1> SUFFICES (TarKnown(c) /\ StateKnown(c) /\ Verified(install) /\ Verified(backup))'
  BY <1>1 DEF DownloadInv
<1> USE DEF At, world, cache, dirs, client, store, ghost
<1>3. ASSUME NEW d \in Checkers, NEW pre \in BOOLEAN, NEW patches \in BOOLEAN,
             CheckBegin(d) \/ Check(d, pre, patches)
      PROVE  (TarKnown(c) /\ StateKnown(c) /\ Verified(install) /\ Verified(backup))'
  <2>1. /\ UNCHANGED <<tar, rel, install, backup, skipped, progress, up>>
        /\ pc[d] \in {"idle", "fetch"}
        /\ pc' = [pc EXCEPT ![d] = "fetch"] \/ pc' = [pc EXCEPT ![d] = "idle"]
    BY <1>3 DEF CheckBegin, Check, CheckFails, CheckNothing, CheckFound
  <2>2. pc'[c] = pc[c] \/ (pc[c] \in {"idle", "fetch"} /\ pc'[c] \in {"idle", "fetch"})
    BY <1>2, <2>1 DEF ManagerInv, UpdateTypeOK
  <2>3. \/ state' \in {"checking", "error", "idle"} /\ available' = available
        \/ state' = "available" /\ available' # 0
    <3>1. CASE CheckFound(d, pre, patches)
      <4>1. Fetched(pre) # 0
        BY FetchedIs DEF ManagerInv, UpdateTypeOK, Releases
      <4>2. QED
        BY <3>1, <4>1 DEF CheckFound
    <3>2. QED
      BY <1>3, <3>1 DEF CheckBegin, Check, CheckFails, CheckNothing
  <2>4. TarKnown(c)'
    BY <1>2, <2>1, <2>2 DEF TarKnown, MayExtract, Downloading
  <2>5. StateKnown(c)'
    BY <1>2, <2>1, <2>2, <2>3 DEF StateKnown, Downloading
  <2>6. QED
    BY <1>2, <2>1, <2>4, <2>5 DEF Verified, Whole
<1>4. ASSUME Download(c)
      PROVE  (TarKnown(c) /\ StateKnown(c) /\ Verified(install) /\ Verified(backup))'
  <2>1. (TarKnown(c) /\ StateKnown(c))' /\ skipped \subseteq skipped' /\ UNCHANGED dirs
    BY <1>2, <1>4, DownloadKeeps
  <2>2. QED
    BY <1>2, <2>1 DEF Verified, Whole
<1>5. ASSUME Apply(c)
      PROVE  (TarKnown(c) /\ StateKnown(c) /\ Verified(install) /\ Verified(backup))'
  BY <1>2, <1>5, ApplyDownloads
<1> USE DEF TarKnown, StateKnown, MayExtract, Downloading, ApplySteps, Verified, Whole
<1>6. CASE Publish
  BY <1>2, <1>6 DEF Publish
<1>7. CASE Crash
  <2>1. /\ pc'[c] = "idle" /\ up' = FALSE
        /\ rel'[c] = IF pc[c] \in {"create", "body", "checksum"} THEN 0 ELSE rel[c]
        /\ UNCHANGED <<tar, install, backup, skipped, progress, state, available>>
    BY <1>2, <1>7 DEF Crash
  <2>2. QED
    BY <1>2, <2>1
<1>8. CASE Restart
  <2>1. /\ ~up /\ state' = "idle"
        /\ UNCHANGED <<tar, rel, install, backup, skipped, pc>>
    BY <1>8 DEF Restart
  <2>2. QED
    BY <1>2, <2>1
<1>9. CASE StoreSave
  <2>1. UNCHANGED <<tar, rel, backup, skipped, pc, state, progress, available, up>>
    BY <1>9 DEF StoreSave
  <2>2. CASE install = NoDir
    <3>1. install' = install
      BY <1>9, <2>2 DEF StoreSave
    <3>2. QED
      BY <1>2, <2>1, <3>1
  <2>3. CASE install # NoDir
    <3>1. install \in Dir /\ install' = [install EXCEPT !.meta = saves + 1]
      BY <1>9, <2>3 DEF StoreSave, ManagerInv, UpdateTypeOK
    <3>2. /\ install'.version = install.version /\ install'.whole = install.whole
          /\ install'.sound = install.sound
      BY <3>1 DEF Dir
    <3>3. install' # NoDir
      <4>1. saves + 1 \in 0..MaxSaves
        BY <1>9, UpdateAssumption DEF StoreSave, ManagerInv, UpdateTypeOK
      <4>2. install' \in Dir
        BY <3>1, <4>1 DEF Dir
      <4>3. QED
        BY <4>2, UpdateAssumption
    <3>4. QED
      BY <1>2, <2>1, <2>3, <3>2, <3>3
  <2>4. QED
    BY <2>2, <2>3
<1>10. CASE UNCHANGED uvars
  BY <1>2, <1>10 DEF uvars
<1>11. QED
  <2> DEFINE G == (TarKnown(c) /\ StateKnown(c) /\ Verified(install) /\ Verified(backup))'
  <2> HIDE DEF G
  <2>1. (\E d \in Clients : Download(d) \/ Apply(d)) => G
    BY <1>1, <1>4, <1>5 DEF G
  <2>2. UpdateStep => G
    BY <1>6, <1>7, <1>8, <2>1, Zenon DEF UpdateStep, G
  <2>3. (\E d \in Checkers : CheckBegin(d) \/ \E pre, patches \in BOOLEAN : Check(d, pre, patches)) => G
    BY <1>3 DEF G
  <2>4. G
    BY <1>9, <1>10, <2>2, <2>3, Zenon DEF UpdateNext, G
  <2>5. QED
    BY <2>4 DEF G

LEMMA DownloadImplies ==
    ASSUME OneClient, ManagerInv, DownloadInv
    PROVE  DownloadSafe
<1>1. PICK c : Clients = {c}
  BY DEF OneClient
<1>2. StateKnown(c) /\ Verified(install)
  BY <1>1 DEF DownloadInv
<1>3. InstalledVerified
  BY <1>2 DEF InstalledVerified, Verified
<1>4. state \in States
  BY DEF ManagerInv, UpdateTypeOK
<1>5. ConvertUpdateState(state) = "READY_TO_APPLY" => state = "ready"
  BY <1>4 DEF ConvertUpdateState, States
<1>6. ConvertUpdateState(state) \in {"UPDATE_AVAILABLE", "DOWNLOADING", "READY_TO_APPLY"}
         => state \in {"available", "downloading", "ready"}
  BY <1>4 DEF ConvertUpdateState, States
<1>7. state = "ready" => \E p \in ToProtoProgress(progress) :
         /\ p.state = "COMPLETED" /\ p.downloadedPath # 0
         /\ tar[p.downloadedPath] \in {"good", "bad"}
  <2>1. SUFFICES ASSUME state = "ready"
                 PROVE  \E p \in ToProtoProgress(progress) :
                           /\ p.state = "COMPLETED" /\ p.downloadedPath # 0
                           /\ tar[p.downloadedPath] \in {"good", "bad"}
    OBVIOUS
  <2>2. ToProtoProgress(progress) =
           {[state |-> ConvertDownloadState("completed"), downloadedPath |-> progress.path]}
    BY <1>2, <2>1 DEF ToProtoProgress, StateKnown
  <2>3. ConvertDownloadState("completed") = "COMPLETED"
    BY DEF ConvertDownloadState
  <2>4. QED
    BY <1>2, <2>1, <2>2, <2>3 DEF StateKnown
<1>8. state \in {"available", "downloading", "ready"} =>
         {Tag[r] : r \in {available} \ {0}} # {}
  BY <1>2 DEF StateKnown
<1>9. ReadyIsComplete
  BY <1>5, <1>6, <1>7, <1>8 DEF ReadyIsComplete, GetUpdateStatus
<1>10. QED
  BY <1>3, <1>9 DEF DownloadSafe

\* For one client: only verified tarballs are installed, and only whole ones
\* are announced.
THEOREM DownloadsAreSafe ==
    ASSUME OneClient
    PROVE  Spec => []DownloadSafe
<1>1. Init => DownloadInv
  BY DownloadStarts DEF Init
<1>2. SettingsInv /\ ManagerInv /\ DownloadInv /\ [Next]_vars => DownloadInv'
  BY OneClient, DownloadSteps, StepsOfManager
<1>3. ManagerInv /\ DownloadInv => DownloadSafe
  BY OneClient, DownloadImplies
<1>4. QED
  BY <1>1, <1>2, <1>3, SettingsAlways, PTL DEF Spec

\* For one client, when at most one step of an ApplyUpdate fails: whatever step
\* that is, and wherever the daemon is killed, a version to run is left.
THEOREM InstallationIsSafe ==
    ASSUME OneClient, Faults <= 1
    PROVE  Spec => []InstallationSafe
<1>1. Init => InstallInv
  BY InstallStarts DEF Init
<1>2. SettingsInv /\ ManagerInv /\ InstallInv /\ [Next]_vars => InstallInv'
  BY OneClient, Faults <= 1, InstallSteps, StepsOfManager
<1>3. SettingsInv /\ ManagerInv /\ InstallInv => InstallationSafe
  <2>1. SettingsInv /\ ManagerInv => TypeOK
    BY DEF SettingsInv, ManagerInv, TypeOK
  <2>2. QED
    BY OneClient, <2>1, InstallImplies DEF InstallationSafe
<1>4. QED
  BY <1>1, <1>2, <1>3, SettingsAlways, PTL DEF Spec

================================================================================
