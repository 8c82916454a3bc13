------------------------------ MODULE VersionCheck ------------------------------
(***************************************************************************)
(* How CheckForUpdates decides that a release is an update                 *)
(* (skeys-core/update/manager.go: isNewerVersion, isPatchUpdate).          *)
(*                                                                         *)
(* A version is the sequence of its dot-separated parts, the leading v     *)
(* taken off.  A part is a number, after which a label may follow a minus  *)
(* sign (release.yml takes a tag with one for a prerelease) and a build    *)
(* number a plus sign: the last part of 0.0.4+2 has num 4 and build 2, and *)
(* 1.1.0-beta.1 has four parts, of which the third has a label.            *)
(***************************************************************************)
EXTENDS Integers, Sequences

CONSTANTS
    Numbers,   \* numbers of the parts, below 100
    Labels,    \* labels of prereleases, numbered in the order of their texts;
               \* none of them is the beginning of another
    Builds,    \* build numbers, from 1 on and below 100
    Lengths    \* how many parts a version has

NoLabel == 0
NoBuild == 0

ASSUME VersionAssumption ==
    /\ Numbers \subseteq 0..99
    /\ Labels \subseteq Nat \ {0}
    /\ Builds \subseteq 1..99
    /\ Lengths \subseteq Nat \ {0}

Parts == [num : Numbers, label : Labels \union {NoLabel}, build : Builds \union {NoBuild}]

\* The third part may carry a label, the last one a build number.
Versions ==
    UNION {{v \in [1..n -> Parts] :
               \A i \in 1..n : /\ v[i].label # NoLabel => i = 3
                               /\ v[i].build # NoBuild => i = n} : n \in Lengths}

--------------------------------------------------------------------------------
\* A part as text.  The plus sign is below the minus sign, that below every
\* digit, and a label, one symbol here, above.
Digits(n) == IF n < 10 THEN <<n>> ELSE <<n \div 10, n % 10>>
LabelText(p) == IF p.label = NoLabel THEN <<>> ELSE <<-1, 9 + p.label>>
BuildText(p) == IF p.build = NoBuild THEN <<>> ELSE <<-2>> \o Digits(p.build)
Text(p) == Digits(p.num) \o LabelText(p) \o BuildText(p)

\* Go's comparison of strings.
TextLess(s, t) ==
    \E i \in 1..Len(t) :
       /\ \A j \in 1..i-1 : j <= Len(s) /\ s[j] = t[j]
       /\ i > Len(s) \/ s[i] < t[i]

\* strconv.Atoi succeeds.
Numeric(p) == p.label = NoLabel /\ p.build = NoBuild

PartLess(p, q) == IF Numeric(p) /\ Numeric(q) THEN p.num < q.num
                                              ELSE TextLess(Text(p), Text(q))

\* Mutant: a smaller part does not end the comparison.
isNewerVersionGoesOn(a, b) ==
    LET n == IF Len(a) < Len(b) THEN Len(a) ELSE Len(b)
        from[i \in 1..n+1] ==
            IF i > n THEN Len(a) > Len(b)
            ELSE PartLess(b[i], a[i]) \/ from[i + 1]
    IN from[1]

\* The first part that differs decides; without one, the longer version is newer.
isNewerVersion(a, b) ==
    LET n == IF Len(a) < Len(b) THEN Len(a) ELSE Len(b)
        from[i \in 1..n+1] ==
            IF i > n THEN Len(a) > Len(b)
            ELSE IF PartLess(b[i], a[i]) THEN TRUE
            ELSE IF PartLess(a[i], b[i]) THEN FALSE
            ELSE from[i + 1]
    IN from[1]

\* Same major and minor version, the build numbers split off.  (In Versions
\* these two parts have no label, with which they would be no numbers.)
isPatchUpdate(cur, new) ==
    Len(cur) >= 2 /\ Len(new) >= 2 /\ cur[1].num = new[1].num /\ cur[2].num = new[2].num

--------------------------------------------------------------------------------
\* The reference order: the first part that differs decides by its number, and
\* a version that another one continues comes before it.
Precedes(a, b) ==
    \/ \E i \in 1..Len(a) : /\ i <= Len(b)
                            /\ a[i].num < b[i].num
                            /\ \A j \in 1..i-1 : a[j] = b[j]
    \/ Len(a) < Len(b) /\ \A j \in 1..Len(a) : a[j] = b[j]

\* The first part in which a and b differ, if there is one, is a number in both.
ByNumbers(a, b) ==
    \A i \in 1..Len(a) :
       (i <= Len(b) /\ a[i] # b[i] /\ \A j \in 1..i-1 : a[j] = b[j])
           => Numeric(a[i]) /\ Numeric(b[i])

\* Where numbers decide, isNewerVersion is the reference order: 1.10.0 after
\* 1.9.10, 1.1.0-beta.10 after 1.1.0-beta.9, 0.1.0 after 0.0.4+2.  Where a label
\* or a build number decides, it is not the order of the versions: the parts
\* are compared as text, so 4+10 comes before 4+9, and 10+1 before 9.
OrderAgrees ==
    \A a, b \in Versions : ByNumbers(a, b) => (isNewerVersion(a, b) <=> Precedes(b, a))

\* However two versions are compared, not each of them is newer than the other,
\* and none is newer than itself.
NewerOneWay == \A a, b \in Versions : ~(isNewerVersion(a, b) /\ isNewerVersion(b, a))

\* Newer but not a patch is higher in the major or the minor version.
PatchRuleAgrees ==
    \A a, b \in Versions :
       (Len(a) >= 3 /\ Len(b) >= 3) =>
          ((isNewerVersion(b, a) /\ ~isPatchUpdate(a, b))
              <=> \/ a[1].num < b[1].num
                  \/ a[1].num = b[1].num /\ a[2].num < b[2].num)

================================================================================
