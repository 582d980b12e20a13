-------------------------- MODULE OpsStream_proof --------------------------
(***************************************************************************)
(* What is logged is stored or counted, a job that fails or is silent is   *)
(* reported, and triage removes nothing: proofs about OpsStream, for any   *)
(* processes, jobs and log calls, wherever appends are refused and         *)
(* processes are killed, and about the list that OpsAlerts builds, for any *)
(* outcomes, positions and acknowledgements.                               *)
(***************************************************************************)
EXTENDS OpsStream, Collections_proof

(***************************************************************************)
(* Lists.                                                                  *)
(***************************************************************************)
\* What is selected from a list are its members at the places.
LEMMA SelectedIs ==
  ASSUME NEW F, NEW list, NEW S \in SUBSET Nat, IsFiniteSet(S), \A p \in S : list[p] \in F
  PROVE  /\ Selected(list, S) \in Seq(F)
         /\ Len(Selected(list, S)) = Cardinality(S) /\ Cardinality(S) \in Nat
         /\ ToSet(Selected(list, S)) = {list[p] : p \in S}
<1>1. PICK order : order = Ascending(S)
  OBVIOUS
<1>2. PICK n \in Nat : n = Cardinality(S)
  BY FS_CardinalityType
<1>3. /\ order \in [1 .. n -> S]
      /\ \A x \in S : \E i \in 1 .. n : order[i] = x
  BY <1>1, <1>2, PlacesInOrder
<1>4. PICK s : s = Selected(list, S)
  OBVIOUS
<1>5. s = [i \in 1 .. n |-> list[order[i]]]
  BY <1>1, <1>3, <1>4 DEF Selected
<1>6. \A i \in 1 .. n : s[i] = list[order[i]] /\ order[i] \in S /\ s[i] \in F
  BY <1>3, <1>5
<1>7. s \in Seq(F) /\ Len(s) = n /\ DOMAIN s = 1 .. n
  BY <1>5, <1>6
<1>8. ToSet(s) = {list[p] : p \in S}
  <2>1. \A i \in 1 .. n : s[i] \in {list[p] : p \in S}
    BY <1>6
  <2>2. ASSUME NEW p \in S
        PROVE  \E i \in 1 .. n : s[i] = list[p]
    <3>1. PICK i \in 1 .. n : order[i] = p
      BY <1>3
    <3>2. QED
      BY <1>6, <3>1
  <2>3. ToSet(s) = {s[i] : i \in 1 .. n}
    BY <1>7 DEF ToSet
  <2>4. QED
    BY <2>1, <2>2, <2>3
<1>9. QED
  BY <1>2, <1>4, <1>7, <1>8

\* What the concatenation of two sequences is made of.
IsJoin(s, t, st, F) ==
  /\ st \in Seq(F) /\ Len(st) = Len(s) + Len(t)
  /\ Len(s) \in Nat /\ Len(t) \in Nat
  /\ DOMAIN s = 1 .. Len(s) /\ DOMAIN t = 1 .. Len(t) /\ DOMAIN st = 1 .. Len(s) + Len(t)
  /\ \A i \in 1 .. Len(s) : st[i] = s[i]
  /\ \A i \in Len(s) + 1 .. Len(s) + Len(t) : st[i] = t[i - Len(s)] /\ i - Len(s) \in 1 .. Len(t)
  /\ ToSet(st) = ToSet(s) \cup ToSet(t)

\* That of two sequences is.
LEMMA Joined ==
  ASSUME NEW F, NEW s, NEW t, s \in Seq(F), t \in Seq(F), NEW st, st = s \o t
  PROVE  IsJoin(s, t, st, F)
<1>1. st \in Seq(F) /\ Len(st) = Len(s) + Len(t) /\ Len(s) \in Nat /\ Len(t) \in Nat
  BY ONLY st = s \o t, s \in Seq(F), t \in Seq(F)
<1>2. DOMAIN s = 1 .. Len(s) /\ DOMAIN t = 1 .. Len(t) /\ DOMAIN st = 1 .. Len(s) + Len(t)
  BY ONLY st = s \o t, s \in Seq(F), t \in Seq(F), <1>1
<1>3. \A i \in 1 .. Len(s) : st[i] = s[i]
  BY ONLY st = s \o t, s \in Seq(F), t \in Seq(F), <1>1
<1>4. ASSUME NEW i \in Len(s) + 1 .. Len(s) + Len(t)
      PROVE  st[i] = t[i - Len(s)] /\ i - Len(s) \in 1 .. Len(t)
  BY ONLY st = s \o t, s \in Seq(F), t \in Seq(F), <1>1, i \in Len(s) + 1 .. Len(s) + Len(t)
<1>5. ToSet(st) = ToSet(s) \cup ToSet(t)
  <2>1. ASSUME NEW i \in 1 .. Len(t)
        PROVE  \E j \in DOMAIN st : st[j] = t[i]
    <3>1. PICK j \in Int : j = Len(s) + i
      BY <1>1, <1>2, <1>3, <1>4
    <3>2. j \in Len(s) + 1 .. Len(s) + Len(t) /\ j - Len(s) = i /\ j \in DOMAIN st
      BY <1>1, <1>2, <1>3, <1>4, <3>1
    <3>3. st[j] = t[i]
      BY ONLY <1>1, <1>2, <1>3, <1>4, <3>2
    <3>4. QED
      BY ONLY <3>2, <3>3
  <2>2. ASSUME NEW i \in 1 .. Len(s)
        PROVE  \E j \in DOMAIN st : st[j] = s[i]
    BY <1>1, <1>2, <1>3, <1>4
  <2>3. ASSUME NEW i \in DOMAIN st
        PROVE  st[i] \in ToSet(s) \cup ToSet(t)
    <3>1. CASE i \in 1 .. Len(s)
      BY <1>1, <1>2, <1>3, <1>4, <3>1 DEF ToSet
    <3>2. CASE i \in Len(s) + 1 .. Len(s) + Len(t)
      BY <1>1, <1>2, <1>3, <1>4, <3>2 DEF ToSet
    <3>3. QED
      BY <1>1, <1>2, <1>3, <1>4, <3>1, <3>2
  <2>4. ToSet(st) \subseteq ToSet(s) \cup ToSet(t)
    BY ONLY <2>3 DEF ToSet
  <2>5. ToSet(s) \subseteq ToSet(st)
    BY ONLY <1>2, <2>2 DEF ToSet
  <2>6. ToSet(t) \subseteq ToSet(st)
    BY ONLY <1>2, <2>1 DEF ToSet
  <2>7. QED
    BY ONLY <2>4, <2>5, <2>6
<1>6. QED
  BY ONLY <1>1, <1>2, <1>3, <1>4, <1>5 DEF IsJoin

(***************************************************************************)
(* The order of the findings.                                              *)
(***************************************************************************)
\* The severities of findings.
Sev == {"critical", "major", "minor"}

\* The number of the group that a finding is listed in.
Group(f) == (IF f.status = "open" THEN 0 ELSE 3)
            + (IF f.severity = "critical" THEN 1 ELSE IF f.severity = "major" THEN 2 ELSE 3)

\* The places of the findings of a group, and of the groups up to it.
OfGroup(found, k) == {n \in DOMAIN found : Group(found[n]) = k}
UpTo(found, k) == {n \in DOMAIN found : Group(found[n]) <= k}

\* A list that is sorted by groups.
Graded(s) == \A i, j \in DOMAIN s : i < j => Group(s[i]) <= Group(s[j])

\* s lists the findings of the first k groups.
Lists(s, found, k, F) ==
  /\ s \in Seq(F) /\ Graded(s)
  /\ Len(s) = Cardinality(UpTo(found, k))
  /\ ToSet(s) = {found[n] : n \in UpTo(found, k)}

\* Group numbers are numbers.
LEMMA GroupTyped == ASSUME NEW f PROVE Group(f) \in 1 .. 6
BY DEF Group

\* When another group is appended, that of the next number is.
LEMMA NextGroup ==
  ASSUME NEW F, NEW found \in Seq(F), NEW k \in 0 .. 5, NEW s, Lists(s, found, k, F)
  PROVE  Lists(s \o Selected(found, OfGroup(found, k + 1)), found, k + 1, F)
<1>1. PICK places : places = OfGroup(found, k + 1)
  OBVIOUS
<1>2. PICK u : u = UpTo(found, k)
  OBVIOUS
<1>3. /\ Len(found) \in Nat /\ DOMAIN found = 1 .. Len(found)
      /\ \A n \in DOMAIN found : found[n] \in F
  OBVIOUS
<1>4. /\ places \in SUBSET Nat /\ \A p \in places : found[p] \in F
      /\ u \subseteq DOMAIN found /\ places \subseteq DOMAIN found
      /\ \A p \in places : Group(found[p]) = k + 1
      /\ \A p \in u : Group(found[p]) <= k
  BY <1>1, <1>2, <1>3 DEF OfGroup, UpTo
<1>5. IsFiniteSet(places) /\ IsFiniteSet(u)
  <2>1. IsFiniteSet(DOMAIN found)
    BY <1>3, FS_Interval
  <2>2. QED
    BY <1>4, <2>1, FS_Subset
<1>6. PICK t : t = Selected(found, places)
  OBVIOUS
<1>7. /\ t \in Seq(F) /\ Len(t) = Cardinality(places) /\ Cardinality(places) \in Nat
      /\ ToSet(t) = {found[p] : p \in places}
  BY <1>4, <1>5, <1>6, SelectedIs
<1>8. /\ s \in Seq(F) /\ Graded(s) /\ Len(s) = Cardinality(u)
      /\ ToSet(s) = {found[n] : n \in u}
  BY <1>2 DEF Lists
<1>9. PICK st : st = s \o t
  OBVIOUS
<1>10. /\ st \in Seq(F) /\ Len(st) = Len(s) + Len(t)
       /\ Len(s) \in Nat /\ Len(t) \in Nat
       /\ DOMAIN s = 1 .. Len(s) /\ DOMAIN t = 1 .. Len(t) /\ DOMAIN st = 1 .. Len(s) + Len(t)
       /\ \A i \in 1 .. Len(s) : st[i] = s[i]
       /\ \A i \in Len(s) + 1 .. Len(s) + Len(t) : st[i] = t[i - Len(s)] /\ i - Len(s) \in 1 .. Len(t)
       /\ ToSet(st) = ToSet(s) \cup ToSet(t)
  <2>1. s \in Seq(F) /\ t \in Seq(F) /\ st = s \o t
    BY ONLY <1>7, <1>8, <1>9
  <2>2. IsJoin(s, t, st, F)
    BY ONLY <2>1, Joined
  <2>3. QED
    BY ONLY <2>2 DEF IsJoin
<1>11. UpTo(found, k + 1) = u \cup places /\ u \cap places = {}
  <2>1. \A n \in DOMAIN found : Group(found[n]) \in Int
    BY GroupTyped
  <2>2. QED
    BY <1>1, <1>2, <2>1 DEF UpTo, OfGroup
<1>12. Len(st) = Cardinality(UpTo(found, k + 1))
  <2>1. Cardinality(u \cup places) = Cardinality(u) + Cardinality(places) - Cardinality(u \cap places)
    BY <1>5, FS_Union
  <2>2. Cardinality(u \cap places) = 0
    BY <1>11, FS_EmptySet
  <2>3. Cardinality(u) \in Nat
    BY <1>5, FS_CardinalityType
  <2>4. Cardinality(u \cup places) = Cardinality(u) + Cardinality(places)
    BY ONLY <1>7, <2>1, <2>2, <2>3
  <2>5. QED
    BY ONLY <1>7, <1>8, <1>10, <1>11, <2>4
<1>14. ToSet(st) = {found[n] : n \in UpTo(found, k + 1)}
  BY <1>7, <1>8, <1>10, <1>11
<1>15. Graded(st)
  <2> SUFFICES ASSUME NEW i \in DOMAIN st, NEW j \in DOMAIN st, i < j
               PROVE  Group(st[i]) <= Group(st[j])
    BY DEF Graded
  <2>1. \A n \in 1 .. Len(t) : Group(t[n]) = k + 1
    <3>1. \A n \in 1 .. Len(t) : t[n] \in ToSet(t)
      BY <1>10 DEF ToSet
    <3>2. QED
      BY <1>4, <1>7, <3>1
  <2>2. \A n \in 1 .. Len(s) : Group(s[n]) <= k /\ Group(s[n]) \in Int
    <3>1. \A n \in 1 .. Len(s) : s[n] \in ToSet(s)
      BY <1>10 DEF ToSet
    <3>2. QED
      BY <1>4, <1>8, <3>1, GroupTyped
  <2>3. CASE j \in 1 .. Len(s)
    <3>1. i \in 1 .. Len(s)
      BY <1>10, <2>3
    <3>2. st[i] = s[i] /\ st[j] = s[j] /\ i \in DOMAIN s /\ j \in DOMAIN s
      BY <1>10, <2>3, <3>1
    <3>3. QED
      BY <1>8, <3>2 DEF Graded
  <2>4. CASE j \in Len(s) + 1 .. Len(s) + Len(t)
    <3>1. st[j] = t[j - Len(s)] /\ Group(st[j]) = k + 1
      BY <1>10, <2>1, <2>4
    <3>2. CASE i \in 1 .. Len(s)
      <4>1. st[i] = s[i] /\ Group(st[i]) <= k /\ Group(st[i]) \in Int
        BY <1>10, <2>2, <3>2
      <4>2. QED
        BY <3>1, <4>1
    <3>3. CASE i \in Len(s) + 1 .. Len(s) + Len(t)
      BY <1>10, <2>1, <3>1, <3>3
    <3>4. QED
      BY <1>10, <3>2, <3>3
  <2>5. QED
    BY <1>10, <2>3, <2>4
<1>16. QED
  BY <1>1, <1>6, <1>9, <1>10, <1>12, <1>14, <1>15 DEF Lists

\* Ranked lists what was found, by groups.
LEMMA RankedIs ==
  ASSUME NEW F, \A f \in F : f.severity \in Sev, NEW found \in Seq(F)
  PROVE  /\ Ranked(found) \in Seq(F) /\ Graded(Ranked(found))
         /\ Len(Ranked(found)) = Len(found)
         /\ ToSet(Ranked(found)) = ToSet(found)
<1>1. /\ Len(found) \in Nat /\ DOMAIN found = 1 .. Len(found)
      /\ \A n \in DOMAIN found : found[n] \in F
  OBVIOUS
<1> DEFINE Of(k) == Selected(found, OfGroup(found, k))
           Places(severity, isOpen) ==
             {n \in DOMAIN found : found[n].severity = severity /\ (found[n].status = "open") = isOpen}
<1>2. /\ Places("critical", TRUE) = OfGroup(found, 1) /\ Places("major", TRUE) = OfGroup(found, 2)
      /\ Places("minor", TRUE) = OfGroup(found, 3)
  BY <1>1 DEF OfGroup, Group, Sev
<1>3. /\ Places("critical", FALSE) = OfGroup(found, 4) /\ Places("major", FALSE) = OfGroup(found, 5)
      /\ Places("minor", FALSE) = OfGroup(found, 6)
  BY <1>1 DEF OfGroup, Group, Sev
<1>4. Ranked(found) = Of(1) \o Of(2) \o Of(3) \o Of(4) \o Of(5) \o Of(6)
  BY <1>2, <1>3 DEF Ranked
<1>5. Lists(Of(1), found, 1, F)
  <2>1. Lists(<<>>, found, 0, F)
    <3>1. UpTo(found, 0) = {}
      BY GroupTyped DEF UpTo
    <3>2. ToSet(<<>>) = {} /\ Graded(<<>>) /\ <<>> \in Seq(F) /\ Len(<<>>) = 0
      BY DEF ToSet, Graded
    <3>3. Cardinality({}) = 0
      BY FS_EmptySet
    <3>4. QED
      BY <3>1, <3>2, <3>3 DEF Lists
  <2>2. Lists(<<>> \o Of(1), found, 1, F)
    <3>1. PICK none : none = <<>>
      OBVIOUS
    <3>2. Lists(none, found, 0, F) /\ 0 \in 0 .. 5
      BY <2>1, <3>1
    <3>3. Lists(none \o Selected(found, OfGroup(found, 0 + 1)), found, 0 + 1, F)
      BY ONLY <3>2, NextGroup, found \in Seq(F)
    <3>4. 0 + 1 = 1
      OBVIOUS
    <3>5. QED
      BY <3>1, <3>3, <3>4
  <2>3. OfGroup(found, 1) \in SUBSET Nat /\ IsFiniteSet(OfGroup(found, 1))
        /\ \A p \in OfGroup(found, 1) : found[p] \in F
    <3>1. OfGroup(found, 1) \subseteq DOMAIN found
      BY DEF OfGroup
    <3>2. IsFiniteSet(DOMAIN found)
      BY <1>1, FS_Interval
    <3>3. IsFiniteSet(OfGroup(found, 1))
      BY ONLY <3>1, <3>2, FS_Subset
    <3>4. QED
      BY <1>1, <3>1, <3>3
  <2>4. Of(1) \in Seq(F)
    BY <2>3, SelectedIs
  <2> HIDE DEF Of
  <2>5. <<>> \o Of(1) = Of(1)
    BY <2>4
  <2>6. QED
    BY <2>2, <2>5
<1>6. Lists(Of(1) \o Of(2), found, 2, F)
  BY <1>5, NextGroup, 1 + 1 = 2
<1>7. Lists(Of(1) \o Of(2) \o Of(3), found, 3, F)
  BY <1>6, NextGroup, 2 + 1 = 3
<1>8. Lists(Of(1) \o Of(2) \o Of(3) \o Of(4), found, 4, F)
  BY <1>7, NextGroup, 3 + 1 = 4
<1>9. Lists(Of(1) \o Of(2) \o Of(3) \o Of(4) \o Of(5), found, 5, F)
  BY <1>8, NextGroup, 4 + 1 = 5
<1>10. Lists(Ranked(found), found, 6, F)
  BY <1>4, <1>9, NextGroup, 5 + 1 = 6
<1>11. UpTo(found, 6) = DOMAIN found
  <2>1. \A n \in DOMAIN found : Group(found[n]) <= 6
    BY GroupTyped
  <2>2. QED
    BY ONLY <2>1 DEF UpTo
<1>12. Cardinality(DOMAIN found) = Len(found)
  <2>1. 1 \in Int /\ Len(found) \in Int
    BY <1>1
  <2>2. Cardinality(1 .. Len(found)) = IF 1 > Len(found) THEN 0 ELSE Len(found) - 1 + 1
    BY ONLY <2>1, FS_Interval
  <2>3. QED
    BY <1>1, <2>2
<1>13. QED
  BY <1>10, <1>11, <1>12 DEF Lists, ToSet

(***************************************************************************)
(* What is found.                                                          *)
(***************************************************************************)
\* A list of findings.
IsFindings(s) == s \in Seq(ToSet(s)) /\ \A f \in ToSet(s) : f.severity \in Sev

\* A finding as it is without triage.
Open(f) == [f EXCEPT !.status = "open"]

\* s0 is s with every finding open.
Plain(s, s0) == DOMAIN s0 = DOMAIN s /\ \A i \in DOMAIN s : s0[i] = Open(s[i])

\* A finding nobody has triaged is open, and otherwise the same.
LEMMA PlainFinding ==
  ASSUME NEW severity, NEW category, NEW subject, NEW count, NEW ack
  PROVE  Finding(severity, category, subject, count, Unacknowledged)
           = Open(Finding(severity, category, subject, count, ack))
<1>1. Status(category, subject, Unacknowledged) = "open"
  BY DEF Status, Unacknowledged
<1>2. QED
  BY <1>1 DEF Finding, Open

\* A sequence is one of its members.
LEMMA OfItsMembers ==
  ASSUME NEW F, NEW s \in Seq(F)
  PROVE  s \in Seq(ToSet(s))
<1>1. Len(s) \in Nat /\ DOMAIN s = 1 .. Len(s) /\ s = [i \in 1 .. Len(s) |-> s[i]]
  OBVIOUS
<1>2. \A i \in 1 .. Len(s) : s[i] \in ToSet(s)
  BY <1>1 DEF ToSet
<1> HIDE DEF ToSet
<1>3. QED
  BY <1>1, <1>2

\* Lists of findings may be joined, before and after triage.
LEMMA JoinFindings ==
  ASSUME NEW s, NEW t, IsFindings(s), IsFindings(t)
  PROVE  IsFindings(s \o t) /\ ToSet(s \o t) = ToSet(s) \cup ToSet(t)
<1>1. PICK F : F = ToSet(s) \cup ToSet(t)
  OBVIOUS
<1>2. s \in Seq(F) /\ t \in Seq(F)
  <2>1. s \in Seq(ToSet(s)) /\ t \in Seq(ToSet(t))
    BY DEF IsFindings
  <2>2. QED
    BY <1>1, <2>1
<1>3. s \o t \in Seq(F) /\ ToSet(s \o t) = F
  <2>1. PICK st : st = s \o t
    OBVIOUS
  <2>2. IsJoin(s, t, st, F)
    BY ONLY <1>2, <2>1, Joined
  <2>3. QED
    BY ONLY <1>1, <2>1, <2>2 DEF IsJoin
<1>4. s \o t \in Seq(ToSet(s \o t))
  BY <1>3
<1>5. QED
  BY <1>1, <1>3, <1>4 DEF IsFindings

\* Joined lists differ in status only if their parts do.
LEMMA JoinPlain ==
  ASSUME NEW s, NEW t, NEW s0, NEW t0, Plain(s, s0), Plain(t, t0),
         IsFindings(s), IsFindings(t), IsFindings(s0), IsFindings(t0)
  PROVE  Plain(s \o t, s0 \o t0)
<1>1. PICK F : F = ToSet(s) \cup ToSet(t) \cup ToSet(s0) \cup ToSet(t0)
  OBVIOUS
<1>2. s \in Seq(F) /\ t \in Seq(F) /\ s0 \in Seq(F) /\ t0 \in Seq(F)
  <2>1. s \in Seq(ToSet(s)) /\ t \in Seq(ToSet(t)) /\ s0 \in Seq(ToSet(s0)) /\ t0 \in Seq(ToSet(t0))
    BY DEF IsFindings
  <2>2. QED
    BY <1>1, <2>1
<1>3. PICK st, st0 : st = s \o t /\ st0 = s0 \o t0
  OBVIOUS
<1>3j. IsJoin(s, t, st, F) /\ IsJoin(s0, t0, st0, F)
  BY ONLY <1>2, <1>3, Joined
<1>4. /\ Len(s) \in Nat /\ Len(t) \in Nat
      /\ DOMAIN s = 1 .. Len(s) /\ DOMAIN t = 1 .. Len(t) /\ DOMAIN st = 1 .. Len(s) + Len(t)
      /\ \A i \in 1 .. Len(s) : st[i] = s[i]
      /\ \A i \in Len(s) + 1 .. Len(s) + Len(t) : st[i] = t[i - Len(s)] /\ i - Len(s) \in 1 .. Len(t)
  BY ONLY <1>3j DEF IsJoin
<1>5. /\ Len(s0) \in Nat /\ Len(t0) \in Nat
      /\ DOMAIN s0 = 1 .. Len(s0) /\ DOMAIN t0 = 1 .. Len(t0) /\ DOMAIN st0 = 1 .. Len(s0) + Len(t0)
      /\ \A i \in 1 .. Len(s0) : st0[i] = s0[i]
      /\ \A i \in Len(s0) + 1 .. Len(s0) + Len(t0) : st0[i] = t0[i - Len(s0)] /\ i - Len(s0) \in 1 .. Len(t0)
  BY ONLY <1>3j DEF IsJoin
<1>6. /\ DOMAIN s0 = DOMAIN s /\ \A i \in DOMAIN s : s0[i] = Open(s[i])
      /\ DOMAIN t0 = DOMAIN t /\ \A i \in DOMAIN t : t0[i] = Open(t[i])
  BY DEF Plain
<1>7. Len(s0) = Len(s) /\ Len(t0) = Len(t)
  BY <1>2, <1>6
<1>8. DOMAIN st0 = DOMAIN st
  BY ONLY <1>4, <1>5, <1>7
<1>9. ASSUME NEW i \in DOMAIN st
      PROVE  st0[i] = Open(st[i])
  <2>1. CASE i \in 1 .. Len(s)
    BY <1>4, <1>5, <1>6, <1>7, <2>1
  <2>2. CASE i \in Len(s) + 1 .. Len(s) + Len(t)
    BY <1>4, <1>5, <1>6, <1>7, <2>2
  <2>3. QED
    BY <1>4, <2>1, <2>2
<1>10. QED
  BY <1>3, <1>8, <1>9 DEF Plain

\* A list of no finding is one that nobody has triaged.
LEMMA NoFinding == IsFindings(<<>>) /\ Plain(<<>>, <<>>)
<1>1. ToSet(<<>>) = {} /\ <<>> \in Seq({}) /\ DOMAIN <<>> = {}
  BY DEF ToSet
<1>2. QED
  BY <1>1 DEF IsFindings, Plain

\* A list of one finding differs from the one nobody has triaged in status only.
LEMMA OneFinding ==
  ASSUME NEW severity \in Sev, NEW category, NEW subject, NEW count, NEW ack
  PROVE  /\ IsFindings(<<Finding(severity, category, subject, count, ack)>>)
         /\ Plain(<<Finding(severity, category, subject, count, ack)>>,
                  <<Finding(severity, category, subject, count, Unacknowledged)>>)
<1>1. PICK f, f0 : /\ f = Finding(severity, category, subject, count, ack)
                   /\ f0 = Finding(severity, category, subject, count, Unacknowledged)
  OBVIOUS
<1>2. f.severity \in Sev
  BY <1>1 DEF Finding
<1>3. f0 = Open(f)
  BY <1>1, PlainFinding
<1>4. ToSet(<<f>>) = {f}
  BY DEF ToSet
<1>5. <<f>> \in Seq({f})
  OBVIOUS
<1>6. DOMAIN <<f>> = {1} /\ DOMAIN <<f0>> = {1} /\ <<f>>[1] = f /\ <<f0>>[1] = f0
  OBVIOUS
<1>7. IsFindings(<<f>>)
  BY <1>2, <1>4, <1>5 DEF IsFindings
<1>8. Plain(<<f>>, <<f0>>)
  BY <1>3, <1>6 DEF Plain
<1>9. QED
  BY <1>1, <1>7, <1>8

\* Stuck items.
LEMMA StuckIs ==
  ASSUME NEW pending, NEW today, NEW ack
  PROVE  /\ IsFindings(StuckQueue(pending, today, ack))
         /\ Plain(StuckQueue(pending, today, ack), StuckQueue(pending, today, Unacknowledged))
<1>1. PICK aged, severity : severity \in Sev /\ \A a :
        StuckQueue(pending, today, a) =
          IF aged = {} THEN <<>>
          ELSE <<Finding(severity, "stuck_queue", General, Cardinality(aged), a)>>
  <2> DEFINE ages == [i \in DOMAIN pending |-> today - pending[i]]
             aged == {i \in DOMAIN pending : ages[i] > MaxAge}
             severity == IF \E i \in aged : ages[i] > 2 * MaxAge THEN "critical" ELSE "major"
  <2>1. severity \in Sev
    BY DEF Sev
  <2>2. \A a : StuckQueue(pending, today, a) =
                 IF aged = {} THEN <<>>
                 ELSE <<Finding(severity, "stuck_queue", General, Cardinality(aged), a)>>
    BY DEF StuckQueue
  <2> HIDE DEF aged, severity
  <2>3. QED
    BY <2>1, <2>2
<1>2. CASE aged = {}
  BY <1>1, <1>2, NoFinding
<1>3. CASE aged # {}
  BY <1>1, <1>3, OneFinding
<1>4. QED
  BY <1>2, <1>3

\* A stale build.
LEMMA StaleIs ==
  ASSUME NEW stale, NEW ack
  PROVE  IsFindings(Staleness(stale, ack)) /\ Plain(Staleness(stale, ack), Staleness(stale, Unacknowledged))
BY NoFinding, OneFinding DEF Staleness, Sev

\* Positions that are overdue.
LEMMA OverdueIs ==
  ASSUME NEW positions, IsFiniteSet(DOMAIN positions), NEW today, NEW ack
  PROVE  /\ IsFindings(OverduePositions(positions, today, ack))
         /\ Plain(OverduePositions(positions, today, ack), OverduePositions(positions, today, Unacknowledged))
<1> DEFINE days == [s \in DOMAIN positions |-> today - positions[s].exit]
           overdue == {s \in DOMAIN positions : positions[s].quantity # 0 /\ days[s] > 0}
           listed == InOrder(overdue,
                {p \in overdue \X overdue :
                   days[p[1]] > days[p[2]] \/ (days[p[1]] = days[p[2]] /\ p[1] < p[2])})
           n == Cardinality(overdue)
<1>0. n \in Nat
  BY FS_Subset, FS_CardinalityType
<1>1. \A a : OverduePositions(positions, today, a) =
         [i \in 1 .. n |-> Finding("critical", "overdue_position", listed[i], days[listed[i]], a)]
  <2>1. \A a : OverduePositions(positions, today, a) =
          [i \in DOMAIN listed |-> Finding("critical", "overdue_position", listed[i], days[listed[i]], a)]
    BY DEF OverduePositions
  <2>2. DOMAIN listed = 1 .. n
    BY DEF InOrder
  <2> HIDE DEF listed, days, overdue, n
  <2>3. QED
    BY <2>1, <2>2
<1> HIDE DEF listed, days, overdue, n
<1>2. PICK s, s0 : /\ s = OverduePositions(positions, today, ack)
                   /\ s0 = OverduePositions(positions, today, Unacknowledged)
  OBVIOUS
<1>3. /\ DOMAIN s = 1 .. n /\ DOMAIN s0 = 1 .. n
      /\ s = [i \in 1 .. n |-> s[i]]
      /\ \A i \in 1 .. n : /\ s[i] = Finding("critical", "overdue_position", listed[i], days[listed[i]], ack)
                           /\ s0[i] = Finding("critical", "overdue_position", listed[i], days[listed[i]], Unacknowledged)
  BY <1>1, <1>2
<1>4. \A i \in 1 .. n : s0[i] = Open(s[i])
  BY <1>3, PlainFinding
<1>5. ToSet(s) = {s[i] : i \in 1 .. n}
  BY <1>3 DEF ToSet
<1>6. s \in Seq(ToSet(s))
  <2>1. \A i \in 1 .. n : s[i] \in ToSet(s)
    BY <1>5
  <2>2. QED
    BY <1>0, <1>3, <2>1
<1>7. \A f \in ToSet(s) : f.severity \in Sev
  BY <1>3, <1>5 DEF Finding, Sev
<1>8. QED
  BY <1>2, <1>3, <1>4, <1>6, <1>7 DEF IsFindings, Plain

\* What each job may have: a finding or none.
OneEach(found) == \A n \in DOMAIN JobKeys : found[n] = {} \/ \E f : found[n] = {f} /\ f.severity \in Sev

\* The findings of the jobs are those of each.
LEMMA ByJobIs ==
  ASSUME NEW found, OneEach(found)
  PROVE  /\ IsFindings(ByJob(found))
         /\ \A n \in DOMAIN JobKeys : found[n] \subseteq ToSet(ByJob(found))
<1>1. PICK places : places = {n \in DOMAIN JobKeys : found[n] # {}}
  OBVIOUS
<1>2. PICK list : list = [n \in DOMAIN JobKeys |-> CHOOSE f \in found[n] : TRUE]
  OBVIOUS
<1>3. places \in SUBSET Nat /\ IsFiniteSet(places) /\ places \subseteq DOMAIN JobKeys
  <2>1. Len(JobKeys) \in Nat /\ DOMAIN JobKeys = 1 .. Len(JobKeys)
    BY AlertConstants
  <2>2. IsFiniteSet(DOMAIN JobKeys)
    BY <2>1, FS_Interval
  <2>3. places \subseteq DOMAIN JobKeys
    BY <1>1
  <2>4. QED
    BY <2>1, <2>2, <2>3, FS_Subset
<1>4. \A n \in places : found[n] = {list[n]} /\ list[n].severity \in Sev
  BY <1>1, <1>2 DEF OneEach
<1>5. PICK F : F = {list[n] : n \in places}
  OBVIOUS
<1>6. \A n \in places : list[n] \in F
  BY <1>5
<1>7. ByJob(found) = Selected(list, places)
  BY <1>1, <1>2 DEF ByJob
<1>8. ByJob(found) \in Seq(F) /\ ToSet(ByJob(found)) = F
  <2>1. Selected(list, places) \in Seq(F) /\ ToSet(Selected(list, places)) = {list[n] : n \in places}
    BY ONLY <1>3, <1>6, SelectedIs
  <2>2. QED
    BY ONLY <1>5, <1>7, <2>1
<1>9. \A f \in F : f.severity \in Sev
  BY <1>4, <1>5
<1>10. \A n \in DOMAIN JobKeys : found[n] \subseteq F
  BY <1>1, <1>4, <1>5
<1>11. QED
  BY <1>8, <1>9, <1>10 DEF IsFindings

\* Nor does triage change which jobs have one.
LEMMA ByJobPlain ==
  ASSUME NEW found, OneEach(found), NEW plain,
         \A n \in DOMAIN JobKeys : plain[n] = {Open(f) : f \in found[n]}
  PROVE  Plain(ByJob(found), ByJob(plain))
<1>1. PICK places : places = {n \in DOMAIN JobKeys : found[n] # {}}
  OBVIOUS
<1>2. places = {n \in DOMAIN JobKeys : plain[n] # {}}
  BY <1>1
<1>3. PICK list, list0 : /\ list = [n \in DOMAIN JobKeys |-> CHOOSE f \in found[n] : TRUE]
                        /\ list0 = [n \in DOMAIN JobKeys |-> CHOOSE f \in plain[n] : TRUE]
  OBVIOUS
<1>4. places \in SUBSET Nat /\ IsFiniteSet(places)
  <2>1. Len(JobKeys) \in Nat /\ DOMAIN JobKeys = 1 .. Len(JobKeys)
    BY AlertConstants
  <2>2. IsFiniteSet(DOMAIN JobKeys)
    BY <2>1, FS_Interval
  <2>3. places \subseteq DOMAIN JobKeys
    BY <1>1
  <2>4. QED
    BY <2>1, <2>2, <2>3, FS_Subset
<1>5. \A n \in places : list0[n] = Open(list[n])
  <2> SUFFICES ASSUME NEW n \in places PROVE list0[n] = Open(list[n])
    OBVIOUS
  <2>1. n \in DOMAIN JobKeys /\ found[n] # {}
    BY <1>1
  <2>2. PICK f : found[n] = {f}
    BY <2>1 DEF OneEach
  <2>3. plain[n] = {Open(f)}
    BY <2>1, <2>2
  <2>4. QED
    BY <1>3, <2>1, <2>2, <2>3
<1>6. PICK order : order = Ascending(places)
  OBVIOUS
<1>7. PICK n \in Nat : n = Cardinality(places)
  BY <1>4, FS_CardinalityType
<1>8. order \in [1 .. n -> places]
  BY <1>4, <1>6, <1>7, PlacesInOrder
<1>9. PICK s, s0 : s = ByJob(found) /\ s0 = ByJob(plain)
  OBVIOUS
<1>10. s = [i \in 1 .. n |-> list[order[i]]] /\ s0 = [i \in 1 .. n |-> list0[order[i]]]
  <2>1. s = Selected(list, places) /\ s0 = Selected(list0, places)
    BY <1>1, <1>2, <1>3, <1>9 DEF ByJob
  <2>2. Selected(list, places) = [i \in DOMAIN order |-> list[order[i]]]
    BY <1>6 DEF Selected
  <2>3. Selected(list0, places) = [i \in DOMAIN order |-> list0[order[i]]]
    BY <1>6 DEF Selected
  <2>4. QED
    BY <1>8, <2>1, <2>2, <2>3
<1>11. QED
  BY <1>5, <1>8, <1>9, <1>10 DEF Plain

\* Jobs that are silent or never successful.
LEMMA SilenceIs ==
  ASSUME NEW outcomes, NEW moment, NEW ack
  PROVE  /\ IsFindings(JobSilence(outcomes, moment, ack))
         /\ \A n \in DOMAIN JobKeys :
              SilenceOf(JobKeys[n], outcomes, moment, ack) \subseteq ToSet(JobSilence(outcomes, moment, ack))
         /\ Plain(JobSilence(outcomes, moment, ack), JobSilence(outcomes, moment, Unacknowledged))
<1>1. PICK found, plain :
        /\ found = [n \in DOMAIN JobKeys |-> SilenceOf(JobKeys[n], outcomes, moment, ack)]
        /\ plain = [n \in DOMAIN JobKeys |-> SilenceOf(JobKeys[n], outcomes, moment, Unacknowledged)]
  OBVIOUS
<1>2. \A key :
        \/ /\ SilenceOf(key, outcomes, moment, ack) = {}
           /\ SilenceOf(key, outcomes, moment, Unacknowledged) = {}
        \/ \E severity \in Sev : \E category, count :
             /\ SilenceOf(key, outcomes, moment, ack) = {Finding(severity, category, key, count, ack)}
             /\ SilenceOf(key, outcomes, moment, Unacknowledged) = {Finding(severity, category, key, count, Unacknowledged)}
  BY DEF SilenceOf, Sev
<1>3. \A n \in DOMAIN JobKeys :
        /\ found[n] = {} \/ \E f : found[n] = {f} /\ f.severity \in Sev
        /\ plain[n] = {Open(f) : f \in found[n]}
  <2> SUFFICES ASSUME NEW n \in DOMAIN JobKeys
               PROVE  /\ found[n] = {} \/ \E f : found[n] = {f} /\ f.severity \in Sev
                      /\ plain[n] = {Open(f) : f \in found[n]}
    OBVIOUS
  <2>1. CASE found[n] = {} /\ plain[n] = {}
    BY <2>1
  <2>2. CASE \E severity \in Sev : \E category, count :
               /\ found[n] = {Finding(severity, category, JobKeys[n], count, ack)}
               /\ plain[n] = {Finding(severity, category, JobKeys[n], count, Unacknowledged)}
    <3>1. PICK severity \in Sev : \E category, count :
               /\ found[n] = {Finding(severity, category, JobKeys[n], count, ack)}
               /\ plain[n] = {Finding(severity, category, JobKeys[n], count, Unacknowledged)}
      BY <2>2
    <3>2. PICK category, count :
               /\ found[n] = {Finding(severity, category, JobKeys[n], count, ack)}
               /\ plain[n] = {Finding(severity, category, JobKeys[n], count, Unacknowledged)}
      BY <3>1
    <3>3. PICK f, f0 : /\ f = Finding(severity, category, JobKeys[n], count, ack)
                       /\ f0 = Finding(severity, category, JobKeys[n], count, Unacknowledged)
      OBVIOUS
    <3>4. f0 = Open(f) /\ f.severity \in Sev
      BY <3>3, PlainFinding DEF Finding
    <3>5. QED
      BY <3>2, <3>3, <3>4
  <2>3. QED
    BY <1>1, <1>2, <2>1, <2>2
<1>4. OneEach(found)
  BY <1>3 DEF OneEach
<1>5. /\ JobSilence(outcomes, moment, ack) = ByJob(found)
      /\ JobSilence(outcomes, moment, Unacknowledged) = ByJob(plain)
  BY <1>1 DEF JobSilence
<1>6. \A n \in DOMAIN JobKeys : found[n] = SilenceOf(JobKeys[n], outcomes, moment, ack)
  BY <1>1
<1>7. IsFindings(ByJob(found)) /\ \A n \in DOMAIN JobKeys : found[n] \subseteq ToSet(ByJob(found))
  BY <1>4, ByJobIs
<1>8. Plain(ByJob(found), ByJob(plain))
  BY <1>3, <1>4, ByJobPlain
<1>9. QED
  BY <1>5, <1>6, <1>7, <1>8

\* Jobs that cannot tell.
LEMMA UndecidableIs ==
  ASSUME NEW outcomes, NEW ack
  PROVE  /\ IsFindings(UndecidableSources(outcomes, ack))
         /\ Plain(UndecidableSources(outcomes, ack), UndecidableSources(outcomes, Unacknowledged))
<1>1. PICK found, plain :
        /\ found = [n \in DOMAIN JobKeys |-> UndecidableOf(JobKeys[n], outcomes, ack)]
        /\ plain = [n \in DOMAIN JobKeys |-> UndecidableOf(JobKeys[n], outcomes, Unacknowledged)]
  OBVIOUS
<1>2. \A key : \E count :
        \/ /\ UndecidableOf(key, outcomes, ack) = {}
           /\ UndecidableOf(key, outcomes, Unacknowledged) = {}
        \/ /\ UndecidableOf(key, outcomes, ack) = {Finding("major", "undecidable_rate", key, count, ack)}
           /\ UndecidableOf(key, outcomes, Unacknowledged) = {Finding("major", "undecidable_rate", key, count, Unacknowledged)}
  BY DEF UndecidableOf
<1>3. \A n \in DOMAIN JobKeys :
        /\ found[n] = {} \/ \E f : found[n] = {f} /\ f.severity \in Sev
        /\ plain[n] = {Open(f) : f \in found[n]}
  <2> SUFFICES ASSUME NEW n \in DOMAIN JobKeys
               PROVE  /\ found[n] = {} \/ \E f : found[n] = {f} /\ f.severity \in Sev
                      /\ plain[n] = {Open(f) : f \in found[n]}
    OBVIOUS
  <2>1. CASE found[n] = {} /\ plain[n] = {}
    BY <2>1
  <2>2. CASE \E count :
               /\ found[n] = {Finding("major", "undecidable_rate", JobKeys[n], count, ack)}
               /\ plain[n] = {Finding("major", "undecidable_rate", JobKeys[n], count, Unacknowledged)}
    <3>2. PICK count :
               /\ found[n] = {Finding("major", "undecidable_rate", JobKeys[n], count, ack)}
               /\ plain[n] = {Finding("major", "undecidable_rate", JobKeys[n], count, Unacknowledged)}
      BY <2>2
    <3>3. PICK f, f0 : /\ f = Finding("major", "undecidable_rate", JobKeys[n], count, ack)
                       /\ f0 = Finding("major", "undecidable_rate", JobKeys[n], count, Unacknowledged)
      OBVIOUS
    <3>4. f0 = Open(f) /\ f.severity \in Sev
      BY <3>3, PlainFinding DEF Finding, Sev
    <3>5. QED
      BY <3>2, <3>3, <3>4
  <2>3. QED
    BY <1>1, <1>2, <2>1, <2>2
<1>4. OneEach(found)
  BY <1>3 DEF OneEach
<1>5. /\ UndecidableSources(outcomes, ack) = ByJob(found)
      /\ UndecidableSources(outcomes, Unacknowledged) = ByJob(plain)
  BY <1>1 DEF UndecidableSources
<1>6. IsFindings(ByJob(found))
  BY <1>4, ByJobIs
<1>7. Plain(ByJob(found), ByJob(plain))
  BY <1>3, <1>4, ByJobPlain
<1>8. QED
  BY <1>5, <1>6, <1>7

\* All that is found, in the order of the checks.
AllFound(state, outcomes, moment, ack) ==
  LET today == moment \div PerDay
  IN StuckQueue(state.pending, today, ack)
     \o OverduePositions(state.positions, today, ack)
     \o JobSilence(outcomes, moment, ack)
     \o UndecidableSources(outcomes, ack)
     \o Staleness(state.stale, ack)

\* The findings of the jobs are among it, and triage changes no more than a status.
LEMMA AllFoundIs ==
  ASSUME NEW state, IsFiniteSet(DOMAIN state.positions), NEW outcomes, NEW moment, NEW ack
  PROVE  /\ IsFindings(AllFound(state, outcomes, moment, ack))
         /\ ToSet(JobSilence(outcomes, moment, ack)) \subseteq ToSet(AllFound(state, outcomes, moment, ack))
         /\ Plain(AllFound(state, outcomes, moment, ack), AllFound(state, outcomes, moment, Unacknowledged))
<1>1. PICK today : today = moment \div PerDay
  OBVIOUS
<1>2. PICK a, b, c, d, e :
        /\ a = StuckQueue(state.pending, today, ack)
        /\ b = OverduePositions(state.positions, today, ack)
        /\ c = JobSilence(outcomes, moment, ack)
        /\ d = UndecidableSources(outcomes, ack)
        /\ e = Staleness(state.stale, ack)
  OBVIOUS
<1>3. PICK a0, b0, c0, d0, e0 :
        /\ a0 = StuckQueue(state.pending, today, Unacknowledged)
        /\ b0 = OverduePositions(state.positions, today, Unacknowledged)
        /\ c0 = JobSilence(outcomes, moment, Unacknowledged)
        /\ d0 = UndecidableSources(outcomes, Unacknowledged)
        /\ e0 = Staleness(state.stale, Unacknowledged)
  OBVIOUS
<1>4. /\ IsFindings(a) /\ IsFindings(b) /\ IsFindings(c) /\ IsFindings(d) /\ IsFindings(e)
      /\ IsFindings(a0) /\ IsFindings(b0) /\ IsFindings(c0) /\ IsFindings(d0) /\ IsFindings(e0)
  BY <1>2, <1>3, StuckIs, OverdueIs, SilenceIs, UndecidableIs, StaleIs
<1>5. Plain(a, a0) /\ Plain(b, b0) /\ Plain(c, c0) /\ Plain(d, d0) /\ Plain(e, e0)
  BY <1>2, <1>3, StuckIs, OverdueIs, SilenceIs, UndecidableIs, StaleIs
<1>6. PICK f, f0 : f = a \o b /\ f0 = a0 \o b0
  OBVIOUS
<1>7. IsFindings(f) /\ IsFindings(f0) /\ Plain(f, f0)
  BY ONLY <1>4, <1>5, <1>6, JoinFindings, JoinPlain
<1>8. PICK g, g0 : g = f \o c /\ g0 = f0 \o c0
  OBVIOUS
<1>9. IsFindings(g) /\ IsFindings(g0) /\ Plain(g, g0) /\ ToSet(c) \subseteq ToSet(g)
  BY ONLY <1>4, <1>5, <1>7, <1>8, JoinFindings, JoinPlain
<1>10. PICK h, h0 : h = g \o d /\ h0 = g0 \o d0
  OBVIOUS
<1>11. IsFindings(h) /\ IsFindings(h0) /\ Plain(h, h0) /\ ToSet(c) \subseteq ToSet(h)
  BY ONLY <1>4, <1>5, <1>9, <1>10, JoinFindings, JoinPlain
<1>12. PICK k, k0 : k = h \o e /\ k0 = h0 \o e0
  OBVIOUS
<1>13. IsFindings(k) /\ IsFindings(k0) /\ Plain(k, k0) /\ ToSet(c) \subseteq ToSet(k)
  BY ONLY <1>4, <1>5, <1>11, <1>12, JoinFindings, JoinPlain
<1>14. k = AllFound(state, outcomes, moment, ack) /\ k0 = AllFound(state, outcomes, moment, Unacknowledged)
  BY <1>1, <1>2, <1>3, <1>6, <1>8, <1>10, <1>12 DEF AllFound
<1>15. QED
  BY ONLY <1>2, <1>13, <1>14

\* A list is ranked to the same findings, in the order of their groups.
LEMMA AlertsAre ==
  ASSUME NEW state, IsFiniteSet(DOMAIN state.positions), NEW outcomes, NEW moment, NEW ack,
         NEW alerts, alerts = BuildAlerts(state, outcomes, moment, ack),
         NEW found, found = AllFound(state, outcomes, moment, ack)
  PROVE  /\ IsFindings(alerts) /\ Graded(alerts)
         /\ Len(alerts) = Len(found) /\ ToSet(alerts) = ToSet(found)
<1>1. alerts = Ranked(found)
  BY DEF BuildAlerts, AllFound
<1>2. IsFindings(found)
  BY AllFoundIs
<1>3. PICK F : F = ToSet(found)
  OBVIOUS
<1>4. found \in Seq(F) /\ \A f \in F : f.severity \in Sev
  BY <1>2, <1>3 DEF IsFindings
<1>5. /\ alerts \in Seq(F) /\ Graded(alerts) /\ Len(alerts) = Len(found)
      /\ ToSet(alerts) = ToSet(found)
  BY <1>1, <1>4, RankedIs
<1>6. QED
  BY <1>3, <1>4, <1>5 DEF IsFindings

\* What is found about a job is in the list.
LEMMA JobIsMentioned ==
  ASSUME NEW state, IsFiniteSet(DOMAIN state.positions), NEW outcomes, NEW moment, NEW ack,
         NEW key \in Keys, NEW f \in SilenceOf(key, outcomes, moment, ack)
  PROVE  Mentions(BuildAlerts(state, outcomes, moment, ack), f.category, f.subject)
<1>1. PICK n \in DOMAIN JobKeys : key = JobKeys[n]
  BY DEF Keys
<1>2. f \in ToSet(JobSilence(outcomes, moment, ack))
  BY <1>1, SilenceIs
<1>3. PICK alerts, found : /\ alerts = BuildAlerts(state, outcomes, moment, ack)
                          /\ found = AllFound(state, outcomes, moment, ack)
  OBVIOUS
<1>4. f \in ToSet(alerts)
  BY <1>2, <1>3, AllFoundIs, AlertsAre
<1>5. QED
  BY <1>3, <1>4 DEF Mentions, ToSet

\* A job without a recent outcome is reported as silent.
LEMMA SilentIsMentioned ==
  ASSUME NEW state, IsFiniteSet(DOMAIN state.positions), NEW outcomes, NEW moment, NEW ack,
         NEW key \in Keys, Recent(outcomes, key, moment) = {}
  PROVE  Mentions(BuildAlerts(state, outcomes, moment, ack), "job_silence", key)
<1>1. PICK f : f = Finding("major", "job_silence", key, SilenceDays, ack)
  OBVIOUS
<1>2. f \in SilenceOf(key, outcomes, moment, ack) /\ f.category = "job_silence" /\ f.subject = key
  BY <1>1 DEF SilenceOf, Finding
<1>3. QED
  BY <1>2, JobIsMentioned

\* One whose recent outcomes are none of them OK is reported as never successful.
LEMMA FailingIsMentioned ==
  ASSUME NEW state, IsFiniteSet(DOMAIN state.positions), NEW outcomes, NEW moment, NEW ack,
         NEW key \in Keys, Recent(outcomes, key, moment) # {},
         \A n \in Recent(outcomes, key, moment) : outcomes[n].result # "OK"
  PROVE  Mentions(BuildAlerts(state, outcomes, moment, ack), "job_never_succeeds", key)
<1>1. PICK f : f = Finding("minor", "job_never_succeeds", key, Cardinality(Recent(outcomes, key, moment)), ack)
  OBVIOUS
<1>2. f \in SilenceOf(key, outcomes, moment, ack) /\ f.category = "job_never_succeeds" /\ f.subject = key
  BY <1>1 DEF SilenceOf, Finding
<1>3. QED
  BY <1>2, JobIsMentioned

\* Opening an open finding changes nothing.
LEMMA OpenTwice == ASSUME NEW f PROVE Open(Open(f)) = Open(f)
BY DEF Open

\* The group of a finding is its place among those that are open, or are not.
LEMMA PlaceIs ==
  ASSUME NEW f, f.severity \in Sev
  PROVE  /\ Place(f) \in 1 .. 3
         /\ Group(f) = IF f.status = "open" THEN Place(f) ELSE 3 + Place(f)
<1>1. DOMAIN Severities = 1 .. 3
      /\ Severities[1] = "critical" /\ Severities[2] = "major" /\ Severities[3] = "minor"
  BY DEF Severities
<1>2. CASE f.severity = "critical"
  <2>1. Place(f) = 1
    BY <1>1, <1>2 DEF Place
  <2>2. QED
    BY <1>2, <2>1 DEF Group
<1>3. CASE f.severity = "major"
  <2>1. Place(f) = 2
    BY <1>1, <1>3 DEF Place
  <2>2. QED
    BY <1>3, <2>1 DEF Group
<1>4. CASE f.severity = "minor"
  <2>1. Place(f) = 3
    BY <1>1, <1>4 DEF Place
  <2>2. QED
    BY <1>4, <2>1 DEF Group
<1>5. QED
  BY <1>2, <1>3, <1>4 DEF Sev

\* For any stream, state and acknowledgements: the list somebody has triaged has the
\* findings of the one nobody has, sorted (build_alerts, OpsAlert.sort_key).
LEMMA TriageReorders ==
  ASSUME NEW state, IsFiniteSet(DOMAIN state.positions), NEW outcomes, NEW moment, NEW ack,
         NEW alerts, alerts = BuildAlerts(state, outcomes, moment, ack),
         NEW plain, plain = BuildAlerts(state, outcomes, moment, Unacknowledged)
  PROVE  /\ Len(alerts) = Len(plain) /\ Opened(alerts) = Opened(plain)
         /\ \A m, n \in DOMAIN alerts :
              m < n => IF alerts[m].status = "open"
                       THEN alerts[n].status = "open" => Place(alerts[m]) <= Place(alerts[n])
                       ELSE alerts[n].status # "open" /\ Place(alerts[m]) <= Place(alerts[n])
<1>1. PICK found, found0 : /\ found = AllFound(state, outcomes, moment, ack)
                          /\ found0 = AllFound(state, outcomes, moment, Unacknowledged)
  OBVIOUS
<1>2. IsFindings(found) /\ IsFindings(found0) /\ Plain(found, found0)
  BY <1>1, AllFoundIs
<1>3. /\ IsFindings(alerts) /\ Graded(alerts)
      /\ Len(alerts) = Len(found) /\ ToSet(alerts) = ToSet(found)
  BY <1>1, AlertsAre
<1>4. Len(plain) = Len(found0) /\ ToSet(plain) = ToSet(found0)
  BY <1>1, AlertsAre
<1>5. Len(found0) = Len(found)
  <2>1. DOMAIN found = DOMAIN found0
    BY <1>2 DEF Plain
  <2>2. found \in Seq(ToSet(found)) /\ found0 \in Seq(ToSet(found0))
    BY <1>2 DEF IsFindings
  <2>3. QED
    BY <2>1, <2>2
<1>6. Opened(alerts) = Opened(plain)
  <2>1. Opened(alerts) = {Open(f) : f \in ToSet(alerts)} /\ Opened(plain) = {Open(f) : f \in ToSet(plain)}
    BY DEF Opened, Open, ToSet
  <2>2. ToSet(found0) = {Open(f) : f \in ToSet(found)}
    BY <1>2 DEF Plain, ToSet
  <2>3. \A f \in ToSet(found0) : Open(f) = f
    BY <2>2, OpenTwice
  <2>4. {Open(f) : f \in ToSet(found0)} = ToSet(found0)
    BY <2>3
  <2>5. QED
    BY ONLY <1>3, <1>4, <2>1, <2>2, <2>4
<1>7. ASSUME NEW m \in DOMAIN alerts, NEW n \in DOMAIN alerts, m < n
      PROVE  IF alerts[m].status = "open"
             THEN alerts[n].status = "open" => Place(alerts[m]) <= Place(alerts[n])
             ELSE alerts[n].status # "open" /\ Place(alerts[m]) <= Place(alerts[n])
  <2>1. Group(alerts[m]) <= Group(alerts[n])
    BY <1>3, <1>7 DEF Graded
  <2>2. alerts[m].severity \in Sev /\ alerts[n].severity \in Sev
    BY <1>3 DEF IsFindings, ToSet
  <2>3. /\ Place(alerts[m]) \in 1 .. 3
        /\ Group(alerts[m]) = IF alerts[m].status = "open" THEN Place(alerts[m]) ELSE 3 + Place(alerts[m])
    BY <2>2, PlaceIs
  <2>4. /\ Place(alerts[n]) \in 1 .. 3
        /\ Group(alerts[n]) = IF alerts[n].status = "open" THEN Place(alerts[n]) ELSE 3 + Place(alerts[n])
    BY <2>2, PlaceIs
  <2>5. QED
    BY ONLY <2>1, <2>3, <2>4
<1>8. QED
  BY <1>3, <1>4, <1>5, <1>6, <1>7

(***************************************************************************)
(* The stream.                                                             *)
(***************************************************************************)
\* What a line may be made of.
Pieces == StreamRecords \cup {Cut, SplitChar}
Lines == [pieces : Seq(Pieces), ended : BOOLEAN]

\* A file of lines, each of which something was written to.
FileOK(f) == f \in Seq(Lines) /\ \A n \in DOMAIN f : Len(f[n].pieces) > 0

\* The log lines that are read from a file.
Stored(f) == {e.id : e \in {r \in ToSet(ReadAll(f)) : r.kind = "log_event"}}

\* The state of the stream is of the expected shape.
StreamTypeOK ==
  /\ FileOK(file)
  /\ now \in Nat
  /\ running \in [Procs -> Keys \cup {Idle}]
  /\ dropped \in [Procs -> Nat]
  /\ calls \in [Procs -> SUBSET Events]
  /\ \A p \in Procs : IsFiniteSet(calls[p])

\* The invariant that losses are counted by.
CountedInv == StreamTypeOK /\ LossesAreCounted

(***************************************************************************)
(* Lines.                                                                  *)
(***************************************************************************)
\* A line that is one piece is that of a piece.
LEMMA LineTyped ==
  ASSUME NEW x \in Pieces, NEW e \in BOOLEAN
  PROVE  [pieces |-> <<x>>, ended |-> e] \in Lines
BY DEF Lines

\* If what an append leaves has no line of two pieces, it began a line of its own.
LEMMA AppendedFile ==
  ASSUME NEW f, FileOK(f), NEW x \in Pieces, NEW e \in BOOLEAN
  PROVE  /\ FileOK(Appended(f, x, e))
         /\ Intact(Appended(f, x, e)) =>
              Intact(f) /\ Appended(f, x, e) = Append(f, [pieces |-> <<x>>, ended |-> e])
<1> DEFINE l == [pieces |-> <<x>>, ended |-> e]
           g == Appended(f, x, e)
           n == Len(f)
<1>1. l \in Lines /\ Len(l.pieces) = 1 /\ l.pieces[1] = x
  BY LineTyped
<1>2. f \in Seq(Lines) /\ n \in Nat /\ DOMAIN f = 1 .. n
  BY DEF FileOK
<1>3. CASE n > 0 /\ ~f[n].ended
  <2>1. f[n] \in Lines /\ n \in DOMAIN f
    BY <1>2, <1>3
  <2> DEFINE m == [pieces |-> Append(f[n].pieces, x), ended |-> e]
  <2>2. f[n].pieces \in Seq(Pieces) /\ Len(f[n].pieces) \in Nat /\ Len(f[n].pieces) > 0
    BY <2>1 DEF Lines, FileOK
  <2>3. m \in Lines /\ Len(m.pieces) = Len(f[n].pieces) + 1
    BY <2>2 DEF Lines
  <2>4. g = [f EXCEPT ![n] = m]
    BY <1>3 DEF Appended
  <2> HIDE DEF m, g, l
  <2>5. g \in Seq(Lines) /\ DOMAIN g = DOMAIN f /\ g[n] = m
        /\ \A k \in DOMAIN f : k # n => g[k] = f[k]
    BY <1>2, <2>1, <2>3, <2>4
  <2>6. FileOK(g)
    BY <2>2, <2>3, <2>5 DEF FileOK
  <2>7. ~Intact(g)
    <3>1. n \in DOMAIN g
      BY ONLY <2>1, <2>5
    <3>2. Len(g[n].pieces) = Len(f[n].pieces) + 1
      BY ONLY <2>3, <2>5
    <3>3. Len(g[n].pieces) # 1
      BY ONLY <2>2, <3>2
    <3>4. QED
      BY ONLY <3>1, <3>3 DEF Intact
  <2>8. QED
    BY <2>6, <2>7 DEF g
<1>4. CASE ~ (n > 0 /\ ~f[n].ended)
  <2>1. g = Append(f, l)
    BY <1>4 DEF Appended
  <2> HIDE DEF g, l
  <2>2. /\ g \in Seq(Lines) /\ DOMAIN g = 1 .. n + 1 /\ g[n + 1] = l
        /\ \A k \in 1 .. n : g[k] = f[k]
    BY <1>1, <1>2, <2>1
  <2>3. \A k \in DOMAIN g : k \in DOMAIN f \/ k = n + 1
    BY <1>2, <2>2
  <2>4. FileOK(g)
    BY <1>1, <1>2, <2>2, <2>3 DEF FileOK
  <2>5. Intact(g) => Intact(f)
    <3>1. \A k \in DOMAIN f : k \in DOMAIN g /\ g[k] = f[k]
      BY <1>2, <2>2
    <3>2. QED
      BY <3>1 DEF Intact, Decodes
  <2>6. QED
    BY <2>1, <2>4, <2>5 DEF g, l
<1>5. QED
  BY <1>3, <1>4

\* What is read from a file are the first pieces of its lines, but of a last malformed one.
LEMMA ReadAllIs ==
  ASSUME NEW f, FileOK(f), NEW r
  PROVE  r \in ToSet(ReadAll(f)) <=>
           \E k \in 1 .. Len(f) : r = f[k].pieces[1] /\ (k < Len(f) \/ Parses(f[k]))
<1>1. Len(f) \in Nat
  BY DEF FileOK
<1> DEFINE n == IF f = <<>> \/ Parses(f[Len(f)]) THEN Len(f) ELSE Len(f) - 1
<1>2. ToSet(ReadAll(f)) = {f[k].pieces[1] : k \in 1 .. n}
  BY DEF ToSet, ReadAll
<1>3. f = <<>> => Len(f) = 0
  OBVIOUS
<1>4. \A k \in 1 .. Len(f) : k \in 1 .. n <=> k < Len(f) \/ Parses(f[k])
  BY <1>1, <1>3
<1>5. 1 .. n \subseteq 1 .. Len(f)
  BY <1>1
<1>6. QED
  BY <1>2, <1>4, <1>5

\* g has whole lines only if f has, and then all that is read from f.
Extends(f, g) ==
  FileOK(g) /\ (Intact(g) => Intact(f) /\ Stored(f) \subseteq Stored(g))

\* An append loses nothing of a file that it leaves whole, and adds a record it completes.
LEMMA AppendedExtends ==
  ASSUME NEW f, FileOK(f), NEW x \in Pieces, NEW e \in BOOLEAN
  PROVE  /\ Extends(f, Appended(f, x, e))
         /\ Intact(Appended(f, x, e)) /\ x \in StreamRecords => x \in ToSet(ReadAll(Appended(f, x, e)))
<1> DEFINE l == [pieces |-> <<x>>, ended |-> e]
<1>1. PICK g : g = Appended(f, x, e)
  OBVIOUS
<1>2. FileOK(g) /\ (Intact(g) => Intact(f) /\ g = Append(f, l))
  BY <1>1, AppendedFile
<1>3. l \in Lines /\ Len(l.pieces) = 1 /\ l.pieces[1] = x
  BY LineTyped
<1> HIDE DEF l
<1>4. ASSUME Intact(g)
      PROVE  /\ Len(g) = Len(f) + 1 /\ Len(f) \in Nat /\ g[Len(f) + 1] = l
             /\ \A k \in 1 .. Len(f) : g[k] = f[k]
  BY <1>2, <1>3, <1>4 DEF FileOK
<1>5. ASSUME Intact(g)
      PROVE  ToSet(ReadAll(f)) \subseteq ToSet(ReadAll(g))
  <2> SUFFICES ASSUME NEW r \in ToSet(ReadAll(f)) PROVE r \in ToSet(ReadAll(g))
    OBVIOUS
  <2>1. PICK k \in 1 .. Len(f) : r = f[k].pieces[1]
    BY ReadAllIs
  <2>2. k \in 1 .. Len(g) /\ r = g[k].pieces[1] /\ k < Len(g)
    BY <1>4, <1>5, <2>1
  <2>3. QED
    BY <1>2, <2>2, ReadAllIs
<1>6. ASSUME Intact(g), x \in StreamRecords
      PROVE  x \in ToSet(ReadAll(g))
  <2>1. Parses(l)
    BY <1>3, <1>6, StreamConstants DEF Parses
  <2>2. Len(f) + 1 \in 1 .. Len(g) /\ x = g[Len(f) + 1].pieces[1] /\ Parses(g[Len(f) + 1])
    BY <1>3, <1>4, <1>6, <2>1
  <2>3. QED
    BY ONLY <1>2, <2>2, ReadAllIs
<1>7. Intact(g) => Stored(f) \subseteq Stored(g)
  BY <1>5 DEF Stored
<1>8. Extends(f, g)
  BY <1>2, <1>7 DEF Extends
<1>9. QED
  BY <1>1, <1>6, <1>8

\* So does what an append leaves that does not come to its end.
LEMMA RemainsExtend ==
  ASSUME StreamTypeOK, NEW r \in StreamRecords, NEW g \in Remains(r)
  PROVE  Extends(file, g)
<1>1. FileOK(file)
  BY DEF StreamTypeOK
<1>2. CASE g = file
  BY <1>1, <1>2 DEF Extends
<1>3. CASE \E x \in Torn(r) : g = Appended(file, x, FALSE)
  <2>1. PICK x \in Torn(r) : g = Appended(file, x, FALSE)
    BY <1>3
  <2>2. x \in Pieces
    BY <2>1 DEF Torn, Pieces
  <2>3. QED
    BY <1>1, <2>1, <2>2, AppendedExtends
<1>4. QED
  BY <1>2, <1>3 DEF Remains

(***************************************************************************)
(* Losses.                                                                 *)
(***************************************************************************)
\* What of the calls of p is in no stored line is counted.
Counted(p) == Cardinality(calls[p] \ Stored(file)) <= dropped[p]

\* So for all processes, of a file without a torn line that was written to.
AllCounted == Intact(file) => \A p \in Procs : Counted(p)

\* That is what the property says.
LEMMA LossesAreThat == LossesAreCounted <=> AllCounted
BY DEF LossesAreCounted, AllCounted, Counted, Stored, LogEvents

\* Fewer of a finite set are missing from more.
LEMMA FewerAreMissing ==
  ASSUME NEW S, IsFiniteSet(S), NEW T, NEW A, NEW B, T \ B \subseteq S \ A
  PROVE  Cardinality(T \ B) <= Cardinality(S \ A)
         /\ Cardinality(T \ B) \in Nat /\ Cardinality(S \ A) \in Nat
<1>1. IsFiniteSet(S \ A)
  BY FS_Subset
<1>2. IsFiniteSet(T \ B) /\ Cardinality(T \ B) <= Cardinality(S \ A)
  BY <1>1, FS_Subset
<1>3. QED
  BY <1>1, <1>2, FS_CardinalityType

\* A step that leaves the calls and counts of p and loses no line keeps it counted.
LEMMA StaysCounted ==
  ASSUME CountedInv, Extends(file, file'), Intact(file'), NEW p \in Procs,
         calls'[p] = calls[p], dropped'[p] = dropped[p]
  PROVE  Counted(p)'
<1>1. Counted(p) /\ IsFiniteSet(calls[p]) /\ dropped[p] \in Nat
  BY LossesAreThat DEF CountedInv, StreamTypeOK, Extends, AllCounted
<1>2. calls[p] \ Stored(file') \subseteq calls[p] \ Stored(file)
  BY DEF Extends
<1>3. Cardinality(calls[p] \ Stored(file')) <= Cardinality(calls[p] \ Stored(file))
      /\ Cardinality(calls[p] \ Stored(file')) \in Nat /\ Cardinality(calls[p] \ Stored(file)) \in Nat
  BY ONLY <1>1, <1>2, FewerAreMissing
<1>4. Cardinality(calls[p] \ Stored(file')) <= dropped[p]
  BY <1>1, <1>3 DEF Counted
<1>5. QED
  BY <1>4 DEF Counted

\* A step that neither calls nor counts anything.
Silent ==
  /\ Extends(file, file') /\ UNCHANGED <<calls, dropped>>
  /\ now' \in Nat /\ running' \in [Procs -> Keys \cup {Idle}]

\* It keeps the invariant.
LEMMA SilentStep ==
  ASSUME CountedInv, Silent
  PROVE  CountedInv'
<1>1. StreamTypeOK'
  BY DEF CountedInv, StreamTypeOK, Silent, Extends
<1>2. ASSUME Intact(file'), NEW p \in Procs
      PROVE  Counted(p)'
  <2>1. Extends(file, file') /\ calls'[p] = calls[p] /\ dropped'[p] = dropped[p]
    BY DEF Silent
  <2>2. QED
    BY <1>2, <2>1, StaysCounted
<1>3. LossesAreCounted'
  <2>1. AllCounted'
    BY <1>2 DEF AllCounted
  <2>2. (LossesAreCounted <=> AllCounted)'
    BY LossesAreThat, PTL
  <2>3. QED
    BY <2>1, <2>2
<1>4. QED
  BY <1>1, <1>3 DEF CountedInv

\* The outcome of a run is a record.
LEMMA OutcomeTyped ==
  ASSUME StreamTypeOK, NEW p \in Procs, running[p] # Idle, NEW result \in Results
  PROVE  Outcome(running[p], result) \in StreamRecords
<1>1. running[p] \in Keys /\ now \in Int
  BY DEF StreamTypeOK
<1>2. QED
  BY <1>1 DEF Outcome, StreamRecords, OutcomeRecords

\* Runs that begin or end, however their outcomes fare, log nothing.
LEMMA RunStep ==
  ASSUME CountedInv, NEW p \in Procs,
         \/ \E k \in Keys : Fire(p, k)
         \/ \E result \in Results : Complete(p, result) \/ Unrecorded(p, result)
  PROVE  CountedInv'
<1>1. UNCHANGED <<calls, dropped, now>> /\ now' \in Nat
  BY DEF Fire, Complete, Unrecorded, CountedInv, StreamTypeOK
<1>2. running' \in [Procs -> Keys \cup {Idle}]
  BY DEF Fire, Complete, Unrecorded, CountedInv, StreamTypeOK
<1>3. Extends(file, file')
  <2>1. CASE \E k \in Keys : Fire(p, k)
    BY <2>1 DEF Fire, Extends, CountedInv, StreamTypeOK
  <2>2. ASSUME NEW result \in Results, Complete(p, result)
        PROVE  Extends(file, file')
    <3>1. Outcome(running[p], result) \in Pieces /\ file' = Appended(file, Outcome(running[p], result), TRUE)
      BY <2>2, OutcomeTyped DEF Complete, CountedInv, Pieces
    <3>2. FileOK(file)
      BY DEF CountedInv, StreamTypeOK
    <3>3. QED
      BY <3>1, <3>2, AppendedExtends
  <2>3. ASSUME NEW result \in Results, Unrecorded(p, result)
        PROVE  Extends(file, file')
    BY <2>3, OutcomeTyped, RemainsExtend DEF Unrecorded, CountedInv
  <2>4. QED
    BY <2>1, <2>2, <2>3
<1>4. QED
  BY <1>1, <1>2, <1>3, SilentStep DEF Silent

\* A process that is killed has no calls left to count.
LEMMA KillStep ==
  ASSUME CountedInv, NEW p \in Procs,
         Kill(p) \/ \E result \in Results : KillRecording(p, result)
  PROVE  CountedInv'
<1>1. /\ running' = [running EXCEPT ![p] = Idle] /\ dropped' = [dropped EXCEPT ![p] = 0]
      /\ calls' = [calls EXCEPT ![p] = {}] /\ now' = now
  BY DEF Kill, KillRecording, Killed
<1>2. Extends(file, file')
  <2>1. CASE Kill(p)
    <3>1. FileOK(file)
      BY DEF CountedInv, StreamTypeOK
    <3>2. CASE file' = file
      BY <3>1, <3>2 DEF Extends
    <3>3. CASE \E x \in {Cut, SplitChar} : file' = Appended(file, x, FALSE)
      <4>1. PICK x \in {Cut, SplitChar} : file' = Appended(file, x, FALSE)
        BY <3>3
      <4>2. x \in Pieces
        BY DEF Pieces
      <4>3. QED
        BY <3>1, <4>1, <4>2, AppendedExtends
    <3>4. QED
      BY <2>1, <3>2, <3>3 DEF Kill
  <2>2. ASSUME NEW result \in Results, KillRecording(p, result)
        PROVE  Extends(file, file')
    BY <2>2, OutcomeTyped, RemainsExtend DEF KillRecording, CountedInv
  <2>3. QED
    BY <2>1, <2>2
<1>3. /\ \A q \in Procs : q # p => calls'[q] = calls[q] /\ dropped'[q] = dropped[q]
      /\ calls'[p] = {} /\ dropped'[p] = 0
      /\ dropped' \in [Procs -> Nat] /\ calls' \in [Procs -> SUBSET Events]
      /\ running' \in [Procs -> Keys \cup {Idle}]
  BY <1>1 DEF CountedInv, StreamTypeOK
<1>4. \A q \in Procs : IsFiniteSet(calls'[q])
  <2>1. IsFiniteSet({})
    BY FS_EmptySet
  <2>2. QED
    BY <1>3, <2>1 DEF CountedInv, StreamTypeOK
<1>5. StreamTypeOK'
  BY <1>1, <1>2, <1>3, <1>4 DEF CountedInv, StreamTypeOK, Extends
<1>6. ASSUME Intact(file'), NEW q \in Procs
      PROVE  Counted(q)'
  <2>1. CASE q # p
    BY <1>2, <1>3, <1>6, <2>1, StaysCounted
  <2>2. CASE q = p
    <3>1. calls'[q] \ Stored(file') = {} /\ dropped'[q] = 0
      BY <1>3, <2>2
    <3>2. Cardinality({}) = 0
      BY FS_EmptySet
    <3>3. QED
      BY <3>1, <3>2 DEF Counted
  <2>3. QED
    BY <2>1, <2>2
<1>7. LossesAreCounted'
  <2>1. AllCounted'
    BY <1>6 DEF AllCounted
  <2>2. (LossesAreCounted <=> AllCounted)'
    BY LossesAreThat, PTL
  <2>3. QED
    BY <2>1, <2>2
<1>8. QED
  BY <1>5, <1>7 DEF CountedInv

\* A set has at most one element more when one is added.
LEMMA OneMore ==
  ASSUME NEW S, IsFiniteSet(S), NEW x
  PROVE  /\ IsFiniteSet(S \cup {x})
         /\ Cardinality(S) \in Nat /\ Cardinality(S \cup {x}) \in Nat
         /\ Cardinality(S \cup {x}) <= Cardinality(S) + 1
<1>1. IsFiniteSet(S \cup {x})
      /\ (Cardinality(S \cup {x}) = Cardinality(S) \/ Cardinality(S \cup {x}) = Cardinality(S) + 1)
  BY FS_AddElement
<1>2. Cardinality(S) \in Nat
  BY FS_CardinalityType
<1> DEFINE a == Cardinality(S)
           b == Cardinality(S \cup {x})
<1>3. a \in Nat /\ (b = a \/ b = a + 1)
  BY <1>1, <1>2
<1> HIDE DEF a, b
<1>4. b \in Nat /\ b <= a + 1
  BY <1>3
<1>5. QED
  BY <1>1, <1>2, <1>4 DEF a, b

\* A log call: a refusal by the stream is counted, and what is not refused is stored.
LEMMA LogStep ==
  ASSUME CountedInv, NEW p \in Procs, NEW e \in Events, NEW level \in Levels,
         NEW matches \in BOOLEAN, Log(p, e, level, matches)
  PROVE  CountedInv'
<1> DEFINE refused(console, stream) ==
      {r \in {"console", "stream"} :
         \/ r = "console" /\ level >= MinLevel /\ ~console
         \/ r = "stream" /\ Captured(level, matches) /\ ~stream}
<1>1. PICK console \in BOOLEAN, stream \in BOOLEAN :
        /\ dropped' = [dropped EXCEPT ![p] = @ + Cardinality(refused(console, stream))]
        /\ IF ~Captured(level, matches) THEN UNCHANGED file
           ELSE IF stream THEN file' = Appended(file, Event(e), TRUE)
           ELSE file' \in Remains(Event(e))
  BY DEF Log
<1> DEFINE refusals == refused(console, stream)
<1>2. /\ calls' = [calls EXCEPT ![p] = IF Captured(level, matches) THEN @ \cup {e} ELSE @]
      /\ UNCHANGED <<now, running>>
  BY DEF Log, Captured
<1>3. PICK c \in Nat : c = Cardinality(refusals) /\ (Captured(level, matches) /\ ~stream => c >= 1)
  <2>1. IsFiniteSet({"console", "stream"})
    <3>1. IsFiniteSet({"console"})
      BY ONLY FS_Singleton
    <3>2. IsFiniteSet({"console"} \cup {"stream"})
      BY ONLY <3>1, FS_AddElement
    <3>3. {"console"} \cup {"stream"} = {"console", "stream"}
      OBVIOUS
    <3>4. QED
      BY ONLY <3>2, <3>3
  <2>2. IsFiniteSet(refusals)
    BY <2>1, FS_Subset
  <2>3. Cardinality(refusals) \in Nat
    BY <2>2, FS_CardinalityType
  <2>4. ASSUME Captured(level, matches), ~stream
        PROVE  Cardinality(refusals) >= 1
    <3>1. "stream" \in refusals
      BY <2>4
    <3> HIDE DEF refusals
    <3>2. Cardinality(refusals) # 0
      BY <2>2, <3>1, FS_EmptySet
    <3>3. QED
      BY <2>3, <3>2
  <2>5. QED
    BY <2>3, <2>4
<1>4. dropped' = [dropped EXCEPT ![p] = @ + c]
  BY <1>1, <1>3
<1> HIDE DEF refusals, refused
<1>5. Event(e) \in StreamRecords /\ Event(e) \in Pieces /\ Event(e).kind = "log_event" /\ Event(e).id = e
  BY DEF Event, StreamRecords, Pieces
<1>6. FileOK(file) /\ StreamTypeOK
  BY DEF CountedInv, StreamTypeOK
<1>7. /\ Extends(file, file')
      /\ Captured(level, matches) /\ stream /\ Intact(file') => e \in Stored(file')
  <2>1. CASE ~Captured(level, matches)
    BY <1>1, <1>6, <2>1 DEF Extends
  <2>2. CASE Captured(level, matches) /\ stream
    <3>1. file' = Appended(file, Event(e), TRUE)
      BY <1>1, <2>2
    <3>2. Extends(file, file') /\ (Intact(file') => Event(e) \in ToSet(ReadAll(file')))
      BY <1>5, <1>6, <3>1, AppendedExtends
    <3>3. QED
      BY <1>5, <3>2 DEF Stored
  <2>3. CASE Captured(level, matches) /\ ~stream
    BY <1>1, <1>5, <1>6, <2>3, RemainsExtend
  <2>4. QED
    BY <2>1, <2>2, <2>3
<1>8. /\ \A q \in Procs : q # p => calls'[q] = calls[q] /\ dropped'[q] = dropped[q]
      /\ calls'[p] = IF Captured(level, matches) THEN calls[p] \cup {e} ELSE calls[p]
      /\ dropped[p] \in Nat /\ dropped'[p] = dropped[p] + c
  BY <1>2, <1>4, <1>6 DEF StreamTypeOK
<1>9. calls' \in [Procs -> SUBSET Events] /\ dropped' \in [Procs -> Nat]
  <2>1. calls[p] \in SUBSET Events /\ dropped[p] + c \in Nat
    BY <1>6, <1>8 DEF StreamTypeOK
  <2>2. QED
    BY <1>2, <1>4, <1>6, <2>1 DEF StreamTypeOK
<1>10. \A q \in Procs : IsFiniteSet(calls'[q])
  <2>1. IsFiniteSet(calls[p] \cup {e})
    BY <1>6, FS_AddElement DEF StreamTypeOK
  <2>2. QED
    BY <1>6, <1>8, <2>1 DEF StreamTypeOK
<1>11. StreamTypeOK'
  BY <1>2, <1>6, <1>7, <1>9, <1>10 DEF StreamTypeOK, Extends
<1>12. ASSUME Intact(file')
       PROVE  Counted(p)'
  <2>1. Intact(file) /\ Stored(file) \subseteq Stored(file')
    BY <1>7, <1>12 DEF Extends
  <2>2. Cardinality(calls[p] \ Stored(file)) <= dropped[p] /\ IsFiniteSet(calls[p])
    BY <1>6, <2>1, LossesAreThat DEF CountedInv, AllCounted, Counted, StreamTypeOK
  <2>3. CASE Captured(level, matches) /\ ~stream
    <3>1. calls'[p] \ Stored(file') \subseteq (calls[p] \ Stored(file)) \cup {e}
      BY <1>8, <2>1
    <3>2. IsFiniteSet(calls[p] \ Stored(file))
      BY <2>2, FS_Subset
    <3> DEFINE S == calls[p] \ Stored(file)
               T == calls'[p] \ Stored(file')
    <3>3. IsFiniteSet(S \cup {e}) /\ Cardinality(S \cup {e}) <= Cardinality(S) + 1
          /\ Cardinality(S) \in Nat /\ Cardinality(S \cup {e}) \in Nat
      BY <3>2, OneMore
    <3>4. T \subseteq S \cup {e}
      BY <3>1
    <3> HIDE DEF S, T
    <3>5. IsFiniteSet(T) /\ Cardinality(T) <= Cardinality(S \cup {e}) /\ Cardinality(T) \in Nat
      BY <3>3, <3>4, FS_Subset, FS_CardinalityType
    <3>6. Cardinality(S) <= dropped[p]
      BY <2>2 DEF S
    <3>7. c >= 1
      BY <1>3, <2>3
    <3>8. Cardinality(T) <= dropped'[p]
      BY <1>8, <3>3, <3>5, <3>6, <3>7
    <3>9. QED
      BY <3>8 DEF Counted, T
  <2>4. CASE ~ (Captured(level, matches) /\ ~stream)
    <3>1. calls'[p] \ Stored(file') \subseteq calls[p] \ Stored(file)
      BY <1>7, <1>8, <1>12, <2>1, <2>4
    <3>2. Cardinality(calls'[p] \ Stored(file')) <= Cardinality(calls[p] \ Stored(file))
          /\ Cardinality(calls'[p] \ Stored(file')) \in Nat /\ Cardinality(calls[p] \ Stored(file)) \in Nat
      BY ONLY <2>2, <3>1, FewerAreMissing
    <3>3. Cardinality(calls'[p] \ Stored(file')) <= dropped'[p]
      BY <1>8, <2>2, <3>2
    <3>4. QED
      BY <3>3 DEF Counted
  <2>5. QED
    BY <2>3, <2>4
<1>13. ASSUME Intact(file'), NEW q \in Procs, q # p
       PROVE  Counted(q)'
  BY <1>7, <1>8, <1>13, StaysCounted
<1>14. LossesAreCounted'
  <2>1. AllCounted'
    BY <1>12, <1>13 DEF AllCounted
  <2>2. (LossesAreCounted <=> AllCounted)'
    BY LossesAreThat, PTL
  <2>3. QED
    BY <2>1, <2>2
<1>15. QED
  BY <1>11, <1>14 DEF CountedInv

\* Before anything is logged nothing is lost.
LEMMA InitCounted == ASSUME Init PROVE CountedInv
<1>1. PICK outcomes \in Earlier :
        file = [n \in DOMAIN outcomes |-> [pieces |-> <<outcomes[n]>>, ended |-> TRUE]]
  BY DEF Init
<1>2. outcomes \in Seq(OutcomeRecords)
  BY StreamConstants
<1>3. \A n \in DOMAIN outcomes : outcomes[n] \in Pieces
  BY <1>2 DEF Pieces, StreamRecords
<1>4. \A n \in DOMAIN outcomes : [pieces |-> <<outcomes[n]>>, ended |-> TRUE] \in Lines
  BY <1>3, LineTyped
<1>5. file \in Seq(Lines) /\ DOMAIN file = DOMAIN outcomes
  BY <1>1, <1>2, <1>4
<1>6. \A n \in DOMAIN file : Len(file[n].pieces) = 1
  BY <1>1, <1>5
<1>7. FileOK(file)
  <2>1. \A n \in DOMAIN file : Len(file[n].pieces) > 0
    BY ONLY <1>6
  <2>2. QED
    BY ONLY <1>5, <2>1 DEF FileOK
<1>8. StreamTypeOK
  <2>1. IsFiniteSet({})
    BY FS_EmptySet
  <2>2. QED
    BY <1>7, <2>1 DEF Init, StreamTypeOK
<1>9. ASSUME NEW p \in Procs
      PROVE  Counted(p)
  <2>1. calls[p] \ Stored(file) = {} /\ dropped[p] = 0
    BY DEF Init
  <2>2. Cardinality({}) = 0
    BY FS_EmptySet
  <2>3. QED
    BY <2>1, <2>2 DEF Counted
<1>10. QED
  BY <1>8, <1>9, LossesAreThat DEF CountedInv, AllCounted

\* Every step keeps all calls stored or counted.
LEMMA NextCounted ==
  ASSUME CountedInv, [Next]_vars
  PROVE  CountedInv'
<1>1. ASSUME NEW p \in Procs, Process(p)
      PROVE  CountedInv'
  <2>1. CASE \/ \E k \in Keys : Fire(p, k)
             \/ \E result \in Results : Complete(p, result) \/ Unrecorded(p, result)
    BY <2>1, RunStep
  <2>2. CASE Kill(p) \/ \E result \in Results : KillRecording(p, result)
    BY <2>2, KillStep
  <2>3. CASE \E e \in Events, level \in Levels, matches \in BOOLEAN : Log(p, e, level, matches)
    BY <2>3, LogStep
  <2>4. QED
    BY <1>1, <2>1, <2>2, <2>3 DEF Process
<1>2. CASE Tick \/ UNCHANGED vars
  <2>1. /\ UNCHANGED <<file, running, dropped, calls>> /\ now' \in Nat
    BY <1>2 DEF Tick, vars, CountedInv, StreamTypeOK
  <2>2. Silent
    BY <2>1 DEF Silent, Extends, CountedInv, StreamTypeOK
  <2>3. QED
    BY <2>2, SilentStep
<1>3. QED
  BY <1>1, <1>2 DEF Next

\* For any number of processes, log calls, refusals and kills: as long as nothing was
\* appended to a torn line, a call that looks like trouble is in the stream or counted as
\* dropped by the process that made it (StructuredLogger.log, _capture).
THEOREM NothingIsSilentlyLost == Spec => []LossesAreCounted
<1>1. Init => CountedInv
  BY InitCounted
<1>2. CountedInv /\ [Next]_vars => CountedInv'
  BY NextCounted
<1>3. CountedInv => LossesAreCounted
  BY DEF CountedInv
<1>4. QED
  BY <1>1, <1>2, <1>3, PTL DEF Spec

(***************************************************************************)
(* Reports.                                                                *)
(***************************************************************************)
\* Each outcome that begins a line is that of a run that came to its end.
RecordsEnded ==
  \A n \in DOMAIN file :
    file[n].pieces[1] \in OutcomeRecords => Ended(file[n].pieces[1]) \in ended

\* Runs end, and are lost, when the clock stands there; what is unreported has its cause.
ReportInv ==
  /\ StreamTypeOK
  /\ RecordsEnded
  /\ \A e \in ended : e.at \in Int /\ e.at <= now
  /\ \A r \in lost : r.key \in Keys /\ r.at \in Nat /\ r.at <= now
  /\ HiddenLossHasItsCause

\* g is f after x was written: no line begins with anything else that is new, and what
\* made f unreadable is still there.
Grown(f, g, x) ==
  /\ FileOK(g)
  /\ \A n \in DOMAIN g :
       (n \in DOMAIN f /\ g[n].pieces[1] = f[n].pieces[1]) \/ g[n].pieces[1] = x
  /\ Readable(g) => Readable(f)

\* An append does no more than that.
LEMMA AppendedGrows ==
  ASSUME NEW f, FileOK(f), NEW x \in Pieces, NEW e \in BOOLEAN
  PROVE  Grown(f, Appended(f, x, e), x)
<1> DEFINE l == [pieces |-> <<x>>, ended |-> e]
           n == Len(f)
<1>1. PICK g : g = Appended(f, x, e)
  OBVIOUS
<1>2. l \in Lines /\ l.pieces[1] = x
  BY LineTyped
<1>3. f \in Seq(Lines) /\ n \in Nat /\ DOMAIN f = 1 .. n
  BY DEF FileOK
<1>4. FileOK(g)
  BY <1>1, AppendedFile
<1>5. CASE n > 0 /\ ~f[n].ended
  <2>1. f[n] \in Lines /\ n \in DOMAIN f
    BY <1>3, <1>5
  <2> DEFINE m == [pieces |-> Append(f[n].pieces, x), ended |-> e]
  <2>2. /\ f[n].pieces \in Seq(Pieces) /\ Len(f[n].pieces) \in Nat /\ Len(f[n].pieces) > 0
    BY <2>1 DEF Lines, FileOK
  <2>3. /\ m.pieces[1] = f[n].pieces[1]
        /\ \A k \in DOMAIN f[n].pieces : k \in DOMAIN m.pieces /\ m.pieces[k] = f[n].pieces[k]
    BY <2>2
  <2>4. g = [f EXCEPT ![n] = m]
    BY <1>1, <1>5 DEF Appended
  <2> HIDE DEF m, l
  <2>5. DOMAIN g = DOMAIN f /\ Len(g) = n /\ g[n] = m
        /\ \A k \in DOMAIN f : k # n => g[k] = f[k]
    BY <1>3, <2>1, <2>4
  <2>6. \A k \in DOMAIN g : k \in DOMAIN f /\ g[k].pieces[1] = f[k].pieces[1]
    BY <2>3, <2>5
  <2>7. Decodes(g) => Decodes(f)
    <3>1. \A k \in DOMAIN f : k \in DOMAIN g /\
            \A i \in DOMAIN f[k].pieces : i \in DOMAIN g[k].pieces /\ g[k].pieces[i] = f[k].pieces[i]
      BY <2>3, <2>5
    <3>2. QED
      BY <3>1 DEF Decodes
  <2>8. \A k \in 1 .. n - 1 : g[k] = f[k]
    BY <1>3, <2>5
  <2>9. Readable(g) => Readable(f)
    BY <2>5, <2>7, <2>8 DEF Readable
  <2>10. QED
    BY <1>1, <1>4, <2>6, <2>9 DEF Grown
<1>6. CASE ~ (n > 0 /\ ~f[n].ended)
  <2>1. g = Append(f, l)
    BY <1>1, <1>6 DEF Appended
  <2> HIDE DEF l
  <2>2. /\ DOMAIN g = 1 .. n + 1 /\ Len(g) = n + 1 /\ g[n + 1] = l
        /\ \A k \in 1 .. n : g[k] = f[k]
    BY <1>2, <1>3, <2>1
  <2>3. \A k \in DOMAIN g : (k \in DOMAIN f /\ g[k] = f[k]) \/ (k = n + 1 /\ g[k] = l)
    BY <1>3, <2>2
  <2>4. \A k \in DOMAIN f : k \in DOMAIN g /\ g[k] = f[k]
    BY <1>3, <2>2
  <2>5. Decodes(g) => Decodes(f)
    BY <2>4 DEF Decodes
  <2>6. \A k \in 1 .. n - 1 : k \in 1 .. Len(g) - 1 /\ g[k] = f[k]
    BY <1>3, <2>2
  <2>7. Readable(g) => Readable(f)
    BY <2>5, <2>6 DEF Readable
  <2>8. QED
    BY <1>1, <1>2, <1>4, <2>3, <2>7 DEF Grown
<1>7. QED
  BY <1>5, <1>6

\* Nor does one that does not come to its end, of which a part of the record may remain.
LEMMA RemainsGrow ==
  ASSUME StreamTypeOK, NEW r \in StreamRecords, NEW g \in Remains(r)
  PROVE  g = file \/ \E x \in {r, Cut, SplitChar} : Grown(file, g, x)
<1>1. FileOK(file)
  BY DEF StreamTypeOK
<1>2. ASSUME NEW x \in Torn(r), g = Appended(file, x, FALSE)
      PROVE  x \in {r, Cut, SplitChar} /\ Grown(file, g, x)
  <2>1. x \in Pieces /\ x \in {r, Cut, SplitChar}
    BY DEF Torn, Pieces
  <2>2. QED
    BY <1>1, <1>2, <2>1, AppendedGrows
<1>3. QED
  BY <1>2 DEF Remains

\* What is read as an outcome is one, of a run that came to its end.
LEMMA OutcomesEnded ==
  ASSUME FileOK(file), RecordsEnded, Readable(file), NEW n \in DOMAIN Outcomes
  PROVE  Outcomes[n] \in OutcomeRecords /\ Ended(Outcomes[n]) \in ended
<1>1. PICK records : records = ReadAll(file)
  OBVIOUS
<1>2. n \in DOMAIN records /\ records[n].kind = "job_outcome" /\ Outcomes[n] = records[n]
  BY <1>1 DEF Outcomes
<1>3. Len(file) \in Nat /\ file \in Seq(Lines) /\ DOMAIN file = 1 .. Len(file)
  BY DEF FileOK
<1>4. /\ n \in 1 .. Len(file) /\ records[n] = file[n].pieces[1]
      /\ n < Len(file) \/ Parses(file[n])
  <2>1. file = <<>> => Len(file) = 0
    OBVIOUS
  <2> DEFINE last == IF file = <<>> \/ Parses(file[Len(file)]) THEN Len(file) ELSE Len(file) - 1
  <2>2. records = [k \in 1 .. last |-> file[k].pieces[1]]
    BY <1>1 DEF ReadAll
  <2>3. n \in 1 .. last /\ records[n] = file[n].pieces[1]
    BY <1>2, <2>2
  <2>4. QED
    BY <1>3, <2>1, <2>3
<1>5. Parses(file[n])
  <2>1. n < Len(file) => n \in 1 .. Len(file) - 1
    BY <1>3, <1>4
  <2>2. QED
    BY <1>4, <2>1 DEF Readable
<1>6. file[n].pieces \in Seq(Pieces) /\ Len(file[n].pieces) = 1
  <2>1. file[n] \in Lines
    BY <1>3, <1>4
  <2>2. Len(file[n].pieces) = 1
    BY <1>5 DEF Parses
  <2>3. QED
    BY <2>1, <2>2 DEF Lines
<1>7. file[n].pieces[1] \in StreamRecords
  BY <1>5, <1>6 DEF Parses, Pieces
<1>8. records[n] \in OutcomeRecords
  BY <1>2, <1>4, <1>7 DEF StreamRecords
<1>9. QED
  BY <1>2, <1>3, <1>4, <1>8 DEF RecordsEnded

\* The time of silence is a whole number of instants.
LEMMA PatienceTyped == Patience \in Nat
BY AlertConstants DEF Patience

\* Nothing is held in a state that is quiet.
LEMMA QuietIsFlat == IsFiniteSet(DOMAIN Quiet.positions)
<1>1. DOMAIN Quiet.positions = {}
  BY DEF Quiet
<1>2. QED
  BY <1>1, FS_EmptySet

\* If only runs that ended are read, none of them is reported as OK that was not.
LEMMA UnsuccessfulIsReported == ReportInv => UnsuccessfulJobIsReported
<1> SUFFICES ASSUME ReportInv, NEW key \in Keys, NEW ack \in Acks, Readable(file),
               \A e \in ended : e.key = key /\ e.result = "OK" => e.at < now - Patience
             PROVE  \/ Mentions(Alerts(Quiet, ack), "job_silence", key)
                    \/ Mentions(Alerts(Quiet, ack), "job_never_succeeds", key)
  BY DEF UnsuccessfulJobIsReported
<1>1. CASE Recent(Outcomes, key, now) = {}
  BY <1>1, QuietIsFlat, SilentIsMentioned DEF Alerts
<1>2. CASE Recent(Outcomes, key, now) # {}
  <2>1. ASSUME NEW n \in Recent(Outcomes, key, now), Outcomes[n].result = "OK"
        PROVE  FALSE
    <3>1. n \in DOMAIN Outcomes /\ Outcomes[n].key = key /\ Outcomes[n].finished >= now - Patience
      BY DEF Recent, OfJob, Patience
    <3>2. Outcomes[n] \in OutcomeRecords /\ Ended(Outcomes[n]) \in ended
      BY <3>1, OutcomesEnded DEF ReportInv, StreamTypeOK
    <3>3. PICK o \in OutcomeRecords : o = Outcomes[n]
      BY <3>2
    <3>4. Ended(o).key = key /\ Ended(o).result = "OK" /\ Ended(o).at = o.finished
      BY <2>1, <3>1, <3>3 DEF Ended
    <3>5. o.finished < now - Patience
      BY <3>2, <3>3, <3>4
    <3>6. o.finished >= now - Patience /\ o.finished \in Int /\ now \in Int
      BY <3>1, <3>3 DEF OutcomeRecords, ReportInv, StreamTypeOK
    <3>7. QED
      BY <3>5, <3>6, PatienceTyped
  <2>2. QED
    BY <1>2, <2>1, QuietIsFlat, FailingIsMentioned DEF Alerts
<1>3. QED
  BY <1>1, <1>2

(***************************************************************************)
(* Hidden losses.                                                          *)
(***************************************************************************)
\* A job that is not reported as silent, by a stream that can be read, has ended a run.
LEMMA UnreportedHasEnded ==
  ASSUME FileOK(file), RecordsEnded, Readable(file), NEW key \in Keys, NEW moment \in Int,
         ~ReportedSilent(key, moment)
  PROVE  \E e \in ended : e.key = key /\ e.at >= moment - Patience
<1>1. Recent(Outcomes, key, moment) # {}
  BY QuietIsFlat, SilentIsMentioned DEF ReportedSilent
<1>2. PICK n \in DOMAIN Outcomes : Outcomes[n].key = key /\ Outcomes[n].finished >= moment - Patience
  BY <1>1 DEF Recent, OfJob, Patience
<1>3. Ended(Outcomes[n]) \in ended
  BY OutcomesEnded
<1>4. Ended(Outcomes[n]).key = key /\ Ended(Outcomes[n]).at >= moment - Patience
  BY <1>2 DEF Ended
<1>5. QED
  BY <1>3, <1>4

\* A step at an instant: what it ends and loses, it does so now, and it writes no outcome
\* of a run that has not ended.
AtThisInstant ==
  /\ UNCHANGED <<now, raised>>
  /\ \A r \in lost' : r \in lost \/ (r.key \in Keys /\ r.at = now)
  /\ \A e \in ended : e \in ended'
  /\ \A e \in ended' : e \in ended \/ e.at = now
  /\ \/ file' = file
     \/ \E x : Grown(file, file', x) /\ (x \in OutcomeRecords => Ended(x) \in ended')

\* It hides nothing.
LEMMA InstantStep ==
  ASSUME ReportInv, StreamTypeOK', AtThisInstant
  PROVE  ReportInv'
<1>1. RecordsEnded'
  <2>1. CASE file' = file
    BY <2>1 DEF AtThisInstant, ReportInv, RecordsEnded
  <2>2. CASE \E x : Grown(file, file', x) /\ (x \in OutcomeRecords => Ended(x) \in ended')
    <3>1. PICK x : Grown(file, file', x) /\ (x \in OutcomeRecords => Ended(x) \in ended')
      BY <2>2
    <3>2. ASSUME NEW n \in DOMAIN file', file'[n].pieces[1] \in OutcomeRecords
          PROVE  Ended(file'[n].pieces[1]) \in ended'
      <4>1. CASE n \in DOMAIN file /\ file'[n].pieces[1] = file[n].pieces[1]
        BY <3>2, <4>1 DEF AtThisInstant, ReportInv, RecordsEnded
      <4>2. CASE file'[n].pieces[1] = x
        BY <3>1, <3>2, <4>2
      <4>3. QED
        BY <3>1, <4>1, <4>2 DEF Grown
    <3>3. QED
      BY <3>2 DEF RecordsEnded
  <2>3. QED
    BY <2>1, <2>2 DEF AtThisInstant
<1>2. now \in Nat /\ now' = now /\ raised' = raised
  BY DEF ReportInv, StreamTypeOK, AtThisInstant
<1>3. \A e \in ended' : e.at \in Int /\ e.at <= now'
  BY <1>2 DEF ReportInv, AtThisInstant
<1>4. \A r \in lost' : r.key \in Keys /\ r.at \in Nat /\ r.at <= now'
  BY <1>2 DEF ReportInv, AtThisInstant
<1>5. Readable(file') => Readable(file)
  BY DEF AtThisInstant, Grown
<1>6. ASSUME NEW r \in lost', r \notin raised', now' > r.at + Patience, Readable(file')
      PROVE  \E e \in ended' : e.key = r.key /\ r.at < e.at /\ e.at <= r.at + Patience + 1
  <2>1. r \in lost
    BY <1>2, <1>6, PatienceTyped DEF AtThisInstant
  <2>2. \E e \in ended : e.key = r.key /\ r.at < e.at /\ e.at <= r.at + Patience + 1
    BY <1>2, <1>5, <1>6, <2>1 DEF ReportInv, HiddenLossHasItsCause
  <2>3. QED
    BY <2>2 DEF AtThisInstant
<1>7. HiddenLossHasItsCause'
  BY <1>6 DEF HiddenLossHasItsCause, Patience
<1>8. QED
  BY <1>1, <1>3, <1>4, <1>7 DEF ReportInv

\* The outcome of a run, and the loss of one, are of the instant they happen at.
LEMMA RunIs ==
  ASSUME StreamTypeOK, NEW p \in Procs, running[p] # Idle
  PROVE  /\ Run(running[p]).key \in Keys /\ Run(running[p]).at = now
         /\ \A result \in Results :
              /\ Outcome(running[p], result) \in OutcomeRecords
              /\ Ended(Outcome(running[p], result)).at = now
<1>1. running[p] \in Keys /\ now \in Int
  BY DEF StreamTypeOK
<1>2. QED
  BY <1>1 DEF Run, Outcome, Ended, OutcomeRecords

\* What is cut off is no outcome.
LEMMA CutIsNone == Cut \notin OutcomeRecords /\ SplitChar \notin OutcomeRecords
BY StreamConstants DEF StreamRecords

\* What remains of an outcome that is recorded, or not, is its own.
LEMMA OutcomeRemains ==
  ASSUME StreamTypeOK, NEW p \in Procs, running[p] # Idle, NEW result \in Results,
         Ended(Outcome(running[p], result)) \in ended',
         \/ file' \in Remains(Outcome(running[p], result))
         \/ file' = Appended(file, Outcome(running[p], result), TRUE)
  PROVE  \/ file' = file
         \/ \E x : Grown(file, file', x) /\ (x \in OutcomeRecords => Ended(x) \in ended')
<1>1. Outcome(running[p], result) \in StreamRecords /\ Outcome(running[p], result) \in Pieces
  BY OutcomeTyped DEF Pieces
<1>2. CASE file' = Appended(file, Outcome(running[p], result), TRUE)
  <2>1. FileOK(file)
    BY DEF StreamTypeOK
  <2>2. Grown(file, file', Outcome(running[p], result))
    BY <1>1, <1>2, <2>1, AppendedGrows
  <2>3. QED
    BY <2>2
<1>3. CASE file' \in Remains(Outcome(running[p], result))
  BY <1>1, <1>3, RemainsGrow, CutIsNone
<1>4. QED
  BY <1>2, <1>3

\* Runs that begin or end.
LEMMA RunHidesNothing ==
  ASSUME ReportInv, NEW p \in Procs,
         \/ \E k \in Keys : Fire(p, k)
         \/ \E result \in Results : Complete(p, result) \/ Unrecorded(p, result) \/ KillRecording(p, result)
  PROVE  AtThisInstant
<1>1. StreamTypeOK
  BY DEF ReportInv
<1>2. CASE \E k \in Keys : Fire(p, k)
  BY <1>2 DEF Fire, AtThisInstant
<1>3. ASSUME NEW result \in Results, Complete(p, result)
      PROVE  AtThisInstant
  <2>1. /\ running[p] # Idle /\ UNCHANGED <<now, raised, lost>>
        /\ ended' = ended \cup {Ended(Outcome(running[p], result))}
        /\ file' = Appended(file, Outcome(running[p], result), TRUE)
    BY <1>3 DEF Complete
  <2>2. Ended(Outcome(running[p], result)).at = now
    BY <1>1, <2>1, RunIs
  <2>3. \/ file' = file
        \/ \E x : Grown(file, file', x) /\ (x \in OutcomeRecords => Ended(x) \in ended')
    BY <1>1, <2>1, OutcomeRemains
  <2>4. QED
    BY <2>1, <2>2, <2>3 DEF AtThisInstant
<1>4. ASSUME NEW result \in Results, Unrecorded(p, result) \/ KillRecording(p, result)
      PROVE  AtThisInstant
  <2>1. /\ running[p] # Idle /\ UNCHANGED <<now, raised>>
        /\ ended' = ended \cup {Ended(Outcome(running[p], result))}
        /\ lost' = lost \cup {Run(running[p])}
        /\ file' \in Remains(Outcome(running[p], result))
    BY <1>4 DEF Unrecorded, KillRecording, Killed
  <2>2. /\ Ended(Outcome(running[p], result)).at = now
        /\ Run(running[p]).key \in Keys /\ Run(running[p]).at = now
    BY <1>1, <2>1, RunIs
  <2>3. \/ file' = file
        \/ \E x : Grown(file, file', x) /\ (x \in OutcomeRecords => Ended(x) \in ended')
    BY <1>1, <2>1, OutcomeRemains
  <2>4. QED
    BY <2>1, <2>2, <2>3 DEF AtThisInstant
<1>5. QED
  BY <1>2, <1>3, <1>4

\* Log calls and kills.
LEMMA OtherHidesNothing ==
  ASSUME ReportInv, NEW p \in Procs,
         \/ Kill(p)
         \/ \E e \in Events, level \in Levels, matches \in BOOLEAN : Log(p, e, level, matches)
  PROVE  AtThisInstant
<1>1. StreamTypeOK /\ FileOK(file)
  BY DEF ReportInv, StreamTypeOK
<1>2. CASE Kill(p)
  <2>1. /\ UNCHANGED <<now, raised, ended>>
        /\ lost' = IF running[p] = Idle THEN lost ELSE lost \cup {Run(running[p])}
        /\ file' = file \/ \E x \in {Cut, SplitChar} : file' = Appended(file, x, FALSE)
    BY <1>2 DEF Kill, Killed
  <2>2. \A x \in {Cut, SplitChar} : x \in Pieces /\ x \notin OutcomeRecords
    BY CutIsNone DEF Pieces
  <2>3. \/ file' = file
        \/ \E x : Grown(file, file', x) /\ (x \in OutcomeRecords => Ended(x) \in ended')
    BY <1>1, <2>1, <2>2, AppendedGrows
  <2>4. \A r \in lost' : r \in lost \/ (r.key \in Keys /\ r.at = now)
    BY <1>1, <2>1, RunIs
  <2>5. QED
    BY <2>1, <2>3, <2>4 DEF AtThisInstant
<1>3. ASSUME NEW e \in Events, NEW level \in Levels, NEW matches \in BOOLEAN, Log(p, e, level, matches)
      PROVE  AtThisInstant
  <2>1. Event(e) \in StreamRecords /\ Event(e) \in Pieces /\ Event(e) \notin OutcomeRecords
    <3>1. Event(e).kind = "log_event"
      BY DEF Event
    <3>2. QED
      BY <3>1 DEF Event, StreamRecords, Pieces, OutcomeRecords
  <2>2. /\ UNCHANGED <<now, raised, ended, lost>>
        /\ file' = file \/ file' = Appended(file, Event(e), TRUE) \/ file' \in Remains(Event(e))
    BY <1>3 DEF Log
  <2>3. \/ file' = file
        \/ \E x : Grown(file, file', x) /\ (x \in OutcomeRecords => Ended(x) \in ended')
    <3>1. CASE file' = Appended(file, Event(e), TRUE)
      BY <1>1, <2>1, <3>1, AppendedGrows
    <3>2. CASE file' \in Remains(Event(e))
      BY <1>1, <2>1, <3>2, RemainsGrow, CutIsNone
    <3>3. QED
      BY <2>2, <3>1, <3>2
  <2>4. QED
    BY <2>2, <2>3 DEF AtThisInstant
<1>4. QED
  BY <1>2, <1>3

\* The clock: whoever's time of silence is over as the instant begins is looked for then.
LEMMA TickHidesNothing ==
  ASSUME ReportInv, Tick
  PROVE  ReportInv'
<1>1. /\ now' = now + 1 /\ now \in Nat /\ UNCHANGED <<file, ended>>
      /\ lost' = lost \cup Missed
      /\ raised' = raised \cup {r \in lost \cup Missed : ReportedSilent(r.key, now + 1)}
  BY DEF Tick, ReportInv, StreamTypeOK
<1>2. \A r \in Missed : r.key \in Keys /\ r.at = now
  BY DEF Missed, Run
<1>3. RecordsEnded' /\ StreamTypeOK'
  BY <1>1 DEF ReportInv, RecordsEnded, Tick, StreamTypeOK
<1>4. \A e \in ended' : e.at \in Int /\ e.at <= now'
  BY <1>1 DEF ReportInv
<1>5. \A r \in lost' : r.key \in Keys /\ r.at \in Nat /\ r.at <= now
  BY <1>1, <1>2 DEF ReportInv
<1>6. ASSUME NEW r \in lost', r \notin raised', now' > r.at + Patience, Readable(file)
      PROVE  \E e \in ended : e.key = r.key /\ r.at < e.at /\ e.at <= r.at + Patience + 1
  <2>1. r.key \in Keys /\ r.at \in Nat /\ r.at <= now
    BY <1>5
  <2>2. CASE now > r.at + Patience
    <3>1. r \in lost
      BY <1>1, <1>2, <2>1, <2>2, PatienceTyped
    <3>2. QED
      BY <1>1, <1>6, <2>2, <3>1 DEF ReportInv, HiddenLossHasItsCause
  <2>3. CASE ~(now > r.at + Patience)
    <3>1. now = r.at + Patience
      BY <1>1, <1>6, <2>1, <2>3, PatienceTyped
    <3>2. ~ReportedSilent(r.key, now + 1)
      BY <1>1, <1>6
    <3>3. PICK e \in ended : e.key = r.key /\ e.at >= now + 1 - Patience
      <4>1. FileOK(file) /\ RecordsEnded /\ now + 1 \in Int
        BY <1>1 DEF ReportInv, StreamTypeOK
      <4>2. PICK key \in Keys, moment \in Int : key = r.key /\ moment = now + 1
        BY <2>1, <4>1
      <4>3. ~ReportedSilent(key, moment)
        BY <3>2, <4>2
      <4>4. PICK e \in ended : e.key = key /\ e.at >= moment - Patience
        BY ONLY <1>6, <4>1, <4>3, UnreportedHasEnded
      <4>5. e.key = r.key /\ e.at >= now + 1 - Patience
        BY <1>1, <4>2, <4>4, PatienceTyped
      <4>6. QED
        BY <4>5
    <3>4. e.at \in Int /\ e.at <= now
      BY DEF ReportInv
    <3>5. r.at < e.at /\ e.at <= r.at + Patience + 1
      BY <1>1, <2>1, <3>1, <3>3, <3>4, PatienceTyped
    <3>6. QED
      BY <3>3, <3>5
  <2>4. QED
    BY <2>2, <2>3
<1>7. HiddenLossHasItsCause'
  BY <1>1, <1>6 DEF HiddenLossHasItsCause, Patience
<1>8. \A r \in lost' : r.at <= now'
  BY <1>1, <1>5
<1>9. QED
  BY <1>3, <1>4, <1>5, <1>7, <1>8 DEF ReportInv

\* At the start nothing is lost, and what is recorded has ended.
LEMMA InitReports == ASSUME Init PROVE ReportInv
<1>1. StreamTypeOK
  BY InitCounted DEF CountedInv
<1>2. PICK outcomes \in Earlier :
        /\ file = [n \in DOMAIN outcomes |-> [pieces |-> <<outcomes[n]>>, ended |-> TRUE]]
        /\ ended = {Ended(outcomes[n]) : n \in DOMAIN outcomes}
  BY DEF Init
<1>3. RecordsEnded
  <2>1. ASSUME NEW n \in DOMAIN file
        PROVE  Ended(file[n].pieces[1]) \in ended
    <3>1. n \in DOMAIN outcomes /\ file[n].pieces[1] = outcomes[n]
      BY <1>2
    <3>2. QED
      BY <1>2, <3>1
  <2>2. QED
    BY <2>1 DEF RecordsEnded
<1>4. now = 0 /\ lost = {}
  BY DEF Init
<1>5. \A e \in ended : e.at \in Int /\ e.at <= now
  <2>1. ASSUME NEW n \in DOMAIN outcomes
        PROVE  Ended(outcomes[n]).at \in Int /\ Ended(outcomes[n]).at <= 0
    <3>1. PICK o \in OutcomeRecords : o = outcomes[n] /\ o.finished < 0
      BY StreamConstants
    <3>2. Ended(o).at = o.finished /\ o.finished \in Int
      BY DEF Ended, OutcomeRecords
    <3>3. QED
      BY <3>1, <3>2
  <2>2. QED
    BY <1>2, <1>4, <2>1
<1>6. QED
  BY <1>1, <1>3, <1>4, <1>5 DEF ReportInv, HiddenLossHasItsCause

\* The two invariants together.
StreamInv == CountedInv /\ ReportInv

\* Every step keeps both.
LEMMA NextReports ==
  ASSUME StreamInv, [Next]_vars
  PROVE  StreamInv'
<1>1. CountedInv'
  BY NextCounted DEF StreamInv
<1>2. StreamTypeOK' /\ ReportInv
  BY <1>1 DEF CountedInv, StreamInv
<1>3. ASSUME NEW p \in Procs, Process(p)
      PROVE  AtThisInstant
  BY <1>2, <1>3, RunHidesNothing, OtherHidesNothing DEF Process
<1>4. ReportInv'
  <2>1. CASE Tick
    BY <1>2, <2>1, TickHidesNothing
  <2>2. CASE AtThisInstant
    BY <1>2, <2>2, InstantStep
  <2>3. CASE UNCHANGED vars
    <3>1. AtThisInstant
      BY <2>3 DEF AtThisInstant, vars
    <3>2. QED
      BY <1>2, <3>1, InstantStep
  <2>4. QED
    BY <1>3, <2>1, <2>2, <2>3 DEF Next
<1>5. QED
  BY <1>1, <1>4 DEF StreamInv

(***************************************************************************)
(* The theorems.                                                           *)
(***************************************************************************)
\* For any number of processes and jobs, wherever runs are missed, processes killed and
\* appends refused: a loss that is not reported has been followed by a run of its job
\* that ended in time, or the stream cannot be read (build_alerts, _silence_alerts).
THEOREM HiddenLossesAreExplained == Spec => []HiddenLossHasItsCause
<1>1. Init => StreamInv
  BY InitCounted, InitReports DEF StreamInv
<1>2. StreamInv /\ [Next]_vars => StreamInv'
  BY NextReports
<1>3. StreamInv => HiddenLossHasItsCause
  BY DEF StreamInv, ReportInv
<1>4. QED
  BY <1>1, <1>2, <1>3, PTL DEF Spec

\* For any stream that can be read: a job without a success for silence_days is reported,
\* whichever of its outcomes were lost (read_outcomes, _silence_alerts).
THEOREM LostRecordsHideNoFailure == Spec => []UnsuccessfulJobIsReported
<1>1. Init => StreamInv
  BY InitCounted, InitReports DEF StreamInv
<1>2. StreamInv /\ [Next]_vars => StreamInv'
  BY NextReports
<1>3. StreamInv => UnsuccessfulJobIsReported
  BY UnsuccessfulIsReported DEF StreamInv
<1>4. QED
  BY <1>1, <1>2, <1>3, PTL DEF Spec

\* For any state and acknowledgements: what is triaged sorts below what is open, and
\* nothing leaves the list (build_alerts, OpsAlert.sort_key).
THEOREM TriageSuppressesNothing == Spec => []TriageOnlyReorders
<1>1. TriageOnlyReorders
  <2> SUFFICES ASSUME NEW state \in States, NEW ack \in Acks
      PROVE LET alerts == Alerts(state, ack)
                plain == Alerts(state, Unacknowledged)
            IN /\ Len(alerts) = Len(plain) /\ Opened(alerts) = Opened(plain)
               /\ \A m, n \in DOMAIN alerts :
                    m < n => IF alerts[m].status = "open"
                             THEN alerts[n].status = "open" => Place(alerts[m]) <= Place(alerts[n])
                             ELSE alerts[n].status # "open" /\ Place(alerts[m]) <= Place(alerts[n])
    BY DEF TriageOnlyReorders
  <2>1. IsFiniteSet(DOMAIN state.positions) /\ DOMAIN state.positions \subseteq Nat
    BY StreamConstants
  <2>2. QED
    BY <2>1, TriageReorders DEF Alerts
<1>2. QED
  BY <1>1, PTL
=============================================================================
