--------------------------- MODULE WindowTabsProofs ---------------------------
(***************************************************************************)
(* Proofs about the main window's list of tabs, for any hosts, names and   *)
(* bounds: the window is always about the tab Qt shows, and two tabs of    *)
(* one host never ask it for the same device name while suffixes are left. *)
(* And about the terminal themes: no sequence of edits, copies, files read  *)
(* and failed writes loses or changes a theme that was shipped.             *)
(***************************************************************************)
EXTENDS WindowTabs, ThemeEditor, FiniteSetTheorems, SequenceTheorems, NaturalsInduction,
        WellFoundedInduction, TLAPS

-----------------------------------------------------------------------------
(* Lists of tabs.                                                          *)

\* A list without one of its tabs.
LEMMA Removed ==
  ASSUME NEW s \in Seq(Nat), NEW i \in 1 .. Len(s)
  PROVE  /\ RemoveAt(s, i) \in Seq(Nat)
         /\ Len(RemoveAt(s, i)) = Len(s) - 1
         /\ \A j \in 1 .. Len(s) - 1 :
              RemoveAt(s, i)[j] = IF j < i THEN s[j] ELSE s[j + 1]
  <1> DEFINE l == SubSeq(s, 1, i - 1)
             r == SubSeq(s, i + 1, Len(s))
             c == l \o r
  <1>0. Len(s) \in Nat /\ i \in Nat /\ i >= 1 /\ i <= Len(s)
    OBVIOUS
  <1>1. /\ l \in Seq(Nat) /\ Len(l) = i - 1
        /\ \A j \in 1 .. i - 1 : l[j] = s[j]
    BY <1>0, SubSeqProperties
  <1>2. /\ r \in Seq(Nat) /\ Len(r) = Len(s) - i
        /\ \A j \in 1 .. Len(s) - i : r[j] = s[i + j]
    BY <1>0, SubSeqProperties
  <1> HIDE DEF l, r
  <1>3. /\ c \in Seq(Nat) /\ Len(c) = Len(l) + Len(r)
        /\ \A j \in 1 .. Len(l) + Len(r) : c[j] = IF j <= Len(l) THEN l[j] ELSE r[j - Len(l)]
    BY <1>1, <1>2, ConcatProperties
  <1> HIDE DEF c
  <1>4. ASSUME NEW j \in 1 .. Len(s) - 1
        PROVE  c[j] = IF j < i THEN s[j] ELSE s[j + 1]
    <2>1. c[j] = IF j <= i - 1 THEN l[j] ELSE r[j - (i - 1)]
      BY <1>0, <1>1, <1>2, <1>3
    <2>2. CASE j < i
      BY <1>0, <1>1, <2>1, <2>2
    <2>3. CASE j >= i
      <3>1. j - (i - 1) \in 1 .. Len(s) - i /\ i + (j - (i - 1)) = j + 1
        BY <1>0, <2>3
      <3>2. r[j - (i - 1)] = s[j + 1]
        BY <1>2, <3>1
      <3>3. ~(j <= i - 1) /\ ~(j < i)
        BY <1>0, <2>3
      <3> QED BY <2>1, <3>2, <3>3
    <2> QED BY <1>0, <2>2, <2>3
  <1>5. RemoveAt(s, i) = c
    BY DEF RemoveAt, l, r, c
  <1>6. Len(c) = Len(s) - 1
    BY <1>0, <1>1, <1>2, <1>3
  <1> QED BY <1>3, <1>4, <1>5, <1>6

\* A list with one more in it.
Wider(n, s, i, t) ==
  /\ n \in Seq(Nat)
  /\ Len(n) = Len(s) + 1
  /\ \A j \in 1 .. Len(s) + 1 : n[j] = IF j < i THEN s[j] ELSE IF j = i THEN t ELSE s[j - 1]

LEMMA Inserted ==
  ASSUME NEW s \in Seq(Nat), NEW i \in 1 .. Len(s) + 1, NEW t \in Nat
  PROVE  Wider(InsertAt(s, i, t), s, i, t)
  <1> DEFINE l == SubSeq(s, 1, i - 1)
             m == l \o <<t>>
             r == SubSeq(s, i, Len(s))
             c == m \o r
  <1>0. Len(s) \in Nat /\ i \in Nat /\ i >= 1 /\ i <= Len(s) + 1
    OBVIOUS
  <1>1. /\ l \in Seq(Nat) /\ Len(l) = i - 1
        /\ \A j \in 1 .. i - 1 : l[j] = s[j]
    BY <1>0, SubSeqProperties
  <1>2. /\ r \in Seq(Nat) /\ Len(r) = Len(s) - i + 1
        /\ \A j \in 1 .. Len(s) - i + 1 : r[j] = s[i + j - 1]
    BY <1>0, SubSeqProperties
  <1> HIDE DEF l, r
  <1>3. <<t>> \in Seq(Nat) /\ Len(<<t>>) = 1 /\ <<t>>[1] = t
    OBVIOUS
  <1>4. /\ m \in Seq(Nat) /\ Len(m) = i
        /\ \A j \in 1 .. i : m[j] = IF j < i THEN s[j] ELSE t
    <2>1. /\ m \in Seq(Nat) /\ Len(m) = Len(l) + 1
          /\ \A j \in 1 .. Len(l) + 1 : m[j] = IF j <= Len(l) THEN l[j] ELSE <<t>>[j - Len(l)]
      BY <1>1, <1>3, ConcatProperties
    <2> HIDE DEF m
    <2>2. ASSUME NEW j \in 1 .. i PROVE m[j] = IF j < i THEN s[j] ELSE t
      <3>1. m[j] = IF j <= i - 1 THEN l[j] ELSE <<t>>[j - (i - 1)]
        BY <1>0, <1>1, <2>1
      <3>2. CASE j < i
        BY <1>0, <1>1, <3>1, <3>2
      <3>3. CASE j = i
        BY <1>0, <1>3, <3>1, <3>3
      <3> QED BY <1>0, <3>2, <3>3
    <2> QED BY <1>0, <1>1, <2>1, <2>2
  <1> HIDE DEF m
  <1>5. /\ c \in Seq(Nat) /\ Len(c) = Len(m) + Len(r)
        /\ \A j \in 1 .. Len(m) + Len(r) : c[j] = IF j <= Len(m) THEN m[j] ELSE r[j - Len(m)]
    BY <1>2, <1>4, ConcatProperties
  <1> HIDE DEF c
  <1>6. ASSUME NEW j \in 1 .. Len(s) + 1
        PROVE  c[j] = IF j < i THEN s[j] ELSE IF j = i THEN t ELSE s[j - 1]
    <2>1. c[j] = IF j <= i THEN m[j] ELSE r[j - i]
      BY <1>0, <1>2, <1>4, <1>5
    <2>2. CASE j <= i
      BY <1>0, <1>4, <2>1, <2>2
    <2>3. CASE j > i
      <3>1. j - i \in 1 .. Len(s) - i + 1 /\ i + (j - i) - 1 = j - 1
        BY <1>0, <2>3
      <3> QED BY <1>0, <1>2, <2>1, <2>3, <3>1
    <2> QED BY <1>0, <2>2, <2>3
  <1>7. InsertAt(s, i, t) = c
    BY DEF InsertAt, m, l, r, c
  <1>8. c \in Seq(Nat) /\ Len(c) = Len(s) + 1
    BY <1>0, <1>2, <1>4, <1>5
  <1> QED BY <1>6, <1>7, <1>8, Zenon DEF Wider

\* A tab is listed once.
Once(s) == \A i, j \in 1 .. Len(s) : s[i] = s[j] => i = j

\* Closing a tab leaves every other one once.
LEMMA RemovedOnce ==
  ASSUME NEW s \in Seq(Nat), Once(s), NEW i \in 1 .. Len(s)
  PROVE  /\ Once(RemoveAt(s, i))
         /\ ToSet(RemoveAt(s, i)) \subseteq ToSet(s) \ {s[i]}
  <1> DEFINE r == RemoveAt(s, i)
  <1>0. Len(s) \in Nat
    OBVIOUS
  <1>1. /\ r \in Seq(Nat) /\ Len(r) = Len(s) - 1 /\ Len(s) \in Nat
        /\ \A j \in 1 .. Len(s) - 1 : r[j] = IF j < i THEN s[j] ELSE s[j + 1]
    BY <1>0, Removed, Zenon
  <1> HIDE DEF r
  <1>2. ASSUME NEW j \in 1 .. Len(r)
        PROVE  \E k \in 1 .. Len(s) : r[j] = s[k] /\ k # i /\ (IF j < i THEN k = j ELSE k = j + 1)
    <2>1. CASE j < i
      <3>1. j \in 1 .. Len(s) /\ r[j] = s[j] /\ j # i
        BY <1>1, <2>1
      <3> QED BY <2>1, <3>1
    <2>2. CASE ~(j < i)
      <3>1. j + 1 \in 1 .. Len(s) /\ r[j] = s[j + 1] /\ j + 1 # i
        BY <1>1, <2>2
      <3> QED BY <2>2, <3>1
    <2> QED BY <2>1, <2>2
  <1>3. ASSUME NEW j \in 1 .. Len(r), NEW m \in 1 .. Len(r), r[j] = r[m]
        PROVE  j = m
    <2>0. j \in Nat /\ m \in Nat /\ i \in Nat
      OBVIOUS
    <2>1. PICK k \in 1 .. Len(s) : r[j] = s[k] /\ (IF j < i THEN k = j ELSE k = j + 1)
      BY <1>2
    <2>2. PICK n \in 1 .. Len(s) : r[m] = s[n] /\ (IF m < i THEN n = m ELSE n = m + 1)
      BY <1>2
    <2>3. k = n
      BY <1>3, <2>1, <2>2 DEF Once
    <2> QED BY <2>0, <2>1, <2>2, <2>3
  <1>4. ASSUME NEW j \in 1 .. Len(r) PROVE r[j] \in ToSet(s) \ {s[i]}
    <2>1. PICK k \in 1 .. Len(s) : r[j] = s[k] /\ k # i
      BY <1>2
    <2> QED BY <2>1 DEF Once, ToSet
  <1>5. DOMAIN r = 1 .. Len(r)
    BY <1>1
  <1>6. Once(r) /\ ToSet(r) \subseteq ToSet(s) \ {s[i]}
    BY <1>3, <1>4, <1>5 DEF Once, ToSet
  <1> QED BY <1>6 DEF r

\* The position a tab had before another, or itself, was dragged.
Origin(from, to, j) ==
  IF j = to THEN from
  ELSE IF j < to THEN (IF j < from THEN j ELSE j + 1)
  ELSE (IF j - 1 < from THEN j - 1 ELSE j)

\* Moving a tab is a permutation of the tabs.
LEMMA MovedOnce ==
  ASSUME NEW s \in Seq(Nat), Once(s), NEW from \in 1 .. Len(s), NEW to \in 1 .. Len(s)
  PROVE  /\ Moved(s, from, to) \in Seq(Nat)
         /\ Len(Moved(s, from, to)) = Len(s)
         /\ \A j \in 1 .. Len(s) : /\ Origin(from, to, j) \in 1 .. Len(s)
                                   /\ Moved(s, from, to)[j] = s[Origin(from, to, j)]
         /\ Once(Moved(s, from, to))
         /\ ToSet(Moved(s, from, to)) \subseteq ToSet(s)
  <1> DEFINE r == RemoveAt(s, from)
             m == InsertAt(r, to, s[from])
  <1>0. Len(s) \in Nat
    OBVIOUS
  <1>1. /\ r \in Seq(Nat) /\ Len(r) = Len(s) - 1 /\ Len(s) \in Nat
        /\ \A j \in 1 .. Len(s) - 1 : r[j] = IF j < from THEN s[j] ELSE s[j + 1]
    BY <1>0, Removed, Zenon
  <1> HIDE DEF r
  <1>2. to \in 1 .. Len(r) + 1 /\ s[from] \in Nat
    BY <1>1
  <1>3. /\ m \in Seq(Nat) /\ Len(m) = Len(s)
        /\ \A j \in 1 .. Len(s) : m[j] = IF j < to THEN r[j] ELSE IF j = to THEN s[from] ELSE r[j - 1]
    <2>1. /\ m \in Seq(Nat) /\ Len(m) = Len(r) + 1
          /\ \A j \in 1 .. Len(r) + 1 : m[j] = IF j < to THEN r[j] ELSE IF j = to THEN s[from] ELSE r[j - 1]
      <3>1. r \in Seq(Nat)
        BY <1>1
      <3>2. Wider(m, r, to, s[from])
        BY <1>2, <3>1, Inserted, Zenon
      <3> QED BY <3>2, Zenon DEF Wider
    <2>2. Len(r) + 1 = Len(s)
      BY <1>1
    <2> QED BY <2>1, <2>2
  <1> HIDE DEF m
  <1>4. ASSUME NEW j \in 1 .. Len(s)
        PROVE  Origin(from, to, j) \in 1 .. Len(s) /\ m[j] = s[Origin(from, to, j)]
    <2>1. CASE j = to
      BY <1>1, <1>3, <2>1 DEF Origin
    <2>2. CASE j < to
      <3>1. j \in 1 .. Len(s) - 1 /\ m[j] = r[j] /\ j + 1 \in 1 .. Len(s)
        BY <1>1, <1>3, <2>2
      <3>2. r[j] = IF j < from THEN s[j] ELSE s[j + 1]
        BY <1>1, <3>1
      <3>3. Origin(from, to, j) = IF j < from THEN j ELSE j + 1
        BY <2>2 DEF Origin
      <3> QED BY <3>1, <3>2, <3>3
    <2>3. CASE j > to
      <3>1. j - 1 \in 1 .. Len(s) - 1 /\ m[j] = r[j - 1] /\ j - 1 \in 1 .. Len(s)
        BY <1>1, <1>3, <2>3
      <3>2. r[j - 1] = IF j - 1 < from THEN s[j - 1] ELSE s[j]
        <4>1. (j - 1) + 1 = j
          BY <1>1
        <4> QED BY <1>1, <3>1, <4>1
      <3>3. Origin(from, to, j) = IF j - 1 < from THEN j - 1 ELSE j
        BY <2>3 DEF Origin
      <3> QED BY <3>1, <3>2, <3>3
    <2> QED BY <2>1, <2>2, <2>3
  <1>5. ASSUME NEW j \in 1 .. Len(s), NEW k \in 1 .. Len(s), m[j] = m[k]
        PROVE  j = k
    <2>1. Origin(from, to, j) = Origin(from, to, k)
      BY <1>4, <1>5 DEF Once
    <2>2. j \in Nat /\ k \in Nat /\ from \in Nat /\ to \in Nat
      BY <1>0
    <2> QED BY <2>1, <2>2 DEF Origin
  <1>6. Once(m)
    BY <1>3, <1>5 DEF Once
  <1>7. ToSet(m) \subseteq ToSet(s)
    <2>1. DOMAIN m = 1 .. Len(s) /\ DOMAIN s = 1 .. Len(s)
      BY <1>3
    <2> QED BY <1>4, <2>1 DEF ToSet
  <1>8. m = Moved(s, from, to)
    BY DEF Moved, m, r
  <1> QED BY <1>3, <1>4, <1>6, <1>7, <1>8

\* A new tab comes last.
LEMMA AppendedOnce ==
  ASSUME NEW s \in Seq(Nat), Once(s), NEW t \in Nat, t \notin ToSet(s)
  PROVE  /\ Append(s, t) \in Seq(Nat) /\ Len(Append(s, t)) = Len(s) + 1
         /\ \A j \in 1 .. Len(s) : Append(s, t)[j] = s[j]
         /\ Append(s, t)[Len(s) + 1] = t
         /\ Once(Append(s, t))
         /\ ToSet(Append(s, t)) \subseteq ToSet(s) \cup {t}
  <1> DEFINE a == Append(s, t)
  <1>1. /\ a \in Seq(Nat) /\ Len(a) = Len(s) + 1 /\ Len(s) \in Nat
        /\ \A j \in 1 .. Len(s) : a[j] = s[j]
        /\ a[Len(s) + 1] = t
        /\ DOMAIN a = 1 .. Len(s) + 1
    BY AppendProperties
  <1> HIDE DEF a
  <1>2. \A j \in 1 .. Len(s) : s[j] \in ToSet(s)
    BY DEF ToSet
  <1>3. ASSUME NEW j \in 1 .. Len(a), NEW k \in 1 .. Len(a), a[j] = a[k]
        PROVE  j = k
    <2>1. CASE j = Len(s) + 1
      BY <1>1, <1>2, <1>3, <2>1
    <2>2. CASE k = Len(s) + 1
      BY <1>1, <1>2, <1>3, <2>2
    <2>3. CASE j \in 1 .. Len(s) /\ k \in 1 .. Len(s)
      BY <1>1, <1>3, <2>3 DEF Once
    <2> QED BY <1>1, <2>1, <2>2, <2>3
  <1>4. ToSet(a) \subseteq ToSet(s) \cup {t}
    <2>1. ASSUME NEW j \in 1 .. Len(s) + 1 PROVE a[j] \in ToSet(s) \cup {t}
      BY <1>1, <1>2
    <2> QED BY <1>1, <2>1 DEF ToSet
  <1>5. Once(a)
    BY <1>3 DEF Once
  <1> QED BY <1>1, <1>4, <1>5 DEF a

-----------------------------------------------------------------------------
(* The invariant.                                                          *)

Feature == {"display", "logging", "replace", "panel"}
TabRecord == [host : TabHosts, wanted : WantedNames, mcp : BOOLEAN, device : Seq(Nat)]

\* A tab is listed once, and what is marked for unseen output is a tab.
TabsInv ==
  /\ tab \in Seq(TabRecord) /\ on \in Seq(SUBSET Feature) /\ Len(on) = Len(tab)
  /\ sessions \in Seq(Nat) /\ ToSet(sessions) \subseteq 1 .. Len(tab) /\ Once(sessions)
  /\ active \in 0 .. Len(sessions)
  /\ activity \subseteq 1 .. Len(tab)
  /\ TabsStayApart

\* What is listed, and where.
LEMMA TabListed ==
  ASSUME TabsInv
  PROVE  /\ Len(sessions) \in Nat /\ Len(tab) \in Nat
         /\ \A i \in Positions(sessions) :
              sessions[i] \in ToSet(sessions) /\ sessions[i] \in 1 .. Len(tab)
         /\ pages = sessions /\ current = active
         /\ active \in 0 .. Len(sessions) /\ (active = 0 <=> Len(sessions) = 0)
         /\ \A t \in 1 .. Len(tab) : on[t] \in SUBSET Feature /\ tab[t] \in TabRecord
  <1>1. /\ sessions \in Seq(Nat) /\ tab \in Seq(TabRecord) /\ on \in Seq(SUBSET Feature)
        /\ Len(on) = Len(tab) /\ ToSet(sessions) \subseteq 1 .. Len(tab)
        /\ active \in 0 .. Len(sessions)
        /\ sessions = pages /\ active = current /\ (active = 0 <=> sessions = << >>)
    BY DEF TabsInv, TabsStayApart, WindowFollowsTab
  <1>2. Len(sessions) \in Nat /\ Len(tab) \in Nat /\ DOMAIN sessions = 1 .. Len(sessions)
    BY <1>1
  <1>3. \A i \in Positions(sessions) : sessions[i] \in ToSet(sessions)
    BY <1>2 DEF Positions, ToSet
  <1>4. sessions = << >> <=> Len(sessions) = 0
    BY <1>1, EmptySeq
  <1>5. \A t \in 1 .. Len(tab) : on[t] \in SUBSET Feature /\ tab[t] \in TabRecord
    <2>1. \A t \in 1 .. Len(tab) : tab[t] \in TabRecord
      BY <1>1
    <2>2. \A t \in 1 .. Len(on) : on[t] \in SUBSET Feature
      BY <1>1
    <2> QED BY <1>1, <2>1, <2>2
  <1> QED BY <1>1, <1>2, <1>3, <1>4, <1>5

-----------------------------------------------------------------------------
(* Device names.                                                           *)

\* A set of numbers has a least one.
LEMMA LeastOf ==
  ASSUME NEW T \in SUBSET Nat, T # {}
  PROVE  \E i \in T : \A j \in T : i <= j
  <1>1. PICK i \in T : \A j \in T : ~(<<j, i>> \in OpToRel(<, Nat))
    BY WFMin, NatLessThanWellFounded
  <1>2. ASSUME NEW j \in T PROVE i <= j
    <2>1. i \in Nat /\ j \in Nat /\ ~(<<j, i>> \in OpToRel(<, Nat))
      BY <1>1
    <2>2. ~(j < i)
      BY <2>1 DEF OpToRel
    <2>3. i \in Nat /\ j \in Nat
      BY <2>1
    <2> QED BY <2>2, <2>3
  <1> QED BY <1>2

\* A name made for a tab is a name.
LEMMA NameTyped ==
  ASSUME NEW tabs, NEW wanted \in WantedNames
  PROVE  /\ \A i \in Nat : Append(Stem(wanted), i) \in Seq(Nat)
         /\ UniqueName(tabs, wanted) \in Seq(Nat)
  <1> DEFINE n == IF Len(wanted) > StemLength THEN StemLength ELSE Len(wanted)
             free == {i \in 1 .. MaxSuffix : Append(Stem(wanted), i) \notin UsedNames(tabs)}
  <1>1. wanted \in Seq(Nat) /\ Len(wanted) \in Nat /\ StemLength \in Nat /\ MaxSuffix \in Nat
    BY NamesAssumption, SuffixAssumption
  <1>2. 1 \in 1 .. Len(wanted) + 1 /\ n \in 0 .. Len(wanted)
    BY <1>1
  <1>3. SubSeq(wanted, 1, n) \in Seq(Nat)
    <2> HIDE DEF n
    <2> QED BY <1>1, <1>2, SubSeqProperties
  <1>4. Stem(wanted) \in Seq(Nat)
    BY <1>3 DEF Stem
  <1>5. \A i \in Nat : Append(Stem(wanted), i) \in Seq(Nat)
    BY <1>4, AppendProperties
  <1>6. ASSUME free # {}, NEW k, k = CHOOSE i \in free : \A j \in free : i <= j
        PROVE  k \in Nat
    <2>1. PICK i \in free : \A j \in free : i <= j
      <3>1. free \in SUBSET Nat
        BY <1>1
      <3> HIDE DEF free
      <3> QED BY <1>6, <3>1, LeastOf
    <2> HIDE DEF free
    <2>2. k \in free
      BY <1>6, <2>1
    <2> QED BY <1>1, <2>2 DEF free
  <1>7. UniqueName(tabs, wanted) = wanted
        \/ (free # {} /\ UniqueName(tabs, wanted) =
              Append(Stem(wanted), CHOOSE i \in free : \A j \in free : i <= j))
    BY DEF UniqueName
  <1> HIDE DEF free
  <1> QED BY <1>1, <1>5, <1>6, <1>7

\* While suffixes are left the name made for a tab is in use by no other.
LEMMA NameIsNew ==
  ASSUME NEW tabs, IsFiniteSet(tabs), Cardinality(tabs) < MaxSuffix,
         NEW wanted \in WantedNames
  PROVE  UniqueName(tabs, wanted) \notin UsedNames(tabs)
  <1> DEFINE suffixed(i) == Append(Stem(wanted), i)
             free == {i \in 1 .. MaxSuffix : suffixed(i) \notin UsedNames(tabs)}
             k == CHOOSE i \in free : \A j \in free : i <= j
  <1>0. MaxSuffix \in Nat
    BY SuffixAssumption
  <1>1. Stem(wanted) \in Seq(Nat)
    <2> DEFINE n == IF Len(wanted) > StemLength THEN StemLength ELSE Len(wanted)
    <2>1. wanted \in Seq(Nat) /\ Len(wanted) \in Nat /\ StemLength \in Nat
      BY NamesAssumption, SuffixAssumption
    <2>2. 1 \in 1 .. Len(wanted) + 1 /\ n \in 0 .. Len(wanted)
      BY <2>1
    <2> HIDE DEF n
    <2>3. SubSeq(wanted, 1, n) \in Seq(Nat)
      BY <2>1, <2>2, SubSeqProperties
    <2> QED BY <2>3 DEF Stem, n
  <1>2. free # {}
    <2> SUFFICES ASSUME free = {} PROVE FALSE
      OBVIOUS
    <2>1. ASSUME NEW i \in 1 .. MaxSuffix
          PROVE  \E t \in tabs : tab[t].device = suffixed(i)
      BY <2>1 DEF UsedNames
    <2> DEFINE f == [i \in 1 .. MaxSuffix |-> CHOOSE t \in tabs : tab[t].device = suffixed(i)]
    <2>2. \A i \in 1 .. MaxSuffix : f[i] \in tabs /\ tab[f[i]].device = suffixed(i)
      BY <2>1
    <2>3. \A i, j \in 1 .. MaxSuffix : suffixed(i) = suffixed(j) => i = j
      <3> SUFFICES ASSUME NEW i \in 1 .. MaxSuffix, NEW j \in 1 .. MaxSuffix,
                          suffixed(i) = suffixed(j)
                   PROVE  i = j
        OBVIOUS
      <3>1. i \in Nat /\ j \in Nat
        BY <1>0
      <3>2. /\ suffixed(i)[Len(Stem(wanted)) + 1] = i
            /\ suffixed(j)[Len(Stem(wanted)) + 1] = j
        BY <1>1, <3>1, AppendProperties
      <3> QED BY <3>2
    <2>4. f \in Injection(1 .. MaxSuffix, tabs)
      <3>1. f \in [1 .. MaxSuffix -> tabs]
        BY <2>2
      <3>2. \A i, j \in 1 .. MaxSuffix : f[i] = f[j] => i = j
        <4> HIDE DEF f, suffixed
        <4> QED BY <2>2, <2>3
      <3> HIDE DEF f
      <3> QED BY <3>1, <3>2 DEF Injection, IsInjective
    <2>5. Cardinality(1 .. MaxSuffix) <= Cardinality(tabs)
      <3> HIDE DEF f
      <3> QED BY <2>4, FS_Injection
    <2>6. Cardinality(1 .. MaxSuffix) = MaxSuffix
      BY <1>0, FS_Interval
    <2> QED BY <1>0, <2>5, <2>6, FS_CardinalityType
  <1>3. k \in free
    <2>1. free \in SUBSET Nat
      BY <1>0
    <2> HIDE DEF free
    <2>2. PICK i \in free : \A j \in free : i <= j
      BY <1>2, <2>1, LeastOf
    <2> QED BY <2>2
  <1>4. CASE wanted \notin UsedNames(tabs)
    BY <1>4 DEF UniqueName
  <1>5. CASE wanted \in UsedNames(tabs)
    <2>1. UniqueName(tabs, wanted) = suffixed(k)
      BY <1>2, <1>5 DEF UniqueName
    <2> HIDE DEF k
    <2> QED BY <1>3, <2>1
  <1> QED BY <1>4, <1>5

\* The tabs of one host that are open.
LEMMA OpenAre ==
  ASSUME TabsInv, NEW host
  PROVE  /\ Open(host) \subseteq ToSet(sessions)
         /\ IsFiniteSet(Open(host)) /\ Cardinality(Open(host)) \in Nat
  <1>1. Len(tab) \in Nat /\ ToSet(sessions) \subseteq 1 .. Len(tab)
    BY DEF TabsInv
  <1>2. Open(host) \subseteq ToSet(sessions)
    BY DEF Open
  <1>3. IsFiniteSet(1 .. Len(tab))
    BY <1>1, FS_Interval
  <1>4. IsFiniteSet(Open(host))
    BY <1>1, <1>2, <1>3, FS_Subset
  <1> QED BY <1>2, <1>4, FS_CardinalityType

\* Names stay apart while tabs go and none comes.
LEMMA FewerNames ==
  ASSUME TabsInv, ToSet(sessions)' \subseteq ToSet(sessions), tab' = tab, crowded' = crowded
  PROVE  NamesDiffer'
  BY DEF TabsInv, TabsStayApart, NamesDiffer

\* And when one comes with a name its host's other tabs do not use.
LEMMA AnotherName ==
  ASSUME TabsInv, NEW rec \in TabRecord, tab' = Append(tab, rec),
         NEW old \in SUBSET ToSet(sessions),
         ToSet(sessions)' \subseteq old \cup {Len(tab) + 1},
         ~crowded' => /\ ~crowded
                      /\ rec.device \notin UsedNames({t \in old : tab[t].host = rec.host})
  PROVE  NamesDiffer'
  <1> DEFINE n == Len(tab) + 1
  <1>1. Len(tab) \in Nat /\ tab \in Seq(TabRecord) /\ old \subseteq 1 .. Len(tab)
    BY DEF TabsInv
  <1>2. tab'[n] = rec /\ \A t \in old : tab'[t] = tab[t]
    BY <1>1, AppendProperties
  <1> SUFFICES ASSUME ~crowded', NEW s \in ToSet(sessions)', NEW t \in ToSet(sessions)',
                      s # t, tab'[s].host = tab'[t].host, tab'[s].device # << >>,
                      tab'[s].device = tab'[t].device
               PROVE  FALSE
    BY DEF NamesDiffer
  <1>3. ~crowded /\ rec.device \notin UsedNames({u \in old : tab[u].host = rec.host})
    OBVIOUS
  <1>4. ASSUME NEW u \in old, tab[u].host = rec.host, tab[u].device # << >>
        PROVE  tab[u].device # rec.device
    BY <1>3, <1>4 DEF UsedNames
  <1> HIDE DEF n
  <1>5. s \in old \cup {n} /\ t \in old \cup {n}
    BY DEF n
  <1>6. CASE s \in old /\ t \in old
    BY <1>2, <1>3, <1>6 DEF TabsInv, TabsStayApart, NamesDiffer
  <1>7. CASE s = n
    BY <1>2, <1>4, <1>5, <1>7
  <1>8. CASE t = n
    BY <1>2, <1>4, <1>5, <1>8
  <1> QED BY <1>5, <1>6, <1>7, <1>8

-----------------------------------------------------------------------------
(* Opening, closing, moving and showing tabs.                              *)

\* A tab opened by the user or by an MCP client.
LEMMA ConnectKeeps ==
  ASSUME TabsInv, NEW host \in TabHosts, NEW wanted \in WantedNames, NEW mcp \in BOOLEAN,
         connectToServer(host, wanted, mcp)
  PROVE  TabsInv'
  <1> DEFINE t == Len(tab) + 1
             rec == [host |-> host, wanted |-> wanted, mcp |-> mcp,
                     device |-> UniqueName(Open(host), wanted)]
             a == Append(sessions, t)
  <1>1. /\ tab' = Append(tab, rec) /\ on' = Append(on, {})
        /\ crowded' = (crowded \/ Cardinality(Open(host)) >= MaxSuffix)
        /\ addTab(t, mcp)
    BY DEF connectToServer
  <1>2. rec \in TabRecord
    BY NameTyped DEF TabRecord
  <1> HIDE DEF rec
  <1>3. /\ Len(tab) \in Nat /\ t \in Nat /\ t \notin 1 .. Len(tab)
        /\ 1 .. Len(tab) \subseteq 1 .. t /\ t \in 1 .. t
        /\ tab \in Seq(TabRecord) /\ on \in Seq(SUBSET Feature) /\ Len(on) = Len(tab)
        /\ sessions \in Seq(Nat) /\ ToSet(sessions) \subseteq 1 .. Len(tab) /\ Once(sessions)
        /\ activity \subseteq 1 .. Len(tab) /\ t \notin activity
    BY DEF TabsInv
  <1>4. /\ tab' \in Seq(TabRecord) /\ Len(tab') = t
        /\ on' \in Seq(SUBSET Feature) /\ Len(on') = t
        /\ on'[t] = {} /\ \A x \in 1 .. Len(tab) : on'[x] = on[x]
    BY <1>1, <1>2, <1>3, AppendProperties
  <1>5. /\ sessions' = a /\ pages' = Append(pages, t)
        /\ IF pages = << >> THEN AddFirst(t)
           ELSE IF mcp /\ active \in Positions(sessions) THEN AddBehind(t) ELSE AddShown(t)
    BY <1>1 DEF addTab
  <1> HIDE DEF t
  <1>6. /\ a \in Seq(Nat) /\ Len(a) = Len(sessions) + 1
        /\ \A j \in 1 .. Len(sessions) : a[j] = sessions[j]
        /\ a[Len(sessions) + 1] = t
        /\ Once(a) /\ ToSet(a) \subseteq ToSet(sessions) \cup {t}
    BY <1>3, AppendedOnce
  <1> HIDE DEF a
  <1>7. /\ Len(sessions) \in Nat /\ pages = sessions /\ current = active
        /\ active \in 0 .. Len(sessions) /\ (active = 0 <=> Len(sessions) = 0)
        /\ \A i \in 1 .. Len(sessions) : sessions[i] \in 1 .. Len(tab)
    BY TabListed DEF Positions
  <1>8. NamesDiffer'
    <2>1. ASSUME ~crowded'
          PROVE  /\ ~crowded
                 /\ rec.device \notin UsedNames({x \in ToSet(sessions) : tab[x].host = rec.host})
      <3>1. /\ ~crowded /\ ~(Cardinality(Open(host)) >= MaxSuffix)
        BY <1>1, <2>1
      <3>2. Cardinality(Open(host)) < MaxSuffix
        BY <3>1, OpenAre, SuffixAssumption
      <3>3. UniqueName(Open(host), wanted) \notin UsedNames(Open(host))
        BY <3>2, OpenAre, NameIsNew
      <3>4. /\ rec.host = host /\ rec.device = UniqueName(Open(host), wanted)
            /\ Open(host) = {x \in ToSet(sessions) : tab[x].host = host}
        BY DEF rec, Open
      <3> QED BY <3>1, <3>3, <3>4
    <2> QED BY <1>1, <1>2, <1>5, <1>6, <2>1, AnotherName DEF t
  <1>9. WindowFollowsTab' /\ active' \in 0 .. Len(a) /\ activity' \subseteq 1 .. Len(tab)
    <2>1. sessions' = pages' /\ sessions' # << >>
      BY <1>5, <1>6, <1>7 DEF a
    <2>2. CASE pages = << >>
      <3>1. AddFirst(t) /\ Len(sessions) = 0
        BY <1>5, <1>7, <2>2
      <3>2. /\ Len(<<t>>) = 1 /\ <<t>>[1] = t /\ 1 \in Positions(<<t>>)
        BY DEF Positions
      <3>3. active' = 1 /\ current' = 1 /\ window' = t /\ checked' = on'[t] /\ activity' = activity
        BY <3>1, <3>2 DEF AddFirst, setActiveSession
      <3>4. sessions'[1] = t
        BY <1>5, <1>6, <3>1
      <3> QED BY <1>3, <1>6, <1>7, <2>1, <3>1, <3>3, <3>4 DEF WindowFollowsTab
    <2>3. CASE pages # << >> /\ mcp /\ active \in Positions(sessions)
      <3>1. AddBehind(t) /\ active \in 1 .. Len(sessions)
        BY <1>5, <2>3 DEF Positions
      <3>2. active \in Positions(a) /\ a[active] = sessions[active]
        BY <1>6, <1>7, <3>1 DEF Positions
      <3>3. /\ active' = active /\ window' = a[active] /\ checked' = on'[a[active]]
            /\ current' = current /\ activity' = activity
        BY <3>1, <3>2 DEF AddBehind, setActiveSession, a
      <3>4. a[active] \notin activity
        BY <1>7, <3>1, <3>2 DEF TabsInv, TabsStayApart, WindowFollowsTab
      <3>5. sessions' = a /\ current = active /\ active # 0 /\ active \in 0 .. Len(a)
        BY <1>5, <1>6, <1>7, <3>1
      <3> QED BY <1>3, <2>1, <3>3, <3>4, <3>5 DEF WindowFollowsTab
    <2>4. CASE pages # << >> /\ ~(mcp /\ active \in Positions(sessions))
      <3>1. AddShown(t)
        BY <1>5, <2>4
      <3>2. Len(sessions) + 1 \in Positions(a)
        BY <1>6, <1>7 DEF Positions
      <3>3. /\ active' = Len(sessions) + 1 /\ window' = t /\ checked' = on'[t]
            /\ current' = Len(sessions) + 1 /\ activity' = activity \ {t}
        BY <1>6, <3>1, <3>2 DEF AddShown, onCurrentTabChanged, setActiveSession, a
      <3>4. sessions'[active'] = t
        BY <1>5, <1>6, <3>3
      <3> QED BY <1>3, <1>6, <1>7, <2>1, <3>3, <3>4 DEF WindowFollowsTab
    <2> QED BY <2>2, <2>3, <2>4
  <1>10. ToSet(sessions)' \subseteq 1 .. t /\ activity' \subseteq 1 .. t
    BY <1>3, <1>5, <1>6, <1>9
  <1> QED BY <1>4, <1>5, <1>6, <1>8, <1>9, <1>10 DEF TabsInv, TabsStayApart

\* A tab closed by whomever.
LEMMA CloseKeeps ==
  ASSUME TabsInv, NEW i \in Positions(sessions), onCloseTabRequested(i),
         tab' = tab, on' = on, crowded' = crowded
  PROVE  TabsInv'
  <1> DEFINE t == sessions[i]
             ss == RemoveAt(sessions, i)
             c == CurrentAfter(i)
  <1>1. /\ sessions' = ss /\ pages' = RemoveAt(pages, i) /\ current' = c
        /\ setActiveSession(ss, c, on)
        /\ i <= current => activity' = activity \ ({t} \union (IF c = 0 THEN {} ELSE {ss[c]}))
        /\ ~(i <= current) => activity' = activity \ {t}
    BY DEF onCloseTabRequested
  <1>2. /\ Len(sessions) \in Nat /\ pages = sessions /\ current = active
        /\ active \in 0 .. Len(sessions) /\ (active = 0 <=> Len(sessions) = 0)
        /\ i \in 1 .. Len(sessions) /\ i \in Nat
        /\ sessions \in Seq(Nat) /\ Once(sessions) /\ ToSet(sessions) \subseteq 1 .. Len(tab)
        /\ tab \in Seq(TabRecord) /\ on \in Seq(SUBSET Feature) /\ Len(on) = Len(tab)
        /\ activity \subseteq 1 .. Len(tab)
    BY TabListed DEF TabsInv, Positions
  <1>3. /\ ss \in Seq(Nat) /\ Len(ss) = Len(sessions) - 1
        /\ \A j \in 1 .. Len(sessions) - 1 :
             ss[j] = IF j < i THEN sessions[j] ELSE sessions[j + 1]
    BY <1>2, Removed
  <1>4. Once(ss) /\ ToSet(ss) \subseteq ToSet(sessions)
    BY <1>2, RemovedOnce
  <1>5. c = IF i < active THEN active - 1
            ELSE IF i > active \/ active < Len(sessions) THEN active ELSE active - 1
    BY <1>2 DEF CurrentAfter
  <1> HIDE DEF ss, c
  <1>6. c \in 0 .. Len(ss) /\ (c = 0 <=> Len(ss) = 0)
    <2>1. /\ Len(sessions) \in Nat /\ active \in 0 .. Len(sessions) /\ i \in 1 .. Len(sessions)
          /\ (active = 0 <=> Len(sessions) = 0) /\ Len(ss) = Len(sessions) - 1
      BY <1>2, <1>3
    <2>2. CASE i < active
      <3>1. c = active - 1
        BY <1>5, <2>2
      <3> QED BY <2>1, <2>2, <3>1
    <2>3. CASE i >= active /\ (i > active \/ active < Len(sessions))
      <3>1. c = active
        BY <1>5, <2>1, <2>3
      <3> QED BY <2>1, <2>3, <3>1
    <2>4. CASE i = active /\ active = Len(sessions)
      <3>1. c = active - 1
        BY <1>5, <2>1, <2>4
      <3> QED BY <2>1, <2>4, <3>1
    <2> QED BY <2>1, <2>2, <2>3, <2>4
  <1>7. active' = c /\ (c # 0 => window' = ss[c] /\ checked' = on[ss[c]])
    <2>1. CASE c = 0
      <3>1. c \notin Positions(ss)
        BY <2>1 DEF Positions
      <3> QED BY <1>1, <2>1, <3>1 DEF setActiveSession
    <2>2. CASE c # 0
      <3>1. c \in Positions(ss)
        BY <1>3, <1>6, <2>2 DEF Positions
      <3> QED BY <1>1, <3>1 DEF setActiveSession
    <2> QED BY <2>1, <2>2
  <1>8. c # 0 => ss[c] \notin activity'
    <2>1. CASE i <= active
      BY <1>1, <1>2, <2>1
    <2>2. CASE ~(i <= active)
      <3> SUFFICES ASSUME c # 0 PROVE ss[c] \notin activity'
        OBVIOUS
      <3>1. c = active /\ c < i /\ c \in 1 .. Len(sessions) - 1
        BY <1>2, <1>3, <1>5, <1>6, <2>2
      <3>2. ss[c] = sessions[active]
        BY <1>3, <3>1
      <3>3. sessions[active] \notin activity
        BY <3>1 DEF TabsInv, TabsStayApart, WindowFollowsTab
      <3> QED BY <1>1, <1>2, <2>2, <3>2, <3>3
    <2> QED BY <2>1, <2>2
  <1>9. sessions' = pages' /\ (c = 0 <=> sessions' = << >>)
    <2>1. ss = << >> <=> Len(ss) = 0
      BY <1>3, EmptySeq
    <2> QED BY <1>1, <1>2, <1>6, <2>1 DEF ss
  <1>10. WindowFollowsTab'
    BY <1>1, <1>7, <1>8, <1>9 DEF WindowFollowsTab
  <1>11. NamesDiffer'
    BY <1>1, <1>4, FewerNames
  <1>12. activity' \subseteq activity
    BY <1>1
  <1> QED BY <1>1, <1>2, <1>3, <1>4, <1>6, <1>7, <1>10, <1>11, <1>12
      DEF TabsInv, TabsStayApart

\* A tab brought in front.
LEMMA ShowKeeps ==
  ASSUME TabsInv, NEW i \in Positions(sessions), Show(i),
         tab' = tab, on' = on, crowded' = crowded
  PROVE  TabsInv'
  <1>1. /\ sessions' = sessions /\ pages' = pages /\ current' = i /\ active' = i
        /\ window' = sessions[i] /\ checked' = on[sessions[i]]
        /\ activity' = activity \ {sessions[i]}
    BY DEF Show, onCurrentTabChanged, setActiveSession
  <1>2. i \in 1 .. Len(sessions) /\ i # 0 /\ sessions # << >> /\ pages = sessions
    BY TabListed DEF Positions
  <1>3. WindowFollowsTab'
    BY <1>1, <1>2 DEF WindowFollowsTab
  <1>4. NamesDiffer'
    BY <1>1, FewerNames
  <1>5. i \in 0 .. Len(sessions)
    BY <1>2
  <1> QED BY <1>1, <1>3, <1>4, <1>5 DEF TabsInv, TabsStayApart

\* A tab dragged: the window's own list and position go with Qt's.
LEMMA MoveKeeps ==
  ASSUME TabsInv, NEW from, NEW to, onTabMoved(from, to)
  PROVE  TabsInv'
  <1> DEFINE m == Moved(sessions, from, to)
             c == CurrentMoved(from, to)
  <1>1. /\ Len(sessions) \in Nat /\ pages = sessions /\ current = active
        /\ active \in 0 .. Len(sessions) /\ (active = 0 <=> Len(sessions) = 0)
        /\ sessions \in Seq(Nat) /\ Once(sessions) /\ ToSet(sessions) \subseteq 1 .. Len(tab)
    BY TabListed DEF TabsInv
  <1>2. /\ from \in 1 .. Len(sessions) /\ to \in 1 .. Len(sessions) /\ from # to
        /\ from \in Nat /\ to \in Nat /\ active # 0 /\ active \in Nat
    BY <1>1 DEF onTabMoved, Positions
  <1>3. /\ sessions' = m /\ pages' = m /\ current' = c
        /\ activity' = activity /\ tab' = tab /\ on' = on /\ crowded' = crowded
    BY <1>1 DEF onTabMoved, Rest
  <1>4. /\ m \in Seq(Nat) /\ Len(m) = Len(sessions)
        /\ \A j \in 1 .. Len(sessions) : m[j] = sessions[Origin(from, to, j)]
        /\ Once(m) /\ ToSet(m) \subseteq ToSet(sessions)
    BY <1>1, <1>2, MovedOnce
  <1>5. c \in 1 .. Len(sessions) /\ Origin(from, to, c) = active
    BY <1>1, <1>2 DEF CurrentMoved, Origin
  <1> HIDE DEF m
  <1>6. m[c] = sessions[active]
    BY <1>4, <1>5
  <1>7. c = active \/ active = from \/ active \in from .. to \/ active \in to .. from
    BY <1>1, <1>2 DEF CurrentMoved
  <1>8. active = from => c = to
    BY <1>1 DEF CurrentMoved
  <1> HIDE DEF c
  <1>9. /\ window = sessions[active] /\ checked = on[sessions[active]]
        /\ sessions[active] \notin activity
    BY <1>2 DEF TabsInv, TabsStayApart, WindowFollowsTab
  <1>10. active' = c /\ window' = m[c] /\ checked' = on[m[c]]
    <2>1. CASE active = from
      <3>1. active' = to /\ window' = window /\ checked' = checked
        BY <2>1 DEF onTabMoved
      <3> QED BY <1>6, <1>8, <1>9, <2>1, <3>1
    <2>2. CASE active # from /\ (active \in from .. to \/ active \in to .. from)
      <3>1. setActiveSession(m, c, on)
        BY <2>2 DEF onTabMoved, m, c
      <3>2. c \in Positions(m)
        BY <1>4, <1>5 DEF Positions
      <3> QED BY <3>1, <3>2 DEF setActiveSession
    <2>3. CASE active # from /\ ~(active \in from .. to \/ active \in to .. from)
      <3>1. active' = active /\ window' = window /\ checked' = checked
        BY <2>3 DEF onTabMoved
      <3> QED BY <1>6, <1>7, <1>9, <2>3, <3>1
    <2> QED BY <2>1, <2>2, <2>3
  <1>11. m # << >> /\ c # 0 /\ c \in 0 .. Len(m)
    BY <1>2, <1>4, <1>5
  <1>12. WindowFollowsTab'
    BY <1>3, <1>6, <1>9, <1>10, <1>11 DEF WindowFollowsTab
  <1>13. NamesDiffer'
    BY <1>3, <1>4, FewerNames
  <1> QED BY <1>3, <1>4, <1>10, <1>11, <1>12, <1>13 DEF TabsInv, TabsStayApart

\* A feature switched at the tab shown.
LEMMA FlipKeeps ==
  ASSUME TabsInv, NEW f \in Feature, Flip(f)
  PROVE  TabsInv'
  <1> DEFINE t == sessions[active]
             s == IF f \in on[t] THEN on[t] \ {f} ELSE on[t] \union {f}
  <1>1. /\ active \in 1 .. Len(sessions) /\ t \in 1 .. Len(tab) /\ on[t] \in SUBSET Feature
        /\ on \in Seq(SUBSET Feature) /\ Len(on) = Len(tab) /\ Len(tab) \in Nat
    BY TabListed DEF Flip, Positions, TabsInv
  <1>2. s \in SUBSET Feature
    BY <1>1
  <1>3. on' = [on EXCEPT ![t] = s] /\ checked' = s
    BY DEF Flip
  <1> HIDE DEF s
  <1>4. on' \in Seq(SUBSET Feature) /\ Len(on') = Len(tab) /\ on'[t] = s
    BY <1>1, <1>2, <1>3
  <1>5. /\ sessions' = sessions /\ active' = active /\ pages' = pages /\ current' = current
        /\ window' = window /\ activity' = activity /\ tab' = tab /\ crowded' = crowded
    BY DEF Flip
  <1>6. WindowFollowsTab'
    BY <1>1, <1>3, <1>4, <1>5 DEF WindowFollowsTab, TabsInv, TabsStayApart
  <1>7. NamesDiffer'
    BY <1>5, FewerNames
  <1> QED BY <1>4, <1>5, <1>6, <1>7 DEF TabsInv, TabsStayApart

\* Steps that leave the tabs as they are.
LEMMA QuietKeeps ==
  ASSUME TabsInv, UNCHANGED <<sessions, active, pages, current, window, activity, checked>>,
         UNCHANGED <<tab, on, crowded>>
  PROVE  TabsInv'
  BY DEF TabsInv, TabsStayApart, WindowFollowsTab, NamesDiffer

\* Output in a tab that is not shown marks it.
LEMMA OutputKeeps ==
  ASSUME TabsInv, NEW i, screenChanged(i)
  PROVE  TabsInv'
  <1>1. /\ i \in 1 .. Len(sessions) /\ i # active /\ activity' = activity \union {sessions[i]}
        /\ UNCHANGED <<sessions, active, pages, current, window, checked, tab, on, crowded>>
    BY DEF screenChanged, Positions, Rest
  <1>2. sessions[i] \in 1 .. Len(tab)
    BY <1>1, TabListed DEF Positions
  <1>3. active # 0 => sessions[i] # sessions[active]
    BY <1>1, TabListed DEF TabsInv, Once
  <1>4. WindowFollowsTab'
    BY <1>1, <1>3 DEF TabsInv, TabsStayApart, WindowFollowsTab
  <1> QED BY <1>1, <1>2, <1>4, FewerNames DEF TabsInv, TabsStayApart

\* A reconnect closes the tab shown and opens another of the same host.
LEMMA ReconnectKeeps ==
  ASSUME TabsInv, onReconnect
  PROVE  TabsInv'
  <1> DEFINE t == sessions[active]
             ss == RemoveAt(sessions, active)
             n == Len(tab) + 1
             host == tab[t].host
             others == Open(host) \ {t}
             name == UniqueName(others, tab[t].wanted)
             rec == [tab[t] EXCEPT !.mcp = FALSE, !.device = name]
             a == Append(ss, n)
  <1>1. /\ active \in 1 .. Len(sessions) /\ Len(sessions) \in Nat /\ pages = sessions
        /\ t \in ToSet(sessions) /\ t \in 1 .. Len(tab) /\ tab[t] \in TabRecord
        /\ sessions \in Seq(Nat) /\ Once(sessions) /\ ToSet(sessions) \subseteq 1 .. Len(tab)
    BY TabListed DEF onReconnect, Positions, TabsInv
  <1>2. /\ Len(tab) \in Nat /\ n \in Nat /\ n \notin 1 .. Len(tab)
        /\ 1 .. Len(tab) \subseteq 1 .. n /\ n \in 1 .. n
        /\ tab \in Seq(TabRecord) /\ on \in Seq(SUBSET Feature) /\ Len(on) = Len(tab)
        /\ activity \subseteq 1 .. Len(tab) /\ n \notin activity
    BY DEF TabsInv
  <1>3. /\ tab' = Append(tab, rec) /\ on' = Append(on, {})
        /\ crowded' = (crowded \/ Cardinality(Open(host)) > MaxSuffix)
        /\ sessions' = a /\ pages' = a /\ current' = Len(sessions)
        /\ setActiveSession(a, Len(sessions), on')
        /\ activity' \subseteq activity
    BY <1>1 DEF onReconnect
  <1>4. rec \in TabRecord /\ rec.host = host /\ rec.device = name
    <2>1. name \in Seq(Nat)
      BY <1>1, NameTyped DEF TabRecord
    <2> HIDE DEF name, t
    <2> QED BY <1>1, <2>1 DEF TabRecord
  <1> HIDE DEF rec
  <1>5. /\ ss \in Seq(Nat) /\ Len(ss) = Len(sessions) - 1
        /\ Once(ss) /\ ToSet(ss) \subseteq ToSet(sessions) \ {t}
    BY <1>1, Removed, RemovedOnce
  <1> HIDE DEF ss, n, t
  <1>6. /\ a \in Seq(Nat) /\ Len(a) = Len(sessions) /\ a[Len(sessions)] = n
        /\ Once(a) /\ ToSet(a) \subseteq ToSet(ss) \cup {n}
    <2>1. n \notin ToSet(ss)
      BY <1>1, <1>2, <1>5
    <2>2. /\ a \in Seq(Nat) /\ Len(a) = Len(ss) + 1 /\ a[Len(ss) + 1] = n
          /\ Once(a) /\ ToSet(a) \subseteq ToSet(ss) \cup {n}
      BY <1>2, <1>5, <2>1, AppendedOnce
    <2>3. Len(ss) + 1 = Len(sessions)
      BY <1>1, <1>5
    <2> QED BY <2>2, <2>3
  <1> HIDE DEF a
  <1>7. /\ tab' \in Seq(TabRecord) /\ Len(tab') = n
        /\ on' \in Seq(SUBSET Feature) /\ Len(on') = n /\ on'[n] = {}
    BY <1>2, <1>3, <1>4, AppendProperties DEF n
  <1>8. NamesDiffer'
    <2>1. ASSUME ~crowded'
          PROVE  /\ ~crowded
                 /\ rec.device \notin UsedNames({x \in ToSet(ss) : tab[x].host = rec.host})
      <3>1. /\ ~crowded /\ ~(Cardinality(Open(host)) > MaxSuffix)
        BY <1>3, <2>1
      <3>2. t \in Open(host)
        BY <1>1 DEF Open
      <3>3. IsFiniteSet(others) /\ Cardinality(others) = Cardinality(Open(host)) - 1
        BY <3>2, OpenAre, FS_RemoveElement
      <3>4. Cardinality(others) < MaxSuffix
        BY <3>1, <3>3, OpenAre, SuffixAssumption
      <3>5. tab[t].wanted \in WantedNames
        BY <1>1 DEF TabRecord
      <3>6. name \notin UsedNames(others)
        <4> HIDE DEF others
        <4> QED BY <3>3, <3>4, <3>5, NameIsNew
      <3>7. {x \in ToSet(ss) : tab[x].host = host} \subseteq others
        BY <1>5 DEF Open
      <3> HIDE DEF others, name, host
      <3> QED BY <1>4, <3>1, <3>6, <3>7 DEF UsedNames
    <2>2. ToSet(ss) \in SUBSET ToSet(sessions)
      BY <1>5
    <2> QED BY <1>3, <1>4, <1>6, <2>1, <2>2, AnotherName DEF n
  <1>9. Len(sessions) \in Positions(a) /\ Len(sessions) # 0 /\ a # << >>
    BY <1>1, <1>6, EmptySeq DEF Positions
  <1>10. active' = Len(sessions) /\ window' = n /\ checked' = on'[n]
    BY <1>3, <1>6, <1>9 DEF setActiveSession
  <1>11. WindowFollowsTab'
    BY <1>2, <1>3, <1>6, <1>9, <1>10 DEF WindowFollowsTab
  <1>12. ToSet(sessions)' \subseteq 1 .. n /\ activity' \subseteq 1 .. n
    BY <1>1, <1>2, <1>3, <1>5, <1>6
  <1>13. active' \in 0 .. Len(a)
    BY <1>1, <1>6, <1>10
  <1> QED BY <1>3, <1>6, <1>7, <1>8, <1>11, <1>12, <1>13 DEF TabsInv, TabsStayApart

-----------------------------------------------------------------------------
(* The theorem.                                                            *)

\* A window without tabs.
LEMMA TabsInvInit ==
  ASSUME WindowInit
  PROVE  TabsInv
  <1>1. Len(sessions) = 0 /\ ToSet(sessions) = {} /\ tab \in Seq(TabRecord)
        /\ on \in Seq(SUBSET Feature) /\ Len(on) = Len(tab) /\ sessions \in Seq(Nat)
    BY EmptySeq DEF WindowInit, ToSet
  <1>2. WindowFollowsTab /\ NamesDiffer
    BY <1>1 DEF WindowInit, WindowFollowsTab, NamesDiffer
  <1> QED BY <1>1, <1>2 DEF WindowInit, TabsInv, TabsStayApart, Once

\* Every step of the window, its dialogs and the MCP clients.
LEMMA TabsInvStep ==
  ASSUME TabsInv, [WindowNext]_windowVars
  PROVE  TabsInv'
  <1>1. CASE UNCHANGED windowVars
    BY <1>1, QuietKeeps DEF windowVars, tabsView
  <1>2. CASE onConnect \/ createSessionRequested
    BY <1>2, ConnectKeeps DEF onConnect, createSessionRequested
  <1>3. CASE onDuplicateSession
    <2>1. active \in Positions(sessions)
      BY <1>3 DEF onDuplicateSession
    <2>2. tab[sessions[active]] \in TabRecord
      BY <2>1, TabListed
    <2>3. /\ tab[sessions[active]].host \in TabHosts
          /\ tab[sessions[active]].wanted \in WantedNames
      BY <2>2 DEF TabRecord
    <2> QED BY <1>3, <2>3, ConnectKeeps DEF onDuplicateSession
  <1>4. CASE onReconnect
    BY <1>4, ReconnectKeeps
  <1>5. CASE onToggleCursorRules \/ onToggleSessionLogging \/ onToggleMatchReplace
             \/ onToggleAgentPanel
    BY <1>5, FlipKeeps DEF onToggleCursorRules, onToggleSessionLogging, onToggleMatchReplace,
                           onToggleAgentPanel, Feature
  <1>6. CASE onToggleVirtualKeyboard
    BY <1>6, QuietKeeps DEF onToggleVirtualKeyboard
  <1>7. CASE eventFilter
    BY <1>7, CloseKeeps DEF eventFilter
  <1>8. CASE onRenameTabRequested \/ onEditMatchReplacePatterns \/ Dismissed
    BY <1>8, QuietKeeps DEF onRenameTabRequested, onEditMatchReplacePatterns, Dismissed, tabsView
  <1>9. ASSUME NEW i \in Positions(pages), ClickTab(i)
        PROVE  TabsInv'
    BY <1>9, TabListed, ShowKeeps DEF ClickTab, Rest
  <1>10. ASSUME NEW i \in Positions(pages), ClickClose(i) \/ closeSessionRequested(i)
         PROVE  TabsInv'
    BY <1>10, TabListed, CloseKeeps DEF ClickClose, closeSessionRequested, Rest
  <1>11. ASSUME NEW i \in Positions(pages), passwordPrompt(i) \/ errorOccurred(i)
         PROVE  TabsInv'
    BY <1>11, ShowKeeps, QuietKeeps DEF passwordPrompt, errorOccurred, tabsView
  <1>12. ASSUME NEW i \in Positions(pages), screenChanged(i)
         PROVE  TabsInv'
    BY <1>12, OutputKeeps
  <1>13. ASSUME NEW i \in Positions(pages), NEW kind \in {"menu", "rename", "patterns"},
                Ask(kind, i)
         PROVE  TabsInv'
    BY <1>13, QuietKeeps DEF Ask, tabsView
  <1>14. ASSUME NEW i \in Positions(pages), NEW to \in Positions(pages), onTabMoved(i, to)
         PROVE  TabsInv'
    BY <1>14, MoveKeeps
  <1> QED BY <1>1, <1>2, <1>3, <1>4, <1>5, <1>6, <1>7, <1>8, <1>9, <1>10, <1>11, <1>12,
             <1>13, <1>14 DEF WindowNext

\* However tabs are opened, closed, moved and shown, by the user or by an MCP
\* client, in front of a dialog or behind it: the window is about the tab Qt
\* shows, and two tabs of one host have different device names while suffixes
\* are left (MainWindow::setActiveSession, connectToServer).
THEOREM TabsNeverMixed == WindowSpec => []TabsStayApart
  <1>1. WindowInit => TabsInv
    BY TabsInvInit
  <1>2. TabsInv /\ [WindowNext]_windowVars => TabsInv'
    BY TabsInvStep
  <1>3. TabsInv => TabsStayApart
    BY DEF TabsInv
  <1> QED BY <1>1, <1>2, <1>3, PTL DEF WindowSpec

-----------------------------------------------------------------------------
(* Terminal themes: ids, files and the registry.                           *)

\* Ids made by n writes of files.
Ids(n) == Words \X (0 .. n)

\* A registry with every theme that was shipped, and no other that says it was.
RegistryOK(reg, n) ==
  /\ \A id \in Builtins : id \in DOMAIN reg /\ reg[id] = Shipped(id)
  /\ \A id \in DOMAIN reg : id \in Ids(n) /\ (reg[id].builtin => id \in Builtins)

\* Files of the user's own themes only.
FilesOK(fs, n) == \A id \in DOMAIN fs : id \in Ids(n) /\ id \notin Builtins

\* Every id of the page, of the registry and of a file was made by a write.
ThemesOK ==
  /\ themeWrites \in 0 .. MaxThemeWrites
  /\ RegistryOK(themes, themeWrites)
  /\ FilesOK(themeFiles, themeWrites)
  /\ themeId \in Ids(themeWrites)

LEMMA MoreIds ==
  ASSUME NEW n \in Nat, NEW m \in Nat, n <= m
  PROVE  /\ \A id \in Ids(n) : id \in Ids(m)
         /\ \A reg : RegistryOK(reg, n) => RegistryOK(reg, m)
         /\ \A fs : FilesOK(fs, n) => FilesOK(fs, m)
  <1>1. \A id \in Ids(n) : id \in Ids(m)
    BY DEF Ids
  <1> QED BY <1>1 DEF RegistryOK, FilesOK

\* Ids that are there whatever was written.
LEMMA FirstIds ==
  ASSUME NEW n \in Nat
  PROVE  NoId \in Ids(n) /\ \A id \in Builtins : id \in Ids(n)
  <1>0. "" \in Words /\ BuiltinWords \subseteq Words
    BY Zenon DEF Words
  <1>1. 0 \in 0 .. n /\ BuiltinWords \subseteq Words
    <2>1. 0 \in 0 .. n
      OBVIOUS
    <2> QED BY <1>0, <2>1, Zenon
  <1>2. \A word \in Words : <<word, 0>> \in Ids(n)
    BY <1>1 DEF Ids
  <1>3. NoId \in Ids(n)
    BY <1>0, <1>2, Zenon DEF NoId
  <1>4. ASSUME NEW id \in Builtins PROVE id \in Ids(n)
    <2>1. PICK word \in BuiltinWords : id = <<word, 0>>
      BY DEF Builtins
    <2> QED BY <1>1, <1>2, <2>1
  <1> QED BY <1>3, <1>4

\* No theme was shipped without a name.
LEMMA NoIdIsFree == NoId \notin Builtins
  BY ThemeAssumption DEF NoId, Builtins

\* What With and Without make of a function.
LEMMA WithIs ==
  ASSUME NEW f, NEW id, NEW x
  PROVE  /\ DOMAIN With(f, id, x) = DOMAIN f \union {id}
         /\ With(f, id, x)[id] = x
         /\ \A i \in DOMAIN f : i # id => With(f, id, x)[i] = f[i]
  BY DEF With

LEMMA WithoutIs ==
  ASSUME NEW f, NEW id
  PROVE  /\ DOMAIN Without(f, id) = DOMAIN f \ {id}
         /\ \A i \in DOMAIN f : i # id => Without(f, id)[i] = f[i]
  BY DEF Without, Restrict

\* registerTheme and the file of an id that no built-in theme has.
LEMMA Registered ==
  ASSUME NEW n, NEW reg, RegistryOK(reg, n), NEW id \in Ids(n), id \notin Builtins, NEW look
  PROVE  RegistryOK(With(reg, id, [builtin |-> FALSE, look |-> look]), n)
  <1> DEFINE theme == [builtin |-> FALSE, look |-> look]
             more == With(reg, id, theme)
  <1>2. ~theme.builtin
    BY DEF theme
  <1> HIDE DEF theme
  <1>1. /\ DOMAIN more = DOMAIN reg \union {id} /\ more[id] = theme
        /\ \A i \in DOMAIN reg : i # id => more[i] = reg[i]
    BY DEF With
  <1> HIDE DEF more
  <1>3. RegistryOK(more, n)
    BY <1>1, <1>2 DEF RegistryOK
  <1> QED BY <1>3 DEF more, theme

LEMMA Filed ==
  ASSUME NEW n, NEW fs, FilesOK(fs, n), NEW id \in Ids(n), id \notin Builtins, NEW x
  PROVE  FilesOK(With(fs, id, x), n)
  <1>1. DOMAIN With(fs, id, x) = DOMAIN fs \union {id}
    BY WithIs, Zenon
  <1> QED BY <1>1 DEF FilesOK

LEMMA Removing ==
  ASSUME NEW n, NEW reg, RegistryOK(reg, n), NEW id, id \notin Builtins
  PROVE  RegistryOK(Without(reg, id), n)
  <1> DEFINE less == Without(reg, id)
  <1>1. DOMAIN less = DOMAIN reg \ {id} /\ \A i \in DOMAIN reg : i # id => less[i] = reg[i]
    BY WithoutIs, Zenon
  <1> HIDE DEF less
  <1>2. RegistryOK(less, n)
    BY <1>1 DEF RegistryOK
  <1> QED BY <1>2 DEF less

\* A program that starts has the built-in themes and those of the files.
LEMMA Loading ==
  ASSUME NEW n \in Nat, NEW fs, FilesOK(fs, n)
  PROVE  RegistryOK(Loaded(fs), n)
  <1>1. DOMAIN Loaded(fs) = Builtins \union {i \in DOMAIN fs : fs[i] # Cut /\ i # NoId}
    BY DEF Loaded
  <1>2. ASSUME NEW id \in Builtins PROVE id \in DOMAIN Loaded(fs) /\ Loaded(fs)[id] = Shipped(id)
    BY DEF Loaded, FilesOK
  <1>3. ASSUME NEW id \in DOMAIN Loaded(fs), id \notin Builtins
        PROVE  id \in Ids(n) /\ ~Loaded(fs)[id].builtin
    BY <1>1, <1>3 DEF Loaded, FilesOK
  <1> QED BY <1>2, <1>3, FirstIds DEF RegistryOK

\* populateThemeDropdown leaves the page on a theme of the list or the one asked for,
\* and on that one when it is in the list.
LEMMA Populated ==
  ASSUME NEW n, NEW reg, RegistryOK(reg, n), NEW id \in Ids(n), NEW words,
         populateThemeDropdown(reg, id, words)
  PROVE  /\ themeId' \in Ids(n)
         /\ id \in Listed(reg, words) => (themeId' = id /\ ~edited')
  <1>1. CASE Listed(reg, words) = {}
    BY <1>1 DEF populateThemeDropdown
  <1>2. CASE Listed(reg, words) # {}
    <2>1. PICK first \in Listed(reg, words) : /\ id \in Listed(reg, words) => first = id
                                              /\ onThemeDropdownChanged(reg, first)
      BY <1>2 DEF populateThemeDropdown
    <2>2. first \in Ids(n)
      BY <2>1 DEF Listed, RegistryOK
    <2> QED BY <2>1, <2>2 DEF onThemeDropdownChanged, loadThemeToUI
  <1> QED BY <1>1, <1>2

\* The number of a new id is one more than that of the writes at most.
LEMMA NewId ==
  ASSUME ThemesOK, themeWrites < MaxThemeWrites, NEW word \in Words
  PROVE  /\ UniqueId(word) \notin DOMAIN themes /\ UniqueId(word) \notin Builtins
         /\ UniqueId(word) \in Ids(themeWrites + 1)
         /\ UniqueId(word)[1] = word
  <1> DEFINE IsNew(n) == /\ <<word, n>> \notin DOMAIN themes
                         /\ \A k \in 0 .. n - 1 : <<word, k>> \in DOMAIN themes
             T == {n \in Nat : <<word, n>> \notin DOMAIN themes}
             w == themeWrites + 1
  <1>0. themeWrites \in Nat /\ MaxThemeWrites \in Nat /\ w \in Nat /\ w <= MaxThemeWrites
    <2>1. MaxThemeWrites \in Nat
      BY ThemeAssumption
    <2>2. themeWrites \in 0 .. MaxThemeWrites
      BY DEF ThemesOK
    <2> QED BY <2>1, <2>2
  <1>1. <<word, w>> \notin DOMAIN themes
    <2>1. <<word, w>> \notin Ids(themeWrites)
      BY <1>0 DEF Ids
    <2> QED BY <2>1 DEF ThemesOK, RegistryOK
  <1>2. w \in T
    BY <1>0, <1>1
  <1>3. PICK x \in T : \A y \in T : ~(<<y, x>> \in OpToRel(<, Nat))
    BY <1>2, WFMin, NatLessThanWellFounded
  <1>4. x \in Nat /\ x <= w
    <2>1. ASSUME w < x PROVE FALSE
      <3>1. <<w, x>> \in OpToRel(<, Nat)
        BY <1>0, <1>3, <2>1 DEF OpToRel
      <3> QED BY <1>2, <1>3, <3>1
    <2>2. x \in Nat
      OBVIOUS
    <2> QED BY <1>0, <2>1, <2>2
  <1>5. IsNew(x)
    <2>1. ASSUME NEW k \in 0 .. x - 1, <<word, k>> \notin DOMAIN themes PROVE FALSE
      <3>1. k \in T /\ k < x
        BY <1>4, <2>1
      <3>2. <<k, x>> \in OpToRel(<, Nat)
        BY <1>4, <3>1 DEF OpToRel
      <3> QED BY <1>3, <3>1, <3>2
    <2> QED BY <1>3, <2>1
  <1>6. x \in 0 .. MaxThemeWrites + 1
    BY <1>0, <1>4
  <1> DEFINE n == CHOOSE n \in 0 .. MaxThemeWrites + 1 : IsNew(n)
  <1>7. n \in 0 .. MaxThemeWrites + 1 /\ IsNew(n)
    BY <1>5, <1>6
  <1>8. UniqueId(word) = <<word, n>>
    BY DEF UniqueId
  <1> HIDE DEF n
  <1>9. n \in 0 .. w
    <2>1. ASSUME w < n PROVE FALSE
      <3>1. w \in 0 .. n - 1
        BY <1>0, <1>7, <2>1
      <3> QED BY <1>1, <1>7, <3>1
    <2> QED BY <1>0, <1>7, <2>1
  <1>10. <<word, n>> \in Ids(w)
    BY <1>9 DEF Ids
  <1>11. <<word, n>> \notin DOMAIN themes
    BY <1>7
  <1>12. <<word, n>> \notin Builtins
    BY <1>11 DEF ThemesOK, RegistryOK
  <1> QED BY <1>8, <1>10, <1>11, <1>12

\* A theme is built in when it was shipped.
LEMMA BuiltinIs == ThemesOK => (IsBuiltin(themeId) <=> themeId \in Builtins)
  <1>1. \A id : Shipped(id).builtin
    BY DEF Shipped
  <1> QED BY <1>1 DEF ThemesOK, RegistryOK, IsBuiltin

-----------------------------------------------------------------------------
(* The page and the manager, step by step.                                 *)

\* The invariant holds of the program when it starts.
LEMMA ThemesStart == ThemeInit => ThemesOK
  <1> SUFFICES ASSUME ThemeInit PROVE ThemesOK
    OBVIOUS
  <1>1. themeWrites = 0 /\ 0 \in 0 .. MaxThemeWrites
    <2>1. MaxThemeWrites \in Nat
      BY ThemeAssumption
    <2> QED BY <2>1 DEF ThemeInit
  <1>2. FilesOK(themeFiles, 0)
    <2>1. themeFiles = << >> /\ DOMAIN << >> = {}
      BY DEF ThemeInit
    <2>2. DOMAIN themeFiles = {}
      BY <2>1
    <2> QED BY <2>2 DEF FilesOK
  <1>3. RegistryOK(themes, 0)
    BY <1>2, Loading DEF ThemeInit
  <1>4. themeId \in Ids(0)
    <2>1. themeId = <<DefaultWord, 0>> /\ DefaultWord \in BuiltinWords
      BY ThemeAssumption DEF ThemeInit, Default
    <2>2. themeId \in Builtins
      BY <2>1 DEF Builtins
    <2> QED BY <2>2, FirstIds
  <1> QED BY <1>1, <1>2, <1>3, <1>4 DEF ThemesOK

\* A file of an id that no built-in theme has is written, or not, or cut.
LEMMA Writing ==
  ASSUME NEW n, RegistryOK(themes, n), FilesOK(themeFiles, n), NEW id \in Ids(n), id \notin Builtins,
         NEW look, saveUserTheme(id, look)
  PROVE  RegistryOK(themes', n) /\ FilesOK(themeFiles', n)
  <1>1. CASE Saved(id, look)
    BY <1>1, Registered, Filed DEF Saved, registerTheme
  <1>2. CASE NotSaved(id) /\ UNCHANGED themes
    BY <1>2, Filed DEF NotSaved
  <1> QED BY <1>1, <1>2 DEF saveUserTheme

\* A new theme and a copy are saved under an id that was free.
LEMMA Added ==
  ASSUME ThemesOK, Write, NEW word \in GivenWords, NEW look,
         saveUserTheme(duplicateTheme(themeId, word), look),
         populateThemeDropdown(themes', duplicateTheme(themeId, word), search)
  PROVE  ThemesOK'
  <1> DEFINE id == duplicateTheme(themeId, word)
             n == themeWrites + 1
  <1>1. themeWrites \in Nat /\ themeWrites < MaxThemeWrites /\ n \in Nat /\ themeWrites <= n /\ themeWrites' = n
        /\ n \in 0 .. MaxThemeWrites
    <2>1. MaxThemeWrites \in Nat
      BY ThemeAssumption
    <2> QED BY <2>1 DEF Write, ThemesOK
  <1>2. RegistryOK(themes, n) /\ FilesOK(themeFiles, n)
    BY <1>1, MoreIds DEF ThemesOK
  <1>3. id \in Ids(n) /\ id \notin Builtins
    <2>1. word \in Words
      BY Zenon DEF Words
    <2>2. UniqueId(word) \in Ids(n) /\ UniqueId(word) \notin Builtins
      BY <1>1, <2>1, NewId
    <2>3. NoId \in Ids(n) /\ NoId \notin Builtins
      BY <1>1, FirstIds, NoIdIsFree
    <2> QED BY <2>2, <2>3 DEF duplicateTheme
  <1> HIDE DEF id, n
  <1>4. saveUserTheme(id, look) /\ populateThemeDropdown(themes', id, search)
    BY DEF id
  <1>5. RegistryOK(themes', n) /\ FilesOK(themeFiles', n)
    BY <1>2, <1>3, <1>4, Writing
  <1>6. themeId' \in Ids(n)
    BY <1>3, <1>4, <1>5, Populated
  <1> QED BY <1>1, <1>5, <1>6 DEF ThemesOK

\* What the invariant says of the page alone.
LEMMA PageOnly ==
  ASSUME ThemesOK, UNCHANGED <<themes, themeFiles, themeWrites>>, themeId' \in Ids(themeWrites)
  PROVE  ThemesOK'
  BY DEF ThemesOK

\* Save on the page: the theme that goes on is the one applied, a new one when a
\* built-in was edited.
LEMMA Applying ==
  ASSUME ThemesOK, onSaveClicked
  PROVE  /\ ThemesOK'
         /\ \A t \in ThemeTabs : worn'[t].id = themeId'
         /\ edited' => ~themes'[themeId'].builtin
  <1>0. themeWrites \in Nat /\ MaxThemeWrites \in Nat /\ themeWrites <= MaxThemeWrites
    <2>1. MaxThemeWrites \in Nat
      BY ThemeAssumption
    <2> QED BY <2>1 DEF ThemesOK
  <1>1. CASE IsBuiltin(themeId) /\ edited
    <2> DEFINE word == IF Listed(themes, search) = {} THEN CustomWord[DefaultWord] ELSE CustomWord[themeId[1]]
               id == UniqueId(word)
               n == themeWrites + 1
    <2>1. Write
      BY <1>1 DEF onSaveClicked
    <2>2. n \in Nat /\ themeWrites <= n /\ themeWrites' = n /\ n \in 0 .. MaxThemeWrites /\ themeWrites < MaxThemeWrites
      BY <1>0, <2>1 DEF Write
    <2>3. word \in Words
      <3>1. themeId \in Builtins
        BY <1>1, BuiltinIs
      <3>2. themeId[1] \in BuiltinWords
        BY <3>1 DEF Builtins
      <3>3. DefaultWord \in BuiltinWords /\ CustomWord \in [BuiltinWords -> Range(CustomWord)]
        BY ThemeAssumption
      <3>4. word \in Range(CustomWord)
        BY <3>2, <3>3
      <3> HIDE DEF word
      <3> QED BY <3>4, Zenon DEF Words
    <2> HIDE DEF word
    <2>4. id \notin Builtins /\ id \in Ids(n) /\ id[1] = word
      BY <2>2, <2>3, NewId
    <2>5. /\ registerTheme(id, collectThemeFromUI)
          /\ themeFiles' = With(themeFiles, id, collectThemeFromUI) \/ NotSaved(id)
          /\ showTheme(themes', id)
          /\ worn' = [t \in ThemeTabs |-> Applied(themes', id)]
      BY <1>1 DEF onSaveClicked, applyEditedTheme, word
    <2> HIDE DEF id, n
    <2>6. RegistryOK(themes, n) /\ FilesOK(themeFiles, n)
      BY <1>0, <2>2, MoreIds DEF ThemesOK
    <2>7. RegistryOK(themes', n)
      BY <2>4, <2>5, <2>6, Registered DEF registerTheme
    <2>8. FilesOK(themeFiles', n)
      BY <2>4, <2>5, <2>6, Filed DEF NotSaved
    <2>9. id \in DOMAIN themes'
      <3>1. themes' = With(themes, id, [builtin |-> FALSE, look |-> collectThemeFromUI])
        BY <2>5 DEF registerTheme
      <3> QED BY <3>1 DEF With
    <2>10. id \in Listed(themes', Words)
      BY <2>3, <2>4, <2>9 DEF Listed
    <2>11. populateThemeDropdown(themes', id, Words)
      BY <2>5 DEF showTheme
    <2>12. themeId' \in Ids(n) /\ themeId' = id /\ ~edited'
      BY <2>4, <2>7, <2>10, <2>11, Populated
    <2>13. \A t \in ThemeTabs : worn'[t].id = id
      BY <2>5 DEF Applied
    <2> QED BY <2>2, <2>7, <2>8, <2>12, <2>13 DEF ThemesOK
  <1>2. CASE ~(IsBuiltin(themeId) /\ edited)
    <2>1. /\ UNCHANGED <<themeFiles, themeId, edited, themeWrites>>
          /\ IF IsBuiltin(themeId) THEN UNCHANGED themes ELSE registerTheme(themeId, collectThemeFromUI)
          /\ worn' = [t \in ThemeTabs |-> Applied(themes', themeId)]
      BY <1>2 DEF onSaveClicked, applyEditedTheme
    <2>2. \A t \in ThemeTabs : worn'[t].id = themeId
      BY <2>1 DEF Applied
    <2>3. CASE IsBuiltin(themeId)
      BY <1>2, <2>1, <2>2, <2>3 DEF ThemesOK
    <2>4. CASE ~IsBuiltin(themeId)
      <3>1. themeId \notin Builtins /\ themeId \in Ids(themeWrites)
        BY <2>4, BuiltinIs DEF ThemesOK
      <3>2. themes' = With(themes, themeId, [builtin |-> FALSE, look |-> collectThemeFromUI])
        BY <2>1, <2>4 DEF registerTheme
      <3>3. RegistryOK(themes', themeWrites)
        BY <3>1, <3>2, Registered DEF ThemesOK
      <3>4. ~themes'[themeId].builtin
        BY <3>2 DEF With
      <3> QED BY <2>1, <2>2, <3>3, <3>4 DEF ThemesOK
    <2> QED BY <2>3, <2>4
  <1> QED BY <1>1, <1>2

\* Every step of the page, of the tabs and of the program keeps the invariant, and
\* what the page applies is what it goes on with.
LEMMA ThemesStep ==
  ASSUME ThemesOK, [ThemeNext]_themeVars
  PROVE  /\ ThemesOK'
         /\ open /\ open' /\ worn' # worn =>
              /\ \A t \in ThemeTabs : worn'[t].id = themeId'
              /\ edited' => ~themes'[themeId'].builtin
  <1>0. /\ themeWrites \in Nat /\ themeId \in Ids(themeWrites) /\ themeWrites \in 0 .. MaxThemeWrites
        /\ RegistryOK(themes, themeWrites) /\ FilesOK(themeFiles, themeWrites)
    BY DEF ThemesOK
  <1>1. CASE onOpenSettings
    <2>1. Default \in DOMAIN themes
      <3>1. Default \in Builtins
        BY ThemeAssumption DEF Default, Builtins
      <3> QED BY <1>0, <3>1 DEF RegistryOK
    <2>2. PICK id \in DOMAIN themes : onThemeDropdownChanged(themes, id)
      BY <1>1, <2>1 DEF onOpenSettings
    <2>3. themeId' \in Ids(themeWrites)
      BY <1>0, <2>2 DEF RegistryOK, onThemeDropdownChanged
    <2> QED BY <1>1, <2>3, PageOnly DEF onOpenSettings
  <1>2. CASE onCloseClicked
    BY <1>0, <1>2, PageOnly DEF onCloseClicked
  <1>3. CASE onSelectTheme
    <2>1. themeId' \in Ids(themeWrites)
      BY <1>0, <1>3 DEF onSelectTheme, onThemeDropdownChanged, Listed, RegistryOK
    <2> QED BY <1>3, <2>1, PageOnly DEF onSelectTheme
  <1>4. CASE onThemePropertyChanged
    BY <1>0, <1>4, PageOnly DEF onThemePropertyChanged
  <1>5. CASE onThemeFilterChanged
    <2>1. themeId' \in Ids(themeWrites)
      BY <1>0, <1>5, Populated DEF onThemeFilterChanged
    <2> QED BY <1>5, <2>1, PageOnly DEF onThemeFilterChanged
  <1>6. CASE onNewTheme
    <2>1. ThemesOK'
      BY <1>6, Added DEF onNewTheme
    <2> QED BY <1>6, <2>1 DEF onNewTheme
  <1>7. CASE onDuplicateTheme
    <2>1. ThemesOK'
      BY <1>7, Added DEF onDuplicateTheme
    <2> QED BY <1>7, <2>1 DEF onDuplicateTheme
  <1>8. CASE onSaveTheme
    <2> DEFINE n == themeWrites + 1
    <2>1. n \in Nat /\ themeWrites <= n /\ themeWrites' = n /\ n \in 0 .. MaxThemeWrites
      <3>1. MaxThemeWrites \in Nat
        BY ThemeAssumption
      <3> QED BY <1>0, <1>8, <3>1 DEF onSaveTheme, Write
    <2> HIDE DEF n
    <2>2. RegistryOK(themes, n) /\ FilesOK(themeFiles, n) /\ themeId \in Ids(n)
      BY <1>0, <2>1, MoreIds
    <2>3. themeId \notin Builtins
      BY <1>8, BuiltinIs DEF onSaveTheme
    <2>4. RegistryOK(themes', n) /\ FilesOK(themeFiles', n)
      BY <1>8, <2>2, <2>3, Writing DEF onSaveTheme
    <2>5. ThemesOK'
      BY <1>8, <2>1, <2>2, <2>4 DEF onSaveTheme, ThemesOK
    <2> QED BY <1>8, <2>5 DEF onSaveTheme
  <1>9. CASE onResetTheme
    BY <1>0, <1>9, PageOnly DEF onResetTheme
  <1>10. CASE onDeleteTheme
    <2>1. themeId \notin Builtins
      BY <1>10, BuiltinIs DEF onDeleteTheme
    <2>2. RegistryOK(themes', themeWrites)
      BY <1>0, <1>10, <2>1, Removing DEF onDeleteTheme
    <2>3. FilesOK(themeFiles', themeWrites)
      <3>1. DOMAIN Without(themeFiles, themeId) = DOMAIN themeFiles \ {themeId}
        BY WithoutIs, Zenon
      <3> QED BY <1>0, <1>10, <3>1 DEF onDeleteTheme, FilesOK
    <2>4. Default \in Ids(themeWrites)
      <3>1. Default \in Builtins
        BY ThemeAssumption DEF Default, Builtins
      <3> QED BY <1>0, <3>1, FirstIds
    <2>5. themeId' \in Ids(themeWrites)
      BY <1>10, <2>2, <2>4, Populated DEF onDeleteTheme
    <2>6. ThemesOK'
      BY <1>0, <1>10, <2>2, <2>3, <2>5 DEF onDeleteTheme, ThemesOK
    <2> QED BY <1>10, <2>6 DEF onDeleteTheme
  <1>11. CASE onImportTheme
    <2> DEFINE n == themeWrites + 1
    <2>1. n \in Nat /\ themeWrites <= n /\ themeWrites' = n /\ n \in 0 .. MaxThemeWrites /\ themeWrites < MaxThemeWrites
      <3>1. MaxThemeWrites \in Nat
        BY ThemeAssumption
      <3> QED BY <1>0, <1>11, <3>1 DEF onImportTheme, Write
    <2>2. PICK word \in GivenWords, c \in Colours :
            LET id   == UniqueId(word)
                look == [colour |-> c, footer |-> "unset"] IN
            \/ Saved(id, look) /\ populateThemeDropdown(themes', themeId, search)
            \/ NotSaved(id) /\ UNCHANGED <<themes, themeId, shown, edited>>
      BY <1>11 DEF onImportTheme
    <2> DEFINE id == UniqueId(word)
               look == [colour |-> c, footer |-> "unset"]
    <2>3. id \in Ids(n) /\ id \notin Builtins
      <3>1. word \in Words
        BY <2>2, Zenon DEF Words
      <3> QED BY <2>1, <3>1, NewId
    <2>4. \/ Saved(id, look) /\ populateThemeDropdown(themes', themeId, search)
          \/ NotSaved(id) /\ UNCHANGED <<themes, themeId>>
      BY <2>2
    <2> HIDE DEF n, id, look
    <2>5. RegistryOK(themes, n) /\ FilesOK(themeFiles, n) /\ themeId \in Ids(n)
      BY <1>0, <2>1, MoreIds
    <2>6. RegistryOK(themes', n) /\ FilesOK(themeFiles', n)
      BY <2>3, <2>4, <2>5, Writing DEF saveUserTheme
    <2>7. themeId' \in Ids(n)
      BY <2>4, <2>5, <2>6, Populated
    <2>8. ThemesOK'
      BY <2>1, <2>6, <2>7 DEF ThemesOK
    <2> QED BY <1>11, <2>8 DEF onImportTheme
  <1>12. CASE onSaveClicked
    BY <1>12, Applying
  <1>13. CASE onQuickThemeChosen
    <2>1. ThemesOK'
      BY <1>0, <1>13, PageOnly DEF onQuickThemeChosen, page
    <2> QED BY <1>13, <2>1 DEF onQuickThemeChosen
  <1>14. CASE Restart
    <2>1. RegistryOK(themes', themeWrites)
      BY <1>0, <1>14, Loading DEF Restart
    <2>2. ThemesOK'
      BY <1>0, <1>14, <2>1 DEF Restart, ThemesOK
    <2> QED BY <1>14, <2>2 DEF Restart
  <1>15. CASE UNCHANGED themeVars
    BY <1>0, <1>15, PageOnly DEF themeVars, page
  <1> QED BY <1>1, <1>2, <1>3, <1>4, <1>5, <1>6, <1>7, <1>8, <1>9, <1>10, <1>11, <1>12, <1>13, <1>14, <1>15
          DEF ThemeNext

\* Built-in themes stay as they were shipped whatever is edited, imported, saved and
\* deleted, and a theme that was applied is the one the page goes on with
\* (terminal_theme_manager.h:36, onOpenSettings.cpp:31).
THEOREM ThemesStayKept == ThemeSpec => ThemesKept
<1>1. ThemeInit => ThemesOK
  BY ThemesStart
<1>2. ThemesOK /\ [ThemeNext]_themeVars => ThemesOK'
  BY ThemesStep
<1>3. ThemesOK /\ [ThemeNext]_themeVars =>
        [ /\ BuiltinsAsShipped'
          /\ open /\ open' /\ worn' # worn =>
               /\ \A t \in ThemeTabs : worn'[t].id = themeId'
               /\ edited' => ~themes'[themeId'].builtin ]_themeVars
  <2> SUFFICES ASSUME ThemesOK, [ThemeNext]_themeVars
               PROVE  [ /\ BuiltinsAsShipped'
                        /\ open /\ open' /\ worn' # worn =>
                             /\ \A t \in ThemeTabs : worn'[t].id = themeId'
                             /\ edited' => ~themes'[themeId'].builtin ]_themeVars
    OBVIOUS
  <2>1. ThemesOK'
    BY ThemesStep
  <2>2. BuiltinsAsShipped'
    BY <2>1 DEF ThemesOK, RegistryOK, BuiltinsAsShipped
  <2> QED BY <2>2, ThemesStep
<1> QED BY <1>1, <1>2, <1>3, PTL DEF ThemeSpec, ThemesKept
===============================================================================
