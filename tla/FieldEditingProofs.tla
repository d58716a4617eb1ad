------------------------- MODULE FieldEditingProofs -------------------------
(***************************************************************************)
(* Proofs about the fields of a screen, for a screen of every size, format *)
(* tables of any number of fields and every record the host may send: no   *)
(* cell ever belongs to two fields, Restore Screen brings back the fields  *)
(* and the text that Save Screen sent away, and what the operator types is *)
(* in the answer to the AID key.                                           *)
(*                                                                         *)
(* And about the keys that edit them: what the remap dialog and the        *)
(* virtual keyboard show is what is bound, and a recording made under the  *)
(* default mapping does again what its keys did, for all mappings an       *)
(* earlier run or a file may hold and recordings of any length.            *)
(***************************************************************************)
EXTENDS FieldEditing, Keyboard, FiniteSetTheorems, SequenceTheorems, WellFoundedInduction,
        TLAPS

-----------------------------------------------------------------------------
(* Numbers, cells, lists.                                                  *)

\* Induction over a set of numbers.
LEMMA SetInduction ==
  ASSUME NEW T \in SUBSET Nat, 0 \in T, \A n \in T : n + 1 \in T
  PROVE  T = Nat
  <1> SUFFICES ASSUME Nat \ T # {} PROVE FALSE
    OBVIOUS
  <1>1. PICK x \in Nat \ T : \A y \in Nat \ T : ~(<<y, x>> \in OpToRel(<, Nat))
    BY WFMin, NatLessThanWellFounded
  <1>2. x # 0
    OBVIOUS
  <1>3. x - 1 \in Nat /\ x - 1 < x
    BY <1>2
  <1>4. <<x - 1, x>> \in OpToRel(<, Nat)
    BY <1>3 DEF OpToRel
  <1>5. x - 1 \in T
    BY <1>1, <1>3, <1>4
  <1> QED BY <1>3, <1>5

\* A set of numbers has a least one, a bounded set a greatest.
LEMMA LeastOf ==
  ASSUME NEW T \in SUBSET Nat, T # {}
  PROVE  Min(T) \in T
  <1>1. PICK i \in T : \A j \in T : ~(<<j, i>> \in OpToRel(<, Nat))
    BY WFMin, NatLessThanWellFounded
  <1>2. ASSUME NEW j \in T PROVE i <= j
    <2>1. i \in Nat /\ j \in Nat /\ ~(<<j, i>> \in OpToRel(<, Nat))
      BY <1>1
    <2>2. ~(j < i)
      BY <2>1 DEF OpToRel
    <2>3. i \in Nat /\ j \in Nat
      BY <2>1
    <2> QED BY <2>2, <2>3
  <1>3. i \in T /\ \A j \in T : i <= j
    BY <1>1, <1>2
  <1> QED BY <1>3, Zenon DEF Min

\* A bounded set of numbers has a greatest one.
LEMMA GreatestOf ==
  ASSUME NEW m \in Nat, NEW T \in SUBSET (0 .. m), T # {}
  PROVE  Max(T) \in T /\ \A z \in T : z <= Max(T)
  <1> DEFINE U == {x \in Nat : x <= m /\ m - x \in T}
  <1>1. PICK y \in T : TRUE
    OBVIOUS
  <1>2. y \in 0 .. m /\ m - y \in Nat /\ m - y <= m /\ m - (m - y) = y
    OBVIOUS
  <1>3. m - y \in U
    BY <1>2
  <1>4. U \in SUBSET Nat /\ U # {}
    BY <1>3
  <1> HIDE DEF U
  <1>5. PICK i \in U : \A j \in U : ~(<<j, i>> \in OpToRel(<, Nat))
    BY <1>4, WFMin, NatLessThanWellFounded
  <1>6. ASSUME NEW z \in T PROVE m - i >= z
    <2>1. z \in 0 .. m /\ m - z \in Nat /\ m - z <= m /\ m - (m - z) = z
      OBVIOUS
    <2>2. m - z \in U /\ i \in Nat
      BY <1>4, <2>1 DEF U
    <2>3. ~(m - z < i)
      BY <1>5, <2>1, <2>2 DEF OpToRel
    <2> QED BY <2>1, <2>2, <2>3
  <1>7. m - i \in T
    BY DEF U
  <1>8. PICK n : n = m - i
    OBVIOUS
  <1>9. n \in T /\ \A z \in T : n >= z
    BY <1>6, <1>7, <1>8
  <1>10. Max(T) \in T /\ \A z \in T : Max(T) >= z
    BY <1>9, Zenon DEF Max
  <1>11. \A z \in T : z \in Nat
    OBVIOUS
  <1> QED BY <1>10, <1>11

\* There is a cell, and the first one of the last row.
LEMMA SizeIs ==
  /\ Size \in Nat /\ Size >= 1 /\ 0 \in Cell /\ Cell \subseteq Nat
  /\ (Rows - 1) * Cols \in Cell /\ \A c \in Cell : c < Size /\ CellAfter(c) \in Cell
  <1>1. Rows \in Nat /\ Rows >= 1 /\ Cols \in Nat /\ Cols >= 1
    BY SizeAssumption
  <1>2. Rows * Cols \in Nat /\ (Rows - 1) * Cols \in Nat
    BY <1>1
  <1>3. (Rows - 1) * Cols = Rows * Cols - Cols
    BY <1>1
  <1>4. Size \in Nat /\ Size >= 1
    BY <1>1, <1>2, <1>3 DEF Size
  <1>5. (Rows - 1) * Cols \in 0 .. Size - 1
    BY <1>1, <1>2, <1>3 DEF Size
  <1> QED BY <1>4, <1>5 DEF Cell, CellAfter

\* The list after n addresses were looked at.
AmongUpTo(g, list, A, n) ==
  /\ g = [i \in 0 .. n |-> g[i]]
  /\ g[0] = << >>
  /\ \A i \in 1 .. n : g[i] = IF list[i] \in A THEN Append(g[i - 1], list[i]) ELSE g[i - 1]

\* The recursive function of Among exists,
LEMMA AmongExists ==
  ASSUME NEW list, NEW A, Len(list) \in Nat
  PROVE  \E g : AmongUpTo(g, list, A, Len(list))
  <1> DEFINE T == {n \in Nat : \E g : AmongUpTo(g, list, A, n)}
  <1>1. 0 \in T
    <2>1. AmongUpTo([i \in 0 .. 0 |-> << >>], list, A, 0)
      BY DEF AmongUpTo
    <2> QED BY <2>1
  <1>2. ASSUME NEW n \in T PROVE n + 1 \in T
    <2>1. n \in Nat
      OBVIOUS
    <2>2. PICK g : AmongUpTo(g, list, A, n)
      OBVIOUS
    <2>0. PICK last : last = IF list[n + 1] \in A THEN Append(g[n], list[n + 1]) ELSE g[n]
      OBVIOUS
    <2> DEFINE h == [i \in 0 .. (n + 1) |-> IF i <= n THEN g[i] ELSE last]
    <2>3. /\ h = [i \in 0 .. (n + 1) |-> h[i]]
          /\ h[n + 1] = last
          /\ \A i \in 0 .. n : h[i] = g[i]
      BY <2>1
    <2> HIDE DEF h
    <2>4. h[0] = << >>
      <3>1. 0 \in 0 .. n
        BY <2>1
      <3>2. g[0] = << >>
        BY <2>2 DEF AmongUpTo
      <3> QED BY <2>3, <3>1, <3>2
    <2>5. ASSUME NEW i \in 1 .. (n + 1)
          PROVE  h[i] = IF list[i] \in A THEN Append(h[i - 1], list[i]) ELSE h[i - 1]
      <3>1. CASE i = n + 1
        <4>0. n \in 0 .. n
          BY <2>1
        <4>1. i - 1 = n /\ h[n] = g[n]
          BY <2>1, <2>3, <3>1, <4>0
        <4> QED BY <2>0, <2>3, <3>1, <4>1
      <3>2. CASE i # n + 1
        <4>1. i \in 1 .. n /\ i \in 0 .. n /\ i - 1 \in 0 .. n
          BY <2>1, <3>2
        <4> QED BY <2>2, <2>3, <4>1 DEF AmongUpTo
      <3> QED BY <3>1, <3>2
    <2>6. AmongUpTo(h, list, A, n + 1)
      BY <2>3, <2>4, <2>5 DEF AmongUpTo
    <2> QED BY <2>1, <2>6
  <1>3. T \in SUBSET Nat
    OBVIOUS
  <1> HIDE DEF T
  <1>4. T = Nat
    BY <1>1, <1>2, <1>3, SetInduction
  <1> QED BY <1>4 DEF T

\* and its stages are those of AmongUpTo.
LEMMA AmongStages ==
  ASSUME NEW list, NEW A, Len(list) \in Nat
  PROVE  \E g : AmongUpTo(g, list, A, Len(list)) /\ Among(list, A) = g[Len(list)]
  <1> DEFINE Made(f) == [n \in 0 .. Len(list) |->
                           IF n = 0 THEN << >>
                           ELSE IF list[n] \in A THEN Append(f[n - 1], list[n]) ELSE f[n - 1]]
             among == CHOOSE f : f = Made(f)
  <1>1. PICK g : AmongUpTo(g, list, A, Len(list))
    BY AmongExists
  <1>2. g = Made(g)
    <2>1. \A i \in 0 .. Len(list) : g[i] = Made(g)[i]
      BY <1>1 DEF AmongUpTo
    <2> QED BY <1>1, <2>1 DEF AmongUpTo
  <1>3. among = Made(among)
    BY <1>2
  <1>4. Among(list, A) = among[Len(list)]
    BY DEF Among
  <1> HIDE DEF among
  <1>5. among[0] = << >> /\ among = [i \in 0 .. Len(list) |-> among[i]]
    BY <1>3
  <1>6. \A i \in 1 .. Len(list) : among[i] = IF list[i] \in A THEN Append(among[i - 1], list[i])
                                            ELSE among[i - 1]
    <2>1. \A i \in 1 .. Len(list) : i \in 0 .. Len(list) /\ i # 0
      OBVIOUS
    <2>2. \A i \in 0 .. Len(list) :
            i # 0 => among[i] = IF list[i] \in A THEN Append(among[i - 1], list[i]) ELSE among[i - 1]
      BY <1>3
    <2> QED BY <2>1, <2>2
  <1>7. AmongUpTo(among, list, A, Len(list))
    BY <1>5, <1>6 DEF AmongUpTo
  <1> QED BY <1>4, <1>7

\* A list names each address of a set once.
Lists(list, A) ==
  /\ list \in Seq(Cell)
  /\ \A i \in 1 .. Len(list) : list[i] \in A
  /\ \A a \in A : \E i \in 1 .. Len(list) : list[i] = a
  /\ \A i, j \in 1 .. Len(list) : list[i] = list[j] => i = j

\* The stages, one by one: what of the list is in the set, in the list's order.
LEMMA AmongOf ==
  ASSUME NEW list, NEW A, NEW K, K \subseteq A, Lists(list, A)
  PROVE  Lists(Among(list, K), K)
  <1> DEFINE m == Len(list)
             Stage(h, n) == /\ h \in Seq(Cell)
                            /\ \A i \in 1 .. Len(h) : h[i] \in K /\ \E k \in 1 .. n : list[k] = h[i]
                            /\ \A k \in 1 .. n : list[k] \in K => \E i \in 1 .. Len(h) : h[i] = list[k]
                            /\ \A i, j \in 1 .. Len(h) : h[i] = h[j] => i = j
  <1>1. list \in Seq(Cell) /\ m \in Nat
    BY DEF Lists
  <1>2. PICK g : AmongUpTo(g, list, K, m) /\ Among(list, K) = g[m]
    BY <1>1, AmongStages
  <1> DEFINE T == {n \in Nat : n <= m => Stage(g[n], n)}
  <1>3. 0 \in T
    <2>1. g[0] = << >>
      BY <1>2 DEF AmongUpTo
    <2>2. Len(<< >>) = 0 /\ << >> \in Seq(Cell) /\ 1 .. 0 = {}
      BY EmptySeq
    <2>3. Stage(<< >>, 0)
      BY <2>2
    <2> HIDE DEF Stage
    <2> QED BY <2>1, <2>3
  <1>4. ASSUME NEW n \in T PROVE n + 1 \in T
    <2> SUFFICES ASSUME n + 1 <= m PROVE Stage(g[n + 1], n + 1)
      OBVIOUS
    <2>0. n \in Nat /\ n + 1 \in 1 .. m /\ (n + 1) - 1 = n
      BY <1>1
    <2>1. n \in Nat /\ n + 1 \in 1 .. m /\ (n + 1) - 1 = n /\ Stage(g[n], n)
      <3>1. n <= m
        BY <1>1, <2>0
      <3> HIDE DEF Stage
      <3> QED BY <2>0, <3>1
    <2>2. g[n + 1] = IF list[n + 1] \in K THEN Append(g[n], list[n + 1]) ELSE g[n]
      BY <1>2, <2>1 DEF AmongUpTo
    <2> DEFINE h == g[n]
               a == list[n + 1]
               e == Append(h, a)
    <2>3. /\ h \in Seq(Cell) /\ Len(h) \in Nat
          /\ \A i \in 1 .. Len(h) : h[i] \in K /\ \E k \in 1 .. n : list[k] = h[i]
          /\ \A k \in 1 .. n : list[k] \in K => \E i \in 1 .. Len(h) : h[i] = list[k]
          /\ \A i, j \in 1 .. Len(h) : h[i] = h[j] => i = j
      BY <2>1
    <2>4. \A k \in 1 .. n + 1 : k \in 1 .. n \/ k = n + 1
      BY <2>1
    <2>5. \A k \in 1 .. n : k \in 1 .. n + 1 /\ k \in 1 .. m /\ k # n + 1
      BY <1>1, <2>1
    <2> HIDE DEF h
    <2>6. CASE a \notin K
      <3>1. g[n + 1] = h
        BY <2>2, <2>6 DEF h
      <3>2. Stage(h, n + 1)
        BY <2>3, <2>4, <2>5, <2>6
      <3> HIDE DEF Stage
      <3> QED BY <3>1, <3>2
    <2>7. CASE a \in K
      <3>0. a \in Cell
        BY <1>1, <2>1
      <3>1. g[n + 1] = e
        BY <2>2, <2>7 DEF h
      <3>2. /\ e \in Seq(Cell) /\ Len(e) = Len(h) + 1 /\ e[Len(h) + 1] = a
            /\ \A i \in 1 .. Len(h) : e[i] = h[i]
        BY <2>3, <3>0, AppendProperties
      <3> HIDE DEF e
      <3>3. \A i \in 1 .. Len(h) + 1 : i \in 1 .. Len(h) \/ i = Len(h) + 1
        BY <2>3
      <3>4. \A i \in 1 .. Len(h) : i \in 1 .. Len(h) + 1
        BY <2>3
      <3>5. \A i \in 1 .. Len(h) : h[i] # a
        BY <2>1, <2>3, <2>5 DEF Lists
      <3>6. \A i \in 1 .. Len(e) : e[i] \in K /\ \E k \in 1 .. n + 1 : list[k] = e[i]
        <4>1. \A i \in 1 .. Len(h) : e[i] \in K /\ \E k \in 1 .. n + 1 : list[k] = e[i]
          <5> SUFFICES ASSUME NEW i \in 1 .. Len(h)
                       PROVE  e[i] \in K /\ \E k \in 1 .. n + 1 : list[k] = e[i]
            OBVIOUS
          <5>1. e[i] = h[i] /\ h[i] \in K
            BY <2>3, <3>2
          <5>2. PICK k \in 1 .. n : list[k] = h[i]
            BY <2>3
          <5>3. k \in 1 .. n + 1
            BY <2>5
          <5> QED BY <5>1, <5>2, <5>3
        <4>2. n + 1 \in 1 .. n + 1 /\ e[Len(h) + 1] = list[n + 1] /\ list[n + 1] \in K
          BY <2>0, <2>7, <3>2
        <4> QED BY <3>2, <3>3, <4>1, <4>2
      <3>7. Len(h) + 1 \in 1 .. Len(h) + 1
        BY <2>3
      <3>8. \A k \in 1 .. n + 1 : list[k] \in K => \E i \in 1 .. Len(e) : e[i] = list[k]
        BY <2>3, <2>4, <3>2, <3>4, <3>7
      <3>9. \A i, j \in 1 .. Len(e) : e[i] = e[j] => i = j
        BY <2>3, <3>2, <3>3, <3>5
      <3>10. Stage(e, n + 1)
        BY <3>2, <3>6, <3>8, <3>9
      <3> HIDE DEF Stage
      <3> QED BY <3>1, <3>10
    <2> QED BY <2>6, <2>7
  <1>5. T \in SUBSET Nat
    OBVIOUS
  <1> HIDE DEF T
  <1>6. T = Nat
    BY <1>3, <1>4, <1>5, SetInduction
  <1>7. Stage(g[m], m)
    BY <1>1, <1>6 DEF T
  <1> QED BY <1>2, <1>7 DEF Lists

\* A list whose addresses are all in the set stays as it is.
LEMMA AmongAll ==
  ASSUME NEW list \in Seq(Cell), NEW A, \A i \in 1 .. Len(list) : list[i] \in A
  PROVE  Among(list, A) = list
  <1> DEFINE m == Len(list)
             Stage(h, n) == /\ h \in Seq(Cell) /\ Len(h) = n
                            /\ \A i \in 1 .. n : h[i] = list[i]
  <1>1. m \in Nat
    OBVIOUS
  <1>2. PICK g : AmongUpTo(g, list, A, m) /\ Among(list, A) = g[m]
    BY <1>1, AmongStages
  <1> DEFINE T == {n \in Nat : n <= m => Stage(g[n], n)}
  <1>3. 0 \in T
    <2>1. g[0] = << >>
      BY <1>2 DEF AmongUpTo
    <2>2. Len(<< >>) = 0 /\ << >> \in Seq(Cell) /\ 1 .. 0 = {}
      BY EmptySeq
    <2>3. Stage(<< >>, 0)
      BY <2>2
    <2> HIDE DEF Stage
    <2> QED BY <2>1, <2>3
  <1>4. ASSUME NEW n \in T PROVE n + 1 \in T
    <2> SUFFICES ASSUME n + 1 <= m PROVE Stage(g[n + 1], n + 1)
      OBVIOUS
    <2>0. n \in Nat /\ n + 1 \in 1 .. m /\ (n + 1) - 1 = n
      BY <1>1
    <2>1. n \in Nat /\ n + 1 \in 1 .. m /\ (n + 1) - 1 = n /\ Stage(g[n], n)
      <3>1. n <= m
        BY <1>1, <2>0
      <3> HIDE DEF Stage
      <3> QED BY <2>0, <3>1
    <2>2. g[n + 1] = Append(g[n], list[n + 1]) /\ list[n + 1] \in Cell
      <3>1. list[n + 1] \in A /\ list[n + 1] \in Cell
        BY <2>0
      <3>2. g[n + 1] = IF list[n + 1] \in A THEN Append(g[n], list[n + 1]) ELSE g[n]
        BY <1>2, <2>0 DEF AmongUpTo
      <3> QED BY <3>1, <3>2
    <2> DEFINE h == g[n]
               e == Append(h, list[n + 1])
    <2>3. h \in Seq(Cell) /\ Len(h) = n /\ \A i \in 1 .. n : h[i] = list[i]
      BY <2>1
    <2> HIDE DEF h
    <2>4. /\ e \in Seq(Cell) /\ Len(e) = n + 1 /\ e[n + 1] = list[n + 1]
          /\ \A i \in 1 .. n : e[i] = h[i]
      BY <2>2, <2>3, AppendProperties
    <2> HIDE DEF e
    <2>5. \A i \in 1 .. n + 1 : i \in 1 .. n \/ i = n + 1
      BY <2>1
    <2>6. Stage(e, n + 1)
      BY <2>3, <2>4, <2>5
    <2> HIDE DEF Stage
    <2> QED BY <2>2, <2>6 DEF e, h
  <1>5. T \in SUBSET Nat
    OBVIOUS
  <1> HIDE DEF T
  <1>6. T = Nat
    BY <1>3, <1>4, <1>5, SetInduction
  <1>7. Stage(g[m], m)
    BY <1>1, <1>6 DEF T
  <1>8. g[m] \in Seq(Cell) /\ Len(g[m]) = Len(list) /\ \A i \in 1 .. Len(list) : g[m][i] = list[i]
    BY <1>7
  <1>9. g[m] = list
    BY <1>8, SeqEqual
  <1> QED BY <1>2, <1>9


-----------------------------------------------------------------------------
(* Screens.                                                                *)

Tables == UNION {[A -> Field] : A \in SUBSET (Cell \ {0})}
Screen == [chars : [Cell -> Character], attr : [Cell -> Attribute], fields : Tables,
           order : Seq(Cell), cursor : Cell]

\* The list names the fields, and no cell is in two of them.
ScreenOK(s) == s \in Screen /\ Lists(s.order, DOMAIN s.fields) /\ Disjoint(s)

\* What is known of a field of a screen.
LEMMA TableTypes ==
  ASSUME NEW s \in Screen, NEW a \in DOMAIN s.fields
  PROVE  /\ a \in Cell /\ a \in Nat /\ a >= 1 /\ s.fields[a] \in Field
         /\ s.fields[a].length \in Nat /\ s.fields[a].length >= 1
         /\ CellsOf(s, a) = a .. a + s.fields[a].length - 1
         /\ EndOf(s, a) = a + s.fields[a].length - 1
  <1>1. s.fields \in Tables
    BY DEF Screen
  <1>2. PICK A \in SUBSET (Cell \ {0}) : s.fields \in [A -> Field]
    BY <1>1 DEF Tables
  <1>3. a \in Cell /\ a # 0 /\ s.fields[a] \in Field
    BY <1>2
  <1>4. s.fields[a].length \in 1 .. Size
    BY <1>3 DEF Field
  <1>5. a \in Nat /\ a >= 1 /\ s.fields[a].length \in Nat /\ s.fields[a].length >= 1
    BY <1>3, <1>4, SizeIs
  <1> QED BY <1>3, <1>5 DEF CellsOf, EndOf

\* A table of fields at other addresses than 0.
LEMMA TableIs ==
  ASSUME NEW A \in SUBSET (Cell \ {0}), NEW F, F \in [A -> Field]
  PROVE  F \in Tables
  BY DEF Tables

\* The format table is a function from addresses to fields.
LEMMA TableOf ==
  ASSUME NEW s \in Screen
  PROVE  DOMAIN s.fields \in SUBSET (Cell \ {0}) /\ s.fields \in [DOMAIN s.fields -> Field]
  <1>1. s.fields \in Tables
    BY DEF Screen
  <1>2. PICK A \in SUBSET (Cell \ {0}) : s.fields \in [A -> Field]
    BY <1>1 DEF Tables
  <1> QED BY <1>2

\* The operations that leave the format table.
LEMMA SameTable ==
  ASSUME NEW s, ScreenOK(s), NEW t \in Screen, t.fields = s.fields, t.order = s.order
  PROVE  ScreenOK(t)
  BY DEF ScreenOK, Disjoint, CellsOf, EndOf

\* The cursor moves.
LEMMA MovedKeeps ==
  ASSUME NEW s, ScreenOK(s), NEW c \in Cell
  PROVE  ScreenOK([s EXCEPT !.cursor = c])
  <1>1. PICK t : t = [s EXCEPT !.cursor = c]
    OBVIOUS
  <1>2. t \in Screen /\ t.fields = s.fields /\ t.order = s.order
    BY <1>1 DEF ScreenOK, Screen
  <1> QED BY <1>1, <1>2, SameTable

\* Characters and attributes change.
LEMMA RedrawnKeeps ==
  ASSUME NEW s, ScreenOK(s), NEW f \in [Cell -> Character], NEW g \in [Cell -> Attribute]
  PROVE  ScreenOK([s EXCEPT !.chars = f, !.attr = g])
  <1>1. PICK t : t = [s EXCEPT !.chars = f, !.attr = g]
    OBVIOUS
  <1>2. t \in Screen /\ t.fields = s.fields /\ t.order = s.order
    BY <1>1 DEF ScreenOK, Screen
  <1> QED BY <1>1, <1>2, SameTable

\* Characters change.
LEMMA WrittenKeeps ==
  ASSUME NEW s, ScreenOK(s), NEW f \in [Cell -> Character]
  PROVE  ScreenOK([s EXCEPT !.chars = f])
  <1>1. PICK t : t = [s EXCEPT !.chars = f]
    OBVIOUS
  <1>2. t \in Screen /\ t.fields = s.fields /\ t.order = s.order
    BY <1>1 DEF ScreenOK, Screen
  <1> QED BY <1>1, <1>2, SameTable

\* Some cells get new characters.
LEMMA PutKeeps ==
  ASSUME NEW s, ScreenOK(s), NEW cells, NEW new, \A c \in Cell \cap cells : new[c] \in Character
  PROVE  ScreenOK(Put(s, cells, new))
  <1>1. s.chars \in [Cell -> Character]
    BY DEF ScreenOK, Screen
  <1>2. PICK f : f = [c \in Cell |-> IF c \in cells THEN new[c] ELSE s.chars[c]]
    OBVIOUS
  <1>3. f \in [Cell -> Character]
    BY <1>1, <1>2
  <1>4. Put(s, cells, new) = [s EXCEPT !.chars = f]
    BY <1>2 DEF Put
  <1> QED BY <1>3, <1>4, WrittenKeeps

\* One cell gets a new character.
LEMMA CharKeeps ==
  ASSUME NEW s, ScreenOK(s), NEW c, NEW ch, c \in Cell => ch \in Character
  PROVE  ScreenOK([s EXCEPT !.chars[c] = ch])
  <1>1. s.chars \in [Cell -> Character]
    BY DEF ScreenOK, Screen
  <1>2. PICK f : f = [s.chars EXCEPT ![c] = ch]
    OBVIOUS
  <1>3. f \in [Cell -> Character]
    BY <1>1, <1>2
  <1>4. [s EXCEPT !.chars[c] = ch] = [s EXCEPT !.chars = f]
    BY <1>2 DEF ScreenOK, Screen
  <1> QED BY <1>3, <1>4, WrittenKeeps

\* The operations that leave the fields where they are.
LEMMA RemarkedKeeps ==
  ASSUME NEW s, ScreenOK(s), NEW F \in [DOMAIN s.fields -> Field],
         \A a \in DOMAIN s.fields : F[a].length = s.fields[a].length
  PROVE  ScreenOK([s EXCEPT !.fields = F])
  <1>1. PICK t : t = [s EXCEPT !.fields = F]
    OBVIOUS
  <1>2. F \in Tables
    BY TableOf, TableIs DEF ScreenOK
  <1>3. t \in Screen /\ t.fields = F /\ t.order = s.order
    BY <1>1, <1>2 DEF ScreenOK, Screen
  <1>4. DOMAIN t.fields = DOMAIN s.fields
    BY <1>3
  <1>5. Disjoint(t)
    BY <1>3, <1>4 DEF ScreenOK, Disjoint, CellsOf, EndOf
  <1> QED BY <1>1, <1>3, <1>4, <1>5 DEF ScreenOK

\* The field a cell is in.
LEMMA FieldAtIs ==
  ASSUME NEW s, NEW c, Holding(s, c) # {}
  PROVE  FieldAt(s, c) \in DOMAIN s.fields /\ c \in CellsOf(s, FieldAt(s, c))
  BY DEF FieldAt, Holding

\* A field is marked as modified.
LEMMA MarkKeeps ==
  ASSUME NEW s, ScreenOK(s), NEW c
  PROVE  ScreenOK(MarkModified(s, c))
  <1>1. CASE Holding(s, c) = {}
    BY <1>1 DEF MarkModified
  <1>2. CASE Holding(s, c) # {}
    <2>1. PICK a : a = FieldAt(s, c)
      OBVIOUS
    <2>2. a \in DOMAIN s.fields
      BY <1>2, <2>1, FieldAtIs
    <2>3. PICK F : F = [s.fields EXCEPT ![a].modified = TRUE]
      OBVIOUS
    <2>4. s.fields \in [DOMAIN s.fields -> Field]
      BY TableOf DEF ScreenOK
    <2>5. /\ F \in [DOMAIN s.fields -> Field]
          /\ \A b \in DOMAIN s.fields : F[b].length = s.fields[b].length
      BY <2>2, <2>3, <2>4 DEF Field
    <2>6. MarkModified(s, c) = [s EXCEPT !.fields = F]
      BY <1>2, <2>1, <2>3 DEF MarkModified, ScreenOK, Screen
    <2> QED BY <2>5, <2>6, RemarkedKeeps
  <1> QED BY <1>1, <1>2

\* Marking changes neither characters nor places.
LEMMA MarkLeaves ==
  ASSUME NEW s, ScreenOK(s), NEW c
  PROVE  LET t == MarkModified(s, c) IN
         /\ t.chars = s.chars /\ t.cursor = s.cursor /\ DOMAIN t.fields = DOMAIN s.fields
         /\ \A a \in DOMAIN s.fields : CellsOf(t, a) = CellsOf(s, a)
  BY DEF ScreenOK, Screen, MarkModified, CellsOf, EndOf


-----------------------------------------------------------------------------
(* New fields.                                                             *)

\* Two fields share no cell exactly when neither starts in the other.
LEMMA OverlapIs ==
  ASSUME NEW a \in Nat, NEW b \in Nat, NEW m \in Nat, NEW n \in Nat, m >= 1, n >= 1
  PROVE  (a .. a + m - 1) \cap (b .. b + n - 1) = {} <=> ~(a < b + n /\ a + m - 1 >= b)
  <1>1. CASE a < b + n /\ a + m - 1 >= b
    <2>1. CASE a >= b
      <3>1. a \in (a .. a + m - 1) \cap (b .. b + n - 1)
        BY <1>1, <2>1
      <3> QED BY <1>1, <3>1
    <2>2. CASE ~(a >= b)
      <3>1. b \in (a .. a + m - 1) \cap (b .. b + n - 1)
        BY <1>1, <2>2
      <3> QED BY <1>1, <3>1
    <2> QED BY <2>1, <2>2
  <1>2. CASE ~(a < b + n /\ a + m - 1 >= b)
    OBVIOUS
  <1> QED BY <1>1, <1>2

\* A screen t that is s with a new field in place of the ones it overlaps.
HasNew(s, t, start, new) ==
  /\ t \in Screen /\ t.chars = s.chars /\ t.cursor = s.cursor
  /\ LET kept == DOMAIN s.fields \ Overlapped(s, start, new.length) IN
     /\ DOMAIN t.fields = kept \cup {start}
     /\ t.fields[start] = new
     /\ \A a \in kept : a # start => t.fields[a] = s.fields[a]
     /\ t.order = Append(Among(s.order, kept), start)

\* The format table after setField.
LEMMA SetFieldTable ==
  ASSUME NEW s, ScreenOK(s), NEW start \in Cell \ {0}, NEW length \in 1 .. Size,
         NEW protected \in BOOLEAN, NEW kind \in FieldKind
  PROVE  HasNew(s, SetField(s, start, length, protected, kind), start,
                [length |-> length, protected |-> protected, modified |-> FALSE, kind |-> kind])
  <1> DEFINE kept == DOMAIN s.fields \ Overlapped(s, start, length)
  <1>0. s \in Screen
    BY DEF ScreenOK
  <1>1. PICK new : new = [length |-> length, protected |-> protected, modified |-> FALSE,
                          kind |-> kind]
    OBVIOUS
  <1>2. new \in Field
    BY <1>1 DEF Field
  <1>3. PICK F : F = [a \in kept \cup {start} |-> IF a = start THEN new ELSE s.fields[a]]
    OBVIOUS
  <1>4. /\ DOMAIN s.fields \in SUBSET (Cell \ {0}) /\ s.fields \in [DOMAIN s.fields -> Field]
    BY <1>0, TableOf
  <1>5. kept \cup {start} \in SUBSET (Cell \ {0}) /\ F \in [kept \cup {start} -> Field]
    BY <1>2, <1>3, <1>4
  <1>6. F \in Tables
    BY <1>5, TableIs
  <1>7. Append(Among(s.order, kept), start) \in Seq(Cell)
    <2>1. Lists(Among(s.order, kept), kept)
      BY AmongOf DEF ScreenOK
    <2> QED BY <2>1 DEF Lists
  <1>8. PICK g : g = [c \in Cell |-> IF c \notin start .. start + length - 1 THEN s.attr[c]
                                     ELSE IF protected THEN "protected" ELSE "open"]
    OBVIOUS
  <1>9. g \in [Cell -> Attribute]
    BY <1>0, <1>8 DEF Screen, Attribute
  <1>10. PICK o : o = Append(Among(s.order, kept), start)
    OBVIOUS
  <1>11. SetField(s, start, length, protected, kind) = [s EXCEPT !.fields = F, !.order = o, !.attr = g]
    <2>1. s = [chars |-> s.chars, attr |-> s.attr, fields |-> s.fields, order |-> s.order,
               cursor |-> s.cursor]
      BY <1>0 DEF Screen
    <2> QED BY <1>1, <1>3, <1>8, <1>10, <2>1, Zenon DEF SetField
  <1>12. PICK t : t = [s EXCEPT !.fields = F, !.order = o, !.attr = g]
    OBVIOUS
  <1>13. /\ t \in Screen /\ t.chars = s.chars /\ t.cursor = s.cursor /\ t.fields = F /\ t.order = o
    BY <1>0, <1>6, <1>7, <1>9, <1>10, <1>12 DEF Screen
  <1>14. /\ DOMAIN F = kept \cup {start} /\ F[start] = new
         /\ \A a \in kept : a # start => F[a] = s.fields[a]
    BY <1>3
  <1>15. new.length = length
    BY <1>1
  <1>16. HasNew(s, t, start, new)
    BY <1>10, <1>13, <1>14, <1>15 DEF HasNew
  <1> QED BY <1>1, <1>11, <1>12, <1>16

\* A new field takes every cell it claims from the fields that had it, so no
\* cell is left in two; the list names it last (setField).
THEOREM SetFieldDisjoint ==
  ASSUME NEW s, ScreenOK(s), NEW start \in Cell \ {0}, NEW length \in 1 .. Size,
         NEW protected \in BOOLEAN, NEW kind \in FieldKind
  PROVE  ScreenOK(SetField(s, start, length, protected, kind))
  <1>0. PICK t, new, kept : /\ t = SetField(s, start, length, protected, kind)
                            /\ new = [length |-> length, protected |-> protected,
                                      modified |-> FALSE, kind |-> kind]
                            /\ kept = DOMAIN s.fields \ Overlapped(s, start, length)
    OBVIOUS
  <1>1. /\ t \in Screen /\ DOMAIN t.fields = kept \cup {start} /\ t.fields[start].length = length
        /\ \A a \in kept : a # start => t.fields[a] = s.fields[a]
        /\ t.order = Append(Among(s.order, kept), start)
    <2>1. HasNew(s, t, start, new)
      BY <1>0, SetFieldTable
    <2>2. new.length = length
      BY <1>0
    <2> QED BY <1>0, <2>1, <2>2 DEF HasNew
  <1>2. s \in Screen /\ start \in Nat /\ start >= 1 /\ length \in Nat /\ length >= 1
    BY SizeIs DEF ScreenOK
  <1>3. CellsOf(t, start) = start .. start + length - 1
    BY <1>1 DEF CellsOf, EndOf
  <1>4. ASSUME NEW a \in kept
        PROVE  /\ a # start /\ CellsOf(t, a) = CellsOf(s, a)
               /\ CellsOf(t, a) \cap CellsOf(t, start) = {}
    <2>1. PICK n : n = s.fields[a].length
      OBVIOUS
    <2>2. /\ a \in Nat /\ n \in Nat /\ n >= 1 /\ CellsOf(s, a) = a .. a + n - 1
          /\ EndOf(s, a) = a + n - 1
      BY <1>0, <1>2, <2>1, TableTypes
    <2>3. ~(a < start + length /\ a + n - 1 >= start)
      BY <1>0, <2>2 DEF Overlapped
    <2>4. a # start
      BY <1>2, <2>2, <2>3
    <2>5. CellsOf(t, a) = CellsOf(s, a)
      BY <1>1, <2>4 DEF CellsOf, EndOf
    <2>6. (a .. a + n - 1) \cap (start .. start + length - 1) = {}
      BY <1>2, <2>2, <2>3, OverlapIs
    <2> QED BY <1>3, <2>2, <2>4, <2>5, <2>6
  <1>5. Disjoint(t)
    <2> SUFFICES ASSUME NEW a \in kept \cup {start}, NEW b \in kept \cup {start}, a # b
                 PROVE  CellsOf(t, a) \cap CellsOf(t, b) = {}
      BY <1>1 DEF Disjoint
    <2>1. CASE a = start
      BY <1>4, <2>1
    <2>2. CASE b = start
      BY <1>4, <2>2
    <2>3. CASE a # start /\ b # start
      <3>1. a \in kept /\ b \in kept
        BY <2>3
      <3>2. CellsOf(s, a) \cap CellsOf(s, b) = {}
        BY <1>0, <3>1 DEF ScreenOK, Disjoint
      <3> QED BY <1>4, <3>1, <3>2
    <2> QED BY <2>1, <2>2, <2>3
  <1>6. Lists(t.order, kept \cup {start})
    <2>1. PICK o : o = Among(s.order, kept)
      OBVIOUS
    <2>2. Lists(o, kept)
      BY <1>0, <2>1, AmongOf DEF ScreenOK
    <2>3. o \in Seq(Cell) /\ Len(o) \in Nat
      BY <2>2 DEF Lists
    <2>4. /\ t.order = Append(o, start) /\ t.order \in Seq(Cell) /\ Len(t.order) = Len(o) + 1
          /\ t.order[Len(o) + 1] = start /\ \A i \in 1 .. Len(o) : t.order[i] = o[i]
      <3>1. start \in Cell /\ t.order = Append(o, start)
        BY <1>1, <2>1
      <3> QED BY <2>3, <3>1, AppendProperties
    <2>5. \A i \in 1 .. Len(o) + 1 : i \in 1 .. Len(o) \/ i = Len(o) + 1
      BY <2>3
    <2>6. /\ Len(o) + 1 \in 1 .. Len(o) + 1
          /\ \A i \in 1 .. Len(o) : i \in 1 .. Len(o) + 1 /\ o[i] \in kept /\ o[i] # start
      BY <1>4, <2>2, <2>3 DEF Lists
    <2>7. \A i \in 1 .. Len(t.order) : t.order[i] \in kept \cup {start}
      BY <2>4, <2>5, <2>6
    <2>8. \A a \in kept \cup {start} : \E i \in 1 .. Len(t.order) : t.order[i] = a
      <3>1. ASSUME NEW a \in kept PROVE \E i \in 1 .. Len(t.order) : t.order[i] = a
        <4>1. PICK i \in 1 .. Len(o) : o[i] = a
          BY <2>2 DEF Lists
        <4> QED BY <2>4, <2>6, <4>1
      <3> QED BY <2>4, <2>6, <3>1
    <2>9. \A i, j \in 1 .. Len(t.order) : t.order[i] = t.order[j] => i = j
      BY <2>2, <2>4, <2>5, <2>6 DEF Lists
    <2> QED BY <2>4, <2>7, <2>8, <2>9 DEF Lists
  <1> QED BY <1>0, <1>1, <1>5, <1>6 DEF ScreenOK


-----------------------------------------------------------------------------
(* The display orders.                                                     *)

\* A character and its attribute are written, or not, outside the screen.
LEMMA WriteKeeps ==
  ASSUME NEW s, ScreenOK(s), NEW c, NEW ch \in Character, NEW attribute \in Attribute
  PROVE  /\ ScreenOK(Write(s, c, ch, attribute))
         /\ Write(s, c, ch, attribute).fields = s.fields
         /\ Write(s, c, ch, attribute).order = s.order
  <1>1. CASE c \notin Cell
    BY <1>1 DEF Write
  <1>2. CASE c \in Cell
    <2>1. s.chars \in [Cell -> Character] /\ s.attr \in [Cell -> Attribute]
      BY DEF ScreenOK, Screen
    <2>2. PICK f, g : f = [s.chars EXCEPT ![c] = ch] /\ g = [s.attr EXCEPT ![c] = attribute]
      OBVIOUS
    <2>3. f \in [Cell -> Character] /\ g \in [Cell -> Attribute]
      BY <2>1, <2>2
    <2>4. s = [chars |-> s.chars, attr |-> s.attr, fields |-> s.fields, order |-> s.order,
               cursor |-> s.cursor]
      BY DEF ScreenOK, Screen
    <2>5. Write(s, c, ch, attribute) = [s EXCEPT !.chars = f, !.attr = g]
      BY <1>2, <2>2, <2>4 DEF Write
    <2>6. PICK t : t = [s EXCEPT !.chars = f, !.attr = g]
      OBVIOUS
    <2>7. t.fields = s.fields /\ t.order = s.order
      BY <2>4, <2>6
    <2>8. ScreenOK(t)
      BY <2>3, <2>6, RedrawnKeeps
    <2> QED BY <2>5, <2>6, <2>7, <2>8
  <1> QED BY <1>1, <1>2

\* Start Field with its attribute bytes; the field begins behind the first one.
LEMMA StartFieldKeeps ==
  ASSUME NEW s, ScreenOK(s), NEW place \in Nat, NEW length \in 1 .. Size,
         NEW protected \in BOOLEAN, NEW kind \in FieldKind
  PROVE  ScreenOK(StartField(s, place, length, protected, kind))
  <1>1. PICK m : m = Write(s, place, "blank", "marker")
    OBVIOUS
  <1>2. ScreenOK(m) /\ "blank" \in Character /\ "marker" \in Attribute
    BY <1>1, WriteKeeps DEF Character, Digit, Letter, Empty, Attribute
  <1>3. CASE place + 1 \notin Cell
    BY <1>1, <1>2, <1>3 DEF StartField
  <1>4. CASE place + 1 \in Cell
    <2>1. place + 1 \in Cell \ {0}
      BY <1>4
    <2>2. PICK f : f = SetField(m, place + 1, length, protected, kind)
      OBVIOUS
    <2>3. ScreenOK(f)
      BY <1>2, <2>1, <2>2, SetFieldDisjoint
    <2>4. ScreenOK(Write(f, place + 1 + length, "blank", "marker"))
      BY <1>2, <2>3, WriteKeeps
    <2>5. \/ StartField(s, place, length, protected, kind) = f
          \/ StartField(s, place, length, protected, kind)
               = Write(f, place + 1 + length, "blank", "marker")
      BY <1>1, <1>4, <2>2 DEF StartField
    <2> QED BY <2>3, <2>4, <2>5
  <1> QED BY <1>3, <1>4

\* A run of text.
LEMMA WriteTextKeeps ==
  ASSUME NEW s, ScreenOK(s), NEW place \in Nat, NEW text \in Seq(Character),
         NEW attribute \in Attribute
  PROVE  ScreenOK(WriteText(s, place, text, attribute))
  <1>1. s.chars \in [Cell -> Character] /\ s.attr \in [Cell -> Attribute]
    BY DEF ScreenOK, Screen
  <1>2. PICK w : w = place .. place + Len(text) - 1
    OBVIOUS
  <1>3. \A c \in Cell \cap w : text[c - place + 1] \in Character
    <2>1. Len(text) \in Nat
      OBVIOUS
    <2>2. ASSUME NEW c \in Cell \cap w PROVE c - place + 1 \in 1 .. Len(text)
      BY <1>2, <2>1, SizeIs
    <2> QED BY <2>2
  <1>4. PICK f, g : /\ f = [c \in Cell |-> IF c \in w THEN text[c - place + 1] ELSE s.chars[c]]
                    /\ g = [c \in Cell |-> IF c \in w THEN attribute ELSE s.attr[c]]
    OBVIOUS
  <1>5. f \in [Cell -> Character] /\ g \in [Cell -> Attribute]
    BY <1>1, <1>3, <1>4
  <1>6. s = [chars |-> s.chars, attr |-> s.attr, fields |-> s.fields, order |-> s.order,
             cursor |-> s.cursor]
    BY DEF ScreenOK, Screen
  <1>7. WriteText(s, place, text, attribute) = [s EXCEPT !.chars = f, !.attr = g]
    BY <1>2, <1>4, <1>6 DEF WriteText
  <1>8. PICK t : t = [s EXCEPT !.chars = f, !.attr = g]
    OBVIOUS
  <1>9. ScreenOK(t)
    BY <1>5, <1>8, RedrawnKeeps
  <1> QED BY <1>7, <1>8, <1>9

\* Repeat to Address and Erase to Address.
LEMMA FillToKeeps ==
  ASSUME NEW s, ScreenOK(s), NEW place, NEW to, NEW ch \in Character, NEW attribute \in Attribute
  PROVE  ScreenOK(FillTo(s, place, to, ch, attribute))
  <1>1. s.chars \in [Cell -> Character] /\ s.attr \in [Cell -> Attribute]
    BY DEF ScreenOK, Screen
  <1>2. PICK f, g : /\ f = [c \in Cell |-> IF c \in place .. to THEN ch ELSE s.chars[c]]
                    /\ g = [c \in Cell |-> IF c \in place .. to THEN attribute ELSE s.attr[c]]
    OBVIOUS
  <1>3. f \in [Cell -> Character] /\ g \in [Cell -> Attribute]
    BY <1>1, <1>2
  <1>4. s = [chars |-> s.chars, attr |-> s.attr, fields |-> s.fields, order |-> s.order,
             cursor |-> s.cursor]
    BY DEF ScreenOK, Screen
  <1>5. FillTo(s, place, to, ch, attribute) = [s EXCEPT !.chars = f, !.attr = g]
    BY <1>2, <1>4 DEF FillTo
  <1>6. PICK t : t = [s EXCEPT !.chars = f, !.attr = g]
    OBVIOUS
  <1>7. ScreenOK(t)
    BY <1>3, <1>6, RedrawnKeeps
  <1> QED BY <1>5, <1>6, <1>7

\* Roll moves text and attributes, and leaves the fields.
LEMMA ScrollKeeps ==
  ASSUME NEW s, ScreenOK(s), NEW top \in Nat, NEW bottom \in Nat, NEW lines \in Nat,
         NEW up \in BOOLEAN
  PROVE  ScreenOK(ScrollRegion(s, top, bottom, lines, up))
  <1>1. s.chars \in [Cell -> Character] /\ s.attr \in [Cell -> Attribute]
    BY DEF ScreenOK, Screen
  <1>2. PICK last : last = IF bottom >= Rows THEN Rows - 1 ELSE bottom
    OBVIOUS
  <1>3. PICK shift : shift = (IF lines > last - top + 1 THEN last - top + 1 ELSE lines) * Cols
    OBVIOUS
  <1>4. PICK region : region = top * Cols .. (last + 1) * Cols - 1
    OBVIOUS
  <1>5. region \subseteq Cell
    <2>1. Rows \in Nat /\ Cols \in Nat /\ Cols >= 1 /\ last \in Nat /\ last + 1 <= Rows
      BY <1>2, SizeAssumption
    <2>2. top * Cols \in Nat /\ (last + 1) * Cols \in Nat /\ Rows * Cols \in Nat
      BY <2>1
    <2>3. (last + 1) * Cols <= Rows * Cols
      BY <2>1
    <2> QED BY <1>4, <2>2, <2>3 DEF Cell, Size
  <1> DEFINE from(c) == IF up THEN c + shift ELSE c - shift
             moved(f, new) == [c \in Cell |-> IF c \notin region THEN f[c]
                                              ELSE IF from(c) \in region THEN f[from(c)] ELSE new]
  <1>6. PICK f : f = moved(s.chars, "blank")
    OBVIOUS
  <1>7. PICK g : g = moved(s.attr, "open")
    OBVIOUS
  <1>8. "blank" \in Character /\ "open" \in Attribute
    BY DEF Character, Digit, Letter, Empty, Attribute
  <1>9. f \in [Cell -> Character] /\ g \in [Cell -> Attribute]
    <2> HIDE DEF from
    <2>1. f \in [Cell -> Character]
      BY <1>1, <1>5, <1>6, <1>8
    <2>2. g \in [Cell -> Attribute]
      BY <1>1, <1>5, <1>7, <1>8
    <2> QED BY <2>1, <2>2
  <1>10. s = [chars |-> s.chars, attr |-> s.attr, fields |-> s.fields, order |-> s.order,
              cursor |-> s.cursor]
    BY DEF ScreenOK, Screen
  <1>11. \/ ScrollRegion(s, top, bottom, lines, up) = s
         \/ ScrollRegion(s, top, bottom, lines, up) = [s EXCEPT !.chars = f, !.attr = g]
    <2> HIDE <1>5, <1>8
    <2> QED BY <1>2, <1>3, <1>4, <1>6, <1>7, <1>10 DEF ScrollRegion
  <1>12. PICK t : t = [s EXCEPT !.chars = f, !.attr = g]
    OBVIOUS
  <1>13. ScreenOK(t)
    BY <1>9, <1>12, RedrawnKeeps
  <1> QED BY <1>11, <1>12, <1>13


\* A cleared screen has no field,
LEMMA ClearedIs ==
  ScreenOK(Cleared) /\ Cleared.fields = NoFields /\ Cleared.order = << >>
  <1>1. PICK t : t = Cleared
    OBVIOUS
  <1>2. /\ t.chars = [c \in Cell |-> "blank"] /\ t.attr = [c \in Cell |-> "open"]
        /\ t.fields = NoFields /\ t.order = << >> /\ t.cursor = 0
        /\ t = [chars |-> t.chars, attr |-> t.attr, fields |-> t.fields, order |-> t.order,
                cursor |-> t.cursor]
    BY <1>1 DEF Cleared
  <1>3. NoFields \in [{} -> Field] /\ DOMAIN NoFields = {}
    BY DEF NoFields
  <1>4. NoFields \in Tables
    BY <1>3, TableIs
  <1>5. /\ t.chars \in [Cell -> Character] /\ t.attr \in [Cell -> Attribute]
        /\ t.order \in Seq(Cell) /\ t.cursor \in Cell
    BY <1>2, SizeIs DEF Character, Digit, Letter, Empty, Attribute
  <1>6. t \in Screen
    BY <1>2, <1>4, <1>5 DEF Screen
  <1>7. Len(t.order) = 0
    BY <1>2
  <1>8. Lists(t.order, DOMAIN t.fields) /\ Disjoint(t)
    BY <1>2, <1>3, <1>5, <1>7 DEF Lists, Disjoint
  <1> QED BY <1>1, <1>2, <1>6, <1>8 DEF ScreenOK

\* nor has one whose format table was cleared.
LEMMA ClearFieldsKeeps ==
  ASSUME NEW s, ScreenOK(s)
  PROVE  /\ ScreenOK(ClearFields(s))
         /\ ClearFields(s).fields = NoFields /\ ClearFields(s).order = << >>
  <1>1. PICK t : t = ClearFields(s)
    OBVIOUS
  <1>2. NoFields \in Tables /\ DOMAIN NoFields = {}
    <2>1. NoFields \in [{} -> Field] /\ DOMAIN NoFields = {}
      BY DEF NoFields
    <2> QED BY <2>1, TableIs
  <1>3. t \in Screen /\ t.fields = NoFields /\ t.order = << >>
    <2>1. << >> \in Seq(Cell)
      OBVIOUS
    <2> HIDE DEF NoFields
    <2>2. s \in Screen /\ t = [s EXCEPT !.fields = NoFields, !.order = << >>]
      BY <1>1 DEF ScreenOK, ClearFields
    <2> QED BY <1>2, <2>1, <2>2 DEF Screen
  <1>4. Lists(t.order, DOMAIN t.fields) /\ Disjoint(t)
    <2>1. Len(t.order) = 0 /\ t.order \in Seq(Cell)
      BY <1>3
    <2> QED BY <1>2, <1>3, <2>1 DEF Lists, Disjoint
  <1> QED BY <1>1, <1>3, <1>4 DEF ScreenOK

\* The input fields are emptied.
LEMMA NullInputKeeps ==
  ASSUME NEW s, ScreenOK(s)
  PROVE  ScreenOK(NullInput(s))
  <1>1. PICK f : f = [c \in Cell |-> IF c \in InputCells(s) THEN "null" ELSE s.chars[c]]
    OBVIOUS
  <1>2. f \in [Cell -> Character]
    BY <1>1 DEF ScreenOK, Screen, Character, Digit, Letter, Empty
  <1>3. NullInput(s) = [s EXCEPT !.chars = f]
    BY <1>1 DEF NullInput
  <1>4. PICK t : t = [s EXCEPT !.chars = f]
    OBVIOUS
  <1>5. ScreenOK(t)
    BY <1>2, <1>4, WrittenKeeps
  <1> QED BY <1>3, <1>4, <1>5

\* The marks of some fields are reset.
LEMMA ResetModifiedKeeps ==
  ASSUME NEW s, ScreenOK(s), NEW these
  PROVE  ScreenOK(ResetModified(s, these))
  <1>1. PICK F : F = [a \in DOMAIN s.fields |->
                        IF a \in these THEN [s.fields[a] EXCEPT !.modified = FALSE] ELSE s.fields[a]]
    OBVIOUS
  <1>2. s.fields \in [DOMAIN s.fields -> Field]
    BY TableOf DEF ScreenOK
  <1>3. /\ F \in [DOMAIN s.fields -> Field]
        /\ \A a \in DOMAIN s.fields : F[a].length = s.fields[a].length
    <2>1. ASSUME NEW a \in DOMAIN s.fields
          PROVE  F[a] \in Field /\ F[a].length = s.fields[a].length
      <3>1. s.fields[a] \in Field
        BY <1>2
      <3>2. F[a] = s.fields[a] \/ F[a] = [s.fields[a] EXCEPT !.modified = FALSE]
        BY <1>1
      <3> QED BY <3>1, <3>2 DEF Field
    <2> QED BY <1>1, <2>1
  <1>4. ResetModified(s, these) = [s EXCEPT !.fields = F]
    BY <1>1 DEF ResetModified
  <1>5. PICK t : t = [s EXCEPT !.fields = F]
    OBVIOUS
  <1>6. ScreenOK(t)
    BY <1>3, <1>5, RemarkedKeeps
  <1> QED BY <1>4, <1>5, <1>6

\* Where the cursor may go.
LEMMA InputFieldIs ==
  ASSUME NEW s, ScreenOK(s)
  PROVE  InputFields(s) \subseteq Cell
  BY TableTypes DEF ScreenOK, InputFields

\* The cursor goes to the first input field, if there is one.
LEMMA HomeCursorKeeps ==
  ASSUME NEW s, ScreenOK(s)
  PROVE  /\ ScreenOK(HomeCursor(s)) /\ HomeCursor(s).fields = s.fields
         /\ HomeCursor(s).order = s.order /\ HomeCursor(s).chars = s.chars
  <1> DEFINE inputs == {i \in 1 .. Len(s.order) : s.order[i] \in InputFields(s)}
  <1>0. s.order \in Seq(Cell) /\ Len(s.order) \in Nat
    BY DEF ScreenOK, Screen
  <1>1. CASE inputs = {}
    BY <1>1 DEF HomeCursor
  <1>2. CASE inputs # {}
    <2>1. inputs \in SUBSET Nat
      BY <1>0
    <2>2. PICK i : i = CHOOSE k \in inputs : \A j \in inputs : k <= j
      OBVIOUS
    <2>3. i = Min(inputs)
      BY <2>2 DEF Min
    <2>4. i \in inputs
      <3> HIDE DEF inputs
      <3> QED BY <1>2, <2>1, <2>3, LeastOf
    <2>5. s.order[i] \in Cell
      BY <1>0, <2>4
    <2>6. HomeCursor(s) = [s EXCEPT !.cursor = s.order[i]]
      BY <1>2, <2>2 DEF HomeCursor
    <2>7. PICK c : c = s.order[i]
      OBVIOUS
    <2>8. PICK t : t = [s EXCEPT !.cursor = c]
      OBVIOUS
    <2>9. ScreenOK(t)
      BY <2>5, <2>7, <2>8, MovedKeeps
    <2>10. t.fields = s.fields /\ t.order = s.order /\ t.chars = s.chars
      BY <2>8 DEF ScreenOK, Screen
    <2> QED BY <2>6, <2>7, <2>8, <2>9, <2>10
  <1> QED BY <1>1, <1>2

\* The cursor goes to the next input field, or to the previous one.
LEMMA ToNextKeeps ==
  ASSUME NEW s, ScreenOK(s), NEW c \in Cell
  PROVE  /\ ScreenOK(ToNextField(s, c))
         /\ InputFields(s) # {} => ScreenOK([s EXCEPT !.cursor = FindPreviousField(s, c)])
  <1>1. CASE InputFields(s) = {}
    BY <1>1 DEF ToNextField
  <1>2. CASE InputFields(s) # {}
    <2>0. InputFields(s) \in SUBSET Nat /\ InputFields(s) \in SUBSET (0 .. Size - 1) /\ Size - 1 \in Nat
      BY InputFieldIs, SizeIs DEF Cell
    <2>1. FindNextField(s, c) \in InputFields(s)
      <3> DEFINE behind == {a \in InputFields(s) : a > c}
      <3>1. behind # {} => Min(behind) \in behind
        <4>1. behind \in SUBSET Nat
          BY <2>0
        <4> HIDE DEF behind
        <4> QED BY <4>1, LeastOf
      <3>2. Min(InputFields(s)) \in InputFields(s)
        BY <1>2, <2>0, LeastOf
      <3> QED BY <3>1, <3>2 DEF FindNextField
    <2>2. FindPreviousField(s, c) \in InputFields(s)
      <3> DEFINE before == {a \in InputFields(s) : a < c}
      <3>1. before # {} => Max(before) \in before
        <4>1. before \in SUBSET (0 .. Size - 1)
          BY <2>0
        <4> HIDE DEF before
        <4> QED BY <2>0, <4>1, GreatestOf
      <3>2. Max(InputFields(s)) \in InputFields(s)
        BY <1>2, <2>0, GreatestOf
      <3> QED BY <3>1, <3>2 DEF FindPreviousField
    <2>3. PICK n, p : n = FindNextField(s, c) /\ p = FindPreviousField(s, c)
      OBVIOUS
    <2>4. n \in Cell /\ p \in Cell
      BY <2>1, <2>2, <2>3, InputFieldIs
    <2>5. PICK t, u : t = [s EXCEPT !.cursor = n] /\ u = [s EXCEPT !.cursor = p]
      OBVIOUS
    <2>6. ScreenOK(t) /\ ScreenOK(u)
      BY <2>4, <2>5, MovedKeeps
    <2> QED BY <1>2, <2>3, <2>5, <2>6 DEF ToNextField
  <1> QED BY <1>1, <1>2

\* Some characters and attributes.
LEMMA CharactersAre ==
  /\ "blank" \in Character /\ "null" \in Character /\ "0" \in Character
  /\ Attribute = {"open", "protected", "marker"} /\ "marker" \notin Character
  BY DEF Character, Digit, Letter, Empty, Attribute

\* A field's characters shift to the right as far as its last one allows.
LEMMA ShiftKeeps ==
  ASSUME NEW s, ScreenOK(s), NEW a \in DOMAIN s.fields, Data(s, a) # {},
         NEW shift, shift = EndOf(s, a) - Max(Data(s, a)), NEW fill \in Character,
         NEW new, new = [d \in CellsOf(s, a) |-> IF d - shift >= a THEN s.chars[d - shift] ELSE fill]
  PROVE  ScreenOK(Put(s, CellsOf(s, a), new)) /\ Put(s, CellsOf(s, a), new).cursor = s.cursor
  <1>1. PICK end : end = EndOf(s, a)
    OBVIOUS
  <1>2. a \in Nat /\ end \in Nat /\ CellsOf(s, a) = a .. end
    BY <1>1, TableTypes DEF ScreenOK
  <1>3. Max(Data(s, a)) \in a .. end
    <2>1. Data(s, a) \in SUBSET (a .. end) /\ Data(s, a) \in SUBSET (0 .. end)
      BY <1>2 DEF Data
    <2>2. Max(Data(s, a)) \in Data(s, a)
      BY <1>2, <2>1, GreatestOf
    <2> QED BY <2>1, <2>2
  <1>4. shift \in Nat
    BY <1>1, <1>2, <1>3
  <1>5. ASSUME NEW d \in Cell \cap CellsOf(s, a) PROVE new[d] \in Character
    <2>1. d \in Nat /\ d - shift <= d
      BY <1>4, SizeIs
    <2>2. d - shift >= a => d - shift \in Cell
      <3>1. PICK k : k = d - shift
        OBVIOUS
      <3>2. k \in Int /\ k <= d /\ d < Size /\ Size \in Nat
        BY <1>4, <2>1, <3>1, SizeIs
      <3>3. k >= a => k \in Nat
        BY <1>2, <3>2
      <3>4. k >= a => k \in Cell
        BY <2>1, <3>2, <3>3 DEF Cell
      <3> QED BY <3>1, <3>4
    <2>3. new[d] = IF d - shift >= a THEN s.chars[d - shift] ELSE fill
      OBVIOUS
    <2> QED BY <2>2, <2>3 DEF ScreenOK, Screen
  <1>6. PICK t : t = Put(s, CellsOf(s, a), new)
    OBVIOUS
  <1>7. ScreenOK(t)
    BY <1>5, <1>6, PutKeeps
  <1>8. t.cursor = s.cursor
    BY <1>6 DEF Put, ScreenOK, Screen
  <1> QED BY <1>6, <1>7, <1>8

\* The shift of a right adjustment stays within the field.
LEMMA RightAdjustKeeps ==
  ASSUME NEW s, ScreenOK(s), NEW c
  PROVE  ScreenOK(RightAdjust(s, c)) /\ RightAdjust(s, c).cursor = s.cursor
  <1>1. CASE Holding(s, c) = {}
    BY <1>1 DEF RightAdjust
  <1>2. CASE Holding(s, c) # {}
    <2>1. PICK a : a = FieldAt(s, c)
      OBVIOUS
    <2>2. PICK shift, fill, new :
            /\ shift = EndOf(s, a) - Max(Data(s, a))
            /\ fill = (IF s.fields[a].kind.adjust = "zero" THEN "0" ELSE "blank")
            /\ new = [d \in CellsOf(s, a) |-> IF d - shift >= a THEN s.chars[d - shift] ELSE fill]
      OBVIOUS
    <2>3. CASE RightAdjust(s, c) = s
      BY <2>3
    <2>4. CASE /\ Data(s, a) # {}
               /\ RightAdjust(s, c) = MarkModified(Put(s, CellsOf(s, a), new), a)
      <3>1. a \in DOMAIN s.fields
        BY <1>2, <2>1, FieldAtIs
      <3>2. fill \in Character
        BY <2>2 DEF Character, Digit, Letter, Empty
      <3>3. PICK t : t = Put(s, CellsOf(s, a), new)
        OBVIOUS
      <3>4. ScreenOK(t) /\ t.cursor = s.cursor
        BY <2>2, <2>4, <3>1, <3>2, <3>3, ShiftKeeps
      <3>5. ScreenOK(MarkModified(t, a)) /\ MarkModified(t, a).cursor = t.cursor
        BY <3>4, MarkKeeps, MarkLeaves
      <3> QED BY <2>4, <3>3, <3>4, <3>5
    <2> QED BY <1>2, <2>1, <2>2, <2>3, <2>4 DEF RightAdjust
  <1> QED BY <1>1, <1>2

\* t is s after an edit of the field a: the same fields, marked where they were, and
\* other characters in that field only.
EditsField(s, t, a) ==
  /\ ScreenOK(t) /\ DOMAIN t.fields = DOMAIN s.fields /\ t.order = s.order
  /\ \A b \in DOMAIN s.fields :
       /\ t.fields[b].length = s.fields[b].length
       /\ t.fields[b].protected = s.fields[b].protected
       /\ s.fields[b].modified => t.fields[b].modified
  /\ \A c \in Cell : t.chars[c] # s.chars[c] => c \in CellsOf(s, a)

\* One edit after another.
LEMMA EditsCompose ==
  ASSUME NEW s, NEW t, NEW u, NEW a \in DOMAIN s.fields, EditsField(s, t, a), EditsField(t, u, a)
  PROVE  EditsField(s, u, a)
  BY DEF EditsField, CellsOf, EndOf

\* A move of the cursor edits nothing.
LEMMA EditsNothing ==
  ASSUME NEW s, NEW t, NEW a, ScreenOK(t), t.fields = s.fields, t.order = s.order, t.chars = s.chars
  PROVE  EditsField(s, t, a)
  BY DEF EditsField

\* A cell of a field is in no other.
LEMMA OnlyField ==
  ASSUME NEW s, ScreenOK(s), NEW a \in DOMAIN s.fields, NEW c \in CellsOf(s, a)
  PROVE  Holding(s, c) # {} /\ FieldAt(s, c) = a
  <1>1. Holding(s, c) # {}
    BY DEF Holding
  <1>2. FieldAt(s, c) \in DOMAIN s.fields /\ c \in CellsOf(s, FieldAt(s, c))
    BY <1>1, FieldAtIs
  <1> QED BY <1>1, <1>2 DEF ScreenOK, Disjoint

\* A field starts in a cell of its own.
LEMMA OwnCell ==
  ASSUME NEW s, ScreenOK(s), NEW a \in DOMAIN s.fields
  PROVE  a \in CellsOf(s, a) /\ a \in Nat /\ EndOf(s, a) \in Nat /\ a <= EndOf(s, a)
  <1>1. /\ a \in Nat /\ s.fields[a].length \in Nat /\ s.fields[a].length >= 1
        /\ CellsOf(s, a) = a .. a + s.fields[a].length - 1
        /\ EndOf(s, a) = a + s.fields[a].length - 1
    BY TableTypes DEF ScreenOK
  <1> QED BY <1>1

\* A mark, a run of cells, a single cell.
LEMMA MarkEdits ==
  ASSUME NEW s, ScreenOK(s), NEW a \in DOMAIN s.fields, NEW c \in CellsOf(s, a)
  PROVE  EditsField(s, MarkModified(s, c), a) /\ MarkModified(s, c).fields[a].modified
  <1>1. Holding(s, c) # {} /\ FieldAt(s, c) = a
    BY OnlyField
  <1>2. PICK F : F = [s.fields EXCEPT ![a].modified = TRUE]
    OBVIOUS
  <1>3. s.fields \in [DOMAIN s.fields -> Field]
    BY TableOf DEF ScreenOK
  <1>4. /\ DOMAIN F = DOMAIN s.fields /\ F[a].modified
        /\ \A b \in DOMAIN s.fields :
             /\ F[b].length = s.fields[b].length /\ F[b].protected = s.fields[b].protected
             /\ s.fields[b].modified => F[b].modified
    BY <1>2, <1>3 DEF Field
  <1>5. MarkModified(s, c) = [s EXCEPT !.fields = F]
    BY <1>1, <1>2 DEF MarkModified, ScreenOK, Screen
  <1>6. PICK t : t = [s EXCEPT !.fields = F]
    OBVIOUS
  <1>7. t.fields = F /\ t.order = s.order /\ t.chars = s.chars
    BY <1>6 DEF ScreenOK, Screen
  <1>8. ScreenOK(t)
    BY <1>5, <1>6, MarkKeeps
  <1> QED BY <1>4, <1>5, <1>6, <1>7, <1>8 DEF EditsField

LEMMA PutEdits ==
  ASSUME NEW s, NEW a, NEW cells, NEW new, ScreenOK(s), ScreenOK(Put(s, cells, new)),
         cells \subseteq CellsOf(s, a)
  PROVE  EditsField(s, Put(s, cells, new), a)
  <1>1. PICK t : t = Put(s, cells, new)
    OBVIOUS
  <1>2. /\ t.fields = s.fields /\ t.order = s.order
        /\ \A c \in Cell : c \notin cells => t.chars[c] = s.chars[c]
    BY <1>1 DEF Put, ScreenOK, Screen
  <1> QED BY <1>1, <1>2 DEF EditsField

LEMMA CharEdits ==
  ASSUME NEW s, NEW a, NEW c, NEW ch, ScreenOK(s), ScreenOK([s EXCEPT !.chars[c] = ch]),
         c \in CellsOf(s, a)
  PROVE  EditsField(s, [s EXCEPT !.chars[c] = ch], a)
  <1>1. PICK t : t = [s EXCEPT !.chars[c] = ch]
    OBVIOUS
  <1>2. /\ t.fields = s.fields /\ t.order = s.order
        /\ \A d \in Cell : d # c => t.chars[d] = s.chars[d]
    BY <1>1 DEF ScreenOK, Screen
  <1> QED BY <1>1, <1>2 DEF EditsField

\* A shift to the right is one of the field the cell is in, which it marks.
LEMMA AdjustEdits ==
  ASSUME NEW s, ScreenOK(s), NEW a \in DOMAIN s.fields, NEW c \in CellsOf(s, a)
  PROVE  /\ EditsField(s, RightAdjust(s, c), a)
         /\ RightAdjust(s, c) = s \/ RightAdjust(s, c).fields[a].modified
  <1>1. Holding(s, c) # {} /\ FieldAt(s, c) = a
    BY OnlyField
  <1>2. CASE RightAdjust(s, c) = s
    BY <1>2, EditsNothing
  <1>3. CASE RightAdjust(s, c) # s
    <2>1. PICK shift, fill, new :
            /\ shift = EndOf(s, a) - Max(Data(s, a))
            /\ fill = (IF s.fields[a].kind.adjust = "zero" THEN "0" ELSE "blank")
            /\ new = [d \in CellsOf(s, a) |-> IF d - shift >= a THEN s.chars[d - shift] ELSE fill]
      OBVIOUS
    <2>2. PICK t : t = Put(s, CellsOf(s, a), new)
      OBVIOUS
    <2>3. RightAdjust(s, c) = MarkModified(t, a) /\ Data(s, a) # {}
      BY <1>1, <1>3, <2>1, <2>2 DEF RightAdjust
    <2>4. ScreenOK(t)
      BY <2>1, <2>2, <2>3, ShiftKeeps, CharactersAre
    <2>5. EditsField(s, t, a)
      BY <2>2, <2>4, PutEdits
    <2>6. a \in DOMAIN t.fields /\ a \in CellsOf(t, a)
      BY <2>4, <2>5, OwnCell DEF EditsField
    <2>7. EditsField(t, MarkModified(t, a), a) /\ MarkModified(t, a).fields[a].modified
      BY <2>4, <2>6, MarkEdits
    <2> QED BY <2>3, <2>5, <2>7, EditsCompose
  <1> QED BY <1>2, <1>3

-----------------------------------------------------------------------------
(* The operator.                                                           *)

Type ==
  [open : BOOLEAN, orders : Seq(Order), at : Nat, attr : Attribute, unlock : BOOLEAN,
   restoring : BOOLEAN]

\* The fields of the screen, and of the one saved, are listed and apart; a record
\* in progress is a list of orders.
EditInv ==
  /\ ScreenOK(screen)
  /\ ic \in Cell \cup {NoIC}
  /\ record \in Type
  /\ ~record.open => record = Closed
  /\ \A s \in saved : ScreenOK(s)
  /\ \A s, t \in saved : s = t

\* Some cells are emptied.
LEMMA NulledKeeps ==
  ASSUME NEW s, ScreenOK(s), NEW cells
  PROVE  /\ ScreenOK(Nulled(s, cells)) /\ Nulled(s, cells).fields = s.fields
         /\ Nulled(s, cells).cursor = s.cursor
  <1>1. PICK new : new = [c \in cells |-> "null"]
    OBVIOUS
  <1>2. \A c \in Cell \cap cells : new[c] \in Character
    BY <1>1 DEF Character, Digit, Letter, Empty
  <1>3. PICK t : t = Put(s, cells, new)
    OBVIOUS
  <1>4. ScreenOK(t)
    BY <1>2, <1>3, PutKeeps
  <1>5. t.fields = s.fields /\ t.cursor = s.cursor
    BY <1>3 DEF Put, ScreenOK, Screen
  <1> QED BY <1>1, <1>3, <1>4, <1>5 DEF Nulled

\* Where the operator may type there is a field, and it ends behind the cursor.
LEMMA TypableIs ==
  ASSUME ScreenOK(screen), Typable
  PROVE  /\ here \in Cell /\ here \in Nat /\ Holding(screen, here) # {}
         /\ there \in DOMAIN screen.fields /\ there \in Cell
         /\ EndOf(screen, there) \in Nat /\ here \in there .. EndOf(screen, there)
         /\ screen.chars \in [Cell -> Character]
  <1>1. here \in Cell /\ here \in Nat /\ screen \in Screen /\ screen.chars \in [Cell -> Character]
    BY SizeIs DEF ScreenOK, Screen, here
  <1>2. Holding(screen, here) # {}
    BY DEF Typable, IsProtected
  <1>3. there \in DOMAIN screen.fields /\ here \in CellsOf(screen, there)
    BY <1>2, FieldAtIs DEF there
  <1>4. there \in Cell /\ there \in Nat /\ EndOf(screen, there) \in Nat
    BY <1>1, <1>3, TableTypes
  <1>5. here \in there .. EndOf(screen, there)
    BY <1>3 DEF CellsOf
  <1> QED BY <1>1, <1>2, <1>3, <1>4, <1>5

\* What the operator may do.
Typed == /\ ScreenOK(screen') /\ Idle /\ UNCHANGED <<ic, record, saved>>

\* An edit replaces the screen and nothing else the invariant speaks of.
LEMMA EditedIs ==
  ASSUME NEW s, ScreenOK(s), NEW sends, Edit(s, sends)
  PROVE  Typed
  BY DEF Edit, Typed

\* What a stroke makes of the screen: nothing but a move of the cursor, or an edit of
\* one field, which it marks.
Stroke(t) ==
  /\ ScreenOK(t)
  /\ \/ t.fields = screen.fields /\ t.order = screen.order /\ t.chars = screen.chars
     \/ \E a \in DOMAIN screen.fields : EditsField(screen, t, a) /\ t.fields[a].modified

Strokes == \E t : Stroke(t) /\ \E sends \in BOOLEAN : Edit(t, sends)

\* The cursor moves on.
LEMMA StrokeMoves ==
  ASSUME NEW s, Stroke(s), NEW c \in Cell
  PROVE  /\ Stroke([s EXCEPT !.cursor = c])
         /\ Stroke(ToNextField(s, c))
         /\ InputFields(s) # {} => Stroke([s EXCEPT !.cursor = FindPreviousField(s, c)])
  <1>1. ASSUME NEW u, ScreenOK(u), u.fields = s.fields, u.order = s.order, u.chars = s.chars
        PROVE  Stroke(u)
    BY <1>1 DEF Stroke, EditsField
  <1>2. ASSUME NEW d
        PROVE  LET u == [s EXCEPT !.cursor = d]
               IN  u.fields = s.fields /\ u.order = s.order /\ u.chars = s.chars
    BY DEF Stroke, ScreenOK, Screen
  <1>3. ScreenOK(s)
    BY DEF Stroke
  <1>4. PICK moved, next, previous :
          /\ moved = [s EXCEPT !.cursor = c] /\ next = ToNextField(s, c)
          /\ previous = [s EXCEPT !.cursor = FindPreviousField(s, c)]
    OBVIOUS
  <1>5. ScreenOK(moved) /\ ScreenOK(next) /\ (InputFields(s) # {} => ScreenOK(previous))
    BY <1>3, <1>4, MovedKeeps, ToNextKeeps
  <1>6. /\ moved.fields = s.fields /\ moved.order = s.order /\ moved.chars = s.chars
        /\ previous.fields = s.fields /\ previous.order = s.order /\ previous.chars = s.chars
    BY <1>2, <1>4
  <1>7. next.fields = s.fields /\ next.order = s.order /\ next.chars = s.chars
    BY <1>2, <1>4 DEF ToNextField
  <1> QED BY <1>1, <1>4, <1>5, <1>6, <1>7

\* An edit of a field that is marked, adjusted or not.
LEMMA StrokeAdjusts ==
  ASSUME ScreenOK(screen), NEW a \in DOMAIN screen.fields, NEW s, EditsField(screen, s, a),
         s.fields[a].modified, NEW c \in CellsOf(screen, a)
  PROVE  Stroke(s) /\ Stroke(RightAdjust(s, c))
  <1>1. ScreenOK(s) /\ a \in DOMAIN s.fields /\ CellsOf(s, a) = CellsOf(screen, a)
    BY DEF EditsField, CellsOf, EndOf
  <1>2. PICK t : t = RightAdjust(s, c)
    OBVIOUS
  <1>3. EditsField(s, t, a)
    BY <1>1, <1>2, AdjustEdits
  <1>4. EditsField(screen, t, a) /\ t.fields[a].modified
    BY <1>1, <1>3, EditsCompose DEF EditsField
  <1>5. ScreenOK(t)
    BY <1>3 DEF EditsField
  <1> QED BY <1>1, <1>2, <1>4, <1>5 DEF Stroke

\* Some cells of a field are written, then the field is marked.
LEMMA StrokeMarks ==
  ASSUME ScreenOK(screen), NEW a \in DOMAIN screen.fields, NEW t, EditsField(screen, t, a),
         NEW c \in CellsOf(screen, a)
  PROVE  EditsField(screen, MarkModified(t, c), a) /\ MarkModified(t, c).fields[a].modified
  <1>1. ScreenOK(t) /\ a \in DOMAIN t.fields /\ c \in CellsOf(t, a)
    BY DEF EditsField, CellsOf, EndOf
  <1>2. EditsField(t, MarkModified(t, c), a) /\ MarkModified(t, c).fields[a].modified
    BY <1>1, MarkEdits
  <1> QED BY <1>2, EditsCompose

\* A character typed into a field, over or between those that are there.
LEMMA EnteredEdits ==
  ASSUME ScreenOK(screen), Typable, NEW ch \in Keys
  PROVE  EditsField(screen, Entered(ch), there) /\ Entered(ch).fields[there].modified
  <1>1. PICK end : end = EndOf(screen, there)
    OBVIOUS
  <1>2. PICK rest : rest = here .. end
    OBVIOUS
  <1>3. PICK new : new = [c \in rest |-> IF c = here THEN Stored(kindThere, ch)
                                         ELSE screen.chars[IF keyboard.insert THEN c - 1 ELSE c]]
    OBVIOUS
  <1>4. Stored(kindThere, ch) \in Character
    BY KeysAssumption DEF Stored, Character, Letter
  <1>5. ASSUME NEW c \in Cell \cap rest PROVE new[c] \in Character
    <2>1. c = here \/ (c # here /\ c - 1 \in Cell)
      BY <1>1, <1>2, TypableIs, SizeIs DEF Cell
    <2>2. screen.chars \in [Cell -> Character]
      BY TypableIs
    <2> QED BY <1>3, <1>4, <2>1, <2>2
  <1>6. PICK t : t = Put(screen, rest, new)
    OBVIOUS
  <1>7. ScreenOK(t)
    BY <1>5, <1>6, PutKeeps
  <1>8. here \in CellsOf(screen, there) /\ rest \subseteq CellsOf(screen, there)
    BY <1>1, <1>2, TypableIs, SizeIs DEF CellsOf, Cell
  <1>9. EditsField(screen, t, there)
    BY <1>6, <1>7, <1>8, PutEdits
  <1> QED BY <1>1, <1>2, <1>3, <1>6, <1>8, <1>9, TypableIs, StrokeMarks DEF Entered

\* A character key, with the moves and the auto-enter it may end in.
LEMMA TypeCharacterStrokes ==
  ASSUME ScreenOK(screen), NEW ch \in Keys, TypeCharacter(ch)
  PROVE  Strokes
  <1>1. PICK s : s = Entered(ch)
    OBVIOUS
  <1>2. /\ here \in Cell /\ there \in DOMAIN screen.fields /\ here \in CellsOf(screen, there)
        /\ EditsField(screen, s, there) /\ s.fields[there].modified
    BY <1>1, EnteredEdits, TypableIs DEF TypeCharacter, CellsOf
  <1>3. PICK moved, adjusted, next :
          /\ moved = [s EXCEPT !.cursor = CellAfter(here)]
          /\ adjusted = RightAdjust(s, here)
          /\ next = ToNextField(adjusted, here)
    OBVIOUS
  <1>4. Stroke(s) /\ Stroke(adjusted)
    BY <1>2, <1>3, StrokeAdjusts
  <1>5. Stroke(moved) /\ Stroke(next)
    BY <1>2, <1>3, <1>4, StrokeMoves, SizeIs
  <1>6. \E t \in {s, moved, adjusted, next} : \E sends \in BOOLEAN : Edit(t, sends)
    BY <1>1, <1>3 DEF TypeCharacter
  <1> QED BY <1>4, <1>5, <1>6 DEF Strokes

\* The adjustment Tab, Back Tab and the AID keys begin with.
LEMMA AdjustStrokes ==
  ASSUME ScreenOK(screen)
  PROVE  Stroke(RightAdjust(screen, here))
  <1>1. Stroke(screen)
    BY DEF Stroke
  <1>2. CASE RightAdjust(screen, here) = screen
    BY <1>1, <1>2
  <1>3. CASE RightAdjust(screen, here) # screen
    <2>1. Holding(screen, here) # {}
      BY <1>3 DEF RightAdjust
    <2>2. there \in DOMAIN screen.fields /\ here \in CellsOf(screen, there)
      BY <2>1, FieldAtIs DEF there
    <2>3. PICK t : t = RightAdjust(screen, here)
      OBVIOUS
    <2>4. EditsField(screen, t, there) /\ t.fields[there].modified
      BY <1>3, <2>2, <2>3, AdjustEdits
    <2> QED BY <2>2, <2>3, <2>4 DEF Stroke, EditsField
  <1> QED BY <1>2, <1>3

\* Tab and Back Tab.
LEMMA TabStrokes ==
  ASSUME ScreenOK(screen), Tab \/ BackTab
  PROVE  Strokes
  <1>1. here \in Cell
    BY DEF ScreenOK, Screen, here
  <1>2. PICK s : s = RightAdjust(screen, here)
    OBVIOUS
  <1>3. Stroke(s)
    BY <1>2, AdjustStrokes
  <1>4. PICK next, previous : next = ToNextField(s, here)
                              /\ previous = [s EXCEPT !.cursor = FindPreviousField(s, here)]
    OBVIOUS
  <1>5. Stroke(next) /\ (InputFields(s) # {} => Stroke(previous))
    BY <1>1, <1>3, <1>4, StrokeMoves
  <1>6. Edit(next, FALSE) \/ Edit(s, FALSE) \/ (InputFields(s) # {} /\ Edit(previous, FALSE))
    BY <1>2, <1>4 DEF Tab, BackTab
  <1> QED BY <1>3, <1>5, <1>6 DEF Strokes

\* Field Exit, Field Plus and Field Minus.
LEMMA LeaveFieldStrokes ==
  ASSUME ScreenOK(screen), NEW key, LeaveField(key)
  PROVE  Strokes
  <1>1. /\ here \in Cell /\ there \in DOMAIN screen.fields /\ Typable
        /\ here \in CellsOf(screen, there) /\ there \in CellsOf(screen, there)
        /\ EndOf(screen, there) \in CellsOf(screen, there)
        /\ here .. EndOf(screen, there) \subseteq CellsOf(screen, there)
    BY TypableIs, OwnCell DEF LeaveField, CellsOf
  <1>2. PICK last : last = EndOf(screen, there)
    OBVIOUS
  <1>3. PICK emptied : emptied = Nulled(screen, here .. last)
    OBVIOUS
  <1>4. PICK adjusted : adjusted = RightAdjust(emptied, there)
    OBVIOUS
  <1>5. EditsField(screen, emptied, there)
    BY <1>1, <1>2, <1>3, NulledKeeps, PutEdits DEF Nulled
  <1>6. EditsField(screen, adjusted, there) /\ ScreenOK(adjusted)
    <2>1. ScreenOK(emptied) /\ there \in DOMAIN emptied.fields /\ there \in CellsOf(emptied, there)
      BY <1>1, <1>5 DEF EditsField, CellsOf, EndOf
    <2>2. EditsField(emptied, adjusted, there)
      BY <1>4, <2>1, AdjustEdits
    <2> QED BY <1>1, <1>5, <2>2, EditsCompose DEF EditsField
  <1>7. PICK turned : turned = [adjusted EXCEPT !.chars[last] = Zone(key, adjusted.chars[last])]
    OBVIOUS
  <1>8. EditsField(screen, turned, there)
    <2>1. last \in Cell => Zone(key, adjusted.chars[last]) \in Character
      BY <1>6 DEF ScreenOK, Screen, Zone, Character, Digit, Letter
    <2>2. ScreenOK(turned)
      BY <1>6, <1>7, <2>1, CharKeeps
    <2>3. last \in CellsOf(adjusted, there)
      BY <1>1, <1>2, <1>6 DEF EditsField, CellsOf, EndOf
    <2>4. EditsField(adjusted, turned, there)
      BY <1>6, <1>7, <2>2, <2>3, CharEdits
    <2> QED BY <1>1, <1>6, <2>4, EditsCompose
  <1>9. PICK left : left = MarkModified(turned, there)
    OBVIOUS
  <1>10. PICK next : next = ToNextField(left, here)
    OBVIOUS
  <1>11. Stroke(left)
    BY <1>1, <1>8, <1>9, StrokeMarks, StrokeAdjusts
  <1>12. Stroke(next)
    BY <1>1, <1>10, <1>11, StrokeMoves
  <1>13. Edit(left, TRUE) \/ Edit(next, FALSE)
    BY <1>2, <1>3, <1>4, <1>7, <1>9, <1>10 DEF LeaveField
  <1> QED BY <1>11, <1>12, <1>13 DEF Strokes

\* Erase EOF and Erase Field.
LEMMA EraseStrokes ==
  ASSUME ScreenOK(screen), EraseEOF \/ EraseField
  PROVE  Strokes
  <1>0. Typable
    BY DEF EraseEOF, EraseField
  <1>1. /\ here \in Cell /\ there \in Cell /\ there \in DOMAIN screen.fields
        /\ there \in CellsOf(screen, there)
        /\ here .. EndOf(screen, there) \subseteq CellsOf(screen, there)
    BY <1>0, TypableIs, OwnCell DEF CellsOf
  <1>2. ASSUME NEW cells, cells \subseteq CellsOf(screen, there)
        PROVE  Stroke(MarkModified(Nulled(screen, cells), there))
    <2>1. EditsField(screen, Nulled(screen, cells), there)
      BY <1>2, NulledKeeps, PutEdits DEF Nulled
    <2> QED BY <1>1, <2>1, StrokeMarks, StrokeAdjusts
  <1>3. CASE EraseEOF
    BY <1>1, <1>2, <1>3 DEF EraseEOF, Strokes
  <1>4. CASE EraseField
    <2>1. PICK s : s = MarkModified(Nulled(screen, CellsOf(screen, there)), there)
      OBVIOUS
    <2>2. Stroke([s EXCEPT !.cursor = there])
      BY <1>1, <1>2, <2>1, StrokeMoves
    <2>3. Edit([s EXCEPT !.cursor = there], FALSE)
      BY <1>4, <2>1 DEF EraseField
    <2> QED BY <2>2, <2>3 DEF Strokes
  <1> QED BY <1>3, <1>4

\* One cell of a field is written, and the field marked.
LEMMA CharStrokes ==
  ASSUME ScreenOK(screen), NEW c \in Cell, ~IsProtected(screen, c), NEW ch \in Character
  PROVE  Stroke(MarkModified([screen EXCEPT !.chars[c] = ch], c))
  <1>1. PICK a : a = FieldAt(screen, c)
    OBVIOUS
  <1>2. a \in DOMAIN screen.fields /\ c \in CellsOf(screen, a)
    BY <1>1, FieldAtIs DEF IsProtected
  <1>3. PICK s : s = [screen EXCEPT !.chars[c] = ch]
    OBVIOUS
  <1>4. EditsField(screen, s, a)
    BY <1>2, <1>3, CharKeeps, CharEdits
  <1> QED BY <1>2, <1>3, <1>4, StrokeMarks, StrokeAdjusts

\* Dup and Backspace.
LEMMA DupStrokes ==
  ASSUME ScreenOK(screen), Dup \/ Backspace
  PROVE  Strokes
  <1>1. here \in Cell /\ "dup" \in Character /\ "blank" \in Character
    BY CharactersAre DEF ScreenOK, Screen, here, Character
  <1>2. CASE Dup
    <2>1. PICK s : s = MarkModified([screen EXCEPT !.chars[here] = "dup"], here)
      OBVIOUS
    <2>2. Stroke(s)
      BY <1>1, <1>2, <2>1, CharStrokes DEF Dup, Typable
    <2>3. Stroke(ToNextField(s, here))
      BY <1>1, <2>2, StrokeMoves
    <2>4. Edit(ToNextField(s, here), FALSE)
      BY <1>2, <2>1 DEF Dup
    <2> QED BY <2>3, <2>4 DEF Strokes
  <1>3. CASE Backspace
    <2>1. PICK c : c = here - 1
      OBVIOUS
    <2>2. c \in Cell /\ ~IsProtected(screen, c)
      BY <1>1, <1>3, <2>1, SizeIs DEF Cell, Backspace
    <2>3. PICK s : s = MarkModified([screen EXCEPT !.chars[c] = "blank"], c)
      OBVIOUS
    <2>4. Stroke(s)
      BY <1>1, <2>2, <2>3, CharStrokes
    <2>5. Stroke([s EXCEPT !.cursor = c])
      BY <2>2, <2>4, StrokeMoves
    <2>6. Edit([s EXCEPT !.cursor = c], FALSE)
      BY <1>3, <2>1, <2>3 DEF Backspace
    <2> QED BY <2>5, <2>6 DEF Strokes
  <1> QED BY <1>2, <1>3

\* Delete.
LEMMA DeleteStrokes ==
  ASSUME ScreenOK(screen), Delete
  PROVE  Strokes
  <1>1. PICK rest : rest = here .. EndOf(screen, there)
    OBVIOUS
  <1>2. PICK new : new = [c \in rest |-> IF c = EndOf(screen, there) THEN "blank"
                                         ELSE CharAt(screen, c + 1)]
    OBVIOUS
  <1>3. \A c : CharAt(screen, c) \in Character
    BY DEF CharAt, ScreenOK, Screen, Character, Empty
  <1>4. \A c \in Cell \cap rest : new[c] \in Character
    BY <1>2, <1>3 DEF Character, Empty
  <1>5. PICK s : s = Put(screen, rest, new)
    OBVIOUS
  <1>6. PICK t : t = MarkModified(s, here)
    OBVIOUS
  <1>7. /\ there \in DOMAIN screen.fields /\ here \in CellsOf(screen, there)
        /\ rest \subseteq CellsOf(screen, there)
    BY <1>1, TypableIs, OwnCell DEF Delete, CellsOf
  <1>8. EditsField(screen, s, there)
    BY <1>4, <1>5, <1>7, PutKeeps, PutEdits
  <1>9. Stroke(t)
    BY <1>6, <1>7, <1>8, StrokeMarks, StrokeAdjusts
  <1>10. Edit(t, FALSE)
    BY <1>1, <1>2, <1>5, <1>6 DEF Delete
  <1> QED BY <1>9, <1>10 DEF Strokes

\* Erase Input.
LEMMA EraseInputKeeps ==
  ASSUME EditInv, EraseInput
  PROVE  Typed
  <1>1. PICK s : s = NullInput(screen)
    OBVIOUS
  <1>2. ScreenOK(s) /\ ScreenOK(HomeCursor(s))
    BY <1>1, NullInputKeeps, HomeCursorKeeps DEF EditInv
  <1>3. CASE ic = NoIC
    BY <1>1, <1>2, <1>3 DEF EraseInput, Typed
  <1>4. CASE ic # NoIC
    <2>1. PICK t : t = [s EXCEPT !.cursor = ic]
      OBVIOUS
    <2>2. ScreenOK(t)
      BY <1>2, <1>4, <2>1, MovedKeeps DEF EditInv
    <2> QED BY <1>1, <1>4, <2>1, <2>2 DEF EraseInput, Typed
  <1> QED BY <1>3, <1>4

\* Keys that move, toggle or send.
LEMMA KeyKeeps ==
  ASSUME EditInv,
         \/ \E c \in Cell : MoveCursor(c) \/ ClickCell(c)
         \/ ToggleInsert \/ SendAttention
         \/ \E noFields \in BOOLEAN : SendAid(noFields)
  PROVE  Typed
  <1>0. ScreenOK(screen)
    BY DEF EditInv
  <1>1. ASSUME NEW c \in Cell, MoveCursor(c) \/ ClickCell(c) PROVE Typed
    <2>1. screen' = [screen EXCEPT !.cursor = c] /\ Idle /\ UNCHANGED <<ic, record, saved>>
      BY <1>1 DEF MoveCursor, ClickCell
    <2>2. PICK s : s = [screen EXCEPT !.cursor = c]
      OBVIOUS
    <2>3. ScreenOK(s)
      BY <1>0, <2>2, MovedKeeps
    <2> QED BY <2>1, <2>2, <2>3 DEF Typed
  <1>2. CASE ToggleInsert \/ SendAttention
    BY <1>0, <1>2 DEF ToggleInsert, SendAttention, Typed
  <1>3. ASSUME NEW noFields \in BOOLEAN, SendAid(noFields) PROVE Typed
    <2>1. screen' = RightAdjust(screen, here) /\ Idle /\ UNCHANGED <<ic, record, saved>>
      BY <1>3 DEF SendAid
    <2>2. ScreenOK(RightAdjust(screen, here))
      BY <1>0, RightAdjustKeeps
    <2> QED BY <2>1, <2>2 DEF Typed
  <1> QED BY <1>1, <1>2, <1>3

\* The keys that edit.
LEMMA EditingStrokes ==
  ASSUME ScreenOK(screen),
         \/ \E ch \in Keys : TypeCharacter(ch)
         \/ \E key \in ExitKey : LeaveField(key)
         \/ Tab \/ BackTab \/ EraseEOF \/ EraseField \/ Dup \/ Backspace \/ Delete
  PROVE  Strokes
  <1>1. ASSUME NEW ch \in Keys, TypeCharacter(ch) PROVE Strokes
    BY <1>1, TypeCharacterStrokes
  <1>2. ASSUME NEW key \in ExitKey, LeaveField(key) PROVE Strokes
    BY <1>2, LeaveFieldStrokes
  <1> QED BY <1>1, <1>2, TabStrokes, EraseStrokes, DupStrokes, DeleteStrokes

\* Whatever the operator does.
LEMMA OperatorKeeps ==
  ASSUME EditInv, Operator
  PROVE  Typed
  <1>1. ScreenOK(screen)
    BY DEF EditInv
  <1>2. CASE Strokes
    BY <1>2, EditedIs DEF Strokes, Stroke
  <1>3. CASE EraseInput
    BY <1>3, EraseInputKeeps
  <1>4. CASE \/ \E c \in Cell : MoveCursor(c) \/ ClickCell(c)
             \/ ToggleInsert \/ SendAttention
             \/ \E noFields \in BOOLEAN : SendAid(noFields)
    BY <1>4, KeyKeeps
  <1> QED BY <1>1, <1>2, <1>3, <1>4, EditingStrokes DEF Operator


-----------------------------------------------------------------------------
(* The host.                                                               *)

\* What an order brings with it.
LEMMA OrderIs ==
  ASSUME NEW o \in Order
  PROVE  /\ o.op = "control" => o.null \in BOOLEAN /\ o.unlock \in BOOLEAN
         /\ o.op \in {"position", "insertCursor"} => o.at \in Cell
         /\ o.op = "field" => /\ o.length \in 1 .. Size /\ o.protected \in BOOLEAN
                              /\ o.kind \in FieldKind
         /\ o.op = "text" => o.text \in Seq(Character)
         /\ o.op = "repeatTo" => o.to \in Cell /\ o.char \in Character
         /\ o.op = "eraseTo" => o.to \in Cell
         /\ o.op = "roll" => /\ o.top \in Nat /\ o.bottom \in Nat /\ o.lines \in Nat
                             /\ o.up \in BOOLEAN
         /\ o.op = "image" => o.cells \in [Cell -> Character \cup {"marker"}]
  BY DEF Order

\* The record r is the one being carried out, one order later.
After(r) ==
  /\ r \in Type /\ r.open /\ r.restoring = record.restoring
  /\ r.orders = Tail(record.orders)

\* An order carried out.
Carried ==
  /\ ScreenOK(screen') /\ ic' \in Cell \cup {NoIC} /\ saved' = saved
  /\ record.open /\ record.orders # << >> /\ After(record')

\* The order that is due, and the record behind it.
LEMMA DueIs ==
  ASSUME EditInv, NEW op, Due(op)
  PROVE  /\ record.open /\ record.orders # << >>
         /\ order \in Order /\ order.op = op /\ at \in Nat /\ record.attr \in Attribute
         /\ After(Rest)
  <1>1. record \in Type /\ record.open /\ record.orders # << >> /\ record.orders \in Seq(Order)
    BY DEF EditInv, Due, Type
  <1>2. Head(record.orders) \in Order /\ Tail(record.orders) \in Seq(Order)
    BY <1>1
  <1>3. Head(record.orders).op = op
    BY DEF Due
  <1>4. PICK rest : rest = Tail(record.orders)
    OBVIOUS
  <1>5. Rest = [record EXCEPT !.orders = rest]
    BY <1>4 DEF Rest
  <1>6. After(Rest)
    BY <1>1, <1>2, <1>4, <1>5 DEF After, Type
  <1> QED BY <1>1, <1>2, <1>3, <1>6 DEF order, at, Type

\* An order may change where the renderer goes on, and how.
LEMMA AfterAt ==
  ASSUME NEW r, After(r), NEW place \in Nat, NEW attribute \in Attribute, NEW unlock \in BOOLEAN
  PROVE  /\ After([r EXCEPT !.at = place]) /\ After([r EXCEPT !.attr = attribute])
         /\ After([r EXCEPT !.unlock = unlock])
         /\ After([r EXCEPT !.at = place, !.attr = attribute])
         /\ After([r EXCEPT !.unlock = unlock, !.at = place, !.attr = attribute])
  <1>1. /\ r = [open |-> r.open, orders |-> r.orders, at |-> r.at, attr |-> r.attr,
                 unlock |-> r.unlock, restoring |-> r.restoring]
        /\ r.open \in BOOLEAN /\ r.orders \in Seq(Order) /\ r.at \in Nat /\ r.attr \in Attribute
        /\ r.unlock \in BOOLEAN /\ r.restoring \in BOOLEAN
        /\ r.open /\ r.restoring = record.restoring /\ r.orders = Tail(record.orders)
    BY DEF After, Type
  <1>2. After([r EXCEPT !.at = place]) /\ After([r EXCEPT !.attr = attribute])
    BY <1>1 DEF After, Type
  <1>3. After([r EXCEPT !.unlock = unlock])
    BY <1>1 DEF After, Type
  <1>4. After([r EXCEPT !.at = place, !.attr = attribute])
    BY <1>1 DEF After, Type
  <1>5. After([r EXCEPT !.unlock = unlock, !.at = place, !.attr = attribute])
    BY <1>1 DEF After, Type
  <1> QED BY <1>2, <1>3, <1>4, <1>5

\* Where the renderer goes on.
LEMMA PlaceIs ==
  ASSUME EditInv, NEW op, Due(op)
  PROVE  /\ at + 1 \in Nat
         /\ \A n \in Nat : After(Advanced(n))
         /\ \A to \in Cell : After(Behind(to))
  <1>1. at \in Nat /\ After(Rest)
    BY DueIs
  <1>2. ASSUME NEW n \in Nat PROVE After(Advanced(n))
    <2>1. PICK place : place = IF at + n < Size THEN at + n ELSE (Rows - 1) * Cols
      OBVIOUS
    <2>2. (Rows - 1) * Cols \in Nat
      BY SizeIs
    <2>3. at + n \in Nat
      BY <1>1
    <2>4. place \in Nat
      BY <2>1, <2>2, <2>3
    <2>5. After([Rest EXCEPT !.at = place])
      BY <1>1, <2>4, AfterAt, DueIs DEF After, Type
    <2> QED BY <2>1, <2>5 DEF Advanced
  <1>3. ASSUME NEW to \in Cell PROVE After(Behind(to))
    <2>1. (IF to + 1 < Size THEN to + 1 ELSE Size - 1) \in Nat
      BY SizeIs
    <2> QED BY <1>1, <2>1, AfterAt DEF Behind, After, Type
  <1> QED BY <1>1, <1>2, <1>3


\* Clear Unit, Clear Format Table, Start of Header.
LEMMA ClearKeeps ==
  ASSUME EditInv, ClearUnit \/ ClearFormatTable \/ StartOfHeader
  PROVE  Carried
  <1>0. ScreenOK(screen) /\ ic \in Cell \cup {NoIC}
    BY DEF EditInv
  <1>1. ScreenOK(Cleared) /\ ScreenOK(ClearFields(screen))
    BY <1>0, ClearedIs, ClearFieldsKeeps
  <1>2. CASE ClearUnit
    <2>1. After(Rest) /\ record.open /\ record.orders # << >>
      BY <1>2, DueIs DEF ClearUnit
    <2> QED BY <1>1, <1>2, <2>1 DEF ClearUnit, Carried
  <1>3. CASE ClearFormatTable
    <2>1. After(Rest) /\ record.open /\ record.orders # << >>
      BY <1>3, DueIs DEF ClearFormatTable
    <2> QED BY <1>0, <1>1, <1>3, <2>1 DEF ClearFormatTable, Carried
  <1>4. CASE StartOfHeader
    <2>1. After(Rest) /\ record.open /\ record.orders # << >>
      BY <1>4, DueIs DEF StartOfHeader
    <2> QED BY <1>1, <1>4, <2>1 DEF StartOfHeader, Carried
  <1> QED BY <1>2, <1>3, <1>4

\* The control characters of Write To Display.
LEMMA ControlKeeps ==
  ASSUME EditInv, ControlCharacters
  PROVE  Carried
  <1>0. ScreenOK(screen) /\ ic \in Cell \cup {NoIC}
    BY DEF EditInv
  <1>1. /\ After(Rest) /\ record.open /\ record.orders # << >>
        /\ order \in Order /\ order.op = "control"
    BY DueIs DEF ControlCharacters
  <1>2. order.unlock \in BOOLEAN
    BY <1>1, OrderIs
  <1>3. PICK nulled, these :
          /\ nulled = IF order.null THEN NullInput(screen) ELSE screen
          /\ these = CASE order.reset = "all"       -> DOMAIN screen.fields
                       [] order.reset = "nonBypass" -> InputFields(screen)
                       [] OTHER                     -> {}
    OBVIOUS
  <1>4. ScreenOK(nulled)
    BY <1>0, <1>3, NullInputKeeps
  <1>5. ScreenOK(ResetModified(nulled, these))
    BY <1>4, ResetModifiedKeeps
  <1>6. screen' = ResetModified(nulled, these)
    BY <1>3 DEF ControlCharacters
  <1>7. PICK r : r = [Rest EXCEPT !.unlock = order.unlock, !.at = 0, !.attr = "open"]
    OBVIOUS
  <1>8. After(r)
    BY <1>1, <1>2, <1>7, AfterAt, CharactersAre
  <1>9. record' = r /\ UNCHANGED <<ic, saved>>
    BY <1>7 DEF ControlCharacters
  <1> QED BY <1>0, <1>1, <1>5, <1>6, <1>8, <1>9 DEF Carried

\* Set Buffer Address, Insert Cursor, Read, Roll.
LEMMA PositionKeeps ==
  ASSUME EditInv, SetPosition \/ InsertCursor \/ ReadFields \/ Roll
  PROVE  Carried
  <1>0. ScreenOK(screen) /\ ic \in Cell \cup {NoIC}
    BY DEF EditInv
  <1>1. CASE SetPosition
    <2>1. /\ After(Rest) /\ record.open /\ record.orders # << >>
          /\ order \in Order /\ order.op = "position"
      BY <1>1, DueIs DEF SetPosition
    <2>2. order.at \in Nat
      BY <2>1, OrderIs, SizeIs
    <2>3. After([Rest EXCEPT !.at = order.at])
      BY <2>1, <2>2, AfterAt, CharactersAre
    <2> QED BY <1>0, <1>1, <2>1, <2>3 DEF SetPosition, Carried
  <1>2. CASE InsertCursor
    <2>1. /\ After(Rest) /\ record.open /\ record.orders # << >>
          /\ order \in Order /\ order.op = "insertCursor"
      BY <1>2, DueIs DEF InsertCursor
    <2>2. PICK c : c = order.at
      OBVIOUS
    <2>3. c \in Cell
      BY <2>1, <2>2, OrderIs
    <2>4. PICK s : s = [screen EXCEPT !.cursor = c]
      OBVIOUS
    <2>5. ScreenOK(s)
      BY <1>0, <2>3, <2>4, MovedKeeps
    <2> QED BY <1>2, <2>1, <2>2, <2>3, <2>4, <2>5 DEF InsertCursor, Carried
  <1>3. CASE ReadFields
    <2>1. After(Rest) /\ record.open /\ record.orders # << >>
      BY <1>3, DueIs DEF ReadFields
    <2> QED BY <1>0, <1>3, <2>1 DEF ReadFields, Carried
  <1>4. CASE Roll
    <2>1. /\ After(Rest) /\ record.open /\ record.orders # << >>
          /\ order \in Order /\ order.op = "roll"
      BY <1>4, DueIs DEF Roll
    <2>2. order.top \in Nat /\ order.bottom \in Nat /\ order.lines \in Nat /\ order.up \in BOOLEAN
      BY <2>1, OrderIs
    <2>3. ScreenOK(ScrollRegion(screen, order.top, order.bottom, order.lines, order.up))
      BY <1>0, <2>2, ScrollKeeps
    <2> QED BY <1>0, <1>4, <2>1, <2>3 DEF Roll, Carried
  <1> QED BY <1>1, <1>2, <1>3, <1>4

\* Start Field.
LEMMA DefineFieldKeeps ==
  ASSUME EditInv, DefineField
  PROVE  Carried
  <1>0. ScreenOK(screen) /\ ic \in Cell \cup {NoIC}
    BY DEF EditInv
  <1>1. /\ After(Rest) /\ record.open /\ record.orders # << >> /\ at \in Nat
        /\ order \in Order /\ order.op = "field"
    BY DueIs DEF DefineField
  <1>2. order.length \in 1 .. Size /\ order.protected \in BOOLEAN /\ order.kind \in FieldKind
    BY <1>1, OrderIs
  <1>3. ScreenOK(StartField(screen, at, order.length, order.protected, order.kind))
    BY <1>0, <1>1, <1>2, StartFieldKeeps
  <1>4. PICK place, attribute : place = at + 1
                                /\ attribute = IF order.protected THEN "protected" ELSE "open"
    OBVIOUS
  <1>5. place \in Nat /\ attribute \in Attribute
    BY <1>1, <1>4, CharactersAre
  <1>6. After([Rest EXCEPT !.at = place, !.attr = attribute])
    BY <1>1, <1>5, AfterAt
  <1> QED BY <1>0, <1>1, <1>3, <1>4, <1>6 DEF DefineField, Carried

\* Text, attribute bytes, Repeat and Erase to Address.
LEMMA WrittenOrderKeeps ==
  ASSUME EditInv, Text \/ AttributeByte \/ RepeatToAddress \/ EraseToAddress
  PROVE  Carried
  <1>0. ScreenOK(screen) /\ ic \in Cell \cup {NoIC}
    BY DEF EditInv
  <1>1. CASE Text
    <2>1. /\ Due("text") /\ record.open /\ record.orders # << >> /\ at \in Nat
          /\ order \in Order /\ order.op = "text" /\ record.attr \in Attribute
      BY <1>1, DueIs DEF Text
    <2>2. order.text \in Seq(Character)
      BY <2>1, OrderIs
    <2>3. Len(order.text) \in Nat
      BY <2>2
    <2>4. After(Advanced(Len(order.text)))
      BY <2>1, <2>3, PlaceIs
    <2>5. ScreenOK(WriteText(screen, at, order.text, record.attr))
      BY <1>0, <2>1, <2>2, WriteTextKeeps
    <2> QED BY <1>0, <1>1, <2>1, <2>4, <2>5 DEF Text, Carried
  <1>2. CASE AttributeByte
    <2>1. Due("attribute") /\ record.open /\ record.orders # << >>
      BY <1>2, DueIs DEF AttributeByte
    <2>2. After(Advanced(1))
      BY <2>1, PlaceIs
    <2>3. After([Advanced(1) EXCEPT !.attr = "open"])
      BY <2>2, AfterAt, CharactersAre
    <2>4. ScreenOK(Write(screen, at, "blank", "marker"))
      BY <1>0, WriteKeeps, CharactersAre
    <2> QED BY <1>0, <1>2, <2>1, <2>3, <2>4 DEF AttributeByte, Carried
  <1>3. CASE RepeatToAddress
    <2>1. /\ Due("repeatTo") /\ record.open /\ record.orders # << >>
          /\ order \in Order /\ order.op = "repeatTo" /\ record.attr \in Attribute
      BY <1>3, DueIs DEF RepeatToAddress
    <2>2. order.to \in Cell /\ order.char \in Character
      BY <2>1, OrderIs
    <2>3. After(Behind(order.to))
      BY <2>1, <2>2, PlaceIs
    <2>4. ScreenOK(FillTo(screen, at, order.to, order.char, record.attr))
      BY <1>0, <2>1, <2>2, FillToKeeps
    <2> QED BY <1>0, <1>3, <2>1, <2>3, <2>4 DEF RepeatToAddress, Carried
  <1>4. CASE EraseToAddress
    <2>1. /\ Due("eraseTo") /\ record.open /\ record.orders # << >>
          /\ order \in Order /\ order.op = "eraseTo"
      BY <1>4, DueIs DEF EraseToAddress
    <2>2. order.to \in Cell
      BY <2>1, OrderIs
    <2>3. After(Behind(order.to))
      BY <2>1, <2>2, PlaceIs
    <2>4. ScreenOK(FillTo(screen, at, order.to, "blank", "open"))
      BY <1>0, FillToKeeps, CharactersAre
    <2> QED BY <1>0, <1>4, <2>1, <2>3, <2>4 DEF EraseToAddress, Carried
  <1> QED BY <1>1, <1>2, <1>3, <1>4


\* The image leaves the fields and shows what it was sent with.
LEMMA ImageKeeps ==
  ASSUME EditInv, Image
  PROVE  /\ Carried
         /\ screen'.fields = screen.fields /\ screen'.order = screen.order
         /\ \A c \in Cell : order.cells[c] # "marker" => screen'.chars[c] = order.cells[c]
  <1>0. ScreenOK(screen) /\ ic \in Cell \cup {NoIC}
    BY DEF EditInv
  <1>1. /\ After(Rest) /\ record.open /\ record.orders # << >> /\ record.attr \in Attribute
        /\ order \in Order /\ order.op = "image"
    BY DueIs DEF Image
  <1>2. PICK cells : cells = order.cells
    OBVIOUS
  <1>3. cells \in [Cell -> Character \cup {"marker"}]
    BY <1>1, <1>2, OrderIs
  <1>4. PICK written : written = {c \in Cell : cells[c] # "marker"}
    OBVIOUS
  <1>5. \A c \in Cell \cap written : cells[c] \in Character
    BY <1>3, <1>4
  <1>6. PICK s : s = Put(screen, written, cells)
    OBVIOUS
  <1>7. ScreenOK(s)
    BY <1>0, <1>5, <1>6, PutKeeps
  <1>8. PICK g : g = [c \in Cell |-> IF c \in written THEN record.attr ELSE s.attr[c]]
    OBVIOUS
  <1>9. s.chars \in [Cell -> Character] /\ s.attr \in [Cell -> Attribute] /\ s \in Screen
    BY <1>7 DEF ScreenOK, Screen
  <1>10. g \in [Cell -> Attribute]
    BY <1>1, <1>8, <1>9
  <1>11. PICK t : t = [s EXCEPT !.attr = g]
    OBVIOUS
  <1>12. t \in Screen /\ t.fields = s.fields /\ t.order = s.order /\ t.chars = s.chars
    BY <1>9, <1>10, <1>11 DEF Screen
  <1>13. ScreenOK(t)
    BY <1>7, <1>12, SameTable
  <1>14. screen' = t
    <2>1. screen' = [Put(screen, written, cells) EXCEPT
                       !.attr = [c \in Cell |-> IF c \in written THEN record.attr ELSE @[c]]]
      BY <1>2, <1>4 DEF Image
    <2> QED BY <1>6, <1>8, <1>11, <2>1
  <1>15. Carried
    BY <1>0, <1>1, <1>13, <1>14 DEF Image, Carried
  <1>16. /\ s.fields = screen.fields /\ s.order = screen.order
         /\ \A c \in Cell : c \in written => s.chars[c] = cells[c]
    BY <1>0, <1>6 DEF Put, ScreenOK, Screen
  <1>17. \A c \in Cell : order.cells[c] # "marker" => screen'.chars[c] = order.cells[c]
    BY <1>2, <1>4, <1>12, <1>14, <1>16
  <1> QED BY <1>12, <1>14, <1>15, <1>16, <1>17

\* Whatever order is carried out.
LEMMA OrdersKeep ==
  ASSUME EditInv, Orders
  PROVE  Carried
  BY ClearKeeps, ControlKeeps, PositionKeeps, DefineFieldKeeps, WrittenOrderKeeps, ImageKeeps
     DEF Orders

\* Where the elements of a concatenation come from.
LEMMA ConcatAt ==
  ASSUME NEW S, NEW e \in Seq(S), NEW f \in Seq(S), NEW g, g = e \o f
  PROVE  /\ g \in Seq(S) /\ Len(g) = Len(e) + Len(f)
         /\ \A i \in 1 .. Len(e) : g[i] = e[i]
         /\ \A i \in 1 .. Len(f) : g[Len(e) + i] = f[i]
  OBVIOUS

\* The orders a saved screen is sent away as: the format table cleared, an
\* address and a field for each of its fields, the image, the cursor.
LEMMA SaveOrdersAre ==
  ASSUME NEW s, ScreenOK(s)
  PROVE  LET n == Len(s.order)  o == SaveOrders(s) IN
         /\ n \in Nat /\ o \in Seq(Order) /\ Len(o) = 2 * n + 5
         /\ o[1].op = "clear" /\ o[2].op = "clearFormat"
         /\ o[3].op = "control" /\ o[3].null = FALSE /\ o[3].reset = "none"
         /\ \A j \in 0 .. n - 1 :
              /\ o[4 + 2 * j].op = "position" /\ o[4 + 2 * j].at = s.order[j + 1] - 1
              /\ LET f == s.fields[s.order[j + 1]] IN
                 o[5 + 2 * j] = [op |-> "field", length |-> f.length, protected |-> f.protected,
                                 kind |-> f.kind]
         /\ o[2 * n + 4].op = "image"
         /\ \A c \in Cell : s.attr[c] # "marker" =>
              o[2 * n + 4].cells[c] = IF s.chars[c] = "dup" THEN "blank" ELSE Shown(s.chars[c])
         /\ \A c \in Cell : s.attr[c] # "marker" => o[2 * n + 4].cells[c] # "marker"
         /\ o[2 * n + 5].op = "insertCursor"
  <1>0. s \in Screen /\ s.order \in Seq(Cell) /\ Len(s.order) \in Nat
    BY DEF ScreenOK, Screen
  <1>1. PICK n : n = Len(s.order)
    OBVIOUS
  <1> DEFINE addressOf(i) == s.order[(i + 1) \div 2]
             fieldOrder(i) ==
               LET a == s.order[(i + 1) \div 2]
                   f == s.fields[a]
               IN  IF i % 2 = 1 THEN [op |-> "position", at |-> AttributeAddress(a)]
                   ELSE [op |-> "field", length |-> f.length, protected |-> f.protected, kind |-> f.kind]
             shown(c) == IF s.attr[c] = "marker" THEN "marker"
                         ELSE IF s.chars[c] \in {"null", "dup"} THEN "blank" ELSE s.chars[c]
  <1>2. PICK head : head = << [op |-> "clear"], [op |-> "clearFormat"],
                              [op |-> "control", null |-> FALSE, reset |-> "none", unlock |-> TRUE] >>
    OBVIOUS
  <1>3. PICK middle : middle = [i \in 1 .. 2 * n |-> fieldOrder(i)]
    OBVIOUS
  <1>4. PICK tail : tail = << [op |-> "image", cells |-> [c \in Cell |-> shown(c)]],
                              [op |-> "insertCursor", at |-> s.cursor] >>
    OBVIOUS
  <1>5. SaveOrders(s) = head \o middle \o tail
    BY <1>1, <1>2, <1>3, <1>4 DEF SaveOrders
  <1>6. n \in Nat /\ 2 * n \in Nat
    BY <1>0, <1>1
  <1>7. /\ head \in Seq(Order) /\ Len(head) = 3
        /\ head[1].op = "clear" /\ head[2].op = "clearFormat"
        /\ head[3].op = "control" /\ head[3].null = FALSE /\ head[3].reset = "none"
    <2>1. /\ [op |-> "clear"] \in Order /\ [op |-> "clearFormat"] \in Order
          /\ [op |-> "control", null |-> FALSE, reset |-> "none", unlock |-> TRUE] \in Order
      BY DEF Order
    <2> QED BY <1>2, <2>1
  <1>8. ASSUME NEW j \in 0 .. n - 1
        PROVE  /\ s.order[j + 1] \in DOMAIN s.fields
               /\ fieldOrder(2 * j + 1) = [op |-> "position", at |-> s.order[j + 1] - 1]
               /\ LET f == s.fields[s.order[j + 1]] IN
                  fieldOrder(2 * j + 2) = [op |-> "field", length |-> f.length,
                                           protected |-> f.protected, kind |-> f.kind]
    <2>1. (2 * j + 1 + 1) \div 2 = j + 1 /\ (2 * j + 2 + 1) \div 2 = j + 1
      BY <1>6
    <2>2. (2 * j + 1) % 2 = 1 /\ (2 * j + 2) % 2 = 0
      BY <1>6
    <2>3. j + 1 \in 1 .. Len(s.order)
      BY <1>0, <1>1
    <2>4. s.order[j + 1] \in DOMAIN s.fields
      BY <2>3 DEF ScreenOK, Lists
    <2> QED BY <2>1, <2>2, <2>4 DEF AttributeAddress
  <1>9. ASSUME NEW i \in 1 .. 2 * n
        PROVE  \E j \in 0 .. n - 1 : i = 2 * j + 1 \/ i = 2 * j + 2
    <2>1. (i - 1) \div 2 \in 0 .. n - 1
      BY <1>6
    <2>2. i = 2 * ((i - 1) \div 2) + 1 \/ i = 2 * ((i - 1) \div 2) + 2
      BY <1>6
    <2> QED BY <2>1, <2>2
  <1>10. ASSUME NEW j \in 0 .. n - 1
         PROVE  fieldOrder(2 * j + 1) \in Order /\ fieldOrder(2 * j + 2) \in Order
    <2>1. PICK a : a = s.order[j + 1]
      OBVIOUS
    <2>2. a \in DOMAIN s.fields
      BY <1>8, <2>1
    <2>3. a \in Cell /\ a >= 1 /\ s.fields[a] \in Field
      BY <1>0, <2>2, TableTypes
    <2>4. a - 1 \in Cell
      BY <2>3, SizeIs DEF Cell
    <2>5. PICK f : f = s.fields[a]
      OBVIOUS
    <2>6. f.length \in 1 .. Size /\ f.protected \in BOOLEAN /\ f.kind \in FieldKind
      BY <2>3, <2>5 DEF Field
    <2>7. [op |-> "position", at |-> a - 1] \in Order
      BY <2>4 DEF Order
    <2>8. [op |-> "field", length |-> f.length, protected |-> f.protected, kind |-> f.kind] \in Order
      BY <2>6 DEF Order
    <2> HIDE DEF fieldOrder
    <2> QED BY <1>8, <2>1, <2>5, <2>7, <2>8
  <1>11. middle \in Seq(Order) /\ Len(middle) = 2 * n /\ \A i \in 1 .. 2 * n : middle[i] = fieldOrder(i)
    <2> HIDE DEF fieldOrder
    <2>1. \A i \in 1 .. 2 * n : fieldOrder(i) \in Order
      BY <1>9, <1>10
    <2> QED BY <1>3, <1>6, <2>1
  <1>12. \A c \in Cell : shown(c) \in Character \cup {"marker"}
    BY <1>0, CharactersAre DEF Screen
  <1>13. /\ tail \in Seq(Order) /\ Len(tail) = 2 /\ tail[1].op = "image" /\ tail[2].op = "insertCursor"
         /\ tail[1].cells = [c \in Cell |-> shown(c)]
    <2>1. PICK cells : cells = [c \in Cell |-> shown(c)]
      OBVIOUS
    <2> HIDE DEF shown
    <2>2. cells \in [Cell -> Character \cup {"marker"}]
      BY <1>12, <2>1
    <2>3. [op |-> "image", cells |-> cells] \in Order
      BY <2>2 DEF Order
    <2>4. [op |-> "insertCursor", at |-> s.cursor] \in Order
      BY <1>0 DEF Screen, Order
    <2> QED BY <1>4, <2>1, <2>3, <2>4
  <1>14. \A c \in Cell : s.attr[c] # "marker" =>
           /\ tail[1].cells[c] = IF s.chars[c] = "dup" THEN "blank" ELSE Shown(s.chars[c])
           /\ tail[1].cells[c] # "marker"
    BY <1>0, <1>13, CharactersAre DEF Shown, Screen
  <1> HIDE DEF fieldOrder, shown
  <1>15. PICK o : o = SaveOrders(s)
    OBVIOUS
  <1>16. /\ o \in Seq(Order) /\ Len(o) = 2 * n + 5
         /\ \A i \in 1 .. 3 : o[i] = head[i]
         /\ \A i \in 1 .. 2 * n : o[3 + i] = middle[i]
         /\ o[2 * n + 4] = tail[1] /\ o[2 * n + 5] = tail[2]
    <2>1. PICK front : front = head \o middle
      OBVIOUS
    <2>2. /\ front \in Seq(Order) /\ Len(front) = 3 + 2 * n
          /\ \A i \in 1 .. 3 : front[i] = head[i]
          /\ \A i \in 1 .. 2 * n : front[3 + i] = middle[i]
      <3>1. /\ front \in Seq(Order) /\ Len(front) = Len(head) + Len(middle)
            /\ \A i \in 1 .. Len(head) : front[i] = head[i]
            /\ \A i \in 1 .. Len(middle) : front[Len(head) + i] = middle[i]
        <4>1. head \in Seq(Order) /\ middle \in Seq(Order)
          BY <1>7, <1>11
        <4>2. front \in Seq(Order)
          BY <2>1, <4>1, ConcatAt
        <4>3. Len(front) = Len(head) + Len(middle)
          BY <2>1, <4>1, ConcatAt
        <4>4. \A i \in 1 .. Len(head) : front[i] = head[i]
          BY <2>1, <4>1, ConcatAt
        <4>5. \A i \in 1 .. Len(middle) : front[Len(head) + i] = middle[i]
          BY <2>1, <4>1, ConcatAt
        <4> QED BY <4>2, <4>3, <4>4, <4>5
      <3> QED BY <1>7, <1>11, <3>1
    <2>3. o = front \o tail
      BY <1>5, <1>15, <2>1
    <2>4. /\ o \in Seq(Order) /\ Len(o) = 3 + 2 * n + 2
          /\ \A i \in 1 .. 3 + 2 * n : o[i] = front[i]
          /\ \A i \in 1 .. 2 : o[3 + 2 * n + i] = tail[i]
      <3>1. /\ o \in Seq(Order) /\ Len(o) = Len(front) + Len(tail)
            /\ \A i \in 1 .. Len(front) : o[i] = front[i]
            /\ \A i \in 1 .. Len(tail) : o[Len(front) + i] = tail[i]
        <4>1. front \in Seq(Order) /\ tail \in Seq(Order)
          BY <1>13, <2>2
        <4>2. o \in Seq(Order)
          BY <2>3, <4>1, ConcatAt
        <4>3. Len(o) = Len(front) + Len(tail)
          BY <2>3, <4>1, ConcatAt
        <4>4. \A i \in 1 .. Len(front) : o[i] = front[i]
          BY <2>3, <4>1, ConcatAt
        <4>5. \A i \in 1 .. Len(tail) : o[Len(front) + i] = tail[i]
          BY <2>3, <4>1, ConcatAt
        <4> QED BY <4>2, <4>3, <4>4, <4>5
      <3> QED BY <1>13, <2>2, <3>1
    <2>5. o[2 * n + 4] = tail[1] /\ o[2 * n + 5] = tail[2]
      <3>1. /\ 1 \in 1 .. 2 /\ 2 \in 1 .. 2
            /\ 3 + 2 * n + 1 = 2 * n + 4 /\ 3 + 2 * n + 2 = 2 * n + 5
        BY <1>6
      <3>2. o[3 + 2 * n + 1] = tail[1] /\ o[3 + 2 * n + 2] = tail[2]
        BY <2>4, <3>1
      <3> QED BY <3>1, <3>2
    <2>6. 3 + 2 * n + 2 = 2 * n + 5
      BY <1>6
    <2>7. \A i \in 1 .. 3 : i \in 1 .. 3 + 2 * n
      BY <1>6
    <2>8. \A i \in 1 .. 2 * n : 3 + i \in 1 .. 3 + 2 * n
      BY <1>6
    <2> QED BY <2>2, <2>4, <2>5, <2>6, <2>7, <2>8
  <1>17. ASSUME NEW j \in 0 .. n - 1
         PROVE  /\ o[4 + 2 * j].op = "position" /\ o[4 + 2 * j].at = s.order[j + 1] - 1
                /\ LET f == s.fields[s.order[j + 1]] IN
                   o[5 + 2 * j] = [op |-> "field", length |-> f.length, protected |-> f.protected,
                                   kind |-> f.kind]
    <2>1. /\ 2 * j + 1 \in 1 .. 2 * n /\ 2 * j + 2 \in 1 .. 2 * n
          /\ 3 + (2 * j + 1) = 4 + 2 * j /\ 3 + (2 * j + 2) = 5 + 2 * j
      BY <1>6
    <2>2. o[4 + 2 * j] = fieldOrder(2 * j + 1) /\ o[5 + 2 * j] = fieldOrder(2 * j + 2)
      BY <1>11, <1>16, <2>1
    <2>3. o[4 + 2 * j] = [op |-> "position", at |-> s.order[j + 1] - 1]
      BY <1>8, <2>2
    <2>4. LET f == s.fields[s.order[j + 1]] IN
          o[5 + 2 * j] = [op |-> "field", length |-> f.length, protected |-> f.protected,
                          kind |-> f.kind]
      BY <1>8, <2>2
    <2> QED BY <2>3, <2>4
  <1>18. 1 \in 1 .. 3 /\ 2 \in 1 .. 3 /\ 3 \in 1 .. 3
    OBVIOUS
  <1>19. o[1] = head[1] /\ o[2] = head[2] /\ o[3] = head[3]
    BY <1>16, <1>18
  <1> QED BY <1>1, <1>6, <1>7, <1>13, <1>14, <1>15, <1>16, <1>17, <1>19


\* The ends of a record, and a screen sent away.
LEMMA ClosedIs ==
  /\ Closed \in Type /\ Closed.open = FALSE /\ Closed.restoring = FALSE /\ Closed.orders = << >>
  <1>1. << >> \in Seq(Order)
    OBVIOUS
  <1> QED BY <1>1, CharactersAre DEF Closed, Type

\* A record, or the orders of a saved screen, begin.
LEMMA BeginRecordKeeps ==
  ASSUME EditInv, NEW orders \in Seq(Order), NEW restoring \in BOOLEAN,
         BeginRecord(orders, restoring)
  PROVE  /\ EditInv' /\ record'.restoring = restoring /\ record'.orders = orders
         /\ UNCHANGED <<screen, saved>>
  <1>1. PICK r : r = [Closed EXCEPT !.open = TRUE, !.orders = orders, !.restoring = restoring]
    OBVIOUS
  <1>2. r \in Type /\ r.open = TRUE /\ r.restoring = restoring /\ r.orders = orders
    BY <1>1, ClosedIs DEF Type
  <1>3. record' = r /\ UNCHANGED <<screen, ic, saved>>
    BY <1>1 DEF BeginRecord
  <1> QED BY <1>2, <1>3 DEF EditInv

\* The record ends, and may place the cursor.
LEMMA EndRecordKeeps ==
  ASSUME EditInv, EndRecord
  PROVE  EditInv' /\ record'.restoring = FALSE
  <1>0. ScreenOK(screen) /\ ic \in Cell \cup {NoIC}
    BY DEF EditInv
  <1>1. record' = Closed /\ ic' = ic /\ (saved' = {} \/ saved' = saved)
    BY DEF EndRecord
  <1>2. ScreenOK(screen')
    <2>1. CASE screen' = screen
      BY <1>0, <2>1
    <2>2. CASE ic \in InputCells(screen) /\ screen' = [screen EXCEPT !.cursor = ic]
      <3>1. ic # NoIC
        <4>1. PICK a \in DOMAIN screen.fields : ic \in CellsOf(screen, a)
          BY <2>2 DEF InputCells, InputFields
        <4>2. a \in Nat /\ CellsOf(screen, a) = a .. a + screen.fields[a].length - 1
              /\ screen.fields[a].length \in Nat
          BY <1>0, <4>1, TableTypes DEF ScreenOK
        <4>3. ic >= a
          BY <4>1, <4>2
        <4> QED BY <4>2, <4>3 DEF NoIC
      <3>2. PICK s : s = [screen EXCEPT !.cursor = ic]
        OBVIOUS
      <3>3. ScreenOK(s)
        BY <1>0, <3>1, <3>2, MovedKeeps
      <3> QED BY <2>2, <3>2, <3>3
    <2>3. CASE ic = NoIC /\ screen' = HomeCursor(screen)
      BY <1>0, <2>3, HomeCursorKeeps
    <2>4. CASE ic # NoIC /\ screen' = HomeCursor([screen EXCEPT !.cursor = ic])
      <3>1. PICK s : s = [screen EXCEPT !.cursor = ic]
        OBVIOUS
      <3>2. ScreenOK(s)
        BY <1>0, <2>4, <3>1, MovedKeeps
      <3>3. ScreenOK(HomeCursor(s))
        BY <3>2, HomeCursorKeeps
      <3> QED BY <2>4, <3>1, <3>3
    <2> QED BY <2>1, <2>2, <2>3, <2>4 DEF EndRecord
  <1> QED BY <1>0, <1>1, <1>2, ClosedIs DEF EditInv

\* Save Screen changes no field.
LEMMA SaveScreenKeeps ==
  ASSUME EditInv, SaveScreen
  PROVE  EditInv' /\ record' = record /\ Idle
  <1>1. saved' = {screen} /\ Idle /\ UNCHANGED <<screen, ic, record>>
    BY DEF SaveScreen
  <1> QED BY <1>1 DEF EditInv

\* Every step keeps what the fields are.
LEMMA EditNext ==
  ASSUME EditInv, [Next]_vars
  PROVE  EditInv'
  <1>1. CASE Operator
    <2>1. Typed
      BY <1>1, OperatorKeeps
    <2> QED BY <2>1 DEF Typed, EditInv
  <1>2. ASSUME NEW orders \in Formats, BeginRecord(orders, FALSE) PROVE EditInv'
    <2>1. orders \in Seq(Order)
      BY FormatsAssumption
    <2> QED BY <1>2, <2>1, BeginRecordKeeps
  <1>3. CASE Orders
    <2>1. Carried
      BY <1>3, OrdersKeep
    <2> QED BY <2>1 DEF Carried, After, EditInv
  <1>4. CASE EndRecord
    BY <1>4, EndRecordKeeps
  <1>5. CASE SaveScreen
    BY <1>5, SaveScreenKeeps
  <1>6. CASE RestoreScreen
    <2>1. PICK s \in saved : BeginRecord(SaveOrders(s), TRUE)
      BY <1>6 DEF RestoreScreen
    <2>2. ScreenOK(s)
      BY DEF EditInv
    <2>3. SaveOrders(s) \in Seq(Order)
      BY <2>2, SaveOrdersAre
    <2> QED BY <2>1, <2>3, BeginRecordKeeps
  <1>7. CASE UNCHANGED vars
    BY <1>7 DEF vars, EditInv
  <1> QED BY <1>1, <1>2, <1>3, <1>4, <1>5, <1>6, <1>7 DEF Next, Host

\* The cleared screen a session starts with.
LEMMA EditInit ==
  ASSUME Init
  PROVE  EditInv
  BY ClearedIs, ClosedIs DEF Init, EditInv

\* Whatever the operator types and the host sends, no cell of the screen ever
\* belongs to two fields (setField drops what a new field overlaps).
THEOREM FieldsNeverShare == Spec => []FieldsDisjoint
  <1>1. Init => EditInv
    BY EditInit
  <1>2. EditInv /\ [Next]_vars => EditInv'
    BY EditNext
  <1>3. EditInv => FieldsDisjoint
    BY DEF EditInv, ScreenOK, FieldsDisjoint
  <1> QED BY <1>1, <1>2, <1>3, PTL DEF Spec


-----------------------------------------------------------------------------
(* Restore Screen, order by order.                                         *)

Unmarked(f) == [f EXCEPT !.modified = FALSE]

\* A field that differs from another in its mark alone.
LEMMA UnmarkedIs ==
  ASSUME NEW f \in Field, NEW g \in Field, g.length = f.length, g.protected = f.protected,
         g.kind = f.kind, g.modified = FALSE
  PROVE  g = Unmarked(f)
  BY DEF Unmarked, Field

\* The first j fields of the saved screen s are the fields of t.
Brought(s, t, j) ==
  /\ Len(t.order) = j
  /\ \A i \in 1 .. j : /\ t.order[i] = s.order[i]
                       /\ t.fields[s.order[i]] = Unmarked(s.fields[s.order[i]])

Pictured(s, t) ==
  \A c \in Cell : s.attr[c] # "marker" =>
    t.chars[c] = IF s.chars[c] = "dup" THEN "blank" ELSE Shown(s.chars[c])

\* k orders of the saved screen are carried out, the others wait.
Left(s, k) ==
  /\ Len(record.orders) = 2 * Len(s.order) + 5 - k
  /\ \A i \in 1 .. Len(record.orders) : record.orders[i] = SaveOrders(s)[k + i]

\* They brought j fields, and are between the address of the next one and the
\* field itself, or between two fields.
Stage(s, k, j) ==
  LET n == Len(s.order) IN
  /\ Left(s, k)
  /\ k <= 3 => j = 0
  /\ k >= 2 * n + 3 => j = n
  /\ k >= 3 /\ k <= 2 * n + 3 =>
       \/ k = 3 + 2 * j
       \/ k = 4 + 2 * j /\ j < n /\ record.at = s.order[j + 1] - 1
  /\ k >= 1 => Brought(s, screen, j)
  /\ k >= 2 * n + 4 => Pictured(s, screen)

RestoreStage ==
  record.restoring =>
    \E s \in saved : \E k \in 0 .. 2 * Len(s.order) + 5 : \E j \in 0 .. Len(s.order) : Stage(s, k, j)

RestoreInv == EditInv /\ RestoreStage

\* The next field comes back and drops none of those before it.
LEMMA FieldBrought ==
  ASSUME NEW s, ScreenOK(s), NEW t, ScreenOK(t), NEW j \in 0 .. Len(s.order) - 1, Brought(s, t, j),
         NEW a, a = s.order[j + 1], NEW f, f = s.fields[a],
         NEW u, u = StartField(t, a - 1, f.length, f.protected, f.kind)
  PROVE  Brought(s, u, j + 1)
  <1>0. /\ s \in Screen /\ s.order \in Seq(Cell) /\ Len(s.order) \in Nat
        /\ j \in Nat /\ j + 1 \in 1 .. Len(s.order)
    BY DEF ScreenOK, Screen
  <1>1. a \in DOMAIN s.fields
    BY <1>0 DEF ScreenOK, Lists
  <1>2. a \in Cell /\ a \in Nat /\ a >= 1 /\ f \in Field
    BY <1>0, <1>1, TableTypes
  <1>3. /\ f.length \in 1 .. Size /\ f.protected \in BOOLEAN /\ f.kind \in FieldKind
        /\ a \in Cell \ {0} /\ (a - 1) + 1 = a
    BY <1>2 DEF Field
  <1>4. PICK m : m = Write(t, a - 1, "blank", "marker")
    OBVIOUS
  <1>5. ScreenOK(m) /\ m.fields = t.fields /\ m.order = t.order
    BY <1>4, WriteKeeps, CharactersAre
  <1>6. PICK v : v = SetField(m, a, f.length, f.protected, f.kind)
    OBVIOUS
  <1>7. PICK new : new = [length |-> f.length, protected |-> f.protected, modified |-> FALSE,
                          kind |-> f.kind]
    OBVIOUS
  <1>8. HasNew(m, v, a, new)
    BY <1>3, <1>5, <1>6, <1>7, SetFieldTable
  <1>9. new = Unmarked(f)
    <2>1. new \in Field
      BY <1>3, <1>7 DEF Field
    <2> QED BY <1>2, <1>7, <2>1, UnmarkedIs
  <1>10. /\ m.order \in Seq(Cell) /\ Len(m.order) = j
         /\ \A i \in 1 .. j : m.order[i] = s.order[i] /\ m.order[i] \in DOMAIN m.fields
                              /\ m.fields[s.order[i]] = Unmarked(s.fields[s.order[i]])
    <2>1. m.order \in Seq(Cell)
      BY <1>5 DEF ScreenOK, Screen
    <2>2. /\ Len(m.order) = j
          /\ \A i \in 1 .. j : m.order[i] = s.order[i]
                               /\ m.fields[s.order[i]] = Unmarked(s.fields[s.order[i]])
      BY <1>5 DEF Brought
    <2>3. \A i \in 1 .. Len(m.order) : m.order[i] \in DOMAIN m.fields
      BY <1>5 DEF ScreenOK, Lists
    <2> QED BY <2>1, <2>2, <2>3
  <1>11. ASSUME NEW b \in DOMAIN m.fields
         PROVE  \E i \in 1 .. j : b = s.order[i]
    <2>1. PICK i \in 1 .. Len(m.order) : m.order[i] = b
      BY <1>5 DEF ScreenOK, Lists
    <2> QED BY <1>10, <2>1
  <1>12. ASSUME NEW b \in DOMAIN m.fields
         PROVE  b \notin Overlapped(m, a, new.length) /\ b # a
    <2>1. PICK i \in 1 .. j : b = s.order[i]
      BY <1>11
    <2>2. i \in 1 .. Len(s.order) /\ i # j + 1
      BY <1>0
    <2>3. b # a /\ b \in DOMAIN s.fields
      BY <1>0, <2>1, <2>2 DEF ScreenOK, Lists
    <2>4. CellsOf(s, b) \cap CellsOf(s, a) = {}
      BY <1>1, <2>3 DEF ScreenOK, Disjoint
    <2>5. /\ b \in Nat /\ s.fields[b].length \in Nat /\ s.fields[b].length >= 1
          /\ CellsOf(s, b) = b .. b + s.fields[b].length - 1 /\ s.fields[b] \in Field
      BY <1>0, <2>3, TableTypes
    <2>6. f.length \in Nat /\ f.length >= 1 /\ CellsOf(s, a) = a .. a + f.length - 1
      BY <1>0, <1>1, TableTypes
    <2>7. ~(b < a + f.length /\ b + s.fields[b].length - 1 >= a)
      BY <1>2, <2>4, <2>5, <2>6, OverlapIs
    <2>8. m.fields[b].length = s.fields[b].length
      BY <1>10, <2>1, <2>5 DEF Unmarked, Field
    <2>9. new.length = f.length
      BY <1>7
    <2>10. EndOf(m, b) = b + s.fields[b].length - 1
      BY <2>8 DEF EndOf
    <2> QED BY <2>3, <2>7, <2>9, <2>10 DEF Overlapped
  <1>13. DOMAIN m.fields \ Overlapped(m, a, new.length) = DOMAIN m.fields
    BY <1>12
  <1>14. Among(m.order, DOMAIN m.fields) = m.order
    BY <1>10, AmongAll
  <1>15. /\ v \in Screen /\ v.fields[a] = new /\ v.order = Append(m.order, a)
         /\ \A b \in DOMAIN m.fields : b # a => v.fields[b] = m.fields[b]
    BY <1>8, <1>13, <1>14 DEF HasNew
  <1>16. /\ Len(v.order) = j + 1 /\ v.order[j + 1] = a
         /\ \A i \in 1 .. j : v.order[i] = m.order[i]
    BY <1>2, <1>10, <1>15, AppendProperties
  <1>17. Brought(s, v, j + 1)
    <2>1. \A i \in 1 .. j : v.order[i] = s.order[i]
                            /\ v.fields[s.order[i]] = Unmarked(s.fields[s.order[i]])
      BY <1>10, <1>12, <1>15, <1>16
    <2>2. v.order[j + 1] = s.order[j + 1] /\ v.fields[s.order[j + 1]] = Unmarked(s.fields[s.order[j + 1]])
      BY <1>9, <1>15, <1>16
    <2>3. \A i \in 1 .. j + 1 : i \in 1 .. j \/ i = j + 1
      BY <1>0
    <2> QED BY <1>16, <2>1, <2>2, <2>3 DEF Brought
  <1>18. ScreenOK(v)
    BY <1>3, <1>5, <1>6, SetFieldDisjoint
  <1>19. PICK w : w = Write(v, a + f.length, "blank", "marker")
    OBVIOUS
  <1>20. w.fields = v.fields /\ w.order = v.order
    BY <1>18, <1>19, WriteKeeps, CharactersAre
  <1>21. u = v \/ u = w
    BY <1>2, <1>3, <1>4, <1>6, <1>19 DEF StartField
  <1>22. Brought(s, w, j + 1)
    BY <1>17, <1>20, Zenon DEF Brought
  <1> QED BY <1>17, <1>21, <1>22


\* Which action carries out an order.
LEMMA OrderDecides ==
  ASSUME Orders
  PROVE  /\ order.op = "clear" => ClearUnit
         /\ order.op = "clearFormat" => ClearFormatTable
         /\ order.op = "control" => ControlCharacters
         /\ order.op = "position" => SetPosition
         /\ order.op = "field" => DefineField
         /\ order.op = "image" => Image
         /\ order.op = "insertCursor" => InsertCursor
  <1>1. ClearUnit => order.op = "clear"
    BY DEF ClearUnit, Due, order
  <1>2. ClearFormatTable => order.op = "clearFormat"
    BY DEF ClearFormatTable, Due, order
  <1>3. StartOfHeader => order.op = "startOfHeader"
    BY DEF StartOfHeader, Due, order
  <1>4. ControlCharacters => order.op = "control"
    BY DEF ControlCharacters, Due, order
  <1>5. SetPosition => order.op = "position"
    BY DEF SetPosition, Due, order
  <1>6. InsertCursor => order.op = "insertCursor"
    BY DEF InsertCursor, Due, order
  <1>7. DefineField => order.op = "field"
    BY DEF DefineField, Due, order
  <1>8. Text => order.op = "text"
    BY DEF Text, Due, order
  <1>9. AttributeByte => order.op = "attribute"
    BY DEF AttributeByte, Due, order
  <1>10. RepeatToAddress => order.op = "repeatTo"
    BY DEF RepeatToAddress, Due, order
  <1>11. EraseToAddress => order.op = "eraseTo"
    BY DEF EraseToAddress, Due, order
  <1>12. Roll => order.op = "roll"
    BY DEF Roll, Due, order
  <1>13. ReadFields => order.op = "read"
    BY DEF ReadFields, Due, order
  <1>14. Image => order.op = "image"
    BY DEF Image, Due, order
  <1> QED BY <1>1, <1>2, <1>3, <1>4, <1>5, <1>6, <1>7, <1>8, <1>9, <1>10, <1>11, <1>12, <1>13,
             <1>14 DEF Orders

\* One order less.
LEMMA LeftIs ==
  ASSUME EditInv, NEW s, ScreenOK(s), NEW k \in 0 .. 2 * Len(s.order) + 5, Left(s, k), Carried
  PROVE  /\ k + 1 \in 0 .. 2 * Len(s.order) + 5 /\ Left(s, k + 1)'
         /\ order = SaveOrders(s)[k + 1]
  <1>0. Len(s.order) \in Nat /\ k \in Nat
    BY SaveOrdersAre
  <1>1. record.orders \in Seq(Order) /\ record.orders # << >> /\ record'.orders = Tail(record.orders)
    BY DEF Carried, After, EditInv, Type
  <1>2. Len(record.orders) \in Nat /\ Len(record.orders) >= 1 /\ Head(record.orders) = record.orders[1]
    BY <1>1
  <1>3. Len(record.orders) = 2 * Len(s.order) + 5 - k
    BY DEF Left
  <1>4. k + 1 \in 0 .. 2 * Len(s.order) + 5
    BY <1>0, <1>2, <1>3
  <1>5. order = SaveOrders(s)[k + 1]
    <2>1. 1 \in 1 .. Len(record.orders)
      BY <1>2
    <2>2. record.orders[1] = SaveOrders(s)[k + 1]
      BY <2>1 DEF Left
    <2> QED BY <1>2, <2>2 DEF order
  <1>6. /\ Len(record'.orders) = Len(record.orders) - 1
        /\ \A i \in 1 .. Len(record.orders) - 1 : record'.orders[i] = record.orders[i + 1]
    BY <1>1
  <1>7. Len(record'.orders) = 2 * Len(s.order) + 5 - (k + 1)
    <2>1. PICK n, m, rest : /\ n = Len(s.order) /\ m = Len(record.orders)
                            /\ rest = Len(record'.orders)
      OBVIOUS
    <2>2. n \in Nat /\ k \in Nat /\ m = 2 * n + 5 - k /\ rest = m - 1
      BY <1>0, <1>3, <1>6, <2>1
    <2>3. rest = 2 * n + 5 - (k + 1)
      BY <2>2
    <2> QED BY <2>1, <2>3
  <1>8. ASSUME NEW i \in 1 .. Len(record'.orders)
        PROVE  record'.orders[i] = SaveOrders(s)[(k + 1) + i]
    <2>1. i \in 1 .. Len(record.orders) - 1 /\ i + 1 \in 1 .. Len(record.orders)
      BY <1>2, <1>6
    <2>2. record.orders[i + 1] = SaveOrders(s)[k + (i + 1)]
      BY <2>1 DEF Left
    <2>3. k + (i + 1) = (k + 1) + i
      BY <1>0
    <2> QED BY <1>6, <2>1, <2>2, <2>3
  <1>9. Left(s, k + 1)'
    BY <1>7, <1>8 DEF Left
  <1> QED BY <1>4, <1>5, <1>9

\* The first three orders leave no field.
LEMMA CleanStage ==
  ASSUME EditInv, NEW s, ScreenOK(s), NEW k \in 0 .. 2, NEW j, Stage(s, k, j), Orders
  PROVE  Stage(s, k + 1, 0)'
  <1> DEFINE n == Len(s.order)
  <1>0. n \in Nat /\ k \in 0 .. 2 * n + 5 /\ k \in Nat /\ ScreenOK(screen)
    BY SaveOrdersAre DEF EditInv
  <1>1. Left(s, k) /\ Carried /\ j = 0
    BY <1>0, OrdersKeep DEF Stage
  <1>2. Left(s, k + 1)' /\ order = SaveOrders(s)[k + 1]
    BY <1>0, <1>1, LeftIs
  <1>3. Brought(s, screen', 0)
    <2>0. /\ SaveOrders(s)[1].op = "clear" /\ SaveOrders(s)[2].op = "clearFormat"
          /\ SaveOrders(s)[3].op = "control" /\ SaveOrders(s)[3].null = FALSE
          /\ SaveOrders(s)[3].reset = "none"
      BY SaveOrdersAre, Zenon
    <2>1. CASE k = 0
      <3>0. order = SaveOrders(s)[1]
        BY <1>2, <2>1
      <3>1. order.op = "clear"
        BY <2>0, <3>0
      <3>2. screen' = Cleared
        BY <3>1, OrderDecides DEF ClearUnit
      <3> QED BY <3>2, ClearedIs DEF Brought
    <2>2. CASE k = 1
      <3>0. order = SaveOrders(s)[2]
        BY <1>2, <2>2
      <3>1. order.op = "clearFormat"
        BY <2>0, <3>0
      <3>2. screen' = ClearFields(screen)
        BY <3>1, OrderDecides DEF ClearFormatTable
      <3>3. screen'.order = << >>
        BY <1>0, <3>2, ClearFieldsKeeps
      <3> QED BY <3>3 DEF Brought
    <2>3. CASE k = 2
      <3>0. order = SaveOrders(s)[3]
        BY <1>2, <2>3
      <3>1. order.op = "control" /\ order.null = FALSE /\ order.reset = "none"
        BY <2>0, <3>0
      <3>2. screen' = ResetModified(screen, {})
        BY <3>1, OrderDecides DEF ControlCharacters
      <3>3. screen'.order = screen.order
        BY <1>0, <3>2 DEF ResetModified, ScreenOK, Screen
      <3>4. Brought(s, screen, 0)
        BY <1>1, <2>3 DEF Stage
      <3> QED BY <3>3, <3>4 DEF Brought
    <2> QED BY <1>0, <2>1, <2>2, <2>3
  <1>4. /\ k + 1 >= 2 * n + 3 => n = 0
        /\ ~(k + 1 >= 2 * n + 4)
        /\ k + 1 >= 3 => k + 1 = 3 + 2 * 0
    BY <1>0
  <1> QED BY <1>2, <1>3, <1>4 DEF Stage


\* The next field's address, or the field itself.
LEMMA FieldStage ==
  ASSUME EditInv, NEW s, ScreenOK(s), NEW k \in 3 .. 2 * Len(s.order) + 2,
         NEW j \in 0 .. Len(s.order), Stage(s, k, j), Orders
  PROVE  \E i \in 0 .. Len(s.order) : Stage(s, k + 1, i)'
  <1>0. /\ Len(s.order) \in Nat /\ k \in Nat /\ j \in Nat /\ ScreenOK(screen)
        /\ k \in 0 .. 2 * Len(s.order) + 5
    BY SaveOrdersAre DEF EditInv
  <1>1. PICK n : n = Len(s.order)
    OBVIOUS
  <1>2. Left(s, k) /\ Carried /\ Brought(s, screen, j)
    BY <1>0, OrdersKeep DEF Stage
  <1>3. Left(s, k + 1)' /\ order = SaveOrders(s)[k + 1]
    BY <1>0, <1>2, LeftIs
  <1>4. \/ k = 3 + 2 * j
        \/ k = 4 + 2 * j /\ j < n /\ record.at = s.order[j + 1] - 1
    <2>1. k >= 3 /\ k <= 2 * Len(s.order) + 3
      BY <1>0
    <2> QED BY <1>1, <2>1 DEF Stage
  <1>5. n \in Nat /\ j \in 0 .. n /\ k <= 2 * n + 2
    BY <1>0, <1>1
  <1>6. j \in 0 .. n - 1
    BY <1>0, <1>4, <1>5
  <1>7. PICK a, f : a = s.order[j + 1] /\ f = s.fields[a]
    OBVIOUS
  <1>8. /\ SaveOrders(s)[4 + 2 * j].op = "position" /\ SaveOrders(s)[4 + 2 * j].at = a - 1
        /\ SaveOrders(s)[5 + 2 * j]
             = [op |-> "field", length |-> f.length, protected |-> f.protected, kind |-> f.kind]
    <2>1. j \in 0 .. Len(s.order) - 1
      BY <1>1, <1>6
    <2>2. \A i \in 0 .. Len(s.order) - 1 :
              /\ SaveOrders(s)[4 + 2 * i].op = "position"
              /\ SaveOrders(s)[4 + 2 * i].at = s.order[i + 1] - 1
              /\ LET g == s.fields[s.order[i + 1]] IN
                 SaveOrders(s)[5 + 2 * i] = [op |-> "field", length |-> g.length,
                                             protected |-> g.protected, kind |-> g.kind]
      BY SaveOrdersAre, Zenon
    <2> QED BY <1>7, <2>1, <2>2
  <1>9. CASE k = 3 + 2 * j
    <2>1. k + 1 = 4 + 2 * j /\ ~(k + 1 <= 3) /\ ~(k + 1 >= 2 * n + 3) /\ ~(k + 1 >= 2 * n + 4) /\ j < n
      BY <1>5, <1>6, <1>9
    <2>2. order.op = "position" /\ order.at = a - 1
      BY <1>3, <1>8, <2>1
    <2>3. SetPosition
      BY <2>2, OrderDecides
    <2>4. screen' = screen /\ record' = [Rest EXCEPT !.at = order.at]
      BY <2>3 DEF SetPosition
    <2>5. record \in Type
      BY DEF EditInv
    <2>6. record'.at = a - 1
      BY <2>2, <2>4, <2>5 DEF Rest, Type
    <2>7. Brought(s, screen', j)
      BY <1>2, <2>4
    <2>8. Stage(s, k + 1, j)'
      BY <1>1, <1>3, <1>7, <2>1, <2>6, <2>7 DEF Stage
    <2> QED BY <2>8
  <1>10. CASE k = 4 + 2 * j /\ record.at = s.order[j + 1] - 1
    <2>1. /\ k + 1 = 5 + 2 * j /\ k + 1 = 3 + 2 * (j + 1) /\ ~(k + 1 <= 3)
          /\ k + 1 >= 2 * n + 3 => j + 1 = n
          /\ ~(k + 1 >= 2 * n + 4) /\ j + 1 \in 0 .. n
      BY <1>5, <1>6, <1>10
    <2>2. order = [op |-> "field", length |-> f.length, protected |-> f.protected, kind |-> f.kind]
      BY <1>3, <1>8, <2>1
    <2>3. order.op = "field" /\ order.length = f.length /\ order.protected = f.protected
          /\ order.kind = f.kind
      BY <2>2
    <2>4. DefineField
      BY <2>3, OrderDecides
    <2>5. screen' = StartField(screen, a - 1, f.length, f.protected, f.kind)
      BY <1>7, <1>10, <2>3, <2>4 DEF DefineField, at
    <2>6. PICK u : u = StartField(screen, a - 1, f.length, f.protected, f.kind)
      OBVIOUS
    <2>7. j \in 0 .. Len(s.order) - 1
      BY <1>1, <1>6
    <2>8. Brought(s, u, j + 1)
      BY <1>0, <1>2, <1>7, <2>6, <2>7, FieldBrought
    <2>9. Brought(s, screen', j + 1)
      BY <2>5, <2>6, <2>8
    <2>10. Stage(s, k + 1, j + 1)'
      BY <1>1, <1>3, <2>1, <2>9 DEF Stage
    <2> QED BY <1>1, <2>1, <2>10
  <1> QED BY <1>4, <1>9, <1>10

\* The image, and the cursor.
LEMMA LastStage ==
  ASSUME EditInv, NEW s, ScreenOK(s), NEW k \in 2 * Len(s.order) + 3 .. 2 * Len(s.order) + 4,
         NEW j, Stage(s, k, j), Orders
  PROVE  Stage(s, k + 1, Len(s.order))'
  <1>0. /\ Len(s.order) \in Nat /\ k \in Nat /\ ScreenOK(screen) /\ s \in Screen
        /\ k \in 0 .. 2 * Len(s.order) + 5
    BY SaveOrdersAre DEF EditInv, ScreenOK
  <1>1. PICK n : n = Len(s.order)
    OBVIOUS
  <1>2. n \in Nat /\ (k = 2 * n + 3 \/ k = 2 * n + 4)
    BY <1>0, <1>1
  <1>3. /\ k >= 1 /\ k >= 2 * n + 3 /\ ~(k + 1 <= 3) /\ ~(k + 1 <= 2 * n + 3)
        /\ k = 2 * n + 3 => k + 1 = 2 * n + 4
        /\ k = 2 * n + 4 => k >= 2 * n + 4 /\ k + 1 = 2 * n + 5
    BY <1>2
  <1>4. Left(s, k) /\ Carried /\ j = n /\ Brought(s, screen, n)
        /\ (k = 2 * n + 4 => Pictured(s, screen))
    BY <1>1, <1>3, OrdersKeep DEF Stage
  <1>5. Left(s, k + 1)' /\ order = SaveOrders(s)[k + 1]
    BY <1>0, <1>4, LeftIs
  <1>6. /\ SaveOrders(s)[2 * n + 4].op = "image" /\ SaveOrders(s)[2 * n + 5].op = "insertCursor"
        /\ \A c \in Cell : s.attr[c] # "marker" =>
             SaveOrders(s)[2 * n + 4].cells[c] = IF s.chars[c] = "dup" THEN "blank" ELSE Shown(s.chars[c])
        /\ \A c \in Cell : s.attr[c] # "marker" => SaveOrders(s)[2 * n + 4].cells[c] # "marker"
    BY <1>1, SaveOrdersAre, Zenon
  <1>7. Brought(s, screen', n) /\ Pictured(s, screen')
    <2>1. CASE k = 2 * n + 3
      <3>1. order = SaveOrders(s)[2 * n + 4]
        BY <1>3, <1>5, <2>1
      <3>2. Image
        BY <1>6, <3>1, OrderDecides
      <3>3. /\ screen'.fields = screen.fields /\ screen'.order = screen.order
            /\ \A c \in Cell : order.cells[c] # "marker" => screen'.chars[c] = order.cells[c]
        BY <3>2, ImageKeeps
      <3>4. Brought(s, screen', n)
        BY <1>4, <3>3 DEF Brought
      <3>5. Pictured(s, screen')
        BY <1>6, <3>1, <3>3 DEF Pictured
      <3> QED BY <3>4, <3>5
    <2>2. CASE k = 2 * n + 4
      <3>1. order.op = "insertCursor"
        BY <1>3, <1>5, <1>6, <2>2
      <3>2. screen' = [screen EXCEPT !.cursor = order.at]
        BY <3>1, OrderDecides DEF InsertCursor
      <3>3. /\ screen'.fields = screen.fields /\ screen'.order = screen.order
            /\ screen'.chars = screen.chars
        BY <1>0, <3>2 DEF ScreenOK, Screen
      <3> QED BY <1>4, <2>2, <3>3 DEF Brought, Pictured
    <2> QED BY <1>2, <2>1, <2>2
  <1> QED BY <1>1, <1>3, <1>5, <1>7 DEF Stage


\* Every step keeps how far Restore Screen has come.
LEMMA RestoreNext ==
  ASSUME RestoreInv, [Next]_vars
  PROVE  RestoreInv'
  <1>0. EditInv /\ EditInv' /\ RestoreStage
    BY EditNext DEF RestoreInv
  <1> SUFFICES RestoreStage'
    BY <1>0 DEF RestoreInv
  <1>1. ~record.open => record.restoring = FALSE
    BY <1>0, ClosedIs DEF EditInv
  <1>2. CASE Operator
    <2>1. Idle /\ record' = record
      BY <1>0, <1>2, OperatorKeeps DEF Typed
    <2> QED BY <1>1, <2>1 DEF RestoreStage, Idle
  <1>3. ASSUME NEW orders \in Formats, BeginRecord(orders, FALSE) PROVE RestoreStage'
    <2>1. orders \in Seq(Order)
      BY FormatsAssumption
    <2>2. record'.restoring = FALSE
      BY <1>0, <1>3, <2>1, BeginRecordKeeps
    <2> QED BY <2>2 DEF RestoreStage
  <1>4. CASE Orders /\ record.restoring
    <2>0. PICK s \in saved :
            \E k \in 0 .. 2 * Len(s.order) + 5 : \E j \in 0 .. Len(s.order) : Stage(s, k, j)
      BY <1>0, <1>4 DEF RestoreStage
    <2>1. PICK k \in 0 .. 2 * Len(s.order) + 5, j \in 0 .. Len(s.order) : Stage(s, k, j)
      BY <2>0
    <2>2. ScreenOK(s) /\ Len(s.order) \in Nat /\ Carried
      BY <1>0, <1>4, <2>1, OrdersKeep, SaveOrdersAre DEF EditInv
    <2>3. k + 1 \in 0 .. 2 * Len(s.order) + 5
      BY <1>0, <2>1, <2>2, LeftIs DEF Stage
    <2>4. \E i \in 0 .. Len(s.order) : Stage(s, k + 1, i)'
      <3>1. CASE k \in 0 .. 2
        <4>1. Stage(s, k + 1, 0)' /\ 0 \in 0 .. Len(s.order)
          BY <1>0, <1>4, <2>1, <2>2, <3>1, CleanStage
        <4> QED BY <4>1
      <3>2. CASE k \in 3 .. 2 * Len(s.order) + 2
        BY <1>0, <1>4, <2>1, <2>2, <3>2, FieldStage
      <3>3. CASE k \in 2 * Len(s.order) + 3 .. 2 * Len(s.order) + 4
        <4>1. Stage(s, k + 1, Len(s.order))' /\ Len(s.order) \in 0 .. Len(s.order)
          BY <1>0, <1>4, <2>1, <2>2, <3>3, LastStage
        <4> QED BY <4>1
      <3>4. \/ k \in 0 .. 2 \/ k \in 3 .. 2 * Len(s.order) + 2
            \/ k \in 2 * Len(s.order) + 3 .. 2 * Len(s.order) + 4
        <4>1. PICK n : n = Len(s.order)
          OBVIOUS
        <4>2. n \in Nat /\ k \in 0 .. 2 * n + 5 /\ k + 1 \in 0 .. 2 * n + 5
          BY <2>1, <2>2, <2>3, <4>1
        <4>3. k \in 0 .. 2 \/ k \in 3 .. 2 * n + 2 \/ k \in 2 * n + 3 .. 2 * n + 4
          BY <4>2
        <4> QED BY <4>1, <4>3
      <3> QED BY <3>1, <3>2, <3>3, <3>4
    <2>5. saved' = saved
      BY <2>2 DEF Carried
    <2> QED BY <2>1, <2>3, <2>4, <2>5 DEF RestoreStage
  <1>5. CASE Orders /\ ~record.restoring
    <2>1. record'.restoring = record.restoring
      BY <1>0, <1>5, OrdersKeep DEF Carried, After
    <2> QED BY <1>5, <2>1 DEF RestoreStage
  <1>6. CASE EndRecord
    <2>1. record'.restoring = FALSE
      BY <1>0, <1>6, EndRecordKeeps
    <2> QED BY <2>1 DEF RestoreStage
  <1>7. CASE SaveScreen
    <2>1. record' = record /\ Idle
      BY <1>0, <1>7, SaveScreenKeeps
    <2> QED BY <1>1, <2>1 DEF RestoreStage, Idle
  <1>8. CASE RestoreScreen
    <2>1. PICK s \in saved : BeginRecord(SaveOrders(s), TRUE)
      BY <1>8 DEF RestoreScreen
    <2>2. ScreenOK(s)
      BY <1>0, <2>1 DEF EditInv
    <2>3. SaveOrders(s) \in Seq(Order) /\ Len(SaveOrders(s)) = 2 * Len(s.order) + 5
          /\ Len(s.order) \in Nat
      BY <2>2, SaveOrdersAre, Zenon
    <2>4. record'.orders = SaveOrders(s) /\ saved' = saved
      BY <1>0, <2>1, <2>3, BeginRecordKeeps
    <2>5. Left(s, 0)'
      <3>1. \A i \in 1 .. Len(SaveOrders(s)) : 0 + i = i
        BY <2>3
      <3>2. Len(SaveOrders(s)) = 2 * Len(s.order) + 5 - 0
        BY <2>3
      <3> QED BY <2>4, <3>1, <3>2 DEF Left
    <2>6. ~(0 >= 2 * Len(s.order) + 3) /\ ~(0 >= 2 * Len(s.order) + 4)
          /\ 0 \in 0 .. 2 * Len(s.order) + 5 /\ 0 \in 0 .. Len(s.order)
      BY <2>3
    <2>7. Stage(s, 0, 0)'
      BY <2>5, <2>6 DEF Stage
    <2> QED BY <2>1, <2>4, <2>6, <2>7 DEF RestoreStage
  <1>9. CASE UNCHANGED vars
    BY <1>0, <1>9 DEF vars, RestoreStage, Stage, Left
  <1> QED BY <1>2, <1>3, <1>4, <1>5, <1>6, <1>7, <1>8, <1>9 DEF Next, Host

\* When no order is left, the screen is the saved one.
LEMMA RestoreShows ==
  ASSUME RestoreInv
  PROVE  RestoreKeepsText
  <1> SUFFICES ASSUME Restored, NEW s \in saved
               PROVE  /\ screen.order = s.order
                      /\ \A a \in DOMAIN s.fields :
                           screen.fields[a] = [s.fields[a] EXCEPT !.modified = FALSE]
                      /\ \A c \in Cell : s.attr[c] # "marker" =>
                           screen.chars[c] = IF s.chars[c] = "dup" THEN "blank" ELSE Shown(s.chars[c])
    BY DEF RestoreKeepsText
  <1>0. PICK t \in saved :
          \E k \in 0 .. 2 * Len(t.order) + 5 : \E j \in 0 .. Len(t.order) : Stage(t, k, j)
    BY DEF RestoreInv, RestoreStage, Restored
  <1>1. PICK k \in 0 .. 2 * Len(t.order) + 5, j \in 0 .. Len(t.order) : Stage(t, k, j)
    BY <1>0
  <1>2. t = s /\ ScreenOK(s) /\ ScreenOK(screen)
    BY <1>1 DEF RestoreInv, EditInv
  <1>3. Len(record.orders) = 0
    BY DEF Restored
  <1>4. PICK n : n = Len(s.order)
    OBVIOUS
  <1>5. n \in Nat /\ k \in 0 .. 2 * n + 5 /\ 0 = 2 * n + 5 - k
    BY <1>1, <1>2, <1>3, <1>4, SaveOrdersAre DEF Stage, Left
  <1>6. k >= 1 /\ k >= 2 * n + 3 /\ k >= 2 * n + 4
    BY <1>5
  <1>7. Brought(s, screen, n) /\ Pictured(s, screen)
    BY <1>1, <1>2, <1>4, <1>6 DEF Stage
  <1>8. screen.order = s.order
    <2>1. s.order \in Seq(Cell) /\ screen.order \in Seq(Cell)
      BY <1>2 DEF ScreenOK, Screen
    <2>2. Len(screen.order) = Len(s.order) /\ \A i \in 1 .. Len(screen.order) : screen.order[i] = s.order[i]
      BY <1>4, <1>7 DEF Brought
    <2> QED BY <2>1, <2>2, SeqEqual
  <1>9. ASSUME NEW a \in DOMAIN s.fields
        PROVE  screen.fields[a] = [s.fields[a] EXCEPT !.modified = FALSE]
    <2>1. PICK i \in 1 .. Len(s.order) : s.order[i] = a
      BY <1>2 DEF ScreenOK, Lists
    <2>2. screen.fields[s.order[i]] = Unmarked(s.fields[s.order[i]])
      BY <1>4, <1>7, <2>1 DEF Brought
    <2> QED BY <2>1, <2>2 DEF Unmarked
  <1> QED BY <1>7, <1>8, <1>9 DEF Pictured

\* When a Restore Screen is carried out, the fields of the saved screen are back
\* in their order, unmarked, and its text is back, the nulls as blanks: whatever
\* the number of fields (buildSaveScreenResponse, handleRestoreScreen).
THEOREM RestoreIsTrue == Spec => []RestoreKeepsText
  <1>1. Init => RestoreInv
    <2> SUFFICES ASSUME Init PROVE RestoreInv
      OBVIOUS
    <2>1. EditInv
      BY EditInit
    <2>2. record.restoring = FALSE
      BY ClosedIs DEF Init
    <2> QED BY <2>1, <2>2 DEF RestoreInv, RestoreStage
  <1>2. RestoreInv /\ [Next]_vars => RestoreInv'
    BY RestoreNext
  <1>3. RestoreInv => RestoreKeepsText
    BY RestoreShows
  <1> QED BY <1>1, <1>2, <1>3, PTL DEF Spec

-----------------------------------------------------------------------------
(* What is typed, and the answer it is in.                                 *)

\* A field that holds what the operator typed is marked.
Marked(s, typed) ==
  \A c \in typed : c \in Cell /\ \E a \in DOMAIN s.fields : c \in CellsOf(s, a) /\ s.fields[a].modified

\* After a stroke the field that holds what it typed is marked.
LEMMA StrokeIsMarked ==
  ASSUME NEW s, Stroke(s), Marked(screen, history.typed)
  PROVE  Marked(s, Entering(s))
  <1>1. CASE s.fields = screen.fields /\ s.chars = screen.chars
    BY <1>1 DEF Marked, Entering, CellsOf, EndOf
  <1>2. ASSUME NEW a \in DOMAIN screen.fields, EditsField(screen, s, a), s.fields[a].modified
        PROVE  Marked(s, Entering(s))
    <2>1. ASSUME NEW b \in DOMAIN screen.fields
          PROVE  b \in DOMAIN s.fields /\ CellsOf(s, b) = CellsOf(screen, b)
      BY <1>2 DEF EditsField, CellsOf, EndOf
    <2> SUFFICES ASSUME NEW c \in Entering(s)
                 PROVE  c \in Cell /\ \E b \in DOMAIN s.fields : c \in CellsOf(s, b) /\ s.fields[b].modified
      BY DEF Marked
    <2>2. CASE c \in history.typed
      <3>1. c \in Cell
        BY <2>2 DEF Marked
      <3>2. PICK b \in DOMAIN screen.fields : c \in CellsOf(screen, b) /\ screen.fields[b].modified
        BY <2>2 DEF Marked
      <3> QED BY <1>2, <2>1, <3>1, <3>2 DEF EditsField
    <2>3. CASE c \in Cell /\ s.chars[c] # screen.chars[c]
      BY <1>2, <2>1, <2>3 DEF EditsField
    <2> QED BY <2>2, <2>3 DEF Entering
  <1> QED BY <1>1, <1>2 DEF Stroke

\* A field's data: as long as its last character that is not null, nulls as blanks.
LEMMA DataIs ==
  ASSUME NEW s, ScreenOK(s), NEW a \in DOMAIN s.fields, NEW c \in CellsOf(s, a), c \in Cell
  PROVE  LET data == FieldData(s, a) IN
         IF c - a < Len(data) THEN data[c - a + 1] = Shown(s.chars[c]) ELSE s.chars[c] = "null"
  <1>1. PICK length : length = s.fields[a].length
    OBVIOUS
  <1>2. a \in Nat /\ length \in Nat /\ length >= 1 /\ c \in a .. a + length - 1
    BY <1>1, TableTypes DEF ScreenOK
  <1>3. PICK full : full = [i \in 1 .. length |-> s.chars[a + i - 1]]
    OBVIOUS
  <1>4. PICK those : those = {0} \cup {i \in DOMAIN full : full[i] # "null"}
    OBVIOUS
  <1>5. PICK last : last = Max(those)
    OBVIOUS
  <1>6. those \in SUBSET (0 .. length) /\ those # {}
    <2>1. DOMAIN full = 1 .. length
      BY <1>3
    <2>2. \A i \in those : i = 0 \/ i \in 1 .. length
      BY <1>4, <2>1
    <2>3. ASSUME NEW i \in those PROVE i \in 0 .. length
      BY <1>2, <2>2
    <2>4. 0 \in those
      BY <1>4
    <2> QED BY <2>3, <2>4
  <1>7. last \in 0 .. length /\ \A i \in those : i <= last
    <2>1. last \in those /\ \A i \in those : i <= last
      BY <1>2, <1>5, <1>6, GreatestOf
    <2> QED BY <1>6, <2>1
  <1>8. PICK data : data = [i \in 1 .. last |-> IF full[i] = "null" THEN "blank" ELSE full[i]]
    OBVIOUS
  <1>9. FieldData(s, a) = data
    BY <1>1, <1>3, <1>4, <1>5, <1>8 DEF FieldData
  <1>10. PICK k : k = c - a + 1
    OBVIOUS
  <1>11. k \in 1 .. length /\ a + k - 1 = c /\ c - a = k - 1
    BY <1>2, <1>10
  <1>12. full[k] = s.chars[c]
    BY <1>3, <1>11
  <1>13. Len(data) = last
    BY <1>7, <1>8
  <1>14. CASE k <= last
    <2>1. data[k] = Shown(s.chars[c])
      BY <1>7, <1>8, <1>11, <1>12, <1>14 DEF Shown
    <2>2. c - a < Len(data)
      BY <1>7, <1>11, <1>13, <1>14
    <2> QED BY <1>9, <1>10, <2>1, <2>2
  <1>15. CASE ~(k <= last)
    <2>1. k \notin those
      BY <1>7, <1>15
    <2>2. full[k] = "null"
      BY <1>3, <1>4, <1>11, <2>1
    <2>3. ~(c - a < Len(data))
      BY <1>7, <1>11, <1>13, <1>15
    <2> QED BY <1>9, <1>12, <2>2, <2>3
  <1> QED BY <1>14, <1>15

\* What is typed in the input fields of a screen is in an answer.
Tells(fields, s, typed) ==
  \A c \in typed : \A a \in Holding(s, c) \cap InputFields(s) :
    \E i \in 1 .. Len(fields) :
      /\ fields[i].at = a
      /\ IF c - a < Len(fields[i].data) THEN fields[i].data[c - a + 1] = Shown(s.chars[c])
         ELSE s.chars[c] = "null"

\* What the property says of an answer, of one and of the next.
LEMMA AnsweredIs == Answered <=> \A fields \in answer : Tells(fields, screen, history.typed)
  BY DEF Answered, Tells

LEMMA AnsweredNext ==
  ASSUME \A fields \in answer' : Tells(fields, screen', history'.typed)
  PROVE  Answered'
  BY DEF Answered, Tells, Holding, InputFields, Shown, CellsOf, EndOf

\* The fields of an answer are those reported, and what is typed in them is there.
LEMMA AnswerOf ==
  ASSUME NEW s, ScreenOK(s), NEW typed, Marked(s, typed), NEW fields, fields = AidResponse(s)
  PROVE  Tells(fields, s, typed)
  <1> SUFFICES ASSUME NEW c \in typed, NEW a \in Holding(s, c) \cap InputFields(s)
               PROVE  \E i \in 1 .. Len(fields) :
                        /\ fields[i].at = a
                        /\ IF c - a < Len(fields[i].data)
                           THEN fields[i].data[c - a + 1] = Shown(s.chars[c])
                           ELSE s.chars[c] = "null"
    BY DEF Tells
  <1>1. c \in Cell /\ a \in DOMAIN s.fields /\ c \in CellsOf(s, a)
    BY DEF Marked, Holding
  <1>2. s.fields[a].modified
    <2>1. PICK b \in DOMAIN s.fields : c \in CellsOf(s, b) /\ s.fields[b].modified
      BY DEF Marked
    <2>2. a = b
      BY <1>1, <2>1 DEF ScreenOK, Disjoint
    <2> QED BY <2>1, <2>2
  <1>3. PICK those : those = Reported(s, readAll)
    OBVIOUS
  <1>4. a \in those /\ those \subseteq DOMAIN s.fields
    BY <1>2, <1>3 DEF Reported, InputFields
  <1>5. PICK list : list = Among(s.order, those)
    OBVIOUS
  <1>6. Lists(list, those)
    BY <1>4, <1>5, AmongOf DEF ScreenOK
  <1>7. PICK i \in 1 .. Len(list) : list[i] = a
    BY <1>4, <1>6 DEF Lists
  <1>8. fields = [j \in 1 .. Len(list) |-> [at |-> list[j], data |-> FieldData(s, list[j])]]
    BY <1>3, <1>5 DEF AidResponse
  <1>9. Len(list) \in Nat
    BY <1>6 DEF Lists
  <1>10. Len(fields) = Len(list)
    BY <1>8, <1>9
  <1>11. fields[i].at = a /\ fields[i].data = FieldData(s, a)
    BY <1>7, <1>8
  <1>12. IF c - a < Len(FieldData(s, a)) THEN FieldData(s, a)[c - a + 1] = Shown(s.chars[c])
         ELSE s.chars[c] = "null"
    BY <1>1, DataIs
  <1> QED BY <1>7, <1>10, <1>11, <1>12

HistoryType == [typed : SUBSET Cell, edits : Nat, records : Nat]

\* What the operator typed is in marked fields; an answer stands while the keyboard is
\* locked and no record is carried out, and it holds what was typed.
TypedInv ==
  /\ EditInv
  /\ Marked(screen, history.typed)
  /\ history \in HistoryType
  /\ answer # {} => keyboard.locked /\ Idle
  /\ Answered

\* One stroke changes one field, or empties input fields.
OneField ==
  \/ screen'.chars = screen.chars
  \/ \E a \in DOMAIN screen.fields : Changed \subseteq CellsOf(screen, a)
  \/ \A c \in Changed : c \in InputCells(screen) /\ screen'.chars[c] = "null"

\* What follows for the rest of the invariant.
TypedOn ==
  /\ Marked(screen', history'.typed)
  /\ history' \in HistoryType
  /\ answer' # {} => keyboard'.locked /\ ~record'.open
  /\ Answered'

\* Without an answer nothing has to be in it.
LEMMA NoAnswer == ASSUME answer' = {} PROVE Answered'
  BY DEF Answered

\* A stroke, and the answer it may end in.
LEMMA EditTypes ==
  ASSUME TypedInv, NEW s, Stroke(s), NEW sends \in BOOLEAN, Edit(s, sends)
  PROVE  TypedOn /\ OneField
  <1>1. /\ screen' = s /\ record' = record /\ ~record.open /\ ~keyboard.locked
        /\ keyboard' = (IF sends THEN Locked ELSE keyboard)
        /\ answer' = (IF sends THEN {AidResponse(s)} ELSE answer)
        /\ history' = [history EXCEPT !.edits = @ + 1, !.typed = Entering(s)]
        /\ readAll' = readAll
    BY DEF Edit, Idle
  <1>2. answer = {} /\ history \in HistoryType
    BY <1>1 DEF TypedInv
  <1>3. PICK typed : typed = Entering(s)
    OBVIOUS
  <1>4. typed \in SUBSET Cell
    BY <1>2, <1>3 DEF Entering, HistoryType
  <1>5. /\ history'.typed = typed
        /\ history' \in HistoryType
    <2>1. PICK edits : edits = history.edits + 1
      OBVIOUS
    <2>2. edits \in Nat
      BY <1>2, <2>1 DEF HistoryType
    <2>3. history' = [history EXCEPT !.edits = edits, !.typed = typed]
      BY <1>1, <1>3, <2>1
    <2> QED BY <1>2, <1>4, <2>2, <2>3 DEF HistoryType
  <1>6. ScreenOK(s) /\ Marked(s, typed)
    BY <1>3, StrokeIsMarked DEF TypedInv, Stroke
  <1>7. Answered'
    <2>1. CASE sends
      <3>1. PICK fields : fields = AidResponse(s)
        OBVIOUS
      <3>2. answer' = {fields}
        BY <1>1, <2>1, <3>1
      <3>3. Tells(fields, s, typed)
        BY <1>6, <3>1, AnswerOf
      <3>4. Tells(fields, screen', history'.typed)
        BY <1>1, <1>5, <3>3
      <3> QED BY <3>2, <3>4, AnsweredNext
    <2>2. CASE ~sends
      BY <1>1, <1>2, <2>2, NoAnswer
    <2> QED BY <2>1, <2>2
  <1>8. answer' # {} => keyboard'.locked /\ ~record'.open
    BY <1>1, <1>2 DEF Locked
  <1>9. OneField
    BY <1>1 DEF OneField, Stroke, EditsField, Changed
  <1> QED BY <1>1, <1>5, <1>6, <1>7, <1>8, <1>9 DEF TypedOn

\* Marks do not depend on the text.
LEMMA MarkedStays ==
  ASSUME NEW s, NEW t, NEW typed, NEW new, Marked(s, typed), t.fields = s.fields, new \subseteq typed
  PROVE  Marked(t, new)
  BY DEF Marked, CellsOf, EndOf

\* What leaves the text, the fields and what was typed leaves the answer true.
LEMMA SameText ==
  ASSUME TypedInv, screen'.fields = screen.fields, screen'.chars = screen.chars,
         history'.typed = history.typed, history' \in HistoryType, answer' = answer,
         answer' # {} => keyboard'.locked /\ ~record'.open
  PROVE  TypedOn
  <1>1. Marked(screen', history'.typed)
    BY MarkedStays DEF TypedInv
  <1>2. ASSUME NEW fields \in answer' PROVE Tells(fields, screen', history'.typed)
    <2>1. Tells(fields, screen, history.typed)
      BY AnsweredIs DEF TypedInv
    <2>2. InputFields(screen') = InputFields(screen)
      BY DEF InputFields
    <2>3. \A c : Holding(screen', c) = Holding(screen, c)
      BY DEF Holding, CellsOf, EndOf
    <2> QED BY <2>1, <2>2, <2>3 DEF Tells
  <1>3. Answered'
    BY <1>2, AnsweredNext
  <1> QED BY <1>1, <1>3 DEF TypedOn, HistoryType

\* Keys that move, toggle or send.
LEMMA KeyTypes ==
  ASSUME TypedInv,
         \/ \E c \in Cell : MoveCursor(c) \/ ClickCell(c)
         \/ ToggleInsert \/ SendAttention
         \/ \E noFields \in BOOLEAN : SendAid(noFields)
  PROVE  TypedOn /\ OneField
  <1>0. ScreenOK(screen) /\ screen \in Screen /\ history \in HistoryType
        /\ Marked(screen, history.typed)
    BY DEF TypedInv, EditInv, ScreenOK, HistoryType
  <1>1. ASSUME NEW c \in Cell, MoveCursor(c) \/ ClickCell(c) PROVE TypedOn /\ OneField
    <2>1. screen' = [screen EXCEPT !.cursor = c] /\ UNCHANGED <<keyboard, record, answer, history>>
      BY <1>1 DEF MoveCursor, ClickCell
    <2>2. screen'.fields = screen.fields /\ screen'.chars = screen.chars
      BY <1>0, <2>1 DEF Screen
    <2>3. answer' # {} => keyboard'.locked /\ ~record'.open
      BY <2>1 DEF TypedInv, Idle
    <2> QED BY <1>0, <2>1, <2>2, <2>3, SameText DEF OneField
  <1>2. CASE ToggleInsert
    <2>1. answer = {} /\ UNCHANGED <<screen, answer, history>>
      BY <1>2 DEF ToggleInsert, TypedInv
    <2> QED BY <1>0, <2>1, SameText DEF OneField
  <1>3. CASE SendAttention
    <2>1. answer' = {} /\ UNCHANGED <<screen, history>>
      BY <1>3 DEF SendAttention
    <2> QED BY <1>0, <2>1, NoAnswer DEF OneField, TypedOn, HistoryType
  <1>4. ASSUME NEW noFields \in BOOLEAN, SendAid(noFields) PROVE TypedOn /\ OneField
    <2>1. PICK s : s = RightAdjust(screen, here)
      OBVIOUS
    <2>2. /\ screen' = s /\ record' = record /\ Idle /\ keyboard' = Locked
          /\ answer' = (IF noFields THEN {} ELSE {AidResponse(s)})
          /\ history' = [history EXCEPT !.typed = Entering(s)]
      BY <1>4, <2>1 DEF SendAid
    <2>3. Stroke(s)
      BY <1>0, <2>1, AdjustStrokes
    <2>4. PICK typed : typed = Entering(s)
      OBVIOUS
    <2>5. typed \in SUBSET Cell
      BY <1>0, <2>4 DEF Entering, HistoryType
    <2>6. history'.typed = typed /\ history' \in HistoryType
      BY <1>0, <2>2, <2>4, <2>5 DEF HistoryType
    <2>7. ScreenOK(s) /\ Marked(s, typed)
      BY <1>0, <2>3, <2>4, StrokeIsMarked DEF Stroke
    <2>8. ASSUME NEW fields \in answer' PROVE Tells(fields, screen', history'.typed)
      <3>1. fields = AidResponse(s)
        BY <2>2
      <3>2. Tells(fields, s, typed)
        BY <2>7, <3>1, AnswerOf
      <3> QED BY <2>2, <2>6, <3>2
    <2>9. Answered'
      BY <2>8, AnsweredNext
    <2>10. keyboard'.locked /\ ~record'.open
      BY <2>2 DEF Idle, Locked
    <2>11. OneField
      BY <2>2, <2>3 DEF OneField, Stroke, EditsField, Changed
    <2> QED BY <2>2, <2>6, <2>7, <2>9, <2>10, <2>11 DEF TypedOn, HistoryType
  <1> QED BY <1>1, <1>2, <1>3, <1>4

\* Erase Input.
LEMMA EraseInputTypes ==
  ASSUME TypedInv, EraseInput
  PROVE  TypedOn /\ OneField
  <1>0. ScreenOK(screen) /\ screen \in Screen /\ history \in HistoryType /\ answer = {}
    BY DEF TypedInv, EditInv, ScreenOK, HistoryType, EraseInput
  <1>1. PICK s : s = NullInput(screen)
    OBVIOUS
  <1>2. /\ s.fields = screen.fields
        /\ \A c \in Cell : s.chars[c] = IF c \in InputCells(screen) THEN "null" ELSE screen.chars[c]
    BY <1>0, <1>1 DEF NullInput, Screen
  <1>3. ScreenOK(s)
    BY <1>0, <1>1, NullInputKeeps
  <1>4. screen'.fields = s.fields /\ screen'.chars = s.chars
    <2>1. screen' = IF ic = NoIC THEN HomeCursor(s) ELSE [s EXCEPT !.cursor = ic]
      BY <1>1 DEF EraseInput
    <2>2. CASE ic = NoIC
      BY <1>3, <2>1, <2>2, HomeCursorKeeps
    <2>3. CASE ic # NoIC
      BY <1>3, <2>1, <2>3 DEF ScreenOK, Screen
    <2> QED BY <2>2, <2>3
  <1>5. answer' = {} /\ history' = [history EXCEPT !.edits = history.edits + 1]
    BY <1>0 DEF EraseInput
  <1>6. history' \in HistoryType /\ history'.typed = history.typed
    BY <1>0, <1>5 DEF HistoryType
  <1>7. Marked(screen', history'.typed)
    BY <1>2, <1>4, <1>6, MarkedStays DEF TypedInv
  <1>8. OneField
    BY <1>2, <1>4 DEF OneField, Changed
  <1> QED BY <1>5, <1>6, <1>7, <1>8, NoAnswer DEF TypedOn, HistoryType

\* Whatever the operator does.
LEMMA OperatorTypes ==
  ASSUME TypedInv, Operator
  PROVE  TypedOn /\ OneField
  <1>1. ScreenOK(screen)
    BY DEF TypedInv, EditInv
  <1>2. CASE Strokes
    BY <1>2, EditTypes DEF Strokes
  <1>3. CASE EraseInput
    BY <1>3, EraseInputTypes
  <1>4. CASE \/ \E c \in Cell : MoveCursor(c) \/ ClickCell(c)
             \/ ToggleInsert \/ SendAttention
             \/ \E noFields \in BOOLEAN : SendAid(noFields)
    BY <1>4, KeyTypes
  <1> QED BY <1>1, <1>2, <1>3, <1>4, EditingStrokes DEF Operator

\* A new field leaves those it does not overlap as they are.
LEMMA KeptFields ==
  ASSUME NEW s, ScreenOK(s), NEW place \in Nat, NEW length \in 1 .. Size,
         NEW protected \in BOOLEAN, NEW kind \in FieldKind,
         NEW a \in DOMAIN s.fields, a \notin Overlapped(s, place + 1, length)
  PROVE  LET t == StartField(s, place, length, protected, kind)
         IN  a \in DOMAIN t.fields /\ t.fields[a] = s.fields[a]
  <1>1. PICK start, marked : start = place + 1 /\ marked = Write(s, place, "blank", "marker")
    OBVIOUS
  <1>2. ScreenOK(marked) /\ marked.fields = s.fields
    BY <1>1, WriteKeeps, CharactersAre
  <1>3. CASE start \notin Cell
    BY <1>1, <1>2, <1>3 DEF StartField
  <1>4. CASE start \in Cell
    <2>1. PICK framed, new : /\ framed = SetField(marked, start, length, protected, kind)
                             /\ new = [length |-> length, protected |-> protected,
                                       modified |-> FALSE, kind |-> kind]
      OBVIOUS
    <2>2. start \in Cell \ {0}
      BY <1>1, <1>4
    <2>3. HasNew(marked, framed, start, new) /\ ScreenOK(framed) /\ new.length = length
      BY <1>2, <2>1, <2>2, SetFieldTable, SetFieldDisjoint
    <2>4. a \in DOMAIN marked.fields \ Overlapped(marked, start, new.length)
      BY <1>1, <1>2, <2>3 DEF Overlapped, EndOf
    <2>5. a # start
      <3>1. a \in Nat /\ EndOf(s, a) >= a
        BY OwnCell
      <3> QED BY <1>1, <3>1 DEF Overlapped
    <2>6. a \in DOMAIN framed.fields /\ framed.fields[a] = s.fields[a]
      BY <1>2, <2>3, <2>4, <2>5 DEF HasNew
    <2>7. Write(framed, start + length, "blank", "marker").fields = framed.fields
      BY <2>3, WriteKeeps, CharactersAre
    <2>8. StartField(s, place, length, protected, kind).fields = framed.fields
      BY <1>1, <1>4, <2>1, <2>7 DEF StartField
    <2> QED BY <2>6, <2>8
  <1> QED BY <1>3, <1>4

\* What an order makes of the fields: those it drops, or whose mark it resets, are
\* forgotten with what was typed in them.
LEMMA OrderMarks ==
  ASSUME TypedInv, Orders
  PROVE  Marked(screen', history'.typed)
  <1>0. /\ ScreenOK(screen) /\ screen \in Screen /\ history \in HistoryType /\ EditInv
        /\ Marked(screen, history.typed)
    BY DEF TypedInv, EditInv, ScreenOK, HistoryType
  <1>1. CASE ClearUnit \/ ClearFormatTable \/ StartOfHeader
    <2>1. history'.typed = {}
      BY <1>0, <1>1 DEF ClearUnit, ClearFormatTable, StartOfHeader, Forget, HistoryType
    <2> QED BY <2>1 DEF Marked
  <1>2. CASE ControlCharacters
    <2>1. PICK nulled, these :
            /\ nulled = (IF order.null THEN NullInput(screen) ELSE screen)
            /\ screen' = ResetModified(nulled, these)
            /\ history' = Forget(UNION {CellsOf(screen, a) : a \in these})
      BY <1>2 DEF ControlCharacters
    <2>2. nulled.fields = screen.fields /\ ScreenOK(nulled)
      BY <1>0, <2>1, NullInputKeeps DEF NullInput, Screen
    <2>3. screen'.fields = [a \in DOMAIN screen.fields |->
                              IF a \in these THEN [screen.fields[a] EXCEPT !.modified = FALSE]
                              ELSE screen.fields[a]]
      BY <2>1, <2>2 DEF ResetModified, ScreenOK, Screen
    <2>4. history'.typed = history.typed \ UNION {CellsOf(screen, a) : a \in these}
      BY <1>0, <2>1 DEF Forget, HistoryType
    <2> SUFFICES ASSUME NEW c \in history'.typed
                 PROVE  c \in Cell /\ \E a \in DOMAIN screen'.fields :
                                        c \in CellsOf(screen', a) /\ screen'.fields[a].modified
      BY DEF Marked
    <2>5. PICK a \in DOMAIN screen.fields : c \in CellsOf(screen, a) /\ screen.fields[a].modified
      BY <1>0, <2>4 DEF Marked
    <2>6. a \notin these /\ c \in Cell
      BY <1>0, <2>4, <2>5 DEF Marked
    <2>7. a \in DOMAIN screen'.fields /\ screen'.fields[a] = screen.fields[a]
      BY <2>3, <2>6
    <2> QED BY <2>5, <2>6, <2>7 DEF CellsOf, EndOf
  <1>3. CASE DefineField
    <2>1. /\ at \in Nat /\ order \in Order /\ order.op = "field"
          /\ screen' = StartField(screen, at, order.length, order.protected, order.kind)
          /\ history' = Forget(UNION {CellsOf(screen, a) : a \in Overlapped(screen, at + 1, order.length)})
      BY <1>0, <1>3, DueIs DEF DefineField
    <2>2. order.length \in 1 .. Size /\ order.protected \in BOOLEAN /\ order.kind \in FieldKind
      BY <2>1, OrderIs
    <2>3. PICK gone : gone = Overlapped(screen, at + 1, order.length)
      OBVIOUS
    <2>4. history'.typed = history.typed \ UNION {CellsOf(screen, a) : a \in gone}
      BY <1>0, <2>1, <2>3 DEF Forget, HistoryType
    <2>5. \A a \in DOMAIN screen.fields \ gone :
            a \in DOMAIN screen'.fields /\ screen'.fields[a] = screen.fields[a]
      BY <1>0, <2>1, <2>2, <2>3, KeptFields
    <2> SUFFICES ASSUME NEW c \in history'.typed
                 PROVE  c \in Cell /\ \E a \in DOMAIN screen'.fields :
                                        c \in CellsOf(screen', a) /\ screen'.fields[a].modified
      BY DEF Marked
    <2>6. PICK a \in DOMAIN screen.fields : c \in CellsOf(screen, a) /\ screen.fields[a].modified
      BY <1>0, <2>4 DEF Marked
    <2>7. a \notin gone /\ c \in Cell
      BY <1>0, <2>4, <2>6 DEF Marked
    <2> QED BY <2>5, <2>6, <2>7 DEF CellsOf, EndOf
  <1>4. CASE SetPosition \/ InsertCursor \/ ReadFields \/ Roll \/ Text \/ AttributeByte
             \/ RepeatToAddress \/ EraseToAddress \/ Image
    <2>1. history' = history
      BY <1>4 DEF SetPosition, InsertCursor, ReadFields, Roll, Text, AttributeByte,
                  RepeatToAddress, EraseToAddress, Image
    <2>2. screen'.fields = screen.fields
      <3>1. CASE SetPosition \/ ReadFields \/ InsertCursor
        BY <1>0, <3>1 DEF SetPosition, ReadFields, InsertCursor, Screen
      <3>2. CASE Roll
        BY <1>0, <3>2 DEF Roll, ScrollRegion, Screen
      <3>3. CASE Text
        BY <1>0, <3>3 DEF Text, WriteText, Screen
      <3>4. CASE AttributeByte
        BY <1>0, <3>4 DEF AttributeByte, Write, Screen
      <3>5. CASE RepeatToAddress \/ EraseToAddress
        BY <1>0, <3>5 DEF RepeatToAddress, EraseToAddress, FillTo, Screen
      <3>6. CASE Image
        BY <1>0, <3>6, ImageKeeps
      <3> QED BY <1>4, <3>1, <3>2, <3>3, <3>4, <3>5, <3>6
    <2> QED BY <1>0, <2>1, <2>2, MarkedStays
  <1> QED BY <1>1, <1>2, <1>3, <1>4 DEF Orders

\* The host.
LEMMA HostTypes ==
  ASSUME TypedInv, Host
  PROVE  TypedOn /\ (Idle /\ Idle' => OneField)
  <1>0. /\ ScreenOK(screen) /\ screen \in Screen /\ history \in HistoryType
        /\ Marked(screen, history.typed)
    BY DEF TypedInv, EditInv, ScreenOK, HistoryType
  <1>1. ASSUME NEW orders, NEW restoring \in BOOLEAN, BeginRecord(orders, restoring)
        PROVE  TypedOn /\ ~Idle'
    <2>1. /\ answer' = {} /\ screen' = screen /\ record'.open
          /\ history' = (IF restoring THEN history ELSE [history EXCEPT !.records = @ + 1])
      BY <1>1 DEF BeginRecord, Closed
    <2>2. history' \in HistoryType /\ history'.typed = history.typed
      BY <1>0, <2>1 DEF HistoryType
    <2> QED BY <1>0, <2>1, <2>2, NoAnswer DEF TypedOn, HistoryType, Idle
  <1>2. CASE Orders
    <2>1. record.open /\ answer' = answer
      BY <1>2 DEF Orders, Due, ClearUnit, ClearFormatTable, StartOfHeader, ControlCharacters,
                  SetPosition, InsertCursor, DefineField, Text, AttributeByte, RepeatToAddress,
                  EraseToAddress, Roll, ReadFields, Image
    <2>2. answer' = {} /\ ~Idle
      BY <2>1 DEF TypedInv, Idle
    <2>3. history' \in HistoryType
      <3>1. \/ history' = history
            \/ \E cells : history' = Forget(cells)
        BY <1>2 DEF Orders, ClearUnit, ClearFormatTable, StartOfHeader, ControlCharacters,
                    SetPosition, InsertCursor, DefineField, Text, AttributeByte, RepeatToAddress,
                    EraseToAddress, Roll, ReadFields, Image
      <3>2. \A cells : Forget(cells) \in HistoryType
        BY <1>0 DEF Forget, HistoryType
      <3> QED BY <1>0, <3>1, <3>2
    <2> QED BY <1>2, <2>2, <2>3, OrderMarks, NoAnswer DEF TypedOn, HistoryType
  <1>3. CASE EndRecord
    <2>1. answer' = {} /\ ~Idle /\ history' = history
      BY <1>3 DEF EndRecord, TypedInv, Idle
    <2>2. screen'.fields = screen.fields
      <3>1. PICK moved, u : /\ moved = [screen EXCEPT !.cursor = ic]
                            /\ u = IF ic = NoIC THEN screen ELSE moved
        OBVIOUS
      <3>2. moved.fields = screen.fields
        BY <1>0, <3>1 DEF Screen
      <3>3. ScreenOK(u)
        BY <1>0, <3>1, MovedKeeps DEF TypedInv, EditInv
      <3>4. HomeCursor(u).fields = screen.fields
        BY <3>1, <3>2, <3>3, HomeCursorKeeps
      <3>5. screen' \in {screen, moved, HomeCursor(u)}
        BY <1>3, <3>1 DEF EndRecord
      <3> QED BY <3>2, <3>4, <3>5
    <2> QED BY <1>0, <2>1, <2>2, MarkedStays, NoAnswer DEF TypedOn, HistoryType
  <1>4. CASE SaveScreen
    <2>1. /\ UNCHANGED <<screen, keyboard, record, answer>> /\ Idle
          /\ history' = [history EXCEPT !.records = @ + 1]
      BY <1>4 DEF SaveScreen
    <2>2. history' \in HistoryType /\ history'.typed = history.typed
      BY <1>0, <2>1 DEF HistoryType
    <2>3. answer' # {} => keyboard'.locked /\ ~record'.open
      BY <2>1 DEF TypedInv, Idle
    <2> QED BY <2>1, <2>2, <2>3, SameText DEF OneField
  <1>5. CASE RestoreScreen
    BY <1>1, <1>5 DEF RestoreScreen
  <1> QED BY <1>1, <1>2, <1>3, <1>4, <1>5 DEF Host

\* Every step keeps the invariant, and what the operator does is one stroke.
LEMMA TypedNext ==
  ASSUME TypedInv, [Next]_vars
  PROVE  TypedInv' /\ (UNCHANGED vars \/ (Idle /\ Idle' => OneField))
  <1>1. EditInv'
    BY EditNext DEF TypedInv
  <1>2. TypedOn /\ (UNCHANGED vars \/ (Idle /\ Idle' => OneField))
    <2>1. CASE Operator
      BY <2>1, OperatorTypes
    <2>2. CASE Host
      BY <2>2, HostTypes
    <2>3. CASE UNCHANGED vars
      <3>1. UNCHANGED <<screen, keyboard, record, answer, history>>
        BY <2>3 DEF vars
      <3>2. history' \in HistoryType
        BY <3>1 DEF TypedInv, HistoryType
      <3>3. answer' # {} => keyboard'.locked /\ ~record'.open
        BY <3>1 DEF TypedInv, Idle
      <3> QED BY <2>3, <3>1, <3>2, <3>3, SameText
    <2> QED BY <2>1, <2>2, <2>3 DEF Next
  <1> QED BY <1>1, <1>2 DEF TypedInv, TypedOn, HistoryType, Idle

\* What the operator does to a field reaches the host, and touches nothing else, on
\* screens of every size with any fields, whatever the host sends in between: the
\* answer to an AID key or an auto-enter holds what was typed as the screen shows it,
\* and a stroke changes one field, or empties input fields (markFieldModified,
\* buildAIDResponse, the editing handlers of events.cpp).
THEOREM TypedIsSent == Spec => TypedReachesHost
  <1>1. Init => TypedInv
    <2> SUFFICES ASSUME Init PROVE TypedInv
      OBVIOUS
    <2>1. EditInv /\ Answered
      BY EditInit DEF Init, Answered
    <2>2. history \in HistoryType /\ history.typed = {}
      BY DEF Init, HistoryType
    <2> QED BY <2>1, <2>2 DEF TypedInv, Marked, Init
  <1>2. TypedInv /\ [Next]_vars => TypedInv'
    BY TypedNext
  <1>3. TypedInv /\ TypedInv' /\ [Next]_vars =>
          [ /\ Answered'
            /\ Idle /\ Idle' =>
                 \/ screen'.chars = screen.chars
                 \/ \E a \in DOMAIN screen.fields : Changed \subseteq CellsOf(screen, a)
                 \/ \A c \in Changed : c \in InputCells(screen) /\ screen'.chars[c] = "null" ]_vars
    BY TypedNext DEF TypedInv, OneField
  <1> QED BY <1>1, <1>2, <1>3, PTL DEF Spec, TypedReachesHost


-----------------------------------------------------------------------------
(* Lists put together.                                                     *)

\* The first lists of ss put together, for each number of them.
Joins(f, S, ss, n) ==
  /\ f \in [0 .. n -> Seq(S)]
  /\ f[0] = << >>
  /\ \A i \in 1 .. n : f[i] = f[i - 1] \o ss[i]

SameUpTo(ss, tt, n) == \A i \in 1 .. n : ss[i] = tt[i]

\* There is one such function,
LEMMA JoinsExist ==
  ASSUME NEW S, NEW ss \in Seq(Seq(S))
  PROVE  \E f : Joins(f, S, ss, Len(ss))
  <1> DEFINE T == {n \in Nat : n <= Len(ss) => \E f : Joins(f, S, ss, n)}
  <1>0. Len(ss) \in Nat /\ \A i \in 1 .. Len(ss) : ss[i] \in Seq(S)
    OBVIOUS
  <1>1. 0 \in T
    <2> DEFINE f == [i \in 0 .. 0 |-> << >>]
    <2>1. f \in [0 .. 0 -> Seq(S)] /\ f[0] = << >> /\ 1 .. 0 = {}
      OBVIOUS
    <2>2. Joins(f, S, ss, 0)
      BY <2>1 DEF Joins
    <2> QED BY <2>2
  <1>2. ASSUME NEW n \in T PROVE n + 1 \in T
    <2>0. n \in Nat
      OBVIOUS
    <2> SUFFICES ASSUME n + 1 <= Len(ss) PROVE \E f : Joins(f, S, ss, n + 1)
      BY <2>0
    <2>1. n <= Len(ss) /\ n + 1 \in 1 .. Len(ss)
      BY <1>0, <2>0
    <2>2. PICK f : Joins(f, S, ss, n)
      BY <2>1
    <2>3. /\ f \in [0 .. n -> Seq(S)] /\ f[0] = << >>
          /\ \A i \in 1 .. n : f[i] = f[i - 1] \o ss[i]
      BY <2>2 DEF Joins
    <2>4. f[n] \in Seq(S) /\ ss[n + 1] \in Seq(S)
      BY <1>0, <2>0, <2>1, <2>3
    <2>5. f[n] \o ss[n + 1] \in Seq(S)
      BY <2>4
    <2>c. PICK joined : joined = f[n] \o ss[n + 1]
      OBVIOUS
    <2> DEFINE h == [i \in 0 .. (n + 1) |-> IF i <= n THEN f[i] ELSE joined]
    <2>6. h \in [0 .. (n + 1) -> Seq(S)]
      <3> HIDE DEF T
      <3> SUFFICES ASSUME NEW i \in 0 .. (n + 1)
                   PROVE  (IF i <= n THEN f[i] ELSE joined) \in Seq(S)
        OBVIOUS
      <3>1. i <= n => i \in 0 .. n
        BY <2>0
      <3> QED BY <2>3, <2>5, <2>c, <3>1
    <2>7. h[n + 1] = joined /\ \A i \in 0 .. n : h[i] = f[i]
      BY <2>0
    <2> HIDE DEF h
    <2>8. ASSUME NEW i \in 1 .. (n + 1) PROVE h[i] = h[i - 1] \o ss[i]
      <3>1. CASE i = n + 1
        <4>1. i - 1 = n /\ n \in 0 .. n
          BY <2>0, <3>1
        <4> QED BY <2>7, <2>c, <3>1, <4>1
      <3>2. CASE i # n + 1
        <4>1. i \in 1 .. n /\ i \in 0 .. n /\ i - 1 \in 0 .. n
          BY <2>0, <3>2
        <4> QED BY <2>3, <2>7, <4>1
      <3> QED BY <3>1, <3>2
    <2>9. h[0] = << >>
      <3>1. 0 \in 0 .. n
        BY <2>0
      <3> QED BY <2>3, <2>7, <3>1
    <2>10. Joins(h, S, ss, n + 1)
      BY <2>6, <2>8, <2>9 DEF Joins
    <2> QED BY <2>10
  <1>3. T \in SUBSET Nat
    OBVIOUS
  <1> HIDE DEF T
  <1>4. T = Nat
    BY <1>1, <1>2, <1>3, SetInduction
  <1> QED BY <1>0, <1>4 DEF T

\* only one,
LEMMA JoinsAgree ==
  ASSUME NEW S, NEW ss \in Seq(Seq(S)), NEW tt \in Seq(Seq(S)), NEW n \in Nat, NEW k \in Nat,
         NEW f, NEW h, k = n + 1, Joins(f, S, ss, n), Joins(h, S, tt, k),
         SameUpTo(ss, tt, n)
  PROVE  f[n] = h[n]
  <1> DEFINE T == {j \in Nat : j <= n => f[j] = h[j]}
  <1>1. 0 \in T
    BY DEF Joins
  <1>2. ASSUME NEW j \in T PROVE j + 1 \in T
    <2>0. j \in Nat
      OBVIOUS
    <2> SUFFICES ASSUME j + 1 <= n PROVE f[j + 1] = h[j + 1]
      BY <2>0
    <2>1. j + 1 \in 1 .. n /\ j + 1 \in 1 .. k /\ (j + 1) - 1 = j /\ f[j] = h[j]
      BY <2>0
    <2> QED BY <2>1 DEF Joins, SameUpTo
  <1>3. T \in SUBSET Nat
    OBVIOUS
  <1> HIDE DEF T
  <1>4. T = Nat
    BY <1>1, <1>2, <1>3, SetInduction
  <1> QED BY <1>4 DEF T

\* and FlattenSeq is its last value.
LEMMA FlattenIs ==
  ASSUME NEW S, NEW ss \in Seq(Seq(S)), NEW g, Joins(g, S, ss, Len(ss))
  PROVE  FlattenSeq(ss) = g[Len(ss)] /\ FlattenSeq(ss) \in Seq(S)
  <1> DEFINE L == Len(ss)
             Made(f) == [i \in 1 .. L |-> IF i = 1 THEN ss[i] ELSE f[i - 1] \o ss[i]]
             flatten == CHOOSE f : f = Made(f)
             G == [i \in 1 .. L |-> g[i]]
  <1>a. L \in Nat /\ \A i \in 1 .. L : ss[i] \in Seq(S)
    OBVIOUS
  <1>b. /\ g \in [0 .. L -> Seq(S)] /\ g[0] = << >>
        /\ \A i \in 1 .. L : g[i] = g[i - 1] \o ss[i]
    BY Zenon DEF Joins
  <1>0. /\ L \in Nat /\ \A i \in 1 .. L : ss[i] \in Seq(S)
        /\ g \in [0 .. L -> Seq(S)] /\ g[0] = << >>
        /\ \A i \in 1 .. L : g[i] = g[i - 1] \o ss[i]
    BY <1>a, <1>b
  <1>1. g[L] \in Seq(S)
    BY <1>0
  <1>2. CASE L = 0
    <2>1. ss = << >>
      BY <1>2
    <2>2. FlattenSeq(ss) = ss
      BY <1>2 DEF FlattenSeq
    <2> QED BY <1>0, <1>1, <1>2, <2>1, <2>2
  <1>3. CASE L # 0
    <2>1. FlattenSeq(ss) = flatten[L]
      BY <1>3 DEF FlattenSeq
    <2>2. G = Made(G)
      <3> SUFFICES ASSUME NEW i \in 1 .. L
                   PROVE  g[i] = IF i = 1 THEN ss[i] ELSE G[i - 1] \o ss[i]
        OBVIOUS
      <3>1. CASE i = 1
        <4>1. i - 1 = 0 /\ ss[i] \in Seq(S)
          BY <1>0, <3>1
        <4>2. << >> \o ss[i] = ss[i]
          BY <4>1
        <4> QED BY <1>0, <3>1, <4>1, <4>2
      <3>2. CASE i # 1
        <4>1. i - 1 \in 1 .. L
          BY <1>0, <3>2
        <4> QED BY <1>0, <3>2, <4>1
      <3> QED BY <3>1, <3>2
    <2>3. flatten = Made(flatten)
      BY <2>2
    <2> HIDE DEF flatten
    <2>4. flatten[1] = ss[1] /\ \A i \in 1 .. L : i # 1 => flatten[i] = flatten[i - 1] \o ss[i]
      <3>1. 1 \in 1 .. L
        BY <1>0, <1>3
      <3> QED BY <2>3, <3>1
    <2> HIDE DEF Made, G
    <2> DEFINE T == {n \in Nat : n + 1 <= L => flatten[n + 1] = g[n + 1]}
    <2>5. 0 \in T
      <3>1. 1 \in 1 .. L /\ 1 - 1 = 0 /\ ss[1] \in Seq(S)
        BY <1>0, <1>3
      <3>2. << >> \o ss[1] = ss[1]
        BY <3>1
      <3>3. g[1] = g[0] \o ss[1]
        BY <1>0, <3>1
      <3>4. g[1] = ss[1]
        BY <1>0, <3>2, <3>3
      <3>5. flatten[0 + 1] = g[0 + 1]
        BY <2>4, <3>4
      <3> QED BY <3>5
    <2>6. ASSUME NEW n \in T PROVE n + 1 \in T
      <3>0. n \in Nat
        OBVIOUS
      <3> SUFFICES ASSUME (n + 1) + 1 <= L PROVE flatten[(n + 1) + 1] = g[(n + 1) + 1]
        BY <3>0
      <3>1. /\ (n + 1) + 1 \in 1 .. L /\ (n + 1) + 1 # 1 /\ ((n + 1) + 1) - 1 = n + 1 /\ n + 1 <= L
        BY <1>0, <3>0
      <3>2. flatten[n + 1] = g[n + 1]
        BY <3>1
      <3> HIDE DEF T
      <3> QED BY <1>0, <2>4, <3>1, <3>2
    <2>7. T \in SUBSET Nat
      OBVIOUS
    <2> HIDE DEF T
    <2>8. T = Nat
      BY <2>5, <2>6, <2>7, SetInduction
    <2>9. L - 1 \in T /\ (L - 1) + 1 = L
      BY <1>0, <1>3, <2>8
    <2>10. flatten[L] = g[L]
      BY <2>9, <1>0 DEF T
    <2> QED BY <1>1, <2>1, <2>10
  <1> QED BY <1>2, <1>3

LEMMA FlattenEmpty == FlattenSeq(<< >>) = << >>
  BY DEF FlattenSeq

\* One list more is put behind.
LEMMA FlattenAppend ==
  ASSUME NEW S, NEW ss \in Seq(Seq(S)), NEW t \in Seq(S)
  PROVE  /\ FlattenSeq(ss) \in Seq(S)
         /\ FlattenSeq(Append(ss, t)) = FlattenSeq(ss) \o t
  <1>1. PICK n \in Nat : n = Len(ss)
    OBVIOUS
  <1>2. PICK k \in Nat : k = n + 1
    OBVIOUS
  <1>3. PICK more : more = Append(ss, t)
    OBVIOUS
  <1>4. /\ more \in Seq(Seq(S)) /\ Len(more) = k /\ more[k] = t
        /\ \A i \in 1 .. n : ss[i] = more[i]
    BY <1>1, <1>2, <1>3, AppendProperties
  <1>5. PICK f : Joins(f, S, ss, n)
    BY <1>1, JoinsExist
  <1>6. PICK h : Joins(h, S, more, k)
    BY <1>4, JoinsExist
  <1>7. FlattenSeq(ss) = f[n] /\ FlattenSeq(ss) \in Seq(S)
    BY <1>1, <1>5, FlattenIs
  <1>8. FlattenSeq(more) = h[k]
    BY <1>4, <1>6, FlattenIs
  <1>9. f[n] = h[n]
    <2>1. SameUpTo(ss, more, n)
      BY <1>4 DEF SameUpTo
    <2> QED BY <1>2, <1>4, <1>5, <1>6, <2>1, JoinsAgree
  <1>10. h[k] = h[n] \o more[k]
    <2>1. k \in 1 .. k /\ k - 1 = n
      BY <1>2
    <2> QED BY <1>6, <2>1 DEF Joins
  <1> QED BY <1>3, <1>4, <1>7, <1>8, <1>9, <1>10

\* Each element is one of a list's, and each of a list's is there.
LEMMA FlattenHas ==
  ASSUME NEW S, NEW ss \in Seq(Seq(S)), NEW x
  PROVE  x \in ToSet(FlattenSeq(ss)) <=> \E i \in 1 .. Len(ss) : x \in ToSet(ss[i])
  <1> DEFINE L == Len(ss)
  <1>1. PICK f : Joins(f, S, ss, L)
    BY JoinsExist
  <1>2. FlattenSeq(ss) = f[L]
    BY <1>1, FlattenIs
  <1>a. L \in Nat /\ \A i \in 1 .. L : ss[i] \in Seq(S)
    OBVIOUS
  <1>b. /\ f \in [0 .. L -> Seq(S)] /\ f[0] = << >>
        /\ \A i \in 1 .. L : f[i] = f[i - 1] \o ss[i]
    BY <1>1, Zenon DEF Joins
  <1>0. /\ L \in Nat /\ \A i \in 1 .. L : ss[i] \in Seq(S)
        /\ f \in [0 .. L -> Seq(S)] /\ f[0] = << >>
        /\ \A i \in 1 .. L : f[i] = f[i - 1] \o ss[i]
    BY <1>a, <1>b
  <1> DEFINE T == {n \in Nat : n <= L => (x \in ToSet(f[n]) <=> \E i \in 1 .. n : x \in ToSet(ss[i]))}
  <1>3. 0 \in T
    BY <1>0 DEF ToSet
  <1>4. ASSUME NEW n \in T PROVE n + 1 \in T
    <2>0. n \in Nat
      OBVIOUS
    <2> SUFFICES ASSUME n + 1 <= L
                 PROVE  x \in ToSet(f[n + 1]) <=> \E i \in 1 .. n + 1 : x \in ToSet(ss[i])
      BY <2>0
    <2>1. n <= L /\ n + 1 \in 1 .. L /\ (n + 1) - 1 = n /\ n \in 0 .. L
      BY <1>0, <2>0
    <2>2. x \in ToSet(f[n]) <=> \E i \in 1 .. n : x \in ToSet(ss[i])
      BY <2>1
    <2> HIDE DEF T
    <2>3. f[n + 1] = f[n] \o ss[n + 1] /\ f[n] \in Seq(S) /\ ss[n + 1] \in Seq(S)
      BY <1>0, <2>1
    <2> DEFINE a == f[n]
               b == ss[n + 1]
               c == a \o b
    <2>4. a \in Seq(S) /\ b \in Seq(S)
      BY <2>3
    <2> HIDE DEF a, b
    <2>5. /\ c \in Seq(S) /\ Len(c) = Len(a) + Len(b)
          /\ \A i \in 1 .. Len(a) + Len(b) : c[i] = IF i <= Len(a) THEN a[i] ELSE b[i - Len(a)]
      BY <2>4, ConcatProperties
    <2> HIDE DEF c
    <2>6. /\ DOMAIN a = 1 .. Len(a) /\ DOMAIN b = 1 .. Len(b) /\ DOMAIN c = 1 .. Len(c)
          /\ Len(a) \in Nat /\ Len(b) \in Nat
      BY <2>4, <2>5
    <2>7. ASSUME x \in ToSet(c) PROVE x \in ToSet(a) \/ x \in ToSet(b)
      <3>1. PICK i \in 1 .. Len(a) + Len(b) : x = c[i]
        BY <2>5, <2>6, <2>7 DEF ToSet
      <3>2. CASE i <= Len(a)
        BY <2>5, <2>6, <3>1, <3>2 DEF ToSet
      <3>3. CASE ~(i <= Len(a))
        <4>1. i - Len(a) \in 1 .. Len(b)
          BY <2>6, <3>3
        <4> QED BY <2>5, <2>6, <3>1, <3>3, <4>1 DEF ToSet
      <3> QED BY <3>2, <3>3
    <2>8. ASSUME x \in ToSet(a) PROVE x \in ToSet(c)
      <3>1. PICK i \in 1 .. Len(a) : x = a[i]
        BY <2>6, <2>8 DEF ToSet
      <3>2. i \in 1 .. Len(a) + Len(b) /\ i <= Len(a)
        BY <2>6
      <3> QED BY <2>5, <2>6, <3>1, <3>2 DEF ToSet
    <2>9. ASSUME x \in ToSet(b) PROVE x \in ToSet(c)
      <3>1. PICK i \in 1 .. Len(b) : x = b[i]
        BY <2>6, <2>9 DEF ToSet
      <3>2. i + Len(a) \in 1 .. Len(a) + Len(b) /\ ~(i + Len(a) <= Len(a)) /\ (i + Len(a)) - Len(a) = i
        BY <2>6
      <3> QED BY <2>5, <2>6, <3>1, <3>2 DEF ToSet
    <2>10. x \in ToSet(f[n + 1]) <=> x \in ToSet(f[n]) \/ x \in ToSet(ss[n + 1])
      BY <2>3, <2>7, <2>8, <2>9 DEF a, b, c
    <2>11. \A i \in 1 .. n + 1 : i \in 1 .. n \/ i = n + 1
      BY <2>0
    <2>12. n + 1 \in 1 .. n + 1 /\ \A i \in 1 .. n : i \in 1 .. n + 1
      BY <2>0
    <2> QED BY <2>2, <2>10, <2>11, <2>12
  <1>5. T \in SUBSET Nat
    OBVIOUS
  <1> HIDE DEF T
  <1>6. T = Nat
    BY <1>3, <1>4, <1>5, SetInduction
  <1>7. x \in ToSet(f[L]) <=> \E i \in 1 .. L : x \in ToSet(ss[i])
    BY <1>a, <1>6 DEF T
  <1> QED BY <1>2, <1>7

-----------------------------------------------------------------------------
(* Mappings and the rows of the dialog.                                    *)

\* There are finitely many chords.
LEMMA ChordsAreFinite == IsFiniteSet(Chord)
  <1> DEFINE K == {"F3", "Delete", "Backtab", "x", "none"}
             M == SUBSET Modifier
             f == [p \in K \X M |-> [key |-> p[1], mods |-> p[2]]]
  <1>1. IsFiniteSet(K)
    <2>1. IsFiniteSet({}) /\ IsFiniteSet({"F3"}) 
      BY FS_EmptySet, FS_Singleton
    <2>2. IsFiniteSet({"F3"} \cup {"Delete"})
      BY <2>1, FS_AddElement
    <2>3. IsFiniteSet(({"F3"} \cup {"Delete"}) \cup {"Backtab"})
      BY <2>2, FS_AddElement
    <2>4. IsFiniteSet((({"F3"} \cup {"Delete"}) \cup {"Backtab"}) \cup {"x"})
      BY <2>3, FS_AddElement
    <2>5. IsFiniteSet(((({"F3"} \cup {"Delete"}) \cup {"Backtab"}) \cup {"x"}) \cup {"none"})
      BY <2>4, FS_AddElement
    <2>6. ((({"F3"} \cup {"Delete"}) \cup {"Backtab"}) \cup {"x"}) \cup {"none"} = K
      OBVIOUS
    <2> QED BY <2>5, <2>6
  <1>2. IsFiniteSet(M)
    <2>1. IsFiniteSet({"shift"})
      BY FS_Singleton
    <2>2. IsFiniteSet({"shift"} \cup {"ctrl"})
      BY <2>1, FS_AddElement
    <2>3. IsFiniteSet(({"shift"} \cup {"ctrl"}) \cup {"alt"})
      BY <2>2, FS_AddElement
    <2>4. ({"shift"} \cup {"ctrl"}) \cup {"alt"} = Modifier
      BY DEF Modifier
    <2> QED BY <2>3, <2>4, FS_SUBSET
  <1> HIDE DEF K, M
  <1>3. IsFiniteSet(K \X M)
    BY <1>1, <1>2, FS_Product
  <1>4. Chord = [key : K, mods : M]
    BY DEF Chord, K, M
  <1>5. f \in Surjection(K \X M, Chord)
    <2>1. f \in [K \X M -> Chord]
      BY <1>4
    <2>2. ASSUME NEW c \in Chord PROVE \E p \in K \X M : f[p] = c
      <3>1. c.key \in K /\ c.mods \in M /\ c = [key |-> c.key, mods |-> c.mods]
        BY <1>4
      <3> DEFINE p == <<c.key, c.mods>>
      <3>2. p \in K \X M /\ p[1] = c.key /\ p[2] = c.mods
        BY <3>1
      <3> HIDE DEF p
      <3>3. f[p] = c
        BY <3>1, <3>2
      <3> QED BY <3>2, <3>3
    <2> QED BY <2>1, <2>2 DEF Surjection
  <1> QED BY <1>3, <1>5, FS_Surjection

\* The sequence made of a finite set has its elements.
LEMMA SetToSeqIs ==
  ASSUME NEW S, IsFiniteSet(S)
  PROVE  SetToSeq(S) \in Seq(S) /\ ToSet(SetToSeq(S)) = S
  <1> DEFINE n == Cardinality(S)
             f == SetToSeq(S)
             R == {f[i] : i \in 1 .. n}
  <1>1. n \in Nat /\ Bijection(1 .. n, S) # {}
    BY FS_CardinalityType DEF ExistsBijection
  <1>2. f \in [1 .. n -> S] /\ IsInjective(f)
    BY <1>1, Zenon DEF SetToSeq, Bijection, Injection
  <1> HIDE DEF f
  <1>3. f \in Surjection(1 .. n, R) /\ f \in Injection(1 .. n, R)
    BY <1>2 DEF Surjection, Injection
  <1>4. IsFiniteSet(1 .. n) /\ Cardinality(1 .. n) = n
    BY <1>1, FS_Interval
  <1>5. Cardinality(R) = n
    BY <1>3, <1>4, FS_Surjection
  <1>6. R \subseteq S
    BY <1>2
  <1> HIDE DEF R
  <1>7. R = S
    BY <1>5, <1>6, FS_Subset
  <1> HIDE DEF n
  <1>8. f \in Seq(S) /\ DOMAIN f = 1 .. n
    BY <1>1, <1>2
  <1>9. ToSet(f) = R
    BY <1>8 DEF ToSet, R
  <1> QED BY <1>7, <1>8, <1>9 DEF f

\* A row made of a mapping has the chords of its action.
LEMMA RowIs ==
  ASSUME NEW m, IsMapping(m), NEW a
  PROVE  RowOf(m, a) \in Seq(Chord) /\ ChordsIn(RowOf(m, a)) = ChordsFor(m, a)
  <1> DEFINE S == ChordsFor(m, a)
  <1>1. S \subseteq Chord \ {Waiting}
    BY DEF IsMapping, ChordsFor
  <1>2. IsFiniteSet(S)
    BY <1>1, ChordsAreFinite, FS_Subset
  <1>3. RowOf(m, a) = SetToSeq(S)
    BY DEF RowOf
  <1> HIDE DEF S
  <1>4. SetToSeq(S) \in Seq(S) /\ ToSet(SetToSeq(S)) = S
    BY <1>2, SetToSeqIs
  <1>5. SetToSeq(S) \in Seq(Chord)
    BY <1>1, <1>4, SeqMonotonic
  <1>6. ChordsIn(RowOf(m, a)) = ToSet(SetToSeq(S)) \ {Waiting}
    BY <1>3 DEF ChordsIn, ToSet
  <1> QED BY <1>1, <1>3, <1>4, <1>5, <1>6 DEF S

LEMMA RowsAre ==
  ASSUME NEW m, IsMapping(m)
  PROVE  /\ RowsOf(m) \in [Actions -> Seq(Chord)]
         /\ \A a \in Actions : ChordsIn(RowsOf(m)[a]) = ChordsFor(m, a)
  BY RowIs DEF RowsOf

\* What a row without some chords has left.
LEMMA WithoutIs ==
  ASSUME NEW row \in Seq(Chord), NEW chords
  PROVE  /\ Without(chords, row) \in Seq(Chord)
         /\ ChordsIn(Without(chords, row)) = ChordsIn(row) \ chords
  <1> DEFINE ss == [i \in DOMAIN row |-> IF row[i] \in chords THEN <<>> ELSE <<row[i]>>]
  <1>1. /\ Len(row) \in Nat /\ DOMAIN row = 1 .. Len(row)
        /\ \A i \in 1 .. Len(row) : row[i] \in Chord
    OBVIOUS
  <1>2. ASSUME NEW i \in 1 .. Len(row)
        PROVE  (IF row[i] \in chords THEN <<>> ELSE <<row[i]>>) \in Seq(Chord)
    BY <1>1
  <1>3. ss \in Seq(Seq(Chord)) /\ Len(ss) = Len(row)
    BY <1>1, <1>2
  <1>4. \A i \in 1 .. Len(row) : ToSet(ss[i]) = {row[i]} \ chords
    <2> SUFFICES ASSUME NEW i \in 1 .. Len(row) PROVE ToSet(ss[i]) = {row[i]} \ chords
      OBVIOUS
    <2>1. ss[i] = IF row[i] \in chords THEN <<>> ELSE <<row[i]>>
      BY <1>1
    <2>2. CASE row[i] \in chords
      BY <2>1, <2>2 DEF ToSet
    <2>3. CASE row[i] \notin chords
      <3>1. ss[i] = <<row[i]>>
        BY <2>1, <2>3
      <3>2. ToSet(<<row[i]>>) = {row[i]}
        BY DEF ToSet
      <3> QED BY <2>3, <3>1, <3>2
    <2> QED BY <2>2, <2>3
  <1>5. Without(chords, row) = FlattenSeq(ss)
    BY DEF Without
  <1> HIDE DEF ss
  <1>6. FlattenSeq(ss) \in Seq(Chord)
    <2>1. PICK g : Joins(g, Chord, ss, Len(ss))
      BY <1>3, JoinsExist
    <2> QED BY <1>3, <2>1, FlattenIs
  <1>7. \A x : x \in ToSet(FlattenSeq(ss)) <=> \E i \in 1 .. Len(ss) : x \in ToSet(ss[i])
    BY <1>3, FlattenHas
  <1>8. \A x : x \in ToSet(FlattenSeq(ss)) <=> x \in ToSet(row) /\ x \notin chords
    <2>1. \A x : x \in ToSet(row) <=> \E i \in 1 .. Len(row) : x = row[i]
      BY <1>1 DEF ToSet
    <2>2. \A x : \A i \in 1 .. Len(row) : x \in ToSet(ss[i]) <=> x = row[i] /\ x \notin chords
      BY <1>4
    <2>3. \A x : x \in ToSet(FlattenSeq(ss)) <=> \E i \in 1 .. Len(row) : x \in ToSet(ss[i])
      BY <1>3, <1>7
    <2> HIDE <1>3, <1>4, <1>7
    <2> QED BY <2>1, <2>2, <2>3
  <1>9. \A r : ChordsIn(r) = ToSet(r) \ {Waiting}
    BY DEF ChordsIn, ToSet
  <1> QED BY <1>5, <1>6, <1>8, <1>9

\* A mapping with an action bound anew.
LEMMA ReboundIs ==
  ASSUME NEW m, IsMapping(m), NEW a \in Actions, NEW chords \in SUBSET (Chord \ {Waiting})
  PROVE  /\ IsMapping(Rebound(m, a, chords))
         /\ ChordsFor(Rebound(m, a, chords), a) = chords
         /\ \A b \in Actions : b # a => ChordsFor(Rebound(m, a, chords), b) = ChordsFor(m, b) \ chords
  <1> DEFINE D == {d \in DOMAIN m : m[d] # a} \cup chords
             r == Rebound(m, a, chords)
  <1>1. r = [c \in D |-> IF c \in chords THEN a ELSE m[c]]
    BY DEF Rebound
  <1>2. DOMAIN r = D /\ \A c \in D : r[c] = IF c \in chords THEN a ELSE m[c]
    BY <1>1
  <1>3. r = [c \in DOMAIN r |-> r[c]]
    BY <1>1, <1>2
  <1> HIDE DEF r
  <1>4. \A c \in DOMAIN m : c \in Chord \ {Waiting} /\ m[c] \in Actions
    BY DEF IsMapping
  <1>5. IsMapping(r)
    BY <1>2, <1>3, <1>4 DEF IsMapping
  <1>6. ChordsFor(r, a) = chords
    BY <1>2, <1>4 DEF ChordsFor
  <1>7. ASSUME NEW b \in Actions, b # a PROVE ChordsFor(r, b) = ChordsFor(m, b) \ chords
    BY <1>2, <1>4, <1>7 DEF ChordsFor
  <1> QED BY <1>5, <1>6, <1>7 DEF r

\* The mapping the program ships with.
LEMMA DefaultsAre ==
  /\ DOMAIN Defaults = {Key("F3"), Key("Backtab"), Key("Delete"), With("ctrl", "Delete")}
  /\ Defaults[Key("F3")] = "PF3" /\ Defaults[Key("Backtab")] = "BackTab"
  /\ Defaults[Key("Delete")] = "Delete" /\ Defaults[With("ctrl", "Delete")] = "EraseEOF"
  /\ IsMapping(Defaults)
  <1> DEFINE c1 == Key("F3")
             c2 == Key("Backtab")
             c3 == Key("Delete")
             c4 == With("ctrl", "Delete")
             bound == {<<c1, "PF3">>, <<c2, "BackTab">>, <<c3, "Delete">>, <<c4, "EraseEOF">>}
             D == {b[1] : b \in bound}
  <1>1. /\ c1 # c2 /\ c1 # c3 /\ c1 # c4 /\ c2 # c3 /\ c2 # c4 /\ c3 # c4
        /\ {c1, c2, c3, c4} \subseteq Chord \ {Waiting}
    BY DEF Key, With, Chord, Modifier, Waiting
  <1>2. Defaults = [c \in D |-> (CHOOSE b \in bound : b[1] = c)[2]]
    BY DEF Defaults
  <1> HIDE DEF c1, c2, c3, c4
  <1>3. D = {c1, c2, c3, c4}
    OBVIOUS
  <1>4. \A b \in bound : b[1] = c1 => b[2] = "PF3"
    BY <1>1
  <1>5. \A b \in bound : b[1] = c2 => b[2] = "BackTab"
    BY <1>1
  <1>6. \A b \in bound : b[1] = c3 => b[2] = "Delete"
    BY <1>1
  <1>7. \A b \in bound : b[1] = c4 => b[2] = "EraseEOF"
    BY <1>1
  <1>8. \A c \in D : (CHOOSE b \in bound : b[1] = c) \in bound /\ (CHOOSE b \in bound : b[1] = c)[1] = c
    OBVIOUS
  <1> HIDE DEF bound
  <1>9. /\ DOMAIN Defaults = {c1, c2, c3, c4}
        /\ Defaults[c1] = "PF3" /\ Defaults[c2] = "BackTab" /\ Defaults[c3] = "Delete" /\ Defaults[c4] = "EraseEOF"
    BY <1>2, <1>3, <1>4, <1>5, <1>6, <1>7, <1>8
  <1>10. Defaults = [c \in DOMAIN Defaults |-> Defaults[c]]
    BY <1>2, <1>3
  <1>11. \A c \in DOMAIN Defaults : c \in Chord \ {Waiting} /\ Defaults[c] \in Actions
    BY <1>1, <1>9 DEF Actions, Aids, Moves, Edits
  <1>12. IsMapping(Defaults)
    BY <1>10, <1>11 DEF IsMapping
  <1> QED BY <1>9, <1>12 DEF c1, c2, c3, c4

-----------------------------------------------------------------------------
(* The dialog shows what is bound.                                         *)

\* The rows are those of the working copy, even while the dialog is closed; the
\* labels and the settings are those of the mapping.
BoundOK ==
  /\ IsMapping(mapping) /\ IsMapping(working)
  /\ labels \subseteq {mapping}
  /\ Load(stored) = mapping
  /\ rows \in [Actions -> Seq(Chord)]
  /\ \A a \in Actions : ChordsIn(rows[a]) = ChordsFor(working, a)

LEMMA BoundStarts == KeyboardInit => BoundOK
  <1> SUFFICES ASSUME KeyboardInit PROVE BoundOK
    OBVIOUS
  <1>1. IsMapping(mapping)
    <2>1. mapping = Load(stored)
      BY DEF KeyboardInit
    <2>2. CASE stored = {}
      BY <2>1, <2>2, DefaultsAre DEF Load
    <2>3. CASE stored # {}
      <3>1. PICK m \in Earlier : stored = {m}
        BY <2>3 DEF KeyboardInit
      <3>2. mapping = m
        BY <2>1, <3>1 DEF Load
      <3> QED BY <3>1, <3>2, MappingsAssumption
    <2> QED BY <2>2, <2>3
  <1>2. working = mapping /\ rows = RowsOf(mapping) /\ labels = {} /\ Load(stored) = mapping
    BY DEF KeyboardInit
  <1> QED BY <1>1, <1>2, RowsAre DEF BoundOK

\* The rows are made again, of m.
LEMMA Populated ==
  ASSUME IsMapping(mapping'), labels' \subseteq {mapping'}, Load(stored') = mapping',
         NEW m, IsMapping(m), working' = m, rows' = RowsOf(m)
  PROVE  BoundOK'
  BY RowsAre DEF BoundOK

\* A chip is added, which waits.
LEMMA AddChipKeeps ==
  ASSUME BoundOK, NEW a \in Actions, AddChip(a)
  PROVE  BoundOK'
  <1> DEFINE row == Append(rows[a], Waiting)
  <1>1. UNCHANGED <<mapping, working, labels, stored>> /\ rows' = [rows EXCEPT ![a] = row]
    BY DEF AddChip
  <1>2. rows[a] \in Seq(Chord) /\ Waiting \in Chord
    BY DEF BoundOK, Waiting, Key, Chord
  <1>3. /\ row \in Seq(Chord) /\ Len(row) = Len(rows[a]) + 1 /\ row[Len(rows[a]) + 1] = Waiting
        /\ \A i \in 1 .. Len(rows[a]) : row[i] = rows[a][i]
    BY <1>2, AppendProperties
  <1>4. DOMAIN row = 1 .. Len(rows[a]) + 1 /\ DOMAIN rows[a] = 1 .. Len(rows[a]) /\ Len(rows[a]) \in Nat
    BY <1>2, <1>3
  <1> HIDE DEF row
  <1>5. ChordsIn(row) = ChordsIn(rows[a])
    <2>1. \A x : x # Waiting => ((\E i \in DOMAIN row : x = row[i]) <=> \E i \in DOMAIN rows[a] : x = rows[a][i])
      BY <1>3, <1>4
    <2> QED BY <2>1 DEF ChordsIn
  <1>6. rows' \in [Actions -> Seq(Chord)]
    BY <1>1, <1>3 DEF BoundOK
  <1>7. ASSUME NEW b \in Actions PROVE ChordsIn(rows'[b]) = ChordsFor(working, b)
    BY <1>1, <1>5 DEF BoundOK
  <1> QED BY <1>1, <1>6, <1>7 DEF BoundOK

\* A row the user has changed: its chords are bound, and lost by the others, or all
\* stays as it was.
LEMMA RowChangedKeeps ==
  ASSUME BoundOK, NEW a \in Actions, NEW row \in Seq(Chord), RowChanged(a, row)
  PROVE  BoundOK'
  <1>1. UNCHANGED <<mapping, labels, stored>>
    BY DEF RowChanged
  <1>2. ChordsIn(row) \in SUBSET (Chord \ {Waiting})
    BY DEF ChordsIn
  <1>3. CASE working' = Rebound(working, a, ChordsIn(row)) /\ rows' = WithoutStolen(a, row)
    <2> DEFINE left(b) == Without(ChordsIn(row) \cup {Waiting}, rows[b])
    <2>1. /\ IsMapping(working') /\ ChordsFor(working', a) = ChordsIn(row)
          /\ \A b \in Actions : b # a => ChordsFor(working', b) = ChordsFor(working, b) \ ChordsIn(row)
      BY <1>2, <1>3, ReboundIs DEF BoundOK
    <2>2. \A b \in Actions : rows[b] \in Seq(Chord) /\ ChordsIn(rows[b]) = ChordsFor(working, b)
      BY DEF BoundOK
    <2>3. ASSUME NEW b \in Actions
          PROVE  /\ left(b) \in Seq(Chord)
                 /\ ChordsIn(left(b)) = ChordsIn(rows[b]) \ ChordsIn(row)
      <3>1. /\ left(b) \in Seq(Chord)
            /\ ChordsIn(left(b)) = ChordsIn(rows[b]) \ (ChordsIn(row) \cup {Waiting})
        BY <2>2, WithoutIs
      <3>2. Waiting \notin ChordsIn(rows[b])
        BY DEF ChordsIn
      <3> QED BY <3>1, <3>2
    <2>4. rows' = [b \in Actions |-> IF b = a THEN row
                                     ELSE IF ChordsIn(rows[b]) \cap ChordsIn(row) = {} THEN rows[b]
                                     ELSE left(b)]
      BY <1>3 DEF WithoutStolen
    <2> HIDE DEF left
    <2>5. rows' \in [Actions -> Seq(Chord)]
      BY <2>2, <2>3, <2>4
    <2>6. ASSUME NEW b \in Actions PROVE ChordsIn(rows'[b]) = ChordsFor(working', b)
      <3>1. CASE b = a
        BY <2>1, <2>4, <3>1
      <3>2. CASE b # a
        <4>1. ChordsFor(working', b) = ChordsIn(rows[b]) \ ChordsIn(row)
          BY <2>1, <2>2, <3>2
        <4>2. CASE ChordsIn(rows[b]) \cap ChordsIn(row) = {}
          BY <2>4, <3>2, <4>1, <4>2
        <4>3. CASE ChordsIn(rows[b]) \cap ChordsIn(row) # {}
          BY <2>3, <2>4, <3>2, <4>1, <4>3
        <4> QED BY <4>2, <4>3
      <3> QED BY <3>1, <3>2
    <2> QED BY <1>1, <2>1, <2>5, <2>6 DEF BoundOK
  <1>4. CASE rows' = [rows EXCEPT ![a] = RowOf(working, a)] /\ UNCHANGED working
    <2>1. RowOf(working, a) \in Seq(Chord) /\ ChordsIn(RowOf(working, a)) = ChordsFor(working, a)
      BY RowIs DEF BoundOK
    <2> QED BY <1>1, <1>4, <2>1 DEF BoundOK
  <1> QED BY <1>3, <1>4 DEF RowChanged

\* The chord captured is one there is, and a row has fewer chips without one.
LEMMA RowsChanged ==
  ASSUME BoundOK, NEW a \in Actions, Capture(a) \/ RemoveChip(a)
  PROVE  BoundOK'
  <1>1. rows[a] \in Seq(Chord) /\ DOMAIN rows[a] = 1 .. Len(rows[a]) /\ Len(rows[a]) \in Nat
    BY DEF BoundOK
  <1>2. CASE Capture(a)
    <2>1. PICK i \in DOMAIN rows[a], c \in Chords : RowChanged(a, [rows[a] EXCEPT ![i] = c])
      BY <1>2 DEF Capture
    <2>2. c \in Chord
      BY ChordsAssumption
    <2>3. [rows[a] EXCEPT ![i] = c] \in Seq(Chord)
      BY <1>1, <2>2, ExceptSeq
    <2> QED BY <2>1, <2>3, RowChangedKeeps
  <1>3. CASE RemoveChip(a)
    <2>1. PICK i \in DOMAIN rows[a] : RowChanged(a, RemoveAt(rows[a], i))
      BY <1>3 DEF RemoveChip
    <2> DEFINE l == SubSeq(rows[a], 1, i - 1)
               r == SubSeq(rows[a], i + 1, Len(rows[a]))
    <2>2. l \in Seq(Chord) /\ r \in Seq(Chord)
      BY <1>1, SubSeqProperties
    <2> HIDE DEF l, r
    <2>3. l \o r \in Seq(Chord)
      BY <2>2
    <2>4. RemoveAt(rows[a], i) \in Seq(Chord)
      BY <2>3 DEF RemoveAt, l, r
    <2> QED BY <2>1, <2>4, RowChangedKeeps
  <1> QED BY <1>2, <1>3

\* All steps of the dialog and of the virtual keyboard.
LEMMA RemappingKeeps ==
  ASSUME BoundOK, Remapping
  PROVE  BoundOK'
  <1>0. /\ IsMapping(mapping) /\ IsMapping(working) /\ labels \subseteq {mapping}
        /\ Load(stored) = mapping
    BY DEF BoundOK
  <1>1. CASE \E a \in Actions : AddChip(a) \/ Capture(a) \/ RemoveChip(a)
    BY <1>1, AddChipKeeps, RowsChanged
  <1>2. CASE ShowVirtualKeyboard \/ HideVirtualKeyboard
    BY <1>2 DEF ShowVirtualKeyboard, HideVirtualKeyboard, BoundOK
  <1>3. CASE Open
    BY <1>0, <1>3, Populated DEF Open
  <1>4. CASE ResetDefaults \/ Import
    <2>1. PICK m : Repopulate(m) /\ IsMapping(m)
      BY <1>4, DefaultsAre, MappingsAssumption DEF ResetDefaults, Import
    <2> QED BY <1>0, <2>1, Populated DEF Repopulate
  <1>5. CASE Save
    <2>1. mapping' = working /\ stored' = {working} /\ labels' \subseteq {working}
      BY <1>5 DEF Save
    <2>2. Load(stored') = working
      BY <2>1 DEF Load
    <2>3. working' = working /\ rows' = RowsOf(working)
      BY <1>5 DEF Save, Finished
    <2> QED BY <1>0, <2>1, <2>2, <2>3, Populated
  <1>6. CASE Cancel
    BY <1>0, <1>6, Populated DEF Cancel, Finished
  <1>7. CASE Restart
    <2>1. mapping' = mapping /\ stored' = stored /\ labels' = {}
      BY <1>0, <1>7 DEF Restart
    <2>2. working' = mapping /\ rows' = RowsOf(mapping)
      BY <1>7, <2>1 DEF Restart, Finished
    <2> QED BY <1>0, <2>1, <2>2, Populated
  <1> QED BY <1>1, <1>2, <1>3, <1>4, <1>5, <1>6, <1>7 DEF Remapping

LEMMA RecordingKeeps ==
  ASSUME BoundOK, Recording
  PROVE  BoundOK'
  BY DEF BoundOK, Recording, PressKey, ClickCharacter, ClickAction, LatchModifier, ShowVirtualKeyboard,
         StartRecording, StopRecording

-----------------------------------------------------------------------------
(* A recording does again what its keys did.                               *)

Effects == Actions \cup {"character"}
MacroStep == [chord : Chord] \cup [aid : Aids]
ScriptLine == [press : Actions] \cup [type : Chord]

\* What the steps do, made a script and replayed under the default mapping.
DoneAgain(steps) == Replay(Defaults, MacroToScript(Defaults, steps))

\* What a chord is bound to by default.
LEMMA DefaultLookups ==
  ASSUME NEW c \in Chord
  PROVE  /\ c.key = "F3" => Lookup(Defaults, c) = IF c.mods = {} THEN "PF3" ELSE None
         /\ c.key = "Backtab" => Lookup(Defaults, c) \in {"BackTab", None}
         /\ c.key = "Delete" => Lookup(Defaults, c) \in {"Delete", "EraseEOF", None}
         /\ c.key \in {"x", "none"} => Lookup(Defaults, c) = None
  <1>1. /\ c.key \in {"F3", "Delete", "Backtab", "x", "none"} /\ c.mods \in SUBSET Modifier
        /\ c = [key |-> c.key, mods |-> c.mods]
    BY DEF Chord
  <1> DEFINE u == Unshifted(c)
  <1>2. u = [key |-> c.key, mods |-> c.mods \ {"shift"}]
    BY <1>1 DEF Unshifted
  <1>3. Lookup(Defaults, c) =
          LET found == IF c \notin DOMAIN Defaults /\ c.key = "Backtab" /\ "shift" \in c.mods THEN u ELSE c
          IN  IF found \in DOMAIN Defaults THEN Defaults[found] ELSE None
    BY DEF Lookup
  <1> HIDE DEF u
  <1>4. /\ DOMAIN Defaults = { [key |-> "F3", mods |-> {}], [key |-> "Backtab", mods |-> {}],
                               [key |-> "Delete", mods |-> {}], [key |-> "Delete", mods |-> {"ctrl"}] }
        /\ Defaults[[key |-> "F3", mods |-> {}]] = "PF3"
        /\ Defaults[[key |-> "Backtab", mods |-> {}]] = "BackTab"
        /\ Defaults[[key |-> "Delete", mods |-> {}]] = "Delete"
        /\ Defaults[[key |-> "Delete", mods |-> {"ctrl"}]] = "EraseEOF"
    BY DefaultsAre DEF Key, With
  <1>5. CASE c.key = "F3"
    BY <1>1, <1>3, <1>4, <1>5
  <1>6. CASE c.key = "Backtab"
    BY <1>1, <1>2, <1>3, <1>4, <1>6
  <1>7. CASE c.key = "Delete"
    BY <1>1, <1>3, <1>4, <1>7
  <1>8. CASE c.key \in {"x", "none"}
    BY <1>1, <1>3, <1>4, <1>8
  <1> QED BY <1>1, <1>5, <1>6, <1>7, <1>8

\* A key the user types is, recorded, no line, and the AID's behind it; or, when it
\* does nothing, no line; or one line, which does the same.
LEMMA ChordReplays ==
  ASSUME NEW c \in Chord, NEW e, e = Effect(Defaults, c, TRUE)
  PROVE  /\ e \in Effects \cup {None}
         /\ e \in Aids => /\ Line(Defaults, [chord |-> c]) = <<>>
                          /\ Line(Defaults, [aid |-> e]) = <<[press |-> e]>>
                          /\ ReplayLine(Defaults, [press |-> e]) = e
         /\ e = None => Line(Defaults, [chord |-> c]) = <<>>
         /\ e \notin Aids \cup {None} =>
              \E l \in ScriptLine : /\ Line(Defaults, [chord |-> c]) = <<l>>
                                    /\ ReplayLine(Defaults, l) = e
  <1> DEFINE l == Lookup(Defaults, c)
             base == EncoderBaseChord(c)
  <1>0. /\ c.key \in {"F3", "Delete", "Backtab", "x", "none"} /\ c.mods \in SUBSET Modifier
        /\ c = [key |-> c.key, mods |-> c.mods]
    BY DEF Chord
  <1>1. base = [key |-> c.key, mods |-> {}]
    BY <1>0 DEF EncoderBaseChord
  <1>2. /\ DOMAIN [chord |-> c] = {"chord"} /\ [chord |-> c].chord = c
        /\ "aid" \notin DOMAIN [chord |-> c]
    OBVIOUS
  <1>3. Line(Defaults, [chord |-> c]) =
          IF l \in Moves \cup Edits THEN <<[press |-> l]>>
          ELSE IF l = None /\ Encoded(c) = "character" THEN <<[type |-> c]>> ELSE <<>>
    BY <1>2 DEF Line
  <1>4. \A d \in Chord, t \in BOOLEAN : ~IsEncoderAidChord(d) =>
          Effect(Defaults, d, t) = IF Lookup(Defaults, d) # None THEN Lookup(Defaults, d) ELSE Encoded(d)
    BY DEF Effect, ActionOf
  <1>5. \A a \in Actions : /\ "type" \notin DOMAIN [press |-> a] /\ [press |-> a].press = a
                           /\ [press |-> a] \in ScriptLine
    BY DEF ScriptLine
  <1>6. \A a \in Actions : ReplayLine(Defaults, [press |-> a]) =
          IF a \in Moves THEN a ELSE Effect(Defaults, ReplayChord(a), FALSE)
    BY <1>5 DEF ReplayLine
  <1>7. /\ Key("F3") \in Chord /\ Key("Delete") \in Chord /\ With("ctrl", "Delete") \in Chord
        /\ Key("F3").key = "F3" /\ Key("F3").mods = {} /\ Key("Delete").key = "Delete"
        /\ With("ctrl", "Delete").key = "Delete"
    BY DEF Key, With, Chord, Modifier
  <1>8. CASE c.key = "F3"
    <2>1. l = (IF c.mods = {} THEN "PF3" ELSE None)
      BY <1>8, DefaultLookups
    <2>2. base \in Chord /\ base.key = "F3" /\ base.mods = {}
      BY <1>1, <1>8 DEF Chord
    <2>3. Lookup(Defaults, base) = "PF3"
      BY <2>2, DefaultLookups
    <2>4. e = "PF3"
      BY <1>8, <2>1, <2>3 DEF Effect, ActionOf, IsEncoderAidChord, None
    <2>5. Encoded(c) = "PF3"
      BY <1>8 DEF Encoded
    <2>6. Line(Defaults, [chord |-> c]) = <<>>
      BY <1>3, <2>1, <2>5 DEF Moves, Edits, None
    <2>7. "PF3" \in Aids /\ "PF3" \in Actions /\ "PF3" \notin Moves /\ "PF3" # None
      BY DEF Aids, Moves, Actions, None
    <2>8. Line(Defaults, [aid |-> e]) = <<[press |-> e]>>
      <3>1. "aid" \in DOMAIN [aid |-> e] /\ [aid |-> e].aid = e
        OBVIOUS
      <3> QED BY <3>1 DEF Line
    <2>9. Lookup(Defaults, Key("F3")) = "PF3"
      BY <1>7, DefaultLookups
    <2>10. Effect(Defaults, Key("F3"), FALSE) = "PF3"
      BY <2>7, <2>9 DEF Effect, ActionOf
    <2>11. ReplayLine(Defaults, [press |-> e]) = e
      BY <1>6, <2>4, <2>7, <2>10 DEF ReplayChord
    <2> QED BY <2>4, <2>6, <2>7, <2>8, <2>11 DEF Effects
  <1>9. CASE c.key = "Backtab"
    <2>1. l \in {"BackTab", None}
      BY <1>9, DefaultLookups
    <2>2. Encoded(c) = None
      BY <1>9 DEF Encoded
    <2>3. e = l
      BY <1>4, <1>9, <2>1, <2>2 DEF IsEncoderAidChord
    <2>4. CASE l = None
      <3>1. Line(Defaults, [chord |-> c]) = <<>>
        BY <1>3, <2>2, <2>4 DEF Moves, Edits, None
      <3> QED BY <2>3, <2>4, <3>1 DEF Aids, None
    <2>5. CASE l = "BackTab"
      <3>1. "BackTab" \in Moves /\ "BackTab" \in Actions /\ "BackTab" \notin Aids
        BY DEF Moves, Actions, Aids
      <3>2. Line(Defaults, [chord |-> c]) = <<[press |-> "BackTab"]>>
        BY <1>3, <2>5, <3>1
      <3>3. ReplayLine(Defaults, [press |-> "BackTab"]) = "BackTab"
        BY <1>6, <3>1
      <3> QED BY <1>5, <2>3, <2>5, <3>1, <3>2, <3>3 DEF Effects, None
    <2> QED BY <2>1, <2>4, <2>5
  <1>10. CASE c.key = "Delete"
    <2>1. l \in {"Delete", "EraseEOF", None}
      BY <1>10, DefaultLookups
    <2>2. Encoded(c) = None
      BY <1>10 DEF Encoded
    <2>3. e = l
      BY <1>4, <1>10, <2>1, <2>2 DEF IsEncoderAidChord
    <2>4. CASE l = None
      <3>1. Line(Defaults, [chord |-> c]) = <<>>
        BY <1>3, <2>2, <2>4 DEF Moves, Edits, None
      <3> QED BY <2>3, <2>4, <3>1 DEF Aids, None
    <2>5. CASE l \in Edits
      <3>1. l \in Actions /\ l \notin Aids /\ l \notin Moves /\ l # None
        BY <2>5 DEF Edits, Actions, Aids, Moves, None
      <3>2. Line(Defaults, [chord |-> c]) = <<[press |-> l]>>
        BY <1>3, <2>5
      <3>3. /\ Lookup(Defaults, Key("Delete")) = "Delete"
            /\ Lookup(Defaults, With("ctrl", "Delete")) = "EraseEOF"
        BY DefaultsAre DEF Lookup, Key, With
      <3>4. Effect(Defaults, ReplayChord(l), FALSE) = l
        <4>1. ~IsEncoderAidChord(Key("Delete")) /\ ~IsEncoderAidChord(With("ctrl", "Delete"))
          BY <1>7 DEF IsEncoderAidChord
        <4>2. CASE l = "Delete"
          <5>1. ReplayChord("Delete") = Key("Delete")
            BY DEF ReplayChord
          <5> QED BY <1>4, <1>7, <3>1, <3>3, <4>1, <4>2, <5>1
        <4>3. CASE l = "EraseEOF"
          <5>1. ReplayChord("EraseEOF") = With("ctrl", "Delete")
            BY DEF ReplayChord
          <5> QED BY <1>4, <1>7, <3>1, <3>3, <4>1, <4>3, <5>1
        <4> QED BY <2>5, <4>2, <4>3 DEF Edits
      <3>5. ReplayLine(Defaults, [press |-> l]) = l
        BY <1>6, <3>1, <3>4
      <3> QED BY <1>5, <2>3, <3>1, <3>2, <3>5 DEF Effects
    <2> QED BY <2>1, <2>4, <2>5 DEF Edits
  <1>11. CASE c.key \in {"x", "none"}
    <2>1. l = None
      BY <1>11, DefaultLookups
    <2>2. e = Encoded(c) /\ Effect(Defaults, c, FALSE) = Encoded(c)
      BY <1>4, <1>11, <2>1 DEF IsEncoderAidChord
    <2>3. Encoded(c) \in {"character", None}
      BY <1>11 DEF Encoded
    <2>4. CASE Encoded(c) = None
      <3>1. Line(Defaults, [chord |-> c]) = <<>>
        BY <1>3, <2>1, <2>4 DEF Moves, Edits, None
      <3> QED BY <2>2, <2>4, <3>1 DEF Aids, None
    <2>5. CASE Encoded(c) = "character"
      <3>1. Line(Defaults, [chord |-> c]) = <<[type |-> c]>>
        BY <1>3, <2>1, <2>5 DEF Moves, Edits, None
      <3>2. [type |-> c] \in ScriptLine /\ "type" \in DOMAIN [type |-> c] /\ [type |-> c].type = c
        BY DEF ScriptLine
      <3>3. ReplayLine(Defaults, [type |-> c]) = "character"
        BY <2>2, <2>5, <3>2 DEF ReplayLine
      <3>4. "character" \in Effects /\ "character" \notin Aids \cup {None}
        BY DEF Effects, Aids, None
      <3> QED BY <2>2, <2>5, <3>1, <3>2, <3>3, <3>4
    <2> QED BY <2>3, <2>4, <2>5
  <1> QED BY <1>0, <1>8, <1>9, <1>10, <1>11

\* What any mapping makes of a chord is an effect there is, or none.
LEMMA EffectType ==
  ASSUME NEW m, IsMapping(m), NEW c \in Chord
  PROVE  /\ Lookup(m, c) \in Actions \cup {None}
         /\ Effect(m, c, TRUE) \in Effects \cup {None}
  <1>1. \A d \in DOMAIN m : m[d] \in Actions
    BY DEF IsMapping
  <1>2. \A d : Lookup(m, d) \in Actions \cup {None}
    BY <1>1 DEF Lookup
  <1>3. ActionOf(m, c) \in Actions \cup {None}
    BY <1>2 DEF ActionOf
  <1>4. Encoded(c) \in Effects \cup {None}
    BY DEF Encoded, Effects, Actions, Aids, None, Chord
  <1> QED BY <1>2, <1>3, <1>4 DEF Effect, Effects

LEMMA LineType ==
  ASSUME NEW s \in MacroStep
  PROVE  Line(Defaults, s) \in Seq(ScriptLine)
  <1>1. CASE s \in [aid : Aids]
    <2>1. "aid" \in DOMAIN s /\ s.aid \in Aids
      BY <1>1
    <2>2. [press |-> s.aid] \in ScriptLine
      BY <2>1 DEF ScriptLine, Actions
    <2>3. Line(Defaults, s) = <<[press |-> s.aid]>>
      BY <2>1 DEF Line
    <2> QED BY <2>2, <2>3
  <1>2. CASE s \in [chord : Chord]
    <2> DEFINE l == Lookup(Defaults, s.chord)
    <2>1. "aid" \notin DOMAIN s /\ s.chord \in Chord
      BY <1>2
    <2>2. Line(Defaults, s) =
            IF l \in Moves \cup Edits THEN <<[press |-> l]>>
            ELSE IF l = None /\ Encoded(s.chord) = "character" THEN <<[type |-> s.chord]>> ELSE <<>>
      BY <2>1 DEF Line
    <2> HIDE DEF l
    <2>3. l \in Moves \cup Edits => [press |-> l] \in ScriptLine
      BY DEF ScriptLine, Actions
    <2>4. [type |-> s.chord] \in ScriptLine
      BY <2>1 DEF ScriptLine
    <2> QED BY <2>2, <2>3, <2>4
  <1> QED BY <1>1, <1>2 DEF MacroStep

\* A step more is the lines of the step more.
LEMMA ScriptGrows ==
  ASSUME NEW steps \in Seq(MacroStep), NEW s \in MacroStep
  PROVE  /\ MacroToScript(Defaults, steps) \in Seq(ScriptLine)
         /\ MacroToScript(Defaults, Append(steps, s)) = MacroToScript(Defaults, steps) \o Line(Defaults, s)
  <1> DEFINE ss == [i \in DOMAIN steps |-> Line(Defaults, steps[i])]
             more == Append(steps, s)
             tt == [i \in DOMAIN more |-> Line(Defaults, more[i])]
             t == Line(Defaults, s)
  <1>0. /\ Len(steps) \in Nat /\ DOMAIN steps = 1 .. Len(steps)
        /\ \A i \in 1 .. Len(steps) : steps[i] \in MacroStep
    OBVIOUS
  <1>1. /\ DOMAIN more = 1 .. Len(steps) + 1 /\ more[Len(steps) + 1] = s
        /\ \A i \in 1 .. Len(steps) : more[i] = steps[i]
    BY <1>0, AppendProperties
  <1>2. t \in Seq(ScriptLine)
    BY LineType
  <1>3. \A i \in 1 .. Len(steps) : Line(Defaults, steps[i]) \in Seq(ScriptLine)
    BY <1>0, LineType
  <1>4. ss \in Seq(Seq(ScriptLine)) /\ Len(ss) = Len(steps) /\ DOMAIN ss = 1 .. Len(steps)
    BY <1>0, <1>3
  <1>5. \A i \in 1 .. Len(steps) : tt[i] = ss[i]
    BY <1>0, <1>1
  <1>6. DOMAIN tt = 1 .. Len(steps) + 1 /\ tt[Len(steps) + 1] = t
    BY <1>0, <1>1
  <1>7. tt = [i \in DOMAIN tt |-> tt[i]]
    BY <1>1
  <1>8. MacroToScript(Defaults, steps) = FlattenSeq(ss) /\ MacroToScript(Defaults, more) = FlattenSeq(tt)
    BY DEF MacroToScript
  <1> HIDE DEF ss, tt, t, more
  <1>9. /\ DOMAIN Append(ss, t) = 1 .. Len(steps) + 1 /\ Append(ss, t)[Len(steps) + 1] = t
        /\ \A i \in 1 .. Len(steps) : Append(ss, t)[i] = ss[i]
        /\ Append(ss, t) = [i \in DOMAIN Append(ss, t) |-> Append(ss, t)[i]]
    <2>0. ss \in Seq(Seq(ScriptLine)) /\ t \in Seq(ScriptLine)
      BY <1>2, <1>4
    <2>1. Append(ss, t) \in Seq(Seq(ScriptLine))
      BY <2>0, AppendProperties
    <2>2. Append(ss, t) = [i \in DOMAIN Append(ss, t) |-> Append(ss, t)[i]]
      <3>1. \A q \in Seq(Seq(ScriptLine)) : q = [i \in DOMAIN q |-> q[i]]
        OBVIOUS
      <3> HIDE <1>1, <1>4
      <3> QED BY <2>1, <3>1, Zenon
    <2>4. Len(ss) = Len(steps)
      BY <1>4
    <2> HIDE <1>4
    <2>3. /\ Len(Append(ss, t)) = Len(ss) + 1 /\ Append(ss, t)[Len(ss) + 1] = t
          /\ \A i \in 1 .. Len(ss) : Append(ss, t)[i] = ss[i]
      BY <2>0, AppendProperties
    <2>5. DOMAIN Append(ss, t) = 1 .. Len(Append(ss, t))
      BY <2>1
    <2> HIDE <2>0, <2>1, <2>2
    <2>6. /\ DOMAIN Append(ss, t) = 1 .. Len(steps) + 1 /\ Append(ss, t)[Len(steps) + 1] = t
          /\ \A i \in 1 .. Len(steps) : Append(ss, t)[i] = ss[i]
      BY <2>3, <2>4, <2>5
    <2> QED BY <2>2, <2>6
  <1>10. Append(ss, t) = tt
    <2>1. \A i \in 1 .. Len(steps) + 1 : Append(ss, t)[i] = tt[i]
      BY <1>0, <1>5, <1>6, <1>9
    <2> QED BY <1>6, <1>7, <1>9, <2>1
  <1>11. FlattenSeq(ss) \in Seq(ScriptLine) /\ FlattenSeq(Append(ss, t)) = FlattenSeq(ss) \o t
    BY <1>2, <1>4, FlattenAppend
  <1>12. FlattenSeq(ss) \in Seq(ScriptLine)
    BY <1>11
  <1> QED BY <1>8, <1>10, <1>11, <1>12 DEF more, t

\* A line more does one thing more.
LEMMA ReplayGrows ==
  ASSUME NEW lines \in Seq(ScriptLine)
  PROVE  /\ Replay(Defaults, lines \o <<>>) = Replay(Defaults, lines) \o <<>>
         /\ \A l \in ScriptLine :
              Replay(Defaults, lines \o <<l>>) = Replay(Defaults, lines) \o <<ReplayLine(Defaults, l)>>
  <1>1. /\ Len(lines) \in Nat /\ DOMAIN lines = 1 .. Len(lines) /\ lines \o <<>> = lines
    OBVIOUS
  <1>2. /\ DOMAIN Replay(Defaults, lines) = 1 .. Len(lines)
        /\ \A i \in 1 .. Len(lines) : Replay(Defaults, lines)[i] = ReplayLine(Defaults, lines[i])
        /\ Replay(Defaults, lines) \in Seq({ReplayLine(Defaults, l) : l \in ScriptLine})
    BY <1>1 DEF Replay
  <1> HIDE DEF Replay
  <1>3. Len(Replay(Defaults, lines)) = Len(lines)
    BY <1>1, <1>2
  <1>4. ASSUME NEW l \in ScriptLine
        PROVE  Replay(Defaults, lines \o <<l>>) = Replay(Defaults, lines) \o <<ReplayLine(Defaults, l)>>
    <2> DEFINE more == lines \o <<l>>
               x == ReplayLine(Defaults, l)
               r == Replay(Defaults, lines)
    <2>1. /\ DOMAIN more = 1 .. Len(lines) + 1 /\ more[Len(lines) + 1] = l
          /\ \A i \in 1 .. Len(lines) : more[i] = lines[i]
      BY <1>1
    <2> HIDE DEF more, x, r
    <2>2. /\ DOMAIN (r \o <<x>>) = 1 .. Len(lines) + 1 /\ (r \o <<x>>)[Len(lines) + 1] = x
          /\ \A i \in 1 .. Len(lines) : (r \o <<x>>)[i] = r[i]
          /\ (r \o <<x>>) = [i \in DOMAIN (r \o <<x>>) |-> (r \o <<x>>)[i]]
      BY <1>1, <1>2, <1>3 DEF r
    <2>3. Replay(Defaults, more) = [i \in 1 .. Len(lines) + 1 |-> ReplayLine(Defaults, more[i])]
      BY <2>1 DEF Replay
    <2>4. \A i \in 1 .. Len(lines) + 1 : (r \o <<x>>)[i] = ReplayLine(Defaults, more[i])
      BY <1>1, <1>2, <2>1, <2>2 DEF r, x
    <2>5. Replay(Defaults, more) = r \o <<x>>
      BY <2>2, <2>3, <2>4
    <2> QED BY <2>5 DEF more, x, r
  <1>5. Replay(Defaults, lines) \o <<>> = Replay(Defaults, lines)
    BY <1>2
  <1> QED BY <1>1, <1>4, <1>5

\* A key the user types more is its effect more.
LEMMA KeyDoneAgain ==
  ASSUME NEW steps \in Seq(MacroStep), NEW c \in Chord, NEW e, e = Effect(Defaults, c, TRUE)
  PROVE  DoneAgain(steps \o <<[chord |-> c]>> \o AidStep(e)) = DoneAgain(steps) \o Did(e)
  <1> DEFINE s == [chord |-> c]
             one == Append(steps, s)
             lines == MacroToScript(Defaults, steps)
  <1>1. s \in MacroStep /\ one \in Seq(MacroStep) /\ steps \o <<s>> = one
    BY DEF MacroStep
  <1>2. /\ lines \in Seq(ScriptLine) /\ MacroToScript(Defaults, one) \in Seq(ScriptLine)
        /\ MacroToScript(Defaults, one) = lines \o Line(Defaults, s)
    BY <1>1, ScriptGrows
  <1>3. CASE e \in Aids
    <2> DEFINE a == [aid |-> e]
    <2>a. a \in MacroStep /\ AidStep(e) = <<a>>
      BY <1>3 DEF MacroStep, AidStep
    <2>b. \A q \in Seq(MacroStep), x \in MacroStep : q \o <<x>> = Append(q, x)
      OBVIOUS
    <2>1. a \in MacroStep /\ AidStep(e) = <<a>> /\ one \o <<a>> = Append(one, a)
      BY <1>1, <2>a, <2>b
    <2>2. Line(Defaults, s) = <<>> /\ Line(Defaults, a) = <<[press |-> e]>> /\ ReplayLine(Defaults, [press |-> e]) = e
      BY <1>3, ChordReplays
    <2>3. [press |-> e] \in ScriptLine /\ Did(e) = <<e>>
      BY <1>3 DEF ScriptLine, Actions, Did, Aids, None
    <2> HIDE DEF a, s, one, lines
    <2>4. MacroToScript(Defaults, Append(one, a)) = MacroToScript(Defaults, one) \o Line(Defaults, a)
      BY <1>1, <2>1, ScriptGrows
    <2>5. MacroToScript(Defaults, one) = lines
      BY <1>2, <2>2
    <2>6. DoneAgain(Append(one, a)) = Replay(Defaults, lines \o <<[press |-> e]>>)
      BY <2>2, <2>4, <2>5 DEF DoneAgain
    <2>7. DoneAgain(Append(one, a)) = Replay(Defaults, lines) \o <<e>>
      BY <1>2, <2>2, <2>3, <2>6, ReplayGrows
    <2>8. DoneAgain(steps) = Replay(Defaults, lines)
      BY DEF DoneAgain, lines
    <2>9. steps \o <<s>> \o AidStep(e) = Append(one, a)
      BY <1>1, <2>1
    <2> QED BY <2>3, <2>7, <2>8, <2>9 DEF s
  <1>4. CASE e \notin Aids
    <2>1. AidStep(e) = <<>> /\ one \o <<>> = one
      BY <1>1, <1>4 DEF AidStep
    <2>2. DoneAgain(one) = Replay(Defaults, lines \o Line(Defaults, s))
      BY <1>2 DEF DoneAgain
    <2>3. DoneAgain(steps) = Replay(Defaults, lines)
      BY DEF DoneAgain
    <2>4. CASE e = None
      <3>1. Line(Defaults, s) = <<>> /\ Did(e) = <<>>
        BY <2>4, ChordReplays DEF Did
      <3> HIDE DEF s, one, lines
      <3>2. DoneAgain(one) = DoneAgain(steps) \o Did(e)
        BY <1>2, <2>2, <2>3, <3>1, ReplayGrows
      <3> QED BY <1>1, <2>1, <3>2 DEF s
    <2>5. CASE e # None
      <3>1. Did(e) = <<e>>
        BY <2>5 DEF Did
      <3>2. PICK l \in ScriptLine : Line(Defaults, s) = <<l>> /\ ReplayLine(Defaults, l) = e
        BY <1>4, <2>5, ChordReplays
      <3> HIDE DEF s, one, lines
      <3>3. DoneAgain(one) = DoneAgain(steps) \o Did(e)
        BY <1>2, <2>2, <2>3, <3>1, <3>2, ReplayGrows
      <3> QED BY <1>1, <2>1, <3>3 DEF s
    <2> QED BY <2>4, <2>5
  <1> QED BY <1>3, <1>4

-----------------------------------------------------------------------------
\* The recording typed by the user alone does again what it did, as long as the
\* mapping is the default one; before its first key it has done nothing.
RecorderOK ==
  /\ recorder \in [on : BOOLEAN, steps : Seq(MacroStep), did : Seq(Effects), plain : BOOLEAN]
  /\ recorder.plain =>
       /\ recorder.steps = <<>> => recorder.did = <<>>
       /\ mapping = Defaults => DoneAgain(recorder.steps) = recorder.did

LEMMA NoStepsDoNothing == DoneAgain(<<>>) = <<>>
  <1> DEFINE no == <<>>
  <1>1. MacroToScript(Defaults, <<>>) = FlattenSeq(<<>>)
    BY DEF MacroToScript
  <1>2. Replay(Defaults, <<>>) = <<>>
    BY DEF Replay
  <1> QED BY <1>1, <1>2, FlattenEmpty DEF DoneAgain

LEMMA NotRecordingIs == NotRecording = [NotRecording EXCEPT !.on = FALSE]
  <1>1. \A n : n.on = FALSE /\ n \in [on : BOOLEAN, steps : {<<>>}, did : {<<>>}, plain : BOOLEAN]
               => [n EXCEPT !.on = FALSE] = n
    OBVIOUS
  <1>2. NotRecording.on = FALSE
    BY DEF NotRecording
  <1>3. NotRecording \in [on : BOOLEAN, steps : {<<>>}, did : {<<>>}, plain : BOOLEAN]
    BY DEF NotRecording
  <1> QED BY <1>1, <1>2, <1>3, Zenon

LEMMA RecordingType ==
  ASSUME NEW b \in BOOLEAN, NEW r, r = [on |-> b, steps |-> <<>>, did |-> <<>>, plain |-> TRUE]
  PROVE  r \in [on : BOOLEAN, steps : Seq(MacroStep), did : Seq(Effects), plain : BOOLEAN]
  <1>1. <<>> \in Seq(MacroStep) /\ <<>> \in Seq(Effects)
    OBVIOUS
  <1> QED BY <1>1

\* A recording that has just begun.
LEMMA RecordingStarts ==
  ASSUME NEW b \in BOOLEAN, recorder' = [NotRecording EXCEPT !.on = b]
  PROVE  RecorderOK'
  <1>1. recorder' = [on |-> b, steps |-> <<>>, did |-> <<>>, plain |-> TRUE]
    BY DEF NotRecording
  <1>2. recorder' \in [on : BOOLEAN, steps : Seq(MacroStep), did : Seq(Effects), plain : BOOLEAN]
    BY <1>1, RecordingType, Zenon
  <1>3. recorder'.steps = <<>> /\ recorder'.did = <<>>
    BY <1>1
  <1> QED BY <1>2, <1>3, NoStepsDoNothing DEF RecorderOK

\* A key or a button is recorded.
LEMMA Records ==
  ASSUME RecorderOK, recorder.on, mapping' = mapping, NEW step \in Seq(MacroStep),
         NEW e \in Effects \cup {None}, NEW plain \in BOOLEAN,
         recorder' = Recorded(step, e, plain),
         plain => \E c \in Chord : step = <<[chord |-> c]>> /\ e = Effect(mapping, c, TRUE)
  PROVE  RecorderOK'
  <1> DEFINE steps == recorder.steps \o step \o AidStep(e)
             did == recorder.did \o Did(e)
  <1>1. /\ recorder.steps \in Seq(MacroStep) /\ recorder.did \in Seq(Effects) /\ recorder.plain \in BOOLEAN
        /\ recorder = [on |-> recorder.on, steps |-> recorder.steps, did |-> recorder.did,
                       plain |-> recorder.plain]
    BY DEF RecorderOK
  <1>2. AidStep(e) \in Seq(MacroStep)
    <2>1. CASE e \in Aids
      <3>1. [aid |-> e] \in MacroStep
        BY <2>1 DEF MacroStep
      <3> QED BY <2>1, <3>1 DEF AidStep
    <2>2. CASE e \notin Aids
      BY <2>2 DEF AidStep
    <2> QED BY <2>1, <2>2
  <1>3. Did(e) \in Seq(Effects)
    BY DEF Did
  <1>4. steps \in Seq(MacroStep) /\ did \in Seq(Effects)
    BY <1>1, <1>2, <1>3
  <1>5. /\ recorder'.on = TRUE /\ recorder'.steps = steps /\ recorder'.did = did
        /\ recorder'.plain = (recorder.plain /\ plain)
        /\ recorder' = [on |-> TRUE, steps |-> steps, did |-> did, plain |-> recorder.plain /\ plain]
    BY <1>1 DEF Recorded
  <1>6. ASSUME recorder.plain, plain
        PROVE  steps # <<>> /\ (mapping = Defaults => DoneAgain(steps) = did)
    <2>1. PICK c \in Chord : step = <<[chord |-> c]>> /\ e = Effect(mapping, c, TRUE)
      BY <1>6
    <2>2. Len(step) = 1
      BY <2>1
    <2>3. steps # <<>>
      <3> HIDE DEF did
      <3>1. Len(steps) = Len(recorder.steps) + Len(step) + Len(AidStep(e))
        BY <1>1, <1>2
      <3>2. Len(steps) # 0
        BY <1>1, <1>2, <2>2, <3>1
      <3> QED BY <3>2
    <2>4. ASSUME mapping = Defaults PROVE DoneAgain(steps) = did
      <3>1. DoneAgain(recorder.steps) = recorder.did
        BY <1>6, <2>4 DEF RecorderOK
      <3>2. e = Effect(Defaults, c, TRUE)
        BY <2>1, <2>4
      <3>3. DoneAgain(recorder.steps \o <<[chord |-> c]>> \o AidStep(e)) = DoneAgain(recorder.steps) \o Did(e)
        BY <1>1, <3>2, KeyDoneAgain
      <3> QED BY <2>1, <3>1, <3>3
    <2> QED BY <2>3, <2>4
  <1> HIDE DEF steps, did
  <1>7. recorder' \in [on : BOOLEAN, steps : Seq(MacroStep), did : Seq(Effects), plain : BOOLEAN]
    <2>1. (recorder.plain /\ plain) \in BOOLEAN
      OBVIOUS
    <2> QED BY <1>4, <1>5, <2>1
  <1>8. recorder'.plain => /\ recorder'.steps # <<>>
                           /\ (mapping' = Defaults => DoneAgain(recorder'.steps) = recorder'.did)
    BY <1>5, <1>6
  <1> QED BY <1>7, <1>8 DEF RecorderOK

\* The steps at the screen.
LEMMA RecordingRecords ==
  ASSUME BoundOK, RecorderOK, DefaultsReplay, Recording
  PROVE  RecorderOK' /\ DefaultsReplay'
  <1>0. IsMapping(mapping)
    BY DEF BoundOK
  <1>1. ASSUME UNCHANGED script PROVE DefaultsReplay'
    BY <1>1 DEF DefaultsReplay
  <1>2. ASSUME NEW c \in Chords, PressKey(c) PROVE RecorderOK' /\ DefaultsReplay'
    <2>1. c \in Chord
      BY ChordsAssumption
    <2>2. <<[chord |-> c]>> \in Seq(MacroStep)
      BY <2>1 DEF MacroStep
    <2>3. Effect(mapping, c, TRUE) \in Effects \cup {None}
      BY <1>0, <2>1, EffectType
    <2>4. /\ recorder.on /\ mapping' = mapping /\ UNCHANGED script
          /\ recorder' = Recorded(<<[chord |-> c]>>, Effect(mapping, c, TRUE), TRUE)
      BY <1>2 DEF PressKey, Press
    <2> QED BY <1>1, <2>1, <2>2, <2>3, <2>4, Records
  <1>3. ASSUME NEW step, step = <<>>, NEW e \in Effects \cup {None}, recorder.on, UNCHANGED <<mapping, script>>,
               recorder' = Recorded(step, e, FALSE)
        PROVE  RecorderOK' /\ DefaultsReplay'
    <2>1. step \in Seq(MacroStep)
      BY <1>3
    <2> QED BY <1>1, <1>3, <2>1, Records
  <1>4. ASSUME NEW c \in Chords, ClickCharacter(c) PROVE RecorderOK' /\ DefaultsReplay'
    <2>1. c \in Chord
      BY ChordsAssumption
    <2> DEFINE e == IF latched \cap {"ctrl", "alt"} = {} THEN "character" ELSE Lookup(mapping, c)
    <2>2. e \in Effects \cup {None}
      BY <1>0, <2>1, EffectType DEF Effects
    <2>3. recorder.on /\ UNCHANGED <<mapping, script>> /\ recorder' = Recorded(<<>>, e, FALSE)
      BY <1>4 DEF ClickCharacter, Press
    <2> HIDE DEF e
    <2> QED BY <1>3, <2>2, <2>3
  <1>5. ASSUME NEW a \in Actions, ClickAction(a) PROVE RecorderOK' /\ DefaultsReplay'
    <2>1. a \in Effects \cup {None}
      BY DEF Effects
    <2>2. recorder.on /\ UNCHANGED <<mapping, script>> /\ recorder' = Recorded(<<>>, a, FALSE)
      BY <1>5 DEF ClickAction, Press
    <2> QED BY <1>3, <2>1, <2>2
  <1>6. ASSUME LatchModifier("alt") \/ ShowVirtualKeyboard PROVE RecorderOK' /\ DefaultsReplay'
    <2>1. UNCHANGED <<mapping, recorder, script>>
      BY <1>6 DEF LatchModifier, ShowVirtualKeyboard
    <2> QED BY <1>1, <2>1 DEF RecorderOK
  <1>7. ASSUME StartRecording PROVE RecorderOK' /\ DefaultsReplay'
    <2>1. recorder' = [NotRecording EXCEPT !.on = TRUE] /\ script' = {}
      BY <1>7 DEF StartRecording
    <2>2. DefaultsReplay'
      BY <2>1 DEF DefaultsReplay
    <2> QED BY <2>1, <2>2, RecordingStarts
  <1>8. ASSUME NEW keep \in BOOLEAN, StopRecording(keep) PROVE RecorderOK' /\ DefaultsReplay'
    <2>1. recorder' = [NotRecording EXCEPT !.on = FALSE]
      BY <1>8, NotRecordingIs DEF StopRecording
    <2>2. RecorderOK'
      BY <2>1, RecordingStarts
    <2>3. ASSUME NEW s \in script', s.plain, s.mapping = Defaults
          PROVE  Replay(Defaults, s.lines) = s.did
      <3>1. s = [lines |-> MacroToScript(mapping, recorder.steps), did |-> recorder.did,
                 plain |-> recorder.plain, mapping |-> mapping]
        BY <1>8 DEF StopRecording
      <3>2. /\ s.plain = recorder.plain /\ s.mapping = mapping /\ s.did = recorder.did
            /\ s.lines = MacroToScript(mapping, recorder.steps)
        BY <3>1
      <3>3. DoneAgain(recorder.steps) = recorder.did
        BY <2>3, <3>2 DEF RecorderOK
      <3> QED BY <2>3, <3>2, <3>3 DEF DoneAgain
    <2> QED BY <2>2, <2>3 DEF DefaultsReplay
  <1> QED BY <1>2, <1>4, <1>5, <1>6, <1>7, <1>8 DEF Recording

\* Another mapping ends what could be replayed, once there is a key.
LEMMA RemappingRecords ==
  ASSUME RecorderOK, DefaultsReplay, Load(stored) = mapping, Remapping
  PROVE  RecorderOK' /\ DefaultsReplay'
  <1>1. CASE UNCHANGED <<mapping, recorder, script>>
    BY <1>1 DEF RecorderOK, DefaultsReplay
  <1>2. CASE Save
    <2>1. /\ mapping' = working /\ UNCHANGED script
          /\ recorder' = [recorder EXCEPT !.plain = @ /\ (recorder.steps = <<>> \/ working = mapping)]
      BY <1>2 DEF Save
    <2> DEFINE p == recorder.plain /\ (recorder.steps = <<>> \/ working = mapping)
    <2>2. p \in BOOLEAN /\ (p => recorder.plain /\ (recorder.steps = <<>> \/ mapping' = mapping))
      BY <2>1
    <2>3. recorder' = [recorder EXCEPT !.plain = p]
      BY <2>1
    <2> HIDE DEF p
    <2>4. /\ recorder' \in [on : BOOLEAN, steps : Seq(MacroStep), did : Seq(Effects), plain : BOOLEAN]
          /\ recorder'.steps = recorder.steps /\ recorder'.did = recorder.did /\ recorder'.plain = p
      BY <2>2, <2>3 DEF RecorderOK
    <2>5. ASSUME recorder'.plain
          PROVE  /\ recorder'.steps = <<>> => recorder'.did = <<>>
                 /\ mapping' = Defaults => DoneAgain(recorder'.steps) = recorder'.did
      BY <2>2, <2>4, <2>5, NoStepsDoNothing DEF RecorderOK
    <2> QED BY <2>1, <2>4, <2>5 DEF RecorderOK, DefaultsReplay
  <1>3. CASE Restart
    <2>1. recorder' = [NotRecording EXCEPT !.on = FALSE] /\ script' = {}
      BY <1>3, NotRecordingIs DEF Restart
    <2> QED BY <2>1, RecordingStarts DEF DefaultsReplay
  <1> QED BY <1>1, <1>2, <1>3
        DEF Remapping, AddChip, Capture, RemoveChip, RowChanged, ShowVirtualKeyboard, HideVirtualKeyboard,
            Open, ResetDefaults, Import, Repopulate, Cancel

KeysOK == BoundOK /\ RecorderOK /\ DefaultsReplay

LEMMA KeysStart == KeyboardInit => KeysOK
  <1> SUFFICES ASSUME KeyboardInit PROVE KeysOK
    OBVIOUS
  <1>1. recorder = [on |-> FALSE, steps |-> <<>>, did |-> <<>>, plain |-> TRUE] /\ script = {}
    BY DEF KeyboardInit, NotRecording
  <1>2. recorder \in [on : BOOLEAN, steps : Seq(MacroStep), did : Seq(Effects), plain : BOOLEAN]
    BY <1>1
  <1>3. recorder.steps = <<>> /\ recorder.did = <<>>
    BY <1>1
  <1>4. RecorderOK
    BY <1>2, <1>3, NoStepsDoNothing DEF RecorderOK
  <1> QED BY <1>1, <1>4, BoundStarts DEF KeysOK, DefaultsReplay

LEMMA KeysStep ==
  ASSUME KeysOK, [KeyboardNext]_keyboardVars
  PROVE  KeysOK'
  <1>1. CASE Remapping
    <2>1. Load(stored) = mapping
      BY DEF KeysOK, BoundOK
    <2> QED BY <1>1, <2>1, RemappingKeeps, RemappingRecords DEF KeysOK
  <1>2. CASE Recording
    BY <1>2, RecordingKeeps, RecordingRecords DEF KeysOK
  <1>3. CASE UNCHANGED keyboardVars
    BY <1>3 DEF keyboardVars, KeysOK, BoundOK, RecorderOK, DefaultsReplay
  <1> QED BY <1>1, <1>2, <1>3 DEF KeyboardNext

\* A chord does what the window shows: the rows of the remap dialog, the virtual
\* keyboard's tooltips and the settings tell what is bound, after any sequence of
\* chips added, captured, stolen, refused and removed, imports, resets and
\* restarts; and a recording typed under the default mapping does again, as a
\* script, what its keys did (KeyboardRemapDialog, KeyboardMapping, MacroRecorder,
\* macroToScript).
THEOREM KeysStayAsShown == KeyboardSpec => []KeysDoAsShown
  <1>1. KeysOK => KeysDoAsShown
    BY DEF KeysOK, KeysDoAsShown, BindingsAreShownAndKept, BoundOK
  <1>2. KeyboardInit => KeysOK
    BY KeysStart
  <1>3. KeysOK /\ [KeyboardNext]_keyboardVars => KeysOK'
    BY KeysStep
  <1> QED BY <1>1, <1>2, <1>3, PTL DEF KeyboardSpec
===============================================================================
