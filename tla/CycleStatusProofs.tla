------------------------- MODULE CycleStatusProofs -------------------------
(***************************************************************************)
(* Theorems about CycleStatus for every length of the window and every     *)
(* bound on the clock.                                                     *)
(***************************************************************************)
EXTENDS CycleStatus, TLAPS, SequenceTheorems, WellFoundedInduction

-----------------------------------------------------------------------------
(***************************************************************************)
(* The inductive invariant. Of the cycle under way, the phases that are    *)
(* done are in order and agree with their differences, whatever an earlier *)
(* cycle left in the others; the saved cycles are behind it in time.       *)
(***************************************************************************)
Under(p) == p < phase

ClockBound ==
    /\ \A p \in Phase : times[p] <= now
    /\ last # None => last <= now
    /\ \A j \in 1..Window : window[j].times[ALL] <= now

CycleSoFar ==
    /\ phase > 0 => last = times[phase - 1]
    /\ \A p, q \in Phase : p <= q /\ Under(q) => times[p] <= times[q]
    /\ \A p \in LIST..ALL : Under(p) => diffs[p] = times[p] - times[p - 1]

SavedBefore ==
    phase > 0 => \A j \in 1..Window : window[j].times[ALL] <= times[NOTHING]

RowsInv == RowsInOrder /\ RowsAgree /\ CyclesInOrder

CInv == TypeOK /\ ClockBound /\ CycleSoFar /\ SavedBefore /\ RowsInv

USE DEF Phase, NOTHING, LIST, STATS, SCAN, STATUS, ALL

-----------------------------------------------------------------------------
LEMMA FilledType ==
    ASSUME NEW row \in RowType
    PROVE  /\ Filled(row) \in Seq(RowType)
           /\ Len(Filled(row)) = Window
           /\ \A j \in 1..Window : Filled(row)[j] = row
BY WindowAssumption DEF Filled

\* The window after a cycle is saved behind the others.
LEMMA Shifted ==
    ASSUME window \in Seq(RowType), Len(window) = Window, NEW row \in RowType
    PROVE  /\ Append(Tail(window), row) \in Seq(RowType)
           /\ Len(Append(Tail(window), row)) = Window
           /\ Append(Tail(window), row)[Window] = row
           /\ \A j \in 1..(Window - 1) : Append(Tail(window), row)[j] = window[j + 1]
<1> DEFINE t == Tail(window)
<1>1. window # <<>>
  BY WindowAssumption, EmptySeq
<1>2. /\ t \in Seq(RowType)
      /\ Len(t) = Window - 1
      /\ \A j \in 1..(Window - 1) : t[j] = window[j + 1]
  BY <1>1, HeadTailProperties
<1> HIDE DEF t
<1>3. /\ Append(t, row) \in Seq(RowType)
      /\ Len(Append(t, row)) = Len(t) + 1
      /\ \A j \in 1..Len(t) : Append(t, row)[j] = t[j]
      /\ Append(t, row)[Len(t) + 1] = row
  BY <1>2, AppendProperties
<1> QED BY <1>2, <1>3, WindowAssumption DEF t

LEMMA InitInv == Init => CInv
<1> SUFFICES ASSUME Init PROVE CInv
  OBVIOUS
<1>1. times \in [Phase -> Nat] /\ diffs \in [Phase -> Int] /\ Row \in RowType
  BY DEF Init, Row, RowType
<1>2. /\ window \in Seq(RowType)
      /\ Len(window) = Window
      /\ \A j \in 1..Window : window[j] = Row
  BY <1>1, FilledType DEF Init
<1>3. TypeOK
  BY <1>1, <1>2 DEF Init, TypeOK, CycleOK, WindowOK
<1>4. ClockBound /\ CycleSoFar /\ SavedBefore
  BY <1>2 DEF Init, ClockBound, CycleSoFar, SavedBefore, Under, Row
<1>5. RowsInOrder /\ RowsAgree
  BY <1>2 DEF Init, RowsInOrder, RowsAgree, InOrder, Agrees, Row
<1>6. CyclesInOrder
  BY <1>2 DEF CyclesInOrder
<1> QED BY <1>3, <1>4, <1>5, <1>6 DEF CInv, RowsInv

-----------------------------------------------------------------------------
LEMMA DoneInv ==
    ASSUME CInv, Done
    PROVE  CInv'
<1>1. TypeOK /\ ClockBound /\ CycleSoFar /\ SavedBefore /\ RowsInv
  BY DEF CInv
<1>2. /\ phase \in Phase /\ phase' = phase + 1 /\ last' = now
      /\ UNCHANGED <<now, firstSave, window, published>>
      /\ times' = [times EXCEPT ![phase] = now]
  BY DEF Done
<1>3. CycleOK /\ WindowOK
  BY <1>1 DEF TypeOK
<1> DEFINE d == IF last = None THEN 0 ELSE now - last
<1>4. d \in Int /\ diffs' = [diffs EXCEPT ![phase] = d]
  BY <1>3 DEF Done, CycleOK
<1> HIDE DEF d
<1>5. /\ times \in [Phase -> Nat] /\ diffs \in [Phase -> Int]
      /\ now \in Nat /\ phase \in Phase
  BY <1>2, <1>3 DEF CycleOK
<1>6. times' \in [Phase -> Nat] /\ diffs' \in [Phase -> Int]
  BY <1>2, <1>4, <1>5
<1>7. /\ times'[phase] = now /\ diffs'[phase] = d
      /\ \A p \in Phase : p # phase => times'[p] = times[p] /\ diffs'[p] = diffs[p]
  BY <1>2, <1>4, <1>5
<1>8. TypeOK'
  <2>1. CycleOK'
    BY <1>2, <1>3, <1>5, <1>6 DEF CycleOK
  <2> QED BY <1>2, <1>3, <2>1 DEF WindowOK, TypeOK
<1>9. ClockBound'
  BY <1>1, <1>2, <1>5, <1>7 DEF ClockBound
<1>10. CycleSoFar'
  <2>1. \A p, q \in Phase : p <= q /\ q < phase + 1 => times'[p] <= times'[q]
    <3> SUFFICES ASSUME NEW p \in Phase, NEW q \in Phase, p <= q, q < phase + 1
                 PROVE  times'[p] <= times'[q]
      OBVIOUS
    <3>1. CASE q = phase
      BY <1>1, <1>5, <1>7, <3>1 DEF ClockBound
    <3>2. CASE q < phase
      BY <1>1, <1>5, <1>7, <3>2 DEF CycleSoFar, Under
    <3> QED BY <1>5, <3>1, <3>2
  <2>2. \A p \in LIST..ALL : p < phase => diffs'[p] = times'[p] - times'[p - 1]
    BY <1>1, <1>5, <1>7 DEF CycleSoFar, Under
  <2>3. phase \in LIST..ALL => diffs'[phase] = times'[phase] - times'[phase - 1]
    <3> SUFFICES ASSUME phase \in LIST..ALL
                 PROVE  diffs'[phase] = times'[phase] - times'[phase - 1]
      OBVIOUS
    <3>1. last = times[phase - 1] /\ times[phase - 1] \in Nat
      BY <1>1, <1>5 DEF CycleSoFar
    <3>2. last # None
      BY <3>1, NoneAssumption
    <3> QED BY <1>5, <1>7, <3>1, <3>2 DEF d
  <2>4. last' = times'[phase' - 1]
    BY <1>2, <1>5, <1>7
  <2>5. \A p \in Phase : p < phase + 1 <=> p < phase \/ p = phase
    BY <1>5
  <2>6. \A p \in LIST..ALL : p < phase + 1 => diffs'[p] = times'[p] - times'[p - 1]
    BY <1>5, <2>2, <2>3, <2>5
  <2> QED BY <1>2, <2>1, <2>4, <2>6 DEF CycleSoFar, Under
<1>11. SavedBefore'
  BY <1>1, <1>2, <1>5, <1>7 DEF ClockBound, SavedBefore
<1>12. RowsInv'
  BY <1>1, <1>2 DEF RowsInv, RowsInOrder, RowsAgree, CyclesInOrder, InOrder, Agrees
<1> QED BY <1>8, <1>9, <1>10, <1>11, <1>12 DEF CInv

\* A cycle that is saved is complete.
LEMMA SaveInv ==
    ASSUME CInv, SaveLast
    PROVE  CInv'
<1>1. TypeOK /\ ClockBound /\ CycleSoFar /\ SavedBefore /\ RowsInv
  BY DEF CInv
<1>2. /\ phase = 6 /\ phase' = 0 /\ firstSave' = FALSE
      /\ UNCHANGED <<now, times, diffs, last>>
  BY DEF SaveLast
<1>3. Row \in RowType /\ InOrder(Row) /\ Agrees(Row) /\ Row.times[ALL] <= now
  <2>1. times \in [Phase -> Nat] /\ diffs \in [Phase -> Int] /\ Row \in RowType
    BY <1>1 DEF TypeOK, CycleOK, RowType, Row
  <2> QED BY <1>1, <1>2, <2>1 DEF ClockBound, CycleSoFar, Under, Row, InOrder, Agrees
<1>4. /\ window' \in Seq(RowType)
      /\ Len(window') = Window
      /\ \/ \A j \in 1..Window : window'[j] = Row
         \/ /\ window'[Window] = Row
            /\ \A j \in 1..(Window - 1) : window'[j] = window[j + 1]
  BY <1>1, <1>3, FilledType, Shifted DEF SaveLast, TypeOK, WindowOK
<1>5. \A j \in 1..Window : window'[j] = Row \/ \E i \in 1..Window : window'[j] = window[i]
  BY <1>4, WindowAssumption
<1>6. TypeOK'
  <2>1. CycleOK'
    <3>1. now' \in Nat /\ last' \in Nat \cup {None}
      BY <1>1, <1>2 DEF TypeOK, CycleOK
    <3>2. times' \in [Phase -> Nat] /\ diffs' \in [Phase -> Int]
      BY <1>1, <1>2 DEF TypeOK, CycleOK
    <3>3. phase' \in NOTHING..(ALL + 1)
      BY <1>2
    <3>4. firstSave' \in BOOLEAN
      BY <1>2
    <3> QED BY <3>1, <3>2, <3>3, <3>4 DEF CycleOK
  <2> QED BY <1>4, <2>1 DEF TypeOK, WindowOK
<1>7. ClockBound'
  BY <1>1, <1>2, <1>3, <1>5 DEF ClockBound
<1>8. CycleSoFar' /\ SavedBefore'
  BY <1>2 DEF CycleSoFar, SavedBefore, Under
<1>9. RowsInOrder' /\ RowsAgree'
  BY <1>1, <1>3, <1>5 DEF RowsInv, RowsInOrder, RowsAgree
<1>10. CyclesInOrder'
  <2> SUFFICES ASSUME NEW i \in 1..Window, NEW j \in 1..Window, i < j
               PROVE  \/ window'[i] = window'[j]
                      \/ window'[i].times[ALL] <= window'[j].times[NOTHING]
    BY DEF CyclesInOrder
  <2>1. CASE \A n \in 1..Window : window'[n] = Row
    BY <2>1
  <2>2. CASE /\ window'[Window] = Row
             /\ \A n \in 1..(Window - 1) : window'[n] = window[n + 1]
    <3>1. i \in 1..(Window - 1) /\ i + 1 \in 1..Window /\ window'[i] = window[i + 1]
      BY <2>2, WindowAssumption
    <3>2. CASE j = Window
      <4>1. window[i + 1].times[ALL] <= times[NOTHING]
        BY <1>1, <1>2, <3>1 DEF SavedBefore
      <4> QED BY <2>2, <3>1, <3>2, <4>1 DEF Row
    <3>3. CASE j # Window
      <4>1. j + 1 \in 1..Window /\ i + 1 < j + 1 /\ window'[j] = window[j + 1]
        BY <2>2, <3>3, WindowAssumption
      <4> QED BY <1>1, <3>1, <4>1 DEF RowsInv, CyclesInOrder
    <3> QED BY <3>2, <3>3
  <2> QED BY <1>4, <2>1, <2>2
<1> QED BY <1>6, <1>7, <1>8, <1>9, <1>10 DEF CInv, RowsInv

\* A reset gives up what the cycle has recorded, and time and publications
\* change none of it.
LEMMA OtherInv ==
    ASSUME CInv, PublishStatus \/ ConnectionReset \/ Tick \/ UNCHANGED vars
    PROVE  CInv'
<1>1. TypeOK /\ ClockBound /\ CycleSoFar /\ SavedBefore /\ RowsInv
  BY DEF CInv
<1>2. /\ UNCHANGED <<times, diffs, last, firstSave, window>>
      /\ now' \in {now, now + 1}
      /\ phase' \in {phase, 0}
  BY DEF PublishStatus, ConnectionReset, Tick, vars
<1>3. CycleOK /\ WindowOK /\ CycleOK'
  BY <1>1, <1>2 DEF TypeOK, CycleOK
<1>4. TypeOK'
  BY <1>2, <1>3 DEF TypeOK, WindowOK
<1>5. ClockBound'
  <2>1. \A j \in 1..Window : window[j].times[ALL] \in Nat
    <3> SUFFICES ASSUME NEW j \in 1..Window PROVE window[j].times[ALL] \in Nat
      OBVIOUS
    <3>1. window[j] \in RowType
      BY <1>3, ElementOfSeq DEF WindowOK
    <3> QED BY <3>1 DEF RowType
  <2>2. now \in Nat /\ now <= now'
    BY <1>2, <1>3 DEF CycleOK
  <2>3. \A p \in Phase : times[p] <= now'
    BY <1>1, <1>2, <1>3, <2>2 DEF CycleOK, ClockBound
  <2>4. last # None => last <= now'
    BY <1>1, <1>2, <1>3, <2>2 DEF CycleOK, ClockBound
  <2>5. \A j \in 1..Window : window[j].times[ALL] <= now'
    BY <1>1, <1>2, <2>1, <2>2 DEF ClockBound
  <2> QED BY <1>2, <2>3, <2>4, <2>5 DEF ClockBound
<1>6. CycleSoFar' /\ SavedBefore'
  BY <1>1, <1>2, <1>3 DEF CycleOK, CycleSoFar, SavedBefore, Under
<1>7. RowsInv'
  BY <1>1, <1>2 DEF RowsInv, RowsInOrder, RowsAgree, CyclesInOrder, InOrder, Agrees
<1> QED BY <1>4, <1>5, <1>6, <1>7 DEF CInv

LEMMA NextInv == CInv /\ [Next]_vars => CInv'
BY DoneInv, SaveInv, OtherInv DEF Next

LEMMA AlwaysInv == Spec => []CInv
BY InitInv, NextInv, PTL DEF Spec

\* The variables keep their types, and the window its length.
THEOREM TypeCorrect == Spec => []TypeOK
<1>1. CInv => TypeOK
  BY DEF CInv
<1> QED BY <1>1, AlwaysInv, PTL

\* The cycles of the window are complete ones, their phases in order, however
\* often the connection is lost in the middle of one.
THEOREM RowsInOrderHolds == Spec => []RowsInOrder
<1>1. CInv => RowsInOrder
  BY DEF CInv, RowsInv
<1> QED BY <1>1, AlwaysInv, PTL

\* The differences that are saved with a cycle are those of its own times,
\* none of a cycle that was given up.
THEOREM RowsAgreeHolds == Spec => []RowsAgree
<1>1. CInv => RowsAgree
  BY DEF CInv, RowsInv
<1> QED BY <1>1, AlwaysInv, PTL

\* The cycles of the window are oldest first and do not overlap, but for the
\* first of all, which fills the window.
THEOREM CyclesInOrderHolds == Spec => []CyclesInOrder
<1>1. CInv => CyclesInOrder
  BY DEF CInv, RowsInv
<1> QED BY <1>1, AlwaysInv, PTL

-----------------------------------------------------------------------------
(***************************************************************************)
(* The sum of a column of the window. That every n has a property is shown *)
(* by the least n without it.                                              *)
(***************************************************************************)
Column == [1..Window -> Int]

\* s[n] is the sum of the first n values of the column.
Sums(s, column) ==
    s = [n \in 0..Window |-> IF n = 0 THEN 0 ELSE s[n - 1] + column[n]]

LEMMA LeastNatural ==
    ASSUME NEW S \in SUBSET Nat, S # {}
    PROVE  \E m \in S : \A y \in S : m <= y
<1>1. PICK x \in S : \A y \in S : ~(<<y, x>> \in OpToRel(<, Nat))
  BY NatLessThanWellFounded, WFMin
<1>2. \A y \in S : ~(y < x)
  BY <1>1 DEF OpToRel
<1> QED
  BY <1>2

LEMMA SumsExist ==
    ASSUME NEW column \in Column
    PROVE  \E s \in [0..Window -> Int] : Sums(s, column)
<1> DEFINE UpTo(k, s) == s[0] = 0 /\ \A n \in 1..k : s[n] = s[n - 1] + column[n]
           Bad == {k \in 0..Window : ~ \E s \in [0..k -> Int] : UpTo(k, s)}
<1>0. Window \in Nat /\ \A n \in 1..Window : column[n] \in Int
  BY WindowAssumption DEF Column
<1>1. Bad = {}
  <2> SUFFICES ASSUME Bad # {} PROVE FALSE
    OBVIOUS
  <2>1. Bad \in SUBSET Nat
    BY <1>0
  <2> HIDE DEF Bad
  <2>2. PICK m \in Bad : \A y \in Bad : m <= y
    BY <2>1, LeastNatural
  <2> USE DEF Bad
  <2>3. CASE m = 0
    <3> DEFINE s == [n \in 0..0 |-> 0]
    <3>1. s \in [0..m -> Int] /\ UpTo(m, s)
      BY <2>3
    <3> HIDE DEF s
    <3> QED BY <2>2, <3>1
  <2>4. CASE m # 0
    <3>1. m \in 1..Window /\ m - 1 \in 0..Window /\ m - 1 < m
      BY <1>0, <2>2, <2>4
    <3>2. PICK s \in [0..(m - 1) -> Int] : UpTo(m - 1, s)
      BY <2>2, <3>1
    <3> DEFINE t == [n \in 0..m |-> IF n = m THEN s[m - 1] + column[m] ELSE s[n]]
    <3>3. t \in [0..m -> Int]
      BY <1>0, <3>1
    <3>4. t[0] = 0 /\ t[m] = s[m - 1] + column[m] /\ \A n \in 0..(m - 1) : t[n] = s[n]
      BY <3>1, <3>2
    <3> HIDE DEF t
    <3>5. \A n \in 1..m : t[n] = t[n - 1] + column[n]
      <4> SUFFICES ASSUME NEW n \in 1..m PROVE t[n] = t[n - 1] + column[n]
        OBVIOUS
      <4>1. CASE n = m
        BY <3>1, <3>4, <4>1
      <4>2. CASE n # m
        <5>1. n \in 1..(m - 1) /\ n \in 0..(m - 1) /\ n - 1 \in 0..(m - 1)
          BY <3>1, <4>2
        <5> QED BY <3>2, <3>4, <5>1
      <4> QED BY <4>1, <4>2
    <3> QED BY <2>2, <3>3, <3>4, <3>5
  <2> QED BY <2>3, <2>4
<1>2. PICK s \in [0..Window -> Int] : UpTo(Window, s)
  BY <1>0, <1>1
<1> DEFINE f == [n \in 0..Window |-> IF n = 0 THEN 0 ELSE s[n - 1] + column[n]]
<1>3. s = f
  <2>1. \A n \in 0..Window : s[n] = f[n]
    BY <1>0, <1>2
  <2> QED BY <2>1
<1> QED
  BY <1>3 DEF Sums

\* What Sum returns, by the sums it goes through.
LEMMA SumIsLast ==
    ASSUME NEW column \in Column
    PROVE  \E s : /\ Sum(column) = s[Window]
                  /\ s[0] = 0
                  /\ \A n \in 1..Window : s[n] = s[n - 1] + column[n]
<1> DEFINE c == CHOOSE s : s = [n \in 0..Window |->
                                   IF n = 0 THEN 0 ELSE s[n - 1] + column[n]]
<1>1. c = [n \in 0..Window |-> IF n = 0 THEN 0 ELSE c[n - 1] + column[n]]
  BY SumsExist DEF Sums
<1>2. Sum(column) = c[Window]
  BY DEF Sum
<1> HIDE DEF c
<1>3. c[0] = 0 /\ \A n \in 1..Window : c[n] = c[n - 1] + column[n]
  <2>1. \A n \in 0..Window : c[n] = IF n = 0 THEN 0 ELSE c[n - 1] + column[n]
    BY <1>1
  <2> QED BY <2>1, WindowAssumption
<1> QED
  BY <1>2, <1>3

LEMMA SumNatural ==
    ASSUME NEW column \in [1..Window -> Nat]
    PROVE  Sum(column) \in Nat
<1>0. Window \in Nat /\ column \in Column /\ \A n \in 1..Window : column[n] \in Nat
  BY WindowAssumption DEF Column
<1>1. PICK s : /\ Sum(column) = s[Window]
               /\ s[0] = 0
               /\ \A n \in 1..Window : s[n] = s[n - 1] + column[n]
  BY <1>0, SumIsLast
<1> DEFINE Bad == {n \in 0..Window : s[n] \notin Nat}
<1>2. Bad = {}
  <2> SUFFICES ASSUME Bad # {} PROVE FALSE
    OBVIOUS
  <2>1. Bad \in SUBSET Nat
    BY <1>0
  <2> HIDE DEF Bad
  <2>2. PICK m \in Bad : \A y \in Bad : m <= y
    BY <2>1, LeastNatural
  <2> USE DEF Bad
  <2>3. m \in 1..Window /\ m - 1 \in 0..Window /\ m - 1 < m
    BY <1>0, <1>1, <2>2
  <2>4. s[m - 1] \in Nat
    BY <2>2, <2>3
  <2> QED BY <1>0, <1>1, <2>2, <2>3, <2>4
<1> QED
  BY <1>0, <1>1, <1>2

\* The sum of a column that adds two others up is the sum of their sums.
Plus(a, b) == [j \in 1..Window |-> a[j] + b[j]]

LEMMA SumOfTwo ==
    ASSUME NEW a \in Column, NEW b \in Column
    PROVE  Plus(a, b) \in Column /\ Sum(Plus(a, b)) = Sum(a) + Sum(b)
<1> DEFINE t == Plus(a, b)
<1>0. /\ Window \in Nat /\ t \in Column
      /\ \A n \in 1..Window : a[n] \in Int /\ b[n] \in Int /\ t[n] = a[n] + b[n]
  BY WindowAssumption DEF Column, Plus
<1> HIDE DEF t
<1>1. PICK sa : /\ Sum(a) = sa[Window] /\ sa[0] = 0
                /\ \A n \in 1..Window : sa[n] = sa[n - 1] + a[n]
  BY SumIsLast
<1>2. PICK sb : /\ Sum(b) = sb[Window] /\ sb[0] = 0
                /\ \A n \in 1..Window : sb[n] = sb[n - 1] + b[n]
  BY SumIsLast
<1>3. PICK st : /\ Sum(t) = st[Window] /\ st[0] = 0
                /\ \A n \in 1..Window : st[n] = st[n - 1] + t[n]
  BY <1>0, SumIsLast
<1> DEFINE Adds(n) == sa[n] \in Int /\ sb[n] \in Int /\ st[n] = sa[n] + sb[n]
           Bad == {n \in 0..Window : ~Adds(n)}
<1>4. Bad = {}
  <2> SUFFICES ASSUME Bad # {} PROVE FALSE
    OBVIOUS
  <2>1. Bad \in SUBSET Nat
    BY <1>0
  <2> HIDE DEF Bad
  <2>2. PICK m \in Bad : \A y \in Bad : m <= y
    BY <2>1, LeastNatural
  <2> USE DEF Bad
  <2>3. Adds(0)
    BY <1>1, <1>2, <1>3
  <2> HIDE DEF Adds
  <2>4. m \in 1..Window /\ m - 1 \in 0..Window /\ m - 1 < m
    BY <1>0, <2>2, <2>3
  <2>5. Adds(m - 1)
    BY <2>2, <2>4
  <2>6. Adds(m)
    BY <1>0, <1>1, <1>2, <1>3, <2>4, <2>5 DEF Adds
  <2> QED BY <2>2, <2>6
<1>5. Adds(Window)
  BY <1>0, <1>4
<1> QED
  BY <1>0, <1>1, <1>2, <1>3, <1>5 DEF t

\* Five columns, the values of f, that add up to a sixth.
AddedColumns(f) == Plus(Plus(Plus(Plus(f[LIST], f[STATS]), f[SCAN]), f[STATUS]), f[ALL])

LEMMA SumOfFive ==
    ASSUME NEW f \in [LIST..ALL -> Column]
    PROVE  /\ AddedColumns(f) \in Column
           /\ Sum(AddedColumns(f))
                = Sum(f[LIST]) + Sum(f[STATS]) + Sum(f[SCAN]) + Sum(f[STATUS]) + Sum(f[ALL])
           /\ \A j \in 1..Window : AddedColumns(f)[j]
                = f[LIST][j] + f[STATS][j] + f[SCAN][j] + f[STATUS][j] + f[ALL][j]
<1> DEFINE two == Plus(f[1], f[2])
           three == Plus(two, f[3])
           four == Plus(three, f[4])
           five == Plus(four, f[5])
<1>0. f[1] \in Column /\ f[2] \in Column /\ f[3] \in Column /\ f[4] \in Column /\ f[5] \in Column
  OBVIOUS
<1>1. two \in Column /\ Sum(two) = Sum(f[1]) + Sum(f[2])
  BY <1>0, SumOfTwo
<1>a. \A j \in 1..Window : two[j] = f[1][j] + f[2][j]
  BY DEF Plus
<1> HIDE DEF two
<1>2. three \in Column /\ Sum(three) = Sum(two) + Sum(f[3])
  BY <1>0, <1>1, SumOfTwo
<1>b. \A j \in 1..Window : three[j] = two[j] + f[3][j]
  BY DEF Plus
<1> HIDE DEF three
<1>3. four \in Column /\ Sum(four) = Sum(three) + Sum(f[4])
  BY <1>0, <1>2, SumOfTwo
<1>c. \A j \in 1..Window : four[j] = three[j] + f[4][j]
  BY DEF Plus
<1> HIDE DEF four
<1>4. five \in Column /\ Sum(five) = Sum(four) + Sum(f[5])
  BY <1>0, <1>3, SumOfTwo
<1>d. \A j \in 1..Window : five[j] = four[j] + f[5][j]
  BY DEF Plus
<1> HIDE DEF five
<1>5. Sum(five) = Sum(f[1]) + Sum(f[2]) + Sum(f[3]) + Sum(f[4]) + Sum(f[5])
  BY ONLY <1>1, <1>2, <1>3, <1>4
<1>6. \A j \in 1..Window : five[j] = f[1][j] + f[2][j] + f[3][j] + f[4][j] + f[5][j]
  BY ONLY <1>a, <1>b, <1>c, <1>d
<1>7. five = AddedColumns(f)
  BY Zenon DEF five, four, three, two, AddedColumns
<1> QED
  BY <1>4, <1>5, <1>6, <1>7

\* A column of one value.
LEMMA SumOfSame ==
    ASSUME NEW x \in Int
    PROVE  Sum([j \in 1..Window |-> x]) = Window * x
<1> DEFINE column == [j \in 1..Window |-> x]
<1>0. /\ Window \in Nat /\ column \in Column
      /\ \A j \in 1..Window : column[j] = x
  BY WindowAssumption DEF Column
<1> HIDE DEF column
<1>1. PICK s : /\ Sum(column) = s[Window]
               /\ s[0] = 0
               /\ \A n \in 1..Window : s[n] = s[n - 1] + column[n]
  BY <1>0, SumIsLast
<1> DEFINE Bad == {n \in 0..Window : s[n] # n * x}
<1>2. Bad = {}
  <2> SUFFICES ASSUME Bad # {} PROVE FALSE
    OBVIOUS
  <2>1. Bad \in SUBSET Nat
    BY <1>0
  <2> HIDE DEF Bad
  <2>2. PICK m \in Bad : \A y \in Bad : m <= y
    BY <2>1, LeastNatural
  <2> USE DEF Bad
  <2>3. m # 0
    BY <1>1, <2>2
  <2>4. m \in 1..Window /\ m - 1 \in 0..Window /\ m - 1 < m /\ m \in Nat
    BY <1>0, <2>2, <2>3
  <2>5. s[m - 1] = (m - 1) * x
    BY <2>2, <2>4
  <2>6. (m - 1) * x + x = m * x
    BY <2>4
  <2> QED BY <1>0, <1>1, <2>2, <2>4, <2>5, <2>6
<1>3. Sum(column) = Window * x
  BY <1>0, <1>1, <1>2
<1> QED
  BY <1>3 DEF column

-----------------------------------------------------------------------------
(***************************************************************************)
(* What means() computes.                                                  *)
(***************************************************************************)

\* The duration divides Whole, so that a share is an exact part of it.
LEMMA ExactShare ==
    ASSUME NEW n \in 1..MaxTime
    PROVE  \E k \in Nat : /\ Whole = n * k
                          /\ \A x \in Nat : (x * Whole) \div n = x * k
<1> DEFINE k == Whole \div n
<1>1. n \in Nat \ {0} /\ Whole \in Nat /\ Whole % n = 0
  BY MaxTimeAssumption, WholeAssumption
<1>2. Whole = n * k /\ k \in Nat
  BY <1>1
<1> HIDE DEF k
<1>3. ASSUME NEW x \in Nat PROVE (x * Whole) \div n = x * k
  <2>1. x * Whole = (x * k) * n /\ x * k \in Nat
    BY <1>1, <1>2
  <2> DEFINE y == x * k
  <2> HIDE DEF y
  <2>2. y \in Nat => (y * n) \div n = y
    BY <1>1
  <2> QED BY <2>1, <2>2 DEF y
<1> QED
  BY <1>2, <1>3

\* The phases of a saved cycle, in the window of an invariant state.
LEMMA RowParts ==
    ASSUME CInv, now <= MaxTime, NEW j \in 1..Window
    PROVE  /\ \A p \in LIST..ALL : Part(j, p) \in Nat
           /\ Total(j) \in 0..MaxTime
           /\ Part(j, LIST) + Part(j, STATS) + Part(j, SCAN) + Part(j, STATUS)
                + Part(j, ALL) = Total(j)
<1> DEFINE f == window[j].times
<1>1. \A p \in Phase : f[p] \in Nat
  <2>1. window[j] \in RowType
    BY ElementOfSeq DEF CInv, TypeOK, WindowOK
  <2> QED BY <2>1 DEF RowType
<1>2. /\ \A p, q \in Phase : p <= q => f[p] <= f[q]
      /\ f[ALL] <= now /\ now \in Nat
  BY DEF CInv, RowsInv, RowsInOrder, InOrder, ClockBound, TypeOK, CycleOK
<1>3. /\ \A p \in LIST..ALL : Part(j, p) = f[p] - f[p - 1]
      /\ Total(j) = f[ALL] - f[NOTHING]
  BY DEF Part, Total
<1> HIDE DEF f
<1>4. \A p \in LIST..ALL : Part(j, p) \in Nat
  <2> SUFFICES ASSUME NEW p \in LIST..ALL PROVE Part(j, p) \in Nat
    OBVIOUS
  <2>1. p \in Phase /\ p - 1 \in Phase /\ p - 1 <= p
    OBVIOUS
  <2>2. f[p] \in Nat /\ f[p - 1] \in Nat /\ f[p - 1] <= f[p]
    BY <1>1, <1>2, <2>1
  <2> QED BY <1>3, <2>2
<1>5. Total(j) \in 0..MaxTime
  <2>1. f[0] \in Nat /\ f[5] \in Nat /\ f[0] <= f[5]
    BY <1>1, <1>2
  <2> QED BY <1>2, <1>3, <2>1, MaxTimeAssumption
<1>6. Part(j, 1) + Part(j, 2) + Part(j, 3) + Part(j, 4) + Part(j, 5) = Total(j)
  <2>1. /\ f[0] \in Nat /\ f[1] \in Nat /\ f[2] \in Nat /\ f[3] \in Nat
        /\ f[4] \in Nat /\ f[5] \in Nat
    BY <1>1
  <2>2. /\ Part(j, 1) = f[1] - f[0] /\ Part(j, 2) = f[2] - f[1]
        /\ Part(j, 3) = f[3] - f[2] /\ Part(j, 4) = f[4] - f[3]
        /\ Part(j, 5) = f[5] - f[4] /\ Total(j) = f[5] - f[0]
    BY <1>3
  <2> QED BY <2>1, <2>2
<1> QED
  BY <1>4, <1>5, <1>6

\* The shares of a cycle are exact, and add up to Whole if it took time.
LEMMA RowShares ==
    ASSUME CInv, now <= MaxTime, NEW j \in 1..Window
    PROVE  /\ \A p \in LIST..ALL : Share(j, p) \in Nat
           /\ Total(j) > 0 =>
                Share(j, LIST) + Share(j, STATS) + Share(j, SCAN) + Share(j, STATUS)
                  + Share(j, ALL) = Whole
<1>1. /\ \A p \in LIST..ALL : Part(j, p) \in Nat
      /\ Total(j) \in 0..MaxTime /\ Total(j) \in Nat
      /\ Part(j, LIST) + Part(j, STATS) + Part(j, SCAN) + Part(j, STATUS)
           + Part(j, ALL) = Total(j)
  BY RowParts, MaxTimeAssumption
<1>2. CASE ~(Total(j) > 0)
  <2>1. \A p \in LIST..ALL : Share(j, p) = 9999 * Whole
    BY <1>2 DEF Share
  <2> QED BY <1>2, <2>1, WholeAssumption
<1>3. CASE Total(j) > 0
  <2>1. PICK k \in Nat : /\ Whole = Total(j) * k
                         /\ \A x \in Nat : (x * Whole) \div Total(j) = x * k
    <3>1. Total(j) \in 1..MaxTime
      BY <1>1, <1>3, MaxTimeAssumption
    <3> QED BY <3>1, ExactShare
  <2>2. \A p \in LIST..ALL : Share(j, p) = Part(j, p) * k
    <3> SUFFICES ASSUME NEW p \in LIST..ALL PROVE Share(j, p) = Part(j, p) * k
      OBVIOUS
    <3>1. Share(j, p) = (Part(j, p) * Whole) \div Total(j)
      BY <1>3 DEF Share
    <3>2. Part(j, p) \in Nat
      BY <1>1
    <3> QED BY ONLY <2>1, <3>1, <3>2
  <2>3. \A x \in Nat : x * k \in Nat
    BY <2>1
  <2>4. \A a, b, c, d, e \in Nat :
          a * k + b * k + c * k + d * k + e * k = (a + b + c + d + e) * k
    BY <2>1
  <2>5. /\ Part(j, 1) \in Nat /\ Part(j, 2) \in Nat /\ Part(j, 3) \in Nat
        /\ Part(j, 4) \in Nat /\ Part(j, 5) \in Nat
    BY <1>1
  <2>6. Share(j, 1) + Share(j, 2) + Share(j, 3) + Share(j, 4) + Share(j, 5)
          = Total(j) * k
    BY <1>1, <2>2, <2>4, <2>5
  <2> QED BY <1>1, <2>1, <2>2, <2>3, <2>6
<1> QED
  BY <1>2, <1>3

\* Of a window in order, the means are not negative and split the total.
LEMMA MeansOfWindow ==
    ASSUME CInv, now <= MaxTime
    PROVE  /\ \A p \in LIST..ALL : MeanOf(p) \in Nat /\ RelativeMeanOf(p) \in Nat
           /\ MeanOf(LIST) + MeanOf(STATS) + MeanOf(SCAN) + MeanOf(STATUS)
                + MeanOf(ALL) = TotalMean
           /\ (\A j \in 1..Window : Total(j) > 0) =>
                RelativeMeanOf(LIST) + RelativeMeanOf(STATS) + RelativeMeanOf(SCAN)
                  + RelativeMeanOf(STATUS) + RelativeMeanOf(ALL) = Window * Whole
<1> DEFINE parts == [p \in LIST..ALL |-> [j \in 1..Window |-> Part(j, p)]]
           shares == [p \in LIST..ALL |-> [j \in 1..Window |-> Share(j, p)]]
           totals == [j \in 1..Window |-> Total(j)]
           wholes == [j \in 1..Window |-> Whole]
<1>1. \A p \in LIST..ALL : /\ parts[p] \in [1..Window -> Nat] /\ parts[p] \in Column
                           /\ shares[p] \in [1..Window -> Nat] /\ shares[p] \in Column
  <2> SUFFICES ASSUME NEW p \in LIST..ALL
               PROVE  /\ parts[p] \in [1..Window -> Nat] /\ parts[p] \in Column
                      /\ shares[p] \in [1..Window -> Nat] /\ shares[p] \in Column
    OBVIOUS
  <2>1. \A j \in 1..Window : Part(j, p) \in Nat /\ Share(j, p) \in Nat
    BY RowParts, RowShares
  <2>2. /\ [j \in 1..Window |-> Part(j, p)] \in [1..Window -> Nat]
        /\ [j \in 1..Window |-> Share(j, p)] \in [1..Window -> Nat]
    BY <2>1
  <2>3. \A x \in [1..Window -> Nat] : x \in Column
    BY DEF Column
  <2> QED BY <2>2, <2>3
<1>2. parts \in [LIST..ALL -> Column] /\ shares \in [LIST..ALL -> Column]
  BY <1>1
<1>3. \A j \in 1..Window :
        parts[1][j] + parts[2][j] + parts[3][j] + parts[4][j] + parts[5][j] = Total(j)
  BY RowParts
<1>4. ASSUME \A j \in 1..Window : Total(j) > 0, NEW j \in 1..Window
      PROVE  shares[1][j] + shares[2][j] + shares[3][j] + shares[4][j] + shares[5][j]
               = Whole
  BY <1>4, RowShares
<1>5. /\ \A p \in LIST..ALL : MeanOf(p) = Sum(parts[p]) /\ RelativeMeanOf(p) = Sum(shares[p])
      /\ TotalMean = Sum(totals)
  BY DEF MeanOf, RelativeMeanOf, TotalMean
<1> HIDE DEF parts, shares
<1>6. \A p \in LIST..ALL : MeanOf(p) \in Nat /\ RelativeMeanOf(p) \in Nat
  BY <1>1, <1>5, SumNatural
<1>7. AddedColumns(parts) = totals
  <2>1. \A j \in 1..Window : AddedColumns(parts)[j] = totals[j]
    BY <1>2, <1>3, SumOfFive
  <2> QED BY <1>2, <2>1, SumOfFive DEF Column
<1>8. (\A j \in 1..Window : Total(j) > 0) => AddedColumns(shares) = wholes
  <2> SUFFICES ASSUME \A j \in 1..Window : Total(j) > 0
               PROVE  AddedColumns(shares) = wholes
    OBVIOUS
  <2>1. \A j \in 1..Window : AddedColumns(shares)[j] = wholes[j]
    BY <1>2, <1>4, SumOfFive
  <2> QED BY <1>2, <2>1, SumOfFive DEF Column
<1>9. Sum(wholes) = Window * Whole
  <2>1. Whole \in Int
    BY WholeAssumption
  <2>2. Sum([j \in 1..Window |-> Whole]) = Window * Whole
    BY ONLY <2>1, SumOfSame
  <2> QED BY ONLY <2>2 DEF wholes
<1> HIDE DEF totals, wholes
<1>10. /\ MeanOf(1) + MeanOf(2) + MeanOf(3) + MeanOf(4) + MeanOf(5) = Sum(totals)
       /\ Sum(AddedColumns(shares)) = RelativeMeanOf(1) + RelativeMeanOf(2)
            + RelativeMeanOf(3) + RelativeMeanOf(4) + RelativeMeanOf(5)
  BY <1>2, <1>5, <1>7, SumOfFive
<1> QED
  BY <1>5, <1>6, <1>8, <1>9, <1>10

\* What is published as means are shares of the cycles the window holds: none
\* is negative, together they are the mean of the whole, and the relative ones
\* are 1 unless a cycle took no time.
THEOREM MeansSplitTheTotalHolds == Spec => []MeansSplitTheTotal
<1> DEFINE MInv == CInv /\ now <= MaxTime /\ MeansSplitTheTotal
<1>1. Init => MInv
  BY InitInv, MaxTimeAssumption DEF Init, MeansSplitTheTotal
<1>2. MInv /\ [Next]_vars => MInv'
  <2> SUFFICES ASSUME MInv, [Next]_vars PROVE MInv'
    OBVIOUS
  <2>1. CInv'
    BY NextInv
  <2>2. now' <= MaxTime
    <3>1. now' = now \/ (now' = now + 1 /\ now < MaxTime)
      BY DEF Next, Done, PublishStatus, ConnectionReset, SaveLast, Tick, vars
    <3>2. now \in Nat
      BY DEF CInv, TypeOK, CycleOK
    <3> QED BY <3>1, <3>2, MaxTimeAssumption
  <2>3. MeansSplitTheTotal'
    <3>1. CASE PublishStatus
      <4> DEFINE m == [p \in LIST..ALL |-> MeanOf(p)]
                 r == [p \in LIST..ALL |-> RelativeMeanOf(p)]
                 t == \A j \in 1..Window : Total(j) > 0
      <4>1. published' = [mean |-> m, relMean |-> r, total |-> TotalMean, timed |-> t]
        BY <3>1 DEF PublishStatus
      <4>2. \A p \in LIST..ALL : m[p] = MeanOf(p) /\ r[p] = RelativeMeanOf(p)
        OBVIOUS
      <4>3. /\ \A p \in LIST..ALL : MeanOf(p) \in Nat /\ RelativeMeanOf(p) \in Nat
            /\ MeanOf(1) + MeanOf(2) + MeanOf(3) + MeanOf(4) + MeanOf(5) = TotalMean
            /\ t => RelativeMeanOf(1) + RelativeMeanOf(2) + RelativeMeanOf(3)
                      + RelativeMeanOf(4) + RelativeMeanOf(5) = Window * Whole
        BY MeansOfWindow
      <4> HIDE DEF m, r, t
      <4>4. /\ published'.mean = m /\ published'.relMean = r
            /\ published'.total = TotalMean /\ published'.timed = t
        BY <4>1
      <4>5. /\ m[1] + m[2] + m[3] + m[4] + m[5] = TotalMean
            /\ t => r[1] + r[2] + r[3] + r[4] + r[5] = Window * Whole
        BY <4>2, <4>3
      <4>6. \A p \in LIST..ALL : m[p] >= 0 /\ r[p] >= 0
        BY <4>2, <4>3
      <4> QED BY <4>4, <4>5, <4>6 DEF MeansSplitTheTotal, AddedUp
    <3>2. CASE UNCHANGED published
      BY <3>2 DEF MeansSplitTheTotal
    <3> QED BY <3>1, <3>2 DEF Next, Done, ConnectionReset, SaveLast, Tick, vars
  <2> QED BY <2>1, <2>2, <2>3
<1>3. MInv => MeansSplitTheTotal
  OBVIOUS
<1> QED
  BY <1>1, <1>2, <1>3, PTL DEF Spec
=============================================================================
