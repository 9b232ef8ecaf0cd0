--------------------------- MODULE GatewayProofs ---------------------------
(***************************************************************************)
(* Theorems about Gateway for every scan list and every set of commands:   *)
(* the type invariant; that the published list is the current one whenever *)
(* no change is pending and none was missed; that a pass reads every entry *)
(* that was not moved under it, and none of them twice; that append adds   *)
(* what the list does not have.                                            *)
(***************************************************************************)
EXTENDS Gateway, SequenceTheorems, WellFoundedInduction, TLAPS

-----------------------------------------------------------------------------
(***************************************************************************)
(* The list.                                                               *)
(***************************************************************************)

\* What popping the k-th element leaves.
LEMMA RemoveAtProperties ==
    ASSUME NEW S, NEW q \in Seq(S), NEW k \in 1..Len(q)
    PROVE  /\ RemoveAt(q, k) \in Seq(S)
           /\ Len(RemoveAt(q, k)) = Len(q) - 1
           /\ \A j \in 1..(Len(q) - 1) :
                RemoveAt(q, k)[j] = IF j < k THEN q[j] ELSE q[j + 1]
<1>0. Len(q) \in Nat /\ k \in Nat /\ 1 <= k /\ k <= Len(q)
  BY LenProperties
<1>1. \A j \in 1..Len(q) : q[j] \in S
  BY ElementOfSeq
<1> DEFINE a == SubSeq(q, 1, k - 1)
           b == SubSeq(q, k + 1, Len(q))
<1>2. /\ a \in Seq(S) /\ Len(a) = k - 1
      /\ \A j \in 1..(k - 1) : a[j] = q[j]
  <2>1. \A j \in 1..(k - 1) : q[j] \in S
    BY <1>0, <1>1
  <2>2. 1 \in Int /\ k - 1 \in Int
    BY <1>0
  <2>3. /\ a \in Seq(S) /\ Len(a) = IF 1 <= k - 1 THEN (k - 1) - 1 + 1 ELSE 0
        /\ \A j \in 1..((k - 1) - 1 + 1) : a[j] = q[1 + j - 1]
    BY ONLY <2>1, <2>2, SubSeqProperties
  <2> QED BY <1>0, <2>3
<1>3. /\ b \in Seq(S) /\ Len(b) = Len(q) - k
      /\ \A j \in 1..(Len(q) - k) : b[j] = q[k + j]
  <2>1. \A j \in (k + 1)..Len(q) : q[j] \in S
    BY <1>0, <1>1
  <2>2. k + 1 \in Int /\ Len(q) \in Int
    BY <1>0
  <2>3. /\ b \in Seq(S)
        /\ Len(b) = IF k + 1 <= Len(q) THEN Len(q) - (k + 1) + 1 ELSE 0
        /\ \A j \in 1..(Len(q) - (k + 1) + 1) : b[j] = q[k + 1 + j - 1]
    BY ONLY <2>1, <2>2, SubSeqProperties
  <2> QED BY <1>0, <2>3
<1> HIDE DEF a, b
<1>4. /\ a \o b \in Seq(S) /\ Len(a \o b) = Len(a) + Len(b)
      /\ \A j \in 1..(Len(a) + Len(b)) :
            (a \o b)[j] = IF j <= Len(a) THEN a[j] ELSE b[j - Len(a)]
  BY ONLY <1>2, <1>3, ConcatProperties
<1>5. Len(a) + Len(b) = Len(q) - 1 /\ Len(a) = k - 1
  BY <1>0, <1>2, <1>3
<1>6. ASSUME NEW j \in 1..(Len(q) - 1)
      PROVE  (a \o b)[j] = IF j < k THEN q[j] ELSE q[j + 1]
  <2>1. j \in 1..(Len(a) + Len(b))
    BY <1>5, <1>6
  <2>2. CASE j < k
    <3>1. j \in 1..(k - 1) /\ j <= Len(a)
      BY <1>0, <1>5, <1>6, <2>2
    <3> QED BY <1>2, <1>4, <2>1, <2>2, <3>1
  <2>3. CASE ~(j < k)
    <3>1. j - (k - 1) \in 1..(Len(q) - k) /\ ~(j <= Len(a)) /\ k + (j - (k - 1)) = j + 1
      BY <1>0, <1>5, <1>6, <2>3
    <3>2. (a \o b)[j] = b[j - (k - 1)]
      BY <1>4, <1>5, <2>1, <3>1
    <3> QED BY <1>3, <2>3, <3>1, <3>2
  <2> QED BY <2>2, <2>3
<1>7. RemoveAt(q, k) = a \o b
  BY DEF RemoveAt, a, b
<1> QED
  BY <1>4, <1>5, <1>6, <1>7

LEMMA FunctionIsSeq ==
    ASSUME NEW S, NEW n \in Nat, NEW f \in [1..n -> S]
    PROVE  f \in Seq(S) /\ Len(f) = n
OBVIOUS

-----------------------------------------------------------------------------
(***************************************************************************)
(* Type correctness.                                                       *)
(***************************************************************************)
LEMMA RowTypes ==
    /\ \A o \in Object : RowOf(o) \in Row
    /\ \A s \in Starts, l \in Encodable, p \in Periods :
          Made([start |-> s, length |-> l, period |-> p]) \in Object
BY EncodableAssumption DEF RowOf, Made, Object, Row

\* The number of an entry of the list is the number of an object.
LEMMA ListedIsMade ==
    ASSUME ListOK, NEW k \in 1..Len(regs)
    PROVE  regs[k] \in DOMAIN obj /\ regs[k] \in 1..Len(obj) /\ obj[regs[k]] \in Object
<1>1. regs[k] \in 1..Len(obj)
  BY ElementOfSeq DEF ListOK
<1>2. DOMAIN obj = 1..Len(obj)
  BY LenProperties DEF ListOK
<1> QED
  BY <1>1, <1>2, ElementOfSeq DEF ListOK

\* What a write to an entry's fields leaves of the entries.
LEMMA ObjectWrite ==
    ASSUME ListOK, NEW e \in DOMAIN obj, NEW o \in Object,
           obj' = [obj EXCEPT ![e] = o]
    PROVE  obj' \in Seq(Object) /\ Len(obj') = Len(obj) /\ DOMAIN obj' = DOMAIN obj
<1>1. obj \in [1..Len(obj) -> Object] /\ Len(obj) \in Nat /\ DOMAIN obj = 1..Len(obj)
  BY LenProperties DEF ListOK
<1>2. obj' \in [1..Len(obj) -> Object]
  BY <1>1
<1> QED
  BY <1>1, <1>2, FunctionIsSeq

LEMMA InitTypes == Init => TypeOK
<1> SUFFICES ASSUME Init PROVE TypeOK
  OBVIOUS
<1> DEFINE n == Len(InitialRows)
<1>1. /\ n \in Nat
      /\ \A j \in 1..n : InitialRows[j] \in [start : Starts, length : Encodable, period : Periods]
  BY InitialRowsAssumption, LenProperties, ElementOfSeq
<1>2. \A r \in [start : Starts, length : Encodable, period : Periods] : Made(r) \in Object
  BY EncodableAssumption DEF Made, Object
<1> HIDE DEF n
<1>3. obj \in [1..n -> Object] /\ regs \in [1..n -> 1..n]
  BY <1>1, <1>2 DEF Init, n
<1>4. obj \in Seq(Object) /\ Len(obj) = n /\ regs \in Seq(1..n)
  BY <1>1, <1>3, FunctionIsSeq
<1>5. <<>> \in Seq(Row)
  BY EmptySeq
<1>6. ListOK
  BY <1>4, <1>5 DEF Init, ListOK
<1>7. ThreadsOK
  BY MaxCommandsAssumption DEF Init, ThreadsOK
<1>8. FlagsOK
  BY DEF Init, FlagsOK
<1> QED
  BY <1>6, <1>7, <1>8 DEF TypeOK

\* The steps of the main thread keep the types.
LEMMA MainFlags ==
    ASSUME FlagsOK, Main
    PROVE  FlagsOK'
BY Zenon DEF FlagsOK, Main, CheckList, ListLength, ListPeriod, ListEnd, PublishList,
   PublishListLost, CheckStats, StatsEnd, PublishStats, StartPass, ScanNext, ScanEnd, ScanReset,
   EndCycle, scanner, thread, history

LEMMA MainTypes ==
    ASSUME ListOK, ThreadsOK, Main
    PROVE  ListOK' /\ ThreadsOK'
<1>1. CASE ListLength
  <2>1. i \in 1..Len(regs)
    BY <1>1, LenProperties DEF ListLength, ListOK
  <2>2. regs[i] \in DOMAIN obj /\ obj[regs[i]] \in Object
    BY <2>1, ListedIsMade
  <2>3. row' = [id |-> regs[i], length |-> obj[regs[i]].length]
    BY <1>1 DEF ListLength
  <2>4. row'.id = regs[i] /\ row'.length \in Lengths
    BY <2>2, <2>3 DEF Object
  <2>5. /\ pc' = "row"
        /\ UNCHANGED <<i, rows, published, regs, obj, visited, mqtt, target, commands>>
    BY <1>1 DEF ListLength, scanner, thread, history
  <2> QED BY <2>2, <2>4, <2>5 DEF ListOK, ThreadsOK
<1>2. CASE ListPeriod
  <2>1. obj[row.id] \in Object /\ row.length \in Lengths
    BY <1>2, ElementOfSeq, LenProperties DEF ListPeriod, ListOK, ThreadsOK
  <2>2. [start |-> obj[row.id].start, length |-> row.length,
         period |-> obj[row.id].period] \in Row
    BY <2>1 DEF Object, Row
  <2>3. \A r \in Row : Append(rows, r) \in Seq(Row)
    BY AppendProperties DEF ListOK
  <2>4. rows' \in Seq(Row)
    BY <1>2, <2>2, <2>3 DEF ListPeriod
  <2>5. /\ pc' = "list" /\ i' = i + 1
        /\ UNCHANGED <<row, published, regs, obj, visited, mqtt, target, commands>>
    BY <1>2 DEF ListPeriod, scanner, thread, history
  <2> QED BY <2>4, <2>5 DEF ListOK, ThreadsOK
<1>3. CASE ScanNext
  <2>1. i \in 1..Len(regs)
    BY <1>3, LenProperties DEF ScanNext, ListOK
  <2>2. regs[i] \in DOMAIN obj
    BY <2>1, ListedIsMade
  <2>3. /\ visited' = visited \cup {regs[i]} /\ i' = i + 1
        /\ UNCHANGED <<pc, row, rows, published, regs, obj, mqtt, target, commands>>
    BY <1>3 DEF ScanNext, scanner, thread
  <2> QED BY <2>2, <2>3 DEF ListOK, ThreadsOK
<1>4. CASE ~(ListLength \/ ListPeriod \/ ScanNext)
  <2> DEFINE Quiet ==
               /\ pc' \in {"check", "list", "publish", "checkStats", "stats",
                           "publishStats", "scan", "mark"}
               /\ i' = i \/ i' = 1
               /\ rows' = rows \/ rows' = <<>>
               /\ published' = published \/ published' = rows
               /\ visited' = visited \/ visited' = {}
               /\ row' = row /\ regs' = regs /\ obj' = obj
               /\ mqtt' = mqtt /\ target' = target /\ commands' = commands
  <2>1. CheckList => Quiet
    BY DEF CheckList, scanner, thread
  <2>2. ListEnd => Quiet
    BY DEF ListEnd, thread
  <2>3. PublishList => Quiet
    BY DEF PublishList, scanner, thread, history
  <2>13. PublishListLost => Quiet
    BY DEF PublishListLost, scanner, thread
  <2>4. CheckStats => Quiet
    BY DEF CheckStats, StartPass, scanner, thread
  <2>5. StatsEnd => Quiet
    BY DEF StatsEnd, thread
  <2>6. PublishStats => Quiet
    BY DEF PublishStats, StartPass, scanner, thread
  <2>7. ScanEnd \/ ScanReset => Quiet
    BY DEF ScanEnd, ScanReset, scanner, thread, history
  <2>8. EndCycle => Quiet
    BY DEF EndCycle, thread, history
  <2>9. Quiet
    BY <1>4, <2>1, <2>2, <2>3, <2>4, <2>5, <2>6, <2>7, <2>8, <2>13 DEF Main
  <2>10. <<>> \in Seq(Row)
    BY EmptySeq
  <2>11. ListOK'
    <3>1. i' \in Nat \ {0} /\ visited' \subseteq DOMAIN obj'
      BY <2>9 DEF ListOK
    <3>2. rows' \in Seq(Row) /\ published' \in Seq(Row)
      BY <2>9, <2>10 DEF ListOK
    <3>3. obj' \in Seq(Object) /\ regs' \in Seq(1..Len(obj'))
      BY <2>9 DEF ListOK
    <3> QED BY <3>1, <3>2, <3>3 DEF ListOK
  <2>12. ThreadsOK'
    BY <2>9 DEF ThreadsOK
  <2> QED BY <2>11, <2>12
<1> QED
  BY <1>1, <1>2, <1>3, <1>4

\* The steps of the MQTT thread keep the types.
LEMMA WiderSeq ==
    ASSUME NEW S, NEW T, S \subseteq T, NEW q \in Seq(S)
    PROVE  q \in Seq(T)
<1>1. q \in [1..Len(q) -> T] /\ Len(q) \in Nat
  BY LenProperties, ElementOfSeq
<1> QED
  BY <1>1, FunctionIsSeq

LEMMA CommandFlags ==
    ASSUME FlagsOK, Arrive \/ Finish
    PROVE  FlagsOK'
<1>1. CASE Arrive
  <2>1. ASSUME NEW s, NEW l, NEW p, AppendCmd(s, l, p)
        PROVE  FlagsOK'
    BY <2>1, Zenon DEF AppendCmd, FlagsOK, history
  <2>2. ASSUME NEW s, NEW l, NEW p, RemoveCmd(s, l, p)
        PROVE  FlagsOK'
    BY <2>2, Zenon DEF RemoveCmd, FlagsOK, history
  <2>3. ASSUME NEW s, NEW l, NEW p, ModifyCmd(s, l, p)
        PROVE  FlagsOK'
    BY <2>3, Zenon DEF ModifyCmd, FlagsOK, history
  <2>4. CASE ListCmd \/ StatsCmd
    BY <2>4, Zenon DEF ListCmd, StatsCmd, FlagsOK, history
  <2> QED BY <1>1, <2>1, <2>2, <2>3, <2>4 DEF Arrive
<1>2. CASE Finish
  BY <1>2, Zenon DEF Finish, ModifyEnd, Mark, FlagsOK, history
<1> QED
  BY <1>1, <1>2

LEMMA AppendTypes ==
    ASSUME ListOK, ThreadsOK,
           NEW s \in Starts, NEW l \in Lengths, NEW p \in Periods, AppendCmd(s, l, p)
    PROVE  ListOK' /\ ThreadsOK'
<1> DEFINE o == Made([start |-> s, length |-> l, period |-> p])
<1>1. l \in Encodable
  BY NoneAssumption DEF AppendCmd, CanBuild
<1>2. o \in Object
  BY <1>1, RowTypes
<1>3. obj' = Append(obj, o) /\ regs' = Append(regs, Len(obj) + 1)
  BY DEF AppendCmd
<1> HIDE DEF o
<1>4. /\ obj' \in Seq(Object) /\ Len(obj') = Len(obj) + 1 /\ Len(obj) \in Nat
      /\ DOMAIN obj' = 1..Len(obj') /\ DOMAIN obj = 1..Len(obj)
  BY <1>2, <1>3, AppendProperties, LenProperties DEF ListOK
<1>5. 1..Len(obj) \subseteq 1..Len(obj') /\ Len(obj) + 1 \in 1..Len(obj')
  BY <1>4
<1>6. regs \in Seq(1..Len(obj'))
  BY <1>5, WiderSeq DEF ListOK
<1>7. regs' \in Seq(1..Len(obj'))
  BY <1>3, <1>5, <1>6, AppendProperties
<1>8. UNCHANGED <<pc, i, row, rows, published, target, visited>>
  BY DEF AppendCmd, main, history
<1>9. mqtt' = "mark" /\ commands' \in 0..MaxCommands
  BY MaxCommandsAssumption DEF AppendCmd, Command, ThreadsOK
<1>10. ListOK'
  BY <1>4, <1>5, <1>7, <1>8 DEF ListOK
<1>11. ThreadsOK'
  BY <1>4, <1>5, <1>8, <1>9 DEF ThreadsOK
<1> QED
  BY <1>10, <1>11

LEMMA RemoveTypes ==
    ASSUME ListOK, ThreadsOK, NEW s, NEW l, NEW p, RemoveCmd(s, l, p)
    PROVE  ListOK' /\ ThreadsOK'
<1>1. PICK k \in DOMAIN regs : regs' = RemoveAt(regs, k)
  BY DEF RemoveCmd
<1>2. k \in 1..Len(regs)
  BY LenProperties DEF ListOK
<1>3. regs' \in Seq(1..Len(obj))
  BY <1>1, <1>2, RemoveAtProperties DEF ListOK
<1>4. UNCHANGED <<pc, i, row, rows, published, obj, target, visited>>
  BY DEF RemoveCmd, main
<1>5. mqtt' = "mark" /\ commands' \in 0..MaxCommands
  BY MaxCommandsAssumption DEF RemoveCmd, Command, ThreadsOK
<1>6. ListOK'
  BY <1>3, <1>4 DEF ListOK
<1>7. ThreadsOK'
  BY <1>4, <1>5 DEF ThreadsOK
<1> QED
  BY <1>6, <1>7

\* A write that replaces one entry's fields keeps the types, whatever the
\* MQTT thread does next.
LEMMA WriteTypes ==
    ASSUME ListOK, ThreadsOK,
           obj' \in Seq(Object), Len(obj') = Len(obj), DOMAIN obj' = DOMAIN obj,
           UNCHANGED <<pc, i, row, rows, published, regs, visited>>,
           mqtt' \in {"idle", "period", "mark"}, commands' \in 0..MaxCommands,
           mqtt' = "period" => /\ target'.id \in DOMAIN obj
                               /\ target'.period \in Periods \cup {None}
    PROVE  ListOK' /\ ThreadsOK'
<1>1. ListOK'
  BY DEF ListOK
<1>2. ThreadsOK'
  BY DEF ThreadsOK
<1> QED
  BY <1>1, <1>2

LEMMA ModifyTypes ==
    ASSUME ListOK, ThreadsOK, NEW s \in Starts, NEW l \in Lengths \cup {None},
           NEW p \in Periods \cup {None}, ModifyCmd(s, l, p)
    PROVE  ListOK' /\ ThreadsOK'
<1>1. PICK k \in DOMAIN regs :
        /\ target' = [id |-> regs[k], period |-> p]
        /\ l = None => obj' = obj
        /\ l # None => obj' = [obj EXCEPT ![regs[k]] = Resized(obj[regs[k]], l)]
  BY Zenon DEF ModifyCmd
<1>2. k \in 1..Len(regs)
  BY LenProperties DEF ListOK
<1>3. regs[k] \in DOMAIN obj /\ obj[regs[k]] \in Object
  BY <1>2, ListedIsMade
<1>4. l # None => Resized(obj[regs[k]], l) \in Object
  <2> SUFFICES ASSUME l # None PROVE Resized(obj[regs[k]], l) \in Object
    OBVIOUS
  <2>1. l \in Lengths /\ (CanBuild(l) => l \in Encodable)
    BY DEF CanBuild
  <2> QED BY <1>3, <2>1 DEF Resized, Object
<1>5. target'.id \in DOMAIN obj /\ target'.period \in Periods \cup {None}
  BY <1>1, <1>3
<1>6. obj' \in Seq(Object) /\ Len(obj') = Len(obj) /\ DOMAIN obj' = DOMAIN obj
  <2>1. CASE l = None
    BY <1>1, <2>1 DEF ListOK
  <2>2. CASE l # None
    BY <1>1, <1>3, <1>4, <2>2, ObjectWrite
  <2> QED BY <2>1, <2>2
<1>7. UNCHANGED <<pc, i, row, rows, published, regs, visited>>
  BY DEF ModifyCmd, main
<1>8. mqtt' \in {"idle", "period", "mark"} /\ commands' \in 0..MaxCommands
  BY MaxCommandsAssumption DEF ModifyCmd, Command, ThreadsOK
<1> QED
  BY <1>5, <1>6, <1>7, <1>8, WriteTypes

LEMMA ModifyEndTypes ==
    ASSUME ListOK, ThreadsOK, ModifyEnd
    PROVE  ListOK' /\ ThreadsOK'
<1> DEFINE e == target.id
           write == [obj[e] EXCEPT !.period = target.period]
<1>1. e \in DOMAIN obj /\ target.period \in Periods \cup {None}
  BY DEF ModifyEnd, ThreadsOK
<1>2. obj[e] \in Object
  BY <1>1, ElementOfSeq, LenProperties DEF ListOK
<1>3. /\ target.period = None => obj' = obj
      /\ target.period # None => obj' = [obj EXCEPT ![e] = write]
  BY DEF ModifyEnd
<1>4. target.period # None => write \in Object
  BY <1>1, <1>2 DEF Object
<1> HIDE DEF write, e
<1>5. obj' \in Seq(Object) /\ Len(obj') = Len(obj) /\ DOMAIN obj' = DOMAIN obj
  <2>1. CASE target.period = None
    BY <1>3, <2>1 DEF ListOK
  <2>2. CASE target.period # None
    BY <1>1, <1>3, <1>4, <2>2, ObjectWrite
  <2> QED BY <2>1, <2>2
<1>6. UNCHANGED <<pc, i, row, rows, published, regs, visited>>
  BY DEF ModifyEnd, main
<1>7. mqtt' = "mark" /\ commands' \in 0..MaxCommands
  BY DEF ModifyEnd, ThreadsOK
<1> QED
  BY <1>5, <1>6, <1>7, WriteTypes

LEMMA FlagWriteTypes ==
    ASSUME ListOK, ThreadsOK, Mark \/ ListCmd \/ StatsCmd
    PROVE  ListOK' /\ ThreadsOK'
<1>1. UNCHANGED <<pc, i, row, rows, published, obj, regs, visited, target>>
  BY DEF Mark, ListCmd, StatsCmd, main, history
<1>2. mqtt' \in {"idle", mqtt} /\ commands' \in 0..MaxCommands
  BY MaxCommandsAssumption DEF Mark, ListCmd, StatsCmd, Command, ThreadsOK
<1>3. ListOK'
  BY <1>1 DEF ListOK
<1>4. ThreadsOK'
  BY <1>1, <1>2 DEF ThreadsOK
<1> QED
  BY <1>3, <1>4

LEMMA StepTypes ==
    ASSUME TypeOK, [Next]_vars
    PROVE  TypeOK'
<1>0. FlagsOK /\ ListOK /\ ThreadsOK
  BY DEF TypeOK
<1>1. CASE Main
  BY <1>0, <1>1, MainFlags, MainTypes DEF TypeOK
<1>2. CASE Arrive
  <2>1. ListOK' /\ ThreadsOK'
    BY <1>0, <1>2, AppendTypes, RemoveTypes, ModifyTypes, FlagWriteTypes DEF Arrive
  <2> QED BY <1>0, <1>2, <2>1, CommandFlags DEF TypeOK
<1>3. CASE Finish
  <2>1. ListOK' /\ ThreadsOK'
    BY <1>0, <1>3, ModifyEndTypes, FlagWriteTypes DEF Finish
  <2> QED BY <1>0, <1>3, <2>1, CommandFlags DEF TypeOK
<1>4. CASE UNCHANGED vars
  <2>1. FlagsOK'
    BY <1>0, <1>4 DEF FlagsOK, vars, scanner, history
  <2>2. ListOK'
    BY <1>0, <1>4 DEF ListOK, vars, main, scanner, history
  <2>3. ThreadsOK'
    BY <1>0, <1>4 DEF ThreadsOK, vars, main, scanner, thread
  <2> QED BY <2>1, <2>2, <2>3 DEF TypeOK
<1> QED
  BY <1>1, <1>2, <1>3, <1>4 DEF Next

\* The type invariant: every number in the list is the number of an entry
\* that exists, and so are the ones an iterator or a half-done modify holds,
\* at every point where the threads can change turns.
THEOREM TypeCorrect == Spec => []TypeOK
<1>1. Init => TypeOK
  BY InitTypes
<1>2. TypeOK /\ [Next]_vars => TypeOK'
  BY StepTypes
<1> QED
  BY <1>1, <1>2, PTL DEF Spec

-----------------------------------------------------------------------------
(***************************************************************************)
(* The published list.                                                     *)
(***************************************************************************)

\* Before the first cycle the flag is up, so only the list itself matters.
LEMMA InitPublication == Init => PublicationInv
<1> SUFFICES ASSUME Init PROVE PublicationInv
  OBVIOUS
<1>1. Len(InitialRows) \in Nat
  BY InitialRowsAssumption, LenProperties
<1>2. regs = [j \in 1..Len(InitialRows) |-> j]
  BY DEF Init
<1>3. Len(regs) = Len(InitialRows)
  BY <1>1, <1>2
<1>4. Distinct
  BY <1>2, <1>3 DEF Distinct
<1> QED
  BY <1>4 DEF Init, PublicationInv, ReadAgrees, RowAgrees, BuiltAgrees, PublishedAgrees

\* The steps of the main thread leave the entries alone; each is looked at
\* for the clause it feeds.
LEMMA MainPublication ==
    ASSUME ListOK, PublicationInv, Main
    PROVE  PublicationInv'
<1>0. UNCHANGED <<regs, obj, mqtt>>
  BY DEF Main, CheckList, ListLength, ListPeriod, ListEnd, PublishList, PublishListLost, CheckStats,
     StatsEnd, PublishStats, StartPass, ScanNext, ScanEnd, ScanReset, EndCycle,
     scanner, thread
<1>1. Distinct'
  BY <1>0 DEF PublicationInv, Distinct
<1>2. Len(regs) \in Nat /\ i \in Nat /\ i >= 1
  BY LenProperties DEF ListOK
<1>3. CASE CheckList
  <2>1. CASE changed
    <3>1. pc' = "list" /\ i' = 1 /\ rows' = <<>>
      BY <1>3, <2>1 DEF CheckList
    <3>2. ReadAgrees'
      BY <1>0, <1>2, <3>1 DEF ReadAgrees, RowsAgree
    <3> QED BY <1>1, <3>1, <3>2
         DEF PublicationInv, RowAgrees, BuiltAgrees, PublishedAgrees, Listing
  <2>2. CASE ~changed
    <3>1. pc = "check" /\ pc' = "checkStats"
      BY <1>3, <2>2 DEF CheckList
    <3>2. UNCHANGED <<changed, missed, published>>
      BY <1>3, <2>2 DEF CheckList, scanner
    <3>3. PublishedAgrees'
      BY <1>0, <3>1, <3>2 DEF PublicationInv, PublishedAgrees, Listing, RowsAgree
    <3> QED BY <1>1, <3>1, <3>3 DEF PublicationInv, ReadAgrees, RowAgrees, BuiltAgrees
  <2> QED BY <2>1, <2>2
<1>4. CASE ListLength
  <2>1. /\ pc = "list" /\ pc' = "row" /\ i <= Len(regs)
        /\ row' = [id |-> regs[i], length |-> obj[regs[i]].length]
    BY <1>4 DEF ListLength
  <2>2. UNCHANGED <<i, rows, missed>>
    BY <1>4 DEF ListLength, history
  <2>3. ReadAgrees'
    BY <1>0, <2>1, <2>2 DEF PublicationInv, ReadAgrees, RowsAgree
  <2>4. RowAgrees'
    BY <1>0, <2>1, <2>2 DEF RowAgrees
  <2> QED BY <1>1, <2>1, <2>3, <2>4 DEF PublicationInv, BuiltAgrees, PublishedAgrees, Listing
<1>5. CASE ListPeriod
  <2> DEFINE r == [start |-> obj[row.id].start, length |-> row.length,
                   period |-> obj[row.id].period]
  <2>1. pc = "row" /\ pc' = "list" /\ i' = i + 1 /\ rows' = Append(rows, r)
    BY <1>5 DEF ListPeriod
  <2>2. missed' = missed
    BY <1>5 DEF ListPeriod, history
  <2>3. ASSUME ~missed
        PROVE  RowsAgree(rows, i - 1) /\ i <= Len(regs) /\ r = RowOf(obj[regs[i]])
    BY <2>1, <2>3 DEF PublicationInv, ReadAgrees, RowAgrees, RowOf
  <2> HIDE DEF r
  <2>4. ASSUME ~missed
        PROVE  RowsAgree(rows, i - 1)' /\ RowsAgree(rows', i)
    <3>1. /\ Len(rows) = i - 1 /\ i <= Len(regs)
          /\ \A j \in 1..(i - 1) : rows[j] = RowOf(obj[regs[j]])
      BY <2>3, <2>4 DEF RowsAgree
    <3>2. rows \in Seq(Row \cup {r})
      BY WiderSeq DEF ListOK
    <3>3. /\ Len(rows') = i
          /\ \A j \in 1..(i - 1) : rows'[j] = rows[j]
          /\ rows'[i] = r
      BY <1>2, <2>1, <3>1, <3>2, AppendProperties
    <3>4. \A j \in 1..i : j \in 1..(i - 1) \/ j = i
      BY <1>2
    <3>5. \A j \in 1..i : rows'[j] = RowOf(obj[regs[j]])
      BY <2>3, <2>4, <3>1, <3>3, <3>4
    <3>6. i' - 1 = i
      BY <1>2, <2>1
    <3> QED BY <1>0, <3>1, <3>3, <3>5, <3>6 DEF RowsAgree
  <2>5. ReadAgrees'
    BY <2>2, <2>4 DEF ReadAgrees
  <2> QED BY <1>1, <2>1, <2>5
       DEF PublicationInv, RowAgrees, BuiltAgrees, PublishedAgrees, Listing
<1>6. CASE ListEnd
  <2>1. pc = "list" /\ pc' = "publish" /\ i > Len(regs)
    BY <1>6 DEF ListEnd
  <2>2. UNCHANGED <<rows, missed>>
    BY <1>6 DEF ListEnd
  <2>3. ASSUME ~missed
        PROVE  RowsAgree(rows, Len(regs))
    <3>1. RowsAgree(rows, i - 1)
      BY <2>1, <2>3 DEF PublicationInv, ReadAgrees
    <3>2. i - 1 = Len(regs)
      BY <1>2, <2>1, <3>1 DEF RowsAgree
    <3> QED BY <3>1, <3>2
  <2>4. BuiltAgrees'
    BY <1>0, <2>2, <2>3 DEF BuiltAgrees, RowsAgree
  <2> QED BY <1>1, <2>1, <2>4
       DEF PublicationInv, ReadAgrees, RowAgrees, PublishedAgrees, Listing
<1>7. CASE PublishList
  <2>1. pc = "publish" /\ pc' = "checkStats" /\ published' = rows
    BY <1>7 DEF PublishList
  <2>2. UNCHANGED <<changed, missed>>
    BY <1>7 DEF PublishList, scanner, history
  <2>3. PublishedAgrees'
    BY <1>0, <2>1, <2>2 DEF PublicationInv, BuiltAgrees, PublishedAgrees, RowsAgree
  <2> QED BY <1>1, <2>1, <2>3 DEF PublicationInv, ReadAgrees, RowAgrees, BuiltAgrees
<1>9. CASE PublishListLost
  <2>1. pc' = "checkStats" /\ missed'
    BY <1>9 DEF PublishListLost
  <2> QED BY <1>1, <2>1
       DEF PublicationInv, ReadAgrees, RowAgrees, BuiltAgrees, PublishedAgrees
<1>8. CASE CheckStats \/ StatsEnd \/ PublishStats \/ ScanNext \/ ScanEnd
             \/ ScanReset \/ EndCycle
  <2>1. /\ pc \notin {"list", "row", "publish"}
        /\ pc' \notin {"list", "row", "publish"}
    BY <1>8, Zenon DEF CheckStats, StatsEnd, PublishStats, StartPass, ScanNext, ScanEnd,
       ScanReset, EndCycle
  <2>2. UNCHANGED <<changed, missed, published>>
    BY <1>8 DEF CheckStats, StatsEnd, PublishStats, StartPass, ScanNext, ScanEnd,
       ScanReset, EndCycle, scanner, history
  <2>3. PublishedAgrees'
    BY <1>0, <2>1, <2>2 DEF PublicationInv, PublishedAgrees, Listing, RowsAgree
  <2> QED BY <1>1, <2>1, <2>3 DEF PublicationInv, ReadAgrees, RowAgrees, BuiltAgrees
<1> QED
  BY <1>3, <1>4, <1>5, <1>6, <1>7, <1>8, <1>9 DEF Main

\* A command that leaves a flag owed, or a change recorded as missed, answers
\* only for the list being read.
LEMMA PendingPublication ==
    ASSUME Distinct', ReadAgrees', RowAgrees', mqtt' # "idle" \/ changed' \/ missed'
    PROVE  PublicationInv'
BY DEF PublicationInv, BuiltAgrees, PublishedAgrees

LEMMA AppendPublication ==
    ASSUME ListOK, PublicationInv,
           NEW s \in Starts, NEW l \in Lengths, NEW p \in Periods, AppendCmd(s, l, p)
    PROVE  PublicationInv'
<1> DEFINE o == Made([start |-> s, length |-> l, period |-> p])
<1>1. obj' = Append(obj, o) /\ regs' = Append(regs, Len(obj) + 1)
  BY DEF AppendCmd
<1>2. UNCHANGED <<pc, i, row, rows, missed>> /\ mqtt' = "mark"
  BY DEF AppendCmd, main, history
<1>3. o \in Object
  BY RowTypes, NoneAssumption DEF AppendCmd, CanBuild
<1> HIDE DEF o
<1>4. /\ Len(obj) \in Nat /\ Len(regs) \in Nat /\ i \in Nat /\ i >= 1
      /\ \A j \in 1..Len(regs) : regs[j] \in 1..Len(obj)
  BY LenProperties, ListedIsMade DEF ListOK
<1>5. \A e \in 1..Len(obj) : obj'[e] = obj[e]
  BY <1>1, <1>3, AppendProperties DEF ListOK
<1>6. regs \in Seq(Nat)
  BY <1>4, WiderSeq DEF ListOK
<1>7. /\ Len(regs') = Len(regs) + 1
      /\ \A j \in 1..Len(regs) : regs'[j] = regs[j]
      /\ regs'[Len(regs) + 1] = Len(obj) + 1
  BY <1>1, <1>4, <1>6, AppendProperties
<1>8. Distinct'
  <2> SUFFICES ASSUME NEW j \in 1..Len(regs'), NEW k \in 1..Len(regs'), regs'[j] = regs'[k]
               PROVE  j = k
    BY DEF Distinct
  <2>1. (j \in 1..Len(regs) \/ j = Len(regs) + 1) /\ (k \in 1..Len(regs) \/ k = Len(regs) + 1)
    BY <1>4, <1>7
  <2>2. \A m \in 1..Len(regs) : regs'[m] # Len(obj) + 1
    BY <1>4, <1>7
  <2> QED BY <1>7, <2>1, <2>2 DEF PublicationInv, Distinct
<1>9. \A j \in 1..Len(regs) : regs'[j] = regs[j] /\ obj'[regs'[j]] = obj[regs[j]]
  BY <1>4, <1>5, <1>7
<1>10. ReadAgrees'
  BY <1>2, <1>4, <1>7, <1>9 DEF PublicationInv, ReadAgrees, RowsAgree
<1>11. RowAgrees'
  BY <1>2, <1>4, <1>7, <1>9 DEF PublicationInv, RowAgrees
<1> QED
  BY <1>2, <1>8, <1>10, <1>11, PendingPublication

LEMMA RemovePublication ==
    ASSUME ListOK, PublicationInv, NEW s, NEW l, NEW p, RemoveCmd(s, l, p)
    PROVE  PublicationInv'
<1>1. PICK k \in DOMAIN regs :
        /\ regs' = RemoveAt(regs, k)
        /\ missed' = (missed \/ Passed(k) \/ AtRow(k))
  BY Zenon DEF RemoveCmd
<1>2. UNCHANGED <<pc, i, row, rows, obj>> /\ mqtt' = "mark"
  BY DEF RemoveCmd, main
<1>3. k \in 1..Len(regs) /\ Len(regs) \in Nat /\ i \in Nat /\ i >= 1
  BY LenProperties DEF ListOK
<1>4. /\ Len(regs') = Len(regs) - 1
      /\ \A j \in 1..(Len(regs) - 1) : regs'[j] = IF j < k THEN regs[j] ELSE regs[j + 1]
  BY <1>1, <1>3, RemoveAtProperties DEF ListOK
<1>5. Distinct'
  <2> SUFFICES ASSUME NEW j \in 1..Len(regs'), NEW m \in 1..Len(regs'), regs'[j] = regs'[m]
               PROVE  j = m
    BY DEF Distinct
  <2> DEFINE from(x) == IF x < k THEN x ELSE x + 1
  <2>1. from(j) \in 1..Len(regs) /\ from(m) \in 1..Len(regs)
    BY <1>3, <1>4
  <2>2. regs[from(j)] = regs[from(m)]
    BY <1>3, <1>4
  <2>3. from(j) = from(m)
    BY <2>1, <2>2 DEF PublicationInv, Distinct
  <2> QED BY <1>3, <1>4, <2>3
\* A removal behind the iterator is one that was missed.
<1>6. ~missed' => ~missed /\ ~(pc \in {"list", "row"} /\ k < i) /\ ~(pc = "row" /\ k = i)
  BY <1>1, Zenon DEF Passed, AtRow
<1>7. ReadAgrees'
  <2> SUFFICES ASSUME pc \in {"list", "row"}, ~missed' PROVE RowsAgree(rows, i - 1)'
    BY <1>2 DEF ReadAgrees
  <2>1. RowsAgree(rows, i - 1) /\ k >= i
    BY <1>3, <1>6 DEF PublicationInv, ReadAgrees
  <2>2. \A j \in 1..(i - 1) : regs'[j] = regs[j]
    BY <1>3, <1>4, <2>1
  <2>3. i - 1 <= Len(regs')
    BY <1>3, <1>4, <2>1
  <2> QED BY <1>2, <2>1, <2>2, <2>3 DEF RowsAgree
<1>8. RowAgrees'
  <2> SUFFICES ASSUME pc = "row", ~missed'
               PROVE  /\ i <= Len(regs')
                      /\ row.id = regs'[i]
                      /\ row.length = obj[regs'[i]].length
    BY <1>2 DEF RowAgrees
  <2>1. k > i
    BY <1>3, <1>6
  <2>2. i <= Len(regs') /\ regs'[i] = regs[i]
    BY <1>3, <1>4, <2>1
  <2> QED BY <1>6, <2>2 DEF PublicationInv, RowAgrees
<1> QED
  BY <1>2, <1>5, <1>7, <1>8, PendingPublication

LEMMA ModifyPublication ==
    ASSUME ListOK, PublicationInv, NEW s, NEW l, NEW p, ModifyCmd(s, l, p)
    PROVE  PublicationInv'
<1>1. PICK k \in DOMAIN regs :
        /\ l = None => obj' = obj /\ missed' = missed
        /\ l # None => /\ obj' = [obj EXCEPT ![regs[k]] = Resized(obj[regs[k]], l)]
                       /\ missed' = (missed \/ Passed(k) \/ AtRow(k) \/ ~CanBuild(l))
  BY Zenon DEF ModifyCmd
<1>2. UNCHANGED <<pc, i, row, rows, regs>>
  BY DEF ModifyCmd, main
<1>3. k \in 1..Len(regs) /\ Len(regs) \in Nat /\ i \in Nat /\ i >= 1
  BY LenProperties DEF ListOK
<1>4. Distinct'
  BY <1>2 DEF PublicationInv, Distinct
<1>5. \A j \in 1..Len(regs) : j # k => obj'[regs[j]] = obj[regs[j]]
  <2> SUFFICES ASSUME NEW j \in 1..Len(regs), j # k PROVE obj'[regs[j]] = obj[regs[j]]
    OBVIOUS
  <2>1. regs[j] # regs[k]
    BY <1>3 DEF PublicationInv, Distinct
  <2>2. regs[j] \in DOMAIN obj
    BY ListedIsMade
  <2> QED BY <1>1, <2>1, <2>2
<1>6. ~missed' => ~missed
  BY <1>1, Zenon
<1>7. ~missed' /\ l # None => ~(pc \in {"list", "row"} /\ k < i) /\ ~(pc = "row" /\ k = i)
  BY <1>1, Zenon DEF Passed, AtRow
<1>8. ReadAgrees'
  <2> SUFFICES ASSUME pc \in {"list", "row"}, ~missed' PROVE RowsAgree(rows, i - 1)'
    BY <1>2 DEF ReadAgrees
  <2>1. RowsAgree(rows, i - 1)
    BY <1>6 DEF PublicationInv, ReadAgrees
  <2>2. ASSUME NEW j \in 1..(i - 1)
        PROVE  obj'[regs[j]] = obj[regs[j]]
    <3>1. CASE l = None
      BY <1>1, <3>1
    <3>2. CASE l # None
      <4>1. j # k /\ j \in 1..Len(regs)
        BY <1>3, <1>7, <2>1, <3>2 DEF RowsAgree
      <4> QED BY <1>5, <4>1
    <3> QED BY <3>1, <3>2
  <2> QED BY <1>2, <2>1, <2>2 DEF RowsAgree
<1>9. RowAgrees'
  <2> SUFFICES ASSUME pc = "row", ~missed'
               PROVE  /\ i <= Len(regs)
                      /\ row.id = regs[i]
                      /\ row.length = obj'[regs[i]].length
    BY <1>2 DEF RowAgrees
  <2>1. i <= Len(regs) /\ row.id = regs[i] /\ row.length = obj[regs[i]].length
    BY <1>6 DEF PublicationInv, RowAgrees
  <2>2. obj'[regs[i]] = obj[regs[i]]
    BY <1>1, <1>3, <1>5, <1>7, <2>1
  <2> QED BY <2>1, <2>2
<1>10. mqtt' # "idle" \/ missed'
  <2>1. CASE CanBuild(l)
    BY <2>1 DEF ModifyCmd
  <2>2. CASE ~CanBuild(l)
    <3>1. l # None
      BY <2>2 DEF CanBuild
    <3> QED BY <1>1, <2>2, <3>1, Zenon
  <2> QED BY <2>1, <2>2
<1> QED
  BY <1>4, <1>8, <1>9, <1>10, PendingPublication

LEMMA ModifyEndPublication ==
    ASSUME ListOK, ThreadsOK, PublicationInv, ModifyEnd
    PROVE  PublicationInv'
<1>1. UNCHANGED <<pc, i, row, rows, regs>> /\ mqtt' = "mark"
  BY DEF ModifyEnd, main
<1>2. Len(regs) \in Nat /\ i \in Nat /\ i >= 1 /\ DOMAIN regs = 1..Len(regs)
  BY LenProperties DEF ListOK
<1>3. target.id \in DOMAIN obj /\ obj[target.id] \in Object
  BY ElementOfSeq, LenProperties DEF ModifyEnd, ListOK, ThreadsOK
<1>4. /\ \A e \in DOMAIN obj : e # target.id => obj'[e] = obj[e]
      /\ \A e \in DOMAIN obj : obj'[e].length = obj[e].length
  BY <1>3 DEF ModifyEnd, Object
<1>5. Distinct'
  BY <1>1 DEF PublicationInv, Distinct
<1>6. ~missed' => ~missed /\ ~\E k \in DOMAIN regs : regs[k] = target.id /\ Passed(k)
  BY Zenon DEF ModifyEnd
<1>7. \A j \in 1..Len(regs) : regs[j] \in DOMAIN obj
  BY ListedIsMade
<1>8. ReadAgrees'
  <2> SUFFICES ASSUME pc \in {"list", "row"}, ~missed' PROVE RowsAgree(rows, i - 1)'
    BY <1>1 DEF ReadAgrees
  <2>1. RowsAgree(rows, i - 1)
    BY <1>6 DEF PublicationInv, ReadAgrees
  <2>2. ASSUME NEW j \in 1..(i - 1)
        PROVE  obj'[regs[j]] = obj[regs[j]]
    <3>1. j \in 1..Len(regs) /\ j < i
      BY <1>2, <2>1 DEF RowsAgree
    <3>2. regs[j] # target.id
      BY <1>2, <1>6, <3>1 DEF Passed
    <3> QED BY <1>4, <1>7, <3>1, <3>2
  <2> QED BY <1>1, <2>1, <2>2 DEF RowsAgree
<1>9. RowAgrees'
  <2> SUFFICES ASSUME pc = "row", ~missed'
               PROVE  /\ i <= Len(regs)
                      /\ row.id = regs[i]
                      /\ row.length = obj'[regs[i]].length
    BY <1>1 DEF RowAgrees
  <2>1. i <= Len(regs) /\ row.id = regs[i] /\ row.length = obj[regs[i]].length
    BY <1>6 DEF PublicationInv, RowAgrees
  <2> QED BY <1>2, <1>4, <1>7, <2>1
<1> QED
  BY <1>1, <1>5, <1>8, <1>9, PendingPublication

LEMMA FlagWritePublication ==
    ASSUME PublicationInv, Mark \/ ListCmd \/ StatsCmd
    PROVE  PublicationInv'
<1>1. UNCHANGED <<pc, i, row, rows, published, obj, regs, missed>>
  BY DEF Mark, ListCmd, StatsCmd, main, history
<1>2. Distinct' /\ ReadAgrees' /\ RowAgrees'
  BY <1>1 DEF PublicationInv, Distinct, ReadAgrees, RowAgrees, RowsAgree
<1>3. CASE Mark \/ ListCmd
  BY <1>2, <1>3, PendingPublication DEF Mark, ListCmd
<1>4. CASE StatsCmd
  <2>1. UNCHANGED <<mqtt, changed>>
    BY <1>4 DEF StatsCmd
  <2>2. BuiltAgrees'
    BY <1>1, <2>1 DEF PublicationInv, BuiltAgrees, RowsAgree
  <2>3. PublishedAgrees'
    BY <1>1, <2>1 DEF PublicationInv, PublishedAgrees, Listing, RowsAgree
  <2> QED BY <1>2, <2>2, <2>3 DEF PublicationInv
<1> QED
  BY <1>3, <1>4

LEMMA StepPublication ==
    ASSUME TypeOK, PublicationInv, [Next]_vars
    PROVE  PublicationInv'
<1>0. ListOK /\ ThreadsOK
  BY DEF TypeOK
<1>1. CASE Main
  BY <1>0, <1>1, MainPublication
<1>2. CASE Arrive
  BY <1>0, <1>2, AppendPublication, RemovePublication, ModifyPublication,
     FlagWritePublication DEF Arrive
<1>3. CASE Finish
  BY <1>0, <1>3, ModifyEndPublication, FlagWritePublication DEF Finish
<1>4. CASE UNCHANGED vars
  <2>1. UNCHANGED <<pc, i, row, rows, published, regs, obj, mqtt, changed, missed>>
    BY <1>4 DEF vars, main, scanner, thread, history
  <2>2. Distinct' /\ ReadAgrees' /\ RowAgrees'
    BY <2>1 DEF PublicationInv, Distinct, ReadAgrees, RowAgrees, RowsAgree
  <2>3. BuiltAgrees' /\ PublishedAgrees'
    BY <2>1 DEF PublicationInv, BuiltAgrees, PublishedAgrees, Listing, RowsAgree
  <2> QED BY <2>2, <2>3 DEF PublicationInv
<1> QED
  BY <1>1, <1>2, <1>3, <1>4 DEF Next

LEMMA AgreesIsCurrent ==
    ASSUME ListOK, PublishedAgrees
    PROVE  PublishedIsCurrent
<1> SUFFICES ASSUME RowsAgree(published, Len(regs))
             PROVE  published = RowsUpTo(Len(regs))
  BY DEF PublishedAgrees, PublishedIsCurrent, CurrentRows
<1>1. published = [j \in 1..Len(published) |-> published[j]]
  BY LenProperties DEF ListOK
<1> QED
  BY <1>1 DEF RowsAgree, RowsUpTo

\* What a subscriber was last told is what the gateway scans, whenever no
\* list is being built, no command is under way, the flag is down and no
\* change was missed: no order of the assignments of the two threads loses
\* any other change.
THEOREM PublicationCorrect == Spec => [](PublicationInv /\ PublishedIsCurrent)
<1>1. Init => TypeOK /\ PublicationInv
  BY InitTypes, InitPublication
<1>2. TypeOK /\ PublicationInv /\ [Next]_vars => (TypeOK /\ PublicationInv)'
  BY StepTypes, StepPublication
<1>3. TypeOK /\ PublicationInv => PublishedIsCurrent
  BY AgreesIsCurrent DEF TypeOK, PublicationInv
<1> QED
  BY <1>1, <1>2, <1>3, PTL DEF Spec


-----------------------------------------------------------------------------
(***************************************************************************)
(* A pass over the list, while commands change it.                         *)
(***************************************************************************)

\* The entries behind the iterator have been visited, unless one of them was
\* removed; those at it and ahead of it have not been.
Behind ==
    pc = "scan" /\ ~shifted =>
        /\ i <= Len(regs) + 1
        /\ \A k \in 1..Len(regs) : k < i => regs[k] \in visited
Ahead == pc = "scan" => \A k \in 1..Len(regs) : k >= i => regs[k] \notin visited
PassInv == Behind /\ Ahead

\* The main thread takes the entries in order, from the first.
LEMMA MainPass ==
    ASSUME ListOK, Distinct, PassInv, Main
    PROVE  PassInv'
<1>1. Len(regs) \in Nat /\ i \in Nat /\ i >= 1
  BY LenProperties DEF ListOK
<1>2. CASE ScanNext
  <2>1. /\ i \in 1..Len(regs) /\ pc = "scan" /\ pc' = "scan"
        /\ visited' = visited \cup {regs[i]} /\ i' = i + 1
        /\ UNCHANGED <<regs, shifted>>
    BY <1>1, <1>2 DEF ScanNext, scanner
  <2>2. ASSUME NEW k \in 1..Len(regs), k >= i' PROVE regs[k] \notin visited'
    <3>1. k >= i /\ k # i
      BY <1>1, <2>1, <2>2
    <3> QED BY <2>1, <3>1 DEF PassInv, Ahead, Distinct
  <2>3. Ahead'
    BY <2>1, <2>2 DEF Ahead
  <2>4. ASSUME ~shifted, NEW k \in 1..Len(regs), k < i' PROVE regs[k] \in visited'
    <3>1. k < i \/ k = i
      BY <1>1, <2>1, <2>4
    <3> QED BY <2>1, <2>4, <3>1 DEF PassInv, Behind
  <2>5. Behind'
    BY <1>1, <2>1, <2>4 DEF Behind
  <2> QED BY <2>3, <2>5 DEF PassInv
<1>3. CASE CheckStats \/ PublishStats
  <2>1. UNCHANGED regs /\ (pc' = "scan" => i' = 1 /\ visited' = {})
    BY <1>3 DEF CheckStats, PublishStats, StartPass, scanner
  <2>2. \A k \in 1..Len(regs) : ~(k < 1)
    OBVIOUS
  <2> QED BY <1>1, <2>1, <2>2 DEF PassInv, Behind, Ahead
<1>4. CASE Main /\ ~ScanNext /\ ~(CheckStats \/ PublishStats)
  <2>1. pc' # "scan"
    BY <1>4 DEF Main, CheckList, ListLength, ListPeriod, ListEnd, PublishList,
       PublishListLost, StatsEnd, ScanEnd, ScanReset, EndCycle
  <2> QED BY <2>1 DEF PassInv, Behind, Ahead
<1> QED
  BY <1>2, <1>3, <1>4

\* An entry that is new has not been visited, and is ahead of the iterator.
LEMMA AppendPass ==
    ASSUME ListOK, PassInv, NEW s, NEW l, NEW p, AppendCmd(s, l, p)
    PROVE  PassInv'
<1>1. /\ regs' = Append(regs, Len(obj) + 1)
      /\ UNCHANGED <<pc, i, visited, shifted>>
  BY DEF AppendCmd, main, history
<1>2. /\ Len(regs) \in Nat /\ i \in Nat /\ Len(obj) \in Nat /\ DOMAIN obj = 1..Len(obj)
      /\ visited \subseteq DOMAIN obj
      /\ \A j \in 1..Len(regs) : regs[j] \in 1..Len(obj)
  BY LenProperties, ListedIsMade DEF ListOK
<1>3. regs \in Seq(Nat)
  BY <1>2, WiderSeq DEF ListOK
<1>4. /\ Len(regs') = Len(regs) + 1
      /\ \A j \in 1..Len(regs) : regs'[j] = regs[j]
      /\ regs'[Len(regs) + 1] = Len(obj) + 1
  BY <1>1, <1>2, <1>3, AppendProperties
<1>5. Len(obj) + 1 \notin visited
  BY <1>2
<1>6. \A k \in 1..Len(regs') : k \in 1..Len(regs) \/ k = Len(regs) + 1
  BY <1>2, <1>4
<1>7. Ahead'
  BY <1>1, <1>4, <1>5, <1>6 DEF PassInv, Ahead
<1>8. Behind'
  BY <1>1, <1>2, <1>4, <1>6 DEF PassInv, Behind
<1> QED
  BY <1>7, <1>8 DEF PassInv

\* A removal moves entries to the iterator only if it is behind it.
LEMMA RemovePass ==
    ASSUME ListOK, PassInv, NEW s, NEW l, NEW p, RemoveCmd(s, l, p)
    PROVE  PassInv'
<1>1. PICK k \in DOMAIN regs :
        /\ regs' = RemoveAt(regs, k)
        /\ shifted' = (shifted \/ (pc = "scan" /\ k < i))
  BY DEF RemoveCmd
<1>2. UNCHANGED <<pc, i, visited>>
  BY DEF RemoveCmd, main
<1>3. k \in 1..Len(regs) /\ Len(regs) \in Nat /\ i \in Nat
  BY LenProperties DEF ListOK
<1>4. /\ Len(regs') = Len(regs) - 1
      /\ \A j \in 1..(Len(regs) - 1) : regs'[j] = IF j < k THEN regs[j] ELSE regs[j + 1]
  BY <1>1, <1>3, RemoveAtProperties DEF ListOK
<1>5. Ahead'
  <2> SUFFICES ASSUME pc = "scan", NEW j \in 1..Len(regs'), j >= i PROVE regs'[j] \notin visited
    BY <1>2 DEF Ahead
  <2>1. \A m \in 1..Len(regs) : m >= i => regs[m] \notin visited
    BY DEF PassInv, Ahead
  <2>2. CASE j < k
    BY <1>3, <1>4, <2>1, <2>2
  <2>3. CASE ~(j < k)
    <3>1. j + 1 \in 1..Len(regs) /\ j + 1 >= i /\ regs'[j] = regs[j + 1]
      BY <1>3, <1>4, <2>3
    <3> QED BY <2>1, <3>1
  <2> QED BY <2>2, <2>3
<1>6. ~shifted' => ~shifted /\ ~(pc = "scan" /\ k < i)
  BY <1>1, Zenon
<1>7. Behind'
  <2> SUFFICES ASSUME pc = "scan", ~shifted'
               PROVE  /\ i <= Len(regs') + 1
                      /\ \A j \in 1..Len(regs') : j < i => regs'[j] \in visited
    BY <1>2 DEF Behind
  <2>1. k >= i /\ \A j \in 1..Len(regs) : j < i => regs[j] \in visited
    BY <1>3, <1>6 DEF PassInv, Behind
  <2> QED BY <1>3, <1>4, <2>1
<1> QED
  BY <1>5, <1>7 DEF PassInv

LEMMA StepPass ==
    ASSUME TypeOK, PublicationInv, PassInv, [Next]_vars
    PROVE  PassInv'
<1>0. ListOK /\ Distinct
  BY DEF TypeOK, PublicationInv
<1>1. CASE Main
  BY <1>0, <1>1, MainPass
<1>2. CASE Arrive
  <2>1. ASSUME NEW s, NEW l, NEW p, ModifyCmd(s, l, p) PROVE PassInv'
    <3>1. UNCHANGED <<pc, i, regs, visited, shifted>>
      BY <2>1 DEF ModifyCmd, main
    <3> QED BY <3>1 DEF PassInv, Behind, Ahead
  <2>2. ASSUME ListCmd \/ StatsCmd PROVE PassInv'
    <3>1. UNCHANGED <<pc, i, regs, visited, shifted>>
      BY <2>2 DEF ListCmd, StatsCmd, main
    <3> QED BY <3>1 DEF PassInv, Behind, Ahead
  <2> QED BY <1>0, <1>2, <2>1, <2>2, AppendPass, RemovePass DEF Arrive
<1>3. CASE Finish \/ UNCHANGED vars
  <2>1. UNCHANGED <<pc, i, regs, visited, shifted>>
    BY <1>3 DEF Finish, ModifyEnd, Mark, vars, main, scanner, history
  <2> QED BY <2>1 DEF PassInv, Behind, Ahead
<1> QED
  BY <1>1, <1>2, <1>3 DEF Next

\* Distinct and the pass, in every state.
LEMMA AlwaysPass == Spec => [](TypeOK /\ PublicationInv /\ PassInv)
<1>1. Init => TypeOK /\ PublicationInv /\ PassInv
  BY InitTypes, InitPublication DEF Init, PassInv, Behind, Ahead
<1>2. TypeOK /\ PublicationInv /\ PassInv /\ [Next]_vars
        => (TypeOK /\ PublicationInv /\ PassInv)'
  BY StepTypes, StepPublication, StepPass
<1> QED
  BY <1>1, <1>2, PTL DEF Spec

\* scan_all iterates over a list that the MQTT thread changes: as long as
\* nothing behind the iterator is removed, every entry behind it was read.
THEOREM PassCovers == Spec => []PassesCoverTheList
<1>1. TypeOK /\ PassInv => PassesCoverTheList
  BY LenProperties DEF TypeOK, ListOK, PassInv, Behind, PassesCoverTheList
<1> QED
  BY <1>1, AlwaysPass, PTL

\* No append, removal or modify, wherever the iterator is, makes scan_all
\* read an entry a second time in one pass.
THEOREM NoEntryTwiceHolds == Spec => NoEntryTwice
<1>1. TypeOK /\ PassInv /\ [Next]_vars => [ScanNext => regs[i] \notin visited]_vars
  <2> SUFFICES ASSUME TypeOK, PassInv, ScanNext PROVE regs[i] \notin visited
    OBVIOUS
  <2>1. pc = "scan" /\ i \in 1..Len(regs) /\ i >= i
    BY LenProperties DEF ScanNext, TypeOK, ListOK
  <2> QED BY <2>1 DEF PassInv, Ahead
<1> QED
  BY <1>1, AlwaysPass, PTL DEF Spec, NoEntryTwice

-----------------------------------------------------------------------------
(***************************************************************************)
(* What append adds.                                                       *)
(***************************************************************************)
LEMMA MinOfNaturals ==
    ASSUME NEW S \in SUBSET Nat, S # {}
    PROVE  Min(S) \in S
<1>1. PICK x \in S : \A y \in S : ~(<<y, x>> \in OpToRel(<, Nat))
  BY NatLessThanWellFounded, WFMin
<1>2. \A y \in S : ~(y < x)
  BY <1>1 DEF OpToRel
<1>3. \A y \in S : x <= y
  BY <1>2
<1> QED
  BY <1>3 DEF Min

\* find() returns no entry only if none matches.
LEMMA NotFound ==
    ASSUME ListOK, NEW s, NEW l, NEW p, Find(s, l, p) = 0, NEW k \in 1..Len(regs)
    PROVE  ~Matches(obj[regs[k]], s, l, p)
<1> DEFINE I == {j \in 1..Len(regs) : Matches(obj[regs[j]], s, l, p)}
<1>1. Len(regs) \in Nat
  BY LenProperties DEF ListOK
<1>2. Find(s, l, p) = IF I # {} THEN Min(I) ELSE 0
  BY DEF Find, SelectInSeq
<1>3. I \in SUBSET Nat /\ 0 \notin I
  BY <1>1
<1> HIDE DEF I
<1>4. I = {}
  BY <1>2, <1>3, MinOfNaturals
<1> QED
  BY <1>4 DEF I

\* append compares with the entries as they are, so that no modify before it
\* makes it add a row a second time.
THEOREM AppendsAreNewHolds == Spec => AppendsAreNew
<1> DEFINE Added == Len(regs') > Len(regs) =>
         \A k \in DOMAIN regs : RowOf(obj[regs[k]]) # RowOf(obj'[regs'[Len(regs')]])
<1>1. ASSUME TypeOK, NEW s \in Starts, NEW l \in Lengths, NEW p \in Periods,
             AppendCmd(s, l, p), NEW k \in DOMAIN regs
      PROVE  RowOf(obj[regs[k]]) # RowOf(obj'[regs'[Len(regs')]])
  <2> DEFINE o == Made([start |-> s, length |-> l, period |-> p])
  <2>1. /\ obj' = Append(obj, o) /\ regs' = Append(regs, Len(obj) + 1)
        /\ Find(s, l, p) = 0
    BY <1>1 DEF AppendCmd
  <2>2. o \in Object /\ ListOK /\ l # None /\ p # None
    BY <1>1, RowTypes, NoneAssumption DEF AppendCmd, CanBuild, TypeOK
  <2>3. RowOf(o).start = s /\ RowOf(o).length = l /\ RowOf(o).period = p
    BY DEF Made, RowOf
  <2> HIDE DEF o
  <2>4. /\ Len(regs) \in Nat /\ DOMAIN regs = 1..Len(regs) /\ Len(obj) \in Nat
        /\ \A j \in 1..Len(regs) : regs[j] \in Nat
    BY <2>2, LenProperties, ListedIsMade DEF ListOK
  <2>5. regs \in Seq(Nat)
    BY <2>2, <2>4, WiderSeq DEF ListOK
  <2>6. Len(regs') = Len(regs) + 1 /\ regs'[Len(regs) + 1] = Len(obj) + 1
    BY <2>1, <2>4, <2>5, AppendProperties
  <2>7. obj'[Len(obj) + 1] = o
    BY <2>1, <2>2, AppendProperties DEF ListOK
  <2>8. obj'[regs'[Len(regs')]] = o
    BY <2>6, <2>7
  <2>9. ~Matches(obj[regs[k]], s, l, p)
    BY <1>1, <2>1, <2>2, <2>4, NotFound
  <2> QED BY <2>3, <2>8, <2>9 DEF Matches, RowOf
<1>2. ASSUME TypeOK, NEW s, NEW l, NEW p, RemoveCmd(s, l, p)
      PROVE  ~(Len(regs') > Len(regs))
  <2>1. PICK k \in DOMAIN regs : regs' = RemoveAt(regs, k)
    BY <1>2 DEF RemoveCmd
  <2>2. k \in 1..Len(regs) /\ Len(regs) \in Nat /\ ListOK
    BY <1>2, LenProperties DEF TypeOK, ListOK
  <2>3. Len(regs') = Len(regs) - 1
    BY <2>1, <2>2, RemoveAtProperties DEF ListOK
  <2> QED BY <2>2, <2>3
<1>3. TypeOK /\ [Next]_vars => [Added]_vars
  <2> SUFFICES ASSUME TypeOK, Next PROVE Added
    OBVIOUS
  <2>1. Len(regs) \in Nat
    BY LenProperties DEF TypeOK, ListOK
  <2>2. CASE Main \/ Finish
    <3>1. UNCHANGED regs
      BY <2>2 DEF Main, CheckList, ListLength, ListPeriod, ListEnd, PublishList,
         PublishListLost, CheckStats, StatsEnd, PublishStats, ScanNext, ScanEnd, ScanReset,
         EndCycle, Finish, ModifyEnd, Mark, scanner
    <3> QED BY <2>1, <3>1
  <2>3. CASE Arrive
    <3>1. ASSUME NEW s, NEW l, NEW p, ModifyCmd(s, l, p) PROVE UNCHANGED regs
      BY <3>1 DEF ModifyCmd
    <3>2. ListCmd \/ StatsCmd => UNCHANGED regs
      BY DEF ListCmd, StatsCmd
    <3> QED BY <1>1, <1>2, <2>1, <2>3, <3>1, <3>2 DEF Arrive
  <2> QED BY <2>2, <2>3 DEF Next
<1> QED
  BY <1>3, TypeCorrect, PTL DEF Spec, AppendsAreNew
=============================================================================
