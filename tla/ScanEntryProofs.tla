-------------------------- MODULE ScanEntryProofs --------------------------
(***************************************************************************)
(* Theorems about ScanEntry for every set of periods and lengths, every    *)
(* jitter and every number of attempts. The clock's bound plays no part.   *)
(***************************************************************************)
EXTENDS ScanEntry, TLAPS

-----------------------------------------------------------------------------
(***************************************************************************)
(* Type correctness.                                                       *)
(***************************************************************************)
LEMMA InitTypes == Init => TypeOK
<1> SUFFICES ASSUME Init PROVE TypeOK
  OBVIOUS
<1>1. due \in Int
  BY JitterAssumption DEF Init
<1>2. EntryOK
  BY <1>1 DEF Init, EntryOK
<1>3. ScanOK
  BY MaxTriesAssumption DEF Init, ScanOK
<1>4. CommandOK
  BY DEF Init, CommandOK, NoArgs
<1>5. age \in 0..(Wheel - 1)
  BY <1>1, WheelAssumption DEF Init
<1>6. HistoryOK
  BY <1>5 DEF Init, HistoryOK
<1> QED
  BY <1>2, <1>3, <1>4, <1>6 DEF Init, TypeOK, Reading

\* The steps of the main thread: only the addition of a period touches the
\* entry, and it finds the entry due.
LEMMA MainTypes ==
    ASSUME TypeOK, Main \/ SendRaises
    PROVE  TypeOK'
<1>0. EntryOK /\ ScanOK /\ CommandOK /\ HistoryOK /\ (Reading => DueButForTheClock)
  BY DEF TypeOK
<1>1. CommandOK'
  BY <1>0 DEF Main, SendRaises, Visit, Send, Receive, NoReply, Check, Advance, Expand, modify, CommandOK
<1>2. HistoryOK'
  <2>1. age' = age /\ 0 \in Nat
    BY DEF Main, SendRaises, Visit, Send, Receive, NoReply, Check, Advance, Expand, history
  <2>2. /\ cause' \in {cause, "period"} /\ owed' \in {owed, FALSE} /\ raced' \in {raced, FALSE}
        /\ back' \in {back, 0}
    BY DEF Main, SendRaises, Visit, Send, Receive, NoReply, Check, Advance, Expand, history
  <2> QED BY <1>0, <2>1, <2>2 DEF HistoryOK
<1>3. CASE Advance
  <2>1. due' \in Int \cup {Never}
    BY <1>0, <1>3, NeverAssumption, PeriodsAssumption DEF Advance, EntryOK
  <2>2. EntryOK'
    BY <1>0, <1>3, <2>1 DEF Advance, EntryOK
  <2>3. ScanOK'
    BY <1>0, <1>3 DEF Advance, ScanOK
  <2> QED BY <1>1, <1>2, <1>3, <2>2, <2>3 DEF TypeOK, Advance, Reading
<1>4. CASE ~Advance
  <2>1. UNCHANGED <<due, period, length, request, type>>
    BY <1>4 DEF Main, SendRaises, Visit, Send, Receive, NoReply, Check, Expand, entry
  <2>2. EntryOK'
    BY <1>0, <2>1 DEF EntryOK
  <2>3. AttemptFails => attempt' \in 1..MaxTries /\ pc' \in {"send", "rest"}
    BY <1>0, MaxTriesAssumption DEF AttemptFails, ScanOK
  <2>4. attempt' \in 1..MaxTries
    <3>1. AttemptFails \/ attempt' = 1 \/ attempt' = attempt
      BY <1>4 DEF Main, SendRaises, Visit, Send, Receive, NoReply, Check, Expand
    <3> QED BY <1>0, <2>3, <3>1, MaxTriesAssumption DEF ScanOK
  <2>5. as' \in Types /\ asked' \in Lengths /\ got' \in Lengths
    <3>1. as' \in {as, type} /\ asked' \in {asked, request} /\ got' \in {got, length}
      BY <1>4 DEF Main, SendRaises, Visit, Send, Receive, NoReply, Check, Expand
    <3> QED BY <1>0, <3>1 DEF ScanOK, EntryOK
  <2>6. /\ pc' \in {"rest", "send", "recv", "check", "advance", "expand", "indexError"}
        /\ Reading' => Reading \/ (Due /\ pc' = "send")
    BY <1>4, <2>3 DEF Main, SendRaises, Visit, Send, Receive, NoReply, Check, Expand, Reading
  <2>7. ScanOK'
    BY <2>4, <2>5, <2>6 DEF ScanOK
  <2>8. Reading' => DueButForTheClock'
    <3>1. CASE Visit
      BY <1>0, <2>1, <3>1, NeverAssumption DEF Visit, Due, DueButForTheClock, EntryOK
    <3>2. CASE ~Visit
      <4>1. back' = back /\ (Reading' => Reading)
        BY <1>4, <2>3, <3>2 DEF Main, SendRaises, Send, Receive, NoReply, Check, Expand, history, Reading,
           AttemptFails
      <4> QED BY <1>0, <2>1, <4>1 DEF DueButForTheClock
    <3> QED BY <3>1, <3>2
  <2> QED BY <1>1, <1>2, <2>2, <2>7, <2>8 DEF TypeOK
<1> QED
  BY <1>3, <1>4

\* A command writes the entry's fields, and makes it due; time only makes it
\* more so.
LEMMA CommandTypes ==
    ASSUME TypeOK, Arrive \/ Finish \/ Tick \/ SetClockBack
    PROVE  TypeOK'
<1>0. EntryOK /\ ScanOK /\ CommandOK /\ HistoryOK /\ (Reading => DueButForTheClock)
  BY DEF TypeOK
<1>1. DueNow /\ back' = back => due' = 0 /\ HistoryOK'
  BY <1>0, WheelAssumption DEF DueNow, HistoryOK, InFlight
<1>2. CASE Poll
  <2>1. UNCHANGED <<period, length, request, type, pc, attempt, as, asked, got, mqtt, args, back>>
    BY <1>2 DEF Poll, scan, modify
  <2>2. due' = 0 /\ HistoryOK'
    BY <1>1, <1>2, <2>1 DEF Poll
  <2>3. EntryOK' /\ ScanOK' /\ CommandOK'
    <3>1. EntryOK'
      BY <1>0, <2>1, <2>2 DEF EntryOK
    <3>2. ScanOK' /\ CommandOK'
      BY <1>0, <2>1 DEF ScanOK, CommandOK
    <3> QED BY <3>1, <3>2
  <2>4. DueButForTheClock'
    BY <1>0, <2>1, <2>2, NeverAssumption DEF DueButForTheClock, HistoryOK
  <2> QED BY <2>2, <2>3, <2>4 DEF TypeOK
<1>3. ASSUME NEW l \in Lengths \cup {None}, NEW t \in Types \cup {None},
             NEW p \in Periods \cup {Never, None}, ModifyLength(l, t, p)
      PROVE  TypeOK'
  <2>1. /\ UNCHANGED <<due, period, request, type, pc, attempt, as, asked, got>>
        /\ UNCHANGED <<age, cause, owed, raced, back>>
    BY <1>3 DEF ModifyLength, scan, history
  <2>2. length' \in Lengths
    BY <1>0, <1>3 DEF ModifyLength, Given, EntryOK
  <2>3. CommandOK'
    BY <1>3 DEF ModifyLength, CommandOK
  <2>4. EntryOK' /\ ScanOK' /\ HistoryOK' /\ (Reading => DueButForTheClock)'
    BY <1>0, <2>1, <2>2 DEF EntryOK, ScanOK, HistoryOK, Reading, DueButForTheClock
  <2> QED BY <2>3, <2>4 DEF TypeOK
<1>4. CASE ModifyRequest
  <2>1. /\ UNCHANGED <<due, period, length, pc, attempt, as, asked, got, args>>
        /\ UNCHANGED <<age, cause, owed, raced, back>>
    BY <1>4 DEF ModifyRequest, scan, history
  <2>2. request' \in Lengths /\ type' \in Types
    BY <1>0, <1>4 DEF ModifyRequest, Given, EntryOK, CommandOK
  <2>3. CommandOK'
    BY <1>0, <1>4, <2>1 DEF ModifyRequest, CommandOK
  <2>4. EntryOK' /\ ScanOK' /\ HistoryOK' /\ (Reading => DueButForTheClock)'
    BY <1>0, <2>1, <2>2 DEF EntryOK, ScanOK, HistoryOK, Reading, DueButForTheClock
  <2> QED BY <2>3, <2>4 DEF TypeOK
<1>5. CASE ModifyPeriod
  <2>1. /\ UNCHANGED <<due, length, request, type, pc, attempt, as, asked, got, args>>
        /\ UNCHANGED <<age, cause, owed, raced, back>>
    BY <1>5 DEF ModifyPeriod, scan, history
  <2>2. period' \in Periods \cup {Never}
    BY <1>0, <1>5 DEF ModifyPeriod, Given, EntryOK, CommandOK
  <2>3. CommandOK'
    BY <1>0, <1>5, <2>1 DEF ModifyPeriod, CommandOK
  <2>4. EntryOK' /\ ScanOK' /\ HistoryOK' /\ (Reading => DueButForTheClock)'
    BY <1>0, <2>1, <2>2 DEF EntryOK, ScanOK, HistoryOK, Reading, DueButForTheClock
  <2> QED BY <2>3, <2>4 DEF TypeOK
<1>6. CASE ModifyNow
  <2>1. UNCHANGED <<period, length, request, type, pc, attempt, as, asked, got, back>>
    BY <1>6 DEF ModifyNow, scan
  <2>2. due' = 0 /\ HistoryOK'
    BY <1>1, <1>6, <2>1 DEF ModifyNow
  <2>3. CommandOK'
    BY <1>6 DEF ModifyNow, CommandOK, NoArgs
  <2>4. EntryOK' /\ ScanOK'
    <3>1. EntryOK'
      BY <1>0, <2>1, <2>2 DEF EntryOK
    <3>2. ScanOK'
      BY <1>0, <2>1 DEF ScanOK
    <3> QED BY <3>1, <3>2
  <2>5. DueButForTheClock'
    BY <1>0, <2>1, <2>2, NeverAssumption DEF DueButForTheClock, HistoryOK
  <2> QED BY <2>2, <2>3, <2>4, <2>5 DEF TypeOK
<1>7. CASE Tick
  <2>1. /\ UNCHANGED <<period, length, request, type, pc, attempt, as, asked, got>>
        /\ UNCHANGED <<mqtt, args, cause, owed, raced, back>>
    BY <1>7 DEF Tick, scan, modify
  <2>2. due' \in Int \cup {Never} /\ (DueButForTheClock => DueButForTheClock')
    BY <1>0, <1>7, <2>1, NeverAssumption DEF Tick, EntryOK, HistoryOK, DueButForTheClock
  <2>3. age' \in 0..(Wheel - 1)
    BY <1>0, <1>7, WheelAssumption DEF Tick, HistoryOK
  <2>4. EntryOK' /\ ScanOK' /\ CommandOK' /\ HistoryOK'
    BY <1>0, <2>1, <2>2, <2>3 DEF EntryOK, ScanOK, CommandOK, HistoryOK
  <2>5. Reading' => DueButForTheClock'
    BY <1>0, <2>1, <2>2 DEF Reading
  <2> QED BY <2>4, <2>5 DEF TypeOK
<1>8. CASE SetClockBack
  <2>1. /\ UNCHANGED <<period, length, request, type, pc, attempt, as, asked, got>>
        /\ UNCHANGED <<mqtt, args, cause, owed, raced>>
    BY <1>8 DEF SetClockBack, scan, modify
  <2>2. PICK d \in 1..(MaxBack - back) :
          /\ due' = IF due = Never THEN Never ELSE due + d
          /\ age' = (age - d) % Wheel
          /\ back' = back + d
    BY <1>8 DEF SetClockBack
  <2>3. /\ due' \in Int \cup {Never} /\ back' \in Nat
        /\ DueButForTheClock => DueButForTheClock'
    BY <1>0, <2>2, NeverAssumption, MaxBackAssumption DEF EntryOK, HistoryOK, DueButForTheClock
  <2>4. age' \in 0..(Wheel - 1)
    BY <1>0, <2>2, WheelAssumption, MaxBackAssumption DEF HistoryOK
  <2>5. EntryOK' /\ ScanOK' /\ CommandOK' /\ HistoryOK'
    BY <1>0, <2>1, <2>3, <2>4 DEF EntryOK, ScanOK, CommandOK, HistoryOK
  <2>6. Reading' => DueButForTheClock'
    BY <1>0, <2>1, <2>3 DEF Reading
  <2> QED BY <2>5, <2>6 DEF TypeOK
<1> QED
  BY <1>2, <1>3, <1>4, <1>5, <1>6, <1>7, <1>8 DEF Arrive, Finish

LEMMA StutterTypes == TypeOK /\ UNCHANGED vars => TypeOK'
BY DEF vars, entry, scan, modify, history, TypeOK, EntryOK, ScanOK, CommandOK, HistoryOK,
   Reading, DueButForTheClock

\* The type invariant. What carries it is that an entry stays due while its
\* scan runs: nothing but the scan itself can put next_scan off.
THEOREM TypeCorrect == Spec => []TypeOK
<1>1. Init => TypeOK
  BY InitTypes
<1>2. TypeOK /\ [Next]_vars => TypeOK'
  BY MainTypes, CommandTypes, StutterTypes DEF Next
<1> QED
  BY <1>1, <1>2, PTL DEF Spec

-----------------------------------------------------------------------------
(***************************************************************************)
(* Time.                                                                   *)
(***************************************************************************)

\* An entry with a period is never put off by more than one of them.
THEOREM NeverPutOffHolds == Spec => []NeverPutOff
<1>1. Init => NeverPutOff
  BY JitterAssumption, PeriodsAssumption DEF Init, NeverPutOff, LongestWait
<1>2. ASSUME TypeOK, NeverPutOff, [Next]_vars
      PROVE  NeverPutOff'
  <2>0. /\ due \in Int \cup {Never} /\ period \in Periods \cup {Never}
        /\ back \in Nat
        /\ Reading => DueButForTheClock
    BY <1>2 DEF TypeOK, EntryOK, HistoryOK
  <2>1. CASE Advance
    <3>1. due <= back /\ due # Never /\ UNCHANGED <<period, back>>
      BY <2>0, <2>1 DEF Advance, Reading, DueButForTheClock
    <3>2. period # Never => due' <= period + back
      BY <2>0, <2>1, <3>1, PeriodsAssumption DEF Advance
    <3>3. period # Never => due' <= LongestWait + back
      BY <2>0, <2>1, <3>1, <3>2, PeriodsAssumption, JitterAssumption DEF Advance, LongestWait
    <3> QED BY <3>1, <3>3 DEF NeverPutOff, LongestWait
  <2>2. CASE Poll \/ ModifyNow
    <3>1. due' = 0
      BY <2>2 DEF Poll, ModifyNow, DueNow
    <3>2. period' = period /\ back' = back
      BY <2>2 DEF Poll, ModifyNow
    <3> QED BY <2>0, <3>1, <3>2, PeriodsAssumption, JitterAssumption
         DEF NeverPutOff, LongestWait
  <2>3. CASE Tick
    BY <1>2, <2>0, <2>3, NeverAssumption, PeriodsAssumption, JitterAssumption
       DEF Tick, modify, NeverPutOff, LongestWait
  <2>7. CASE SetClockBack
    BY <1>2, <2>0, <2>7, NeverAssumption, PeriodsAssumption, JitterAssumption, MaxBackAssumption
       DEF SetClockBack, modify, NeverPutOff, LongestWait
  <2>8. CASE Visit
    BY <2>0, <2>8, PeriodsAssumption, JitterAssumption
       DEF Visit, Due, entry, NeverPutOff, LongestWait
  <2>4. CASE Arrive /\ ~Poll
    BY <2>4 DEF Arrive, ModifyLength, NeverPutOff
  <2>5. CASE ModifyRequest \/ ModifyPeriod
    BY <2>5 DEF ModifyRequest, ModifyPeriod, NeverPutOff
  <2>6. CASE (Main /\ ~Advance /\ ~Visit) \/ SendRaises \/ UNCHANGED vars
    <3>1. UNCHANGED <<due, period, mqtt, back>>
      BY <2>6 DEF Main, SendRaises, Send, Receive, NoReply, Check, Expand, vars, entry, modify, history
    <3> QED BY <1>2, <3>1 DEF NeverPutOff, LongestWait
  <2> QED BY <1>2, <2>1, <2>2, <2>3, <2>4, <2>5, <2>6, <2>7, <2>8 DEF Next, Finish, Main
<1> QED
  BY <1>1, <1>2, TypeCorrect, PTL DEF Spec

\* Multiples, by which the grid of a period is counted. A remainder differs
\* from what it is the remainder of by a multiple of the divisor.
Multiple(p, x) == \E k \in Int : x = k * p

LEMMA Division ==
    ASSUME NEW p \in Nat \ {0}, NEW x \in Int
    PROVE  /\ x = (x \div p) * p + (x % p)
           /\ x \div p \in Int /\ x % p \in 0..(p - 1)
OBVIOUS

LEMMA NoRemainder ==
    ASSUME NEW p \in Nat \ {0}, NEW x \in Int
    PROVE  x % p = 0 <=> Multiple(p, x)
<1>1. ASSUME x % p = 0 PROVE Multiple(p, x)
  <2>1. x = (x \div p) * p /\ x \div p \in Int
    BY <1>1, Division
  <2> QED BY <2>1 DEF Multiple
<1>2. ASSUME NEW k \in Int, x = k * p PROVE x % p = 0
  <2>1. (k * p) % p = 0
    OBVIOUS
  <2> QED BY <1>2, <2>1
<1> QED
  BY <1>1, <1>2 DEF Multiple

LEMMA SumOfMultiples ==
    ASSUME NEW p \in Nat \ {0}, NEW x \in Int, NEW y \in Int,
           Multiple(p, x), Multiple(p, y)
    PROVE  Multiple(p, x + y)
<1>1. PICK j \in Int : x = j * p
  BY DEF Multiple
<1>2. PICK k \in Int : y = k * p
  BY DEF Multiple
<1>3. (j + k) * p = j * p + k * p /\ j + k \in Int
  BY SMT
<1> QED
  BY <1>1, <1>2, <1>3 DEF Multiple

LEMMA RemainderOnWheel ==
    ASSUME NEW p \in Nat \ {0}, NEW w \in Nat \ {0}, Multiple(p, w), NEW a \in Int
    PROVE  a % w \in Int /\ Multiple(p, (a % w) - a)
<1>1. PICK k \in Int : w = k * p
  BY DEF Multiple
<1> DEFINE q == a \div w
           r == a % w
<1>2. a = q * w + r /\ q \in Int /\ r \in Int
  BY Division
<1> HIDE DEF q, r
<1>3. q * w = (q * k) * p /\ q * k \in Int
  BY <1>1, <1>2
<1>4. r - a = (0 - q * k) * p /\ 0 - q * k \in Int
  BY <1>2, <1>3
<1> QED
  BY <1>2, <1>4 DEF Multiple, r

\* The next scan is on the grid of the period when what is left to it and what
\* has passed since next_scan was last set add up to whole periods.
OnGrid == mqtt = "idle" /\ period # Never /\ due # Never => Multiple(period, due + age)

\* A time that moves on by d, either way, stays on the grid.
LEMMA TimeKeepsGrid ==
    ASSUME TypeOK, OnGrid, NEW d \in Int, UNCHANGED <<period, mqtt>>,
           due' = IF due = Never THEN Never ELSE due - d,
           age' = (age + d) % Wheel
    PROVE  OnGrid'
<1> SUFFICES ASSUME mqtt = "idle", period # Never, due' # Never
             PROVE  Multiple(period, due' + age')
  BY DEF OnGrid
<1>1. /\ period \in Periods /\ due \in Int /\ age \in Int /\ due' = due - d
      /\ period \in Nat \ {0}
  <2>1. due \in Int \cup {Never} /\ period \in Periods \cup {Never} /\ age \in 0..(Wheel - 1)
    BY DEF TypeOK, EntryOK, HistoryOK
  <2> QED BY <2>1, PeriodsAssumption, WheelAssumption
<1>2. Multiple(period, due + age)
  BY <1>1 DEF OnGrid
<1>3. Wheel \in Nat \ {0} /\ Multiple(period, Wheel)
  BY <1>1, WheelAssumption, NoRemainder
<1>4. age' \in Int /\ Multiple(period, age' - (age + d))
  <2>1. age + d \in Int
    BY <1>1
  <2> QED BY <1>1, <1>3, <2>1, RemainderOnWheel
<1>5. Multiple(period, (due + age) + (age' - (age + d)))
  BY <1>1, <1>2, <1>4, SumOfMultiples
<1>6. (due + age) + (age' - (age + d)) = due' + age'
  BY <1>1, <1>4
<1> QED
  BY <1>5, <1>6

\* The scans of an entry keep to the grid of its period, counted from the time
\* next_scan was last set, however late they are and however the clock is set
\* back: update_next_scan_raw adds a period to a time and never to now.
THEOREM NoDriftHolds == Spec => []NoDrift
<1>1. Init => OnGrid
  <2> SUFFICES ASSUME Init, period # Never
               PROVE  Multiple(period, due + age)
    BY DEF OnGrid
  <2>1. period \in Periods /\ period \in Nat \ {0} /\ due \in Int
    BY PeriodsAssumption, JitterAssumption DEF Init
  <2>2. Wheel \in Nat \ {0} /\ Multiple(period, Wheel)
    BY <2>1, WheelAssumption, NoRemainder
  <2>3. -due \in Int /\ age = (-due) % Wheel
    BY <2>1 DEF Init
  <2>4. age \in Int /\ Multiple(period, age - (-due))
    BY <2>1, <2>2, <2>3, RemainderOnWheel
  <2>5. age - (-due) = due + age
    BY <2>1, <2>4
  <2> QED BY <2>4, <2>5
<1>2. ASSUME TypeOK, OnGrid, [Next]_vars
      PROVE  OnGrid'
  <2>0. /\ due \in Int \cup {Never} /\ period \in Periods \cup {Never}
        /\ age \in Int /\ back \in Nat /\ Wheel \in Nat \ {0}
        /\ Reading => DueButForTheClock
    BY <1>2, WheelAssumption DEF TypeOK, EntryOK, HistoryOK
  <2>1. CASE Advance
    <3>1. due # Never /\ due \in Int /\ UNCHANGED <<period, age, mqtt>>
      BY <2>0, <2>1 DEF Advance, Reading, DueButForTheClock, modify
    <3>2. SUFFICES ASSUME mqtt = "idle", period # Never
                   PROVE  Multiple(period, due' + age)
      BY <3>1 DEF OnGrid
    <3>3. period \in Nat \ {0} /\ period \in Int /\ due' = due + period
      BY <2>0, <2>1, <3>2, PeriodsAssumption DEF Advance
    <3>4. Multiple(period, period)
      <4>1. period = 1 * period
        BY <3>3
      <4> QED BY <4>1 DEF Multiple
    <3>5. Multiple(period, (due + age) + period)
      BY <1>2, <2>0, <3>1, <3>2, <3>3, <3>4, SumOfMultiples DEF OnGrid
    <3>6. (due + age) + period = due' + age
      BY <2>0, <3>1, <3>3
    <3> QED BY <3>5, <3>6
  <2>2. CASE Poll \/ ModifyNow
    <3>1. due' = 0 /\ age' = 0 /\ period' = period
      BY <2>2 DEF Poll, ModifyNow, DueNow
    <3>2. SUFFICES ASSUME period # Never
                   PROVE  Multiple(period, 0 + 0)
      BY <3>1 DEF OnGrid
    <3>3. period \in Nat \ {0}
      BY <2>0, <3>2, PeriodsAssumption
    <3>4. 0 + 0 = 0 * period
      BY <3>3
    <3> QED BY <3>4 DEF Multiple
  <2>3. CASE Tick
    <3>1. /\ due' = IF due = Never THEN Never ELSE due - 1
          /\ age' = (age + 1) % Wheel /\ UNCHANGED <<period, mqtt>>
      BY <2>3 DEF Tick, modify
    <3> QED BY <1>2, <3>1, TimeKeepsGrid
  <2>4. CASE SetClockBack
    <3>1. PICK d \in 1..(MaxBack - back) :
            /\ due' = IF due = Never THEN Never ELSE due + d
            /\ age' = (age - d) % Wheel
      BY <2>4 DEF SetClockBack
    <3>2. d \in Int /\ UNCHANGED <<period, mqtt>>
      BY <2>0, <2>4, MaxBackAssumption DEF SetClockBack, modify
    <3> DEFINE m == 0 - d
    <3>3. m \in Int /\ age - d = age + m /\ (due \in Int => due + d = due - m)
      BY <2>0, <3>2
    <3> HIDE DEF m
    <3>4. /\ due' = IF due = Never THEN Never ELSE due - m
          /\ age' = (age + m) % Wheel
      BY <2>0, <3>1, <3>3
    <3> QED BY <1>2, <3>2, <3>3, <3>4, TimeKeepsGrid
  <2>5. CASE (Arrive /\ ~Poll) \/ ModifyRequest \/ ModifyPeriod
    BY <2>5 DEF Arrive, ModifyLength, ModifyRequest, ModifyPeriod, OnGrid
  <2>6. CASE (Main /\ ~Advance) \/ SendRaises \/ UNCHANGED vars
    <3>1. UNCHANGED <<due, period, mqtt, age>>
      BY <2>6 DEF Main, SendRaises, Visit, Send, Receive, NoReply, Check, Expand, vars,
         entry, modify, history
    <3> QED BY <1>2, <3>1 DEF OnGrid
  <2> QED BY <1>2, <2>1, <2>2, <2>3, <2>4, <2>5, <2>6 DEF Next, Finish
<1>3. TypeOK /\ OnGrid => NoDrift
  <2> SUFFICES ASSUME TypeOK, OnGrid, mqtt = "idle", period # Never, due # Never
               PROVE  (due + age) % period = 0
    BY DEF NoDrift
  <2>1. period \in Nat \ {0} /\ due + age \in Int
    <3>1. due \in Int \cup {Never} /\ period \in Periods \cup {Never} /\ age \in 0..(Wheel - 1)
      BY DEF TypeOK, EntryOK, HistoryOK
    <3>2. period \in Nat \ {0} /\ due \in Int /\ age \in Int
      BY <3>1, PeriodsAssumption, WheelAssumption
    <3> QED BY <3>2
  <2> QED BY <2>1, NoRemainder DEF OnGrid
<1> QED
  BY <1>1, <1>2, <1>3, TypeCorrect, PTL DEF Spec

\* An entry that is never to be scanned has no next scan at all once the one
\* it owed is done.
Disabled == mqtt = "idle" /\ period = Never /\ due # Never => cause # "period"

\* An entry with period 0 is scanned only because it was added, polled or
\* modified.
THEOREM OnlyOnRequestHolds == Spec => []OnlyOnRequest
<1>1. Init => Disabled
  BY DEF Init, Disabled
<1>2. Disabled /\ [Next]_vars => Disabled'
  <2> SUFFICES ASSUME Disabled, [Next]_vars PROVE Disabled'
    OBVIOUS
  <2>1. CASE Advance
    BY <2>1 DEF Advance, Disabled
  <2>2. CASE Poll \/ ModifyNow
    BY <2>2 DEF Poll, ModifyNow, DueNow, Disabled
  <2>3. CASE Tick \/ SetClockBack
    BY <2>3 DEF Tick, SetClockBack, modify, Disabled
  <2>4. CASE Arrive /\ ~Poll
    BY <2>4 DEF Arrive, ModifyLength, Disabled
  <2>5. CASE ModifyRequest \/ ModifyPeriod
    BY <2>5 DEF ModifyRequest, ModifyPeriod, Disabled
  <2>6. CASE (Main /\ ~Advance) \/ SendRaises \/ UNCHANGED vars
    <3>1. UNCHANGED <<due, period, mqtt, cause>>
      BY <2>6 DEF Main, SendRaises, Visit, Send, Receive, NoReply, Check, Expand, vars, entry, modify,
         history
    <3> QED BY <3>1 DEF Disabled
  <2> QED BY <2>1, <2>2, <2>3, <2>4, <2>5, <2>6 DEF Next, Finish
<1>3. Disabled => OnlyOnRequest
  BY DEF Disabled, OnlyOnRequest, Due
<1> QED
  BY <1>1, <1>2, <1>3, PTL DEF Spec

-----------------------------------------------------------------------------
(***************************************************************************)
(* The commands.                                                           *)
(***************************************************************************)

\* A poll or modify that no request followed has made the entry due, or has
\* come while a read was in flight.
Standing == owed /\ ~raced => DueButForTheClock /\ ~InFlight

\* A poll, or the rescan a modify asks for, stands until a request is sent
\* after it, unless it came while a read was in flight.
THEOREM RescanStandsHolds == Spec => []RescanStands
<1>1. Init => Standing
  BY DEF Init, Standing
<1>2. ASSUME TypeOK, Standing, [Next]_vars
      PROVE  Standing'
  <2>0. due \in Int \cup {Never} /\ back \in Nat
    BY <1>2 DEF TypeOK, EntryOK, HistoryOK
  <2>1. CASE Send
    BY <2>1 DEF Send, Standing
  <2>2. CASE Poll \/ ModifyNow
    <3>1. due' = 0 /\ raced' = (raced \/ InFlight) /\ UNCHANGED <<pc, back>>
      BY <2>2 DEF Poll, ModifyNow, DueNow, scan
    <3>2. DueButForTheClock'
      BY <2>0, <3>1, NeverAssumption DEF DueButForTheClock
    <3>3. raced' \/ ~InFlight'
      BY <3>1 DEF InFlight
    <3> QED BY <3>2, <3>3 DEF Standing
  <2>3. CASE Tick
    <3>1. DueButForTheClock => DueButForTheClock'
      BY <2>0, <2>3, NeverAssumption DEF Tick, DueButForTheClock
    <3>2. UNCHANGED <<owed, raced, pc>>
      BY <2>3 DEF Tick, scan
    <3> QED BY <1>2, <3>1, <3>2 DEF Standing, InFlight
  <2>6. CASE SetClockBack
    <3>1. DueButForTheClock => DueButForTheClock'
      BY <2>0, <2>6, NeverAssumption, MaxBackAssumption DEF SetClockBack, DueButForTheClock
    <3>2. UNCHANGED <<owed, raced, pc>>
      BY <2>6 DEF SetClockBack, scan
    <3> QED BY <1>2, <3>1, <3>2 DEF Standing, InFlight
  <2>7. CASE Visit
    <3>1. DueButForTheClock'
      BY <2>0, <2>7, NeverAssumption DEF Visit, Due, entry, DueButForTheClock
    <3>2. ~InFlight'
      BY <2>7 DEF Visit, InFlight
    <3> QED BY <3>1, <3>2 DEF Standing
  <2>4. CASE \/ SendRaises \/ Expand \/ (Arrive /\ ~Poll) \/ ModifyRequest \/ ModifyPeriod
             \/ UNCHANGED vars
    <3>1. UNCHANGED <<due, owed, raced, back>> /\ (InFlight' => InFlight)
      BY <2>4 DEF SendRaises, Expand, Arrive, ModifyLength, ModifyRequest, ModifyPeriod, vars,
         entry, scan, history, InFlight
    <3> QED BY <1>2, <3>1 DEF Standing, DueButForTheClock
  <2>5. CASE Receive \/ NoReply \/ Check \/ Advance
    <3>1. InFlight /\ UNCHANGED <<owed, raced>>
      BY <2>5 DEF Receive, NoReply, Check, Advance, history, InFlight
    <3> QED BY <1>2, <3>1 DEF Standing
  <2> QED BY <1>2, <2>1, <2>2, <2>3, <2>4, <2>5, <2>6, <2>7 DEF Next, Main, Finish
<1>3. Standing => RescanStands
  BY DEF Standing, RescanStands
<1> QED
  BY <1>1, <1>2, <1>3, TypeCorrect, PTL DEF Spec

\* The values published were asked for by a request of their length.
THEOREM ReadInOneShapeHolds == Spec => []ReadInOneShape
<1>1. Init => ReadInOneShape
  BY DEF Init, ReadInOneShape
<1>2. ReadInOneShape /\ [Next]_vars => ReadInOneShape'
  <2> SUFFICES ASSUME ReadInOneShape, [Next]_vars PROVE ReadInOneShape'
    OBVIOUS
  <2>1. CASE Receive \/ NoReply
    BY <2>1 DEF Receive, NoReply, AttemptFails, ReadInOneShape
  <2>2. CASE Visit \/ Send \/ SendRaises \/ Expand
    BY <2>2 DEF Visit, Send, SendRaises, Expand, ReadInOneShape
  <2>3. CASE Check \/ Advance
    BY <2>3 DEF Check, Advance, ReadInOneShape
  <2>4. CASE Arrive \/ Finish \/ Tick \/ SetClockBack \/ UNCHANGED vars
    <3>1. UNCHANGED <<pc, asked, got>>
      BY <2>4 DEF Arrive, Poll, ModifyLength, Finish, ModifyRequest, ModifyPeriod, ModifyNow,
         Tick, SetClockBack, vars, scan
    <3> QED BY <3>1 DEF ReadInOneShape
  <2> QED BY <2>1, <2>2, <2>3, <2>4 DEF Next, Main
<1> QED
  BY <1>1, <1>2, PTL DEF Spec
=============================================================================
