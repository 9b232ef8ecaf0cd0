----------------------------- MODULE ScanEntry -----------------------------
(***************************************************************************)
(* One entry of the scan list in time (RegisterScanEntry, scan_list.py):   *)
(* when it is due, what a scan of it does, and the commands poll and       *)
(* modify of the MQTT thread that reach it in the middle of a scan.        *)
(*                                                                         *)
(* Both threads write next_scan: the main thread adds a period when a read *)
(* has succeeded, the MQTT thread sets it to now. A scan is the sequence   *)
(* of what it reads and writes of the entry; a thread can lose the         *)
(* interpreter at every call in between.                                   *)
(*                                                                         *)
(* Time is relative: due is next_scan - now in units of the wall clock,    *)
(* which may be set back. The connection is in SlmpLink; here a read is    *)
(* answered or not. Lengths stand for the words themselves.                *)
(***************************************************************************)
EXTENDS Integers

CONSTANTS
    Periods,    \* the finite periods an entry may have
    Never,      \* INF_TIMEDELTA, what a period of 0 becomes; and a next_scan
                \* that far away
    None,       \* an argument of modify that is absent
    Lengths,    \* the lengths an entry may have
    Jitter,     \* random_period_shift
    MaxTries,   \* RegisterScanEntry.MAX_TRIES
    MaxLate,    \* bound: how late a scan may get
    MaxBack,    \* bound: by how much the clock is set back between two scans
    Wheel       \* bound: a common multiple of the periods, to count time by

Types == {"BIT_R", "WORD"}  \* WORD stands for every type but BIT_R

ASSUME PeriodsAssumption == Periods \subseteq Nat \ {0}
ASSUME NeverAssumption == Never \notin Int
ASSUME NoneAssumption == None \notin Int \cup Types \cup {Never}
ASSUME LengthsAssumption == Lengths \subseteq Nat \ {0} /\ Lengths # {}
ASSUME JitterAssumption == Jitter \in Nat
ASSUME MaxTriesAssumption == MaxTries \in Nat \ {0}
ASSUME MaxLateAssumption == MaxLate \in Nat
ASSUME MaxBackAssumption == MaxBack \in Nat
ASSUME WheelAssumption ==
    /\ Wheel \in Nat \ {0}
    /\ \A p \in Periods : Wheel % p = 0

VARIABLES
    due,        \* next_scan - now, or Never
    period,     \* self.period
    length,     \* self.length
    request,    \* self.request: the length it was built for
    type,       \* self.type
    pc,         \* where the main thread is in the scan of this entry
    attempt,    \* i in get_raw_value
    as,         \* the type scan_as dispatched on
    asked,      \* the length of the request that was sent
    got,        \* the number of values decoded
    mqtt,       \* where the MQTT thread is in a modify
    args,       \* its arguments
    age,        \* (history) time since next_scan was last set, modulo Wheel
    cause,      \* (history) what made the entry due: "added", "asked" by a
                \* command, or its "period"
    owed,       \* (history) a poll or modify no request was sent after
    raced,      \* (history) one of those came while a read was in flight
    back        \* (history) by how much the clock has been set back since
                \* the entry was last found due

entry == <<due, period, length, request, type>>
scan == <<pc, attempt, as, asked, got>>
modify == <<mqtt, args>>
history == <<age, cause, owed, raced, back>>
vars == <<entry, scan, modify, history>>

NoArgs == [length |-> None, type |-> None, period |-> None]

\* check_if_invalid: the scan is overdue.
Due == due # Never /\ due <= 0

Init ==
    /\ period \in Periods \cup {Never}
    /\ length \in Lengths
    /\ request = length
    /\ type \in Types
    /\ due \in 0..Jitter
    /\ pc = "rest"
    /\ attempt = 1
    /\ as = type
    /\ asked = length
    /\ got = length
    /\ mqtt = "idle"
    /\ args = NoArgs
    /\ age = (-due) % Wheel
    /\ cause = "added"
    /\ owed = FALSE
    /\ raced = FALSE
    /\ back = 0

-----------------------------------------------------------------------------
(***************************************************************************)
(* The main thread: scan_all comes to the entry.                           *)
(***************************************************************************)

\* A check that looks at the period first (a mutant of Visit).
VisitPeriodic ==
    /\ pc = "rest"
    /\ period # Never
    /\ Due
    /\ pc' = "send"
    /\ attempt' = 1
    /\ as' = type
    /\ back' = 0
    /\ UNCHANGED <<entry, asked, got, modify, age, cause, owed, raced>>

\* check_if_invalid, and the type read for this scan.
Visit ==
    /\ pc = "rest"
    /\ Due
    /\ pc' = "send"
    /\ attempt' = 1
    /\ as' = type
    /\ back' = 0
    /\ UNCHANGED <<entry, asked, got, modify, age, cause, owed, raced>>

Send ==
    /\ pc = "send"
    /\ asked' = request
    /\ pc' = "recv"
    /\ owed' = FALSE
    /\ raced' = FALSE
    /\ UNCHANGED <<entry, attempt, as, got, modify, age, cause, back>>

\* s.send raises, outside the try: the exception leaves scan_all, and the next
\* pass comes back to the entry on another connection.
SendRaises ==
    /\ pc = "send"
    /\ pc' = "rest"
    /\ UNCHANGED <<entry, attempt, as, asked, got, modify, history>>

\* One attempt too many (a mutant of AttemptFails).
RetryOnceMore ==
    IF attempt <= MaxTries
    THEN pc' = "send" /\ attempt' = attempt + 1
    ELSE pc' = "rest" /\ UNCHANGED attempt

\* An exception inside the try.
AttemptFails ==
    IF attempt < MaxTries
    THEN pc' = "send" /\ attempt' = attempt + 1
    ELSE pc' = "rest" /\ UNCHANGED attempt

\* A decoder that takes as many words as it is asked for (a mutant of
\* Receive).
ReceiveUnchecked ==
    /\ pc = "recv"
    /\ got' = length
    /\ pc' = "check"
    /\ UNCHANGED <<entry, attempt, as, asked, modify, history>>

\* The reply is decoded for the length the entry has by now.
Receive ==
    /\ pc = "recv"
    /\ IF asked = length
       THEN got' = length /\ pc' = "check" /\ UNCHANGED attempt
       ELSE AttemptFails /\ UNCHANGED got
    /\ UNCHANGED <<entry, as, asked, modify, history>>

\* A timeout, a refusal or a response that does not decode. The last one
\* leaves the entry as due as it was.
NoReply ==
    /\ pc = "recv"
    /\ AttemptFails
    /\ UNCHANGED <<entry, as, asked, got, modify, history>>

\* update_next_scan: still overdue?
Check ==
    /\ pc = "check"
    /\ pc' = IF Due THEN "advance" ELSE "expand"
    /\ UNCHANGED <<entry, attempt, as, asked, got, modify, history>>

\* An update that counts the period from now (a mutant of Advance).
AdvanceFromNow ==
    /\ pc = "advance"
    /\ due' = period
    /\ cause' = "period"
    /\ pc' = "expand"
    /\ UNCHANGED <<period, length, request, type, attempt, as, asked, got,
                   modify, age, owed, raced, back>>

\* An update that takes a period of 0 for what it says (a mutant of Advance).
AdvanceByZero ==
    /\ pc = "advance"
    /\ due' = IF period = Never THEN due ELSE due + period
    /\ cause' = "period"
    /\ pc' = "expand"
    /\ UNCHANGED <<period, length, request, type, attempt, as, asked, got,
                   modify, age, owed, raced, back>>

\* update_next_scan_raw: by exactly one period.
Advance ==
    /\ pc = "advance"
    /\ due' = IF period = Never THEN Never ELSE due + period
    /\ cause' = "period"
    /\ pc' = "expand"
    /\ UNCHANGED <<period, length, request, type, attempt, as, asked, got,
                   modify, age, owed, raced, back>>

\* The rows to publish. scan_as_bit_r counts them by self.length, the others
\* by the values they have.
Expand ==
    /\ pc = "expand"
    /\ pc' = IF as = "BIT_R" /\ length > got THEN "indexError" ELSE "rest"
    /\ UNCHANGED <<entry, attempt, as, asked, got, modify, history>>

Main == Visit \/ Send \/ Receive \/ NoReply \/ Check \/ Advance \/ Expand

-----------------------------------------------------------------------------
(***************************************************************************)
(* The MQTT thread. An IndexError ends the process, and it with it.        *)
(***************************************************************************)
Alive == pc # "indexError"
InFlight == pc \in {"recv", "check", "advance"}

\* next_scan = now: the end of poll and of modify.
DueNow ==
    /\ due' = 0
    /\ age' = 0
    /\ cause' = "asked"
    /\ owed' = TRUE
    /\ raced' = (raced \/ InFlight)

\* A poll that asks for the scan after a period (a mutant of Poll).
PollLater ==
    /\ Alive
    /\ mqtt = "idle"
    /\ due' = period
    /\ age' = 0
    /\ cause' = "asked"
    /\ owed' = TRUE
    /\ raced' = (raced \/ InFlight)
    /\ UNCHANGED <<period, length, request, type, scan, modify, back>>

\* poll: invalidate.
Poll ==
    /\ Alive
    /\ mqtt = "idle"
    /\ DueNow
    /\ UNCHANGED <<period, length, request, type, scan, modify, back>>

Given(new, old) == IF new = None THEN old ELSE new

\* modify, by reconfigure: length, then request and type, then period, then
\* next_scan.
ModifyLength(l, t, p) ==
    /\ Alive
    /\ mqtt = "idle"
    /\ args' = [length |-> l, type |-> t, period |-> p]
    /\ args' # NoArgs
    /\ length' = Given(l, length)
    /\ mqtt' = "request"
    /\ UNCHANGED <<due, period, request, type, scan, history>>

ModifyRequest ==
    /\ Alive
    /\ mqtt = "request"
    /\ request' = Given(args.length, request)
    /\ type' = Given(args.type, type)
    /\ mqtt' = "period"
    /\ UNCHANGED <<due, period, length, scan, args, history>>

ModifyPeriod ==
    /\ Alive
    /\ mqtt = "period"
    /\ period' = Given(args.period, period)
    /\ mqtt' = "now"
    /\ UNCHANGED <<due, length, request, type, scan, args, history>>

\* A modify that leaves next_scan as it is (a mutant of ModifyNow).
ModifyLater ==
    /\ Alive
    /\ mqtt = "now"
    /\ mqtt' = "idle"
    /\ args' = NoArgs
    /\ UNCHANGED <<entry, scan, history>>

ModifyNow ==
    /\ Alive
    /\ mqtt = "now"
    /\ DueNow
    /\ mqtt' = "idle"
    /\ args' = NoArgs
    /\ UNCHANGED <<period, length, request, type, scan, back>>

Finish == ModifyRequest \/ ModifyPeriod \/ ModifyNow

Arrive ==
    \/ Poll
    \/ \E l \in Lengths \cup {None}, t \in Types \cup {None},
          p \in Periods \cup {Never, None} : ModifyLength(l, t, p)

\* Time passes. The bound stands for a main loop that comes round in time.
Tick ==
    /\ Alive
    /\ due # Never => due > -MaxLate
    /\ due' = IF due = Never THEN Never ELSE due - 1
    /\ age' = (age + 1) % Wheel
    /\ UNCHANGED <<period, length, request, type, scan, modify,
                   cause, owed, raced, back>>

\* The wall clock is set back, by hand, by NTP or at the end of DST.
SetClockBack ==
    /\ Alive
    /\ \E d \in 1..(MaxBack - back) :
        /\ due' = IF due = Never THEN Never ELSE due + d
        /\ age' = (age - d) % Wheel
        /\ back' = back + d
    /\ UNCHANGED <<period, length, request, type, scan, modify,
                   cause, owed, raced>>

Next == Main \/ SendRaises \/ Arrive \/ Finish \/ Tick \/ SetClockBack

Spec == Init /\ [][Next]_vars

\* The main loop comes round, a command that has begun ends, a connection is
\* not lost at every send for ever, and time passes.
FairSpec ==
    Spec /\ WF_vars(Main) /\ WF_vars(Finish) /\ SF_vars(Send) /\ WF_vars(Tick)

-----------------------------------------------------------------------------
(***************************************************************************)
(* Properties.                                                             *)
(***************************************************************************)
EntryOK ==
    /\ due \in Int \cup {Never}
    /\ period \in Periods \cup {Never}
    /\ length \in Lengths
    /\ request \in Lengths
    /\ type \in Types

ScanOK ==
    /\ pc \in {"rest", "send", "recv", "check", "advance", "expand", "indexError"}
    /\ attempt \in 1..MaxTries
    /\ as \in Types
    /\ asked \in Lengths
    /\ got \in Lengths

CommandOK ==
    /\ mqtt \in {"idle", "request", "period", "now"}
    /\ args \in [length : Lengths \cup {None}, type : Types \cup {None},
                 period : Periods \cup {Never, None}]

HistoryOK ==
    /\ age \in 0..(Wheel - 1)
    /\ cause \in {"added", "asked", "period"}
    /\ owed \in BOOLEAN
    /\ raced \in BOOLEAN
    /\ back \in Nat

\* The types of the variables. An entry stays due for as long as its scan has
\* not advanced next_scan, but for a clock that is set back: a period is only
\* ever added to a time, and the second check fails for the clock alone.
Reading == pc \in {"send", "recv", "check", "advance"}
DueButForTheClock == due # Never /\ due <= back
TypeOK ==
    /\ EntryOK /\ ScanOK /\ CommandOK /\ HistoryOK
    /\ Reading => DueButForTheClock

\* An entry with a period is never put off by more than one of them, whatever
\* polls and modifies fall between the check and the addition; and a clock
\* that is set back puts it off by as much again, until it is scanned once.
LongestWait == IF period > Jitter THEN period ELSE Jitter
NeverPutOff ==
    mqtt = "idle" /\ period # Never /\ due # Never => due <= LongestWait + back

\* The scans keep to the grid of the period, counted from the time next_scan
\* was last set: a late scan does not push the later ones back.
NoDrift ==
    mqtt = "idle" /\ period # Never /\ due # Never => (due + age) % period = 0

\* An entry that is never to be scanned is scanned only because it was added,
\* polled or modified.
OnlyOnRequest ==
    mqtt = "idle" /\ period = Never /\ Due => cause # "period"

\* The values published were asked for by a request of their length: a modify
\* between the request and the response is never decoded into the new shape.
ReadInOneShape == pc \in {"check", "advance", "expand"} => got = asked

\* A poll, or the rescan a modify asks for, stands until a request is sent
\* after it, unless it came while a read was in flight; a clock that is set
\* back puts it off by as much and does not undo it.
RescanStands == owed /\ ~raced => DueButForTheClock

\* poll, in the README: "Trigger an immediate one-off scan". The same without
\* the exception.
PollIsHonoured == owed => DueButForTheClock

\* A poll or modify that stands is read for in the end, unless another comes
\* while that read is in flight or the process ends.
RescansHappen == (owed /\ ~raced) ~> (~owed \/ raced \/ ~Alive)
=============================================================================
