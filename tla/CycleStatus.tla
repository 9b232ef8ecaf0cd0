---------------------------- MODULE CycleStatus ----------------------------
(***************************************************************************)
(* The timing of the gateway's cycles: class Status and the calls the main *)
(* loop makes of it (rr2sp_gateway.py). A cycle records the time at the    *)
(* end of each of its phases; save_last, at its end, takes the recorded    *)
(* times into a window of the last cycles, and means() sums the window up. *)
(* A ConnectionResetError leaves a cycle in its scan phase, with some      *)
(* times recorded and the others those of an earlier cycle.                *)
(*                                                                         *)
(* A mean is modelled by the sum it divides by the window's length, and a  *)
(* relative time in parts of Whole. The clock is assumed not to be set     *)
(* back.                                                                   *)
(***************************************************************************)
EXTENDS Integers, Sequences

CONSTANTS
    Window,     \* stats_window
    None,       \* last_time before the first phase
    MaxTime,    \* bound: the clock
    Whole       \* what stands for 1.0: a common multiple of all durations

ASSUME WindowAssumption == Window \in Nat \ {0}
ASSUME MaxTimeAssumption == MaxTime \in Nat
ASSUME NoneAssumption == None \notin Int
ASSUME WholeAssumption ==
    /\ Whole \in Nat \ {0}
    /\ \A n \in 1..MaxTime : Whole % n = 0

\* TimerType
NOTHING == 0
LIST == 1
STATS == 2
SCAN == 3
STATUS == 4
ALL == 5
Phase == NOTHING..ALL

VARIABLES
    now,        \* the clock
    phase,      \* the phase recorded next; behind ALL: save_last
    times,      \* self.times
    diffs,      \* self.diffs
    last,       \* self.last_time
    firstSave,  \* self.first_save
    window,     \* last_times and last_diffs, a row for each cycle
    published   \* the last status published, or None

vars == <<now, phase, times, diffs, last, firstSave, window, published>>

Row == [times |-> times, diffs |-> diffs]
Filled(row) == [j \in 1..Window |-> row]

Init ==
    /\ now = 0
    /\ phase = NOTHING
    /\ times = [p \in Phase |-> now]
    /\ diffs = [p \in Phase |-> 0]
    /\ last = None
    /\ firstSave = TRUE
    /\ window = Filled(Row)
    /\ published = None

-----------------------------------------------------------------------------
(***************************************************************************)
(* The calls of the main loop.                                             *)
(***************************************************************************)

\* A difference that is taken from the phase before (a mutant of Done).
DoneSincePhase ==
    /\ phase \in Phase
    /\ times' = [times EXCEPT ![phase] = now]
    /\ diffs' = [diffs EXCEPT ![phase] =
                    IF phase = NOTHING THEN 0 ELSE last - times[phase - 1]]
    /\ last' = now
    /\ phase' = phase + 1
    /\ UNCHANGED <<now, firstSave, window, published>>

\* done(what), at the end of the phase.
Done ==
    /\ phase \in Phase
    /\ times' = [times EXCEPT ![phase] = now]
    /\ diffs' = [diffs EXCEPT ![phase] = IF last = None THEN 0 ELSE now - last]
    /\ last' = now
    /\ phase' = phase + 1
    /\ UNCHANGED <<now, firstSave, window, published>>

\* The sum of a column of the window.
Sum(column) ==
    LET upTo[n \in 0..Window] == IF n = 0 THEN 0 ELSE upTo[n - 1] + column[n]
    IN  upTo[Window]

Part(j, p) == window[j].times[p] - window[j].times[p - 1]
Total(j) == window[j].times[ALL] - window[j].times[NOTHING]

\* A mean that starts every phase at the cycle's start (a mutant of MeanOf).
MeanFromStart(p) ==
    Sum([j \in 1..Window |-> window[j].times[p] - window[j].times[NOTHING]])

\* means(): the part of a phase, its share of the cycle, and the total. A
\* cycle that took no time counts with 9999 for each phase.
MeanOf(p) == Sum([j \in 1..Window |-> Part(j, p)])
Share(j, p) == IF Total(j) > 0 THEN (Part(j, p) * Whole) \div Total(j)
               ELSE 9999 * Whole
RelativeMeanOf(p) == Sum([j \in 1..Window |-> Share(j, p)])
TotalMean == Sum([j \in 1..Window |-> Total(j)])

\* The status is published in its phase, when its time has come. (timed, a
\* history field: every cycle of the window took time.)
PublishStatus ==
    /\ phase = STATUS
    /\ published' = [mean |-> [p \in LIST..ALL |-> MeanOf(p)],
                     relMean |-> [p \in LIST..ALL |-> RelativeMeanOf(p)],
                     total |-> TotalMean,
                     timed |-> \A j \in 1..Window : Total(j) > 0]
    /\ UNCHANGED <<now, phase, times, diffs, last, firstSave, window>>

\* A handler that saves the cycle it leaves (a mutant of ConnectionReset).
ConnectionResetSaves ==
    /\ phase = SCAN
    /\ phase' = NOTHING
    /\ window' = Append(Tail(window), Row)
    /\ UNCHANGED <<now, times, diffs, last, firstSave, published>>

\* scan_all raises: the loop connects again and begins a new cycle.
ConnectionReset ==
    /\ phase = SCAN
    /\ phase' = NOTHING
    /\ UNCHANGED <<now, times, diffs, last, firstSave, window, published>>

\* A window that keeps its oldest cycle (a mutant of SaveLast).
SaveLastGrows ==
    /\ phase = ALL + 1
    /\ window' = IF firstSave THEN Filled(Row) ELSE Append(window, Row)
    /\ firstSave' = FALSE
    /\ phase' = NOTHING
    /\ UNCHANGED <<now, times, diffs, last, published>>

\* A window that drops its newest cycle and takes the next in front of it (a
\* mutant of SaveLast).
SaveLastInFront ==
    /\ phase = ALL + 1
    /\ window' = IF firstSave THEN Filled(Row)
                 ELSE <<Row>> \o SubSeq(window, 1, Window - 1)
    /\ firstSave' = FALSE
    /\ phase' = NOTHING
    /\ UNCHANGED <<now, times, diffs, last, published>>

\* save_last. The first fills the window.
SaveLast ==
    /\ phase = ALL + 1
    /\ window' = IF firstSave THEN Filled(Row) ELSE Append(Tail(window), Row)
    /\ firstSave' = FALSE
    /\ phase' = NOTHING
    /\ UNCHANGED <<now, times, diffs, last, published>>

Tick ==
    /\ now < MaxTime
    /\ now' = now + 1
    /\ UNCHANGED <<phase, times, diffs, last, firstSave, window, published>>

Next == Done \/ PublishStatus \/ ConnectionReset \/ SaveLast \/ Tick

Spec == Init /\ [][Next]_vars

-----------------------------------------------------------------------------
(***************************************************************************)
(* Properties.                                                             *)
(***************************************************************************)
RowType == [times : [Phase -> Nat], diffs : [Phase -> Int]]

CycleOK ==
    /\ now \in Nat
    /\ phase \in NOTHING..(ALL + 1)
    /\ times \in [Phase -> Nat]
    /\ diffs \in [Phase -> Int]
    /\ last \in Nat \cup {None}
    /\ firstSave \in BOOLEAN

WindowOK ==
    /\ window \in Seq(RowType)
    /\ Len(window) = Window

TypeOK == CycleOK /\ WindowOK

\* The phases of a saved cycle follow each other in time: no row mixes the
\* times of a cycle that was left in its scan with those of another.
InOrder(row) ==
    \A p, q \in Phase : p <= q => row.times[p] <= row.times[q]
RowsInOrder == \A j \in 1..Window : InOrder(window[j])

\* The two records of a saved cycle agree: the difference kept for a phase is
\* the time from the phase before, though the two are taken from last_time
\* and from times.
Agrees(row) ==
    \A p \in LIST..ALL : row.diffs[p] = row.times[p] - row.times[p - 1]
RowsAgree == \A j \in 1..Window : Agrees(window[j])

\* The cycles of the window follow each other, oldest first, and none is in it
\* twice but the first, which fills it.
CyclesInOrder ==
    \A i, j \in 1..Window : i < j =>
        \/ window[i] = window[j]
        \/ window[i].times[ALL] <= window[j].times[NOTHING]

\* The published means split the mean of the whole: none is negative, and they
\* add up to it. So do the relative ones, which are fractions of the cycles,
\* unless one of the cycles took no time at all.
AddedUp(f) == f[LIST] + f[STATS] + f[SCAN] + f[STATUS] + f[ALL]
MeansSplitTheTotal ==
    published # None =>
        /\ \A p \in LIST..ALL : published.mean[p] >= 0 /\ published.relMean[p] >= 0
        /\ AddedUp(published.mean) = published.total
        /\ published.timed => AddedUp(published.relMean) = Window * Whole
=============================================================================
