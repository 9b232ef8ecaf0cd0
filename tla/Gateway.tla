------------------------------ MODULE Gateway ------------------------------
(***************************************************************************)
(* The two threads of the gateway and the scan list they share.            *)
(*                                                                         *)
(* The main thread (rr2sp_gateway.py, lines 290-327) publishes the list    *)
(* when it is marked as changed, publishes the statistics when they are    *)
(* asked for, and makes one pass over the list per cycle. The MQTT thread  *)
(* runs the commands of on_message on the same RegisterScanner. There is   *)
(* no lock: a thread can lose the interpreter at every call and at every   *)
(* turn of a loop, so a command is the sequence of its assignments and     *)
(* list() the sequence of its rows.                                        *)
(*                                                                         *)
(* A scan entry is an object both threads hold references to: regs is the  *)
(* list of the objects' numbers and obj what each object holds.            *)
(* Abstracted: the type field, which is set, matched and listed like       *)
(* length and period; the clock, in ScanEntry; the read itself, in         *)
(* SlmpLink.                                                               *)
(***************************************************************************)
EXTENDS Naturals, SequencesExt

CONSTANTS
    Starts,         \* register addresses
    Lengths,        \* the lengths a command may carry
    Encodable,      \* those that fit the request's 16-bit field
    Periods,        \* the periods a command may carry
    None,           \* an argument that is absent
    Lossy,          \* whether a published list may be lost
    InitialRows,    \* the rows of the CSV scan list, without repetition
    MaxCommands     \* bound: the commands that arrive in a behaviour

Row == [start : Starts, length : Lengths, period : Periods]
Object == [start : Starts, length : Lengths, period : Periods,
           request : Encodable]

ASSUME EncodableAssumption == Encodable \subseteq Lengths
ASSUME NoneAssumption == None \notin Lengths \cup Periods
ASSUME LossyAssumption == Lossy \in BOOLEAN
ASSUME InitialRowsAssumption ==
    /\ InitialRows \in Seq([start : Starts, length : Encodable, period : Periods])
    /\ \A i, j \in 1..Len(InitialRows) : InitialRows[i] = InitialRows[j] => i = j
ASSUME MaxCommandsAssumption == MaxCommands \in Nat

VARIABLES
    pc,             \* where the main thread is in its cycle
    i,              \* the list iterator of list() or scan_all
    row,            \* the row list() is building: its object and its length
    rows,           \* registers_list; then x, the list about to be published
    published,      \* the last list published to status/registers
    regs,           \* registers_to_scan
    obj,            \* the entries ever made
    changed,        \* the flag list() clears
    statsToPublish, \* the flag stats_as_dict() clears
    mqtt,           \* where the MQTT thread is in a command
    target,         \* the object and the period modify is at
    commands,       \* commands that may still arrive
    missed,         \* (history) a change list() may have missed, or a list
                    \* that was lost on its way to the broker
    listOwed,       \* (history) a list command no list() has ended after
    statsOwed,      \* (history) the same for statistics
    visited,        \* (history) the objects scanned in this pass
    shifted         \* (history) the list moved under this pass

main == <<pc, i, row, rows, published>>
scanner == <<regs, obj, changed, statsToPublish>>
thread == <<mqtt, target, commands>>
history == <<missed, listOwed, statsOwed, visited, shifted>>
vars == <<main, scanner, thread, history>>

-----------------------------------------------------------------------------
(***************************************************************************)
(* The list.                                                               *)
(***************************************************************************)
Made(r) == [start |-> r.start, length |-> r.length, period |-> r.period,
            request |-> r.length]
RowOf(o) == [start |-> o.start, length |-> o.length, period |-> o.period]

\* The rows of the first k entries as they are now.
RowsUpTo(k) == [j \in 1..k |-> RowOf(obj[regs[j]])]
CurrentRows == RowsUpTo(Len(regs))

\* __eq__ against an entry built from arguments some of which are None.
Matches(o, start, length, period) ==
    /\ o.start = start
    /\ length \in {None, o.length}
    /\ period \in {None, o.period}

\* The index of the first entry that matches, 0 if there is none.
Find(start, length, period) ==
    SelectInSeq(regs, LAMBDA e : Matches(obj[e], start, length, period))

\* find() builds an entry from its arguments, request included, and raises
\* when the length does not fit.
CanBuild(length) == length \in Encodable \cup {None}

\* The length is set, and then the request is built for it or the build raises.
Resized(o, length) ==
    [o EXCEPT !.length = length,
              !.request = IF CanBuild(length) THEN length ELSE o.request]

Init ==
    /\ pc = "check"
    /\ i = 1
    /\ row = [id |-> 0, length |-> None]
    /\ rows = <<>>
    /\ published = <<>>
    /\ obj = [j \in 1..Len(InitialRows) |-> Made(InitialRows[j])]
    /\ regs = [j \in 1..Len(InitialRows) |-> j]
    /\ changed = TRUE
    /\ statsToPublish = FALSE
    /\ mqtt = "idle"
    /\ target = [id |-> 0, period |-> None]
    /\ commands = MaxCommands
    /\ missed = FALSE
    /\ listOwed = FALSE
    /\ statsOwed = FALSE
    /\ visited = {}
    /\ shifted = FALSE

-----------------------------------------------------------------------------
(***************************************************************************)
(* The main thread.                                                        *)
(***************************************************************************)

\* if rs.is_changed(): the iteration of list() starts.
CheckList ==
    /\ pc = "check"
    /\ IF changed
       THEN /\ pc' = "list"
            /\ i' = 1
            /\ rows' = <<>>
            /\ missed' = FALSE
       ELSE /\ pc' = "checkStats"
            /\ UNCHANGED <<i, rows, missed>>
    /\ UNCHANGED <<row, published, scanner, thread, listOwed, statsOwed,
                   visited, shifted>>

\* as_dict reads the fields of one entry one after the other.
ListLength ==
    /\ pc = "list"
    /\ i <= Len(regs)
    /\ row' = [id |-> regs[i], length |-> obj[regs[i]].length]
    /\ pc' = "row"
    /\ UNCHANGED <<i, rows, published, scanner, thread, history>>

ListPeriod ==
    /\ pc = "row"
    /\ rows' = Append(rows, [start |-> obj[row.id].start,
                             length |-> row.length,
                             period |-> obj[row.id].period])
    /\ i' = i + 1
    /\ pc' = "list"
    /\ UNCHANGED <<row, published, scanner, thread, history>>

\* The iterator is exhausted and the flag is cleared: nothing between the
\* two lets the other thread in (CPython 3.10 on).
ListEnd ==
    /\ pc = "list"
    /\ i > Len(regs)
    /\ changed' = FALSE
    /\ listOwed' = FALSE
    /\ pc' = "publish"
    /\ UNCHANGED <<i, row, rows, published, regs, obj, statsToPublish, thread,
                   missed, statsOwed, visited, shifted>>

\* A publication that clears the flag, as if list() did not (a mutant of
\* PublishList).
LatePublishList ==
    /\ pc = "publish"
    /\ published' = rows
    /\ changed' = FALSE
    /\ pc' = "checkStats"
    /\ UNCHANGED <<i, row, rows, regs, obj, statsToPublish, thread, history>>

PublishList ==
    /\ pc = "publish"
    /\ published' = rows
    /\ pc' = "checkStats"
    /\ UNCHANGED <<i, row, rows, scanner, thread, history>>

\* The same with the message lost: publish is of QoS 0, and nothing looks at
\* what it returns.
PublishListLost ==
    /\ Lossy
    /\ pc = "publish"
    /\ missed' = TRUE
    /\ pc' = "checkStats"
    /\ UNCHANGED <<i, row, rows, published, scanner, thread, listOwed, statsOwed,
                   visited, shifted>>

\* A pass that begins behind the first entry (a mutant of StartPass).
StartPassLate ==
    /\ pc' = "scan"
    /\ i' = 2
    /\ visited' = {}
    /\ shifted' = FALSE

\* scan_all takes a new iterator over the list.
StartPass ==
    /\ pc' = "scan"
    /\ i' = 1
    /\ visited' = {}
    /\ shifted' = FALSE

\* if rs.is_stats_to_publish(): stats_as_dict() reads the entries.
CheckStats ==
    /\ pc = "checkStats"
    /\ IF statsToPublish
       THEN pc' = "stats" /\ UNCHANGED <<i, visited, shifted>>
       ELSE StartPass
    /\ UNCHANGED <<row, rows, published, scanner, thread,
                   missed, listOwed, statsOwed>>

StatsEnd ==
    /\ pc = "stats"
    /\ statsToPublish' = FALSE
    /\ statsOwed' = FALSE
    /\ pc' = "publishStats"
    /\ UNCHANGED <<i, row, rows, published, regs, obj, changed, thread,
                   missed, listOwed, visited, shifted>>

PublishStats ==
    /\ pc = "publishStats"
    /\ StartPass
    /\ UNCHANGED <<row, rows, published, scanner, thread,
                   missed, listOwed, statsOwed>>

\* scan_all takes the next entry of the list, whatever the list is by now.
ScanNext ==
    /\ pc = "scan"
    /\ i <= Len(regs)
    /\ visited' = visited \cup {regs[i]}
    /\ i' = i + 1
    /\ UNCHANGED <<pc, row, rows, published, scanner, thread,
                   missed, listOwed, statsOwed, shifted>>

ScanEnd ==
    /\ pc = "scan"
    /\ i > Len(regs)
    /\ pc' = "mark"
    /\ UNCHANGED <<i, row, rows, published, scanner, thread, history>>

\* ConnectionResetError leaves the pass; the main loop reconnects and starts
\* a cycle from its head.
ScanReset ==
    /\ pc = "scan"
    /\ i > 1
    /\ pc' = "check"
    /\ UNCHANGED <<i, row, rows, published, scanner, thread, history>>

\* The end of the cycle: the statistics timer may be due.
EndCycle ==
    /\ pc = "mark"
    /\ statsToPublish' \in {statsToPublish, TRUE}
    /\ pc' = "check"
    /\ UNCHANGED <<i, row, rows, published, regs, obj, changed, thread, history>>

Main ==
    \/ CheckList \/ ListLength \/ ListPeriod \/ ListEnd \/ PublishList
    \/ PublishListLost
    \/ CheckStats \/ StatsEnd \/ PublishStats
    \/ ScanNext \/ ScanEnd \/ ScanReset \/ EndCycle

-----------------------------------------------------------------------------
(***************************************************************************)
(* The MQTT thread: one command at a time, in the order of its writes.     *)
(***************************************************************************)
Command == mqtt = "idle" /\ commands > 0 /\ commands' = commands - 1

\* list() has gone past the entry, or is past reading its length.
Passed(k) == pc \in {"list", "row"} /\ k < i
AtRow(k) == pc = "row" /\ k = i

\* An append that takes an entry found at the head of the list for one not
\* found (a mutant of AppendCmd).
AppendUnlessFoundLater(s, l, p) ==
    /\ Command
    /\ CanBuild(l)
    /\ Find(s, l, p) <= 1
    /\ obj' = Append(obj, Made([start |-> s, length |-> l, period |-> p]))
    /\ regs' = Append(regs, Len(obj) + 1)
    /\ mqtt' = "mark"
    /\ UNCHANGED <<main, changed, statsToPublish, target, history>>

\* An append that takes the entry before its request could be built (a mutant
\* of AppendCmd).
AppendUnbuilt(s, l, p) ==
    /\ Command
    /\ Find(s, l, p) = 0
    /\ obj' = Append(obj, Made([start |-> s, length |-> l, period |-> p]))
    /\ regs' = Append(regs, Len(obj) + 1)
    /\ mqtt' = "mark"
    /\ UNCHANGED <<main, changed, statsToPublish, target, history>>

\* An append at the head of the list (a mutant of AppendCmd).
AppendAtHead(s, l, p) ==
    /\ Command
    /\ CanBuild(l)
    /\ Find(s, l, p) = 0
    /\ obj' = Append(obj, Made([start |-> s, length |-> l, period |-> p]))
    /\ regs' = <<Len(obj) + 1>> \o regs
    /\ mqtt' = "mark"
    /\ UNCHANGED <<main, changed, statsToPublish, target, history>>

\* append: the entry is built, found to be new, and added; then the flag.
\* An argument that is missing, or a length that does not fit, ends the
\* command before anything is written.
AppendCmd(s, l, p) ==
    /\ Command
    /\ CanBuild(l)
    /\ Find(s, l, p) = 0
    /\ obj' = Append(obj, Made([start |-> s, length |-> l, period |-> p]))
    /\ regs' = Append(regs, Len(obj) + 1)
    /\ mqtt' = "mark"
    /\ UNCHANGED <<main, changed, statsToPublish, target, history>>

\* A removal that does not mark the list (a mutant of RemoveCmd).
RemoveWithoutMark(s, l, p) ==
    /\ Command
    /\ CanBuild(l)
    /\ \E k \in DOMAIN regs :
        /\ k = Find(s, l, p)
        /\ regs' = RemoveAt(regs, k)
        /\ missed' = (missed \/ Passed(k) \/ AtRow(k))
        /\ shifted' = (shifted \/ (pc = "scan" /\ k < i))
    /\ UNCHANGED <<main, obj, changed, statsToPublish, target, mqtt,
                   listOwed, statsOwed, visited>>

\* remove: the first entry that matches is popped; then the flag. An entry
\* popped under the iterator moves the later ones down.
RemoveCmd(s, l, p) ==
    /\ Command
    /\ CanBuild(l)
    /\ \E k \in DOMAIN regs :
        /\ k = Find(s, l, p)
        /\ regs' = RemoveAt(regs, k)
        /\ missed' = (missed \/ Passed(k) \/ AtRow(k))
        /\ shifted' = (shifted \/ (pc = "scan" /\ k < i))
    /\ mqtt' = "mark"
    /\ UNCHANGED <<main, obj, changed, statsToPublish, target,
                   listOwed, statsOwed, visited>>

\* modify: the first entry at the address, by reconfigure. A length that does
\* not fit leaves the entry with the old request, and the flag is never set.
ModifyCmd(s, l, p) ==
    /\ Command
    /\ ~(l = None /\ p = None)
    /\ \E k \in DOMAIN regs :
        /\ k = Find(s, None, None)
        /\ target' = [id |-> regs[k], period |-> p]
        /\ IF l = None
           THEN UNCHANGED <<obj, missed>>
           ELSE /\ obj' = [obj EXCEPT ![regs[k]] = Resized(obj[regs[k]], l)]
                /\ missed' = (missed \/ Passed(k) \/ AtRow(k) \/ ~CanBuild(l))
    /\ mqtt' = IF CanBuild(l) THEN "period" ELSE "idle"
    /\ UNCHANGED <<main, regs, changed, statsToPublish,
                   listOwed, statsOwed, visited, shifted>>

\* A modify that does not mark the list (a mutant of ModifyEnd).
ModifyWithoutMark ==
    /\ mqtt = "period"
    /\ IF target.period = None
       THEN UNCHANGED obj
       ELSE obj' = [obj EXCEPT ![target.id].period = target.period]
    /\ missed' = (missed \/ \E k \in DOMAIN regs :
                                regs[k] = target.id /\ Passed(k))
    /\ mqtt' = "idle"
    /\ UNCHANGED <<main, regs, changed, statsToPublish, target, commands,
                   listOwed, statsOwed, visited, shifted>>

\* The second half of reconfigure.
ModifyEnd ==
    /\ mqtt = "period"
    /\ IF target.period = None
       THEN UNCHANGED obj
       ELSE obj' = [obj EXCEPT ![target.id].period = target.period]
    /\ missed' = (missed \/ \E k \in DOMAIN regs :
                                regs[k] = target.id /\ Passed(k))
    /\ mqtt' = "mark"
    /\ UNCHANGED <<main, regs, changed, statsToPublish, target, commands,
                   listOwed, statsOwed, visited, shifted>>

\* self.changed = True, the last write of append, remove and modify.
Mark ==
    /\ mqtt = "mark"
    /\ changed' = TRUE
    /\ mqtt' = "idle"
    /\ UNCHANGED <<main, regs, obj, statsToPublish, target, commands, history>>

ListCmd ==
    /\ Command
    /\ changed' = TRUE
    /\ listOwed' = TRUE
    /\ UNCHANGED <<main, regs, obj, statsToPublish, mqtt, target,
                   missed, statsOwed, visited, shifted>>

StatsCmd ==
    /\ Command
    /\ statsToPublish' = TRUE
    /\ statsOwed' = TRUE
    /\ UNCHANGED <<main, regs, obj, changed, mqtt, target,
                   missed, listOwed, visited, shifted>>

Arrive ==
    \/ \E s \in Starts, l \in Lengths, p \in Periods : AppendCmd(s, l, p)
    \/ \E s \in Starts, l \in Lengths \cup {None}, p \in Periods \cup {None} :
          RemoveCmd(s, l, p) \/ ModifyCmd(s, l, p)
    \/ ListCmd \/ StatsCmd

Finish == ModifyEnd \/ Mark

Next == Main \/ Arrive \/ Finish

Spec == Init /\ [][Next]_vars

\* The main loop never waits for a command, and a command that has begun
\* runs to its end; nobody owes a command.
FairSpec == Spec /\ WF_vars(Main) /\ WF_vars(Finish)

-----------------------------------------------------------------------------
(***************************************************************************)
(* Properties.                                                             *)
(***************************************************************************)
FlagsOK == {changed, statsToPublish, missed, listOwed, statsOwed, shifted}
             \subseteq BOOLEAN

ListOK ==
    /\ i \in Nat \ {0}
    /\ obj \in Seq(Object)
    /\ regs \in Seq(1..Len(obj))
    /\ rows \in Seq(Row)
    /\ published \in Seq(Row)
    /\ visited \subseteq DOMAIN obj

ThreadsOK ==
    /\ pc \in {"check", "list", "row", "publish", "checkStats", "stats",
               "publishStats", "scan", "mark"}
    /\ row.length \in Lengths \cup {None}
    /\ pc = "row" => row.id \in DOMAIN obj /\ row.length \in Lengths
    /\ mqtt \in {"idle", "period", "mark"}
    /\ mqtt = "period" => /\ target.id \in DOMAIN obj
                          /\ target.period \in Periods \cup {None}
    /\ commands \in 0..MaxCommands

\* The types of the variables: the list names objects that exist, and an
\* iterator or a half-done modify holds one.
TypeOK == FlagsOK /\ ListOK /\ ThreadsOK

Listing == pc \in {"list", "row", "publish"}

\* What a subscriber knows is what the gateway scans: when no list is being
\* built, no command is under way and the flag is down, the last published
\* list is the current one. The exception, missed, is exactly a change to a
\* row list() had already read, an entry popped from under its iterator, a
\* reconfigure that raised half-way, or the loss of the very message; and it
\* lasts until the next list only.
PublishedIsCurrent ==
    ~Listing /\ mqtt = "idle" /\ ~changed /\ ~missed => published = CurrentRows

\* Why PublishedIsCurrent holds, as an inductive invariant: no entry is in
\* the list twice; while list() runs, the rows read so far are those of the
\* entries before the iterator, and the length read is that of the entry at
\* it; and the rows that are complete, on their way to the broker or there,
\* are the list's once nobody owes a flag.
RowsAgree(s, k) ==
    /\ Len(s) = k
    /\ k <= Len(regs)
    /\ \A j \in 1..k : s[j] = RowOf(obj[regs[j]])

Distinct == \A j, k \in 1..Len(regs) : regs[j] = regs[k] => j = k
ReadAgrees == pc \in {"list", "row"} /\ ~missed => RowsAgree(rows, i - 1)
RowAgrees == pc = "row" /\ ~missed => /\ i <= Len(regs)
                                     /\ row.id = regs[i]
                                     /\ row.length = obj[regs[i]].length
BuiltAgrees ==
    pc = "publish" /\ mqtt = "idle" /\ ~changed /\ ~missed =>
        RowsAgree(rows, Len(regs))
PublishedAgrees ==
    ~Listing /\ mqtt = "idle" /\ ~changed /\ ~missed =>
        RowsAgree(published, Len(regs))

PublicationInv ==
    Distinct /\ ReadAgrees /\ RowAgrees /\ BuiltAgrees /\ PublishedAgrees

\* mark_as_changed's docstring: "Set the changed flag so the current scan
\* list is published on the next cycle". The same without the exception.
QuiescentListIsCurrent ==
    ~Listing /\ mqtt = "idle" /\ ~changed => published = CurrentRows

\* A list or stats command that arrives at any point of the cycle, the
\* building and the publication of an earlier answer included, is followed
\* by an answer whose making ends after the command.
RequestsAnswered == (listOwed ~> ~listOwed) /\ (statsOwed ~> ~statsOwed)

\* A pass misses an entry only when an earlier one was removed under it.
PassesCoverTheList ==
    pc = "scan" /\ ~shifted => \A k \in DOMAIN regs : k < i => regs[k] \in visited

\* No command makes a pass read an entry twice.
NoEntryTwice == [][ScanNext => regs[i] \notin visited]_vars

\* append never adds a row the list already has, whatever modify has made of
\* the entries since.
AppendsAreNew ==
    [][Len(regs') > Len(regs) =>
         \A k \in DOMAIN regs : RowOf(obj[regs[k]]) # RowOf(obj'[regs'[Len(regs')]])
      ]_vars
=============================================================================
