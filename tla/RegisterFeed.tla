---------------------------- MODULE RegisterFeed ----------------------------
(***************************************************************************)
(* What a reader of the PLC promises, whatever the protocol under it: a    *)
(* reading attributed to a scan entry is a value that entry held at some   *)
(* moment of the read that produced it, and a reading leaves the cycle's   *)
(* batch only when the whole batch does.                                   *)
(*                                                                         *)
(* SlmpLink implements it when the PLC answers within the socket timeout.  *)
(***************************************************************************)
EXTENDS Naturals

CONSTANTS
    Entries,    \* the scan entries, a set of naturals without 0
    Values      \* what a register block can hold

Idle == 0       \* no read under way

VARIABLES
    mem,        \* mem[e]: what the PLC holds at entry e now
    reading,    \* the entry being read, or Idle
    seen,       \* the values that entry has held since its read began
    batch       \* the readings of the cycle under way

vars == <<mem, reading, seen, batch>>

Init ==
    /\ mem \in [Entries -> Values]
    /\ reading = Idle
    /\ seen = {}
    /\ batch = {}

\* The process in the plant changes a register block.
Write(e, v) ==
    /\ mem' = [mem EXCEPT ![e] = v]
    /\ seen' = IF reading = e THEN seen \cup {v} ELSE seen
    /\ UNCHANGED <<reading, batch>>

Begin(e) ==
    /\ reading = Idle
    /\ reading' = e
    /\ seen' = {mem[e]}
    /\ UNCHANGED <<mem, batch>>

\* The read returns a value its entry held while it ran.
Return(v) ==
    /\ v \in seen
    /\ batch' = batch \cup {[for |-> reading, val |-> v]}
    /\ reading' = Idle
    /\ seen' = {}
    /\ UNCHANGED mem

\* The read is given up: nothing is reported for its entry.
Fail ==
    /\ reading # Idle
    /\ reading' = Idle
    /\ seen' = {}
    /\ UNCHANGED <<mem, batch>>

\* The cycle's readings are handed over, or lost with the connection.
EndCycle ==
    /\ batch' = {}
    /\ reading' = Idle
    /\ seen' = {}
    /\ UNCHANGED mem

Next ==
    \/ \E e \in Entries, v \in Values : Write(e, v)
    \/ \E e \in Entries : Begin(e)
    \/ \E v \in Values : Return(v)
    \/ Fail
    \/ EndCycle

Spec == Init /\ [][Next]_vars
=============================================================================
