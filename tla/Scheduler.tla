----------------------------- MODULE Scheduler -----------------------------
(***************************************************************************)
(* The scheduling client (scheduling_mqtt_client.py) and the gateway, the  *)
(* broker between them.                                                    *)
(*                                                                         *)
(* The network thread classifies each value that arrives and, when all     *)
(* monitors have come to one label, publishes that label's command. The    *)
(* main thread subscribes the monitors and then publishes the command of   *)
(* "N". No message is kept by the broker for a later subscriber.           *)
(*                                                                         *)
(* Abstracted: the gateway is the entry the commands modify and the values *)
(* it publishes; there is one command a label, as in the client's main     *)
(* block, and it stands for the period it carries. All registers have the  *)
(* same thresholds.                                                        *)
(***************************************************************************)
EXTENDS Integers, Sequences, FiniteSets

CONSTANTS
    N,              \* the number of registers that are monitored
    Values,         \* what a register can hold
    Labels,         \* the labels, in the order of their bands
    Thresholds,     \* the bounds between the bands
    PeriodFor,      \* the period the command of a label carries
    FilePeriod,     \* the period in the gateway's scan list file
    Faults,         \* which of "restart", "disconnect" (the gateway's
                    \* connection) and "reconnect" (the scheduler's) may happen
    MaxValues,      \* bound: values of one register on the way
    MaxCommands     \* bound: commands on the way

Registers == 1..N
Label == {Labels[b] : b \in DOMAIN Labels}
Commanded == DOMAIN PeriodFor
Period == {FilePeriod} \cup {PeriodFor[l] : l \in Commanded}

ASSUME ValuesAssumption == Values \subseteq Int
ASSUME BandsAssumption ==
    /\ Thresholds \in Seq(Int)
    /\ Labels \in Seq(STRING)
    /\ Len(Labels) = Len(Thresholds) + 1
    /\ \A b, c \in DOMAIN Thresholds : b < c => Thresholds[b] <= Thresholds[c]
ASSUME NAssumption == N \in Nat \ {0}
ASSUME NormalAssumption == "N" \in Label /\ "N" \in Commanded
ASSUME BoundsAssumption == MaxValues \in Nat \ {0} /\ MaxCommands \in Nat \ {0}

VARIABLES
    held,           \* what each register of the PLC holds
    period,         \* the period the gateway reads them with
    link,           \* the gateway's connection to the broker
    toScheduler,    \* values the network thread has not come to yet
    toGateway,      \* commands the gateway has not come to yet, at the
                    \* broker or still before it
    state,          \* RegisterMonitor.state
    main,           \* where the scheduler's main thread is
    k,              \* the monitor its loop over them is at
    subscribed,     \* the registers the broker sends on
    undone          \* (history) what the labels last asked for was undone by
                    \* the command of "N" at the start, by a restart, or because
                    \* its command was lost on a gateway without subscription

gateway == <<held, period, link>>
monitors == <<main, k, subscribed>>
vars == <<gateway, toScheduler, toGateway, state, monitors, undone>>

Init ==
    /\ held \in [Registers -> Values]
    /\ period = FilePeriod
    /\ link = "subscribed"
    /\ toScheduler = <<>>
    /\ toGateway = <<>>
    /\ state = [r \in Registers |-> "N"]
    /\ main = "subscribe"
    /\ k = 1
    /\ subscribed = {}
    /\ undone = FALSE

-----------------------------------------------------------------------------
(***************************************************************************)
(* The scheduler's main thread.                                            *)
(***************************************************************************)

\* subscribe_to_mqtt: the subscription, and then the handler. A value that
\* comes between them finds no handler.
Subscribe ==
    /\ main = "subscribe"
    /\ subscribed' = subscribed \cup {k}
    /\ main' = "handler"
    /\ UNCHANGED <<gateway, toScheduler, toGateway, state, k, undone>>

Handled == 1..(k - 1)

\* A loop over the monitors that leaves out the last (a mutant of
\* AddHandler).
AddHandlerOffByOne ==
    /\ main = "handler"
    /\ k' = k + 1
    /\ main' = IF k' >= N THEN "start" ELSE "subscribe"
    /\ UNCHANGED <<gateway, toScheduler, toGateway, state, subscribed, undone>>

AddHandler ==
    /\ main = "handler"
    /\ k' = k + 1
    /\ main' = IF k = N THEN "start" ELSE "subscribe"
    /\ UNCHANGED <<gateway, toScheduler, toGateway, state, subscribed, undone>>

AllIn(s, l) == \A r \in Registers : s[r] = l

\* run_commands("N").
Start ==
    /\ main = "start"
    /\ Len(toGateway) < MaxCommands
    /\ toGateway' = Append(toGateway, PeriodFor["N"])
    /\ undone' = ~AllIn(state, "N")
    /\ main' = "running"
    /\ UNCHANGED <<gateway, toScheduler, state, k, subscribed>>

-----------------------------------------------------------------------------
(***************************************************************************)
(* The scheduler's network thread.                                         *)
(***************************************************************************)

\* check_value: the first band whose upper bound the value is below. The
\* bounds ascend, so the bounds before it are those the value has reached.
Reached(v) == {b \in DOMAIN Thresholds : v >= Thresholds[b]}
LabelOf(v) == Labels[Cardinality(Reached(v)) + 1]

\* The labels as they were before the change (a mutant of
\* RegisterStateChanged).
RegisterAboutToChange(s, r) ==
    toGateway' = IF AllIn(state, s[r]) /\ s[r] \in Commanded
                 THEN Append(toGateway, PeriodFor[s[r]]) ELSE toGateway

\* register_state_changed: are all labels the one of the register that has
\* changed?
RegisterStateChanged(s, r) ==
    toGateway' = IF AllIn(s, s[r]) /\ s[r] \in Commanded
                 THEN Append(toGateway, PeriodFor[s[r]]) ELSE toGateway

\* The monitor reports the first of its labels only (a mutant of Deliver).
DeliverOnce ==
    /\ toScheduler # <<>>
    /\ Len(toGateway) < MaxCommands
    /\ LET m == Head(toScheduler)
           s == [state EXCEPT ![m.register] = LabelOf(m.value)]
       IN  IF m.register \in Handled /\ state[m.register] = "N" /\ s # state
           THEN /\ state' = s
                /\ RegisterStateChanged(s, m.register)
                /\ undone' = FALSE
           ELSE UNCHANGED <<state, toGateway, undone>>
    /\ toScheduler' = Tail(toScheduler)
    /\ UNCHANGED <<gateway, monitors>>

\* A value arrives.
Deliver ==
    /\ toScheduler # <<>>
    /\ Len(toGateway) < MaxCommands
    /\ LET m == Head(toScheduler)
           s == [state EXCEPT ![m.register] = LabelOf(m.value)]
       IN  IF m.register \in Handled /\ s # state
           THEN /\ state' = s
                /\ RegisterStateChanged(s, m.register)
                /\ undone' = FALSE
           ELSE UNCHANGED <<state, toGateway, undone>>
    /\ toScheduler' = Tail(toScheduler)
    /\ UNCHANGED <<gateway, monitors>>

-----------------------------------------------------------------------------
(***************************************************************************)
(* The gateway, and the plant behind it.                                   *)
(***************************************************************************)
Write(r, v) ==
    /\ held' = [held EXCEPT ![r] = v]
    /\ UNCHANGED <<period, link, toScheduler, toGateway, state, monitors, undone>>

OnTheWay(r) == SelectSeq(toScheduler, LAMBDA m : m.register = r)

\* A scan of the register, and its publication, sent on to a subscriber. A
\* scan nobody is subscribed to changes nothing here, and so does one whose
\* publication is lost: it has QoS 0, and without a connection it is not even
\* kept.
Publish(r) ==
    /\ link # "lost"
    /\ r \in subscribed
    /\ Len(OnTheWay(r)) < MaxValues
    /\ toScheduler' =
          Append(toScheduler, [register |-> r, value |-> held[r]])
    /\ UNCHANGED <<gateway, toGateway, state, monitors, undone>>

\* The oldest command: modify sets the period.
Modify ==
    /\ link = "subscribed"
    /\ toGateway # <<>>
    /\ period' = Head(toGateway)
    /\ toGateway' = Tail(toGateway)
    /\ UNCHANGED <<held, link, toScheduler, state, monitors, undone>>

\* The gateway is started again: it reads its scan list file, and has to
\* connect.
Restart ==
    /\ "restart" \in Faults
    /\ period' = FilePeriod
    /\ link' = "lost"
    /\ undone' = (undone \/ toGateway = <<>>)
    /\ UNCHANGED <<held, toScheduler, toGateway, state, monitors>>

\* The gateway's connection is lost. Its client has no name, so its session is
\* a clean one: the broker forgets the subscription with it.
Disconnect ==
    /\ "disconnect" \in Faults
    /\ link # "lost"
    /\ link' = "lost"
    /\ UNCHANGED <<held, period, toScheduler, toGateway, state, monitors, undone>>

\* The client's thread connects again, and on_connect subscribes again.
Connect ==
    /\ link = "lost"
    /\ link' = "connected"
    /\ UNCHANGED <<held, period, toScheduler, toGateway, state, monitors, undone>>

OnConnect ==
    /\ link = "connected"
    /\ link' = "subscribed"
    /\ UNCHANGED <<held, period, toScheduler, toGateway, state, monitors, undone>>

-----------------------------------------------------------------------------
(***************************************************************************)
(* The broker.                                                             *)
(***************************************************************************)

\* The oldest command reaches a broker that has nobody to send it to, or was on
\* its way from there to the gateway when the connection was lost. The period
\* it would have set is missed unless a newer command follows.
LoseCommand ==
    /\ link # "subscribed"
    /\ toGateway # <<>>
    /\ toGateway' = Tail(toGateway)
    /\ undone' = (undone \/ Len(toGateway) = 1)
    /\ UNCHANGED <<gateway, toScheduler, state, monitors>>

\* The scheduler's connection is lost and comes back: a clean session, and an
\* on_connect that does not subscribe. Commands have QoS 2 and are sent again.
Reconnect ==
    /\ "reconnect" \in Faults
    /\ subscribed # {}
    /\ subscribed' = {}
    /\ toScheduler' = <<>>
    /\ UNCHANGED <<gateway, toGateway, state, main, k, undone>>

-----------------------------------------------------------------------------
SchedulerMain == Subscribe \/ AddHandler \/ Start

Next ==
    \/ SchedulerMain
    \/ Deliver
    \/ \E r \in Registers, v \in Values : Write(r, v)
    \/ \E r \in Registers : Publish(r)
    \/ Modify \/ Restart
    \/ Disconnect \/ Connect \/ OnConnect
    \/ LoseCommand
    \/ Reconnect

Spec == Init /\ [][Next]_vars

\* Both programs keep running, the gateway has a period to scan with, and the
\* broker sends on what it has.
FairSpec ==
    /\ Spec
    /\ WF_vars(SchedulerMain)
    /\ WF_vars(Deliver)
    /\ WF_vars(Modify)
    /\ WF_vars(OnConnect)
    /\ \A r \in Registers : WF_vars(Publish(r))

-----------------------------------------------------------------------------
(***************************************************************************)
(* Properties.                                                             *)
(***************************************************************************)
GatewayOK ==
    /\ held \in [Registers -> Values]
    /\ period \in Period
    /\ link \in {"lost", "connected", "subscribed"}

ChannelsOK ==
    /\ toScheduler \in Seq([register : Registers, value : Values])
    /\ toGateway \in Seq(Period)

MonitorsOK ==
    /\ state \in [Registers -> Label]
    /\ main \in {"subscribe", "handler", "start", "running"}
    /\ k \in 1..(N + 1)
    /\ subscribed \subseteq Registers
    /\ undone \in BOOLEAN

\* The types of the variables. The loop over the monitors ends behind the last.
TypeOK ==
    /\ GatewayOK /\ ChannelsOK /\ MonitorsOK
    /\ k = N + 1 <=> main \in {"start", "running"}

\* The period the gateway will have when it has come to every command.
Coming == IF toGateway = <<>> THEN period ELSE toGateway[Len(toGateway)]

\* When all monitors have one label and the label has a command, the gateway
\* has the period of that command, or will when it has come to the commands
\* on the way, unless one of three events undid it since the labels last
\* changed: a restart, the command of "N" at the start, or the loss of the
\* command on a gateway without subscription. No change of label goes
\* unanswered, none is overtaken by an older one, and the next change of a
\* label makes good what was lost.
PeriodFollowsLabels ==
    \A l \in Commanded :
        main = "running" /\ ~undone /\ AllIn(state, l) => Coming = PeriodFor[l]

\* The README of the example in the main block: it "adjusts its polling period
\* to `1500 ms` (`HH`), `15000 ms` (`H`), or `150000 ms` (`N`)". The same
\* without the exception.
PeriodIsAdjusted ==
    \A l \in Commanded :
        main = "running" /\ AllIn(state, l) => Coming = PeriodFor[l]

\* A value the register keeps is classified in the end, once its monitor is
\* subscribed and unless the subscription is lost with the scheduler's
\* connection, if the gateway's connection is not lost time and again.
ValuesAreHeard ==
    \A r \in Registers, v \in Values :
        <>[](link # "lost") =>
            ((main = "running" /\ held[r] = v)
                ~> (state[r] = LabelOf(v) \/ held[r] # v \/ r \notin subscribed))
=============================================================================
