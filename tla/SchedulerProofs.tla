-------------------------- MODULE SchedulerProofs --------------------------
(***************************************************************************)
(* Theorems about Scheduler for every number of monitors, every bands and  *)
(* commands, and every bound on what is on the way.                        *)
(***************************************************************************)
EXTENDS Scheduler, TLAPS, SequenceTheorems, FiniteSetTheorems

-----------------------------------------------------------------------------
(***************************************************************************)
(* Type correctness.                                                       *)
(***************************************************************************)

\* Every value has a label.
LEMMA LabelType ==
    ASSUME NEW v
    PROVE  LabelOf(v) \in Label
<1> DEFINE n == Len(Thresholds)
<1>1. n \in Nat /\ DOMAIN Thresholds = 1..n
  BY BandsAssumption
<1>2. IsFiniteSet(1..n) /\ Cardinality(1..n) = n
  <2>1. 1 \in Int /\ n \in Int /\ (1 <= n \/ n = 0)
    BY <1>1
  <2> QED BY <1>1, <2>1, FS_Interval
<1>3. Reached(v) \subseteq 1..n
  BY <1>1 DEF Reached
<1>4. IsFiniteSet(Reached(v)) /\ Cardinality(Reached(v)) <= n
  BY <1>2, <1>3, FS_Subset
<1>5. Cardinality(Reached(v)) \in Nat
  BY <1>4, FS_CardinalityType
<1>6. Cardinality(Reached(v)) + 1 \in DOMAIN Labels
  BY <1>1, <1>4, <1>5, BandsAssumption
<1> QED BY <1>6 DEF LabelOf, Label

LEMMA PeriodType == \A l \in Commanded : PeriodFor[l] \in Period
BY DEF Period

LEMMA InitTypes == Init => TypeOK
<1> SUFFICES ASSUME Init PROVE TypeOK
  OBVIOUS
<1>1. GatewayOK
  BY DEF Init, GatewayOK, Period
<1>2. ChannelsOK
  BY EmptySeq DEF Init, ChannelsOK
<1>3. MonitorsOK
  <2>1. state \in [Registers -> Label]
    BY NormalAssumption DEF Init
  <2>2. k \in 1..(N + 1)
    BY NAssumption DEF Init
  <2> QED BY <2>1, <2>2 DEF Init, MonitorsOK
<1>4. k # N + 1 /\ main = "subscribe"
  BY NAssumption DEF Init
<1> QED BY <1>1, <1>2, <1>3, <1>4 DEF TypeOK

LEMMA DeliverTypes ==
    ASSUME TypeOK, Deliver
    PROVE  TypeOK'
<1>1. GatewayOK /\ ChannelsOK /\ MonitorsOK
  BY DEF TypeOK
<1>2. UNCHANGED <<held, period, link, main, k, subscribed>>
  BY DEF Deliver, gateway, monitors
<1>3. Head(toScheduler) \in [register : Registers, value : Values]
      /\ toScheduler' \in Seq([register : Registers, value : Values])
  BY <1>1, HeadTailProperties DEF Deliver, ChannelsOK
<1>4. state' \in [Registers -> Label]
  BY <1>1, <1>3, LabelType DEF Deliver, MonitorsOK
<1>5. toGateway' \in Seq(Period)
  <2>1. \/ toGateway' = toGateway
        \/ \E l \in Commanded : toGateway' = Append(toGateway, PeriodFor[l])
    BY Zenon DEF Deliver, RegisterStateChanged
  <2> QED BY <1>1, <2>1, PeriodType, AppendProperties DEF ChannelsOK
<1>6. undone' \in BOOLEAN
  BY <1>1, Zenon DEF Deliver, MonitorsOK
<1>7. GatewayOK'
  BY <1>1, <1>2 DEF GatewayOK
<1>8. MonitorsOK'
  BY <1>1, <1>2, <1>4, <1>6 DEF MonitorsOK
<1>9. (k = N + 1 <=> main \in {"start", "running"})'
  BY <1>2 DEF TypeOK
<1> QED BY <1>3, <1>5, <1>7, <1>8, <1>9 DEF TypeOK, ChannelsOK

LEMMA MainTypes ==
    ASSUME TypeOK, SchedulerMain
    PROVE  TypeOK'
<1>1. GatewayOK /\ ChannelsOK /\ MonitorsOK /\ (k = N + 1 <=> main \in {"start", "running"})
  BY DEF TypeOK
<1>2. UNCHANGED <<held, period, link, toScheduler, state>>
  BY DEF SchedulerMain, Subscribe, AddHandler, Start, gateway
<1>3. GatewayOK'
  BY <1>1, <1>2 DEF GatewayOK
<1>4. CASE Subscribe
  <2>1. k \in 1..N
    BY <1>1, <1>4, NAssumption DEF Subscribe, MonitorsOK
  <2>2. MonitorsOK'
    BY <1>1, <1>2, <1>4, <2>1 DEF Subscribe, MonitorsOK, Registers
  <2>3. ChannelsOK'
    BY <1>1, <1>2, <1>4 DEF Subscribe, ChannelsOK
  <2> QED BY <1>1, <1>3, <1>4, <2>2, <2>3 DEF Subscribe, TypeOK
<1>5. CASE AddHandler
  <2>1. k \in 1..N
    BY <1>1, <1>5, NAssumption DEF AddHandler, MonitorsOK
  <2>2. MonitorsOK'
    BY <1>1, <1>2, <1>5, <2>1, NAssumption DEF AddHandler, MonitorsOK
  <2>3. ChannelsOK'
    BY <1>1, <1>2, <1>5 DEF AddHandler, ChannelsOK
  <2>4. (k = N + 1 <=> main \in {"start", "running"})'
    BY <1>5, <2>1, NAssumption DEF AddHandler
  <2> QED BY <1>3, <2>2, <2>3, <2>4 DEF TypeOK
<1>6. CASE Start
  <2>1. undone' \in BOOLEAN
    BY <1>6, Zenon DEF Start
  <2>2. MonitorsOK'
    BY <1>1, <1>2, <1>6, <2>1 DEF Start, MonitorsOK
  <2>3. ChannelsOK'
    BY <1>1, <1>2, <1>6, PeriodType, NormalAssumption, AppendProperties DEF Start, ChannelsOK
  <2> QED BY <1>1, <1>3, <1>6, <2>2, <2>3 DEF Start, TypeOK
<1> QED BY <1>4, <1>5, <1>6 DEF SchedulerMain

\* The steps of the gateway and the broker leave the monitors alone.
LEMMA OutsideTypes ==
    ASSUME TypeOK,
           \/ \E r \in Registers, v \in Values : Write(r, v)
           \/ \E r \in Registers : Publish(r)
           \/ Modify \/ Restart \/ Disconnect \/ Connect \/ OnConnect
           \/ LoseCommand \/ Reconnect
    PROVE  TypeOK'
<1>1. GatewayOK /\ ChannelsOK /\ MonitorsOK /\ (k = N + 1 <=> main \in {"start", "running"})
  BY DEF TypeOK
<1>2. UNCHANGED <<main, k, state>>
  BY DEF Write, Publish, Modify, Restart, Disconnect, Connect, OnConnect,
         LoseCommand, Reconnect, monitors
<1>3. subscribed' \in {subscribed, {}}
  BY DEF Write, Publish, Modify, Restart, Disconnect, Connect, OnConnect,
         LoseCommand, Reconnect, monitors
<1>4. undone' \in BOOLEAN
  <2>1. undone \in BOOLEAN
    BY <1>1 DEF MonitorsOK
  <2>2. CASE Restart \/ LoseCommand
    BY <2>1, <2>2, Zenon DEF Restart, LoseCommand
  <2>3. CASE ~(Restart \/ LoseCommand)
    BY <2>1, <2>3, Zenon DEF Write, Publish, Modify, Disconnect, Connect, OnConnect,
                             Reconnect
  <2> QED BY <2>2, <2>3
<1>5. MonitorsOK'
  BY <1>1, <1>2, <1>3, <1>4 DEF MonitorsOK
<1>6. ASSUME NEW r \in Registers, NEW v \in Values, Write(r, v)
      PROVE  GatewayOK' /\ ChannelsOK'
  BY <1>1, <1>6 DEF Write, GatewayOK, ChannelsOK
<1>7. ASSUME NEW r \in Registers, Publish(r)
      PROVE  GatewayOK' /\ ChannelsOK'
  BY <1>1, <1>7, AppendProperties DEF Publish, gateway, GatewayOK, ChannelsOK
<1>8. ASSUME Modify
      PROVE  GatewayOK' /\ ChannelsOK'
  BY <1>1, <1>8, HeadTailProperties DEF Modify, GatewayOK, ChannelsOK
<1>9. ASSUME Restart
      PROVE  GatewayOK' /\ ChannelsOK'
  BY <1>1, <1>9 DEF Restart, GatewayOK, ChannelsOK, Period
<1>10. ASSUME Reconnect
       PROVE  GatewayOK' /\ ChannelsOK'
  BY <1>1, <1>10, EmptySeq DEF Reconnect, gateway, GatewayOK, ChannelsOK
<1>11. ASSUME Disconnect \/ Connect \/ OnConnect
       PROVE  GatewayOK' /\ ChannelsOK'
  BY <1>1, <1>11 DEF Disconnect, Connect, OnConnect, GatewayOK, ChannelsOK
<1>12. ASSUME LoseCommand
       PROVE  GatewayOK' /\ ChannelsOK'
  BY <1>1, <1>12, HeadTailProperties DEF LoseCommand, gateway, GatewayOK, ChannelsOK
<1>13. GatewayOK' /\ ChannelsOK'
  BY <1>6, <1>7, <1>8, <1>9, <1>10, <1>11, <1>12
<1> QED BY <1>1, <1>2, <1>13, <1>5 DEF TypeOK

LEMMA NextTypes == TypeOK /\ [Next]_vars => TypeOK'
<1> SUFFICES ASSUME TypeOK, [Next]_vars PROVE TypeOK'
  OBVIOUS
<1>1. CASE Next
  BY <1>1, DeliverTypes, MainTypes, OutsideTypes DEF Next
<1>2. CASE UNCHANGED vars
  BY <1>2 DEF vars, gateway, monitors, TypeOK, GatewayOK, ChannelsOK, MonitorsOK
<1> QED BY <1>1, <1>2

\* The variables keep their types, and the loop over the monitors ends behind
\* the last of them.
THEOREM TypeCorrect == Spec => []TypeOK
BY InitTypes, NextTypes, PTL DEF Spec

-----------------------------------------------------------------------------
(***************************************************************************)
(* The period follows the labels: the property is inductive by itself.     *)
(***************************************************************************)
LEMMA ComingAppended ==
    ASSUME ChannelsOK, NEW p \in Period, toGateway' = Append(toGateway, p)
    PROVE  Coming' = p
BY AppendProperties DEF ChannelsOK, Coming

\* A change of label to one all monitors share is followed by its command.
LEMMA DeliverFollows ==
    ASSUME TypeOK, PeriodFollowsLabels, Deliver
    PROVE  PeriodFollowsLabels'
<1> DEFINE m == Head(toScheduler)
           s == [state EXCEPT ![m.register] = LabelOf(m.value)]
<1>1. main' = main /\ period' = period
  BY DEF Deliver, gateway, monitors
<1>2. CASE m.register \in Handled /\ s # state
  <2> SUFFICES ASSUME NEW l \in Commanded, AllIn(state', l)
               PROVE  Coming' = PeriodFor[l]
    BY DEF PeriodFollowsLabels
  <2>1. state' = s /\ RegisterStateChanged(s, m.register)
    BY <1>2 DEF Deliver
  <2>2. m.register \in Registers
    <3>1. toScheduler \in Seq([register : Registers, value : Values]) /\ toScheduler # <<>>
      BY DEF TypeOK, ChannelsOK, Deliver
    <3>2. m \in [register : Registers, value : Values]
      BY <3>1, HeadTailProperties
    <3> QED BY <3>2
  <2>3. s[m.register] = l /\ AllIn(s, l)
    BY <2>1, <2>2 DEF AllIn
  <2>4. toGateway' = Append(toGateway, PeriodFor[l])
    BY <2>1, <2>3 DEF RegisterStateChanged
  <2> QED BY <2>4, ComingAppended, PeriodType DEF TypeOK
<1>3. CASE ~(m.register \in Handled /\ s # state)
  <2>1. UNCHANGED <<state, toGateway, undone>>
    BY <1>3, Zenon DEF Deliver
  <2> QED BY <1>1, <2>1 DEF PeriodFollowsLabels, Coming, AllIn
<1> QED BY <1>2, <1>3

LEMMA MainFollows ==
    ASSUME TypeOK, PeriodFollowsLabels, SchedulerMain
    PROVE  PeriodFollowsLabels'
<1>1. CASE Start
  <2> SUFFICES ASSUME NEW l \in Commanded, AllIn(state', l), ~undone'
               PROVE  Coming' = PeriodFor[l]
    BY DEF PeriodFollowsLabels
  <2>1. state' = state /\ AllIn(state, "N")
    BY <1>1 DEF Start
  <2>2. l = "N"
    BY <2>1, NAssumption DEF AllIn, Registers
  <2> QED BY <1>1, <2>2, ComingAppended, PeriodType DEF TypeOK, Start
<1>2. CASE Subscribe \/ AddHandler
  <2>1. main' # "running"
    BY <1>2 DEF Subscribe, AddHandler
  <2> QED BY <2>1 DEF PeriodFollowsLabels
<1> QED BY <1>1, <1>2 DEF SchedulerMain

\* What the gateway comes to after the oldest command is taken away: still the
\* newest, if there is another.
LEMMA NewestStays ==
    ASSUME ChannelsOK, toGateway # <<>>, Len(toGateway) # 1,
           toGateway' = Tail(toGateway)
    PROVE  Coming' = Coming
<1>1. toGateway \in Seq(Period) /\ Len(toGateway) \in Nat
  BY LenProperties DEF ChannelsOK
<1>2. Len(toGateway) > 1
  <2>1. Len(toGateway) # 0
    BY <1>1, EmptySeq
  <2>2. Len(toGateway) \in Nat /\ Len(toGateway) # 1
    BY <1>1
  <2> QED BY <2>1, <2>2
<1>3. Len(toGateway') = Len(toGateway) - 1
  <2>1. toGateway # <<>>
    BY <1>1, EmptySeq
  <2> QED BY <1>1, <2>1, HeadTailProperties
<1>4. toGateway'[Len(toGateway')] = toGateway[Len(toGateway)]
  BY <1>1, <1>3, <1>2
<1>5. Len(toGateway) # 0 /\ Len(toGateway') # 0
  BY <1>1, <1>3, <1>2
<1>6. toGateway # <<>> /\ toGateway' # <<>>
  BY <1>5, EmptySeq
<1> QED BY <1>4, <1>6 DEF Coming

LEMMA ModifyFollows ==
    ASSUME TypeOK, PeriodFollowsLabels, Modify
    PROVE  PeriodFollowsLabels'
<1>1. toGateway \in Seq(Period) /\ toGateway # <<>>
  BY DEF TypeOK, ChannelsOK, Modify
<1>2. Coming' = Coming
  <2>1. CASE Len(toGateway) = 1
    <3>1. period' = toGateway[1]
      BY <1>1 DEF Modify
    <3>2. toGateway' \in Seq(Period) /\ Len(toGateway') = 0
      BY <1>1, <2>1, HeadTailProperties DEF Modify
    <3>3. toGateway' = <<>>
      BY <3>2, EmptySeq
    <3> QED BY <1>1, <2>1, <3>1, <3>3 DEF Coming
  <2>2. CASE Len(toGateway) # 1
    BY <2>2, NewestStays DEF Modify, TypeOK
  <2> QED BY <2>1, <2>2
<1>3. UNCHANGED <<state, main, undone>>
  BY DEF Modify, monitors
<1> QED BY <1>2, <1>3 DEF PeriodFollowsLabels, AllIn

\* A command that is lost is the newest, and then the period is undone, or it is
\* an older one.
LEMMA LossFollows ==
    ASSUME TypeOK, PeriodFollowsLabels, LoseCommand
    PROVE  PeriodFollowsLabels'
<1>1. UNCHANGED <<state, main>>
  BY DEF LoseCommand, monitors
<1>2. CASE Len(toGateway) = 1
  <2>1. undone'
    BY <1>2 DEF LoseCommand
  <2> QED BY <2>1 DEF PeriodFollowsLabels
<1>3. CASE Len(toGateway) # 1
  <2>1. Coming' = Coming
    BY <1>3, NewestStays DEF LoseCommand, TypeOK
  <2>2. ~undone' => ~undone
    BY DEF LoseCommand
  <2> QED BY <1>1, <2>1, <2>2 DEF PeriodFollowsLabels, AllIn
<1> QED BY <1>2, <1>3

\* With a command still on the way, a restart changes nothing for it.
LEMMA RestartFollows ==
    ASSUME TypeOK, PeriodFollowsLabels, Restart
    PROVE  PeriodFollowsLabels'
<1>1. UNCHANGED <<state, main, toGateway>>
  BY DEF Restart, monitors
<1>2. ~undone' => ~undone /\ toGateway # <<>>
  BY DEF Restart
<1>3. toGateway # <<>> => Coming' = Coming
  BY <1>1 DEF Coming
<1> QED BY <1>1, <1>2, <1>3 DEF PeriodFollowsLabels, AllIn

LEMMA NextFollows ==
    TypeOK /\ PeriodFollowsLabels /\ [Next]_vars => PeriodFollowsLabels'
<1> SUFFICES ASSUME TypeOK, PeriodFollowsLabels, [Next]_vars
             PROVE  PeriodFollowsLabels'
  OBVIOUS
<1>1. CASE Restart \/ LoseCommand
  BY <1>1, RestartFollows, LossFollows
<1>2. ASSUME \/ \E r \in Registers, v \in Values : Write(r, v)
             \/ \E r \in Registers : Publish(r)
             \/ Disconnect \/ Connect \/ OnConnect
             \/ Reconnect
             \/ UNCHANGED vars
      PROVE  PeriodFollowsLabels'
  <2>1. UNCHANGED <<state, main, undone, toGateway, period>>
    BY <1>2 DEF Write, Publish, Disconnect, Connect, OnConnect, Reconnect, vars,
                gateway, monitors
  <2> QED BY <2>1 DEF PeriodFollowsLabels, Coming, AllIn
<1> QED
  BY <1>1, <1>2, DeliverFollows, MainFollows, ModifyFollows DEF Next

\* Whatever the order in which values, commands, restarts, and the losses and
\* returns of both connections come, the period the gateway comes to is the one
\* the labels last asked for, but for the three events that undo it.
THEOREM PeriodFollows == Spec => []PeriodFollowsLabels
<1>1. Init => PeriodFollowsLabels
  BY DEF Init, PeriodFollowsLabels
<1> QED
  BY <1>1, TypeCorrect, NextFollows, PTL DEF Spec
=============================================================================
