------------------------- MODULE MeasuredLinkProofs -------------------------
(***************************************************************************)
(* Theorems about MeasuredLink for every scan list, every set of observed  *)
(* entries, every length of the windows and every set of register values.  *)
(*                                                                         *)
(*  - MeasuredIsLink: recording and publishing do not change what the link *)
(*    does, so what is proved of SlmpLink holds of MeasuredLink.           *)
(*  - SubscribersKnowHolds: what the subscribers were sent is what was     *)
(*    read, however late replies are. It rests on Told.                    *)
(*  - MeasuredHolds: with a PLC that answers in time, over a network that  *)
(*    cuts replies where the gateway expects it, a response time is that   *)
(*    of the request answered. It rests on Timed.                          *)
(***************************************************************************)
EXTENDS MeasuredLink, SlmpLinkProofs

USE ObservedAssumption, MaxListAssumption, NothingReadAssumption

-----------------------------------------------------------------------------
(***************************************************************************)
(* The measured link is the link.                                          *)
(***************************************************************************)
LEMMA MeasuredStep ==
    ASSUME [MeasuredNext]_measuredVars
    PROVE  [Next]_vars
<1>1. CASE MeasuredGateway
  BY <1>1 DEF MeasuredGateway, MeasuredConnect, MeasuredPublish, MeasuredSend,
     MeasuredReceive, MeasuredReceiveNothing, Next, Gateway
<1>2. CASE ~Exited /\ MeasuredPlc
  BY <1>2 DEF MeasuredPlc, Next, Plc
<1>3. CASE UNCHANGED measuredVars
  BY <1>3 DEF measuredVars
<1> QED
  BY <1>1, <1>2, <1>3 DEF MeasuredNext

\* Every behaviour of the measured link is one of the link.
THEOREM MeasuredIsLink == MeasuredSpec => Spec
<1>1. MeasuredInit => Init
  BY DEF MeasuredInit
<1>2. [MeasuredNext]_measuredVars => [Next]_vars
  BY MeasuredStep
<1> QED
  BY <1>1, <1>2, PTL DEF MeasuredSpec, Spec

\* With a PLC that answers in time, over a network that cuts its replies as
\* expected, the measured link implements the feed.
THEOREM MeasuredImplementsFeed ==
    ASSUME MaxBehind = 0, CutsAsExpected
    PROVE  MeasuredSpec => ImplementsFeed
BY MeasuredIsLink, TimelyImplementsFeed

LEMMA MeasuredTypes == MeasuredSpec => [](TypeOK /\ AtEntry)
BY MeasuredIsLink, TypeCorrect

-----------------------------------------------------------------------------
(***************************************************************************)
(* What the subscribers know.                                              *)
(***************************************************************************)
Known == Values \cup {NothingRead}

\* The batch holds the last values of entries the pass has been at, and what
\* was read and not shown is in the batch or lost.
Told ==
    /\ last \in [Entries -> Known]
    /\ shown \in [Entries -> Known]
    /\ pc = "connect" => batch = {}
    /\ \A r \in batch : r.val = last[r.for] /\ r.for < cur
    /\ \A e \in Entries :
        shown[e] = last[e] \/ (\E r \in batch : r.for = e) \/ e \in lost

\* A receive reads the entry it is at, or changes no batch.
LEMMA ReceiveBatch ==
    ASSUME TypeOK, AtEntry, Receive \/ ReceiveRest
    PROVE  /\ cur \in Entries /\ pc' \notin {"connect", "recv"}
           /\ cur' \in {cur, cur + 1}
           /\ pc' = "recvRest" => UNCHANGED cur
           /\ \/ UNCHANGED batch
              \/ \E f \in Entries \cup {Nobody}, v \in Values : ReadReturns(f, v)
<1>1. cur \in Entries
  BY DEF Receive, ReceiveRest, AtEntry
<1>2. ASSUME NEW got \in Seq(Cell), got # <<>>, Decode(got)
      PROVE  /\ pc' \in {"send", "next"} /\ cur' \in {cur, cur + 1}
             /\ \/ UNCHANGED batch
                \/ \E f \in Entries \cup {Nobody}, v \in Values : ReadReturns(f, v)
  <2>1. \/ AttemptFails /\ UNCHANGED batch
        \/ \E f \in Entries \cup {Nobody}, v \in Values : ReadReturns(f, v)
    BY <1>1, <1>2, DecodeEnds
  <2> QED BY <2>1 DEF ReadReturns, AttemptFails, NextEntry
<1>3. CASE Receive
  <2>1. PICK k \in Received(toGateway) :
          \/ pc' = "recvRest" /\ UNCHANGED <<cur, batch>>
          \/ Decode(SubSeq(toGateway, 1, k))
    BY <1>3 DEF Receive
  <2>2. SubSeq(toGateway, 1, k) \in Seq(Cell) /\ SubSeq(toGateway, 1, k) # <<>>
    BY GotOfReceive
  <2> QED BY <1>1, <1>2, <2>1, <2>2
<1>4. CASE ReceiveRest
  <2>1. PICK k \in Received(toGateway) :
          Decode(response \o SubSeq(toGateway, 1, k))
    BY <1>4 DEF ReceiveRest
  <2>2. /\ response \o SubSeq(toGateway, 1, k) \in Seq(Cell)
        /\ response \o SubSeq(toGateway, 1, k) # <<>>
    BY GotOfReceive
  <2> QED BY <1>1, <1>2, <2>1, <2>2
<1> QED
  BY <1>3, <1>4

\* The value that a returning read adds to the batch is the one recorded.
LEMMA ValueRead ==
    ASSUME TypeOK, Told, cur \in Entries, NEW f, NEW v \in Values, ReadReturns(f, v)
    PROVE  Decoded /\ Value = v
<1> DEFINE x == [for |-> cur, from |-> f, val |-> v]
<1>1. batch' = batch \cup {x} /\ x.for = cur /\ x.val = v
  BY DEF ReadReturns
<1> HIDE DEF x
<1>2. x \notin batch
  BY <1>1 DEF Told, Entries
<1>3. batch' \ batch = {x}
  BY <1>1, <1>2
<1>4. (CHOOSE r \in batch' \ batch : TRUE) = x
  BY ONLY <1>3
<1> QED
  BY <1>1, <1>2, <1>4 DEF Decoded, Value

LEMMA ToldStep ==
    ASSUME TypeOK, AtEntry, Told, [MeasuredNext]_measuredVars
    PROVE  Told'
<1>1. CASE MeasuredPublish
  <2>1. /\ batch' = {} /\ last' = last /\ cur' = 1 /\ pc' = "next"
        /\ lost' = lost \ {r.for : r \in batch}
        /\ shown' = [e \in Entries |->
                        IF \E r \in batch : r.for = e
                        THEN (CHOOSE r \in batch : r.for = e).val
                        ELSE shown[e]]
    BY <1>1 DEF MeasuredPublish, PublishCycle
  <2>2. ASSUME NEW e \in Entries
        PROVE  shown'[e] \in Known /\ (shown'[e] = last'[e] \/ e \in lost')
    <3>1. CASE \E r \in batch : r.for = e
      <4>1. LET r == CHOOSE r \in batch : r.for = e IN r \in batch /\ r.for = e
        BY <3>1
      <4>2. shown'[e] = last[e]
        BY <2>1, <3>1, <4>1 DEF Told
      <4> QED BY <2>1, <4>2 DEF Told
    <3>2. CASE ~\E r \in batch : r.for = e
      <4>1. shown'[e] = shown[e] /\ (shown[e] = last[e] \/ e \in lost)
        BY <2>1, <3>2 DEF Told
      <4>2. e \in lost => e \in lost'
        BY <2>1, <3>2
      <4> QED BY <2>1, <4>1, <4>2 DEF Told
    <3> QED BY <3>1, <3>2
  <2>3. shown' \in [Entries -> Known]
    BY <2>1, <2>2
  <2> QED BY <2>1, <2>2, <2>3 DEF Told
<1>2. CASE MeasuredSend
  <2>1. CASE pc' = "recv"
    BY <1>2, <2>1 DEF MeasuredSend, Send, LeaveScan, Told
  <2>2. CASE pc' # "recv"
    <3>1. /\ batch' = {} /\ UNCHANGED <<last, shown>>
          /\ lost' = lost \cup {r.for : r \in batch}
      BY <1>2, <2>2 DEF MeasuredSend, Send, LeaveScan, Forget
    <3> QED BY <3>1 DEF Told
  <2> QED BY <2>1, <2>2
<1>3. CASE MeasuredReceive
  <2>1. /\ UNCHANGED <<shown, lost>>
        /\ Receive \/ ReceiveRest
        /\ UNCHANGED last \/ (pc' # "recvRest" /\ NewValues)
    BY <1>3 DEF MeasuredReceive
  <2>2. cur \in Entries /\ pc' # "connect" /\ cur' \in {cur, cur + 1}
    BY <2>1, ReceiveBatch
  <2>3. CASE UNCHANGED batch
    <3>1. last' = last
      BY <2>1, <2>3 DEF NewValues, Decoded
    <3>2. \A r \in batch' : r.val = last'[r.for] /\ r.for < cur'
      <4>1. \A r \in batch : r.for < cur => r.for < cur'
        BY <2>2 DEF TypeOK, Entries
      <4> QED BY <2>3, <3>1, <4>1 DEF Told
    <3>3. /\ shown' = shown /\ lost' = lost /\ last' = last /\ batch' = batch
          /\ pc' # "connect"
      BY <2>1, <2>2, <2>3, <3>1
    <3> QED BY <3>2, <3>3 DEF Told
  <2>4. CASE \E f \in Entries \cup {Nobody}, v \in Values : ReadReturns(f, v)
    <3>1. PICK f \in Entries \cup {Nobody}, v \in Values : ReadReturns(f, v)
      BY <2>4
    <3>2. Decoded /\ Value = v /\ v \in Values
      BY <2>2, <3>1, ValueRead
    <3>3. /\ pc' = "next" /\ cur' = cur + 1
          /\ batch' = batch \cup {[for |-> cur, from |-> f, val |-> v]}
      BY <3>1 DEF ReadReturns, NextEntry
    <3>4. last' = [last EXCEPT ![cur] = v]
      BY <1>3, <3>2, <3>3 DEF MeasuredReceive, NewValues
    <3>5. \A e \in Entries : last'[e] = IF e = cur THEN v ELSE last[e]
      BY <2>2, <3>4 DEF Told
    <3>6. \A r \in batch' : r.val = last'[r.for] /\ r.for < cur'
      <4>1. ASSUME NEW r \in batch
            PROVE  r.val = last'[r.for] /\ r.for < cur'
        <5>1. r.for \in Entries /\ r.for < cur /\ r.val = last[r.for]
          BY DEF TypeOK, Told
        <5>2. r.for # cur
          BY <2>2, <5>1 DEF Entries
        <5> QED BY <2>2, <3>3, <3>5, <5>1, <5>2 DEF Entries
      <4>2. v = last'[cur] /\ cur < cur'
        BY <2>2, <3>3, <3>5 DEF Entries
      <4> QED BY <3>3, <4>1, <4>2
    <3>7. \A e \in Entries :
            shown[e] = last'[e] \/ (\E r \in batch' : r.for = e) \/ e \in lost
      <4>1. \E r \in batch' : r.for = cur
        <5>1. [for |-> cur, from |-> f, val |-> v] \in batch'
          BY <3>3
        <5> QED BY <5>1
      <4>2. batch \subseteq batch'
        BY <3>3
      <4> QED BY <3>5, <4>1, <4>2 DEF Told
    <3>8. last' \in [Entries -> Known]
      BY <3>2, <3>4 DEF Told, Known
    <3>9. shown' = shown /\ lost' = lost /\ pc' # "connect"
      BY <2>1, <3>3
    <3> QED BY <3>6, <3>7, <3>8, <3>9 DEF Told
  <2> QED BY <2>1, <2>3, <2>4, ReceiveBatch
<1>4. CASE MeasuredReceiveNothing
  <2>1. /\ UNCHANGED <<batch, last, shown, lost>> /\ AttemptFails
        /\ pc \in {"recv", "recvRest"}
    BY <1>4 DEF MeasuredReceiveNothing, ReceiveNothing
  <2>2. cur' \in {cur, cur + 1} /\ pc' # "connect" /\ cur \in Entries
    BY <2>1 DEF AttemptFails, NextEntry, AtEntry
  <2>3. \A r \in batch : r.for < cur => r.for < cur'
    BY <2>2 DEF TypeOK, Entries
  <2> QED BY <2>1, <2>2, <2>3 DEF Told
<1>5. CASE MeasuredConnect
  <2>1. batch = {}
    BY <1>5 DEF MeasuredConnect, Connect, Told
  <2> QED BY <1>5, <2>1 DEF MeasuredConnect, Connect, Told
<1>6. CASE /\ ConnectRefused \/ SkipEntry \/ BeginRead \/ Timeout
           /\ UNCHANGED measured
  <2>1. UNCHANGED <<batch, last, shown, lost>> /\ pc' # "connect"
    BY <1>6 DEF measured, windows, ConnectRefused, SkipEntry, BeginRead, Timeout,
       AttemptFails, NextEntry
  <2>2. cur' = cur \/ (cur' = cur + 1 /\ cur \in Entries)
    BY <1>6 DEF ConnectRefused, SkipEntry, BeginRead, Timeout, AttemptFails,
       NextEntry, AtEntry
  <2>3. \A r \in batch : r.for < cur => r.for < cur'
    BY <2>2 DEF TypeOK, Entries
  <2> QED BY <2>1, <2>3 DEF Told
<1>7. CASE MeasuredPlc
  BY <1>7 DEF MeasuredPlc, PlcServe, PlcIgnores, PlcCloses, PlcResets, PlcWrite,
     Told
<1>8. CASE UNCHANGED measuredVars
  BY <1>8 DEF measuredVars, vars, measured, windows, Told
<1> QED
  BY <1>1, <1>2, <1>3, <1>4, <1>5, <1>6, <1>7, <1>8
     DEF MeasuredNext, MeasuredGateway

\* What the subscribers were sent of an entry is what was last read of it,
\* but for what is still in the pass and what an exception has taken along,
\* however late the PLC is and however often the connection is lost.
THEOREM SubscribersKnowHolds == MeasuredSpec => []SubscribersKnow
<1>1. MeasuredInit => Told
  BY DEF MeasuredInit, Init, Told, Known
<1>2. TypeOK /\ AtEntry /\ Told /\ [MeasuredNext]_measuredVars => Told'
  BY ToldStep
<1>3. Told => SubscribersKnow
  BY DEF Told, SubscribersKnow
<1> QED
  BY <1>1, <1>2, <1>3, MeasuredTypes, PTL DEF MeasuredSpec

-----------------------------------------------------------------------------
(***************************************************************************)
(* The newest request of a PLC that answers in time.                       *)
(***************************************************************************)

\* A request on its way is the newest one, and so is the one that what has
\* come back answers, but for 1420 bytes whose rest a reset has taken.
Newest ==
    /\ toPlc # <<>> => newest = "plc"
    /\ toGateway # <<>> =>
          \/ newest = "gateway"
          \/ pc = "recv" /\ ~HasEnd(toGateway)

\* An answer begins with its first cell and with no other.
LEMMA AnswerBegins ==
    ASSUME NEW e \in Entries, NEW v, NEW ok \in BOOLEAN, NEW q \in Seq(Cell),
           Answer(q, e, v, ok)
    PROVE  {i \in DOMAIN q : q[i].at = 1} = {1}
<1>0. Length[e] \in Nat \ {0}
  BY LengthAssumption
<1>1. DOMAIN q = 1..Len(q) /\ Len(q) \in Nat \ {0}
  <2>1. Len(q) = Length[e] \/ Len(q) = 1
    BY DEF Answer
  <2>2. Len(q) \in Nat /\ DOMAIN q = 1..Len(q)
    BY LenProperties
  <2>3. Len(q) # 0
    BY <1>0, <2>1
  <2> QED BY <2>2, <2>3
<1>2. ASSUME NEW i \in 1..Len(q) PROVE q[i].at = i
  <2>1. q[i] = [from |-> e, val |-> v, ok |-> ok, at |-> i]
    BY DEF Answer
  <2> QED BY <2>1
<1> QED
  BY <1>1, <1>2

\* The 1420 bytes are not the end of the reply.
LEMMA FirstHasNoEnd ==
    ASSUME NEW e \in Entries, NEW v, NEW q \in Seq(Cell), FirstOf(q, e, v)
    PROVE  ~HasEnd(q)
<1>1. DOMAIN q = 1..Len(q) /\ Len(q) = Full /\ Full < Length[e]
  BY LenProperties DEF FirstOf
<1>2. ASSUME NEW i \in 1..Len(q) PROVE ~Ends(q[i])
  <2>1. q[i] = [from |-> e, val |-> v, ok |-> TRUE, at |-> i]
    BY DEF FirstOf
  <2>2. q[i].from = e /\ q[i].ok = TRUE /\ q[i].at = i
    BY <2>1
  <2>3. i <= Full /\ Full \in Nat /\ Length[e] \in Nat
    <3>1. Full \in Nat /\ Length[e] \in Nat
      BY FullAssumption, LengthAssumption
    <3> QED BY <1>1, <3>1
  <2> QED BY <1>1, <2>2, <2>3 DEF Ends
<1> QED
  BY <1>1, <1>2 DEF HasEnd

\* A complete response is the answer to the newest request.
LEMMA ReceiveNewest ==
    ASSUME CutsAsExpected, TypeOK, AtEntry, InTime, Newest, Receive \/ ReceiveRest
    PROVE  /\ toPlc' = <<>>
           /\ pc' = "recvRest" \/ OfNewest
           /\ toGateway' # <<>> => newest = "gateway"
<1>1. toGateway \in Seq(Cell) /\ toGateway # <<>> /\ cur \in Entries
  BY ReceivedRange DEF Receive, ReceiveRest, TypeOK, AtEntry
<1>2. DOMAIN toGateway = 1..Len(toGateway)
  BY <1>1, LenProperties
<1>3. CASE Receive
  <2>1. PICK k \in Received(toGateway) :
          k = Full => pc' = "recvRest" /\ toGateway' = Without(toGateway, k)
    BY <1>3 DEF Receive
  <2>2. pc = "recv" /\ response = <<>> /\ Arriving(toGateway)
    BY <1>1, <1>3 DEF Receive, InTime, QueuesInTime
  <2>3. PICK v \in seen, ok \in BOOLEAN :
          Answer(toGateway, cur, v, ok) \/ FirstOf(toGateway, cur, v)
    BY <2>2 DEF Arriving
  <2>4. CASE Answer(toGateway, cur, v, ok)
    <3>1. HasEnd(toGateway)
      BY <1>1, <1>2, <2>4, AnswerEnds DEF HasEnd
    <3>2. newest = "gateway"
      BY <1>1, <3>1 DEF Newest
    <3>3. {i \in DOMAIN toGateway : toGateway[i].at = 1} = {1}
      BY <1>1, <2>4, AnswerBegins
    <3>4. response \o toGateway = toGateway
      BY <1>1, <2>2, ConcatEmptySeq
    <3>5. OfNewest
      BY <3>2, <3>3, <3>4 DEF OfNewest
    <3> QED BY <1>3, <3>2, <3>5, ReceiveInTime
  <2>5. CASE FirstOf(toGateway, cur, v)
    <3>1. k = Len(toGateway) /\ k = Full
      BY <1>1, <2>5, StopInFirst DEF FirstOf
    <3>2. Without(toGateway, k) = <<>>
      BY <1>1, <3>1, SplitAll
    <3> QED BY <1>3, <2>1, <3>1, <3>2, ReceiveInTime
  <2> QED BY <2>3, <2>4, <2>5
<1>4. CASE ReceiveRest
  <2>1. toPlc' = <<>>
    BY <1>4, ReceiveRestInTime
  <2>2. pc = "recvRest" /\ HalfRead(response, toGateway) /\ response \in Seq(Cell)
    BY <1>4 DEF ReceiveRest, InTime, QueuesInTime, TypeOK
  <2>3. newest = "gateway"
    BY <1>1, <2>2 DEF Newest
  <2>4. PICK v \in seen : FirstOf(response, cur, v) /\ RestOf(toGateway, cur, v)
    BY <1>1, <2>2 DEF HalfRead
  <2> DEFINE way == response \o toGateway
  <2>5. way \in Seq(Cell) /\ Answer(way, cur, v, TRUE)
    BY <1>1, <2>2, <2>4, JoinAnswer, JoinQueues
  <2> HIDE DEF way
  <2>6. {i \in DOMAIN way : way[i].at = 1} = {1}
    BY <1>1, <2>5, AnswerBegins
  <2>7. OfNewest
    BY <2>3, <2>6 DEF OfNewest, way
  <2> QED BY <2>1, <2>3, <2>7
<1> QED
  BY <1>3, <1>4

LEMMA NewestStep ==
    ASSUME MaxBehind = 0, CutsAsExpected, TypeOK, AtEntry, InTime, InTime', Newest,
           [MeasuredNext]_measuredVars
    PROVE  Newest'
<1>1. CASE MeasuredSend
  <2>1. toPlc = <<>> /\ toGateway = <<>>
    BY <1>1 DEF MeasuredSend, Send, InTime, QueuesInTime
  <2>2. CASE LeaveScan("connect") \/ LeaveScan("brokenPipe")
    BY <2>2 DEF LeaveScan, Newest
  <2>3. CASE conn = "open"
    BY <1>1, <2>1, <2>3 DEF MeasuredSend, Send, stream, Newest
  <2>4. CASE conn = "eof"
    BY <1>1, <2>1, <2>4 DEF MeasuredSend, Send, stream, Newest
  <2> QED BY <1>1, <2>2, <2>3, <2>4 DEF MeasuredSend, Send
<1>2. CASE MeasuredReceive
  BY <1>2, ReceiveNewest DEF MeasuredReceive, Newest
<1>3. CASE MeasuredReceiveNothing
  BY <1>3 DEF MeasuredReceiveNothing, ReceiveNothing, InTime, Newest
<1>4. CASE Timeout /\ UNCHANGED measured
  <2>1. pc' \notin {"recv", "recvRest"}
    BY <1>4 DEF Timeout, AttemptFails, NextEntry
  <2>2. toPlc' = <<>> /\ toGateway' = <<>>
    BY <2>1 DEF InTime, QueuesInTime
  <2> QED BY <2>2 DEF Newest
<1>5. CASE /\ PlcServe
           /\ newest' = IF newest # "plc" \/ toPlc' # <<>> THEN newest
                        ELSE IF Len(toPlc) = 1 THEN "gateway" ELSE "nowhere"
  <2>1. toPlc # <<>>
    BY <1>5 DEF PlcServe
  <2>2. toPlc = <<cur>> /\ cur \in Entries
    BY <2>1 DEF InTime, QueuesInTime, AtEntry
  <2>3. toPlc' = <<>> /\ Len(toPlc) = 1
    BY <1>5, <2>2, SplitOne DEF PlcServe
  <2>4. newest' = "gateway"
    BY <1>5, <2>1, <2>3 DEF Newest
  <2> QED BY <2>3, <2>4 DEF Newest
<1>6. CASE /\ PlcIgnores \/ PlcCloses
           /\ newest' = IF newest = "plc" /\ toPlc' = <<>> THEN "nowhere" ELSE newest
  <2>1. toPlc' = <<>>
    <3>1. CASE PlcIgnores
      BY <3>1 DEF PlcIgnores, InTime, QueuesInTime
    <3>2. CASE PlcCloses
      BY <3>2 DEF PlcCloses
    <3> QED BY <1>6, <3>1, <3>2
  <2>2. UNCHANGED <<toGateway, pc>>
    BY <1>6 DEF PlcIgnores, PlcCloses, stream
  <2>3. newest = "gateway" => newest' = "gateway"
    BY <1>6
  <2>4. HasEnd(toGateway)' <=> HasEnd(toGateway)
    BY <2>2 DEF HasEnd
  <2> QED BY Zenon, <2>1, <2>2, <2>3, <2>4 DEF Newest
<1>7. CASE /\ PlcResets
           /\ newest' = IF newest = "gateway" /\ toGateway' = toGateway
                        THEN newest ELSE "nowhere"
  <2>1. /\ toPlc' = <<>> /\ pc' = pc
        /\ \/ toGateway' = <<>>
           \/ UNCHANGED toGateway
           \/ pc = "recv" /\ \E v \in seen : FirstOf(toGateway', cur, v)
    BY <1>7, ResetInTime
  <2>2. CASE UNCHANGED toGateway
    <3>1. HasEnd(toGateway)' <=> HasEnd(toGateway)
      BY <2>2 DEF HasEnd
    <3> QED BY <1>7, <2>1, <2>2, <3>1 DEF Newest
  <2>3. CASE pc = "recv" /\ \E v \in seen : FirstOf(toGateway', cur, v)
    <3>0. cur \in Entries /\ [Next]_vars
      BY <2>3, MeasuredStep DEF AtEntry
    <3>1. cur \in Entries /\ toGateway' \in Seq(Cell)
      BY <3>0, TypeStep DEF TypeOK
    <3>2. ~HasEnd(toGateway')
      BY <2>3, <3>1, FirstHasNoEnd
    <3>3. ~HasEnd(toGateway)'
      BY <3>2 DEF HasEnd
    <3> QED BY <2>1, <2>3, <3>3 DEF Newest
  <2> QED BY <2>1, <2>2, <2>3 DEF Newest
<1>8. CASE UNCHANGED <<pc, toPlc, stream, newest>>
  <2>1. toGateway' = toGateway /\ newest' = newest /\ pc' = pc /\ toPlc' = toPlc
    BY <1>8 DEF stream
  <2>2. HasEnd(toGateway)' <=> HasEnd(toGateway)
    BY <2>1 DEF HasEnd
  <2> QED BY <2>1, <2>2 DEF Newest
<1>9. CASE MeasuredConnect \/ MeasuredPublish
  BY <1>9 DEF MeasuredConnect, MeasuredPublish, Connect, PublishCycle, stream,
     InTime, QueuesInTime, Newest
<1>10. CASE (ConnectRefused \/ SkipEntry \/ BeginRead) /\ UNCHANGED measured
  BY <1>10 DEF ConnectRefused, SkipEntry, BeginRead, stream, InTime, QueuesInTime,
     Newest
<1>11. CASE PlcWrite /\ UNCHANGED newest
  BY <1>8, <1>11 DEF PlcWrite
<1>12. CASE UNCHANGED measuredVars
  BY <1>8, <1>12 DEF measuredVars, measured, vars
<1> QED
  BY <1>1, <1>2, <1>3, <1>4, <1>5, <1>6, <1>7, <1>9, <1>10, <1>11, <1>12
     DEF MeasuredNext, MeasuredGateway, MeasuredPlc

-----------------------------------------------------------------------------
(***************************************************************************)
(* The windows.                                                            *)
(***************************************************************************)
Samples == [try : 1..MaxTries, answers : {"its own", "none"}]

\* The windows are in step: a request that waits for its response has been
\* counted and the response has not, unless the window of requests is full.
InStep ==
    /\ \A e \in Observed : /\ Len(valueChanged[e]) <= Len(received[e])
                          /\ Len(received[e]) <= bytesSent[e]
    /\ pc \in {"recv", "recvRest"} /\ cur \in Observed =>
          Len(received[cur]) < bytesSent[cur] \/ bytesSent[cur] = MaxList

Timed ==
    /\ bytesSent \in [Observed -> 0..MaxList]
    /\ received \in [Observed -> Seq(Samples)]
    /\ valueChanged \in [Observed -> Seq(BOOLEAN)]
    /\ InStep

\* A window grows by a sample until it is full.
LEMMA PushFacts ==
    ASSUME NEW S, NEW w \in Seq(S), NEW x \in S, Len(w) <= MaxList
    PROVE  /\ Push(w, x) \in Seq(S)
           /\ Len(Push(w, x)) = IF Len(w) < MaxList THEN Len(w) + 1 ELSE Len(w)
<1> DEFINE longer == Append(w, x)
<1>1. longer \in Seq(S) /\ longer # <<>> /\ Len(longer) = Len(w) + 1
  BY AppendProperties
<1> HIDE DEF longer
<1>2. Tail(longer) \in Seq(S) /\ Len(Tail(longer)) = Len(longer) - 1
  BY <1>1, HeadTailProperties
<1>3. Len(w) \in Nat
  BY LenProperties
<1> QED
  BY <1>1, <1>2, <1>3 DEF Push, longer

LEMMA GrowTogether ==
    ASSUME NEW m \in Nat, NEW b \in Nat, NEW r \in Nat, NEW v \in Nat,
           b <= m, r <= b, v <= r, r < b \/ b = m,
           NEW r2, r2 = IF r < m THEN r + 1 ELSE r,
           NEW v2, v2 = v \/ v2 = IF v < m THEN v + 1 ELSE v
    PROVE  v2 <= r2 /\ r2 <= b
<1>1. (r2 = r + 1 /\ r < m) \/ (r2 = r /\ r = m)
  OBVIOUS
<1>2. v2 = v \/ (v2 = v + 1 /\ v < m)
  OBVIOUS
<1> QED
  BY <1>1, <1>2

\* The lengths of the windows are numbers within the bound.
LEMMA WindowLengths ==
    ASSUME Timed, NEW e \in Observed
    PROVE  /\ Len(received[e]) \in Nat /\ Len(valueChanged[e]) \in Nat
           /\ bytesSent[e] \in Nat /\ bytesSent[e] <= MaxList
           /\ Len(received[e]) <= bytesSent[e]
           /\ Len(valueChanged[e]) <= Len(received[e])
           /\ Len(received[e]) <= MaxList /\ Len(valueChanged[e]) <= MaxList
<1>1. received[e] \in Seq(Samples) /\ valueChanged[e] \in Seq(BOOLEAN)
  BY DEF Timed
<1>2. Len(received[e]) \in Nat /\ Len(valueChanged[e]) \in Nat
  BY <1>1, LenProperties
<1>3. bytesSent[e] \in 0..MaxList
  BY DEF Timed
<1> QED
  BY <1>2, <1>3 DEF Timed, InStep

\* A response recorded for the request that waits for it, with the value it
\* decodes to if it does, keeps the windows in step.
LEMMA ResponseRecorded ==
    ASSUME TypeOK, Timed, pc \in {"recv", "recvRest"}, cur \in Entries,
           pc' \notin {"recv", "recvRest"}, UNCHANGED bytesSent,
           NEW a \in {"its own", "none"}, NewBytesReceived(a),
           NewValues \/ UNCHANGED valueChanged
    PROVE  Timed'
<1>0. attempt \in 1..MaxTries
  BY DEF TypeOK
<1> DEFINE x == [try |-> attempt, answers |-> a]
<1>1. x \in Samples
  BY <1>0 DEF Samples
<1>2. \A e \in Observed :
        received'[e] = IF e = cur THEN Push(received[e], x) ELSE received[e]
  BY DEF NewBytesReceived
<1>3. /\ valueChanged' = valueChanged
      \/ valueChanged' = [e \in Observed |->
                            IF Decoded /\ e = cur
                            THEN Push(valueChanged[e], last[e] # Value)
                            ELSE valueChanged[e]]
  BY DEF NewValues
<1>4. ASSUME NEW e \in Observed
      PROVE  /\ received'[e] \in Seq(Samples) /\ valueChanged'[e] \in Seq(BOOLEAN)
             /\ Len(valueChanged'[e]) <= Len(received'[e])
             /\ Len(received'[e]) <= bytesSent'[e]
  <2> HIDE DEF x
  <2> DEFINE r == received[e]
             v == valueChanged[e]
  <2>1. r \in Seq(Samples) /\ v \in Seq(BOOLEAN)
    BY DEF Timed
  <2>2. /\ Len(r) \in Nat /\ Len(v) \in Nat /\ bytesSent[e] \in Nat
        /\ bytesSent[e] <= MaxList /\ Len(r) <= bytesSent[e] /\ Len(v) <= Len(r)
        /\ Len(r) <= MaxList /\ Len(v) <= MaxList
    BY WindowLengths
  <2>3. CASE e # cur
    <3>1. received'[e] = r /\ valueChanged'[e] = v
      BY <1>2, <1>3, <2>3
    <3> QED BY <2>1, <2>2, <3>1
  <2>4. CASE e = cur
    <3>1. received'[e] = Push(r, x)
      BY <1>2, <2>4
    <3>2. \E y \in BOOLEAN : valueChanged'[e] \in {v, Push(v, y)}
      <4>1. (last[e] # Value) \in BOOLEAN
        OBVIOUS
      <4> QED BY <1>3, <4>1
    <3>3. Len(r) < bytesSent[e] \/ bytesSent[e] = MaxList
      BY <2>4 DEF Timed, InStep
    <3> HIDE DEF r, v
    <3>4. /\ Push(r, x) \in Seq(Samples)
          /\ Len(Push(r, x)) = IF Len(r) < MaxList THEN Len(r) + 1 ELSE Len(r)
      BY ONLY <1>1, <2>1, <2>2, PushFacts, MaxListAssumption
    <3>5. \A y \in BOOLEAN :
            /\ Push(v, y) \in Seq(BOOLEAN)
            /\ Len(Push(v, y)) = IF Len(v) < MaxList THEN Len(v) + 1 ELSE Len(v)
      <4> DEFINE B == BOOLEAN
      <4>1. v \in Seq(B)
        BY <2>1
      <4> HIDE DEF B
      <4>2. \A y \in B :
              /\ Push(v, y) \in Seq(B)
              /\ Len(Push(v, y)) = IF Len(v) < MaxList THEN Len(v) + 1 ELSE Len(v)
        BY ONLY <2>2, <4>1, PushFacts, MaxListAssumption
      <4> QED BY <4>2 DEF B
    <3> DEFINE r2 == received'[e]
               v2 == valueChanged'[e]
    <3>6. /\ r2 \in Seq(Samples) /\ v2 \in Seq(BOOLEAN)
          /\ Len(r2) = IF Len(r) < MaxList THEN Len(r) + 1 ELSE Len(r)
          /\ \/ Len(v2) = Len(v)
             \/ Len(v2) = IF Len(v) < MaxList THEN Len(v) + 1 ELSE Len(v)
      BY <2>1, <3>1, <3>2, <3>4, <3>5
    <3> HIDE DEF r2, v2
    <3>7. Len(v2) <= Len(r2) /\ Len(r2) <= bytesSent[e]
      BY ONLY <2>2, <3>3, <3>6, MaxListAssumption, GrowTogether
    <3> QED BY <3>6, <3>7 DEF r2, v2
  <2> QED BY <2>3, <2>4
<1>5. received' \in [Observed -> Seq(Samples)]
  BY <1>4 DEF NewBytesReceived
<1>6. valueChanged' \in [Observed -> Seq(BOOLEAN)]
  <2>1. CASE valueChanged' = valueChanged
    BY <2>1 DEF Timed
  <2>2. CASE valueChanged' # valueChanged
    <3>1. valueChanged' = [e \in Observed |-> valueChanged'[e]]
      BY <1>3, <2>2
    <3> QED BY <1>4, <3>1
  <2> QED BY <2>1, <2>2
<1> QED
  BY <1>4, <1>5, <1>6 DEF Timed, InStep

\* A request recorded is one that waits for its response.
LEMMA RequestRecorded ==
    ASSUME Timed, NewBytesSent, UNCHANGED <<received, valueChanged, cur>>
    PROVE  Timed'
<1>1. \A e \in Observed :
        bytesSent'[e] = IF e = cur /\ bytesSent[e] < MaxList
                        THEN bytesSent[e] + 1 ELSE bytesSent[e]
  BY DEF NewBytesSent
<1>2. ASSUME NEW e \in Observed
      PROVE  /\ bytesSent'[e] \in 0..MaxList
             /\ Len(valueChanged[e]) <= Len(received[e])
             /\ Len(received[e]) <= bytesSent'[e]
             /\ e = cur => Len(received[e]) < bytesSent'[e] \/ bytesSent'[e] = MaxList
  BY <1>1, WindowLengths
<1>3. bytesSent' \in [Observed -> 0..MaxList]
  BY <1>2 DEF NewBytesSent
<1> QED
  BY <1>2, <1>3 DEF Timed, InStep

LEMMA TimedStep ==
    ASSUME CutsAsExpected, TypeOK, AtEntry, InTime, Newest, Timed,
           [MeasuredNext]_measuredVars
    PROVE  Timed'
<1>1. CASE MeasuredSend
  <2>1. UNCHANGED <<received, valueChanged>>
    BY <1>1 DEF MeasuredSend
  <2>2. CASE pc' = "recv"
    <3>1. UNCHANGED cur
      BY <1>1, <2>2 DEF MeasuredSend, Send, LeaveScan
    <3> QED BY <1>1, <2>1, <2>2, <3>1, RequestRecorded DEF MeasuredSend
  <2>3. CASE pc' # "recv"
    <3>1. UNCHANGED bytesSent /\ pc' \notin {"recv", "recvRest"}
      BY <1>1, <2>3 DEF MeasuredSend, Send, LeaveScan
    <3> QED BY <2>1, <3>1 DEF Timed, InStep
  <2> QED BY <2>2, <2>3
<1>2. CASE MeasuredReceive
  <2>1. Receive \/ ReceiveRest
    BY <1>2 DEF MeasuredReceive
  <2>2. pc \in {"recv", "recvRest"} /\ cur \in Entries /\ UNCHANGED bytesSent
    BY <1>2 DEF MeasuredReceive, Receive, ReceiveRest, AtEntry
  <2>3. CASE pc' = "recvRest"
    <3>1. UNCHANGED <<cur, received, valueChanged>>
      BY <1>2, <2>1, <2>3, ReceiveBatch DEF MeasuredReceive
    <3> QED BY <2>2, <3>1 DEF Timed, InStep
  <2>4. CASE pc' # "recvRest"
    <3>1. OfNewest /\ pc' # "recv"
      BY <2>1, <2>4, ReceiveNewest, ReceiveBatch
    <3>2. NewBytesReceived("its own") /\ NewValues
      BY <1>2, <2>4, <3>1 DEF MeasuredReceive
    <3>3. "its own" \in {"its own", "none"}
      OBVIOUS
    <3> QED BY <2>2, <2>4, <3>1, <3>2, <3>3, ResponseRecorded
  <2> QED BY <2>3, <2>4
<1>3. CASE MeasuredReceiveNothing
  <2>1. /\ pc \in {"recv", "recvRest"} /\ cur \in Entries
        /\ pc' \notin {"recv", "recvRest"}
        /\ UNCHANGED <<bytesSent, valueChanged>>
    BY <1>3 DEF MeasuredReceiveNothing, ReceiveNothing, AttemptFails, NextEntry,
       AtEntry
  <2>2. CASE UNCHANGED received
    BY <2>1, <2>2 DEF Timed, InStep
  <2>3. CASE NewBytesReceived("none")
    <3>1. "none" \in {"its own", "none"}
      OBVIOUS
    <3> QED BY <2>1, <2>3, <3>1, ResponseRecorded
  <2> QED BY <1>3, <2>2, <2>3 DEF MeasuredReceiveNothing
<1>4. CASE UNCHANGED windows /\ pc' \notin {"recv", "recvRest"}
  BY <1>4 DEF windows, Timed, InStep
<1>5. CASE UNCHANGED windows /\ UNCHANGED <<pc, cur>>
  BY <1>5 DEF windows, Timed, InStep
<1>6. CASE MeasuredConnect \/ MeasuredPublish
  BY <1>4, <1>5, <1>6 DEF MeasuredConnect, MeasuredPublish, Connect, PublishCycle,
     windows
<1>7. CASE /\ ConnectRefused \/ SkipEntry \/ BeginRead \/ Timeout
           /\ UNCHANGED measured
  BY <1>4, <1>5, <1>7 DEF ConnectRefused, SkipEntry, BeginRead, Timeout,
     AttemptFails, NextEntry, measured
<1>8. CASE MeasuredPlc
  BY <1>5, <1>8 DEF MeasuredPlc, PlcServe, PlcIgnores, PlcCloses, PlcResets,
     PlcWrite
<1>9. CASE UNCHANGED measuredVars
  BY <1>5, <1>9 DEF measuredVars, measured, vars
<1> QED
  BY <1>1, <1>2, <1>3, <1>6, <1>7, <1>8, <1>9 DEF MeasuredNext, MeasuredGateway

\* With a PLC that answers in time, over a network that cuts its replies as
\* expected, a response time is that of the request the response answers, and
\* the windows never hold more responses than requests or more values than
\* responses.
THEOREM MeasuredHolds ==
    ASSUME MaxBehind = 0, CutsAsExpected
    PROVE  MeasuredSpec => []MeasuredOnItsRequest
<1>1. MeasuredInit => Newest /\ Timed
  <2> SUFFICES ASSUME MeasuredInit
               PROVE  Newest /\ Timed
    OBVIOUS
  <2>1. Newest /\ pc = "connect"
    BY DEF MeasuredInit, Init, Newest
  <2>2. <<>> \in Seq(Samples) /\ <<>> \in Seq(BOOLEAN) /\ Len(<<>>) = 0
    BY EmptySeq
  <2>3. /\ bytesSent \in [Observed -> 0..MaxList]
        /\ received \in [Observed -> Seq(Samples)]
        /\ valueChanged \in [Observed -> Seq(BOOLEAN)]
        /\ \A e \in Observed : /\ Len(valueChanged[e]) = 0 /\ Len(received[e]) = 0
                              /\ bytesSent[e] = 0
    BY <2>2 DEF MeasuredInit
  <2> QED BY <2>1, <2>3 DEF Timed, InStep
<1>2. TypeOK /\ AtEntry /\ InTime /\ InTime' /\ Newest /\ Timed
      /\ [MeasuredNext]_measuredVars => Newest' /\ Timed'
  BY NewestStep, TimedStep
<1>3. Timed => MeasuredOnItsRequest
  <2> SUFFICES ASSUME Timed, NEW e \in Observed
               PROVE  /\ \A i \in DOMAIN received[e] :
                            received[e][i].answers # "an earlier one"
                      /\ Len(valueChanged[e]) <= Len(received[e])
                      /\ Len(received[e]) <= bytesSent[e]
                      /\ bytesSent[e] <= MaxList
    BY DEF MeasuredOnItsRequest
  <2>1. received[e] \in Seq(Samples)
    BY DEF Timed
  <2>2. \A i \in 1..Len(received[e]) : received[e][i] \in Samples
    BY <2>1, ElementOfSeq
  <2>3. DOMAIN received[e] = 1..Len(received[e])
    BY <2>1, LenProperties
  <2>4. \A x \in Samples : x.answers # "an earlier one"
    BY DEF Samples
  <2> QED BY <2>2, <2>3, <2>4, WindowLengths
<1>4. MeasuredSpec => []InTime
  BY MeasuredIsLink, InTimeCorrect
<1> QED
  BY <1>1, <1>2, <1>3, <1>4, MeasuredTypes, PTL DEF MeasuredSpec
=============================================================================
