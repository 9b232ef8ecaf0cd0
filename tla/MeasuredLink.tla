---------------------------- MODULE MeasuredLink ----------------------------
(***************************************************************************)
(* SlmpLink together with what the gateway records and tells of its reads: *)
(* the statistics of an entry (RegisterStats in scan_list.py), its last    *)
(* values, and what a subscriber of the entry's topic has been sent.       *)
(*                                                                         *)
(* A window of statistics holds its last MAX_LIST_LENGTH samples. Their    *)
(* timestamps are abstracted, a response time to the request it is counted *)
(* from, and the window of bytes sent to its length: a request has as many *)
(* bytes as the next. All entries have statistics; Observed names those    *)
(* whose windows are in the model.                                         *)
(***************************************************************************)
EXTENDS SlmpLink

CONSTANTS
    Observed,       \* the entries whose statistics are looked at
    MaxList,        \* RegisterStats.MAX_LIST_LENGTH
    NothingRead     \* last_values before the first read: 2 * length zeros,
                    \* which equal nothing that is read

ASSUME ObservedAssumption == Observed \subseteq Entries
ASSUME MaxListAssumption == MaxList \in Nat \ {0}
ASSUME NothingReadAssumption == NothingRead \notin Values

VARIABLES
    bytesSent,      \* bytesSent[e]: the length of stats.bytes_sent
    received,       \* received[e]: attempt_number and response_time
    valueChanged,   \* valueChanged[e]: stats.value_changed
    last,           \* last[e]: last_values
    shown,          \* shown[e]: what was published of e last
    newest,         \* (history) where the newest request is, or its reply
    lost            \* (history) the entries whose last values an exception
                    \* has taken along

windows == <<bytesSent, received, valueChanged>>
measured == <<windows, last, shown, newest, lost>>
measuredVars == <<vars, measured>>

MeasuredInit ==
    /\ Init
    /\ bytesSent = [e \in Observed |-> 0]
    /\ received = [e \in Observed |-> <<>>]
    /\ valueChanged = [e \in Observed |-> <<>>]
    /\ last = [e \in Entries |-> NothingRead]
    /\ shown = [e \in Entries |-> NothingRead]
    /\ newest = "nowhere"
    /\ lost = {}

\* append, and pop(0) when the window is too long.
Push(window, sample) ==
    LET longer == Append(window, sample) IN
    IF Len(longer) > MaxList THEN Tail(longer) ELSE longer

\* new_bytes_sent, for the entry the pass is at.
NewBytesSent ==
    bytesSent' = [e \in Observed |->
                    IF e = cur /\ bytesSent[e] < MaxList
                    THEN bytesSent[e] + 1 ELSE bytesSent[e]]

\* new_bytes_received: the attempt it came in, and which request it answers.
NewBytesReceived(answers) ==
    received' = [e \in Observed |->
                    IF e = cur
                    THEN Push(received[e], [try |-> attempt, answers |-> answers])
                    ELSE received[e]]

\* The value of the read that returns in this step.
Decoded == batch' # batch
Value == (CHOOSE r \in batch' \ batch : TRUE).val

\* new_values(check_if_value_changed(...)), and last_values.
NewValues ==
    /\ valueChanged' = [e \in Observed |->
                          IF Decoded /\ e = cur
                          THEN Push(valueChanged[e], last[e] # Value)
                          ELSE valueChanged[e]]
    /\ last' = IF Decoded THEN [last EXCEPT ![cur] = Value] ELSE last

-----------------------------------------------------------------------------
(***************************************************************************)
(* The gateway.                                                            *)
(***************************************************************************)

\* What an exception that leaves scan_all takes along.
Forget == lost' = lost \cup {r.for : r \in batch}

MeasuredConnect ==
    /\ Connect
    /\ newest' = "nowhere"
    /\ UNCHANGED <<windows, last, shown, lost>>

\* mqttc.publish of every value of the batch.
MeasuredPublish ==
    /\ PublishCycle
    /\ shown' = [e \in Entries |->
                    IF \E r \in batch : r.for = e
                    THEN (CHOOSE r \in batch : r.for = e).val
                    ELSE shown[e]]
    /\ lost' = lost \ {r.for : r \in batch}
    /\ UNCHANGED <<windows, last, newest>>

\* A request is recorded when s.send has returned.
MeasuredSend ==
    /\ Send
    /\ \/ /\ pc' = "recv"
          /\ NewBytesSent
          /\ newest' = IF conn = "open" THEN "plc" ELSE "nowhere"
          /\ UNCHANGED lost
       \/ /\ pc' # "recv"
          /\ Forget
          /\ newest' = "nowhere"
          /\ UNCHANGED bytesSent
    /\ UNCHANGED <<received, valueChanged, last, shown>>

\* The reply to the newest request is always the last on its way: what is
\* received is of that reply when no other begins before it, and it begins
\* what is received.
OfNewest ==
    LET way == response \o toGateway IN
    newest = "gateway" /\ {i \in DOMAIN way : way[i].at = 1} = {1}

\* Whatever has been received is recorded as a response, before it is decoded.
MeasuredReceive ==
    /\ Receive \/ ReceiveRest
    /\ IF pc' = "recvRest"
       THEN UNCHANGED <<received, valueChanged, last>>
       ELSE /\ NewBytesReceived(IF OfNewest THEN "its own" ELSE "an earlier one")
            /\ NewValues
    /\ UNCHANGED <<bytesSent, shown, newest, lost>>

\* b'' is recorded as a response, alone or after 1420 bytes; a reset raises
\* before that.
MeasuredReceiveNothing ==
    /\ ReceiveNothing
    /\ IF conn = "reset" THEN UNCHANGED received ELSE NewBytesReceived("none")
    /\ UNCHANGED <<bytesSent, valueChanged, last, shown, newest, lost>>

MeasuredGateway ==
    \/ MeasuredConnect \/ MeasuredPublish \/ MeasuredSend \/ MeasuredReceive
    \/ MeasuredReceiveNothing
    \/ /\ ConnectRefused \/ SkipEntry \/ BeginRead \/ Timeout
       /\ UNCHANGED measured

-----------------------------------------------------------------------------
(***************************************************************************)
(* The PLC. The newest request is the last one it has not taken.           *)
(***************************************************************************)
MeasuredPlc ==
    /\ \/ /\ PlcServe
          /\ newest' = IF newest # "plc" \/ toPlc' # <<>> THEN newest
                       ELSE IF Len(toPlc) = 1 THEN "gateway" ELSE "nowhere"
       \/ /\ PlcIgnores \/ PlcCloses
          /\ newest' = IF newest = "plc" /\ toPlc' = <<>> THEN "nowhere" ELSE newest
       \/ /\ PlcResets
          /\ newest' = IF newest = "gateway" /\ toGateway' = toGateway
                       THEN newest ELSE "nowhere"
       \/ PlcWrite /\ UNCHANGED newest
    /\ UNCHANGED <<windows, last, shown, lost>>

MeasuredNext == MeasuredGateway \/ (~Exited /\ MeasuredPlc)

MeasuredSpec == MeasuredInit /\ [][MeasuredNext]_measuredVars

-----------------------------------------------------------------------------
(***************************************************************************)
(* Properties.                                                             *)
(***************************************************************************)

\* A response time is that of the request the response answers: retries do
\* not make it too short, nor the replies of earlier requests. And a window
\* never counts more responses than requests, nor more values than
\* responses, in as many samples as it may have.
MeasuredOnItsRequest ==
    \A e \in Observed :
        /\ \A i \in DOMAIN received[e] : received[e][i].answers # "an earlier one"
        /\ Len(valueChanged[e]) <= Len(received[e])
        /\ Len(received[e]) <= bytesSent[e]
        /\ bytesSent[e] <= MaxList

\* What the subscribers were sent of an entry is what was last read of it,
\* once its pass is over, but for the reads an exception has taken along:
\* those stay untold until the entry is read again.
SubscribersKnow ==
    \A e \in Entries :
        \/ shown[e] = last[e]
        \/ \E r \in batch : r.for = e /\ r.val = last[e]
        \/ e \in lost
=============================================================================
