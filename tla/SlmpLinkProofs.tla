--------------------------- MODULE SlmpLinkProofs ---------------------------
(***************************************************************************)
(* Theorems about SlmpLink for every scan list, every number of tries,     *)
(* every set of register values and, but where it says otherwise, every    *)
(* way in which the network cuts replies.                                  *)
(*                                                                         *)
(*  - TypeCorrect: the type invariant.                                     *)
(*  - AttributedByLength: entries of pairwise different lengths are never  *)
(*    given each other's values, however late the PLC is and wherever the  *)
(*    network cuts.                                                        *)
(*  - TimelyImplementsFeed, AttributedInTime: a PLC that answers within    *)
(*    the timeout, over a network that cuts replies where the gateway      *)
(*    expects it, makes every reading current and attributed, whatever     *)
(*    the lengths; these rest on the inductive invariant InTime.           *)
(*  - BacklogBoundedHolds: no schedule piles up requests or replies beyond *)
(*    the pieces that were taken for responses; it rests on QueueInv.      *)
(*  - NoStrays: there are no such pieces over a network that cuts replies  *)
(*    where the gateway expects it; it rests on StreamInv.                 *)
(***************************************************************************)
EXTENDS SlmpLink, SequenceTheorems, FiniteSetTheorems, TLAPS

USE NAssumption, LengthAssumption, MaxTriesAssumption, MaxBehindAssumption,
    MaxStraysAssumption

-----------------------------------------------------------------------------
(***************************************************************************)
(* The queues.                                                             *)
(***************************************************************************)

\* The two parts into which a receive splits a queue are queues of the same
\* elements, and the parts begin and end where they should.
LEMMA SplitQueue ==
    ASSUME NEW S, NEW q \in Seq(S), NEW k \in 0..Len(q)
    PROVE  /\ SubSeq(q, 1, k) \in Seq(S)
           /\ Len(SubSeq(q, 1, k)) = k
           /\ \A i \in 1..k : SubSeq(q, 1, k)[i] = q[i] /\ q[i] \in S
           /\ Without(q, k) \in Seq(S)
           /\ Len(Without(q, k)) = Len(q) - k
           /\ \A i \in 1..(Len(q) - k) : Without(q, k)[i] = q[k + i]
<1>0. Len(q) \in Nat /\ k \in Nat /\ k <= Len(q)
  BY LenProperties
<1>1. \A i \in 1..Len(q) : q[i] \in S
  BY ElementOfSeq
<1>2. /\ SubSeq(q, 1, k) \in Seq(S)
      /\ Len(SubSeq(q, 1, k)) = IF 1 <= k THEN k - 1 + 1 ELSE 0
      /\ \A i \in 1..(k - 1 + 1) : SubSeq(q, 1, k)[i] = q[1 + i - 1]
  <2>1. \A i \in 1..k : q[i] \in S
    BY <1>0, <1>1
  <2> QED
    BY ONLY <1>0, <2>1, SubSeqProperties
<1>3. /\ SubSeq(q, k + 1, Len(q)) \in Seq(S)
      /\ Len(SubSeq(q, k + 1, Len(q)))
           = IF k + 1 <= Len(q) THEN Len(q) - (k + 1) + 1 ELSE 0
      /\ \A i \in 1..(Len(q) - (k + 1) + 1) :
             SubSeq(q, k + 1, Len(q))[i] = q[k + 1 + i - 1]
  <2>1. \A i \in (k + 1)..Len(q) : q[i] \in S
    BY <1>0, <1>1
  <2>2. k + 1 \in Int /\ Len(q) \in Int
    BY <1>0
  <2> QED
    BY ONLY <2>1, <2>2, SubSeqProperties
<1> QED
  BY <1>0, <1>1, <1>2, <1>3 DEF Without

\* Two queues in a row.
LEMMA JoinQueues ==
    ASSUME NEW S, NEW q \in Seq(S), NEW r \in Seq(S)
    PROVE  /\ q \o r \in Seq(S) /\ Len(q \o r) = Len(q) + Len(r)
           /\ Len(q) \in Nat /\ Len(r) \in Nat
           /\ \A i \in 1..Len(q) : (q \o r)[i] = q[i]
           /\ \A i \in 1..Len(r) : (q \o r)[Len(q) + i] = r[i]
<1>1. /\ Len(q) \in Nat /\ Len(r) \in Nat /\ q \o r \in Seq(S)
      /\ Len(q \o r) = Len(q) + Len(r)
      /\ \A i \in 1..(Len(q) + Len(r)) :
            (q \o r)[i] = IF i <= Len(q) THEN q[i] ELSE r[i - Len(q)]
  BY ConcatProperties, LenProperties
<1> QED
  BY <1>1

\* How much a recv returns is within what is on its way, and at least a cell.
LEMMA ReceivedRange ==
    ASSUME NEW q \in Seq(Cell), NEW k \in Received(q)
    PROVE  /\ k \in 1..Len(q) /\ k \in 0..Len(q) /\ k \in Nat /\ Len(q) \in Nat
           /\ 1 \in 1..k /\ q # <<>>
           /\ Ends(q[k]) \/ q[k].at \in Cuts
<1>1. Len(q) \in Nat /\ DOMAIN q = 1..Len(q)
  BY LenProperties
<1>2. k \in 1..Len(q) /\ (Ends(q[k]) \/ q[k].at \in Cuts)
  BY <1>1 DEF Received
<1> QED
  BY <1>1, <1>2

\* What the PLC answers for the entry e when it holds v there.
Answer(q, e, v, ok) ==
    /\ Len(q) = IF ok THEN Length[e] ELSE 1
    /\ \A i \in 1..Len(q) : q[i] = [from |-> e, val |-> v, ok |-> ok, at |-> i]

LEMMA AnswerFacts ==
    ASSUME NEW e \in Entries, mem \in [Entries -> Values]
    PROVE  /\ Reply(e) \in Seq(Cell) /\ Answer(Reply(e), e, mem[e], TRUE)
           /\ Refusal(e) \in Seq(Cell) /\ Answer(Refusal(e), e, mem[e], FALSE)
<1>1. mem[e] \in Values /\ Length[e] \in Nat
  OBVIOUS
<1>2. \A i \in Nat, ok \in BOOLEAN :
        [from |-> e, val |-> mem[e], ok |-> ok, at |-> i] \in Cell
  BY <1>1 DEF Cell
<1>3. Reply(e) \in Seq(Cell) /\ Answer(Reply(e), e, mem[e], TRUE)
  <2>0. \A i \in 1..Length[e] :
          [from |-> e, val |-> mem[e], ok |-> TRUE, at |-> i] \in Cell
    <3> TAKE i \in 1..Length[e]
    <3>1. i \in Nat /\ TRUE \in BOOLEAN
      BY <1>1
    <3> QED BY <1>2, <3>1
  <2>1. Reply(e) \in [1..Length[e] -> Cell]
    BY <2>0 DEF Reply
  <2>2. Reply(e) \in Seq(Cell) /\ Len(Reply(e)) = Length[e]
    BY <1>1, <2>1, SeqDef, LenProperties
  <2> QED BY <2>2 DEF Reply, Answer
<1>4. Refusal(e) \in Seq(Cell) /\ Answer(Refusal(e), e, mem[e], FALSE)
  <2> DEFINE c == [from |-> e, val |-> mem[e], ok |-> FALSE, at |-> 1]
  <2>1. c \in Cell
    BY <1>2
  <2> HIDE DEF c
  <2>2. <<c>> \in Seq(Cell) /\ Len(<<c>>) = 1 /\ <<c>>[1] = c
    BY <2>1
  <2>3. Refusal(e) = <<c>>
    BY DEF Refusal, c
  <2>4. \A i \in 1..Len(Refusal(e)) :
          Refusal(e)[i] = [from |-> e, val |-> mem[e], ok |-> FALSE, at |-> i]
    <3> SUFFICES ASSUME NEW i \in 1..Len(Refusal(e))
                 PROVE  Refusal(e)[i] = [from |-> e, val |-> mem[e], ok |-> FALSE, at |-> i]
      OBVIOUS
    <3>1. i = 1 /\ Refusal(e)[i] = c
      BY <2>2, <2>3
    <3> QED BY <3>1 DEF c
  <2> QED BY <2>2, <2>3, <2>4 DEF Answer
<1> QED
  BY <1>3, <1>4

-----------------------------------------------------------------------------
(***************************************************************************)
(* Type correctness.                                                       *)
(***************************************************************************)

\* The parts every gateway step is made of keep their variables' types.
LEMMA MovesOn ==
    ASSUME TypeOK, cur \in Entries, AttemptFails \/ NextEntry
    PROVE  /\ pc' \in {"send", "next"}
           /\ cur' \in 1..(N + 1)
           /\ attempt' \in 1..MaxTries
           /\ seen' \subseteq Values
BY DEF TypeOK, AttemptFails, NextEntry, Entries

Readable == [for : Entries, from : Entries \cup {Nobody}, val : Values]

LEMMA ReadingType ==
    ASSUME TypeOK, cur \in Entries, NEW f \in Entries \cup {Nobody},
           NEW v \in Values, ReadReturns(f, v)
    PROVE  /\ pc' = "next"
           /\ cur' \in 1..(N + 1)
           /\ attempt' \in 1..MaxTries
           /\ seen' \subseteq Values
           /\ batch' \subseteq Readable
<1>1. NextEntry
  BY DEF ReadReturns
<1>2. batch' \subseteq Readable
  BY DEF ReadReturns, TypeOK, Readable
<1> QED
  BY <1>1, <1>2, MovesOn DEF NextEntry

\* Decoding ends an attempt, with a reading or with none.
LEMMA DecodeEnds ==
    ASSUME TypeOK, cur \in Entries, NEW got \in Seq(Cell), got # <<>>, Decode(got)
    PROVE  /\ response' = <<>> /\ strays' \in {strays, strays + 1}
           /\ HasEnd(got) => strays' = strays
           /\ ~HasEnd(got) => strays' = strays + 1
           /\ \/ AttemptFails /\ UNCHANGED batch /\ ~Acceptable(got)
              \/ /\ Acceptable(got) /\ got[1].from \in Entries /\ got[1].val \in Values
                 /\ ReadReturns(got[1].from, got[1].val)
              \/ Misread(got) /\ got[1].val \in Values /\ ReadReturns(Nobody, got[1].val)
<1>1. got[1] \in Cell
  BY EmptySeq, ElementOfSeq, LenProperties
<1>2. got[1].from \in Entries /\ got[1].val \in Values
  BY <1>1 DEF Cell
<1> QED
  BY <1>2 DEF Decode

LEMMA DecodeTypes ==
    ASSUME TypeOK, cur \in Entries, NEW got \in Seq(Cell), got # <<>>, Decode(got)
    PROVE  /\ pc' \in {"send", "next"} /\ (pc' = "send" => cur' = cur)
           /\ cur' \in 1..(N + 1)
           /\ attempt' \in 1..MaxTries
           /\ response' \in Seq(Cell) /\ strays' \in Nat
           /\ seen' \subseteq Values
           /\ batch' \subseteq Readable
<1>1. response' \in Seq(Cell) /\ strays' \in Nat
  <2>1. response' = <<>> /\ strays' \in {strays, strays + 1}
    BY DecodeEnds
  <2> QED BY <2>1, EmptySeq DEF TypeOK
<1>2. CASE AttemptFails /\ UNCHANGED batch
  <2>1. pc' = "send" => cur' = cur
    BY <1>2 DEF AttemptFails, NextEntry
  <2> QED BY <1>1, <1>2, <2>1, MovesOn DEF TypeOK, Readable
<1>3. ASSUME NEW f \in Entries \cup {Nobody}, NEW v \in Values, ReadReturns(f, v)
      PROVE  /\ pc' = "next" /\ cur' \in 1..(N + 1)
             /\ attempt' \in 1..MaxTries /\ seen' \subseteq Values
             /\ batch' \subseteq Readable
  BY <1>3, ReadingType
<1> QED
  BY <1>1, <1>2, <1>3, DecodeEnds

\* What a receive decodes, or keeps for the second one.
LEMMA GotOfReceive ==
    ASSUME TypeOK, NEW k \in Received(toGateway)
    PROVE  /\ SubSeq(toGateway, 1, k) \in Seq(Cell) /\ SubSeq(toGateway, 1, k) # <<>>
           /\ Len(SubSeq(toGateway, 1, k)) = k
           /\ Without(toGateway, k) \in Seq(Cell)
           /\ response \o SubSeq(toGateway, 1, k) \in Seq(Cell)
           /\ response \o SubSeq(toGateway, 1, k) # <<>>
<1>1. toGateway \in Seq(Cell) /\ response \in Seq(Cell)
  BY DEF TypeOK
<1>2. k \in 0..Len(toGateway) /\ k \in 1..Len(toGateway) /\ Len(toGateway) \in Nat
  BY <1>1, ReceivedRange
<1> DEFINE got == SubSeq(toGateway, 1, k)
<1>3. got \in Seq(Cell) /\ Len(got) = k /\ Without(toGateway, k) \in Seq(Cell)
  BY <1>1, <1>2, SplitQueue
<1> HIDE DEF got
<1>4. got # <<>>
  BY <1>2, <1>3, EmptySeq
<1>5. /\ response \o got \in Seq(Cell) /\ Len(response \o got) = Len(response) + k
      /\ Len(response) \in Nat
  BY <1>1, <1>3, JoinQueues
<1>6. response \o got # <<>>
  <2>1. Len(response \o got) # 0
    BY ONLY <1>2, <1>5
  <2> QED BY <2>1, EmptySeq
<1> QED
  BY <1>3, <1>4, <1>5, <1>6 DEF got

\* The program is at an entry of the list whenever it is reading.
AtEntry == pc \in {"send", "recv", "recvRest"} => cur \in Entries

LEMMA TypeStep ==
    ASSUME TypeOK, AtEntry, [Next]_vars
    PROVE  TypeOK' /\ AtEntry'
<1> USE DEF TypeOK, AtEntry, Entries
<1>1. CASE Connect
  BY <1>1, EmptySeq DEF Connect
<1>2. CASE ConnectRefused
  BY <1>2 DEF ConnectRefused, stream
<1>3. CASE PublishCycle
  BY <1>3 DEF PublishCycle, stream
<1>4. CASE SkipEntry
  BY <1>4 DEF SkipEntry, stream
<1>5. CASE BeginRead
  BY <1>5 DEF BeginRead, stream
<1>6. CASE Send
  <2>1. CASE conn = "open"
    <3>1. Append(toPlc, cur) \in Seq(Entries)
      BY <1>6, AppendProperties DEF Send
    <3> QED BY <1>6, <2>1, <3>1 DEF Send, stream
  <2>2. CASE LeaveScan("connect") \/ LeaveScan("brokenPipe")
    <3>1. <<>> \in Seq(Entries) /\ <<>> \in Seq(Cell)
      BY EmptySeq
    <3>2. /\ pc' \in {"connect", "brokenPipe"} /\ conn' = "closed"
          /\ cur' = 1 /\ attempt' = 1 /\ toPlc' = <<>> /\ toGateway' = <<>>
          /\ response' = <<>> /\ strays' = 0
          /\ seen' = {} /\ batch' = {} /\ mem' = mem
      BY <2>2 DEF LeaveScan
    <3>3. 1 \in 1..(N + 1) /\ 1 \in 1..MaxTries
      OBVIOUS
    <3> QED BY <3>1, <3>2, <3>3
  <2>3. CASE conn = "eof"
    BY <1>6, <2>3 DEF Send, stream
  <2> QED BY <1>6, <2>1, <2>2, <2>3 DEF Send
<1>7. CASE Receive
  <2>1. PICK k \in Received(toGateway) :
          /\ toGateway' = Without(toGateway, k)
          /\ \/ /\ pc' = "recvRest"
                /\ response' = SubSeq(toGateway, 1, k)
                /\ UNCHANGED <<cur, attempt, strays, seen, batch>>
             \/ Decode(SubSeq(toGateway, 1, k))
    BY <1>7 DEF Receive
  <2>2. /\ pc = "recv" /\ cur \in Entries
        /\ UNCHANGED <<conn, toPlc, mem>>
    BY <1>7 DEF Receive
  <2>3. /\ toGateway' \in Seq(Cell) /\ SubSeq(toGateway, 1, k) \in Seq(Cell)
        /\ SubSeq(toGateway, 1, k) # <<>>
    BY <2>1, GotOfReceive
  <2>4. CASE /\ pc' = "recvRest" /\ response' = SubSeq(toGateway, 1, k)
             /\ UNCHANGED <<cur, attempt, strays, seen, batch>>
    <3>1. response' \in Seq(Cell)
      BY <2>3, <2>4
    <3> QED BY <2>2, <2>3, <2>4, <3>1
  <2>5. CASE Decode(SubSeq(toGateway, 1, k))
    <3> DEFINE got == SubSeq(toGateway, 1, k)
    <3>1. got \in Seq(Cell) /\ got # <<>> /\ Decode(got)
      BY <2>3, <2>5
    <3> HIDE DEF got
    <3>2. /\ pc' \in {"send", "next"} /\ (pc' = "send" => cur' = cur)
          /\ cur' \in 1..(N + 1)
          /\ attempt' \in 1..MaxTries /\ response' \in Seq(Cell) /\ strays' \in Nat
          /\ seen' \subseteq Values /\ batch' \subseteq Readable
      BY <2>2, <3>1, DecodeTypes
    <3> QED BY <2>2, <2>3, <3>2 DEF Readable
  <2> QED BY <2>1, <2>4, <2>5
<1>8. CASE ReceiveRest
  <2>1. PICK k \in Received(toGateway) :
          /\ toGateway' = Without(toGateway, k)
          /\ Decode(response \o SubSeq(toGateway, 1, k))
    BY <1>8 DEF ReceiveRest
  <2>2. /\ pc = "recvRest" /\ cur \in Entries
        /\ UNCHANGED <<conn, toPlc, mem>>
    BY <1>8 DEF ReceiveRest
  <2>3. /\ toGateway' \in Seq(Cell)
        /\ response \o SubSeq(toGateway, 1, k) \in Seq(Cell)
        /\ response \o SubSeq(toGateway, 1, k) # <<>>
    BY <2>1, GotOfReceive
  <2> DEFINE got == response \o SubSeq(toGateway, 1, k)
  <2>4. got \in Seq(Cell) /\ got # <<>> /\ Decode(got)
    BY <2>1, <2>3
  <2> HIDE DEF got
  <2>5. /\ pc' \in {"send", "next"} /\ (pc' = "send" => cur' = cur)
        /\ cur' \in 1..(N + 1)
        /\ attempt' \in 1..MaxTries /\ response' \in Seq(Cell) /\ strays' \in Nat
        /\ seen' \subseteq Values /\ batch' \subseteq Readable
    BY <2>2, <2>4, DecodeTypes
  <2> QED BY <2>2, <2>3, <2>5 DEF Readable
<1>9. CASE Timeout
  BY <1>9, MovesOn, EmptySeq DEF Timeout, AttemptFails, NextEntry
<1>10. CASE ReceiveNothing
  BY <1>10, MovesOn, EmptySeq DEF ReceiveNothing, AttemptFails, NextEntry
<1>11. CASE PlcServe
  <2>1. PICK k \in 1..Len(toPlc) :
          /\ toPlc' = Without(toPlc, k)
          /\ \/ toGateway' = toGateway \o Reply(toPlc[1])
             \/ toGateway' = toGateway \o Refusal(toPlc[1])
    BY <1>11 DEF PlcServe
  <2>2. k \in 0..Len(toPlc) /\ 1 \in 1..Len(toPlc)
    BY <2>1, LenProperties
  <2>3. toPlc' \in Seq(Entries) /\ toPlc[1] \in Entries
    BY <2>1, <2>2, SplitQueue, ElementOfSeq
  <2>4. /\ Reply(toPlc[1]) \in Seq(Cell)
        /\ Refusal(toPlc[1]) \in Seq(Cell)
    BY <2>3, AnswerFacts
  <2>5. toGateway' \in Seq(Cell)
    <3>1. \A r \in Seq(Cell) : toGateway \o r \in Seq(Cell)
      BY ConcatProperties
    <3> QED BY <2>1, <2>4, <3>1
  <2> QED BY <1>11, <2>3, <2>5 DEF PlcServe
<1>12. CASE PlcIgnores
  <2>1. Tail(toPlc) \in Seq(Entries)
    BY <1>12, HeadTailProperties DEF PlcIgnores
  <2> QED BY <1>12, <2>1 DEF PlcIgnores, stream
<1>13. CASE PlcCloses
  BY <1>13, EmptySeq DEF PlcCloses, stream
<1>14. CASE PlcResets
  <2>1. \A k \in {0} \cup Received(toGateway) : k \in 0..Len(toGateway)
    BY ReceivedRange, LenProperties
  <2>2. \A k \in 0..Len(toGateway) : SubSeq(toGateway, 1, k) \in Seq(Cell)
    BY SplitQueue
  <2>3. toGateway' \in Seq(Cell)
    BY <1>14, <2>1, <2>2 DEF PlcResets
  <2> QED BY <1>14, <2>3, EmptySeq DEF PlcResets
<1>15. CASE PlcWrite
  BY <1>15 DEF PlcWrite, stream
<1>16. CASE UNCHANGED vars
  BY <1>16 DEF vars, stream
<1> QED
  BY <1>1, <1>2, <1>3, <1>4, <1>5, <1>6, <1>7, <1>8, <1>9, <1>10, <1>11,
     <1>12, <1>13, <1>14, <1>15, <1>16 DEF Next, Gateway, Plc

\* The variables keep their types, and the program is at an entry whenever
\* it reads, for every scan list, every behaviour of the PLC and every way in
\* which the network cuts replies.
THEOREM TypeCorrect == Spec => [](TypeOK /\ AtEntry)
<1>1. Init => TypeOK /\ AtEntry
  BY EmptySeq DEF Init, TypeOK, AtEntry, Entries
<1>2. TypeOK /\ AtEntry /\ [Next]_vars => (TypeOK /\ AtEntry)'
  BY TypeStep
<1> QED
  BY <1>1, <1>2, PTL DEF Spec

-----------------------------------------------------------------------------
(***************************************************************************)
(* Attribution by length.                                                  *)
(***************************************************************************)
DistinctLengths == \A e, f \in Entries : Length[e] = Length[f] => e = f

\* A reading that was added to the batch: that of an acceptable response, or
\* of words in the middle of one.
Added(f, v) ==
    /\ cur \in Entries /\ v \in Values
    /\ batch' = batch \cup {[for |-> cur, from |-> f, val |-> v]}

LEMMA BatchStep ==
    ASSUME TypeOK, AtEntry, [Next]_vars
    PROVE  \/ batch' = {}
           \/ batch' = batch
           \/ \E f \in Entries, v \in Values : Added(f, v) /\ Length[f] = Length[cur]
           \/ \E v \in Lookalikes : Added(Nobody, v)
<1>0. ASSUME cur \in Entries, NEW got \in Seq(Cell), got # <<>>, Decode(got)
      PROVE  \/ batch' = batch
             \/ \E f \in Entries, v \in Values : Added(f, v) /\ Length[f] = Length[cur]
             \/ \E v \in Lookalikes : Added(Nobody, v)
  BY <1>0, DecodeEnds DEF ReadReturns, Acceptable, Misread, Added
<1>1. CASE Receive
  <2>1. PICK k \in Received(toGateway) :
          UNCHANGED batch \/ Decode(SubSeq(toGateway, 1, k))
    BY <1>1 DEF Receive
  <2>2. SubSeq(toGateway, 1, k) \in Seq(Cell) /\ SubSeq(toGateway, 1, k) # <<>>
    BY GotOfReceive
  <2>3. cur \in Entries
    BY <1>1 DEF Receive, AtEntry
  <2> QED BY <1>0, <2>1, <2>2, <2>3
<1>2. CASE ReceiveRest
  <2>1. PICK k \in Received(toGateway) :
          Decode(response \o SubSeq(toGateway, 1, k))
    BY <1>2 DEF ReceiveRest
  <2>2. /\ response \o SubSeq(toGateway, 1, k) \in Seq(Cell)
        /\ response \o SubSeq(toGateway, 1, k) # <<>>
    BY GotOfReceive
  <2>3. cur \in Entries
    BY <1>2 DEF ReceiveRest, AtEntry
  <2> QED BY <1>0, <2>1, <2>2, <2>3
<1>3. CASE ~(Receive \/ ReceiveRest)
  BY <1>3 DEF Next, Gateway, Plc, vars, Connect, ConnectRefused, PublishCycle,
     SkipEntry, BeginRead, Send, LeaveScan, Timeout, ReceiveNothing, PlcServe,
     PlcIgnores, PlcCloses, PlcResets, PlcWrite
<1> QED
  BY <1>1, <1>2, <1>3

\* Entries that ask for different numbers of words are never given each
\* other's values: the length check alone tells their responses apart, for
\* any number of retries, a PLC that is any number of requests behind and a
\* network that cuts replies anywhere, as long as no words look like a header.
THEOREM AttributedByLength ==
    ASSUME DistinctLengths, Lookalikes = {}
    PROVE  Spec => []Attributed
<1>1. Init => Attributed
  BY DEF Init, Attributed
<1>2. TypeOK /\ AtEntry /\ Attributed /\ [Next]_vars => Attributed'
  <2> SUFFICES ASSUME TypeOK, AtEntry, Attributed, [Next]_vars
               PROVE  Attributed'
    OBVIOUS
  <2>1. CASE batch' = {} \/ batch' = batch
    BY <2>1 DEF Attributed
  <2>2. ASSUME NEW f \in Entries, NEW v \in Values, Added(f, v),
               Length[f] = Length[cur]
        PROVE  Attributed'
    <3>1. f = cur
      BY <2>2 DEF DistinctLengths, Added
    <3> QED BY <2>2, <3>1 DEF Attributed, Added
  <2> QED BY <2>1, <2>2, BatchStep
<1> QED
  BY <1>1, <1>2, TypeCorrect, PTL DEF Spec

-----------------------------------------------------------------------------
(***************************************************************************)
(* Counting the replies on their way by their last cells.                  *)
(***************************************************************************)
LastCells(q) == {i \in DOMAIN q : Ends(q[i])}
Counted(q) == Cardinality(LastCells(q))

LEMMA CountType ==
    ASSUME NEW q \in Seq(Cell)
    PROVE  /\ IsFiniteSet(LastCells(q))
           /\ Counted(q) \in Nat /\ Counted(q) <= Len(q)
           /\ LastCells(q) \subseteq 1..Len(q)
<1>1. Len(q) \in Nat /\ LastCells(q) \in SUBSET (1..Len(q))
  BY LenProperties DEF LastCells
<1>2. IsFiniteSet(1..Len(q)) /\ Cardinality(1..Len(q)) = Len(q)
  BY <1>1, FS_Interval
<1>3. /\ IsFiniteSet(LastCells(q))
      /\ Cardinality(LastCells(q)) <= Cardinality(1..Len(q))
  BY ONLY <1>1, <1>2, FS_Subset
<1> QED
  BY <1>1, <1>2, <1>3, FS_CardinalityType DEF Counted

LEMMA BacklogNumbers ==
    ASSUME TypeOK
    PROVE  /\ Len(toPlc) \in Nat /\ Len(toGateway) \in Nat
           /\ Counted(toGateway) \in Nat /\ Counted(toGateway) <= Len(toGateway)
           /\ Backlog = Len(toPlc) + Counted(toGateway)
BY CountType, LenProperties DEF TypeOK, Backlog, Counted, LastCells

\* With no backlog nothing is on its way but the beginning of a reply.
LEMMA NoBacklog ==
    ASSUME TypeOK, Backlog <= 0
    PROVE  toPlc = <<>> /\ \A i \in 1..Len(toGateway) : ~Ends(toGateway[i])
<1>1. Len(toPlc) = 0 /\ Counted(toGateway) = 0
  BY BacklogNumbers
<1>2. toGateway \in Seq(Cell) /\ toPlc \in Seq(Entries)
  BY DEF TypeOK
<1>3. IsFiniteSet(LastCells(toGateway))
  BY <1>2, CountType
<1>4. LastCells(toGateway) = {}
  BY <1>1, <1>3, FS_EmptySet DEF Counted
<1>5. DOMAIN toGateway = 1..Len(toGateway)
  BY <1>2, LenProperties
<1> QED
  BY <1>1, <1>2, <1>4, <1>5, EmptySeq DEF LastCells

-----------------------------------------------------------------------------
(***************************************************************************)
(* A PLC that answers in time, over a network that cuts as expected.       *)
(***************************************************************************)
Reading == pc \in {"send", "recv", "recvRest"}

\* The first 1420 bytes of the reply to e with the value v, and its rest.
FirstOf(q, e, v) ==
    /\ Len(q) = Full /\ Full < Length[e]
    /\ \A i \in 1..Len(q) : q[i] = [from |-> e, val |-> v, ok |-> TRUE, at |-> i]
RestOf(q, e, v) ==
    /\ Len(q) = Length[e] - Full
    /\ \A i \in 1..Len(q) :
          q[i] = [from |-> e, val |-> v, ok |-> TRUE, at |-> Full + i]

\* A reply of this read is on its way, whole or cut off by a reset.
Arriving(q) ==
    \E v \in seen, ok \in BOOLEAN :
        \/ Answer(q, cur, v, ok)
        \/ conn # "open" /\ FirstOf(q, cur, v)

HalfRead(p, q) ==
    \E v \in seen : FirstOf(p, cur, v) /\ (q = <<>> \/ RestOf(q, cur, v))

\* Nothing is on its way unless the gateway is waiting for it: the request
\* it has just sent, or the reply to it, with a value of the read's window.
QueuesInTime ==
    /\ pc \notin {"recv", "recvRest"} => toPlc = <<>> /\ toGateway = <<>>
    /\ pc = "recv" =>
          \/ toGateway = <<>> /\ toPlc \in {<<>>, <<cur>>}
          \/ toPlc = <<>> /\ Arriving(toGateway)
    /\ IF pc = "recvRest"
       THEN toPlc = <<>> /\ HalfRead(response, toGateway)
       ELSE response = <<>>

InTime ==
    /\ QueuesInTime
    /\ toPlc # <<>> => conn = "open"
    /\ IF Reading THEN mem[cur] \in seen ELSE seen = {}

LEMMA SplitAll ==
    ASSUME NEW S, NEW q \in Seq(S), NEW n, n = Len(q)
    PROVE  SubSeq(q, 1, n) = q /\ Without(q, n) = <<>>
<1>1. Len(q) \in Nat
  BY LenProperties
<1>2. Len(q) + 1 \in Int /\ Len(q) \in Int /\ Len(q) < Len(q) + 1
  BY <1>1
<1>3. SubSeq(q, Len(q) + 1, Len(q)) = <<>>
  BY ONLY <1>2, SubSeqEmpty
<1> QED
  BY <1>3, SubSeqFull DEF Without

LEMMA SplitOne ==
    ASSUME NEW S, NEW s \in S, NEW k \in 1..Len(<<s>>)
    PROVE  k = 1 /\ SubSeq(<<s>>, 1, k) = <<s>> /\ Without(<<s>>, k) = <<>>
<1>1. <<s>> \in Seq(S) /\ Len(<<s>>) = 1 /\ k = 1
  OBVIOUS
<1>2. SubSeq(<<s>>, 1, 1) = <<s>> /\ Without(<<s>>, 1) = <<>>
  BY ONLY <1>1, SplitAll
<1> QED
  BY <1>1, <1>2

\* Where a recv can stop in an answer, or in a part of one: at its end, or
\* after the 1420 bytes.
LEMMA StopInAnswer ==
    ASSUME CutsAsExpected, NEW e \in Entries, NEW v, NEW q \in Seq(Cell),
           NEW ok \in BOOLEAN, Answer(q, e, v, ok), NEW k \in Received(q)
    PROVE  k = Len(q) \/ (ok /\ k = Full /\ k < Length[e])
<1>1. k \in 1..Len(q) /\ k \in Nat /\ (Ends(q[k]) \/ q[k].at \in Cuts)
  BY ReceivedRange
<1>2. q[k] = [from |-> e, val |-> v, ok |-> ok, at |-> k]
  BY <1>1 DEF Answer
<1>3. q[k].from = e /\ q[k].ok = ok /\ q[k].at = k
  BY <1>2
<1>4. CASE ok
  BY <1>1, <1>3, <1>4 DEF Answer, Ends, CutsAsExpected
<1>5. CASE ~ok
  BY <1>1, <1>5 DEF Answer
<1> QED
  BY <1>4, <1>5

LEMMA StopInFirst ==
    ASSUME CutsAsExpected, NEW e \in Entries, NEW v, NEW q \in Seq(Cell),
           FirstOf(q, e, v), NEW k \in Received(q)
    PROVE  k = Len(q)
<1>1. k \in 1..Len(q) /\ k \in Nat /\ (Ends(q[k]) \/ q[k].at \in Cuts)
  BY ReceivedRange
<1>2. q[k] = [from |-> e, val |-> v, ok |-> TRUE, at |-> k]
  BY <1>1 DEF FirstOf
<1>3. q[k].from = e /\ q[k].ok = TRUE /\ q[k].at = k
  BY <1>2
<1> QED
  BY <1>1, <1>3, FullAssumption DEF FirstOf, Ends, CutsAsExpected

LEMMA StopInRest ==
    ASSUME CutsAsExpected, NEW e \in Entries, NEW v, NEW q \in Seq(Cell),
           RestOf(q, e, v), NEW k \in Received(q)
    PROVE  k = Len(q)
<1>1. k \in 1..Len(q) /\ k \in Nat /\ (Ends(q[k]) \/ q[k].at \in Cuts)
  BY ReceivedRange
<1>2. q[k] = [from |-> e, val |-> v, ok |-> TRUE, at |-> Full + k]
  BY <1>1 DEF RestOf
<1>3. q[k].from = e /\ q[k].ok = TRUE /\ q[k].at = Full + k
  BY <1>2
<1>4. Full + k \in Cuts => Full + k >= Length[e]
  BY <1>1, FullAssumption DEF CutsAsExpected
<1> QED
  BY <1>1, <1>3, <1>4, FullAssumption DEF RestOf, Ends

\* The beginning of an answer, and what is left of it.
LEMMA CutAnswer ==
    ASSUME NEW e \in Entries, NEW v, NEW q \in Seq(Cell), Answer(q, e, v, TRUE),
           Full < Length[e]
    PROVE  /\ FirstOf(SubSeq(q, 1, Full), e, v)
           /\ RestOf(Without(q, Full), e, v)
<1>1. Full \in Nat /\ Len(q) = Length[e] /\ Full \in 0..Len(q) /\ Length[e] \in Nat
  BY FullAssumption DEF Answer
<1>2. \A i \in 1..Length[e] : q[i] = [from |-> e, val |-> v, ok |-> TRUE, at |-> i]
  BY <1>1 DEF Answer
<1> DEFINE r == SubSeq(q, 1, Full)
           w == Without(q, Full)
<1>3. /\ Len(r) = Full /\ \A i \in 1..Full : r[i] = q[i]
      /\ Len(w) = Length[e] - Full
      /\ \A i \in 1..(Length[e] - Full) : w[i] = q[Full + i]
  <2>1. Full \in 0..Len(q)
    BY ONLY <1>1
  <2>2. /\ Len(r) = Full /\ \A i \in 1..Full : r[i] = q[i]
        /\ Len(w) = Len(q) - Full
        /\ \A i \in 1..(Len(q) - Full) : w[i] = q[Full + i]
    BY ONLY <2>1, q \in Seq(Cell), SplitQueue
  <2> HIDE DEF r, w
  <2> QED BY ONLY <1>1, <2>2
<1> HIDE DEF r, w
<1>4. FirstOf(r, e, v)
  BY <1>1, <1>2, <1>3 DEF FirstOf
<1>5. RestOf(w, e, v)
  <2> SUFFICES ASSUME NEW i \in 1..(Length[e] - Full)
               PROVE  w[i] = [from |-> e, val |-> v, ok |-> TRUE, at |-> Full + i]
    BY <1>3 DEF RestOf
  <2>1. Full + i \in 1..Length[e]
    BY <1>1
  <2> QED BY <1>2, <1>3, <2>1
<1> QED
  BY <1>4, <1>5 DEF r, w

LEMMA JoinAnswer ==
    ASSUME NEW e \in Entries, NEW v, NEW p \in Seq(Cell), NEW q \in Seq(Cell),
           FirstOf(p, e, v), RestOf(q, e, v)
    PROVE  Answer(p \o q, e, v, TRUE)
<1> DEFINE r == p \o q
<1>1. /\ Len(r) = Len(p) + Len(q) /\ Len(p) \in Nat /\ Len(q) \in Nat
      /\ \A i \in 1..Len(p) : r[i] = p[i]
      /\ \A i \in 1..Len(q) : r[Len(p) + i] = q[i]
  BY JoinQueues
<1> HIDE DEF r
<1>2. Len(p) = Full /\ Len(q) = Length[e] - Full /\ Full \in Nat /\ Length[e] \in Nat
  BY FullAssumption DEF FirstOf, RestOf
<1>3. Len(r) = Length[e]
  BY <1>1, <1>2
<1>4. ASSUME NEW i \in 1..Len(r)
      PROVE  r[i] = [from |-> e, val |-> v, ok |-> TRUE, at |-> i]
  <2>1. CASE i <= Full
    <3>1. i \in 1..Len(p)
      BY <1>2, <2>1
    <3> QED BY <1>1, <3>1 DEF FirstOf
  <2>2. CASE i > Full
    <3> DEFINE j == i - Full
    <3>1. j \in 1..Len(q) /\ Full + j = i
      BY <1>2, <1>3, <2>2
    <3>2. q[j] = [from |-> e, val |-> v, ok |-> TRUE, at |-> Full + j]
      BY <3>1 DEF RestOf
    <3>3. r[Full + j] = q[j]
      BY <1>1, <1>2, <3>1
    <3> QED BY <3>1, <3>2, <3>3
  <2> QED BY <1>2, <2>1, <2>2
<1> QED
  BY <1>3, <1>4 DEF Answer, r

\* An answer on an open connection has its last cell.
LEMMA AnswerEnds ==
    ASSUME NEW e \in Entries, NEW v, NEW q \in Seq(Cell), NEW ok \in BOOLEAN,
           Answer(q, e, v, ok) \/ RestOf(q, e, v), Full < Length[e] \/ Answer(q, e, v, ok)
    PROVE  \E i \in 1..Len(q) : Ends(q[i])
<1> DEFINE n == Len(q)
<1>0. Full \in Nat /\ Length[e] \in Nat \ {0}
  BY FullAssumption
<1>1. CASE Answer(q, e, v, ok)
  <2>1. n \in 1..n /\ (ok => n = Length[e])
    BY <1>0, <1>1 DEF Answer
  <2>2. q[n] = [from |-> e, val |-> v, ok |-> ok, at |-> n]
    BY <1>1, <2>1 DEF Answer
  <2>3. Ends(q[n])
    BY <2>1, <2>2 DEF Ends
  <2> QED BY <2>1, <2>3
<1>2. CASE RestOf(q, e, v) /\ Full < Length[e]
  <2>1. n \in 1..n /\ Full + n = Length[e]
    BY <1>0, <1>2 DEF RestOf
  <2>2. q[n] = [from |-> e, val |-> v, ok |-> TRUE, at |-> Full + n]
    BY <1>2, <2>1 DEF RestOf
  <2>3. Ends(q[n])
    BY <2>1, <2>2 DEF Ends
  <2> QED BY <2>1, <2>3
<1> QED
  BY <1>1, <1>2

\* What comes of decoding the answer to the entry's own request.
LEMMA DecodeInTime ==
    ASSUME TypeOK, cur \in Entries, NEW v, NEW ok \in BOOLEAN,
           NEW got \in Seq(Cell), Answer(got, cur, v, ok), Decode(got)
    PROVE  IF ok THEN ReadReturns(cur, v) ELSE AttemptFails /\ UNCHANGED batch
<1>1. Len(got) \in Nat \ {0} /\ (ok => Len(got) = Length[cur])
  BY DEF Answer
<1>2. got # <<>> /\ 1 \in 1..Len(got)
  BY <1>1, EmptySeq
<1>3. got[1] = [from |-> cur, val |-> v, ok |-> ok, at |-> 1]
  BY <1>2 DEF Answer
<1>4. got[1].from = cur /\ got[1].val = v /\ got[1].ok = ok /\ got[1].at = 1
  BY <1>3
<1>5. (Acceptable(got) <=> ok) /\ ~Misread(got)
  BY <1>1, <1>4 DEF Acceptable, Misread
<1> QED
  BY <1>2, <1>4, <1>5, DecodeEnds

\* What a receive can be when the PLC answers in time.
KeepsFirst ==
    /\ pc' = "recvRest"
    /\ UNCHANGED <<cur, attempt, seen, batch>>
    /\ \E v \in seen : /\ FirstOf(response', cur, v)
                       /\ toGateway' = <<>> \/ RestOf(toGateway', cur, v)
ReadsOwn ==
    /\ toGateway' = <<>> /\ response' = <<>>
    /\ \E v \in seen : ReadReturns(cur, v)
FailsClean ==
    /\ toGateway' = <<>> /\ response' = <<>>
    /\ AttemptFails /\ UNCHANGED batch

LEMMA ReceiveInTime ==
    ASSUME CutsAsExpected, TypeOK, AtEntry, InTime, Receive
    PROVE  toPlc' = <<>> /\ (KeepsFirst \/ ReadsOwn \/ FailsClean)
<1>1. PICK k \in Received(toGateway) :
        /\ toGateway' = Without(toGateway, k)
        /\ \/ /\ k = Full /\ pc' = "recvRest"
              /\ response' = SubSeq(toGateway, 1, k)
              /\ UNCHANGED <<cur, attempt, strays, seen, batch>>
           \/ k # Full /\ Decode(SubSeq(toGateway, 1, k))
  BY DEF Receive
<1>2. /\ toGateway \in Seq(Cell) /\ toGateway # <<>> /\ pc = "recv" /\ cur \in Entries
      /\ k \in 1..Len(toGateway) /\ Len(toGateway) \in Nat
  BY ReceivedRange DEF TypeOK, Receive, AtEntry
<1>3. toPlc = <<>> /\ toPlc' = <<>> /\ Arriving(toGateway)
  BY <1>2 DEF InTime, QueuesInTime, Receive
<1>4. PICK v \in seen, ok \in BOOLEAN :
        Answer(toGateway, cur, v, ok) \/ FirstOf(toGateway, cur, v)
  BY <1>3 DEF Arriving
<1>5. CASE Answer(toGateway, cur, v, ok) /\ k = Len(toGateway)
  <2>1. SubSeq(toGateway, 1, k) = toGateway /\ toGateway' = <<>>
    BY <1>1, <1>2, <1>5, SplitAll
  <2>2. k # Full
    BY <1>2, <1>5, FullAssumption DEF Answer
  <2>3. Decode(toGateway)
    BY <1>1, <2>1, <2>2
  <2>4. IF ok THEN ReadReturns(cur, v) ELSE AttemptFails /\ UNCHANGED batch
    BY <1>2, <1>5, <2>3, DecodeInTime
  <2>5. response' = <<>>
    BY <2>3 DEF Decode
  <2> QED BY <1>3, <2>1, <2>4, <2>5 DEF ReadsOwn, FailsClean
<1>6. CASE Answer(toGateway, cur, v, TRUE) /\ k = Full /\ k < Length[cur]
  <2>1. /\ FirstOf(SubSeq(toGateway, 1, k), cur, v)
        /\ RestOf(Without(toGateway, k), cur, v)
    BY <1>2, <1>6, CutAnswer
  <2> QED BY <1>1, <1>3, <1>6, <2>1 DEF KeepsFirst
<1>7. CASE FirstOf(toGateway, cur, v)
  <2>1. k = Len(toGateway) /\ k = Full
    BY <1>2, <1>7, StopInFirst DEF FirstOf
  <2>2. SubSeq(toGateway, 1, k) = toGateway /\ toGateway' = <<>>
    BY <1>1, <1>2, <2>1, SplitAll
  <2> QED BY <1>1, <1>3, <1>7, <2>1, <2>2 DEF KeepsFirst
<1>8. Answer(toGateway, cur, v, ok)
        => k = Len(toGateway) \/ (ok = TRUE /\ k = Full /\ k < Length[cur])
  BY <1>2, StopInAnswer
<1> QED
  BY <1>4, <1>5, <1>6, <1>7, <1>8

LEMMA ReceiveRestInTime ==
    ASSUME CutsAsExpected, TypeOK, AtEntry, InTime, ReceiveRest
    PROVE  toPlc' = <<>> /\ (ReadsOwn \/ FailsClean)
<1>1. PICK k \in Received(toGateway) :
        /\ toGateway' = Without(toGateway, k)
        /\ Decode(response \o SubSeq(toGateway, 1, k))
  BY DEF ReceiveRest
<1>2. /\ toGateway \in Seq(Cell) /\ toGateway # <<>> /\ pc = "recvRest"
      /\ response \in Seq(Cell) /\ cur \in Entries
      /\ k \in 1..Len(toGateway) /\ Len(toGateway) \in Nat
  BY ReceivedRange DEF TypeOK, ReceiveRest, AtEntry
<1>3. toPlc = <<>> /\ toPlc' = <<>> /\ HalfRead(response, toGateway)
  BY <1>2 DEF InTime, QueuesInTime, ReceiveRest
<1>4. PICK v \in seen : FirstOf(response, cur, v) /\ RestOf(toGateway, cur, v)
  BY <1>2, <1>3 DEF HalfRead
<1>5. k = Len(toGateway)
  BY <1>2, <1>4, StopInRest
<1>6. SubSeq(toGateway, 1, k) = toGateway /\ toGateway' = <<>>
  BY <1>1, <1>2, <1>5, SplitAll
<1> DEFINE got == response \o toGateway
<1>7. got \in Seq(Cell) /\ Answer(got, cur, v, TRUE) /\ Decode(got)
  BY <1>1, <1>2, <1>4, <1>6, JoinAnswer, JoinQueues
<1> HIDE DEF got
<1>8. ReadReturns(cur, v) /\ response' = <<>>
  BY <1>2, <1>7, DecodeInTime DEF Decode
<1> QED
  BY <1>3, <1>6, <1>8 DEF ReadsOwn

\* An attempt that fails leaves the window of the read as it is, or ends it.
LEMMA FailInTime ==
    ASSUME TypeOK, AtEntry, InTime, AttemptFails \/ NextEntry, Reading,
           UNCHANGED mem, toPlc' = <<>>, toGateway' = <<>>, response' = <<>>
    PROVE  InTime'
BY DEF InTime, QueuesInTime, AttemptFails, NextEntry, Reading

\* A step that adds to the window at most, and leaves the queues alone.
LEMMA WindowInTime ==
    ASSUME QueuesInTime, UNCHANGED <<pc, cur, toPlc, toGateway, response>>,
           seen \subseteq seen', conn' = conn \/ (conn' # "open" /\ toPlc = <<>>)
    PROVE  QueuesInTime'
<1>1. Arriving(toGateway) => Arriving(toGateway)'
  BY DEF Arriving, Answer, FirstOf
<1>2. HalfRead(response, toGateway) => HalfRead(response, toGateway)'
  BY DEF HalfRead, FirstOf, RestOf
<1> QED
  BY <1>1, <1>2 DEF QueuesInTime

\* A reset loses the request, and the reply but for what it had of it.
LEMMA ResetInTime ==
    ASSUME CutsAsExpected, TypeOK, AtEntry, InTime, PlcResets
    PROVE  /\ toPlc' = <<>> /\ conn' = "reset"
           /\ UNCHANGED <<pc, cur, seen, mem, response>>
           /\ \/ toGateway' = <<>>
              \/ UNCHANGED toGateway
              \/ pc = "recv" /\ \E v \in seen : FirstOf(toGateway', cur, v)
<1>1. PICK k \in {0} \cup Received(toGateway) : toGateway' = SubSeq(toGateway, 1, k)
  BY DEF PlcResets
<1>2. /\ toPlc' = <<>> /\ conn' = "reset"
      /\ UNCHANGED <<pc, cur, seen, mem, response>>
  BY DEF PlcResets
<1>3. toGateway \in Seq(Cell) /\ response \in Seq(Cell)
  BY DEF TypeOK
<1>4. CASE k = 0
  <2>1. toGateway' = <<>>
    BY <1>1, <1>4, SubSeqEmpty
  <2> QED BY <1>2, <2>1
<1>5. CASE k = Len(toGateway)
  BY <1>1, <1>2, <1>3, <1>5, SplitAll
<1>6. CASE k \in Received(toGateway) /\ k # Len(toGateway)
  <2>1. toGateway # <<>> /\ pc \in {"recv", "recvRest"} /\ cur \in Entries
    BY <1>3, <1>6, ReceivedRange DEF InTime, QueuesInTime, AtEntry
  <2>2. CASE pc = "recv"
    <3>1. PICK v \in seen, ok \in BOOLEAN :
            Answer(toGateway, cur, v, ok) \/ FirstOf(toGateway, cur, v)
      BY <2>1, <2>2 DEF InTime, QueuesInTime, Arriving
    <3>2. Answer(toGateway, cur, v, ok) /\ ok = TRUE /\ k = Full /\ k < Length[cur]
      BY <1>3, <1>6, <2>1, <3>1, StopInAnswer, StopInFirst
    <3>3. FirstOf(toGateway', cur, v)
      BY <1>1, <1>3, <2>1, <3>2, CutAnswer
    <3> QED BY <1>2, <2>2, <3>3
  <2>3. CASE pc = "recvRest"
    <3>1. PICK v \in seen : RestOf(toGateway, cur, v)
      BY <2>1, <2>3 DEF InTime, QueuesInTime, HalfRead
    <3> QED BY <1>3, <1>6, <2>1, <3>1, StopInRest
  <2> QED BY <2>1, <2>2, <2>3
<1> QED
  BY <1>1, <1>4, <1>5, <1>6

LEMMA InTimeStep ==
    ASSUME MaxBehind = 0, CutsAsExpected, TypeOK, AtEntry, InTime, [Next]_vars
    PROVE  InTime'
<1>1. CASE Receive
  <2>1. CASE KeepsFirst
    <3>1. toPlc' = <<>> /\ UNCHANGED mem /\ mem[cur] \in seen
      BY <1>1, ReceiveInTime DEF Receive, InTime, Reading
    <3>2. HalfRead(response, toGateway)'
      BY <2>1 DEF KeepsFirst, HalfRead, FirstOf, RestOf
    <3> QED BY <2>1, <3>1, <3>2 DEF KeepsFirst, InTime, QueuesInTime, Reading
  <2>2. CASE ReadsOwn \/ FailsClean
    BY <1>1, <2>2, ReceiveInTime, FailInTime
       DEF ReadsOwn, FailsClean, ReadReturns, Receive, Reading
  <2> QED BY <1>1, <2>1, <2>2, ReceiveInTime
<1>2. CASE ReceiveRest
  BY <1>2, ReceiveRestInTime, FailInTime
     DEF ReadsOwn, FailsClean, ReadReturns, ReceiveRest, Reading
<1>3. CASE Timeout
  <2>1. toPlc = <<>> /\ \A i \in 1..Len(toGateway) : ~Ends(toGateway[i])
    BY <1>3, NoBacklog DEF Timeout
  <2>2. toGateway = <<>>
    <3> SUFFICES ASSUME toGateway # <<>> PROVE FALSE
      OBVIOUS
    <3>1. toGateway \in Seq(Cell) /\ cur \in Entries /\ conn = "open"
      BY <1>3 DEF TypeOK, AtEntry, Timeout
    <3>2. CASE pc = "recv"
      <4>1. PICK v \in seen, ok \in BOOLEAN : Answer(toGateway, cur, v, ok)
        BY <3>1, <3>2 DEF InTime, QueuesInTime, Arriving
      <4> QED BY <2>1, <3>1, <4>1, AnswerEnds
    <3>3. CASE pc = "recvRest"
      <4>1. PICK v \in seen : Full < Length[cur] /\ RestOf(toGateway, cur, v)
        BY <3>1, <3>3 DEF InTime, QueuesInTime, HalfRead, FirstOf
      <4>2. TRUE \in BOOLEAN
        OBVIOUS
      <4> QED BY <2>1, <3>1, <4>1, <4>2, AnswerEnds
    <3> QED BY <1>3, <3>2, <3>3 DEF Timeout
  <2> QED BY <1>3, <2>1, <2>2, FailInTime DEF Timeout, Reading
<1>4. CASE ReceiveNothing
  <2>1. toPlc' = toPlc /\ toGateway' = <<>> /\ toGateway = <<>>
    BY <1>4 DEF ReceiveNothing
  <2>2. toPlc = <<>>
    BY <1>4 DEF ReceiveNothing, InTime
  <2> QED BY <1>4, <2>1, <2>2, FailInTime DEF ReceiveNothing, Reading
<1>5. CASE Send
  <2>1. toPlc = <<>> /\ toGateway = <<>> /\ Append(toPlc, cur) = <<cur>>
        /\ response = <<>>
    BY <1>5 DEF Send, InTime, QueuesInTime
  <2>2. CASE LeaveScan("connect") \/ LeaveScan("brokenPipe")
    BY <2>2 DEF LeaveScan, InTime, QueuesInTime, Reading
  <2>3. CASE ~(LeaveScan("connect") \/ LeaveScan("brokenPipe"))
    BY <1>5, <2>1, <2>3 DEF Send, stream, InTime, QueuesInTime, Reading
  <2> QED BY <2>2, <2>3
<1>6. CASE PlcServe
  <2>1. PICK k \in 1..Len(toPlc) :
          /\ toPlc' = Without(toPlc, k)
          /\ \/ toGateway' = toGateway \o Reply(toPlc[1])
             \/ toGateway' = toGateway \o Refusal(toPlc[1])
    BY <1>6 DEF PlcServe
  <2>2. toPlc # <<>>
    BY <2>1
  <2>3. pc = "recv" /\ toPlc = <<cur>> /\ toGateway = <<>> /\ cur \in Entries
    BY <2>2 DEF InTime, QueuesInTime, AtEntry
  <2>4. toPlc' = <<>> /\ toPlc[1] = cur
    BY <2>1, <2>3, SplitOne
  <2>5. toGateway' = Reply(cur) \/ toGateway' = Refusal(cur)
    <3>1. \A r \in Seq(Cell) : <<>> \o r = r
      BY ConcatEmptySeq
    <3>2. Reply(cur) \in Seq(Cell) /\ Refusal(cur) \in Seq(Cell)
      BY <2>3, AnswerFacts DEF TypeOK
    <3> QED BY <2>1, <2>3, <2>4, <3>1, <3>2
  <2>6. Answer(toGateway', cur, mem[cur], TRUE) \/ Answer(toGateway', cur, mem[cur], FALSE)
    BY <2>3, <2>5, AnswerFacts DEF TypeOK
  <2>7. mem[cur] \in seen
    BY <2>3 DEF InTime, Reading
  <2>8. UNCHANGED <<pc, conn, cur, response, seen, mem>>
    BY <1>6 DEF PlcServe
  <2>9. Arriving(toGateway)'
    BY <2>6, <2>7, <2>8 DEF Arriving, Answer
  <2> QED BY <2>3, <2>4, <2>7, <2>8, <2>9 DEF InTime, QueuesInTime, Reading
<1>7. CASE PlcIgnores
  <2>1. toPlc # <<>> /\ toPlc' = Tail(toPlc)
    BY <1>7 DEF PlcIgnores
  <2>2. pc = "recv" /\ toPlc = <<cur>> /\ toGateway = <<>>
    BY <2>1 DEF InTime, QueuesInTime
  <2>3. toPlc' = <<>>
    BY <2>1, <2>2
  <2> QED BY <1>7, <2>2, <2>3 DEF PlcIgnores, stream, InTime, QueuesInTime, Reading
<1>8. CASE PlcCloses
  <2>1. /\ UNCHANGED <<pc, cur, toGateway, response, seen, mem>>
        /\ conn' = "eof" /\ toPlc' = <<>>
    BY <1>8 DEF PlcCloses, stream
  <2>2. CASE toPlc = <<>>
    <3>1. QueuesInTime'
      BY <2>1, <2>2, WindowInTime DEF InTime
    <3> QED BY <2>1, <3>1 DEF InTime, Reading
  <2>3. CASE toPlc # <<>>
    BY <2>1, <2>3 DEF InTime, QueuesInTime, Reading
  <2> QED BY <2>2, <2>3
<1>9. CASE PlcResets
  <2>1. /\ toPlc' = <<>> /\ conn' = "reset"
        /\ UNCHANGED <<pc, cur, seen, mem, response>>
        /\ \/ toGateway' = <<>>
           \/ UNCHANGED toGateway
           \/ pc = "recv" /\ \E v \in seen : FirstOf(toGateway', cur, v)
    BY <1>9, ResetInTime
  <2>2. QueuesInTime'
    <3>1. CASE toGateway' = <<>>
      <4>1. HalfRead(response, toGateway) => HalfRead(response, toGateway)'
        BY <2>1, <3>1 DEF HalfRead, FirstOf
      <4> QED BY <2>1, <3>1, <4>1 DEF InTime, QueuesInTime
    <3>2. CASE UNCHANGED toGateway /\ toPlc = <<>>
      BY <2>1, <3>2, WindowInTime DEF InTime
    <3>3. CASE UNCHANGED toGateway /\ toPlc # <<>>
      BY <2>1, <3>3 DEF InTime, QueuesInTime
    <3>4. CASE pc = "recv" /\ \E v \in seen : FirstOf(toGateway', cur, v)
      <4>1. Arriving(toGateway)'
        BY <2>1, <3>4 DEF Arriving, FirstOf
      <4> QED BY <2>1, <3>4, <4>1 DEF InTime, QueuesInTime
    <3> QED BY <2>1, <3>1, <3>2, <3>3, <3>4
  <2> QED BY <2>1, <2>2 DEF InTime, Reading
<1>10. CASE PlcWrite
  <2>1. PICK e \in Entries, v \in Values :
          /\ mem' = [mem EXCEPT ![e] = v]
          /\ seen' = IF Reading /\ e = cur THEN seen \cup {v} ELSE seen
    BY <1>10 DEF PlcWrite, Reading
  <2>2. /\ UNCHANGED <<pc, conn, cur, toPlc, toGateway, response>>
        /\ seen \subseteq seen'
    BY <1>10, <2>1 DEF PlcWrite, stream
  <2>3. Reading => cur \in Entries
    BY DEF Reading, AtEntry
  <2>4. IF Reading' THEN mem'[cur'] \in seen' ELSE seen' = {}
    BY <2>1, <2>2, <2>3 DEF InTime, TypeOK, Reading
  <2>5. QueuesInTime'
    BY <2>2, WindowInTime DEF InTime
  <2> QED BY <2>2, <2>4, <2>5 DEF InTime
<1>11. CASE Connect \/ ConnectRefused \/ PublishCycle \/ SkipEntry \/ BeginRead
  BY <1>11 DEF Connect, ConnectRefused, PublishCycle, SkipEntry, BeginRead, stream,
     InTime, QueuesInTime, Reading
<1>12. CASE UNCHANGED vars
  <2>1. UNCHANGED <<pc, conn, cur, toPlc, toGateway, response, mem, seen>>
    BY <1>12 DEF vars, stream
  <2>2. QueuesInTime'
    BY <2>1, WindowInTime DEF InTime
  <2> QED BY <2>1, <2>2 DEF InTime, Reading
<1> QED
  BY <1>1, <1>2, <1>3, <1>4, <1>5, <1>6, <1>7, <1>8, <1>9, <1>10, <1>11,
     <1>12 DEF Next, Gateway, Plc

\* The invariant of a PLC that answers in time, over a network that cuts its
\* replies as expected.
LEMMA InTimeCorrect ==
    ASSUME MaxBehind = 0, CutsAsExpected
    PROVE  Spec => []InTime
<1>1. Init => InTime
  BY DEF Init, InTime, QueuesInTime, Reading
<1>2. TypeOK /\ AtEntry /\ InTime /\ [Next]_vars => InTime'
  BY InTimeStep
<1> QED
  BY <1>1, <1>2, TypeCorrect, PTL DEF Spec

\* When the PLC answers within the socket timeout or not at all, and the
\* network cuts its replies after 1420 bytes or not at all, every published
\* reading was read from the entry it is published for, whatever the lengths,
\* refusals, lost requests, resets and retries.
THEOREM AttributedInTime ==
    ASSUME MaxBehind = 0, CutsAsExpected
    PROVE  Spec => []Attributed
<1>1. Init => Attributed
  BY DEF Init, Attributed
<1>2. TypeOK /\ AtEntry /\ InTime /\ Attributed /\ [Next]_vars => Attributed'
  <2> SUFFICES ASSUME TypeOK, AtEntry, InTime, Attributed, [Next]_vars
               PROVE  Attributed'
    OBVIOUS
  <2>1. CASE batch' = {} \/ batch' = batch
    BY <2>1 DEF Attributed
  <2>2. CASE ReadsOwn
    BY <2>2 DEF Attributed, ReadsOwn, ReadReturns
  <2>3. CASE Receive
    BY <2>1, <2>2, <2>3, ReceiveInTime DEF KeepsFirst, FailsClean
  <2>4. CASE ReceiveRest
    BY <2>1, <2>2, <2>4, ReceiveRestInTime DEF FailsClean
  <2>5. CASE ~(Receive \/ ReceiveRest)
    BY <2>1, <2>5 DEF Next, Gateway, Plc, vars, Connect, ConnectRefused,
       PublishCycle, SkipEntry, BeginRead, Send, LeaveScan, Timeout,
       ReceiveNothing, PlcServe, PlcIgnores, PlcCloses, PlcResets, PlcWrite
  <2> QED BY <2>3, <2>4, <2>5
<1> QED
  BY <1>1, <1>2, TypeCorrect, InTimeCorrect, PTL DEF Spec

\* A failed attempt, seen from the abstract specification.
LEMMA FailStep ==
    ASSUME TypeOK, AtEntry, AttemptFails, pc \in {"recv", "recvRest"},
           UNCHANGED <<mem, batch>>
    PROVE  Feed!Fail \/ UNCHANGED Feed!vars
BY DEF AttemptFails, NextEntry, AtEntry, Entries, Feed!Fail, Feed!Idle, Feed!vars

LEMMA ReadingsGrow ==
    ASSUME NEW B, NEW C, NEW x, C = B \cup {x}
    PROVE  Readings(C) = Readings(B) \cup {Public(x)}
BY DEF Readings

LEMMA ReadingsEmpty == ASSUME NEW B, B = {} PROVE Readings(B) = {}
BY DEF Readings

LEMMA ReturnStep ==
    ASSUME TypeOK, AtEntry, NEW v \in seen, ReadReturns(cur, v),
           pc \in {"recv", "recvRest"}, UNCHANGED mem
    PROVE  Feed!Return(v) /\ v \in Values
<1>1. v \in Values
  BY DEF TypeOK
<1>2. Readings(batch') = Readings(batch) \cup {[for |-> cur, val |-> v]}
  <2> DEFINE x == [for |-> cur, from |-> cur, val |-> v]
             y == [for |-> cur, val |-> v]
  <2>1. batch' = batch \cup {x} /\ Public(x) = y
    BY DEF ReadReturns, Public
  <2> SUFFICES Readings(batch') = Readings(batch) \cup {y}
    OBVIOUS
  <2> HIDE DEF x, y
  <2>2. Readings(batch') = Readings(batch) \cup {Public(x)}
    BY ONLY <2>1, ReadingsGrow
  <2> QED BY ONLY <2>1, <2>2
<1>3. Feed!Return(v)
  BY <1>1, <1>2 DEF ReadReturns, NextEntry, Feed!Return, Feed!Idle
<1> QED
  BY <1>1, <1>3

\* Every step of the link is a step of the register feed, or none at all.
LEMMA FeedStep ==
    ASSUME CutsAsExpected, TypeOK, AtEntry, InTime, [Next]_vars
    PROVE  [Feed!Next]_(Feed!vars)
<1>0. ASSUME ReadsOwn, pc \in {"recv", "recvRest"}, UNCHANGED mem
      PROVE  Feed!Next
  BY <1>0, ReturnStep DEF ReadsOwn, Feed!Next
<1>1. CASE Receive
  <2>1. CASE KeepsFirst
    BY <1>1, <2>1 DEF Receive, KeepsFirst, Feed!vars
  <2>2. CASE ReadsOwn
    BY <1>0, <1>1, <2>2 DEF Receive
  <2>3. CASE FailsClean
    BY <1>1, <2>3, FailStep DEF Receive, FailsClean, Feed!Next
  <2> QED BY <1>1, <2>1, <2>2, <2>3, ReceiveInTime
<1>2. CASE ReceiveRest
  <2>1. CASE ReadsOwn
    BY <1>0, <1>2, <2>1 DEF ReceiveRest
  <2>2. CASE FailsClean
    BY <1>2, <2>2, FailStep DEF ReceiveRest, FailsClean, Feed!Next
  <2> QED BY <1>2, <2>1, <2>2, ReceiveRestInTime
<1>3. CASE Timeout \/ ReceiveNothing
  BY <1>3, FailStep DEF Timeout, ReceiveNothing, Feed!Next
<1>4. CASE PublishCycle
  <2>1. Readings(batch') = {}
    BY <1>4, ReadingsEmpty DEF PublishCycle
  <2>2. Feed!EndCycle
    BY <1>4, <2>1 DEF PublishCycle, Feed!EndCycle, Feed!Idle, InTime, Reading
  <2> QED BY <2>2 DEF Feed!Next
<1>5. CASE BeginRead
  BY <1>5 DEF BeginRead, Feed!Next, Feed!Begin, Feed!Idle, Feed!vars
<1>6. CASE Send
  <2>1. CASE LeaveScan("connect") \/ LeaveScan("brokenPipe")
    BY <2>1, ReadingsEmpty DEF LeaveScan, Feed!Next, Feed!EndCycle, Feed!Idle
  <2>2. CASE pc' = "recv" /\ UNCHANGED <<cur, mem, seen, batch>>
    BY <1>6, <2>2 DEF Send, Feed!vars
  <2> QED BY <1>6, <2>1, <2>2 DEF Send
<1>7. CASE PlcWrite
  <2>1. PICK e \in Entries, v \in Values :
          /\ mem' = [mem EXCEPT ![e] = v]
          /\ seen' = IF Reading /\ e = cur THEN seen \cup {v} ELSE seen
    BY <1>7 DEF PlcWrite, Reading
  <2>2. e # 0
    BY DEF Entries
  <2>3. Feed!Write(e, v)
    BY <1>7, <2>1, <2>2 DEF PlcWrite, Feed!Write, Reading
  <2> QED BY <2>3 DEF Feed!Next
<1>8. CASE Connect \/ ConnectRefused \/ SkipEntry \/ PlcServe \/ PlcIgnores
           \/ PlcCloses \/ PlcResets \/ UNCHANGED vars
  <2>1. /\ UNCHANGED <<mem, seen, batch>>
        /\ (Reading \/ Reading') => UNCHANGED <<pc, cur>>
    BY <1>8 DEF Connect, ConnectRefused, SkipEntry, PlcServe, PlcIgnores,
       PlcCloses, PlcResets, vars, Reading
  <2>2. Readings(batch') = Readings(batch)
    BY <2>1
  <2> QED BY <2>1, <2>2 DEF Feed!vars, Reading
<1> QED
  BY <1>1, <1>2, <1>3, <1>4, <1>5, <1>6, <1>7, <1>8 DEF Next, Gateway, Plc

\* When the PLC answers within the socket timeout or not at all, and the
\* network cuts its replies after 1420 bytes or not at all, the link
\* implements the register feed: a reading is a value its entry held while
\* that very read was under way.
THEOREM TimelyImplementsFeed ==
    ASSUME MaxBehind = 0, CutsAsExpected
    PROVE  Spec => ImplementsFeed
<1>1. Init => Feed!Init
  BY ReadingsEmpty DEF Init, Feed!Init, Feed!Idle
<1>2. TypeOK /\ AtEntry /\ InTime /\ [Next]_vars => [Feed!Next]_(Feed!vars)
  BY FeedStep
<1> QED
  BY <1>1, <1>2, TypeCorrect, InTimeCorrect, PTL DEF Spec, ImplementsFeed, Feed!Spec

-----------------------------------------------------------------------------
(***************************************************************************)
(* The backlog.                                                            *)
(***************************************************************************)

\* A queue whose first k cells are gone counts less when one of them ends a
\* reply.
LEMMA CountDropped ==
    ASSUME NEW q \in Seq(Cell), NEW r \in Seq(Cell), NEW k \in Nat,
           Len(r) = Len(q) - k, \A i \in 1..Len(r) : r[i] = q[k + i]
    PROVE  /\ Counted(r) <= Counted(q)
           /\ \A j \in 1..Len(q) :
                j <= k /\ Ends(q[j]) => Counted(r) + 1 <= Counted(q)
<1> DEFINE T == {i \in LastCells(q) : i > k}
           f == [i \in LastCells(r) |-> k + i]
<1>0. Len(q) \in Nat /\ Len(r) \in Nat /\ DOMAIN q = 1..Len(q) /\ DOMAIN r = 1..Len(r)
  BY LenProperties
<1>1. f \in Injection(LastCells(r), T)
  <2>1. ASSUME NEW i \in LastCells(r) PROVE k + i \in T
    <3>1. i \in 1..Len(r) /\ Ends(r[i])
      BY <1>0 DEF LastCells
    <3>2. k + i \in 1..Len(q) /\ k + i > k /\ Ends(q[k + i])
      BY <1>0, <3>1
    <3> QED BY <1>0, <3>2 DEF LastCells
  <2>2. \A i, j \in LastCells(r) : k + i = k + j => i = j
    BY <1>0 DEF LastCells
  <2> QED BY <2>1, <2>2 DEF Injection, IsInjective
<1>2. IsFiniteSet(LastCells(q)) /\ Counted(q) \in Nat /\ Counted(r) \in Nat
  BY CountType
<1> HIDE DEF f
<1>3. T \in SUBSET LastCells(q)
  OBVIOUS
<1>4. IsFiniteSet(T) /\ Cardinality(T) <= Counted(q) /\ Cardinality(T) \in Nat
  BY <1>2, <1>3, FS_Subset, FS_CardinalityType DEF Counted
<1>5. Counted(r) <= Cardinality(T)
  <2> HIDE DEF T
  <2> QED BY ONLY <1>1, <1>4, FS_Injection DEF Counted
<1>6. Counted(r) <= Counted(q)
  BY <1>2, <1>4, <1>5
<1>7. ASSUME NEW j \in 1..Len(q), j <= k, Ends(q[j])
      PROVE  Counted(r) + 1 <= Counted(q)
  <2> DEFINE U == LastCells(q) \ {j}
  <2>1. j \in LastCells(q)
    BY <1>0, <1>7 DEF LastCells
  <2>2. IsFiniteSet(U) /\ Cardinality(U) = Counted(q) - 1
    BY <1>2, <2>1, FS_RemoveElement DEF Counted
  <2>3. T \in SUBSET U
    BY <1>7
  <2> HIDE DEF T, U
  <2>4. Cardinality(T) <= Cardinality(U)
    BY <2>2, <2>3, FS_Subset
  <2> QED BY <1>2, <1>4, <1>5, <2>2, <2>4
<1> QED
  BY <1>6, <1>7

LEMMA CountPrefix ==
    ASSUME NEW q \in Seq(Cell), NEW r \in Seq(Cell),
           Len(r) <= Len(q), \A i \in 1..Len(r) : r[i] = q[i]
    PROVE  Counted(r) <= Counted(q)
<1>1. Len(q) \in Nat /\ Len(r) \in Nat /\ DOMAIN q = 1..Len(q) /\ DOMAIN r = 1..Len(r)
  BY LenProperties
<1>2. LastCells(r) \in SUBSET LastCells(q)
  BY <1>1 DEF LastCells
<1> QED
  BY <1>2, CountType, FS_Subset DEF Counted

\* An answer ends with its last cell and with no other.
LEMMA AnswerLast ==
    ASSUME NEW e \in Entries, NEW v, NEW ok \in BOOLEAN, NEW r \in Seq(Cell),
           Answer(r, e, v, ok), NEW i \in 1..Len(r), Ends(r[i])
    PROVE  i = Len(r)
<1>1. r[i] = [from |-> e, val |-> v, ok |-> ok, at |-> i]
  BY DEF Answer
<1>2. r[i].from = e /\ r[i].ok = ok /\ r[i].at = i
  BY <1>1
<1> QED
  BY <1>2 DEF Ends, Answer

\* Hence it counts as one reply, of whatever length.
LEMMA CountAnswer ==
    ASSUME NEW e \in Entries, NEW v, NEW ok \in BOOLEAN, NEW q \in Seq(Cell),
           NEW r \in Seq(Cell), Answer(r, e, v, ok)
    PROVE  Counted(q \o r) <= Counted(q) + 1
<1> DEFINE qr == q \o r
           n == Len(q) + Len(r)
<1>1. /\ Len(q) \in Nat /\ Len(r) \in Nat /\ qr \in Seq(Cell) /\ Len(qr) = n
      /\ \A i \in 1..Len(q) : qr[i] = q[i]
      /\ \A i \in 1..Len(r) : qr[Len(q) + i] = r[i]
  BY JoinQueues
<1>2. DOMAIN q = 1..Len(q) /\ DOMAIN qr = 1..n
  BY <1>1, LenProperties
<1> HIDE DEF qr
<1>3. LastCells(qr) \in SUBSET (LastCells(q) \cup {n})
  <2> SUFFICES ASSUME NEW i \in 1..n, Ends(qr[i]), i # n
               PROVE  i \in LastCells(q)
    BY <1>2 DEF LastCells
  <2>1. CASE i <= Len(q)
    BY <1>1, <1>2, <2>1 DEF LastCells
  <2>2. CASE i > Len(q)
    <3> DEFINE j == i - Len(q)
    <3>1. j \in 1..Len(r) /\ Len(q) + j = i /\ j # Len(r)
      BY <1>1, <2>2
    <3>2. Ends(r[j])
      BY <1>1, <3>1
    <3> HIDE DEF j
    <3> QED BY <3>1, <3>2, AnswerLast
  <2> QED BY <1>1, <2>1, <2>2
<1>4. Counted(qr) <= Counted(q) + 1
  <2> DEFINE L == LastCells(q)
             U == L \cup {n}
  <2>1. IsFiniteSet(L) /\ Cardinality(L) = Counted(q) /\ Counted(q) \in Nat
    BY CountType DEF Counted
  <2>2. Counted(qr) \in Nat /\ LastCells(qr) \in SUBSET U
    BY <1>1, <1>3, CountType
  <2> HIDE DEF L
  <2>3. /\ IsFiniteSet(U)
        /\ Cardinality(U) = Cardinality(L) \/ Cardinality(U) = Cardinality(L) + 1
    BY ONLY <2>1, FS_AddElement
  <2> HIDE DEF U
  <2>4. Cardinality(LastCells(qr)) <= Cardinality(U)
    BY ONLY <2>2, <2>3, FS_Subset
  <2> QED BY <2>1, <2>2, <2>3, <2>4 DEF Counted
<1> QED
  BY <1>4 DEF qr

\* What a receive takes off the stream: the reply whose end it takes is not
\* counted any more.
LEMMA ReceiveDrops ==
    ASSUME NEW q \in Seq(Cell), NEW k \in Received(q)
    PROVE  /\ Counted(Without(q, k)) <= Counted(q)
           /\ HasEnd(SubSeq(q, 1, k)) => Counted(Without(q, k)) + 1 <= Counted(q)
<1> DEFINE r == Without(q, k)
           got == SubSeq(q, 1, k)
<1>1. k \in Nat /\ k \in 0..Len(q) /\ Len(q) \in Nat
  BY ReceivedRange
<1>2. /\ r \in Seq(Cell) /\ Len(r) = Len(q) - k
      /\ \A i \in 1..(Len(q) - k) : r[i] = q[k + i]
      /\ got \in Seq(Cell) /\ Len(got) = k /\ \A i \in 1..k : got[i] = q[i]
  BY <1>1, SplitQueue
<1> HIDE DEF r, got
<1>3. /\ Counted(r) <= Counted(q)
      /\ \A j \in 1..Len(q) : j <= k /\ Ends(q[j]) => Counted(r) + 1 <= Counted(q)
  BY <1>1, <1>2, CountDropped
<1>4. ASSUME HasEnd(got) PROVE \E j \in 1..Len(q) : j <= k /\ Ends(q[j])
  <2>1. DOMAIN got = 1..k
    BY <1>2, LenProperties
  <2>2. PICK j \in 1..k : Ends(got[j])
    BY <1>4, <2>1 DEF HasEnd
  <2>3. j \in 1..Len(q) /\ j <= k /\ Ends(q[j])
    BY <1>1, <1>2, <2>2
  <2> QED BY <2>3
<1> QED
  BY <1>3, <1>4 DEF r, got

\* What two receives have got has an end only if one of them has.
LEMMA EndOfBoth ==
    ASSUME NEW p \in Seq(Cell), NEW q \in Seq(Cell), HasEnd(p \o q)
    PROVE  HasEnd(p) \/ HasEnd(q)
<1> DEFINE pq == p \o q
<1>1. /\ Len(p) \in Nat /\ Len(q) \in Nat /\ pq \in Seq(Cell)
      /\ Len(pq) = Len(p) + Len(q)
      /\ \A i \in 1..Len(p) : pq[i] = p[i]
      /\ \A i \in 1..Len(q) : pq[Len(p) + i] = q[i]
  BY JoinQueues
<1>2. DOMAIN p = 1..Len(p) /\ DOMAIN q = 1..Len(q) /\ DOMAIN pq = 1..Len(pq)
  BY <1>1, LenProperties
<1>3. HasEnd(pq)
  OBVIOUS
<1> HIDE DEF pq
<1>4. PICK i \in 1..Len(pq) : Ends(pq[i])
  BY <1>2, <1>3 DEF HasEnd
<1>5. CASE i <= Len(p)
  BY <1>1, <1>2, <1>4, <1>5 DEF HasEnd
<1>6. CASE i > Len(p)
  <2>1. i - Len(p) \in 1..Len(q) /\ Len(p) + (i - Len(p)) = i
    BY <1>1, <1>6
  <2> QED BY <1>1, <1>2, <1>4, <2>1 DEF HasEnd
<1> QED
  BY <1>1, <1>5, <1>6

LEMMA EndOfOne ==
    ASSUME NEW p \in Seq(Cell), NEW q \in Seq(Cell), HasEnd(p) \/ HasEnd(q)
    PROVE  HasEnd(p \o q)
<1> DEFINE pq == p \o q
<1>1. /\ Len(p) \in Nat /\ Len(q) \in Nat /\ pq \in Seq(Cell)
      /\ Len(pq) = Len(p) + Len(q)
      /\ \A i \in 1..Len(p) : pq[i] = p[i]
      /\ \A i \in 1..Len(q) : pq[Len(p) + i] = q[i]
  BY JoinQueues
<1>2. DOMAIN p = 1..Len(p) /\ DOMAIN q = 1..Len(q) /\ DOMAIN pq = 1..Len(pq)
  BY <1>1, LenProperties
<1> HIDE DEF pq
<1>3. HasEnd(pq)
  <2>1. CASE HasEnd(p)
    <3>1. PICK i \in 1..Len(p) : Ends(p[i])
      BY <1>2, <2>1 DEF HasEnd
    <3>2. i \in 1..Len(pq) /\ Ends(pq[i])
      BY <1>1, <3>1
    <3> QED BY <1>2, <3>2 DEF HasEnd
  <2>2. CASE HasEnd(q)
    <3>1. PICK i \in 1..Len(q) : Ends(q[i])
      BY <1>2, <2>2 DEF HasEnd
    <3>2. Len(p) + i \in 1..Len(pq) /\ Ends(pq[Len(p) + i])
      BY <1>1, <3>1
    <3> QED BY <1>2, <3>2 DEF HasEnd
  <2> QED BY <2>1, <2>2
<1> QED
  BY <1>3 DEF pq

(***************************************************************************)
(* What bounds the backlog is where the end of a reply goes: while the     *)
(* gateway waits it is on the stream, or the first receive has got it; an  *)
(* attempt that is over has taken it off the stream, or counts a stray.    *)
(***************************************************************************)
Waiting == pc \in {"recv", "recvRest"}
Quiet == conn # "open" => toPlc = <<>>
FirstKept == pc # "recvRest" => response = <<>>
Expected == IF Waiting /\ ~HasEnd(response) THEN 1 ELSE 0

QueueInv == Quiet /\ FirstKept /\ Backlog <= MaxBehind + strays + Expected

LEMMA NothingHasNoEnd == ~HasEnd(<<>>)
BY DEF HasEnd

LEMMA EmptyQueues == Counted(<<>>) = 0 /\ Len(<<>>) = 0 /\ <<>> \in Seq(Cell)
<1>1. <<>> \in Seq(Cell) /\ Len(<<>>) = 0
  BY EmptySeq
<1>2. Counted(<<>>) \in Nat /\ Counted(<<>>) <= 0
  BY <1>1, CountType
<1> QED
  BY <1>1, <1>2

LEMMA ExpectedIs01 == Expected \in {0, 1} /\ (~Waiting => Expected = 0)
BY DEF Expected

LEMMA RoomLeft ==
    ASSUME NEW b \in Nat, NEW m \in Nat, NEW s \in Nat, NEW x \in Nat, b <= m + s
    PROVE  b <= m + s + x
OBVIOUS

\* A step after which both queues are empty.
LEMMA EmptyStep ==
    ASSUME TypeOK', toPlc' = <<>>, toGateway' = <<>>, FirstKept'
    PROVE  QueueInv'
<1>1. Backlog' = Len(toPlc') + Counted(toGateway')
  BY DEF Backlog, Counted, LastCells
<1>2. Backlog' = 0
  BY <1>1, EmptyQueues
<1>3. Expected' \in {0, 1} /\ strays' \in Nat
  BY DEF Expected, TypeOK
<1>4. Backlog' <= MaxBehind + strays' + Expected'
  <2>1. Expected' \in Nat /\ Backlog' \in Nat /\ strays' \in Nat
    BY <1>2, <1>3
  <2>2. MaxBehind \in Nat
    OBVIOUS
  <2>3. ASSUME NEW b, NEW s \in Nat, b = 0 PROVE b <= MaxBehind + s
    BY <2>2, <2>3
  <2>4. Backlog' <= MaxBehind + strays'
    BY ONLY <1>2, <2>1, <2>3
  <2> QED BY ONLY <2>1, <2>2, <2>4, RoomLeft
<1>5. Quiet'
  BY DEF Quiet
<1> QED
  BY <1>4, <1>5 DEF QueueInv

\* A step that leaves the connection, the queues and the waiting alone.
LEMMA AsideStep ==
    ASSUME TypeOK, QueueInv, UNCHANGED <<conn, toPlc, stream>>,
           UNCHANGED pc \/ ~(Waiting \/ Waiting')
    PROVE  QueueInv'
<1>1. /\ Backlog' = Backlog /\ Quiet' /\ FirstKept' /\ strays' = strays
      /\ response' = response
  BY DEF QueueInv, Backlog, Quiet, FirstKept, stream, Waiting
<1>2. Expected' = Expected
  BY <1>1 DEF Expected, Waiting, HasEnd
<1> QED
  BY <1>1, <1>2 DEF QueueInv

\* The numbers that a step of the queues is about.
LEMMA NextNumbers ==
    ASSUME TypeOK'
    PROVE  /\ Len(toPlc') \in Nat /\ Counted(toGateway') \in Nat
           /\ Backlog' = Len(toPlc') + Counted(toGateway')
           /\ strays' \in Nat /\ Expected' \in {0, 1}
<1>1. toPlc' \in Seq(Entries) /\ toGateway' \in Seq(Cell) /\ strays' \in Nat
  BY DEF TypeOK
<1>2. Backlog' = Len(toPlc') + Counted(toGateway') /\ Expected' \in {0, 1}
  BY DEF Backlog, Counted, LastCells, Expected
<1> QED
  BY <1>1, <1>2, CountType, LenProperties

\* Decoding ends the wait: the end of the reply has been taken off the
\* stream, or a stray is counted.
LEMMA DecodeStep ==
    ASSUME TypeOK, TypeOK', QueueInv, Waiting, cur \in Entries,
           UNCHANGED <<conn, toPlc>>, NEW k \in Received(toGateway),
           toGateway' = Without(toGateway, k),
           NEW got \in Seq(Cell), got # <<>>, Decode(got),
           HasEnd(got) => HasEnd(response) \/ HasEnd(SubSeq(toGateway, 1, k))
    PROVE  QueueInv'
<1>1. toGateway \in Seq(Cell) /\ strays \in Nat
  BY DEF TypeOK
<1>2. /\ Counted(toGateway') <= Counted(toGateway)
      /\ HasEnd(SubSeq(toGateway, 1, k))
            => Counted(toGateway') + 1 <= Counted(toGateway)
  BY <1>1, ReceiveDrops
<1>3. /\ Backlog <= MaxBehind + strays + Expected /\ Expected \in {0, 1}
      /\ HasEnd(response) => Expected = 0
  BY ExpectedIs01 DEF QueueInv, Expected
<1>4. /\ response' = <<>> /\ (HasEnd(got) => strays' = strays)
      /\ (~HasEnd(got) => strays' = strays + 1)
  BY DecodeEnds
<1>5. Len(toPlc') = Len(toPlc)
  OBVIOUS
<1>6. Backlog' <= MaxBehind + strays'
  <2>1. /\ Len(toPlc) \in Nat /\ Counted(toGateway) \in Nat
        /\ Backlog = Len(toPlc) + Counted(toGateway)
    BY BacklogNumbers
  <2>2. /\ Counted(toGateway') \in Nat /\ Backlog' = Len(toPlc') + Counted(toGateway')
    BY NextNumbers
  <2> QED BY <1>1, <1>2, <1>3, <1>4, <1>5, <2>1, <2>2
<1>7. Quiet' /\ FirstKept'
  BY <1>4 DEF QueueInv, Quiet, FirstKept
<1>8. Expected' \in {0, 1} /\ Backlog' \in Nat /\ strays' \in Nat
  BY NextNumbers
<1>9. Backlog' <= MaxBehind + strays' + Expected'
  <2>1. Expected' \in Nat /\ MaxBehind \in Nat
    BY <1>8
  <2> QED BY ONLY <1>6, <1>8, <2>1, RoomLeft
<1> QED
  BY <1>7, <1>9 DEF QueueInv

LEMMA QueueStep ==
    ASSUME TypeOK, TypeOK', AtEntry, QueueInv, [Next]_vars
    PROVE  QueueInv'
<1>0. /\ Len(toPlc) \in Nat /\ Counted(toGateway) \in Nat /\ strays \in Nat
      /\ Backlog = Len(toPlc) + Counted(toGateway)
      /\ Expected \in {0, 1}
      /\ Backlog <= MaxBehind + strays + Expected
      /\ toPlc \in Seq(Entries) /\ toGateway \in Seq(Cell) /\ response \in Seq(Cell)
  BY BacklogNumbers, ExpectedIs01 DEF TypeOK, QueueInv
<1>00. /\ Len(toPlc') \in Nat /\ Counted(toGateway') \in Nat
       /\ Backlog' = Len(toPlc') + Counted(toGateway')
       /\ strays' \in Nat /\ Expected' \in {0, 1}
  BY NextNumbers
<1>1. CASE Receive
  <2>1. PICK k \in Received(toGateway) :
          /\ toGateway' = Without(toGateway, k)
          /\ \/ /\ pc' = "recvRest"
                /\ response' = SubSeq(toGateway, 1, k)
                /\ UNCHANGED strays
             \/ Decode(SubSeq(toGateway, 1, k))
    BY <1>1 DEF Receive
  <2>2. /\ pc = "recv" /\ cur \in Entries /\ Waiting /\ response = <<>>
        /\ UNCHANGED <<conn, toPlc>> /\ conn' = conn /\ toPlc' = toPlc
    BY <1>1 DEF Receive, AtEntry, Waiting, QueueInv, FirstKept
  <2>3. SubSeq(toGateway, 1, k) \in Seq(Cell) /\ SubSeq(toGateway, 1, k) # <<>>
    BY <2>1, GotOfReceive
  <2>4. CASE Decode(SubSeq(toGateway, 1, k))
    <3> DEFINE got == SubSeq(toGateway, 1, k)
    <3>1. /\ got \in Seq(Cell) /\ got # <<>> /\ Decode(got)
          /\ HasEnd(got) => HasEnd(response) \/ HasEnd(SubSeq(toGateway, 1, k))
      BY <2>3, <2>4
    <3> HIDE DEF got
    <3> QED BY <2>1, <2>2, <3>1, DecodeStep
  <2>5. CASE /\ pc' = "recvRest" /\ response' = SubSeq(toGateway, 1, k)
             /\ UNCHANGED strays
    <3>1. /\ Counted(toGateway') <= Counted(toGateway)
          /\ HasEnd(response') => Counted(toGateway') + 1 <= Counted(toGateway)
      BY <1>0, <2>1, <2>5, ReceiveDrops
    <3>2. Expected = 1 /\ Expected' = IF HasEnd(response') THEN 0 ELSE 1
      BY <2>2, <2>5, NothingHasNoEnd DEF Expected, Waiting, HasEnd
    <3>3. Len(toPlc') = Len(toPlc) /\ strays' = strays
      BY <2>2, <2>5
    <3>4. Backlog' <= MaxBehind + strays' + Expected'
      BY <1>0, <1>00, <3>1, <3>2, <3>3
    <3> QED BY <2>2, <2>5, <3>4 DEF QueueInv, Quiet, FirstKept
  <2> QED BY <2>1, <2>4, <2>5
<1>2. CASE ReceiveRest
  <2>1. PICK k \in Received(toGateway) :
          /\ toGateway' = Without(toGateway, k)
          /\ Decode(response \o SubSeq(toGateway, 1, k))
    BY <1>2 DEF ReceiveRest
  <2>2. cur \in Entries /\ Waiting /\ UNCHANGED <<conn, toPlc>>
    BY <1>2 DEF ReceiveRest, AtEntry, Waiting
  <2>3. /\ SubSeq(toGateway, 1, k) \in Seq(Cell)
        /\ response \o SubSeq(toGateway, 1, k) \in Seq(Cell)
        /\ response \o SubSeq(toGateway, 1, k) # <<>>
    BY <2>1, GotOfReceive
  <2> DEFINE got == response \o SubSeq(toGateway, 1, k)
  <2>4. /\ got \in Seq(Cell) /\ got # <<>> /\ Decode(got)
        /\ HasEnd(got) => HasEnd(response) \/ HasEnd(SubSeq(toGateway, 1, k))
    BY <1>0, <2>1, <2>3, EndOfBoth
  <2> HIDE DEF got
  <2> QED BY <2>1, <2>2, <2>4, DecodeStep
<1>3. CASE Timeout
  <2>1. /\ Backlog <= MaxBehind /\ UNCHANGED <<conn, toPlc, toGateway>>
        /\ response' = <<>>
    BY <1>3 DEF Timeout
  <2>2. Backlog' <= MaxBehind
    BY <2>1 DEF Backlog
  <2>3. Backlog' <= MaxBehind + strays' + Expected'
    BY <1>00, <2>2
  <2>4. Quiet' /\ FirstKept'
    BY <2>1 DEF QueueInv, Quiet, FirstKept
  <2> QED BY <2>3, <2>4 DEF QueueInv
<1>4. CASE ReceiveNothing
  <2>1. toPlc' = <<>> /\ toGateway' = <<>> /\ response' = <<>>
    BY <1>4 DEF ReceiveNothing, QueueInv, Quiet
  <2> QED BY <2>1, EmptyStep DEF FirstKept
<1>5. CASE Send
  <2>1. CASE LeaveScan("connect") \/ LeaveScan("brokenPipe")
    <3>1. toPlc' = <<>> /\ toGateway' = <<>> /\ response' = <<>>
      BY <2>1 DEF LeaveScan
    <3> QED BY <3>1, EmptyStep DEF FirstKept
  <2>2. CASE /\ pc' = "recv" /\ UNCHANGED stream
             /\ \/ conn' = conn /\ conn = "open" /\ toPlc' = Append(toPlc, cur)
                \/ conn # "open" /\ conn' # "open" /\ UNCHANGED toPlc
    <3>1. Expected = 0 /\ response = <<>>
      BY <1>5 DEF Send, Expected, Waiting, QueueInv, FirstKept
    <3>2. /\ toGateway' = toGateway /\ response' = <<>> /\ strays' = strays
      BY <2>2, <3>1 DEF stream
    <3>3. Expected' = 1
      BY <2>2, <3>2 DEF Expected, Waiting, HasEnd
    <3>4. Len(toPlc') <= Len(toPlc) + 1
      <4>1. CASE toPlc' = Append(toPlc, cur)
        <5>1. cur \in Entries
          BY <1>5 DEF Send, AtEntry
        <5> QED BY <1>0, <4>1, <5>1, AppendProperties
      <4>2. CASE toPlc' = toPlc
        BY <1>0, <4>2
      <4> QED BY <2>2, <4>1, <4>2
    <3>5. Backlog' <= MaxBehind + strays' + Expected'
      BY <1>0, <1>00, <3>1, <3>2, <3>3, <3>4
    <3>6. Quiet' /\ FirstKept'
      BY <2>2, <3>2 DEF QueueInv, Quiet, FirstKept
    <3> QED BY <3>5, <3>6 DEF QueueInv
  <2>3. \/ LeaveScan("connect") \/ LeaveScan("brokenPipe")
        \/ /\ pc' = "recv" /\ UNCHANGED stream
           /\ \/ conn' = conn /\ conn = "open" /\ toPlc' = Append(toPlc, cur)
              \/ conn # "open" /\ conn' # "open" /\ UNCHANGED toPlc
    BY <1>5 DEF Send
  <2> QED BY <2>1, <2>2, <2>3
<1>6. CASE PlcServe
  <2>1. PICK k \in 1..Len(toPlc) :
          /\ toPlc' = Without(toPlc, k)
          /\ \/ toGateway' = toGateway \o Reply(toPlc[1])
             \/ toGateway' = toGateway \o Refusal(toPlc[1])
    BY <1>6 DEF PlcServe
  <2>2. k \in 0..Len(toPlc) /\ k \in 1..Len(toPlc) /\ 1 \in 1..Len(toPlc)
    BY <1>0
  <2>3. Len(toPlc') = Len(toPlc) - k /\ toPlc[1] \in Entries
    BY <1>0, <2>1, <2>2, SplitQueue, ElementOfSeq
  <2>4. mem \in [Entries -> Values] /\ TRUE \in BOOLEAN /\ FALSE \in BOOLEAN
    BY DEF TypeOK
  <2>5. Counted(toGateway') <= Counted(toGateway) + 1
    <3>1. /\ Reply(toPlc[1]) \in Seq(Cell)
          /\ Answer(Reply(toPlc[1]), toPlc[1], mem[toPlc[1]], TRUE)
          /\ Refusal(toPlc[1]) \in Seq(Cell)
          /\ Answer(Refusal(toPlc[1]), toPlc[1], mem[toPlc[1]], FALSE)
      BY <2>3, <2>4, AnswerFacts
    <3>2. CASE toGateway' = toGateway \o Reply(toPlc[1])
      BY <1>0, <2>3, <2>4, <3>1, <3>2, CountAnswer
    <3>3. CASE toGateway' = toGateway \o Refusal(toPlc[1])
      BY <1>0, <2>3, <2>4, <3>1, <3>3, CountAnswer
    <3> QED BY <2>1, <3>2, <3>3
  <2>6. UNCHANGED <<pc, conn, response, strays>> /\ conn = "open"
    BY <1>6 DEF PlcServe
  <2>7. Expected' = Expected /\ strays' = strays
    BY <2>6 DEF Expected, Waiting, HasEnd
  <2>8. Backlog' <= MaxBehind + strays' + Expected'
    BY <1>0, <1>00, <2>2, <2>3, <2>5, <2>7
  <2> QED BY <2>6, <2>8 DEF QueueInv, Quiet, FirstKept
<1>7. CASE PlcIgnores \/ PlcCloses
  <2>1. /\ UNCHANGED <<pc, stream>> /\ Quiet' /\ Len(toPlc') <= Len(toPlc)
    <3>1. CASE PlcIgnores
      <4>1. toPlc # <<>> /\ toPlc' = Tail(toPlc) /\ UNCHANGED <<pc, conn, stream>>
        BY <3>1 DEF PlcIgnores
      <4>2. conn' = "open"
        BY <3>1 DEF PlcIgnores
      <4>3. Len(toPlc') = Len(toPlc) - 1
        BY <1>0, <4>1, HeadTailProperties
      <4> QED BY <1>0, <4>1, <4>2, <4>3 DEF Quiet
    <3>2. CASE PlcCloses
      <4>1. toPlc' = <<>> /\ UNCHANGED <<pc, stream>>
        BY <3>2 DEF PlcCloses
      <4> QED BY <1>0, <4>1, EmptyQueues DEF Quiet
    <3> QED BY <1>7, <3>1, <3>2
  <2>2. toGateway' = toGateway /\ response' = response /\ strays' = strays
    BY <2>1 DEF stream
  <2>3. Expected' = Expected /\ Counted(toGateway') = Counted(toGateway)
    BY <2>1, <2>2 DEF Expected, Waiting, HasEnd
  <2>4. Backlog' <= MaxBehind + strays' + Expected'
    BY <1>0, <1>00, <2>1, <2>2, <2>3
  <2>5. FirstKept'
    BY <2>1, <2>2 DEF QueueInv, FirstKept
  <2> QED BY <2>1, <2>4, <2>5 DEF QueueInv
<1>8. CASE PlcResets
  <2>1. PICK k \in {0} \cup Received(toGateway) : toGateway' = SubSeq(toGateway, 1, k)
    BY <1>8 DEF PlcResets
  <2>2. k \in 0..Len(toGateway) /\ Len(toGateway) \in Nat
    BY <1>0, ReceivedRange, LenProperties
  <2>3. /\ toGateway' \in Seq(Cell) /\ Len(toGateway') = k
        /\ \A i \in 1..k : toGateway'[i] = toGateway[i]
    BY <1>0, <2>1, <2>2, SplitQueue
  <2>4. Counted(toGateway') <= Counted(toGateway)
    BY <1>0, <2>2, <2>3, CountPrefix
  <2>5. toPlc' = <<>> /\ UNCHANGED <<pc, response, strays>>
    BY <1>8 DEF PlcResets
  <2>6. Expected' = Expected /\ strays' = strays /\ Len(toPlc') = 0
    BY <2>5, EmptyQueues DEF Expected, Waiting, HasEnd
  <2>7. Backlog' <= MaxBehind + strays' + Expected'
    BY <1>0, <1>00, <2>4, <2>6
  <2> QED BY <2>5, <2>7 DEF QueueInv, Quiet, FirstKept
<1>9. CASE Connect
  BY <1>9, EmptyStep DEF Connect, FirstKept
<1>10. CASE \/ ConnectRefused \/ PublishCycle \/ SkipEntry \/ BeginRead
            \/ PlcWrite \/ UNCHANGED vars
  <2>1. UNCHANGED <<conn, toPlc, stream>> /\ (UNCHANGED pc \/ ~(Waiting \/ Waiting'))
    BY <1>10 DEF ConnectRefused, PublishCycle, SkipEntry, BeginRead, PlcWrite,
       vars, Waiting
  <2> QED BY <2>1, AsideStep
<1> QED
  BY <1>1, <1>2, <1>3, <1>4, <1>5, <1>6, <1>7, <1>8, <1>9, <1>10 DEF Next, Gateway, Plc

\* The invariant of the backlog.
LEMMA QueueCorrect == Spec => []QueueInv
<1>1. Init => QueueInv
  <2> SUFFICES ASSUME Init PROVE QueueInv
    OBVIOUS
  <2>1. toPlc = <<>> /\ toGateway = <<>> /\ response = <<>> /\ strays = 0
    BY DEF Init
  <2>2. Backlog = Len(toPlc) + Counted(toGateway)
    BY DEF Backlog, Counted, LastCells
  <2>3. Backlog = 0
    BY <2>1, <2>2, EmptyQueues
  <2> QED BY <2>1, <2>3, ExpectedIs01 DEF QueueInv, Quiet, FirstKept
<1>2. TypeOK /\ TypeOK' /\ AtEntry /\ QueueInv /\ [Next]_vars => QueueInv'
  BY QueueStep
<1> QED
  BY <1>1, <1>2, TypeCorrect, PTL DEF Spec

\* The requests unanswered and the replies unread never pile up beyond what
\* the PLC may be behind by, the request the gateway waits for and one reply
\* for each piece it took for a response, whatever is retried, refused,
\* coalesced or lost and wherever the network cuts, for every list.
THEOREM BacklogBoundedHolds == Spec => []BacklogBounded
<1>1. TypeOK /\ QueueInv => BacklogBounded
  <2> SUFFICES ASSUME TypeOK, QueueInv PROVE BacklogBounded
    OBVIOUS
  <2>1. /\ Backlog \in Nat /\ strays \in Nat
        /\ Backlog <= MaxBehind + strays + Expected
    BY BacklogNumbers DEF TypeOK, QueueInv
  <2> QED BY <2>1 DEF BacklogBounded, Expected, Waiting
<1> QED
  BY <1>1, TypeCorrect, QueueCorrect, PTL

-----------------------------------------------------------------------------
(***************************************************************************)
(* No strays where the gateway expects the cuts. What a receive leaves on  *)
(* the stream begins with a reply or with the rest of one; the cells of a  *)
(* reply follow each other up to its end, and another one begins there.    *)
(***************************************************************************)
InOrder(q) ==
    \A i, j \in 1..Len(q) :
        i <= j /\ (\A h \in i..(j - 1) : ~Ends(q[h]))
          => q[j].from = q[i].from /\ q[j].at = q[i].at + (j - i)
ThenAnother(q) == \A i \in 1..(Len(q) - 1) : Ends(q[i]) => q[i + 1].at = 1
Sized(q) == \A i \in 1..Len(q) : q[i].at <= Length[q[i].from]
Begins(q) == q # <<>> => q[1].at \in {1, Full + 1}
Replies(q) == InOrder(q) /\ ThenAnother(q) /\ Sized(q) /\ Begins(q)

EndsWhole == conn = "open" /\ toGateway # <<>> => Ends(toGateway[Len(toGateway)])
RestIsNext ==
    pc = "recvRest" /\ ~HasEnd(response) =>
        IF toGateway = <<>> THEN conn # "open" ELSE toGateway[1].at = Full + 1

StreamInv == Replies(toGateway) /\ EndsWhole /\ RestIsNext /\ strays = 0

LEMMA NoReplies == Replies(<<>>)
<1>1. Len(<<>>) = 0
  BY EmptySeq
<1> QED
  BY <1>1 DEF Replies, InOrder, ThenAnother, Sized, Begins

LEMMA CellParts ==
    ASSUME NEW q \in Seq(Cell), NEW i \in 1..Len(q)
    PROVE  q[i].at \in Nat /\ q[i].from \in Entries /\ Length[q[i].from] \in Nat
<1>1. q[i] \in Cell
  BY ElementOfSeq
<1>2. q[i].at \in Nat /\ q[i].from \in Entries
  BY <1>1 DEF Cell
<1> QED
  BY <1>2

\* A recv stops at the end of a reply or at its 1420 bytes.
LEMMA StopsThere ==
    ASSUME CutsAsExpected, NEW q \in Seq(Cell), Sized(q), NEW k \in Received(q),
           ~Ends(q[k])
    PROVE  q[k].at = Full
<1>1. k \in 1..Len(q) /\ q[k].at \in Cuts
  BY ReceivedRange
<1>2. /\ q[k].at \in Nat /\ q[k].from \in Entries /\ Length[q[k].from] \in Nat
      /\ q[k].at <= Length[q[k].from] /\ q[k].at # Length[q[k].from]
  BY <1>1, CellParts DEF Sized, Ends
<1>3. q[k].at < Length[q[k].from]
  BY ONLY <1>2
<1> QED
  BY <1>1, <1>2, <1>3 DEF CutsAsExpected

LEMMA EndsOfTaken ==
    ASSUME NEW q \in Seq(Cell), NEW k \in Received(q), ~HasEnd(SubSeq(q, 1, k))
    PROVE  \A h \in 1..k : ~Ends(q[h])
<1> DEFINE got == SubSeq(q, 1, k)
<1>1. k \in Nat /\ k \in 0..Len(q)
  BY ReceivedRange
<1>2. got \in Seq(Cell) /\ Len(got) = k /\ \A i \in 1..k : got[i] = q[i]
  BY <1>1, SplitQueue
<1> HIDE DEF got
<1>3. DOMAIN got = 1..k
  BY <1>2, LenProperties
<1> QED
  BY <1>2, <1>3 DEF HasEnd, got

\* What a recv has taken without an end is the first 1420 bytes of a reply,
\* when it began where one begins.
LEMMA TakenFirst ==
    ASSUME CutsAsExpected, NEW q \in Seq(Cell), Replies(q), NEW k \in Received(q),
           ~HasEnd(SubSeq(q, 1, k))
    PROVE  k = Full /\ q[1].at = 1
<1>1. /\ k \in 1..Len(q) /\ k \in Nat /\ Len(q) \in Nat /\ 1 \in 1..Len(q)
      /\ q # <<>>
  BY ReceivedRange
<1>2. \A h \in 1..k : ~Ends(q[h])
  BY EndsOfTaken
<1>3. q[k].at = Full
  BY <1>1, <1>2, StopsThere DEF Replies
<1>4. q[k].at = q[1].at + (k - 1)
  BY <1>1, <1>2 DEF Replies, InOrder
<1>5. q[1].at \in {1, Full + 1} /\ Full \in Nat
  BY <1>1, FullAssumption DEF Replies, Begins
<1> QED
  BY <1>1, <1>3, <1>4, <1>5

\* What a receive leaves.
LEMMA LeavesReplies ==
    ASSUME CutsAsExpected, NEW q \in Seq(Cell), Replies(q), NEW k \in Received(q)
    PROVE  /\ Replies(Without(q, k))
           /\ Without(q, k) # <<>> =>
                /\ k < Len(q)
                /\ Without(q, k)[1] = q[k + 1]
                /\ Without(q, k)[Len(Without(q, k))] = q[Len(q)]
                /\ ~Ends(q[k]) => q[k + 1].at = Full + 1
<1> DEFINE r == Without(q, k)
<1>1. k \in 1..Len(q) /\ k \in Nat /\ k \in 0..Len(q) /\ Len(q) \in Nat
  BY ReceivedRange
<1>2. /\ r \in Seq(Cell) /\ Len(r) = Len(q) - k
      /\ \A i \in 1..(Len(q) - k) : r[i] = q[k + i]
  BY <1>1, SplitQueue
<1> HIDE DEF r
<1>3. InOrder(r)
  <2> SUFFICES ASSUME NEW i \in 1..Len(r), NEW j \in 1..Len(r), i <= j,
                      \A h \in i..(j - 1) : ~Ends(r[h])
               PROVE  r[j].from = r[i].from /\ r[j].at = r[i].at + (j - i)
    BY DEF InOrder
  <2>1. /\ k + i \in 1..Len(q) /\ k + j \in 1..Len(q) /\ k + i <= k + j
        /\ (k + j) - (k + i) = j - i /\ r[i] = q[k + i] /\ r[j] = q[k + j]
    BY <1>1, <1>2
  <2>2. ASSUME NEW h \in (k + i)..((k + j) - 1)
        PROVE  ~Ends(q[h])
    <3>1. h - k \in i..(j - 1) /\ h - k \in 1..(Len(q) - k) /\ k + (h - k) = h
      BY <1>1, <1>2
    <3> QED BY <1>2, <3>1
  <2> QED BY <2>1, <2>2 DEF Replies, InOrder
<1>4. ThenAnother(r)
  <2> SUFFICES ASSUME NEW i \in 1..(Len(r) - 1), Ends(r[i])
               PROVE  r[i + 1].at = 1
    BY DEF ThenAnother
  <2>1. /\ k + i \in 1..(Len(q) - 1) /\ r[i] = q[k + i]
        /\ r[i + 1] = q[k + (i + 1)] /\ k + (i + 1) = (k + i) + 1
    BY <1>1, <1>2
  <2> QED BY <2>1 DEF Replies, ThenAnother
<1>5. Sized(r)
  <2> SUFFICES ASSUME NEW i \in 1..Len(r)
               PROVE  r[i].at <= Length[r[i].from]
    BY DEF Sized
  <2>1. k + i \in 1..Len(q) /\ r[i] = q[k + i]
    BY <1>1, <1>2
  <2> QED BY <2>1 DEF Replies, Sized
<1>6. r # <<>> =>
        /\ k < Len(q) /\ r[1] = q[k + 1] /\ r[Len(r)] = q[Len(q)]
        /\ ~Ends(q[k]) => q[k + 1].at = Full + 1
        /\ q[k + 1].at \in {1, Full + 1}
  <2> SUFFICES ASSUME r # <<>>
               PROVE  /\ k < Len(q) /\ r[1] = q[k + 1] /\ r[Len(r)] = q[Len(q)]
                      /\ ~Ends(q[k]) => q[k + 1].at = Full + 1
                      /\ q[k + 1].at \in {1, Full + 1}
    OBVIOUS
  <2>1. Len(r) # 0
    BY <1>2, EmptySeq
  <2>2. /\ k < Len(q) /\ 1 \in 1..(Len(q) - k) /\ Len(q) - k \in 1..(Len(q) - k)
        /\ k + (Len(q) - k) = Len(q) /\ k \in 1..(Len(q) - 1)
        /\ k + 1 \in 1..Len(q) /\ (k + 1) - k = 1
    BY <1>1, <1>2, <2>1
  <2>3. r[1] = q[k + 1] /\ r[Len(r)] = q[Len(q)]
    BY <1>2, <2>2
  <2>4. CASE Ends(q[k])
    BY <2>2, <2>3, <2>4 DEF Replies, ThenAnother
  <2>5. CASE ~Ends(q[k])
    <3>1. q[k].at = Full
      BY <2>5, StopsThere DEF Replies
    <3>2. \A h \in k..((k + 1) - 1) : ~Ends(q[h])
      BY <1>1, <2>5
    <3>3. q[k + 1].at = q[k].at + ((k + 1) - k)
      BY <1>1, <2>2, <3>2 DEF Replies, InOrder
    <3> QED BY <2>2, <2>3, <3>1, <3>3
  <2> QED BY <2>4, <2>5
<1>7. Begins(r)
  BY <1>6 DEF Begins
<1> QED
  BY <1>3, <1>4, <1>5, <1>6, <1>7 DEF Replies, r

\* A reset leaves a beginning of the stream.
LEMMA PrefixReplies ==
    ASSUME NEW q \in Seq(Cell), Replies(q), NEW r \in Seq(Cell),
           Len(r) <= Len(q), \A i \in 1..Len(r) : r[i] = q[i]
    PROVE  Replies(r) /\ (r # <<>> => q # <<>> /\ r[1] = q[1])
<1>1. Len(q) \in Nat /\ Len(r) \in Nat
  BY LenProperties
<1>2. InOrder(r)
  <2> SUFFICES ASSUME NEW i \in 1..Len(r), NEW j \in 1..Len(r), i <= j,
                      \A h \in i..(j - 1) : ~Ends(r[h])
               PROVE  r[j].from = r[i].from /\ r[j].at = r[i].at + (j - i)
    BY DEF InOrder
  <2>1. i \in 1..Len(q) /\ j \in 1..Len(q) /\ r[i] = q[i] /\ r[j] = q[j]
    BY <1>1
  <2>2. \A h \in i..(j - 1) : ~Ends(q[h])
    BY <1>1
  <2> QED BY <2>1, <2>2 DEF Replies, InOrder
<1>3. ThenAnother(r)
  <2> SUFFICES ASSUME NEW i \in 1..(Len(r) - 1), Ends(r[i])
               PROVE  r[i + 1].at = 1
    BY DEF ThenAnother
  <2>1. i \in 1..(Len(q) - 1) /\ r[i] = q[i] /\ r[i + 1] = q[i + 1]
    BY <1>1
  <2> QED BY <2>1 DEF Replies, ThenAnother
<1>4. Sized(r)
  BY <1>1 DEF Replies, Sized
<1>5. r # <<>> => q # <<>> /\ r[1] = q[1]
  <2> SUFFICES ASSUME r # <<>> PROVE q # <<>> /\ r[1] = q[1]
    OBVIOUS
  <2>1. Len(r) # 0
    BY EmptySeq
  <2>2. 1 \in 1..Len(r) /\ Len(q) # 0
    BY <1>1, <2>1
  <2> QED BY <2>2, EmptySeq
<1> QED
  BY <1>2, <1>3, <1>4, <1>5 DEF Replies, Begins

\* An answer after whole replies.
LEMMA AnotherReply ==
    ASSUME NEW q \in Seq(Cell), Replies(q), q # <<>> => Ends(q[Len(q)]),
           NEW e \in Entries, NEW v, NEW ok \in BOOLEAN, NEW r \in Seq(Cell),
           Answer(r, e, v, ok)
    PROVE  Replies(q \o r) /\ q \o r # <<>> /\ Ends((q \o r)[Len(q \o r)])
           /\ (q # <<>> => (q \o r)[1] = q[1])
<1> DEFINE qr == q \o r
<1>1. /\ Len(q) \in Nat /\ Len(r) \in Nat /\ qr \in Seq(Cell)
      /\ Len(qr) = Len(q) + Len(r)
      /\ \A i \in 1..Len(q) : qr[i] = q[i]
      /\ \A i \in 1..Len(r) : qr[Len(q) + i] = r[i]
  BY JoinQueues
<1>0. Length[e] \in Nat \ {0}
  OBVIOUS
<1>2. Len(r) # 0 /\ (ok => Len(r) = Length[e]) /\ (~ok => Len(r) = 1)
  BY <1>0 DEF Answer
<1>3. ASSUME NEW i \in 1..Len(r)
      PROVE  r[i].from = e /\ r[i].ok = ok /\ r[i].at = i
  <2>1. r[i] = [from |-> e, val |-> v, ok |-> ok, at |-> i]
    BY DEF Answer
  <2> QED BY <2>1
<1>4. Len(q) # 0 => Len(q) \in 1..Len(q) /\ q # <<>> /\ Ends(q[Len(q)])
  BY <1>1, EmptySeq
<1> HIDE DEF qr
<1>5. InOrder(qr)
  <2> SUFFICES ASSUME NEW i \in 1..Len(qr), NEW j \in 1..Len(qr), i <= j,
                      \A h \in i..(j - 1) : ~Ends(qr[h])
               PROVE  qr[j].from = qr[i].from /\ qr[j].at = qr[i].at + (j - i)
    BY DEF InOrder
  <2>1. CASE j <= Len(q)
    <3>1. i \in 1..Len(q) /\ j \in 1..Len(q) /\ qr[i] = q[i] /\ qr[j] = q[j]
      BY <1>1, <2>1
    <3>2. \A h \in i..(j - 1) : ~Ends(q[h])
      BY <1>1, <2>1
    <3> QED BY <3>1, <3>2 DEF Replies, InOrder
  <2>2. CASE i <= Len(q) /\ Len(q) < j
    <3>1. Len(q) \in i..(j - 1) /\ Len(q) # 0 /\ Len(q) \in 1..Len(q)
      BY <1>1, <2>2
    <3> QED BY <1>1, <1>4, <3>1
  <2>3. CASE Len(q) < i
    <3> DEFINE a == i - Len(q)
               b == j - Len(q)
    <3>0. i \in Int /\ j \in Int /\ i <= j /\ j <= Len(q) + Len(r)
      BY <1>1
    <3>1. a \in 1..Len(r) /\ b \in 1..Len(r) /\ Len(q) + a = i /\ Len(q) + b = j
      BY <1>1, <2>3, <3>0
    <3>2. qr[i] = r[a] /\ qr[j] = r[b]
      BY <1>1, <3>1
    <3>3. r[a].from = e /\ r[a].at = a /\ r[b].from = e /\ r[b].at = b
      BY <1>3, <3>1
    <3> QED BY <1>1, <3>1, <3>2, <3>3
  <2> QED BY <1>1, <2>1, <2>2, <2>3
<1>6. ThenAnother(qr)
  <2> SUFFICES ASSUME NEW i \in 1..(Len(qr) - 1), Ends(qr[i])
               PROVE  qr[i + 1].at = 1
    BY DEF ThenAnother
  <2>1. CASE i < Len(q)
    <3>1. i \in 1..(Len(q) - 1) /\ qr[i] = q[i] /\ qr[i + 1] = q[i + 1]
      BY <1>1, <2>1
    <3> QED BY <3>1 DEF Replies, ThenAnother
  <2>2. CASE i = Len(q)
    <3>1. 1 \in 1..Len(r) /\ qr[i + 1] = r[1]
      BY <1>1, <1>2, <2>2
    <3> QED BY <1>3, <3>1
  <2>3. CASE i > Len(q)
    <3> DEFINE a == i - Len(q)
    <3>1. a \in 1..Len(r) /\ Len(q) + a = i /\ a # Len(r)
      BY <1>1, <2>3
    <3>2. Ends(r[a])
      BY <1>1, <3>1
    <3> HIDE DEF a
    <3> QED BY <3>1, <3>2, AnswerLast
  <2> QED BY <1>1, <2>1, <2>2, <2>3
<1>7. Sized(qr)
  <2> SUFFICES ASSUME NEW i \in 1..Len(qr)
               PROVE  qr[i].at <= Length[qr[i].from]
    BY DEF Sized
  <2>1. CASE i <= Len(q)
    BY <1>1, <2>1 DEF Replies, Sized
  <2>2. CASE i > Len(q)
    <3> DEFINE a == i - Len(q)
    <3>1. a \in 1..Len(r) /\ Len(q) + a = i
      BY <1>1, <2>2
    <3>2. qr[i] = r[a] /\ r[a].from = e /\ r[a].at = a
      BY <1>1, <1>3, <3>1
    <3>3. a <= Length[e]
      BY <1>0, <1>1, <1>2, <3>1
    <3> QED BY <3>2, <3>3
  <2> QED BY <1>1, <2>1, <2>2
<1>8. Len(qr) # 0 /\ 1 \in 1..Len(r)
  BY <1>1, <1>2
<1>9. qr # <<>>
  BY <1>8, EmptySeq
<1>10. Ends(qr[Len(qr)])
  <2>1. Len(r) \in 1..Len(r) /\ Len(qr) = Len(q) + Len(r)
    BY <1>1, <1>2
  <2>2. qr[Len(qr)] = r[Len(r)]
    BY <1>1, <2>1
  <2>3. r[Len(r)].from = e /\ r[Len(r)].ok = ok /\ r[Len(r)].at = Len(r)
    BY <1>3, <2>1
  <2> QED BY <1>2, <2>2, <2>3 DEF Ends
<1>11. q # <<>> => qr[1] = q[1]
  <2>1. q # <<>> => 1 \in 1..Len(q)
    BY <1>1, EmptySeq
  <2> QED BY <1>1, <2>1
<1>12. Begins(qr)
  <2>1. CASE q # <<>>
    BY <1>11, <2>1 DEF Replies, Begins
  <2>2. CASE q = <<>>
    <3>1. Len(q) = 0
      BY <2>2, EmptySeq
    <3>2. Len(q) + 1 = 1
      BY <3>1
    <3>3. qr[1] = r[1]
      BY <1>1, <1>8, <3>2
    <3> QED BY <1>3, <1>8, <3>3 DEF Begins
  <2> QED BY <2>1, <2>2
<1> QED
  BY <1>5, <1>6, <1>7, <1>9, <1>10, <1>11, <1>12 DEF Replies, qr

LEMMA StreamStep ==
    ASSUME CutsAsExpected, TypeOK, TypeOK', AtEntry, FirstKept, StreamInv,
           [Next]_vars
    PROVE  StreamInv'
<1>0. toGateway \in Seq(Cell) /\ response \in Seq(Cell) /\ Replies(toGateway)
  BY DEF TypeOK, StreamInv
<1>1. CASE Receive
  <2>1. PICK k \in Received(toGateway) :
          /\ toGateway' = Without(toGateway, k)
          /\ \/ /\ k = Full /\ pc' = "recvRest"
                /\ response' = SubSeq(toGateway, 1, k)
                /\ UNCHANGED strays
             \/ k # Full /\ Decode(SubSeq(toGateway, 1, k))
    BY <1>1 DEF Receive
  <2>2. UNCHANGED conn /\ cur \in Entries
    BY <1>1 DEF Receive, AtEntry
  <2>3. /\ Replies(toGateway')
        /\ toGateway' # <<>> =>
             /\ k < Len(toGateway) /\ toGateway'[1] = toGateway[k + 1]
             /\ toGateway'[Len(toGateway')] = toGateway[Len(toGateway)]
             /\ ~Ends(toGateway[k]) => toGateway[k + 1].at = Full + 1
    BY <1>0, <2>1, LeavesReplies
  <2>4. toGateway # <<>> /\ k \in 1..Len(toGateway) /\ k \in Nat
    BY <1>0, ReceivedRange
  <2>5. EndsWhole'
    BY <2>2, <2>3, <2>4 DEF StreamInv, EndsWhole
  <2>6. CASE k # Full
    <3>1. /\ SubSeq(toGateway, 1, k) \in Seq(Cell) /\ SubSeq(toGateway, 1, k) # <<>>
          /\ HasEnd(SubSeq(toGateway, 1, k))
      BY <1>0, <2>6, GotOfReceive, TakenFirst
    <3> DEFINE got == SubSeq(toGateway, 1, k)
    <3>2. got \in Seq(Cell) /\ got # <<>> /\ HasEnd(got) /\ Decode(got)
      BY <2>1, <2>6, <3>1
    <3> HIDE DEF got
    <3>3. strays' = strays /\ pc' # "recvRest"
      BY <2>2, <3>2, DecodeEnds, DecodeTypes
    <3> QED BY <2>3, <2>5, <3>3 DEF StreamInv, RestIsNext
  <2>7. CASE k = Full
    <3>1. pc' = "recvRest" /\ response' = SubSeq(toGateway, 1, k) /\ strays' = strays
      BY <2>1, <2>7
    <3>2. ASSUME ~HasEnd(response')
          PROVE  IF toGateway' = <<>> THEN conn' # "open" ELSE toGateway'[1].at = Full + 1
      <4>1. ~Ends(toGateway[k])
        BY <1>0, <2>4, <3>1, <3>2, EndsOfTaken
      <4>2. CASE toGateway' = <<>>
        <5>1. Len(toGateway') = Len(toGateway) - k /\ Len(toGateway) \in Nat
          BY <1>0, <2>1, <2>4, SplitQueue, LenProperties
        <5>2. Len(toGateway') = 0
          BY <4>2, EmptySeq
        <5>3. k = Len(toGateway)
          BY <2>4, <5>1, <5>2
        <5>4. conn # "open"
          BY <2>4, <4>1, <5>3 DEF StreamInv, EndsWhole
        <5> QED BY <2>2, <4>2, <5>4
      <4>3. CASE toGateway' # <<>>
        BY <2>3, <4>1, <4>3
      <4> QED BY <4>2, <4>3
    <3>3. RestIsNext'
      BY <3>2 DEF RestIsNext, HasEnd
    <3> QED BY <2>3, <2>5, <3>1, <3>3 DEF StreamInv
  <2> QED BY <2>6, <2>7
<1>2. CASE ReceiveRest
  <2>1. PICK k \in Received(toGateway) :
          /\ toGateway' = Without(toGateway, k)
          /\ Decode(response \o SubSeq(toGateway, 1, k))
    BY <1>2 DEF ReceiveRest
  <2>2. UNCHANGED conn /\ cur \in Entries /\ pc = "recvRest"
    BY <1>2 DEF ReceiveRest, AtEntry
  <2>3. /\ Replies(toGateway')
        /\ toGateway' # <<>> =>
             toGateway'[Len(toGateway')] = toGateway[Len(toGateway)]
    BY <1>0, <2>1, LeavesReplies
  <2>4. toGateway # <<>>
    BY <1>0, ReceivedRange
  <2>5. EndsWhole'
    BY <2>2, <2>3, <2>4 DEF StreamInv, EndsWhole
  <2>6. HasEnd(response) \/ HasEnd(SubSeq(toGateway, 1, k))
    <3> SUFFICES ASSUME ~HasEnd(response), ~HasEnd(SubSeq(toGateway, 1, k))
                 PROVE  FALSE
      OBVIOUS
    <3>1. toGateway[1].at = Full + 1
      BY <2>2, <2>4 DEF StreamInv, RestIsNext
    <3>2. toGateway[1].at = 1
      BY <1>0, TakenFirst
    <3>3. Full \in Nat \ {0, 1}
      BY FullAssumption
    <3> QED BY <3>1, <3>2, <3>3
  <2> DEFINE take == SubSeq(toGateway, 1, k)
             got == response \o take
  <2>7. take \in Seq(Cell) /\ got # <<>> /\ Decode(got)
    BY <2>1, GotOfReceive
  <2>8. HasEnd(got)
    <3>1. HasEnd(response) \/ HasEnd(take)
      BY <2>6
    <3> HIDE DEF take, got
    <3> QED BY <1>0, <2>7, <3>1, EndOfOne DEF got
  <2>9. got \in Seq(Cell)
    BY <1>0, <2>7, JoinQueues
  <2> HIDE DEF take, got
  <2>10. strays' = strays /\ pc' # "recvRest"
    BY <2>2, <2>7, <2>8, <2>9, DecodeEnds, DecodeTypes
  <2> QED BY <2>3, <2>5, <2>10 DEF StreamInv, RestIsNext
<1>3. CASE Timeout \/ ReceiveNothing
  <2>1. UNCHANGED strays /\ pc' # "recvRest" /\ toGateway' = toGateway
    BY <1>3 DEF Timeout, ReceiveNothing, AttemptFails, NextEntry
  <2>2. conn' = "open" => conn = "open"
    BY <1>3 DEF Timeout, ReceiveNothing
  <2> QED BY <2>1, <2>2 DEF StreamInv, EndsWhole, RestIsNext
<1>4. CASE Send
  <2>1. CASE LeaveScan("connect") \/ LeaveScan("brokenPipe")
    <3>1. toGateway' = <<>> /\ strays' = 0 /\ pc' # "recvRest"
      BY <2>1 DEF LeaveScan
    <3> QED BY <3>1, NoReplies DEF StreamInv, EndsWhole, RestIsNext
  <2>2. CASE /\ pc' = "recv" /\ UNCHANGED stream /\ (conn' = "open" => conn = "open")
    <3>1. toGateway' = toGateway /\ strays' = strays
      BY <2>2 DEF stream
    <3> QED BY <2>2, <3>1 DEF StreamInv, EndsWhole, RestIsNext
  <2> QED BY <1>4, <2>1, <2>2 DEF Send
<1>5. CASE PlcServe
  <2>1. PICK k \in 1..Len(toPlc) :
          \/ toGateway' = toGateway \o Reply(toPlc[1])
          \/ toGateway' = toGateway \o Refusal(toPlc[1])
    BY <1>5 DEF PlcServe
  <2>2. toPlc[1] \in Entries /\ mem \in [Entries -> Values]
    <3>1. 1 \in 1..Len(toPlc) /\ toPlc \in Seq(Entries)
      BY <2>1, LenProperties DEF TypeOK
    <3> QED BY <3>1, ElementOfSeq DEF TypeOK
  <2>3. conn = "open" /\ UNCHANGED <<pc, conn, response, strays>>
    BY <1>5 DEF PlcServe
  <2>4. ASSUME NEW r \in Seq(Cell), NEW v, NEW ok \in BOOLEAN,
               Answer(r, toPlc[1], v, ok), toGateway' = toGateway \o r
        PROVE  StreamInv'
    <3>1. toGateway # <<>> => Ends(toGateway[Len(toGateway)])
      BY <2>3 DEF StreamInv, EndsWhole
    <3>2. /\ Replies(toGateway') /\ toGateway' # <<>>
          /\ Ends(toGateway'[Len(toGateway')])
          /\ (toGateway # <<>> => toGateway'[1] = toGateway[1])
      BY <1>0, <2>2, <2>4, <3>1, AnotherReply
    <3>3. RestIsNext'
      BY <2>3, <3>2 DEF StreamInv, RestIsNext, HasEnd
    <3> QED BY <2>3, <3>2, <3>3 DEF StreamInv, EndsWhole
  <2>5. /\ Reply(toPlc[1]) \in Seq(Cell)
        /\ Answer(Reply(toPlc[1]), toPlc[1], mem[toPlc[1]], TRUE)
        /\ Refusal(toPlc[1]) \in Seq(Cell)
        /\ Answer(Refusal(toPlc[1]), toPlc[1], mem[toPlc[1]], FALSE)
    BY <2>2, AnswerFacts
  <2>6. TRUE \in BOOLEAN /\ FALSE \in BOOLEAN
    OBVIOUS
  <2> QED BY <2>1, <2>4, <2>5, <2>6
<1>6. CASE PlcResets
  <2>1. PICK k \in {0} \cup Received(toGateway) : toGateway' = SubSeq(toGateway, 1, k)
    BY <1>6 DEF PlcResets
  <2>2. k \in 0..Len(toGateway) /\ Len(toGateway) \in Nat
    BY <1>0, ReceivedRange, LenProperties
  <2>3. /\ toGateway' \in Seq(Cell) /\ Len(toGateway') = k
        /\ \A i \in 1..k : toGateway'[i] = toGateway[i]
    BY <1>0, <2>1, <2>2, SplitQueue
  <2>4. /\ Replies(toGateway')
        /\ toGateway' # <<>> => toGateway # <<>> /\ toGateway'[1] = toGateway[1]
    BY <1>0, <2>2, <2>3, PrefixReplies
  <2>5. conn' = "reset" /\ UNCHANGED <<pc, response, strays>>
    BY <1>6 DEF PlcResets
  <2>6. RestIsNext'
    BY <2>4, <2>5 DEF StreamInv, RestIsNext, HasEnd
  <2> QED BY <2>4, <2>5, <2>6 DEF StreamInv, EndsWhole
<1>7. CASE Connect
  <2>1. toGateway' = <<>> /\ strays' = 0 /\ pc' # "recvRest"
    BY <1>7 DEF Connect
  <2> QED BY <2>1, NoReplies DEF StreamInv, EndsWhole, RestIsNext
<1>8. CASE /\ UNCHANGED stream /\ (conn' = "open" => conn = "open")
           /\ pc' = "recvRest" => pc = "recvRest" /\ (conn # "open" => conn' # "open")
  <2>1. toGateway' = toGateway /\ response' = response /\ strays' = strays
    BY <1>8 DEF stream
  <2>2. HasEnd(response)' <=> HasEnd(response)
    BY <2>1 DEF HasEnd
  <2> QED BY <1>8, <2>1, <2>2 DEF StreamInv, EndsWhole, RestIsNext
<1>9. CASE \/ ConnectRefused \/ PublishCycle \/ SkipEntry \/ BeginRead
           \/ PlcIgnores \/ PlcCloses \/ PlcWrite \/ UNCHANGED vars
  <2>1. /\ UNCHANGED stream /\ (conn' = "open" => conn = "open")
        /\ pc' = "recvRest" => pc = "recvRest" /\ (conn # "open" => conn' # "open")
    BY <1>9 DEF ConnectRefused, PublishCycle, SkipEntry, BeginRead, PlcIgnores,
       PlcCloses, PlcWrite, vars
  <2> QED BY <1>8, <2>1
<1> QED
  BY <1>1, <1>2, <1>3, <1>4, <1>5, <1>6, <1>7, <1>9 DEF Next, Gateway, Plc

\* When the network cuts a reply after 1420 bytes or not at all, no piece of
\* one is ever taken for a response, however late the PLC is and whatever it
\* refuses, ignores or loses.
THEOREM NoStrays ==
    ASSUME CutsAsExpected
    PROVE  Spec => [](strays = 0)
<1>1. Init => StreamInv
  BY NoReplies DEF Init, StreamInv, EndsWhole, RestIsNext
<1>2. TypeOK /\ TypeOK' /\ AtEntry /\ QueueInv /\ StreamInv /\ [Next]_vars
      => StreamInv'
  BY StreamStep DEF QueueInv
<1>3. StreamInv => strays = 0
  BY DEF StreamInv
<1> QED
  BY <1>1, <1>2, <1>3, TypeCorrect, QueueCorrect, PTL DEF Spec

=============================================================================
