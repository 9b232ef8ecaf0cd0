------------------------------ MODULE SlmpLink ------------------------------
(***************************************************************************)
(* Reading the scan list over one SLMP/TCP connection: the gateway's       *)
(* connection loop (rr2sp_gateway.py), the pass over the entries and the   *)
(* send / receive / retry of one of them (scan_list.py), the checks of the *)
(* response decoder (slmp.py), and a PLC that answers like mock_plc.py.    *)
(*                                                                         *)
(* An SLMP 3E response carries nothing that says which request it answers, *)
(* and the gateway does not drain the socket before a retry. What a        *)
(* response is taken for depends on the order of the byte stream alone,    *)
(* so the two queues below are the heart of the model.                     *)
(*                                                                         *)
(* TCP keeps the bytes of a reply in order and nothing else: a recv may    *)
(* return a piece of a reply, or several replies and a piece. The gateway  *)
(* takes 1420 bytes for a reply whose rest is still to come, and whatever  *)
(* else a recv returns for a response.                                     *)
(*                                                                         *)
(* Abstracted: a register block is one value (the words of a block are     *)
(* read together); a request is the entry it was built from; the bytes of  *)
(* a reply are counted in cells of one size, each of which names the reply *)
(* it is of.                                                               *)
(***************************************************************************)
EXTENDS Naturals, Sequences, FiniteSets

CONSTANTS
    N,              \* number of scan entries
    Length,         \* Length[e]: the cells of a reply to entry e
    Values,         \* what a register block can hold
    MaxTries,       \* RegisterScanEntry.MAX_TRIES
    Full,           \* the cells of the 1420 bytes that call for a second recv
    Cuts,           \* how many cells of a reply can be all that a recv has
                    \* of it: where the network cuts it
    Lookalikes,     \* the values whose words have, somewhere in the middle,
                    \* what the decoder expects in a header
    MaxBehind,      \* how many requests and replies may still be on their
                    \* way when a receive times out; 0: the PLC answers
                    \* within the socket timeout or not at all
    MaxStrays       \* how many pieces of replies a connection may have taken
                    \* for responses

Entries == 1..N

ASSUME NAssumption == N \in Nat \ {0}
ASSUME LengthAssumption == Length \in [Entries -> Nat \ {0}]
ASSUME MaxTriesAssumption == MaxTries \in Nat \ {0}

\* A reply has an odd number of bytes, and a refusal, one cell, has few.
ASSUME FullAssumption ==
    Full \in Nat \ {0, 1} /\ \A e \in Entries : Length[e] # Full
ASSUME CutsAssumption == Cuts \subseteq Nat \ {0}
ASSUME LookalikesAssumption == Lookalikes \subseteq Values
ASSUME MaxBehindAssumption == MaxBehind \in Nat
ASSUME MaxStraysAssumption == MaxStrays \in Nat

VARIABLES
    pc,         \* where the gateway's main thread is
    conn,       \* the connection, as the gateway's kernel knows it
    cur,        \* the entry scan_all is at; N + 1 when it is through
    attempt,    \* i in get_raw_value
    toPlc,      \* the requests the PLC has not answered yet
    toGateway,  \* the cells the gateway has not received yet
    response,   \* the cells of the first recv, until the second
    strays,     \* (history) the pieces this connection took for responses
    mem,        \* the PLC's registers
    seen,       \* (history) what entry cur has held since its read began
    batch       \* dict_to_publish_all

plc == <<toPlc, mem>>
stream == <<toGateway, response, strays>>
vars == <<pc, conn, cur, attempt, toPlc, stream, mem, seen, batch>>

(***************************************************************************)
(* Frames.                                                                 *)
(***************************************************************************)

\* A cell of a reply: the entry that was asked for, the value read, whether
\* the end code is zero, and its place in the reply.
Cell == [from : Entries, val : Values, ok : BOOLEAN, at : Nat]

Reply(e) ==
    [i \in 1..Length[e] |-> [from |-> e, val |-> mem[e], ok |-> TRUE, at |-> i]]

\* What the PLC answers to a request it refuses: end code, no data.
Refusal(e) == <<[from |-> e, val |-> mem[e], ok |-> FALSE, at |-> 1]>>

\* A reply ends with its last cell.
Ends(c) == ~c.ok \/ c.at = Length[c.from]
HasEnd(q) == \E i \in DOMAIN q : Ends(q[i])

\* How many cells a recv may return: it takes what has arrived, which stops
\* where the network has cut a reply or where one ends.
Received(q) == {k \in DOMAIN q : Ends(q[k]) \/ q[k].at \in Cuts}

\* A decoder that does not compare the length with the request's (a mutant
\* of Acceptable).
AnyLength(got) == got[1].at = 1 /\ got[1].ok /\ Len(got) = Length[got[1].from]

\* The decoder's own checks: end code, the length the header announces
\* against what has come, and against the number of words this entry asked
\* for. The fields that echo the request are skipped.
Acceptable(got) ==
    /\ got[1].at = 1
    /\ got[1].ok
    /\ Len(got) = Length[got[1].from]
    /\ Length[got[1].from] = Length[cur]

\* Words of a register block where the decoder looks for a header: any value
\* comes out of that, under nobody's name.
Nobody == 0
Misread(got) ==
    got[1].at # 1 /\ got[1].val \in Lookalikes /\ Len(got) = Length[cur]

Without(q, k) == SubSeq(q, k + 1, Len(q))

-----------------------------------------------------------------------------
(***************************************************************************)
(* The states the program starts in.                                       *)
(***************************************************************************)
Exited == pc \in {"refused", "brokenPipe"}

Init ==
    /\ pc = "connect"
    /\ conn = "closed"
    /\ cur = 1
    /\ attempt = 1
    /\ toPlc = <<>>
    /\ toGateway = <<>>
    /\ response = <<>>
    /\ strays = 0
    /\ mem \in [Entries -> Values]
    /\ seen = {}
    /\ batch = {}

(***************************************************************************)
(* The connection loop.                                                    *)
(***************************************************************************)

\* socket(), connect(), and a pass over the list from its head.
Connect ==
    /\ pc = "connect"
    /\ pc' = "next"
    /\ conn' = "open"
    /\ cur' = 1
    /\ attempt' = 1
    /\ toPlc' = <<>>
    /\ toGateway' = <<>>
    /\ response' = <<>>
    /\ strays' = 0
    /\ UNCHANGED <<mem, seen, batch>>

\* connect() is refused: no handler for ConnectionRefusedError.
ConnectRefused ==
    /\ pc = "connect"
    /\ pc' = "refused"
    /\ UNCHANGED <<conn, cur, attempt, toPlc, stream, mem, seen, batch>>

\* An exception leaves scan_all: what it had collected goes with it.
LeaveScan(where) ==
    /\ pc' = where
    /\ conn' = "closed"
    /\ cur' = 1
    /\ attempt' = 1
    /\ toPlc' = <<>>
    /\ toGateway' = <<>>
    /\ response' = <<>>
    /\ strays' = 0
    /\ seen' = {}
    /\ batch' = {}
    /\ UNCHANGED mem

\* scan_all returned: the main loop publishes the batch and starts over.
PublishCycle ==
    /\ pc = "next"
    /\ cur = N + 1
    /\ cur' = 1
    /\ batch' = {}
    /\ UNCHANGED <<pc, conn, attempt, toPlc, stream, mem, seen>>

(***************************************************************************)
(* One entry of the pass.                                                  *)
(***************************************************************************)
NextEntry ==
    /\ pc' = "next"
    /\ cur' = cur + 1
    /\ attempt' = 1
    /\ seen' = {}

\* check_if_invalid says it is not due yet.
SkipEntry ==
    /\ pc = "next"
    /\ cur \in Entries
    /\ cur' = cur + 1
    /\ UNCHANGED <<pc, conn, attempt, toPlc, stream, mem, seen, batch>>

BeginRead ==
    /\ pc = "next"
    /\ cur \in Entries
    /\ pc' = "send"
    /\ seen' = {mem[cur]}
    /\ UNCHANGED <<conn, cur, attempt, toPlc, stream, mem, batch>>

\* A get_raw_value that sends every request twice (a mutant of Send).
SendTwice ==
    /\ pc = "send"
    /\ \/ /\ conn = "open"
          /\ toPlc' = toPlc \o <<cur, cur>>
          /\ pc' = "recv"
          /\ UNCHANGED <<conn, cur, attempt, stream, mem, seen, batch>>
       \/ /\ conn = "eof"
          /\ conn' \in {"eof", "dead"}
          /\ pc' = "recv"
          /\ UNCHANGED <<cur, attempt, toPlc, stream, mem, seen, batch>>
       \/ /\ conn = "reset"
          /\ LeaveScan("connect")
       \/ /\ conn = "dead"
          /\ LeaveScan("brokenPipe")

\* s.send outside the try: a connection the kernel knows to be gone raises
\* out of get_raw_value. After the peer's FIN the first send is accepted and
\* draws a RST.
Send ==
    /\ pc = "send"
    /\ \/ /\ conn = "open"
          /\ toPlc' = Append(toPlc, cur)
          /\ pc' = "recv"
          /\ UNCHANGED <<conn, cur, attempt, stream, mem, seen, batch>>
       \/ /\ conn = "eof"
          /\ conn' \in {"eof", "dead"}
          /\ pc' = "recv"
          /\ UNCHANGED <<cur, attempt, toPlc, stream, mem, seen, batch>>
       \/ /\ conn = "reset"
          /\ LeaveScan("connect")
       \/ /\ conn = "dead"
          /\ LeaveScan("brokenPipe")

\* A retry loop that does not count its attempts (a mutant of AttemptFails).
RetryForever ==
    /\ pc' = "send"
    /\ UNCHANGED <<cur, attempt, seen>>

\* A give-up that does not start the next entry at attempt 1 (a mutant of
\* AttemptFails).
AttemptsNotReset ==
    /\ attempt' = attempt + 1
    /\ IF attempt < MaxTries
       THEN pc' = "send" /\ UNCHANGED <<cur, seen>>
       ELSE pc' = "next" /\ cur' = cur + 1 /\ seen' = {}

\* An attempt that ended in an exception inside the try.
AttemptFails ==
    IF attempt < MaxTries
    THEN /\ pc' = "send"
         /\ attempt' = attempt + 1
         /\ UNCHANGED <<cur, seen>>
    ELSE NextEntry

\* A pass that keeps what it read last only (a mutant of ReadReturns).
KeepLastRead(from, val) ==
    /\ NextEntry
    /\ batch' = {[for |-> cur, from |-> from, val |-> val]}

\* The response decoded: the entry's values, whoever they were read for.
ReadReturns(from, val) ==
    /\ NextEntry
    /\ batch' = batch \cup {[for |-> cur, from |-> from, val |-> val]}

\* What the receives of an attempt have got is decoded.
Decode(got) ==
    /\ response' = <<>>
    /\ \/ HasEnd(got) /\ UNCHANGED strays
       \/ /\ ~HasEnd(got)
          /\ conn = "open" => strays < MaxStrays
          /\ strays' = strays + 1
    /\ \/ Acceptable(got) /\ ReadReturns(got[1].from, got[1].val)
       \/ Misread(got) /\ ReadReturns(Nobody, got[1].val)
       \/ ~Acceptable(got) /\ AttemptFails /\ UNCHANGED batch

\* A read that decodes what its first recv returned, whatever its length (a
\* mutant of Receive).
ReceiveOnce ==
    /\ pc = "recv"
    /\ \E k \in Received(toGateway) :
        /\ toGateway' = Without(toGateway, k)
        /\ Decode(SubSeq(toGateway, 1, k))
    /\ UNCHANGED <<conn, toPlc, mem>>

\* recv returns k cells. 1420 bytes are kept for a second recv; anything else
\* is decoded.
Receive ==
    /\ pc = "recv"
    /\ \E k \in Received(toGateway) :
        /\ toGateway' = Without(toGateway, k)
        /\ \/ /\ k = Full
              /\ pc' = "recvRest"
              /\ response' = SubSeq(toGateway, 1, k)
              /\ UNCHANGED <<cur, attempt, strays, seen, batch>>
           \/ /\ k # Full
              /\ Decode(SubSeq(toGateway, 1, k))
    /\ UNCHANGED <<conn, toPlc, mem>>

\* The second recv: what it returns is taken for the rest.
ReceiveRest ==
    /\ pc = "recvRest"
    /\ \E k \in Received(toGateway) :
        /\ toGateway' = Without(toGateway, k)
        /\ Decode(response \o SubSeq(toGateway, 1, k))
    /\ UNCHANGED <<conn, toPlc, mem>>

\* The requests without an answer, and the replies not yet read to their end.
Backlog == Len(toPlc) + Cardinality({i \in DOMAIN toGateway : Ends(toGateway[i])})

\* socket.timeout on a live connection: nothing has arrived, and what is
\* still to come is at most MaxBehind.
Timeout ==
    /\ pc \in {"recv", "recvRest"}
    /\ conn = "open"
    /\ Backlog <= MaxBehind
    /\ AttemptFails
    /\ response' = <<>>
    /\ UNCHANGED <<conn, toPlc, toGateway, strays, mem, batch>>

\* recv on a connection that has ended: b'' does not decode, nor does it make
\* a response of 1420 bytes, and a pending reset is an OSError. Both are
\* caught, and the next attempt sends again.
ReceiveNothing ==
    /\ pc \in {"recv", "recvRest"}
    /\ toGateway = <<>>
    /\ \/ conn \in {"eof", "dead"} /\ UNCHANGED conn
       \/ conn = "reset" /\ conn' = "dead"
    /\ AttemptFails
    /\ response' = <<>>
    /\ UNCHANGED <<toPlc, toGateway, strays, mem, batch>>

Gateway ==
    \/ Connect \/ ConnectRefused \/ PublishCycle \/ SkipEntry \/ BeginRead
    \/ Send \/ Receive \/ ReceiveRest \/ Timeout \/ ReceiveNothing

-----------------------------------------------------------------------------
(***************************************************************************)
(* The PLC.                                                                *)
(***************************************************************************)

\* The PLC's receive took k requests at once and answers the first one; the
\* mock ignores the bytes after it. A real station refuses some requests.
PlcServe ==
    /\ conn = "open"
    /\ \E k \in 1..Len(toPlc) :
        /\ toPlc' = Without(toPlc, k)
        /\ \/ toGateway' = toGateway \o Reply(toPlc[1])
           \/ toGateway' = toGateway \o Refusal(toPlc[1])
    /\ UNCHANGED <<pc, conn, cur, attempt, response, strays, mem, seen, batch>>

\* _process_request returned None: no answer at all.
PlcIgnores ==
    /\ conn = "open"
    /\ toPlc # <<>>
    /\ toPlc' = Tail(toPlc)
    /\ UNCHANGED <<pc, conn, cur, attempt, stream, mem, seen, batch>>

\* The PLC closes its end, or resets the connection and takes with it what
\* was still on the way.
PlcCloses ==
    /\ conn = "open"
    /\ conn' = "eof"
    /\ toPlc' = <<>>
    /\ UNCHANGED <<pc, cur, attempt, stream, mem, seen, batch>>

PlcResets ==
    /\ conn = "open"
    /\ conn' = "reset"
    /\ toPlc' = <<>>
    /\ \E k \in {0} \cup Received(toGateway) : toGateway' = SubSeq(toGateway, 1, k)
    /\ UNCHANGED <<pc, cur, attempt, response, strays, mem, seen, batch>>

\* The plant, the simulation threads or another client change a register.
PlcWrite ==
    /\ \E e \in Entries, v \in Values :
        /\ mem' = [mem EXCEPT ![e] = v]
        /\ seen' = IF pc \in {"send", "recv", "recvRest"} /\ e = cur
                   THEN seen \cup {v} ELSE seen
    /\ UNCHANGED <<pc, conn, cur, attempt, toPlc, stream, batch>>

Plc == PlcServe \/ PlcIgnores \/ PlcCloses \/ PlcResets \/ PlcWrite

\* A process that has ended takes no step: it stutters.
Next == Gateway \/ (~Exited /\ Plc)

Spec == Init /\ [][Next]_vars

\* The main thread runs whenever it can; the PLC answers or ignores what it
\* was sent, sooner or later. Nobody owes a reset, a write or a refusal.
FairSpec ==
    /\ Spec
    /\ WF_vars(Gateway)
    /\ WF_vars(~Exited /\ (PlcServe \/ PlcIgnores))

-----------------------------------------------------------------------------
(***************************************************************************)
(* Properties.                                                             *)
(***************************************************************************)

\* The types of the variables. The attempt counter stays within MaxTries and
\* the pass within the list whatever the connection does.
TypeOK ==
    /\ pc \in {"connect", "next", "send", "recv", "recvRest",
               "refused", "brokenPipe"}
    /\ conn \in {"closed", "open", "eof", "reset", "dead"}
    /\ cur \in 1..(N + 1)
    /\ attempt \in 1..MaxTries
    /\ toPlc \in Seq(Entries)
    /\ toGateway \in Seq(Cell)
    /\ response \in Seq(Cell)
    /\ strays \in Nat
    /\ mem \in [Entries -> Values]
    /\ seen \subseteq Values
    /\ batch \subseteq [for : Entries, from : Entries \cup {Nobody}, val : Values]

\* What is published under an entry's address was read from that entry. The
\* README says of the topic: "Current value of a single register".
Attributed == \A r \in batch : r.for = r.from

\* The requests unanswered and the replies unread do not pile up: retries,
\* discarded replies and coalesced ones included, there is never more on the
\* way than what the PLC may be behind by, the one request the gateway is
\* waiting for, and one reply for each piece that was taken for a response:
\* its attempt ended without the end of the reply.
BacklogBounded ==
    Backlog <= MaxBehind + strays + (IF pc \in {"recv", "recvRest"} THEN 1 ELSE 0)

\* A pass over the list always comes to its end, however many entries the
\* PLC refuses, ignores or answers late, unless the connection keeps being
\* reset or the process ends.
PassesComplete ==
    \/ []<>(pc = "next" /\ cur = N + 1)
    \/ []<>(pc = "connect")
    \/ <>Exited

\* The network cuts a reply after 1420 bytes or not at all, as the gateway
\* expects.
CutsAsExpected ==
    \A e \in Entries : \A i \in Cuts : i < Length[e] => i = Full

\* The readings of a PLC that answers in time, over a network that cuts its
\* replies as expected: each is a value its entry held between the start and
\* the end of its own read.
Public(r) == [for |-> r.for, val |-> r.val]
Readings(b) == {Public(r) : r \in b}

Feed == INSTANCE RegisterFeed WITH
    reading <- IF pc \in {"send", "recv", "recvRest"} THEN cur ELSE 0,
    batch <- Readings(batch)

ImplementsFeed == Feed!Spec
=============================================================================
