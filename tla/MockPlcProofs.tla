---------------------------- MODULE MockPlcProofs ----------------------------
(***************************************************************************)
(* Theorems about MockPlc for every number of ports and clients, every     *)
(* block, every word and every gain.                                       *)
(*                                                                         *)
(*  - TypeCorrect: the type invariant, with a connection at one place only *)
(*    (Places).                                                            *)
(*  - WordsWereHeldHolds: what is answered was in the registers; it rests  *)
(*    on Working, which ties a request to the words read for it.           *)
(*  - AckedWriteStandsHolds: what was seen answered is in the memory; it   *)
(*    rests on Carried.                                                    *)
(***************************************************************************)
EXTENDS MockPlc, SequenceTheorems, TLAPS

USE ConnsAssumption, PortsOfAssumption, BlocksAssumption, TargetsAssumption,
    WordAssumption, GainAssumption, ElapsedAssumption, MaxSentAssumption

-----------------------------------------------------------------------------
(***************************************************************************)
(* The invariants.                                                         *)
(***************************************************************************)
Reads == {Read(b) : b \in Blocks}
Writes == {Write(r, v) : r \in Targets, v \in Given}

ThreadsOK ==
    /\ memory \in [Registers -> Nat]
    /\ plant \in 0..(Gain * MaxWord)

ServersOK ==
    /\ backlog \in [Ports -> Seq(Conns)]
    /\ active \in [Ports -> Conns \cup {Nobody}]
    /\ server \in [Ports -> {"accept", "recv", "read", "write", "send"}]
    /\ request \in [Ports -> Requests]
    /\ data \in [Ports -> Seq(Nat)]

ClientsOK ==
    /\ toServer \in [Conns -> Seq(Reads \cup Writes)]
    /\ toClient \in [Conns -> BOOLEAN]
    /\ client \in [Conns -> {"free", "open", "closed"}]
    /\ write \in [Writers -> Writes \cup {None}]

HistoryOK ==
    /\ held \in [Ports -> Seq(SUBSET Nat)]
    /\ alone \in [Writers -> BOOLEAN]
    /\ acked \in [Registers -> Int]

Shapes == ThreadsOK /\ ServersOK /\ ClientsOK /\ HistoryOK

\* A connection that is not free is at one place, served by a port or in the
\* queue of one; and a free one is nowhere, with no answer on its way.
Occupied ==
    /\ \A p \in Ports : server[p] = "accept" <=> active[p] = Nobody
    /\ \A p \in Ports : active[p] # Nobody => client[active[p]] # "free"
    /\ \A p, q \in Ports : active[p] = active[q] /\ active[p] # Nobody => p = q
Queued(p) == 1..Len(backlog[p])
Waiting ==
    \A p \in Ports : \A i \in Queued(p) :
        /\ client[backlog[p][i]] # "free"
        /\ \A q \in Ports : active[q] # backlog[p][i]
        /\ \A q \in Ports : \A j \in Queued(q) :
            backlog[p][i] = backlog[q][j] => p = q /\ i = j
Idle == \A c \in Conns : client[c] = "free" => ~toClient[c]
Places == Occupied /\ Waiting /\ Idle

\* What a server is at goes with its request: the words of a read are those
\* that their registers have held, and a register that is still to be read
\* holds what it has held. Nobody who writes is read for.
ReadingAt(p) ==
    /\ request[p] \in Reads
    /\ active[p] \notin Writers
    /\ Len(held[p]) = Len(request[p].block)
    /\ Len(data[p]) <= Len(held[p])
    /\ \A i \in 1..Len(held[p]) : memory[request[p].block[i]] \in held[p][i]
    /\ \A i \in 1..Len(data[p]) : data[p][i] \in held[p][i]
WorkingAt(p) ==
    /\ server[p] = "read" => ReadingAt(p)
    /\ server[p] # "read" => Len(data[p]) = 0
    /\ server[p] \in {"accept", "recv"} => request[p] = None
    /\ server[p] \in {"write", "send"} => request[p] \in Writes
Working == \A p \in Ports : WorkingAt(p)

\* A writer that waits for its answer has sent, and the server works on,
\* nothing but its write; and once that is carried out its register holds the
\* value until somebody else sets it.
OnlyWrites == \A c \in Writers : \A i \in DOMAIN toServer[c] : toServer[c][i] \in Writes
Answered(c) == toClient[c] \/ \E p \in Ports : active[p] = c /\ server[p] = "send"
CarriedFor(c) ==
    /\ write[c] \in Writes
    /\ \A i \in DOMAIN toServer[c] : toServer[c][i] = write[c]
    /\ \A p \in Ports :
        active[p] = c /\ server[p] \in {"write", "send"} => request[p] = write[c]
    /\ alone[c] /\ Answered(c) => memory[write[c].register] = write[c].value
Carried ==
    /\ OnlyWrites
    /\ \A c \in Writers : client[c] = "open" => CarriedFor(c)
    /\ AckedWriteStands

-----------------------------------------------------------------------------
(***************************************************************************)
(* Requests, and the setting of a register.                                *)
(***************************************************************************)

\* What requests are made of, and that their kinds are different.
LEMMA RequestKinds ==
    /\ Requests = {None} \cup Reads \cup Writes
    /\ \A q \in Reads : /\ q.kind = "read"
                        /\ q.block \in Seq(Registers) /\ q.block # <<>>
    /\ \A q \in Writes : /\ q.kind = "write"
                         /\ q.register \in Registers /\ q.value \in Given
                         /\ q.value \in Nat
    /\ None.kind = "none"
<1>1. \A q \in Reads : q.kind = "read" /\ q.block \in Seq(Registers) /\ q.block # <<>>
  BY DEF Reads, Read
<1>2. \A q \in Writes : q.kind = "write" /\ q.register \in Targets /\ q.value \in Given
  BY DEF Writes, Write
<1>3. Targets \subseteq Registers /\ Given \subseteq Nat
  OBVIOUS
<1>4. None.kind = "none"
  BY DEF None
<1>5. Requests = {None} \cup Reads \cup Writes
  BY DEF Requests, Reads, Writes
<1> QED
  BY <1>1, <1>2, <1>3, <1>4, <1>5

\* A function on the indices of a sequence is a sequence of the same length.
LEMMA MappedSeq ==
    ASSUME NEW S, NEW T, NEW s \in Seq(S), NEW t, DOMAIN t = DOMAIN s,
           t = [i \in DOMAIN t |-> t[i]], \A i \in DOMAIN s : t[i] \in T
    PROVE  t \in Seq(T) /\ Len(t) = Len(s) /\ DOMAIN t = 1..Len(t)
<1>1. Len(s) \in Nat /\ DOMAIN s = 1..Len(s)
  BY LenProperties
<1>2. t \in [1..Len(s) -> T]
  BY <1>1
<1>3. t \in Seq(T)
  BY <1>1, <1>2, SeqDef
<1> QED
  BY <1>1, <1>2, <1>3, LenProperties

\* The words that have been held, with v for every word of register r.
HeldGrows(r, v) ==
    \A p \in Ports : \A i \in 1..Len(held[p]) :
        held'[p][i] = IF request[p].block[i] = r THEN held[p][i] \cup {v}
                      ELSE held[p][i]

\* A register that is set: what was held grows by the value, whoever else
\* counts on it is no longer alone, and an acknowledgement ends.
LEMMA RegisterSet ==
    ASSUME HistoryOK, ThreadsOK, NEW by \in Conns \cup {Nobody}, NEW r \in Registers, NEW v \in Nat,
           SetRegister(by, r, v)
    PROVE  /\ memory' \in [Registers -> Nat]
           /\ \A s \in Registers : memory'[s] = IF s = r THEN v ELSE memory[s]
           /\ held' \in [Ports -> Seq(SUBSET Nat)]
           /\ \A p \in Ports : Len(held'[p]) = Len(held[p])
           /\ HeldGrows(r, v)
           /\ acked' \in [Registers -> Int]
           /\ \A s \in Registers : acked'[s] = IF s = r THEN NoWord ELSE acked[s]
           /\ alone' \in [Writers -> BOOLEAN]
           /\ \A c \in Writers :
                alone'[c] => alone[c] /\ (c = by \/ write[c].register # r)
<1>1. /\ memory' \in [Registers -> Nat]
      /\ \A s \in Registers : memory'[s] = IF s = r THEN v ELSE memory[s]
  BY DEF SetRegister, ThreadsOK
<1>2. /\ acked' \in [Registers -> Int]
      /\ \A s \in Registers : acked'[s] = IF s = r THEN NoWord ELSE acked[s]
  BY DEF SetRegister, HistoryOK, NoWord
<1>3. /\ alone' \in [Writers -> BOOLEAN]
      /\ \A c \in Writers :
           alone'[c] => alone[c] /\ (c = by \/ write[c].register # r)
  BY Zenon DEF SetRegister, HistoryOK
<1>4. ASSUME NEW p \in Ports
      PROVE  /\ held'[p] \in Seq(SUBSET Nat) /\ Len(held'[p]) = Len(held[p])
             /\ \A i \in 1..Len(held[p]) :
                  held'[p][i] = IF request[p].block[i] = r THEN held[p][i] \cup {v}
                                ELSE held[p][i]
  <2>1. /\ held[p] \in Seq(SUBSET Nat) /\ DOMAIN held[p] = 1..Len(held[p])
        /\ \A i \in 1..Len(held[p]) : held[p][i] \in SUBSET Nat
    BY LenProperties, ElementOfSeq DEF HistoryOK
  <2> DEFINE h == [i \in DOMAIN held[p] |->
                     IF request[p].block[i] = r THEN held[p][i] \cup {v}
                     ELSE held[p][i]]
  <2>2. held'[p] = h
    BY DEF SetRegister
  <2>3. /\ DOMAIN h = DOMAIN held[p] /\ h = [i \in DOMAIN h |-> h[i]]
        /\ \A i \in DOMAIN held[p] :
             h[i] = IF request[p].block[i] = r THEN held[p][i] \cup {v} ELSE held[p][i]
    OBVIOUS
  <2> HIDE DEF h
  <2>4. \A i \in DOMAIN held[p] : h[i] \in SUBSET Nat
    BY <2>1, <2>3
  <2>5. h \in Seq(SUBSET Nat) /\ Len(h) = Len(held[p])
    BY ONLY <2>1, <2>3, <2>4, MappedSeq
  <2> QED BY <2>1, <2>2, <2>3, <2>5
<1>5. held' = [p \in Ports |-> held'[p]]
  BY DEF SetRegister
<1>6. held' \in [Ports -> Seq(SUBSET Nat)]
  BY <1>4, <1>5
<1>7. HeldGrows(r, v)
  BY <1>4 DEF HeldGrows
<1> QED
  BY <1>1, <1>2, <1>3, <1>4, <1>6, <1>7

\* A step that sets register r to v, for a client or for a thread of the mock:
\* only the server of that client is a step further, and r and v are what its
\* request says.
Sets(by, r, v) ==
    /\ SetRegister(by, r, v)
    /\ plant' \in 0..(Gain * MaxWord)
    /\ UNCHANGED <<backlog, active, request, data, clients>>
    /\ \/ by = Nobody /\ UNCHANGED server
       \/ \E p \in Ports :
            /\ server[p] = "write" /\ server' = [server EXCEPT ![p] = "send"]
            /\ active[p] = by
            /\ request[p].register = r /\ request[p].value = v

LEMMA SettingSteps ==
    ASSUME Shapes, Working,
           ClockTurn \/ SimulationTurn \/ \E p \in Ports : WriteWord(p)
    PROVE  \E by \in Conns \cup {Nobody}, r \in Registers, v \in Nat : Sets(by, r, v)
<1>1. CASE ClockTurn
  <2>1. memory["SD518"] + 1 \in Nat /\ "SD518" \in Registers
    BY DEF Shapes, ThreadsOK, Registers
  <2>2. Sets(Nobody, "SD518", memory["SD518"] + 1)
    BY <1>1 DEF ClockTurn, Sets, Shapes, ThreadsOK, ServersOK, servers
  <2> QED BY <2>1, <2>2
<1>2. CASE SimulationTurn
  <2>1. plant' \in Between(plant, Target) \cup {plant} /\ SetRegister(Nobody, "D100", plant')
        /\ UNCHANGED <<servers, clients>>
    BY <1>2 DEF SimulationTurn, TurnTo
  <2>2. plant' \in 0..(Gain * MaxWord)
    BY <2>1 DEF Between, Shapes, ThreadsOK
  <2>3. Gain * MaxWord \in Nat
    OBVIOUS
  <2>4. plant' \in Nat /\ "D100" \in Registers
    BY <2>2, <2>3 DEF Registers
  <2>5. Sets(Nobody, "D100", plant')
    BY <2>1, <2>2 DEF Sets, Shapes, ServersOK, servers
  <2> QED BY <2>4, <2>5
<1>3. ASSUME NEW p \in Ports, WriteWord(p)
      PROVE  \E by \in Conns \cup {Nobody}, r \in Registers, v \in Nat : Sets(by, r, v)
  <2> DEFINE r == request[p].register
             v == request[p].value
  <2>1. request[p] \in Writes /\ active[p] \in Conns \cup {Nobody}
    BY <1>3 DEF WriteWord, Working, WorkingAt, Shapes, ServersOK
  <2>2. r \in Registers /\ v \in Nat
    BY <2>1, RequestKinds
  <2>3. /\ server[p] = "write" /\ SetRegister(active[p], r, v)
        /\ server' = [server EXCEPT ![p] = "send"]
        /\ UNCHANGED <<plant, backlog, active, request, data, clients>>
    BY <1>3 DEF WriteWord
  <2>4. Sets(active[p], r, v)
    BY <2>3 DEF Sets, Shapes, ServersOK, ThreadsOK
  <2> QED BY <2>1, <2>2, <2>4
<1> QED
  BY <1>1, <1>2, <1>3

-----------------------------------------------------------------------------
(***************************************************************************)
(* The inductive invariant, one step after the other.                      *)
(***************************************************************************)
Inv == Shapes /\ Places /\ Working /\ Carried

\* What is left of a sequence without its first k elements.
LEMMA Drop ==
    ASSUME NEW S, NEW q \in Seq(S), NEW k \in 1..Len(q)
    PROVE  /\ SubSeq(q, k + 1, Len(q)) \in Seq(S)
           /\ Len(SubSeq(q, k + 1, Len(q))) = Len(q) - k
           /\ \A i \in 1..(Len(q) - k) : SubSeq(q, k + 1, Len(q))[i] = q[k + i]
<1>0. Len(q) \in Nat /\ k \in Nat /\ k <= Len(q) /\ k >= 1
  BY LenProperties
<1>1. \A i \in 1..Len(q) : q[i] \in S
  BY ElementOfSeq
<1>2. \A i \in (k + 1)..Len(q) : q[i] \in S
  BY <1>0, <1>1
<1>3. k + 1 \in Int /\ Len(q) \in Int
  BY <1>0
<1>4. /\ SubSeq(q, k + 1, Len(q)) \in Seq(S)
      /\ Len(SubSeq(q, k + 1, Len(q)))
           = IF k + 1 <= Len(q) THEN Len(q) - (k + 1) + 1 ELSE 0
      /\ \A i \in 1..(Len(q) - (k + 1) + 1) :
             SubSeq(q, k + 1, Len(q))[i] = q[k + 1 + i - 1]
  BY ONLY <1>2, <1>3, SubSeqProperties
<1> QED
  BY <1>0, <1>4

\* The sequences of the state, and the connection of a port that is busy.
LEMMA Sequences ==
    ASSUME Shapes
    PROVE  /\ \A p \in Ports : /\ Len(backlog[p]) \in Nat /\ Len(data[p]) \in Nat
                               /\ Len(held[p]) \in Nat
                               /\ DOMAIN data[p] = 1..Len(data[p])
                               /\ \A i \in 1..Len(backlog[p]) : backlog[p][i] \in Conns
           /\ \A c \in Conns : /\ Len(toServer[c]) \in Nat
                               /\ DOMAIN toServer[c] = 1..Len(toServer[c])
                               /\ \A i \in 1..Len(toServer[c]) :
                                    toServer[c][i] \in Reads \cup Writes
<1>1. ASSUME NEW p \in Ports
      PROVE  /\ Len(backlog[p]) \in Nat /\ Len(data[p]) \in Nat /\ Len(held[p]) \in Nat
             /\ DOMAIN data[p] = 1..Len(data[p])
             /\ \A i \in 1..Len(backlog[p]) : backlog[p][i] \in Conns
  <2>1. backlog[p] \in Seq(Conns) /\ data[p] \in Seq(Nat) /\ held[p] \in Seq(SUBSET Nat)
    BY DEF Shapes, ServersOK, HistoryOK
  <2> QED BY <2>1, LenProperties, ElementOfSeq
<1>2. ASSUME NEW c \in Conns
      PROVE  /\ Len(toServer[c]) \in Nat /\ DOMAIN toServer[c] = 1..Len(toServer[c])
             /\ \A i \in 1..Len(toServer[c]) : toServer[c][i] \in Reads \cup Writes
  <2>1. toServer[c] \in Seq(Reads \cup Writes)
    BY DEF Shapes, ClientsOK
  <2> QED BY <2>1, LenProperties, ElementOfSeq
<1> QED
  BY <1>1, <1>2

LEMMA Busy ==
    ASSUME Shapes, Places, NEW p \in Ports, server[p] # "accept"
    PROVE  active[p] \in Conns /\ client[active[p]] \in {"open", "closed"}
BY DEF Shapes, ServersOK, ClientsOK, Places, Occupied

\* A connection is accepted.
LEMMA AcceptStep ==
    ASSUME Inv, NEW p \in Ports, Accept(p)
    PROVE  Inv'
<1> USE DEF Inv
<1> DEFINE c == backlog[p][1]
<1>1. /\ server[p] = "accept" /\ active[p] = Nobody /\ backlog[p] # <<>>
      /\ active' = [active EXCEPT ![p] = Head(backlog[p])]
      /\ backlog' = [backlog EXCEPT ![p] = Tail(backlog[p])]
      /\ server' = [server EXCEPT ![p] = "recv"]
      /\ UNCHANGED <<memory, plant, request, data, toServer, toClient, client, write>>
      /\ UNCHANGED <<held, alone, acked>>
  BY DEF Accept, threads, clients, history
<1>2. /\ Head(backlog[p]) = c /\ c \in Conns /\ Tail(backlog[p]) \in Seq(Conns)
      /\ Len(Tail(backlog[p])) = Len(backlog[p]) - 1 /\ 1 \in Queued(p)
      /\ \A i \in 1..(Len(backlog[p]) - 1) :
            Tail(backlog[p])[i] = backlog[p][i + 1] /\ i + 1 \in Queued(p)
  <2>1. backlog[p] \in Seq(Conns)
    BY DEF Shapes, ServersOK
  <2>2. /\ Tail(backlog[p]) \in Seq(Conns) /\ Len(Tail(backlog[p])) = Len(backlog[p]) - 1
        /\ \A i \in 1..Len(Tail(backlog[p])) : Tail(backlog[p])[i] = backlog[p][i + 1]
    BY <1>1, <2>1, HeadTailProperties
  <2>3. Len(Tail(backlog[p])) \in Nat /\ Len(backlog[p]) \in Nat
    BY <2>1, <2>2, LenProperties
  <2>4. 1 \in Queued(p) /\ \A i \in 1..(Len(backlog[p]) - 1) : i + 1 \in Queued(p)
    BY <2>2, <2>3 DEF Queued
  <2>5. Head(backlog[p]) = c /\ c \in Conns
    BY <2>1, <2>4, ElementOfSeq DEF Queued
  <2> QED BY <2>2, <2>3, <2>4, <2>5
<1> HIDE DEF c
<1>3. /\ active' \in [Ports -> Conns \cup {Nobody}]
      /\ \A q \in Ports : active'[q] = IF q = p THEN c ELSE active[q]
      /\ \A q \in Ports : server'[q] = IF q = p THEN "recv" ELSE server[q]
      /\ backlog' \in [Ports -> Seq(Conns)]
      /\ \A q \in Ports : backlog'[q] = IF q = p THEN Tail(backlog[p]) ELSE backlog[q]
  BY <1>1, <1>2 DEF Shapes, ServersOK
<1>4. Shapes'
  <2>1. server' \in [Ports -> {"accept", "recv", "read", "write", "send"}]
    BY <1>1 DEF Shapes, ServersOK
  <2> QED BY <1>1, <1>3, <2>1 DEF Shapes, ThreadsOK, ServersOK, ClientsOK, HistoryOK
<1>5. Places'
  <2>1. \A q \in Ports : \A i \in Queued(q)' :
          \E j \in Queued(q) : /\ backlog'[q][i] = backlog[q][j]
                               /\ j = IF q = p THEN i + 1 ELSE i
    BY <1>2, <1>3 DEF Queued
  <2>2. \A q \in Ports : \A j \in Queued(q) : backlog[q][j] = c => q = p /\ j = 1
    BY <1>2 DEF Places, Waiting, c
  <2>3. client[c] # "free" /\ \A q \in Ports : active[q] # c
    BY <1>2 DEF Places, Waiting, c
  <2>4. ASSUME NEW q \in Ports, NEW i \in Queued(q)'
        PROVE  /\ client[backlog'[q][i]] # "free"
               /\ \A r \in Ports : active'[r] # backlog'[q][i]
               /\ \A r \in Ports : \A j \in Queued(r)' :
                    backlog'[q][i] = backlog'[r][j] => q = r /\ i = j
    <3>1. PICK k \in Queued(q) : backlog'[q][i] = backlog[q][k] /\ k = IF q = p THEN i + 1 ELSE i
      BY <2>1, <2>4
    <3>2. q = p => k # 1
      BY <1>2, <1>3, <2>4, <3>1 DEF Queued
    <3>3. client[backlog[q][k]] # "free" /\ \A r \in Ports : active[r] # backlog[q][k]
      BY DEF Places, Waiting
    <3>4. backlog[q][k] # c
      BY <2>2, <3>2
    <3>5. ASSUME NEW r \in Ports, NEW j \in Queued(r)', backlog'[q][i] = backlog'[r][j]
          PROVE  q = r /\ i = j
      <4>1. PICK l \in Queued(r) : backlog'[r][j] = backlog[r][l]
                                   /\ l = IF r = p THEN j + 1 ELSE j
        BY <2>1, <3>5
      <4>2. backlog[q][k] = backlog[r][l]
        BY <3>1, <3>5, <4>1
      <4>3. q = r /\ k = l
        BY <4>2 DEF Places, Waiting
      <4>4. i \in Int /\ j \in Int
        BY <2>4, <3>5 DEF Queued
      <4> QED BY <3>1, <4>1, <4>3, <4>4
    <3> QED BY <1>3, <3>1, <3>3, <3>4, <3>5
  <2>5. Waiting'
    BY <1>1, <2>4 DEF Waiting
  <2>6. Occupied'
    BY <1>1, <1>2, <1>3, <2>3 DEF Places, Occupied
  <2>7. Idle'
    BY <1>1 DEF Places, Idle
  <2> QED BY <2>5, <2>6, <2>7 DEF Places
<1>6. Working'
  <2>1. ASSUME NEW q \in Ports, q # p PROVE WorkingAt(q)'
    BY <1>1, <1>3, <2>1 DEF Working, WorkingAt, ReadingAt
  <2>2. WorkingAt(p)'
    BY <1>1, <1>3 DEF Working, WorkingAt
  <2> QED BY <2>1, <2>2 DEF Working
<1>7. Carried'
  <2>1. ASSUME NEW d \in Writers, client[d] = "open" PROVE CarriedFor(d)'
    BY <1>1, <1>3, <2>1 DEF Carried, CarriedFor, Answered
  <2> QED BY <1>1, <2>1 DEF Carried, OnlyWrites, AckedWriteStands
<1> QED
  BY <1>4, <1>5, <1>6, <1>7

\* The register of each word that a request asks for.
LEMMA BlockOf ==
    ASSUME NEW q \in Reads
    PROVE  /\ q.kind = "read" /\ Len(q.block) \in Nat
           /\ DOMAIN q.block = 1..Len(q.block)
           /\ \A i \in 1..Len(q.block) : q.block[i] \in Registers
<1>1. q.kind = "read" /\ q.block \in Seq(Registers)
  BY RequestKinds
<1> QED
  BY <1>1, LenProperties, ElementOfSeq

\* A register is set.
LEMMA SetsStep ==
    ASSUME Inv, NEW by \in Conns \cup {Nobody}, NEW r \in Registers, NEW v \in Nat,
           Sets(by, r, v)
    PROVE  Inv'
<1> USE DEF Inv
<1>1. /\ UNCHANGED <<backlog, active, request, data, toServer, toClient, client, write>>
      /\ plant' \in 0..(Gain * MaxWord)
      /\ SetRegister(by, r, v)
  BY DEF Sets, clients
<1>0. HistoryOK /\ ThreadsOK /\ r \in Registers /\ v \in Nat /\ by \in Conns \cup {Nobody}
  BY DEF Shapes
<1>2. /\ server' \in [Ports -> {"accept", "recv", "read", "write", "send"}]
      /\ \A p \in Ports : server'[p] = server[p] \/ (server[p] = "write" /\ server'[p] = "send")
  BY DEF Sets, Shapes, ServersOK
<1>10. \/ by = Nobody /\ UNCHANGED server
       \/ \E p \in Ports :
            /\ server[p] = "write" /\ \A q \in Ports : q # p => server'[q] = server[q]
            /\ active[p] = by
            /\ request[p].register = r /\ request[p].value = v
  BY DEF Sets, Shapes, ServersOK
<1>11. /\ memory' \in [Registers -> Nat]
       /\ \A s \in Registers : memory'[s] = IF s = r THEN v ELSE memory[s]
  BY <1>0, <1>1 DEF SetRegister, ThreadsOK
<1>12. held' \in [Ports -> Seq(SUBSET Nat)] /\ \A p \in Ports : Len(held'[p]) = Len(held[p])
  BY ONLY <1>0, <1>1, RegisterSet
<1>13. HeldGrows(r, v)
  BY ONLY <1>0, <1>1, RegisterSet
<1>3. /\ memory' \in [Registers -> Nat]
      /\ \A s \in Registers : memory'[s] = IF s = r THEN v ELSE memory[s]
      /\ held' \in [Ports -> Seq(SUBSET Nat)]
      /\ \A p \in Ports : Len(held'[p]) = Len(held[p])
      /\ \A p \in Ports : \A i \in 1..Len(held[p]) :
           held'[p][i] = IF request[p].block[i] = r THEN held[p][i] \cup {v}
                         ELSE held[p][i]
  BY <1>11, <1>12, <1>13 DEF HeldGrows
<1>4. /\ acked' \in [Registers -> Int]
      /\ \A s \in Registers : acked'[s] = IF s = r THEN NoWord ELSE acked[s]
      /\ alone' \in [Writers -> BOOLEAN]
      /\ \A c \in Writers : alone'[c] => alone[c] /\ (c = by \/ write[c].register # r)
  BY ONLY <1>0, <1>1, RegisterSet
<1>5. Shapes'
  BY <1>1, <1>2, <1>3, <1>4 DEF Shapes, ThreadsOK, ServersOK, ClientsOK, HistoryOK
<1>6. Places'
  <2>1. Occupied'
    BY <1>1, <1>2 DEF Places, Occupied
  <2> QED BY <1>1, <2>1 DEF Places, Waiting, Idle, Queued
<1>7. ASSUME NEW p \in Ports PROVE WorkingAt(p)'
  <2>1. WorkingAt(p)
    BY DEF Working
  <2>2. ASSUME server[p] = "read" PROVE ReadingAt(p)'
    <3>1. /\ request[p] \in Reads /\ active[p] \notin Writers
          /\ Len(held[p]) = Len(request[p].block) /\ Len(data[p]) <= Len(held[p])
          /\ \A i \in 1..Len(held[p]) : memory[request[p].block[i]] \in held[p][i]
          /\ \A i \in 1..Len(data[p]) : data[p][i] \in held[p][i]
      BY <2>1, <2>2 DEF WorkingAt, ReadingAt
    <3>2. \A i \in 1..Len(held[p]) : held[p][i] \subseteq held'[p][i]
      BY <1>3
    <3>3. \A i \in 1..Len(held[p]) : memory'[request[p].block[i]] \in held'[p][i]
      <4> SUFFICES ASSUME NEW i \in 1..Len(held[p])
                   PROVE  memory'[request[p].block[i]] \in held'[p][i]
        OBVIOUS
      <4>1. request[p].block[i] \in Registers
        BY <3>1, BlockOf
      <4>2. memory[request[p].block[i]] \in held[p][i]
        BY <3>1
      <4> QED BY <1>3, <4>1, <4>2
    <3>4. \A i \in 1..Len(data[p]) : data[p][i] \in held'[p][i]
      BY <3>1, <3>2, Sequences
    <3> QED BY <1>1, <1>3, <3>1, <3>3, <3>4 DEF ReadingAt
  <2> QED BY <1>1, <1>2, <2>1, <2>2 DEF WorkingAt
<1>8. ASSUME NEW c \in Writers, client[c] = "open" PROVE CarriedFor(c)'
  <2>1. CarriedFor(c)
    BY <1>8 DEF Carried
  <2>2. write[c].register \in Registers
    BY <2>1, RequestKinds DEF CarriedFor
  <2>3. \A p \in Ports :
          active[p] = c /\ server'[p] \in {"write", "send"} => request[p] = write[c]
    BY <1>2, <2>1 DEF CarriedFor
  <2>4. ASSUME alone'[c], Answered(c)'
        PROVE  memory'[write[c].register] = write[c].value
    <3>1. alone[c] /\ (c = by \/ write[c].register # r)
      BY <1>4, <2>4
    <3>2. CASE by = c
      <4>1. PICK p \in Ports : /\ server[p] = "write" /\ active[p] = c
                               /\ request[p].register = r /\ request[p].value = v
        <5>1. c # Nobody
          BY DEF Conns
        <5> QED BY <1>10, <3>2, <5>1
      <4>2. request[p] = write[c]
        BY <2>1, <4>1 DEF CarriedFor
      <4> QED BY <1>3, <2>2, <4>1, <4>2
    <3>3. CASE by # c
      <4>1. Answered(c)
        BY <1>1, <1>2, <1>10, <2>4, <3>3 DEF Answered
      <4>2. memory[write[c].register] = write[c].value
        BY <2>1, <3>1, <4>1 DEF CarriedFor
      <4> QED BY <1>3, <2>2, <3>1, <3>3, <4>2
    <3> QED BY <3>2, <3>3
  <2> QED BY <1>1, <2>1, <2>3, <2>4 DEF CarriedFor
<1>9. Carried'
  <2>1. AckedWriteStands'
    BY <1>3, <1>4 DEF Carried, AckedWriteStands
  <2> QED BY <1>1, <1>8, <2>1 DEF Carried, OnlyWrites
<1> QED
  BY <1>5, <1>6, <1>7, <1>9 DEF Working

\* One recv of a server takes its first request and forgets those it took
\* with it.
LEMMA ReceiveStep ==
    ASSUME Inv, NEW p \in Ports, ReceiveRequest(p)
    PROVE  Inv'
<1> USE DEF Inv
<1> DEFINE c == active[p]
           q == Head(toServer[c])
           words == [i \in DOMAIN q.block |-> {memory[q.block[i]]}]
<1>1. PICK k \in 1..Len(toServer[c]) :
        toServer' = [toServer EXCEPT ![c] = SubSeq(toServer[c], k + 1, Len(toServer[c]))]
  BY DEF ReceiveRequest
<1>2. /\ server[p] = "recv"
      /\ request' = [request EXCEPT ![p] = q]
      /\ server' = [server EXCEPT ![p] = q.kind]
      /\ held' = [held EXCEPT ![p] = IF q.kind = "read" THEN words ELSE <<>>]
      /\ UNCHANGED <<memory, plant, backlog, active, data, toClient, client, write, alone, acked>>
  BY DEF ReceiveRequest, threads
<1>3. c \in Conns
  BY <1>2, Busy
<1> DEFINE rest == SubSeq(toServer[c], k + 1, Len(toServer[c]))
<1>4. /\ toServer[c] \in Seq(Reads \cup Writes) /\ Len(toServer[c]) \in Nat
      /\ k \in Nat /\ k <= Len(toServer[c]) /\ 1 <= k
      /\ DOMAIN toServer[c] = 1..Len(toServer[c])
      /\ 1 \in 1..Len(toServer[c])
  BY <1>3, Sequences DEF Shapes, ClientsOK
<1>5. q = toServer[c][1] /\ q \in Reads \cup Writes
  BY <1>3, <1>4, Sequences
<1>6. rest \in Seq(Reads \cup Writes) /\ Len(rest) \in Nat /\ DOMAIN rest = 1..Len(rest)
      /\ \A i \in DOMAIN rest : \E j \in DOMAIN toServer[c] : rest[i] = toServer[c][j]
  <2>1. /\ rest \in Seq(Reads \cup Writes) /\ Len(rest) = Len(toServer[c]) - k
        /\ \A i \in 1..(Len(toServer[c]) - k) : rest[i] = toServer[c][k + i]
    BY <1>4, Drop
  <2>2. DOMAIN rest = 1..Len(rest)
    BY <2>1, LenProperties
  <2>3. \A i \in 1..(Len(toServer[c]) - k) : k + i \in 1..Len(toServer[c])
    BY <1>4
  <2> HIDE DEF rest, c
  <2>4. ASSUME NEW i \in DOMAIN rest
        PROVE  rest[i] = toServer[c][k + i] /\ k + i \in DOMAIN toServer[c]
    BY <1>4, <2>1, <2>2, <2>3
  <2>5. Len(rest) \in Nat
    BY <1>4, <2>1
  <2> QED BY <2>1, <2>2, <2>4, <2>5
<1>7. q \in Reads => /\ q.kind = "read" /\ words \in Seq(SUBSET Nat)
                     /\ Len(words) = Len(q.block)
                     /\ \A i \in 1..Len(q.block) : words[i] = {memory[q.block[i]]}
  <2> SUFFICES ASSUME q \in Reads
               PROVE  /\ q.kind = "read" /\ words \in Seq(SUBSET Nat)
                      /\ Len(words) = Len(q.block)
                      /\ \A i \in 1..Len(q.block) : words[i] = {memory[q.block[i]]}
    OBVIOUS
  <2>1. /\ q.kind = "read" /\ Len(q.block) \in Nat /\ DOMAIN q.block = 1..Len(q.block)
        /\ \A i \in 1..Len(q.block) : q.block[i] \in Registers
        /\ q.block \in Seq(Registers)
    BY BlockOf, RequestKinds
  <2>2. /\ DOMAIN words = DOMAIN q.block /\ words = [i \in DOMAIN words |-> words[i]]
        /\ \A i \in DOMAIN q.block : words[i] = {memory[q.block[i]]}
    OBVIOUS
  <2>3. \A i \in DOMAIN q.block : memory[q.block[i]] \in Nat
    BY <2>1 DEF Shapes, ThreadsOK
  <2> HIDE DEF words, q
  <2>4. \A i \in DOMAIN q.block : words[i] \in SUBSET Nat
    BY <2>2, <2>3
  <2>5. words \in Seq(SUBSET Nat) /\ Len(words) = Len(q.block)
    BY ONLY <2>1, <2>2, <2>4, MappedSeq
  <2> QED BY <2>1, <2>2, <2>5
<1>8. q \in Writes => q.kind = "write"
  BY RequestKinds
<1>9. q \in Requests
  BY <1>5, RequestKinds
<1> HIDE DEF rest, words, q
<1>10. /\ toServer' \in [Conns -> Seq(Reads \cup Writes)]
       /\ \A d \in Conns : toServer'[d] = IF d = c THEN rest ELSE toServer[d]
  BY <1>1, <1>3, <1>6 DEF Shapes, ClientsOK, rest
<1>11. /\ request' \in [Ports -> Requests]
       /\ \A r \in Ports : request'[r] = IF r = p THEN q ELSE request[r]
       /\ server' \in [Ports -> {"accept", "recv", "read", "write", "send"}]
       /\ \A r \in Ports : server'[r] = IF r = p THEN q.kind ELSE server[r]
       /\ q.kind \in {"read", "write"}
  BY <1>2, <1>5, <1>7, <1>8, <1>9 DEF Shapes, ServersOK
<1>12. /\ held' \in [Ports -> Seq(SUBSET Nat)]
       /\ \A r \in Ports : r # p => held'[r] = held[r]
       /\ q \in Reads => held'[p] = words
  <2>1. <<>> \in Seq(SUBSET Nat)
    BY EmptySeq
  <2> QED BY <1>2, <1>5, <1>7, <1>8, <2>1 DEF Shapes, HistoryOK
<1>13. Shapes'
  BY <1>2, <1>10, <1>11, <1>12 DEF Shapes, ThreadsOK, ServersOK, ClientsOK, HistoryOK
<1>14. Places'
  <2>1. Occupied'
    BY <1>2, <1>11 DEF Places, Occupied
  <2> QED BY <1>2, <2>1 DEF Places, Waiting, Idle, Queued
<1>15. Working'
  <2>1. ASSUME NEW r \in Ports, r # p PROVE WorkingAt(r)'
    BY <1>2, <1>11, <1>12, <2>1 DEF Working, WorkingAt, ReadingAt
  <2>2. Len(data[p]) = 0
    BY <1>2 DEF Working, WorkingAt
  <2>3. ASSUME q \in Reads PROVE WorkingAt(p)'
    <3>1. c \notin Writers
      BY <1>4, <1>5, <1>7, <1>8, <2>3, RequestKinds DEF Carried, OnlyWrites
    <3>2. /\ Len(held'[p]) = Len(q.block) /\ Len(q.block) \in Nat
          /\ \A i \in 1..Len(q.block) : held'[p][i] = {memory[q.block[i]]}
      BY <1>7, <1>12, <2>3, BlockOf
    <3>3. ReadingAt(p)'
      BY <1>2, <1>11, <2>2, <2>3, <3>1, <3>2 DEF ReadingAt
    <3> QED BY <1>7, <1>11, <2>3, <3>3 DEF WorkingAt
  <2>4. ASSUME q \in Writes PROVE WorkingAt(p)'
    BY <1>2, <1>8, <1>11, <2>2, <2>4 DEF WorkingAt
  <2> QED BY <1>5, <2>1, <2>3, <2>4 DEF Working
<1>16. Carried'
  <2>1. OnlyWrites'
    BY <1>6, <1>10 DEF Carried, OnlyWrites, Conns
  <2>2. ASSUME NEW d \in Writers, client[d] = "open" PROVE CarriedFor(d)'
    <3>1. CarriedFor(d) /\ d \in Conns
      BY <2>2 DEF Carried, Conns
    <3>2. Answered(d)' <=> Answered(d)
      BY <1>2, <1>11 DEF Answered
    <3>3. \A i \in DOMAIN toServer'[d] : toServer'[d][i] = write[d]
      <4>1. \A i \in DOMAIN toServer[d] : toServer[d][i] = write[d]
        BY <3>1 DEF CarriedFor
      <4>2. CASE d = c
        BY <1>6, <1>10, <3>1, <4>1, <4>2
      <4>3. CASE d # c
        BY <1>10, <3>1, <4>1, <4>3
      <4> QED BY <4>2, <4>3
    <3>4. \A r \in Ports :
            active[r] = d /\ server'[r] \in {"write", "send"} => request'[r] = write[d]
      BY <1>4, <1>5, <1>11, <3>1 DEF CarriedFor
    <3> QED BY <1>2, <3>1, <3>2, <3>3, <3>4 DEF CarriedFor
  <2> QED BY <1>2, <2>1, <2>2 DEF Carried, AckedWriteStands
<1> QED
  BY <1>13, <1>14, <1>15, <1>16

\* The request of a port is dealt with: no word of it is left.
LEMMA DoneFacts ==
    ASSUME Shapes, Working, NEW p \in Ports, NEW next \in {"accept", "recv"}, Done(p, next),
           UNCHANGED memory, \A q \in Ports : q # p => active'[q] = active[q]
    PROVE  /\ server' \in [Ports -> {"accept", "recv", "read", "write", "send"}]
           /\ request' \in [Ports -> Requests]
           /\ data' \in [Ports -> Seq(Nat)]
           /\ held' \in [Ports -> Seq(SUBSET Nat)]
           /\ \A q \in Ports : server'[q] = IF q = p THEN next ELSE server[q]
           /\ \A q \in Ports : q # p => request'[q] = request[q]
           /\ Working'
<1>1. /\ server' = [server EXCEPT ![p] = next]
      /\ request' = [request EXCEPT ![p] = None]
      /\ data' = [data EXCEPT ![p] = <<>>]
      /\ held' = [held EXCEPT ![p] = <<>>]
  BY DEF Done
<1>2. None \in Requests /\ <<>> \in Seq(Nat) /\ <<>> \in Seq(SUBSET Nat)
  BY RequestKinds, EmptySeq
<1>3. /\ server' \in [Ports -> {"accept", "recv", "read", "write", "send"}]
      /\ \A q \in Ports : server'[q] = IF q = p THEN next ELSE server[q]
  BY <1>1 DEF Shapes, ServersOK
<1>4. /\ request' \in [Ports -> Requests] /\ request'[p] = None
      /\ \A q \in Ports : q # p => request'[q] = request[q]
  BY <1>1, <1>2 DEF Shapes, ServersOK
<1>5. /\ data' \in [Ports -> Seq(Nat)] /\ data'[p] = <<>>
      /\ \A q \in Ports : q # p => data'[q] = data[q]
  BY <1>1, <1>2 DEF Shapes, ServersOK
<1>6. /\ held' \in [Ports -> Seq(SUBSET Nat)]
      /\ \A q \in Ports : q # p => held'[q] = held[q]
  BY <1>1, <1>2 DEF Shapes, HistoryOK
<1>7. ASSUME NEW q \in Ports, q # p PROVE WorkingAt(q)'
  BY <1>3, <1>4, <1>5, <1>6, <1>7 DEF Working, WorkingAt, ReadingAt
<1>8. WorkingAt(p)'
  <2>1. Len(data'[p]) = 0
    BY <1>5, EmptySeq
  <2> QED BY <1>3, <1>4, <2>1 DEF WorkingAt
<1> QED
  BY <1>3, <1>4, <1>5, <1>6, <1>7, <1>8 DEF Working

\* A port lets go of its connection, which is then at no place.
LEMMA ReleaseFacts ==
    ASSUME Shapes, Places, NEW p \in Ports, Release(p), active[p] \in Conns,
           \A q \in Ports : server'[q] = IF q = p THEN "accept" ELSE server[q],
           UNCHANGED backlog
    PROVE  /\ active' \in [Ports -> Conns \cup {Nobody}]
           /\ \A q \in Ports : active'[q] = IF q = p THEN Nobody ELSE active[q]
           /\ toServer' \in [Conns -> Seq(Reads \cup Writes)]
           /\ toClient' \in [Conns -> BOOLEAN]
           /\ client' \in [Conns -> {"free", "open", "closed"}]
           /\ client'[active[p]] = "free" /\ DOMAIN toServer'[active[p]] = {}
           /\ \A d \in Conns : d # active[p] => /\ client'[d] = client[d]
                                                /\ toServer'[d] = toServer[d]
                                                /\ toClient'[d] = toClient[d]
           /\ Places'
<1> DEFINE c == active[p]
<1>1. /\ active' = [active EXCEPT ![p] = Nobody]
      /\ client' = [client EXCEPT ![c] = "free"]
      /\ toServer' = [toServer EXCEPT ![c] = <<>>]
      /\ toClient' = [toClient EXCEPT ![c] = FALSE]
  BY DEF Release
<1>2. c \in Conns /\ \A q \in Ports : active[q] = c => q = p
  BY DEF Places, Occupied, Conns
<1> HIDE DEF c
<1>3. /\ active' \in [Ports -> Conns \cup {Nobody}]
      /\ \A q \in Ports : active'[q] = IF q = p THEN Nobody ELSE active[q]
  BY <1>1 DEF Shapes, ServersOK
<1>4. /\ client' \in [Conns -> {"free", "open", "closed"}]
      /\ client'[c] = "free"
      /\ \A d \in Conns : d # c => client'[d] = client[d]
  BY <1>1, <1>2 DEF Shapes, ClientsOK
<1>5. /\ toServer' \in [Conns -> Seq(Reads \cup Writes)]
      /\ DOMAIN toServer'[c] = {}
      /\ \A d \in Conns : d # c => toServer'[d] = toServer[d]
  <2>1. <<>> \in Seq(Reads \cup Writes) /\ DOMAIN <<>> = {}
    BY EmptySeq
  <2> QED BY <1>1, <1>2, <2>1 DEF Shapes, ClientsOK
<1>6. /\ toClient' \in [Conns -> BOOLEAN]
      /\ ~toClient'[c]
      /\ \A d \in Conns : d # c => toClient'[d] = toClient[d]
  BY Zenon, <1>1, <1>2 DEF Shapes, ClientsOK
<1>7. Occupied'
  <2>1. ASSUME NEW q \in Ports PROVE server'[q] = "accept" <=> active'[q] = Nobody
    BY <1>3 DEF Places, Occupied
  <2>2. ASSUME NEW q \in Ports, active'[q] # Nobody PROVE client'[active'[q]] # "free"
    <3>1. q # p /\ active'[q] = active[q] /\ active[q] \in Conns
      BY <1>3, <2>2 DEF Shapes, ServersOK
    <3>2. active[q] # c /\ client[active[q]] # "free"
      BY <1>2, <2>2, <3>1 DEF Places, Occupied
    <3> QED BY <1>4, <3>1, <3>2
  <2>3. ASSUME NEW q \in Ports, NEW r \in Ports, active'[q] = active'[r], active'[q] # Nobody
        PROVE  q = r
    BY <1>3, <2>3 DEF Places, Occupied
  <2> QED BY <2>1, <2>2, <2>3 DEF Occupied
<1>8. Waiting'
  <2>1. ASSUME NEW q \in Ports, NEW i \in Queued(q)
        PROVE  /\ client'[backlog[q][i]] # "free"
               /\ \A r \in Ports : active'[r] # backlog[q][i]
    <3>1. /\ backlog[q][i] \in Conns /\ client[backlog[q][i]] # "free"
          /\ \A r \in Ports : active[r] # backlog[q][i]
      BY Sequences DEF Places, Waiting, Queued
    <3>2. backlog[q][i] # c
      BY <3>1 DEF c
    <3>3. backlog[q][i] # Nobody
      BY <3>1 DEF Conns
    <3> QED BY <1>3, <1>4, <3>1, <3>2, <3>3
  <2> QED BY <2>1 DEF Places, Waiting, Queued
<1>9. Idle'
  BY <1>4, <1>6 DEF Places, Idle
<1> QED
  BY <1>3, <1>4, <1>5, <1>6, <1>7, <1>8, <1>9 DEF Places, c

\* A writer that is still at its write, with no more on its way than before.
LEMMA StillCarried ==
    ASSUME Carried, NEW d \in Writers, client[d] = "open",
           UNCHANGED <<memory, write, alone, acked>>,
           \A i \in DOMAIN toServer'[d] : \E j \in DOMAIN toServer[d] :
                toServer'[d][i] = toServer[d][j],
           \A r \in Ports : active'[r] = d /\ server'[r] \in {"write", "send"} =>
                /\ active[r] = d /\ server[r] = server'[r] /\ request'[r] = request[r],
           Answered(d)' => Answered(d)
    PROVE  CarriedFor(d)'
BY DEF Carried, CarriedFor

\* A register is read for a request, into the words of its answer; or the
\* request is given up.
LEMMA ReadStep ==
    ASSUME Inv, NEW p \in Ports, ReadWord(p)
    PROVE  Inv'
<1> USE DEF Inv
<1> DEFINE value == memory[WordToRead(p)]
           n == Len(data[p])
<1>1. /\ server[p] = "read" /\ n < Len(request[p].block)
      /\ UNCHANGED <<memory, plant, backlog, active, toServer, toClient, client, write, alone, acked>>
  BY DEF ReadWord, threads, clients
<1>2. \/ /\ data' = [data EXCEPT ![p] = Append(data[p], value)]
         /\ UNCHANGED <<server, request, held>>
      \/ Done(p, "recv")
  BY DEF ReadWord
<1>3. /\ request[p] \in Reads /\ active[p] \notin Writers
      /\ Len(held[p]) = Len(request[p].block) /\ n <= Len(held[p])
      /\ \A i \in 1..Len(held[p]) : memory[request[p].block[i]] \in held[p][i]
      /\ \A i \in 1..n : data[p][i] \in held[p][i]
  BY <1>1 DEF Working, WorkingAt, ReadingAt
<1>4. n \in Nat /\ Len(held[p]) \in Nat /\ n + 1 \in 1..Len(held[p])
  BY <1>1, <1>3, Sequences
<1>5. WordToRead(p) \in Registers /\ value \in Nat /\ value \in held[p][n + 1]
  <2>1. WordToRead(p) = request[p].block[n + 1]
    BY DEF WordToRead
  <2>2. WordToRead(p) \in Registers
    BY <1>3, <1>4, <2>1, BlockOf
  <2> QED BY <1>3, <1>4, <2>1, <2>2 DEF Shapes, ThreadsOK
<1> HIDE DEF value
<1>6. CASE data' = [data EXCEPT ![p] = Append(data[p], value)] /\ UNCHANGED <<server, request, held>>
  <2>1. data[p] \in Seq(Nat)
    BY DEF Shapes, ServersOK
  <2>2. /\ Append(data[p], value) \in Seq(Nat) /\ Len(Append(data[p], value)) = n + 1
        /\ \A i \in 1..n : Append(data[p], value)[i] = data[p][i]
        /\ Append(data[p], value)[n + 1] = value
    BY <1>5, <2>1, AppendProperties
  <2>3. /\ data' \in [Ports -> Seq(Nat)]
        /\ \A q \in Ports : data'[q] = IF q = p THEN Append(data[p], value) ELSE data[q]
    BY <1>6, <2>2 DEF Shapes, ServersOK
  <2>4. Shapes'
    BY <1>1, <1>6, <2>3 DEF Shapes, ThreadsOK, ServersOK, ClientsOK, HistoryOK
  <2>5. Places'
    BY <1>1, <1>6 DEF Places, Occupied, Waiting, Idle, Queued
  <2>6. Working'
    <3>1. ASSUME NEW q \in Ports, q # p PROVE WorkingAt(q)'
      BY <1>1, <1>6, <2>3, <3>1 DEF Working, WorkingAt, ReadingAt
    <3>2. Len(data'[p]) = n + 1
      BY <2>2, <2>3
    <3>3. ASSUME NEW i \in 1..Len(data'[p]) PROVE data'[p][i] \in held[p][i]
      <4>1. i \in 1..n \/ i = n + 1
        BY <1>4, <3>2, <3>3
      <4> QED BY <1>3, <1>5, <2>2, <2>3, <4>1
    <3>4. Len(data'[p]) <= Len(held[p])
      BY <1>4, <3>2
    <3>5. ReadingAt(p)'
      BY <1>1, <1>3, <1>6, <3>3, <3>4 DEF ReadingAt
    <3>6. WorkingAt(p)'
      BY <1>1, <1>6, <3>5 DEF WorkingAt
    <3> QED BY <3>1, <3>6 DEF Working
  <2>7. Carried'
    BY <1>1, <1>6 DEF Carried, OnlyWrites, CarriedFor, Answered, AckedWriteStands
  <2> QED BY <2>4, <2>5, <2>6, <2>7
<1>7. CASE Done(p, "recv")
  <2>1. /\ server' \in [Ports -> {"accept", "recv", "read", "write", "send"}]
        /\ request' \in [Ports -> Requests] /\ data' \in [Ports -> Seq(Nat)]
        /\ held' \in [Ports -> Seq(SUBSET Nat)]
        /\ \A q \in Ports : server'[q] = IF q = p THEN "recv" ELSE server[q]
        /\ \A q \in Ports : q # p => request'[q] = request[q]
        /\ Working'
    BY <1>1, <1>7, DoneFacts
  <2>2. Shapes'
    BY <1>1, <2>1 DEF Shapes, ThreadsOK, ServersOK, ClientsOK, HistoryOK
  <2>3. Places'
    <3>1. Occupied'
      BY <1>1, <2>1 DEF Places, Occupied
    <3> QED BY <1>1, <3>1 DEF Places, Waiting, Idle, Queued
  <2>4. ASSUME NEW d \in Writers, client[d] = "open" PROVE CarriedFor(d)'
    <3>1. \A r \in Ports : active'[r] = d /\ server'[r] \in {"write", "send"} =>
            active[r] = d /\ server[r] = server'[r] /\ request'[r] = request[r]
      BY <1>1, <2>1
    <3>2. Answered(d)' => Answered(d)
      BY <1>1, <3>1 DEF Answered
    <3> QED BY <1>1, <2>4, <3>1, <3>2, StillCarried
  <2>5. Carried'
    BY <1>1, <2>4 DEF Carried, OnlyWrites, AckedWriteStands
  <2> QED BY <2>1, <2>2, <2>3, <2>5
<1> QED
  BY <1>2, <1>6, <1>7

\* An answer is sent, to a client that takes it or to one that has left.
LEMMA RespondStep ==
    ASSUME Inv, NEW p \in Ports, Respond(p)
    PROVE  Inv'
<1> USE DEF Inv
<1> DEFINE c == active[p]
<1>1. /\ server[p] \in {"send", "read"}
      /\ UNCHANGED <<memory, plant, backlog, write, alone, acked>>
  BY DEF Respond, threads
<1>2. \/ /\ client[c] = "open" /\ Done(p, "recv")
         /\ toClient' = [toClient EXCEPT ![c] = TRUE]
         /\ UNCHANGED <<active, toServer, client>>
      \/ /\ client[c] = "closed" /\ Done(p, "recv")
         /\ UNCHANGED <<active, toServer, toClient, client>>
      \/ client[c] = "closed" /\ Done(p, "accept") /\ Release(p)
  BY DEF Respond
<1>3. c \in Conns /\ \A q \in Ports : active[q] = c => q = p
  <2>1. c \in Conns
    BY <1>1, Busy
  <2> QED BY <2>1 DEF Places, Occupied, Conns
<1>4. CASE Done(p, "recv") /\ UNCHANGED <<active, toServer, client>>
           /\ \/ client[c] = "open" /\ toClient' = [toClient EXCEPT ![c] = TRUE]
              \/ UNCHANGED toClient
  <2>1. /\ server' \in [Ports -> {"accept", "recv", "read", "write", "send"}]
        /\ request' \in [Ports -> Requests] /\ data' \in [Ports -> Seq(Nat)]
        /\ held' \in [Ports -> Seq(SUBSET Nat)]
        /\ \A q \in Ports : server'[q] = IF q = p THEN "recv" ELSE server[q]
        /\ \A q \in Ports : q # p => request'[q] = request[q]
        /\ Working'
    BY <1>1, <1>4, DoneFacts
  <2>2. /\ toClient' \in [Conns -> BOOLEAN]
        /\ \A d \in Conns : d # c => toClient'[d] = toClient[d]
        /\ toClient'[c] => client[c] = "open" \/ toClient[c]
    BY Zenon, <1>3, <1>4 DEF Shapes, ClientsOK
  <2>3. Shapes'
    BY <1>1, <1>4, <2>1, <2>2 DEF Shapes, ThreadsOK, ServersOK, ClientsOK, HistoryOK
  <2>4. Places'
    <3>1. Occupied'
      BY <1>1, <1>4, <2>1 DEF Places, Occupied
    <3>2. Idle'
      BY <1>4, <2>2 DEF Places, Idle
    <3> QED BY <1>1, <1>4, <3>1, <3>2 DEF Places, Waiting, Queued
  <2>5. ASSUME NEW d \in Writers, client[d] = "open" PROVE CarriedFor(d)'
    <3>1. \A r \in Ports : active'[r] = d /\ server'[r] \in {"write", "send"} =>
            active[r] = d /\ server[r] = server'[r] /\ request'[r] = request[r]
      BY <1>4, <2>1
    <3>2. c = d => server[p] = "send"
      BY <1>1, <2>5 DEF Working, WorkingAt, ReadingAt
    <3>3. Answered(d)' => Answered(d)
      BY <1>1, <2>2, <2>5, <3>1, <3>2 DEF Answered, Conns
    <3> QED BY <1>1, <1>4, <2>5, <3>1, <3>3, StillCarried
  <2>6. Carried'
    BY <1>1, <1>4, <2>5 DEF Carried, OnlyWrites, AckedWriteStands
  <2> QED BY <2>1, <2>3, <2>4, <2>6
<1>5. CASE client[c] = "closed" /\ Done(p, "accept") /\ Release(p)
  <2>1. \A q \in Ports : q # p => active'[q] = active[q]
    BY <1>5 DEF Release, Shapes, ServersOK
  <2>2. /\ server' \in [Ports -> {"accept", "recv", "read", "write", "send"}]
        /\ request' \in [Ports -> Requests] /\ data' \in [Ports -> Seq(Nat)]
        /\ held' \in [Ports -> Seq(SUBSET Nat)]
        /\ \A q \in Ports : server'[q] = IF q = p THEN "accept" ELSE server[q]
        /\ \A q \in Ports : q # p => request'[q] = request[q]
        /\ Working'
    BY <1>1, <1>5, <2>1, DoneFacts
  <2>3. /\ active' \in [Ports -> Conns \cup {Nobody}]
        /\ \A q \in Ports : active'[q] = IF q = p THEN Nobody ELSE active[q]
        /\ toServer' \in [Conns -> Seq(Reads \cup Writes)]
        /\ toClient' \in [Conns -> BOOLEAN]
        /\ client' \in [Conns -> {"free", "open", "closed"}]
        /\ client'[c] = "free" /\ DOMAIN toServer'[c] = {}
        /\ \A d \in Conns : d # c => /\ client'[d] = client[d]
                                     /\ toServer'[d] = toServer[d]
                                     /\ toClient'[d] = toClient[d]
        /\ Places'
    BY <1>1, <1>3, <1>5, <2>2, ReleaseFacts
  <2>4. Shapes'
    BY <1>1, <2>2, <2>3 DEF Shapes, ThreadsOK, ServersOK, ClientsOK, HistoryOK
  <2>5. ASSUME NEW d \in Writers, client'[d] = "open" PROVE CarriedFor(d)'
    <3>1. d # c /\ d \in Conns /\ d # Nobody
      BY <2>3, <2>5 DEF Conns
    <3>2. client[d] = "open" /\ toServer'[d] = toServer[d] /\ toClient'[d] = toClient[d]
      BY <2>3, <2>5, <3>1
    <3>3. \A r \in Ports : active'[r] = d /\ server'[r] \in {"write", "send"} =>
            active[r] = d /\ server[r] = server'[r] /\ request'[r] = request[r]
      BY <2>2, <2>3, <3>1
    <3>4. Answered(d)' => Answered(d)
      BY <3>2, <3>3 DEF Answered
    <3> QED BY <1>1, <3>2, <3>3, <3>4, StillCarried
  <2>6. OnlyWrites'
    <3>1. ASSUME NEW d \in Writers, NEW i \in DOMAIN toServer'[d] PROVE toServer'[d][i] \in Writes
      <4>1. d \in Conns /\ d # c
        BY <2>3, <3>1 DEF Conns
      <4> QED BY <2>3, <3>1, <4>1 DEF Carried, OnlyWrites
    <3> QED BY <3>1 DEF OnlyWrites
  <2>7. Carried'
    BY <1>1, <2>5, <2>6 DEF Carried, AckedWriteStands
  <2> QED BY <2>2, <2>3, <2>4, <2>7
<1> QED
  BY <1>2, <1>4, <1>5

\* A server sees that its client has left.
LEMMA EndStep ==
    ASSUME Inv, NEW p \in Ports, EndOfStream(p)
    PROVE  Inv'
<1> USE DEF Inv
<1> DEFINE c == active[p]
<1>1. /\ server[p] = "recv" /\ client[c] = "closed"
      /\ server' = [server EXCEPT ![p] = "accept"] /\ Release(p)
      /\ UNCHANGED <<memory, plant, backlog, request, data, write, held, alone, acked>>
  BY DEF EndOfStream, threads, history
<1>2. c \in Conns
  BY <1>1, Busy
<1>3. /\ server' \in [Ports -> {"accept", "recv", "read", "write", "send"}]
      /\ \A q \in Ports : server'[q] = IF q = p THEN "accept" ELSE server[q]
  BY <1>1 DEF Shapes, ServersOK
<1>4. /\ active' \in [Ports -> Conns \cup {Nobody}]
      /\ \A q \in Ports : active'[q] = IF q = p THEN Nobody ELSE active[q]
      /\ toServer' \in [Conns -> Seq(Reads \cup Writes)]
      /\ toClient' \in [Conns -> BOOLEAN]
      /\ client' \in [Conns -> {"free", "open", "closed"}]
      /\ client'[c] = "free" /\ DOMAIN toServer'[c] = {}
      /\ \A d \in Conns : d # c => /\ client'[d] = client[d]
                                   /\ toServer'[d] = toServer[d]
                                   /\ toClient'[d] = toClient[d]
      /\ Places'
  BY <1>1, <1>2, <1>3, ReleaseFacts
<1>5. Shapes'
  BY <1>1, <1>3, <1>4 DEF Shapes, ThreadsOK, ServersOK, ClientsOK, HistoryOK
<1>6. Working'
  <2>1. ASSUME NEW q \in Ports, q # p PROVE WorkingAt(q)'
    BY <1>1, <1>3, <1>4, <2>1 DEF Working, WorkingAt, ReadingAt
  <2>2. WorkingAt(p)'
    BY <1>1, <1>3 DEF Working, WorkingAt
  <2> QED BY <2>1, <2>2 DEF Working
<1>7. ASSUME NEW d \in Writers, client'[d] = "open" PROVE CarriedFor(d)'
  <2>1. d # c /\ d \in Conns /\ d # Nobody
    BY <1>4, <1>7 DEF Conns
  <2>2. client[d] = "open" /\ toServer'[d] = toServer[d] /\ toClient'[d] = toClient[d]
    BY <1>4, <1>7, <2>1
  <2>3. \A r \in Ports : active'[r] = d /\ server'[r] \in {"write", "send"} =>
          active[r] = d /\ server[r] = server'[r] /\ request'[r] = request[r]
    BY <1>1, <1>3, <1>4, <2>1
  <2>4. Answered(d)' => Answered(d)
    BY <2>2, <2>3 DEF Answered
  <2> QED BY <1>1, <2>2, <2>3, <2>4, StillCarried
<1>8. ASSUME NEW d \in Writers, NEW i \in DOMAIN toServer'[d] PROVE toServer'[d][i] \in Writes
  <2>1. d \in Conns /\ d # c
    BY <1>4, <1>8 DEF Conns
  <2> QED BY <1>4, <1>8, <2>1 DEF Carried, OnlyWrites
<1>9. Carried'
  BY <1>1, <1>7, <1>8 DEF Carried, OnlyWrites, AckedWriteStands
<1> QED
  BY <1>4, <1>5, <1>6, <1>9

\* A connection that is free comes to the end of a queue.
LEMMA ConnectFacts ==
    ASSUME Shapes, Places, NEW c \in Conns, NEW p \in Ports, Connects(c, p)
    PROVE  /\ client' \in [Conns -> {"free", "open", "closed"}]
           /\ client'[c] = "open" /\ \A d \in Conns : d # c => client'[d] = client[d]
           /\ backlog' \in [Ports -> Seq(Conns)]
           /\ ~toClient[c] /\ \A q \in Ports : active[q] # c
           /\ Places'
<1>1. /\ client[c] = "free"
      /\ client' = [client EXCEPT ![c] = "open"]
      /\ backlog' = [backlog EXCEPT ![p] = Append(backlog[p], c)]
      /\ UNCHANGED <<active, server, toClient>>
  BY DEF Connects
<1>2. /\ client' \in [Conns -> {"free", "open", "closed"}]
      /\ client'[c] = "open" /\ \A d \in Conns : d # c => client'[d] = client[d]
  BY <1>1 DEF Shapes, ClientsOK
<1> DEFINE n == Len(backlog[p])
<1>3. /\ Append(backlog[p], c) \in Seq(Conns) /\ Len(Append(backlog[p], c)) = n + 1 /\ n \in Nat
      /\ \A i \in 1..n : Append(backlog[p], c)[i] = backlog[p][i]
      /\ Append(backlog[p], c)[n + 1] = c
  <2>1. backlog[p] \in Seq(Conns)
    BY DEF Shapes, ServersOK
  <2> QED BY <2>1, AppendProperties, LenProperties
<1>4. /\ backlog' \in [Ports -> Seq(Conns)]
      /\ \A q \in Ports : backlog'[q] = IF q = p THEN Append(backlog[p], c) ELSE backlog[q]
  BY <1>1, <1>3 DEF Shapes, ServersOK
<1> HIDE DEF n
<1>5. /\ ~toClient[c] /\ c # Nobody /\ \A q \in Ports : active[q] # c
      /\ \A q \in Ports : \A i \in Queued(q) : backlog[q][i] # c
  <2>1. ~toClient[c]
    BY <1>1 DEF Places, Idle
  <2>2. c # Nobody
    BY DEF Conns
  <2>3. \A q \in Ports : active[q] # c
    BY <1>1, <2>2 DEF Places, Occupied
  <2> QED BY <1>1, <2>1, <2>2, <2>3 DEF Places, Waiting
<1>6. \A q \in Ports : \A i \in Queued(q)' :
        \/ q = p /\ i = n + 1 /\ backlog'[q][i] = c
        \/ i \in Queued(q) /\ backlog'[q][i] = backlog[q][i] /\ backlog[q][i] \in Conns
  <2>1. ASSUME NEW q \in Ports, NEW i \in Queued(q)', q # p
        PROVE  i \in Queued(q) /\ backlog'[q][i] = backlog[q][i] /\ backlog[q][i] \in Conns
    BY <1>4, <2>1, Sequences DEF Queued
  <2>2. ASSUME NEW i \in Queued(p)'
        PROVE  \/ i = n + 1 /\ backlog'[p][i] = c
               \/ i \in Queued(p) /\ backlog'[p][i] = backlog[p][i] /\ backlog[p][i] \in Conns
    <3>1. i \in 1..(n + 1)
      BY <1>3, <1>4, <2>2 DEF Queued
    <3>2. i = n + 1 \/ i \in 1..n
      BY <1>3, <3>1
    <3> QED BY <1>3, <1>4, <3>2, Sequences DEF Queued, n
  <2> QED BY <2>1, <2>2
<1>7. ASSUME NEW q \in Ports, NEW i \in Queued(q)'
      PROVE  /\ client'[backlog'[q][i]] # "free"
             /\ \A r \in Ports : active'[r] # backlog'[q][i]
             /\ \A r \in Ports : \A j \in Queued(r)' :
                  backlog'[q][i] = backlog'[r][j] => q = r /\ i = j
  <2>1. CASE q = p /\ i = n + 1 /\ backlog'[q][i] = c
    <3>1. ASSUME NEW r \in Ports, NEW j \in Queued(r)', backlog'[q][i] = backlog'[r][j]
          PROVE  q = r /\ i = j
      BY <1>5, <1>6, <2>1, <3>1
    <3>2. client'[backlog'[q][i]] # "free"
      BY <1>2, <2>1
    <3>3. \A r \in Ports : active'[r] # backlog'[q][i]
      BY <1>1, <1>5, <2>1
    <3> QED BY <3>1, <3>2, <3>3
  <2>2. CASE i \in Queued(q) /\ backlog'[q][i] = backlog[q][i] /\ backlog[q][i] \in Conns
    <3>1. /\ client[backlog[q][i]] # "free" /\ \A r \in Ports : active[r] # backlog[q][i]
          /\ \A r \in Ports : \A j \in Queued(r) : backlog[q][i] = backlog[r][j] => q = r /\ i = j
      BY <2>2 DEF Places, Waiting
    <3>2. backlog[q][i] # c
      BY <1>5, <2>2
    <3>3. ASSUME NEW r \in Ports, NEW j \in Queued(r)', backlog[q][i] = backlog'[r][j]
          PROVE  q = r /\ i = j
      <4>1. j \in Queued(r) /\ backlog'[r][j] = backlog[r][j]
        BY <1>6, <3>2, <3>3
      <4> QED BY <3>1, <3>3, <4>1
    <3> QED BY <1>1, <1>2, <2>2, <3>1, <3>2, <3>3
  <2> QED BY <1>6, <2>1, <2>2
<1>8. Waiting'
  BY <1>7 DEF Waiting
<1>9. Occupied'
  BY <1>1, <1>2, <1>5 DEF Places, Occupied, Shapes, ServersOK
<1>10. Idle'
  BY <1>1, <1>2 DEF Places, Idle
<1> QED
  BY <1>2, <1>4, <1>5, <1>8, <1>9, <1>10 DEF Places

LEMMA ReaderConnectsStep ==
    ASSUME Inv, NEW c \in Readers, NEW p \in Ports, ReaderConnects(c, p)
    PROVE  Inv'
<1> USE DEF Inv
<1>1. /\ UNCHANGED <<memory, plant, active, server, request, data, toClient, held, acked>>
      /\ UNCHANGED <<toServer, write, alone>>
      /\ Connects(c, p)
  BY DEF ReaderConnects, Connects, threads
<1>2. c \in Conns /\ \A d \in Writers : d \in Conns /\ d # c
  BY DEF Conns
<1>3. /\ client' \in [Conns -> {"free", "open", "closed"}]
      /\ \A d \in Conns : d # c => client'[d] = client[d]
      /\ backlog' \in [Ports -> Seq(Conns)]
      /\ Places'
  BY <1>1, <1>2, ConnectFacts
<1>4. Shapes'
  BY <1>1, <1>3 DEF Shapes, ThreadsOK, ServersOK, ClientsOK, HistoryOK
<1>5. Working'
  BY <1>1 DEF Working, WorkingAt, ReadingAt
<1>6. Carried'
  BY <1>1, <1>2, <1>3 DEF Carried, OnlyWrites, CarriedFor, Answered, AckedWriteStands
<1> QED
  BY <1>3, <1>4, <1>5, <1>6

LEMMA WriterStartsStep ==
    ASSUME Inv, NEW c \in Writers, NEW p \in Ports, WriterStarts(c, p)
    PROVE  Inv'
<1> USE DEF Inv
<1>1. /\ UNCHANGED <<memory, plant, active, server, request, data, toClient, held, acked>>
      /\ Connects(c, p)
      /\ alone' = [alone EXCEPT ![c] = TRUE]
  BY DEF WriterStarts, Connects, threads
<1>2. PICK r \in Targets, v \in Given :
        /\ toServer' = [toServer EXCEPT ![c] = <<Write(r, v)>>]
        /\ write' = [write EXCEPT ![c] = Write(r, v)]
  BY DEF WriterStarts
<1> DEFINE w == Write(r, v)
<1>3. c \in Conns /\ \A d \in Writers : d \in Conns
  BY DEF Conns
<1>4. /\ client' \in [Conns -> {"free", "open", "closed"}]
      /\ client'[c] = "open" /\ \A d \in Conns : d # c => client'[d] = client[d]
      /\ backlog' \in [Ports -> Seq(Conns)]
      /\ ~toClient[c] /\ \A q \in Ports : active[q] # c
      /\ Places'
  BY <1>1, <1>3, ConnectFacts
<1>5. w \in Writes /\ write' = [write EXCEPT ![c] = w]
  BY <1>2 DEF Writes
<1> HIDE DEF w
<1>6. /\ write' \in [Writers -> Writes \cup {None}]
      /\ write'[c] = w /\ \A d \in Writers : d # c => write'[d] = write[d]
  BY <1>5 DEF Shapes, ClientsOK
<1>7. /\ toServer' \in [Conns -> Seq(Reads \cup Writes)]
      /\ \A i \in DOMAIN toServer'[c] : toServer'[c][i] = w
      /\ \A d \in Conns : d # c => toServer'[d] = toServer[d]
  <2>1. /\ <<w>> \in Seq(Reads \cup Writes)
        /\ \A i \in DOMAIN <<w>> : <<w>>[i] = w
    BY <1>5
  <2>2. toServer' = [toServer EXCEPT ![c] = <<w>>]
    BY <1>2 DEF w
  <2> QED BY <1>3, <2>1, <2>2 DEF Shapes, ClientsOK
<1>8. /\ alone' \in [Writers -> BOOLEAN]
      /\ \A d \in Writers : d # c => alone'[d] = alone[d]
  BY Zenon, <1>1 DEF Shapes, HistoryOK
<1>9. Shapes'
  BY <1>1, <1>4, <1>6, <1>7, <1>8 DEF Shapes, ThreadsOK, ServersOK, ClientsOK, HistoryOK
<1>10. Working'
  BY <1>1 DEF Working, WorkingAt, ReadingAt
<1>11. ASSUME NEW d \in Writers, d # c, client'[d] = "open" PROVE CarriedFor(d)'
  <2>1. CarriedFor(d) /\ (Answered(d)' <=> Answered(d))
    BY <1>1, <1>3, <1>4, <1>11 DEF Carried, Answered
  <2>2. write'[d] = write[d] /\ toServer'[d] = toServer[d] /\ alone'[d] = alone[d]
    BY <1>3, <1>6, <1>7, <1>8, <1>11
  <2> QED BY <1>1, <2>1, <2>2 DEF CarriedFor
<1>12. CarriedFor(c)'
  <2>1. ~Answered(c)'
    BY <1>1, <1>4 DEF Answered
  <2> QED BY <1>1, <1>4, <1>5, <1>6, <1>7, <2>1 DEF CarriedFor
<1>13. OnlyWrites'
  BY <1>3, <1>5, <1>7 DEF Carried, OnlyWrites
<1>14. Carried'
  BY <1>1, <1>11, <1>12, <1>13 DEF Carried, AckedWriteStands
<1> QED
  BY <1>4, <1>9, <1>10, <1>14

LEMMA ReaderSendsStep ==
    ASSUME Inv, NEW c \in Readers, ReaderSends(c)
    PROVE  Inv'
<1> USE DEF Inv
<1>1. UNCHANGED <<memory, plant, backlog, active, server, request, data, toClient, client, write,
                  held, alone, acked>>
  BY DEF ReaderSends, threads, servers, history
<1>2. PICK b \in Blocks : toServer' = [toServer EXCEPT ![c] = Append(toServer[c], Read(b))]
  BY DEF ReaderSends
<1>3. c \in Conns /\ \A d \in Writers : d \in Conns /\ d # c
  BY DEF Conns
<1>4. /\ toServer' \in [Conns -> Seq(Reads \cup Writes)]
      /\ \A d \in Conns : d # c => toServer'[d] = toServer[d]
  <2>1. toServer[c] \in Seq(Reads \cup Writes) /\ Read(b) \in Reads \cup Writes
    BY <1>3 DEF Shapes, ClientsOK, Reads
  <2>2. Append(toServer[c], Read(b)) \in Seq(Reads \cup Writes)
    BY <2>1, AppendProperties
  <2> QED BY <1>2, <1>3, <2>2 DEF Shapes, ClientsOK
<1>5. Shapes'
  BY <1>1, <1>4 DEF Shapes, ThreadsOK, ServersOK, ClientsOK, HistoryOK
<1>6. Places' /\ Working'
  BY <1>1 DEF Places, Occupied, Waiting, Idle, Queued, Working, WorkingAt, ReadingAt
<1>7. \A d \in Writers : toServer'[d] = toServer[d]
  BY <1>3, <1>4
<1>8. Carried'
  BY <1>1, <1>7 DEF Carried, OnlyWrites, CarriedFor, Answered, AckedWriteStands
<1> QED
  BY <1>5, <1>6, <1>8

LEMMA ReaderReceivesStep ==
    ASSUME Inv, NEW c \in Readers, ReaderReceives(c)
    PROVE  Inv'
<1> USE DEF Inv
<1>1. /\ UNCHANGED <<memory, plant, backlog, active, server, request, data, toServer, client, write,
                     held, alone, acked>>
      /\ toClient' = [toClient EXCEPT ![c] = FALSE]
  BY DEF ReaderReceives, threads, servers, history
<1>2. c \in Conns /\ \A d \in Writers : d \in Conns /\ d # c
  BY DEF Conns
<1>3. /\ toClient' \in [Conns -> BOOLEAN]
      /\ ~toClient'[c] /\ \A d \in Conns : d # c => toClient'[d] = toClient[d]
  BY Zenon, <1>1, <1>2 DEF Shapes, ClientsOK
<1>4. Shapes'
  BY <1>1, <1>3 DEF Shapes, ThreadsOK, ServersOK, ClientsOK, HistoryOK
<1>5. Places' /\ Working'
  BY <1>1, <1>3 DEF Places, Occupied, Waiting, Idle, Queued, Working, WorkingAt, ReadingAt
<1>6. \A d \in Writers : toClient'[d] = toClient[d]
  BY <1>2, <1>3
<1>7. Carried'
  BY <1>1, <1>6 DEF Carried, OnlyWrites, CarriedFor, Answered, AckedWriteStands
<1> QED
  BY <1>4, <1>5, <1>7

\* A writer sees its write answered: it is in the memory, unless somebody
\* else has set the register.
LEMMA WriterReceivesStep ==
    ASSUME Inv, NEW c \in Writers, WriterReceives(c)
    PROVE  Inv'
<1> USE DEF Inv
<1>1. /\ UNCHANGED <<memory, plant, backlog, active, server, request, data, toServer, held>>
      /\ client[c] = "open" /\ toClient[c]
      /\ toClient' = [toClient EXCEPT ![c] = FALSE]
      /\ client' = [client EXCEPT ![c] = "closed"]
      /\ write' = [write EXCEPT ![c] = None]
      /\ alone' = [alone EXCEPT ![c] = FALSE]
      /\ acked' = IF alone[c] THEN [acked EXCEPT ![write[c].register] = write[c].value]
                  ELSE acked
  BY DEF WriterReceives, threads, servers
<1>2. c \in Conns /\ \A d \in Writers : d \in Conns
  BY DEF Conns
<1>3. /\ toClient' \in [Conns -> BOOLEAN] /\ \A d \in Conns : d # c => toClient'[d] = toClient[d]
      /\ \A d \in Conns : toClient'[d] => toClient[d]
  BY Zenon, <1>1, <1>2 DEF Shapes, ClientsOK
<1>4. /\ client' \in [Conns -> {"free", "open", "closed"}]
      /\ client'[c] = "closed" /\ \A d \in Conns : d # c => client'[d] = client[d]
  BY <1>1, <1>2 DEF Shapes, ClientsOK
<1>5. /\ write' \in [Writers -> Writes \cup {None}]
      /\ \A d \in Writers : d # c => write'[d] = write[d]
  BY <1>1 DEF Shapes, ClientsOK
<1>6. /\ alone' \in [Writers -> BOOLEAN] /\ \A d \in Writers : d # c => alone'[d] = alone[d]
  BY Zenon, <1>1 DEF Shapes, HistoryOK
<1>7. CarriedFor(c) /\ Answered(c)
  BY <1>1 DEF Carried, Answered
<1>8. /\ acked' \in [Registers -> Int] /\ AckedWriteStands'
  <2>1. CASE alone[c]
    <3> DEFINE r == write[c].register
               v == write[c].value
    <3>1. /\ r \in Registers /\ v \in Int /\ memory[r] = v
      <4>1. write[c] \in Writes /\ memory[r] = v
        BY <1>7, <2>1 DEF CarriedFor
      <4> QED BY <4>1, RequestKinds
    <3>2. acked' = [acked EXCEPT ![r] = v]
      BY <1>1, <2>1
    <3> HIDE DEF r, v
    <3> QED BY <1>1, <3>1, <3>2 DEF Shapes, HistoryOK, Carried, AckedWriteStands
  <2>2. CASE ~alone[c]
    BY <1>1, <2>2 DEF Shapes, HistoryOK, Carried, AckedWriteStands
  <2> QED BY <2>1, <2>2
<1>9. Shapes'
  BY <1>1, <1>3, <1>4, <1>5, <1>6, <1>8 DEF Shapes, ThreadsOK, ServersOK, ClientsOK, HistoryOK
<1>10. Places'
  <2>1. \A d \in Conns : client'[d] = "free" => client[d] = "free"
    BY <1>4
  <2>2. Idle'
    BY <1>3, <2>1 DEF Places, Idle
  <2>3. Occupied'
    BY <1>1, <2>1 DEF Places, Occupied, Shapes, ServersOK
  <2>4. \A p \in Ports : \A i \in Queued(p) : backlog[p][i] \in Conns
    BY Sequences DEF Queued
  <2>5. Waiting'
    BY <1>1, <2>1, <2>4 DEF Places, Waiting, Queued
  <2> QED BY <2>2, <2>3, <2>5 DEF Places
<1>11. Working'
  BY <1>1 DEF Working, WorkingAt, ReadingAt
<1>12. ASSUME NEW d \in Writers, client'[d] = "open" PROVE CarriedFor(d)'
  <2>1. d # c /\ client[d] = "open"
    BY <1>2, <1>4, <1>12
  <2>2. /\ toClient'[d] = toClient[d] /\ write'[d] = write[d] /\ alone'[d] = alone[d]
        /\ CarriedFor(d)
    BY <1>2, <1>3, <1>5, <1>6, <2>1 DEF Carried
  <2> QED BY <1>1, <2>2 DEF CarriedFor, Answered
<1>13. Carried'
  BY <1>1, <1>8, <1>12 DEF Carried, OnlyWrites
<1> QED
  BY <1>9, <1>10, <1>11, <1>13

\* A client leaves.
LEMMA ClosesStep ==
    ASSUME Inv, NEW c \in Conns, Closes(c)
    PROVE  Inv'
<1> USE DEF Inv
<1>1. /\ UNCHANGED <<memory, plant, backlog, active, server, request, data, toServer, toClient,
                     held, acked>>
      /\ client' = [client EXCEPT ![c] = "closed"]
      /\ write' = [d \in Writers |-> IF d = c THEN None ELSE write[d]]
      /\ alone' = [d \in Writers |-> d # c /\ alone[d]]
  BY DEF Closes, threads, servers
<1>2. \A d \in Writers : d \in Conns
  BY DEF Conns
<1>3. /\ client' \in [Conns -> {"free", "open", "closed"}]
      /\ client'[c] = "closed" /\ \A d \in Conns : d # c => client'[d] = client[d]
  BY <1>1 DEF Shapes, ClientsOK
<1>4. /\ write' \in [Writers -> Writes \cup {None}]
      /\ \A d \in Writers : d # c => write'[d] = write[d]
  BY <1>1 DEF Shapes, ClientsOK
<1>5. /\ alone' \in [Writers -> BOOLEAN]
      /\ \A d \in Writers : alone'[d] => alone[d]
  BY Zenon, <1>1 DEF Shapes, HistoryOK
<1>6. Shapes'
  BY <1>1, <1>3, <1>4, <1>5 DEF Shapes, ThreadsOK, ServersOK, ClientsOK, HistoryOK
<1>7. Places'
  <2>1. \A d \in Conns : client'[d] = "free" => client[d] = "free"
    BY <1>3
  <2>2. Idle'
    BY <1>1, <2>1 DEF Places, Idle
  <2>3. Occupied'
    BY <1>1, <2>1 DEF Places, Occupied, Shapes, ServersOK
  <2>4. \A p \in Ports : \A i \in Queued(p) : backlog[p][i] \in Conns
    BY Sequences DEF Queued
  <2>5. Waiting'
    BY <1>1, <2>1, <2>4 DEF Places, Waiting, Queued
  <2> QED BY <2>2, <2>3, <2>5 DEF Places
<1>8. Working'
  BY <1>1 DEF Working, WorkingAt, ReadingAt
<1>9. ASSUME NEW d \in Writers, client'[d] = "open" PROVE CarriedFor(d)'
  <2>1. d # c /\ client[d] = "open"
    BY <1>2, <1>3, <1>9
  <2>2. write'[d] = write[d] /\ CarriedFor(d)
    BY <1>4, <2>1 DEF Carried
  <2> QED BY <1>1, <1>5, <2>2 DEF CarriedFor, Answered
<1>10. Carried'
  BY <1>1, <1>9 DEF Carried, OnlyWrites, AckedWriteStands
<1> QED
  BY <1>6, <1>7, <1>8, <1>10

-----------------------------------------------------------------------------
(***************************************************************************)
(* The theorems.                                                           *)
(***************************************************************************)
LEMMA Initially ==
    ASSUME Init
    PROVE  Inv
<1>1. Shapes
  <2>1. /\ memory = [r \in Registers |-> IF r = "SD518" THEN Elapsed ELSE 0]
        /\ plant = 0
    BY DEF Init
  <2>2. ThreadsOK
    BY <2>1 DEF ThreadsOK
  <2>3. ServersOK
    <3>1. None \in Requests /\ <<>> \in Seq(Conns) /\ <<>> \in Seq(Nat)
      BY RequestKinds, EmptySeq
    <3> QED BY <3>1 DEF Init, ServersOK
  <2>4. ClientsOK
    <3>1. <<>> \in Seq(Reads \cup Writes)
      BY EmptySeq
    <3> QED BY <3>1 DEF Init, ClientsOK
  <2>5. HistoryOK
    <3>1. <<>> \in Seq(SUBSET Nat) /\ NoWord \in Int
      BY EmptySeq DEF NoWord
    <3> QED BY <3>1 DEF Init, HistoryOK
  <2> QED BY <2>2, <2>3, <2>4, <2>5 DEF Shapes
<1>2. Places
  <2>1. \A p \in Ports : server[p] = "accept" /\ active[p] = Nobody /\ Queued(p) = {}
    BY DEF Init, Queued
  <2>2. \A c \in Conns : ~toClient[c]
    BY DEF Init
  <2> QED BY <2>1, <2>2 DEF Places, Occupied, Waiting, Idle
<1>3. Working
  BY DEF Init, Working, WorkingAt
<1>4. Carried
  <2>1. \A c \in Writers : client[c] # "open" /\ DOMAIN toServer[c] = {}
    BY DEF Init, Conns
  <2>2. AckedWriteStands
    BY DEF Init, AckedWriteStands
  <2> QED BY <2>1, <2>2 DEF Carried, OnlyWrites
<1> QED
  BY <1>1, <1>2, <1>3, <1>4 DEF Inv

LEMMA NextStep ==
    ASSUME Inv, [Next]_vars
    PROVE  Inv'
<1>1. CASE ClockTurn \/ SimulationTurn \/ \E p \in Ports : WriteWord(p)
  <2>1. PICK by \in Conns \cup {Nobody}, r \in Registers, v \in Nat : Sets(by, r, v)
    BY <1>1, SettingSteps DEF Inv
  <2> QED BY <2>1, SetsStep
<1>2. ASSUME NEW p \in Ports, Server(p), ~WriteWord(p)
      PROVE  Inv'
  BY <1>2, AcceptStep, ReceiveStep, ReadStep, RespondStep, EndStep DEF Server
<1>3. ASSUME NEW c \in Readers, ReaderSends(c) \/ ReaderReceives(c)
      PROVE  Inv'
  BY <1>3, ReaderSendsStep, ReaderReceivesStep
<1>4. ASSUME NEW c \in Readers, NEW p \in PortsOf[c], ReaderConnects(c, p)
      PROVE  Inv'
  <2>1. p \in Ports
    BY DEF Conns
  <2> QED BY <1>4, <2>1, ReaderConnectsStep
<1>5. ASSUME NEW c \in Writers, NEW p \in PortsOf[c], WriterStarts(c, p)
      PROVE  Inv'
  <2>1. p \in Ports
    BY DEF Conns
  <2> QED BY <1>5, <2>1, WriterStartsStep
<1>6. ASSUME NEW c \in Writers, WriterReceives(c)
      PROVE  Inv'
  BY <1>6, WriterReceivesStep
<1>7. ASSUME NEW c \in Conns, Closes(c)
      PROVE  Inv'
  BY <1>7, ClosesStep
<1>8. CASE UNCHANGED vars
  <2>1. /\ UNCHANGED <<memory, plant, backlog, active, server, request, data>>
        /\ UNCHANGED <<toServer, toClient, client, write, held, alone, acked>>
    BY <1>8 DEF vars, threads, servers, clients, history
  <2>2. Shapes' /\ Places' /\ Working'
    BY <2>1 DEF Inv, Shapes, ThreadsOK, ServersOK, ClientsOK, HistoryOK,
                Places, Occupied, Waiting, Idle, Queued, Working, WorkingAt, ReadingAt
  <2>3. Carried'
    BY <2>1 DEF Inv, Carried, OnlyWrites, CarriedFor, Answered, AckedWriteStands
  <2> QED BY <2>2, <2>3 DEF Inv
<1> QED
  <2>1. CASE Next
    BY <1>1, <1>2, <1>3, <1>4, <1>5, <1>6, <1>7, <2>1 DEF Next
  <2> QED BY <1>8, <2>1

\* Every state of the mock has servers, clients and registers of their types;
\* a connection is served by one port or waits in the queue of one, whatever
\* order clients connect and leave in.
THEOREM InvHolds == Spec => []Inv
<1>1. Init => Inv
  BY Initially
<1>2. Inv /\ [Next]_vars => Inv'
  BY NextStep
<1> QED
  BY <1>1, <1>2, PTL DEF Spec

\* The type invariant: a server is out of accept exactly while it has a
\* connection (active_connections), and has no words but those of its request.
THEOREM TypeCorrect == Spec => []TypeOK
<1>1. Inv => TypeOK
  <2> SUFFICES ASSUME Inv PROVE TypeOK
    OBVIOUS
  <2> USE DEF Inv
  <2>1. ASSUME NEW p \in Ports
        PROVE  /\ server[p] = "accept" <=> active[p] = Nobody
               /\ \A c \in ToSet(backlog[p]) \cup {active[p]} :
                    c # Nobody => client[c] # "free"
               /\ Len(data[p]) <= Len(held[p])
    <3>1. server[p] = "accept" <=> active[p] = Nobody
      BY DEF Places, Occupied
    <3>2. active[p] # Nobody => client[active[p]] # "free"
      BY DEF Places, Occupied
    <3>3. \A c \in ToSet(backlog[p]) : client[c] # "free"
      <4>1. backlog[p] \in Seq(Conns)
        BY DEF Shapes, ServersOK
      <4>2. DOMAIN backlog[p] = Queued(p)
        BY <4>1, LenProperties DEF Queued
      <4> QED BY <4>2 DEF ToSet, Places, Waiting
    <3>4. Len(data[p]) <= Len(held[p])
      <4>1. Len(data[p]) \in Nat /\ Len(held[p]) \in Nat
        BY Sequences
      <4> QED BY <4>1 DEF Working, WorkingAt, ReadingAt
    <3> QED BY <3>1, <3>2, <3>3, <3>4
  <2> QED BY <2>1 DEF TypeOK, Shapes, ThreadsOK, ServersOK
<1> QED
  BY <1>1, InvHolds, PTL

\* A word of an answer is one that its register has held since the request
\* was received, whatever the clock, the plant and other ports write in
\* between (get_register, one lock per word).
THEOREM WordsWereHeldHolds == Spec => []WordsWereHeld
<1>1. Inv => WordsWereHeld
  <2> SUFFICES ASSUME Inv, NEW p \in Ports, NEW i \in DOMAIN data[p]
               PROVE  data[p][i] \in held[p][i]
    BY DEF WordsWereHeld
  <2>1. i \in 1..Len(data[p]) /\ Len(data[p]) \in Nat
    BY Sequences DEF Inv
  <2>2. server[p] = "read"
    BY <2>1 DEF Inv, Working, WorkingAt
  <2> QED BY <2>1, <2>2 DEF Inv, Working, WorkingAt, ReadingAt
<1> QED
  BY <1>1, InvHolds, PTL

\* What plc_write has seen answered is in the registers, until somebody sets
\* the same register again: the answer of a write is sent after the write.
THEOREM AckedWriteStandsHolds == Spec => []AckedWriteStands
<1>1. Inv => AckedWriteStands
  BY DEF Inv, Carried
<1> QED
  BY <1>1, InvHolds, PTL

=============================================================================
