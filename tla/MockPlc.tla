------------------------------ MODULE MockPlc ------------------------------
(***************************************************************************)
(* The mock PLC with its clients (mock_plc.py, plc_write.py): one server   *)
(* thread a port, which serves one client at a time while the next waits   *)
(* to be accepted; a thread that writes the seconds since the start to     *)
(* SD518; a thread that simulates a plant with input D114 and output D100. *)
(* All of them share the registers, under a lock that is held for one      *)
(* register at a time.                                                     *)
(*                                                                         *)
(* Abstracted: a request is a record (SlmpFrame has its bytes), the plant  *)
(* is the integer part of its state.                                       *)
(***************************************************************************)
EXTENDS Integers, Sequences, SequencesExt

CONSTANTS
    Ports,
    Readers,    \* connections that read, as the gateway does
    Writers,    \* connections of plc_write: one write, one answer, the end
    PortsOf,    \* PortsOf[c]: the ports a connection may be made to
    Blocks,     \* the blocks readers ask for, sequences of registers
    Targets,    \* the registers writers write to
    MaxWord,    \* the largest word: 65535
    Given,      \* what writers write
    Gain,       \* K of the simulated plant
    Elapsed,    \* seconds the mock has run when the model begins
    MaxSent     \* bound: requests of a reader that have not been received

Conns == Readers \cup Writers
Registers == {"D100", "D114", "SD518"}
Nobody == "nobody"
None == [kind |-> "none"]

ASSUME ConnsAssumption == Readers \cap Writers = {} /\ Nobody \notin Conns
ASSUME PortsOfAssumption == PortsOf \in [Conns -> SUBSET Ports]
ASSUME BlocksAssumption == \A b \in Blocks : b \in Seq(Registers) /\ b # <<>>
ASSUME TargetsAssumption == Targets \subseteq Registers
ASSUME WordAssumption == MaxWord \in Nat /\ Given \subseteq 0..MaxWord
ASSUME GainAssumption == Gain \in Nat
ASSUME ElapsedAssumption == Elapsed \in 0..MaxWord
ASSUME MaxSentAssumption == MaxSent \in Nat \ {0}

VARIABLES
    memory,     \* MockPLC.memory
    plant,      \* the integer part of _sim_state
    backlog,    \* backlog[p]: connections that wait to be accepted
    active,     \* active_connections: the connection of a port, or Nobody
    server,     \* where the server thread of a port is
    request,    \* request[p]: the request it works on
    data,       \* data[p]: the words it has read for it
    toServer,   \* toServer[c]: requests sent and not received
    toClient,   \* toClient[c]: whether answers wait to be received
    client,     \* client[c]: the client's end, "free", "open" or "closed"
    write,      \* write[c]: what a writer waits to see answered
    held,       \* (history) held[p][i]: what word i of the block has held
                \* since its request was received
    alone,      \* (history) alone[c]: nobody else has set the register of
                \* write[c] since it was sent
    acked       \* (history) acked[r]: the write of r that was seen answered
                \* last, NoWord once r is set again

threads == <<memory, plant>>
servers == <<backlog, active, server, request, data>>
clients == <<toServer, toClient, client, write>>
history == <<held, alone, acked>>
vars == <<threads, servers, clients, history>>

NoWord == -1

Read(block) == [kind |-> "read", block |-> block]
Write(r, v) == [kind |-> "write", register |-> r, value |-> v]

\* All registers are 0 but the clock's; nobody has connected.
Init ==
    /\ memory = [r \in Registers |-> IF r = "SD518" THEN Elapsed ELSE 0]
    /\ plant = 0
    /\ backlog = [p \in Ports |-> <<>>]
    /\ active = [p \in Ports |-> Nobody]
    /\ server = [p \in Ports |-> "accept"]
    /\ request = [p \in Ports |-> None]
    /\ data = [p \in Ports |-> <<>>]
    /\ toServer = [c \in Conns |-> <<>>]
    /\ toClient = [c \in Conns |-> FALSE]
    /\ client = [c \in Conns |-> "free"]
    /\ write = [c \in Writers |-> None]
    /\ held = [p \in Ports |-> <<>>]
    /\ alone = [c \in Writers |-> FALSE]
    /\ acked = [r \in Registers |-> NoWord]

-----------------------------------------------------------------------------
(***************************************************************************)
(* The registers, one at a time under the lock.                            *)
(***************************************************************************)

\* set_register, called for connection by or by a thread of the mock.
SetRegister(by, r, v) ==
    /\ memory' = [memory EXCEPT ![r] = v]
    /\ held' = [p \in Ports |->
                  [i \in DOMAIN held[p] |->
                     IF request[p].block[i] = r THEN held[p][i] \cup {v}
                     ELSE held[p][i]]]
    /\ alone' = [c \in Writers |->
                   alone[c] /\ (c = by \/ write[c].register # r)]
    /\ acked' = [acked EXCEPT ![r] = NoWord]

-----------------------------------------------------------------------------
(***************************************************************************)
(* The clock and the simulated plant.                                      *)
(***************************************************************************)

\* _run_clock. The clock is not read between two of its turns, so the time
\* that passes is the step it makes; past the largest word every value is as
\* good as the next.
ClockTurn ==
    /\ memory["SD518"] <= MaxWord
    /\ SetRegister(Nobody, "SD518", memory["SD518"] + 1)
    /\ UNCHANGED <<plant, servers, clients>>

\* A plant that is driven by its own output (a mutant of Target).
OwnOutput == Gain * memory["D100"]

Target == Gain * memory["D114"]

Between(a, b) == {x \in 0..(Gain * MaxWord) : (a < x /\ x <= b) \/ (b <= x /\ x < a)}

\* One turn of _run_simulation: the state comes closer to K * u and never
\* past it, and its integer part with it or stays. D114 is read and D100 set
\* under the lock one after the other; a write between them is, to every
\* single register, one before the turn (D100) or after it (D114).
TurnTo(states) ==
    /\ plant' \in states
    /\ SetRegister(Nobody, "D100", plant')
    /\ UNCHANGED <<servers, clients>>

SimulationTurn == TurnTo(Between(plant, Target) \cup {plant})

\* A turn that the integer part shows. One unit away it may stay as it is
\* for good: the difference only ever shrinks by a fraction.
SimulationAdvances ==
    TurnTo(Between(plant, Target)
           \cup (IF plant - Target \in -1..1 THEN {plant} ELSE {}))

-----------------------------------------------------------------------------
(***************************************************************************)
(* The server thread of a port.                                            *)
(***************************************************************************)
Accept(p) ==
    /\ server[p] = "accept"
    /\ active[p] = Nobody
    /\ backlog[p] # <<>>
    /\ active' = [active EXCEPT ![p] = Head(backlog[p])]
    /\ backlog' = [backlog EXCEPT ![p] = Tail(@)]
    /\ server' = [server EXCEPT ![p] = "recv"]
    /\ UNCHANGED <<threads, request, data, clients, history>>

\* One recv takes whatever requests have arrived; the first is parsed, the
\* bytes after it are not looked at.
ReceiveRequest(p) ==
    LET c == active[p] IN
    /\ server[p] = "recv"
    /\ \E k \in 1..Len(toServer[c]) :
        toServer' = [toServer EXCEPT ![c] = SubSeq(@, k + 1, Len(@))]
    /\ request' = [request EXCEPT ![p] = Head(toServer[c])]
    /\ server' = [server EXCEPT ![p] = Head(toServer[c]).kind]
    /\ held' = [held EXCEPT ![p] =
                  IF Head(toServer[c]).kind = "read"
                  THEN [i \in DOMAIN Head(toServer[c]).block |->
                            {memory[Head(toServer[c]).block[i]]}]
                  ELSE <<>>]
    /\ UNCHANGED <<threads, backlog, active, data, toClient, client,
                   write, alone, acked>>

\* Words that are kept for the next request (a mutant of Done).
DoneKeepsData(p, next) ==
    /\ server' = [server EXCEPT ![p] = next]
    /\ request' = [request EXCEPT ![p] = None]
    /\ UNCHANGED data
    /\ held' = [held EXCEPT ![p] = <<>>]

\* The request is dealt with, answered or not.
Done(p, next) ==
    /\ server' = [server EXCEPT ![p] = next]
    /\ request' = [request EXCEPT ![p] = None]
    /\ data' = [data EXCEPT ![p] = <<>>]
    /\ held' = [held EXCEPT ![p] = <<>>]

\* A loop that reads the first register each time (a mutant of WordToRead).
FirstWord(p) == request[p].block[1]

WordToRead(p) == request[p].block[Len(data[p]) + 1]

\* One get_register of a read. A value that is no word does not pack: no
\* answer. Another turn of the loop, or the answer, follows otherwise.
ReadWord(p) ==
    LET value == memory[WordToRead(p)] IN
    /\ server[p] = "read"
    /\ Len(data[p]) < Len(request[p].block)
    /\ \/ /\ value <= MaxWord
          /\ data' = [data EXCEPT ![p] = Append(@, value)]
          /\ UNCHANGED <<server, request, held>>
       \/ /\ value > MaxWord
          /\ Done(p, "recv")
    /\ UNCHANGED <<threads, backlog, active, clients, alone, acked>>

\* A write that is answered and not carried out, and one that is carried
\* out and not answered (mutants of WriteWord).
WriteNothing(p) ==
    /\ server[p] = "write"
    /\ server' = [server EXCEPT ![p] = "send"]
    /\ UNCHANGED <<threads, backlog, active, request, data, clients, history>>

WriteUnanswered(p) ==
    /\ server[p] = "write"
    /\ SetRegister(active[p], request[p].register, request[p].value)
    /\ server' = [server EXCEPT ![p] = "recv"]
    /\ UNCHANGED <<plant, backlog, active, request, data, clients>>

WriteWord(p) ==
    /\ server[p] = "write"
    /\ SetRegister(active[p], request[p].register, request[p].value)
    /\ server' = [server EXCEPT ![p] = "send"]
    /\ UNCHANGED <<plant, backlog, active, request, data,
                   clients>>

\* The finally clause, with its del missing (a mutant of Release).
ReleaseWithoutDel(p) ==
    /\ UNCHANGED active
    /\ client' = [client EXCEPT ![active[p]] = "free"]
    /\ toServer' = [toServer EXCEPT ![active[p]] = <<>>]
    /\ toClient' = [toClient EXCEPT ![active[p]] = FALSE]

\* The finally clause of _handle_client.
Release(p) ==
    /\ active' = [active EXCEPT ![p] = Nobody]
    /\ client' = [client EXCEPT ![active[p]] = "free"]
    /\ toServer' = [toServer EXCEPT ![active[p]] = <<>>]
    /\ toClient' = [toClient EXCEPT ![active[p]] = FALSE]

\* send: to a client that has closed its end it may still be accepted, or
\* raise.
Respond(p) ==
    LET c == active[p] IN
    /\ \/ server[p] = "send"
       \/ server[p] = "read" /\ Len(data[p]) = Len(request[p].block)
    /\ \/ /\ client[c] = "open"
          /\ Done(p, "recv")
          /\ toClient' = [toClient EXCEPT ![c] = TRUE]
          /\ UNCHANGED <<active, toServer, client>>
       \/ /\ client[c] = "closed"
          /\ Done(p, "recv")
          /\ UNCHANGED <<active, toServer, toClient, client>>
       \/ /\ client[c] = "closed"
          /\ Done(p, "accept")
          /\ Release(p)
    /\ UNCHANGED <<threads, backlog, write, alone, acked>>

\* recv returns b'', or raises.
EndOfStream(p) ==
    LET c == active[p] IN
    /\ server[p] = "recv"
    /\ client[c] = "closed"
    /\ toServer[c] = <<>>
    /\ server' = [server EXCEPT ![p] = "accept"]
    /\ Release(p)
    /\ UNCHANGED <<threads, backlog, request, data, write, history>>

Server(p) ==
    \/ Accept(p) \/ ReceiveRequest(p) \/ ReadWord(p) \/ WriteWord(p)
    \/ Respond(p) \/ EndOfStream(p)

-----------------------------------------------------------------------------
(***************************************************************************)
(* The clients.                                                            *)
(***************************************************************************)

\* connect() returns once the connection is in the listen queue.
Connects(c, p) ==
    /\ client[c] = "free"
    /\ client' = [client EXCEPT ![c] = "open"]
    /\ backlog' = [backlog EXCEPT ![p] = Append(@, c)]
    /\ UNCHANGED <<threads, active, server, request, data, toClient,
                   held, acked>>

ReaderConnects(c, p) ==
    /\ Connects(c, p)
    /\ UNCHANGED <<toServer, write, alone>>

\* plc_write: connect, send, recv without a timeout.
WriterStarts(c, p) ==
    /\ Connects(c, p)
    /\ \E r \in Targets, v \in Given :
        /\ toServer' = [toServer EXCEPT ![c] = <<Write(r, v)>>]
        /\ write' = [write EXCEPT ![c] = Write(r, v)]
    /\ alone' = [alone EXCEPT ![c] = TRUE]

Served(c) == \E p \in Ports : active[p] = c

\* A request, or the repetition of one that has not been answered. Bounds: a
\* reader that waits to be accepted sends one, and what follows a request
\* that has not been received repeats it.
ReaderSends(c) ==
    /\ client[c] = "open"
    /\ Len(toServer[c]) < (IF Served(c) THEN MaxSent ELSE 1)
    /\ \E b \in Blocks :
        /\ \A q \in ToSet(toServer[c]) : q = Read(b)
        /\ toServer' = [toServer EXCEPT ![c] = Append(@, Read(b))]
    /\ UNCHANGED <<threads, servers, toClient, client, write, history>>

ReaderReceives(c) ==
    /\ client[c] = "open"
    /\ toClient[c]
    /\ toClient' = [toClient EXCEPT ![c] = FALSE]
    /\ UNCHANGED <<threads, servers, toServer, client, write, history>>

\* plc_write has its answer, and ends.
WriterReceives(c) ==
    /\ client[c] = "open"
    /\ toClient[c]
    /\ toClient' = [toClient EXCEPT ![c] = FALSE]
    /\ client' = [client EXCEPT ![c] = "closed"]
    /\ write' = [write EXCEPT ![c] = None]
    /\ alone' = [alone EXCEPT ![c] = FALSE]
    /\ acked' = IF alone[c]
                THEN [acked EXCEPT ![write[c].register] = write[c].value]
                ELSE acked
    /\ UNCHANGED <<threads, servers, toServer, held>>

\* A client that is stopped, or a gateway that gives up the connection. What
\* it has sent stays to be read.
Closes(c) ==
    /\ client[c] = "open"
    /\ client' = [client EXCEPT ![c] = "closed"]
    /\ write' = [d \in Writers |-> IF d = c THEN None ELSE write[d]]
    /\ alone' = [d \in Writers |-> d # c /\ alone[d]]
    /\ UNCHANGED <<threads, servers, toServer, toClient, held, acked>>

Next ==
    \/ ClockTurn \/ SimulationTurn
    \/ \E p \in Ports : Server(p)
    \/ \E c \in Readers : ReaderSends(c) \/ ReaderReceives(c)
    \/ \E c \in Readers : \E p \in PortsOf[c] : ReaderConnects(c, p)
    \/ \E c \in Writers : \E p \in PortsOf[c] : WriterStarts(c, p)
    \/ \E c \in Writers : WriterReceives(c)
    \/ \E c \in Conns : Closes(c)

Spec == Init /\ [][Next]_vars

\* The threads of the mock run, turns of the simulation add up to what its
\* integer part shows, and a writer takes the answer it waits for. No client
\* has to connect, to send or to leave.
FairSpec ==
    /\ Spec
    /\ WF_vars(SimulationAdvances)
    /\ \A p \in Ports : WF_vars(Server(p))
    /\ \A c \in Writers : WF_vars(WriterReceives(c))

-----------------------------------------------------------------------------
(***************************************************************************)
(* Properties.                                                             *)
(***************************************************************************)
Requests == {None} \cup {Read(b) : b \in Blocks}
            \cup {Write(r, v) : r \in Targets, v \in Given}

\* The types of the variables. A port has a connection exactly while its
\* server is out of accept, and no words but those of the request it is at.
TypeOK ==
    /\ memory \in [Registers -> Nat]
    /\ plant \in 0..(Gain * MaxWord)
    /\ server \in [Ports -> {"accept", "recv", "read", "write", "send"}]
    /\ active \in [Ports -> Conns \cup {Nobody}]
    /\ request \in [Ports -> Requests]
    /\ \A p \in Ports :
        /\ server[p] = "accept" <=> active[p] = Nobody
        /\ \A c \in ToSet(backlog[p]) \cup {active[p]} :
            c # Nobody => client[c] # "free"
        /\ Len(data[p]) <= Len(held[p])

\* Every word of an answer is one that its own register held between the
\* arrival of the request and its reading, whatever the other ports and the
\* threads write in between. (The block as a whole may never have been.)
WordsWereHeld ==
    \A p \in Ports : \A i \in DOMAIN data[p] : data[p][i] \in held[p][i]

\* What plc_write has seen answered is in the memory that all ports share,
\* until somebody sets that register again.
AckedWriteStands ==
    \A r \in Registers : acked[r] # NoWord => memory[r] = acked[r]

\* A client that has left its port makes room for the one that waits first.
NextInLine(c) ==
    \E p \in Ports :
        /\ active[p] # Nobody
        /\ client[active[p]] = "closed"
        /\ backlog[p] # <<>>
        /\ Head(backlog[p]) = c
HandedOver == \A c \in Conns : NextInLine(c) ~> Served(c)

\* A request of a client that is served is answered, unless one of its
\* registers has outgrown the word, the client leaves or sends another one
\* before the first is received.
Unpackable(c) ==
    \E p \in Ports :
        /\ active[p] = c
        /\ request[p].kind = "read"
        /\ \E i \in DOMAIN request[p].block : memory[request[p].block[i]] > MaxWord
RequestsAnswered ==
    \A c \in Conns :
        (Served(c) /\ Len(toServer[c]) = 1)
        ~> \/ toClient[c]
           \/ client[c] # "open"
           \/ Len(toServer[c]) > 1
           \/ Unpackable(c)

\* While D114 stays at u, D100 comes to K * u but for the last unit, again
\* and again, whatever clients write to D100.
FollowsInput ==
    \A u \in Given :
        <>[](memory["D114"] = u) =>
            []<>(memory["D100"] - Gain * u \in -1..1)
=============================================================================
