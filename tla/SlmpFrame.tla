------------------------------ MODULE SlmpFrame ------------------------------
(***************************************************************************)
(* The frames on the wire, byte by byte: the request builder and the       *)
(* checks of the response decoder (slmp.py), and how the mock PLC takes a  *)
(* request apart and makes its answer (mock_plc.py). Only what the code    *)
(* implements: 3E frames without a serial number, four-byte addresses, the *)
(* connected station. Code is the binary device code of an address, words  *)
(* are numbers of 16 bits, and all fields are little endian.               *)
(***************************************************************************)
EXTENDS Naturals, Sequences

\* The codes of the commands, and the one device code that is not taken for D.
ReadCommand == 1025         \* 0x0401
WriteCommand == 5121        \* 0x1401
CodeOfSD == 169             \* 0x00A9

-----------------------------------------------------------------------------
(***************************************************************************)
(* Packing and unpacking.                                                  *)
(***************************************************************************)
Pack2(v) == <<v % 256, v \div 256>>
Pack4(v) == Pack2(v % 65536) \o Pack2(v \div 65536)

\* Python's frame[from:to].
Slice(frame, from, to) == SubSeq(frame, from + 1, to)

Unpack2(b) == b[1] + 256 * b[2]
Unpack4(b) == Unpack2(b) + 65536 * Unpack2(Slice(b, 2, 4))

\* The bytes of a sequence of words.
Packed(words) ==
    [i \in 1..(2 * Len(words)) |-> Pack2(words[(i + 1) \div 2])[2 - (i % 2)]]

-----------------------------------------------------------------------------
(***************************************************************************)
(* The request builder.                                                    *)
(***************************************************************************)

\* Subheader 0x0050, network 0, station 0xFF, module 0x03FF, multidrop 0.
RoutingPrefix == Pack2(80) \o <<0, 255>> \o Pack2(1023) \o <<0>>

\* Monitoring timer of 1000 ms in units of 250, command, subcommand of words
\* with four-byte addresses, head device and payload.
DeviceBody(command, number, code, payload) ==
    Pack2(4) \o Pack2(command) \o Pack2(2) \o Pack4(number) \o Pack2(code)
        \o payload

AssembleFrame(data) == RoutingPrefix \o Pack2(Len(data)) \o data

ReadRequest(number, code, points) ==
    AssembleFrame(DeviceBody(ReadCommand, number, code, Pack2(points)))

\* One word: its count and its value.
WriteRequest(number, code, value) ==
    AssembleFrame(DeviceBody(WriteCommand, number, code, Pack2(1) \o Pack2(value)))

-----------------------------------------------------------------------------
(***************************************************************************)
(* The mock's side.                                                        *)
(***************************************************************************)

\* A device code the mock does not know is taken for D.
DevicePrefix(code) == IF code = CodeOfSD THEN <<"S", "D">> ELSE <<"D">>

\* The fields of a request, at the mock's offsets.
Request(frame) ==
    [command |-> Unpack2(Slice(frame, 11, 13)),
     number  |-> Unpack4(Slice(frame, 15, 19)),
     prefix  |-> DevicePrefix(Unpack2(Slice(frame, 19, 21))),
     points  |-> Unpack2(Slice(frame, 21, 23))]

Understood(frame) ==
    /\ Len(frame) >= 23
    /\ Request(frame).command \in {ReadCommand, WriteCommand}

Register(prefix, number) == [prefix |-> prefix, number |-> number]
RegistersOf(request) ==
    [i \in 1..request.points |-> Register(request.prefix, request.number + i - 1)]

\* The words the registers hold; one that was never set holds 0.
HeldBy(memory, r) == IF r \in DOMAIN memory THEN memory[r] ELSE 0

Answer(frame, payload) ==
    Slice(frame, 0, 7) \o Pack2(2 + Len(payload)) \o Pack2(0) \o payload

ReadResponse(frame, memory) ==
    LET registers == RegistersOf(Request(frame)) IN
    Answer(frame, Packed([i \in DOMAIN registers |->
                            HeldBy(memory, registers[i])]))

WriteResponse(frame) == Answer(frame, <<>>)

\* The memory after a write: the words that follow the fields.
Written(frame, memory) ==
    LET registers == RegistersOf(Request(frame))
        word(i) == Unpack2(Slice(frame, 21 + 2 * i, 23 + 2 * i))
    IN  [r \in DOMAIN memory |->
            IF \E i \in DOMAIN registers : registers[i] = r
            THEN word(CHOOSE i \in DOMAIN registers : registers[i] = r)
            ELSE memory[r]]

\* An answer that says the request is refused: an end code and no data.
ErrorResponse(frame, endCode) ==
    Slice(frame, 0, 7) \o Pack2(2) \o Pack2(endCode)

-----------------------------------------------------------------------------
(***************************************************************************)
(* The decoder.                                                            *)
(***************************************************************************)
DataLength(response) == Unpack2(Slice(response, 7, 9))
EndCode(response) == Unpack2(Slice(response, 9, 11))

\* A decoder that trusts the length the header announces (a mutant of
\* Decodable).
DecodableAsSaid(response, points) ==
    /\ Len(response) >= 11
    /\ EndCode(response) = 0
    /\ Len(response) >= 11 + 2 * points

\* The end code is zero, and the length that is announced is the one that
\* came and the one that was asked for.
Decodable(response, points) ==
    /\ Len(response) >= 11
    /\ EndCode(response) = 0
    /\ DataLength(response) = Len(response) - 9
    /\ DataLength(response) = 2 + 2 * points

WordsOf(response, points) ==
    [n \in 1..points |-> Unpack2(Slice(response, 9 + 2 * n, 11 + 2 * n))]
=============================================================================
