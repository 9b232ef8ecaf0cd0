---------------------------- MODULE EntryReading ----------------------------
(***************************************************************************)
(* One entry of the scan list from its address to its topics: the address  *)
(* is parsed (DeviceAddress) and made into a request, plc_write and the    *)
(* mock PLC exchange frames with the gateway (SlmpFrame), the words of the *)
(* response become values (RegisterValues), and each value is published    *)
(* under the address device_address_add makes.                             *)
(*                                                                         *)
(* What can come back is the answer, and whatever else the connection may  *)
(* deliver in its place: a refusal, an answer to another request, a piece  *)
(* of one or two at once. When they do is the subject of SlmpLink.         *)
(***************************************************************************)
EXTENDS DeviceAddress, RegisterValues, SlmpFrame, FiniteSets

CONSTANTS
    Probed,     \* the devices that are read as every type, not only as the
                \* one the generator of scan lists infers
    Numbers,    \* register numbers an entry may start at
    MaxLength,  \* bound: the words an entry asks for
    SomeWords,  \* bound: the words that plc_write sends
    Targets     \* bound: the registers it sends them to, counted from the
                \* first of the entry

ASSUME ProbedAssumption == Probed \subseteq Devices
\* A request for more, or for more words than a response has room for, is one
\* that pack() refuses.
ASSUME MaxLengthAssumption == MaxLength \in 1..32765
ASSUME NumbersAssumption ==
    Numbers \subseteq {n \in Nat : (n + W * MaxLength - 1) \div 65536 < 65536}
ASSUME SomeWordsAssumption == SomeWords \subseteq Word
ASSUME TargetsAssumption == Targets \subseteq Nat

VARIABLES
    device,     \* the device an entry was meant for
    first,      \* and its first register
    length,     \* the words it asks for
    type,       \* the type it is read as
    memory,     \* the mock's registers, those the entry covers
    meant,      \* (history) what each register of the entry should hold by
                \* the last write that was for it
    misplaced,  \* (history) a word for a bit device is in the mock where the
                \* gateway does not look for those bits
    heard,      \* (history) what the last read was answered with
    published   \* dict_to_publish of the last scan

vars == <<device, first, length, type, memory, meant, misplaced, heard, published>>

Start == Address(device, first)
Parsed == Parse(Start)

\* The constructor builds the request: an address that does not parse and a
\* device without a code make no entry.
Made == Parsed # Invalid /\ CodeOf[Parsed.name] # NoCode

RequestOf(points) == ReadRequest(Parsed.number, CodeOf[Parsed.name], points)

\* The generator of scan lists: the type it infers, and the rows it writes for
\* count registers from start on.
InferType(d) == SizeOf[d]

Modes == {"block", "separate"}

\* Rows whose addresses are counted in decimal (a mutant of BuildRows).
BuildRowsDecimal(start, count, mode) ==
    IF mode = "block" THEN <<[start |-> start, length |-> count]>>
    ELSE [k \in 1..count |->
            [start |-> AddressAddDecimal(start, k - 1), length |-> 1]]

BuildRows(start, count, mode) ==
    IF mode = "block" THEN <<[start |-> start, length |-> count]>>
    ELSE [k \in 1..count |->
            [start |-> AddressAdd(start, k - 1), length |-> 1]]

\* What a word stands for, as the gateway takes it: W registers of a bit device
\* from the one it is addressed by on, one of a word device.
IsBits == SizeOf[device] = "BIT"
Width == IF IsBits THEN W ELSE 1
Part(w, i) == IF IsBits THEN Bit(w, i) ELSE w

\* The registers the scan reads.
RegisterCount == Width * length

-----------------------------------------------------------------------------
\* The mock's names for the registers the entry covers.
Covered == ToSet(RegistersOf(Request(RequestOf(length))))

Init ==
    /\ device \in Devices
    /\ first \in Numbers
    /\ length \in 1..MaxLength
    /\ \E given \in GivenTypes :
        /\ given = InferType(device) \/ device \in Probed
        /\ type = TypeOf(device, given)
    /\ memory = IF Made THEN [r \in Covered |-> 0] ELSE <<>>
    /\ meant = [n \in 0..(RegisterCount - 1) |-> 0]
    /\ misplaced = FALSE
    /\ heard = "nothing"
    /\ published = {}

\* plc_write: one word, to a register given by its address. The mock puts it
\* under that number, and gives a bit device's next word under the next number:
\* so only a word for the first register is where the gateway looks for it.
PlcWrite ==
    /\ Made
    /\ \E k \in Targets \cap 0..(RegisterCount - 1), v \in SomeWords :
        LET target == Parse(AddressAdd(Start, k))
            frame == WriteRequest(target.number, CodeOf[target.name], v)
        IN  /\ Understood(frame)
            /\ memory' = Written(frame, memory)
            /\ meant' = [n \in DOMAIN meant |->
                            IF n \in k..(k + Width - 1) THEN Part(v, n - k)
                            ELSE meant[n]]
            /\ misplaced' = (misplaced \/ (IsBits /\ k # 0))
    /\ heard' = "nothing"
    /\ published' = {}
    /\ UNCHANGED <<device, first, length, type>>

\* What a read can be answered with.
Proper == ReadResponse(RequestOf(length), memory)
Replies ==
    {[kind |-> "answer", bytes |-> Proper],
     [kind |-> "other", bytes |-> ErrorResponse(RequestOf(length), 49241)],
     [kind |-> "other", bytes |-> WriteResponse(RequestOf(length))],
     [kind |-> "other", bytes |-> ReadResponse(RequestOf(length + 1), memory)],
     [kind |-> "other", bytes |-> Proper \o Proper]}
    \cup {[kind |-> "other", bytes |-> SubSeq(Proper, 1, n)] :
            n \in {10, 12, Len(Proper) - 1}}

TopicOf(k) == [address |-> AddressAdd(Start, k.n), bit |-> k.bit]

\* scan_as_*, with the read it makes.
Scan ==
    /\ Made
    /\ Understood(RequestOf(length))
    /\ \E reply \in Replies :
        LET words == WordsOf(reply.bytes, length)
            values == ScanAs(type, length, Decode(SizeOf[device], words))
        IN  /\ heard' = reply.kind
            /\ published' =
                IF Decodable(reply.bytes, length) /\ DecodesDevice(SizeOf[device])
                THEN {[topic |-> TopicOf(k), value |-> values[k]] :
                        k \in DOMAIN values}
                ELSE {}
    /\ UNCHANGED <<device, first, length, type, memory, meant, misplaced>>

Next == PlcWrite \/ Scan

Spec == Init /\ [][Next]_vars

-----------------------------------------------------------------------------
(***************************************************************************)
(* Properties.                                                             *)
(***************************************************************************)

\* The address of a device with a plain name is read as that device and that
\* register, whatever letters a hexadecimal number begins with; the other
\* devices of the table cannot be addressed, whatever the number, and are
\* never read as another.
AddressesParse ==
    Parsed = IF Plain(device) THEN [name |-> device, number |-> first] ELSE Invalid

\* What register n of the entry holds, by the word the mock has for it.
WordFor(n) == IF IsBits THEN n \div W ELSE n
HeldFor(n) ==
    LET word == memory[Register(DevicePrefix(CodeOf[device]), first + WordFor(n))]
    IN  Part(word, n % W)

\* What is to be published for it: what it was meant to hold, or, once a word
\* has been misplaced, what it does hold.
Due(n) == IF misplaced THEN HeldFor(n) ELSE meant[n]

\* value is what is due for the registers from n on, in the view of the type.
Spells(value, n, bit) ==
    CASE type = "BIT_R" -> value = Bit(Due(n), bit)
      [] type = "DWORD" ->
            /\ value % WordRange = Due(n)
            /\ (value \div WordRange) % WordRange = Due(n + 1)
      [] type = "FLOAT" -> value = <<Due(n), Due(n + 1)>>
      [] OTHER -> value % WordRange = Due(n)

\* End to end: what is published under a topic is what was written to the
\* register that this topic addresses, through the request, the mock, the
\* response and the conversion. No step swaps bytes, bits, words or names. The
\* exception is a bit device that a word was written to behind its first
\* register: mock and gateway do not mean the same bits by it, and what is
\* published from then on is the mock's words, W registers each.
ValueOfItsRegister ==
    \A p \in published :
        LET named == Parse(p.topic.address)
            n == named.number - first
        IN  /\ named.name = device
            /\ n \in 0..(RegisterCount - 1)
            /\ Spells(p.value, n, p.topic.bit)

\* A value of a signed type is negative exactly when the top bit of its
\* (upper) word is set.
SignKept ==
    type \in {"WORD", "DWORD"} =>
        \A p \in published :
            LET n == Parse(p.topic.address).number - first
                top == IF type = "WORD" THEN n ELSE n + 1
            IN  p.value < 0 <=> Due(top) >= SignBit

\* A scan that publishes anything publishes every register of the entry under
\* a topic of its own, but for a last word that has no partner.
TopicsExpected ==
    CASE type \in {"DWORD", "FLOAT"} -> RegisterCount \div 2
      [] type = "BIT_R" -> W * length
      [] OTHER -> RegisterCount
EveryRegisterPublished ==
    heard = "answer" /\ DecodesDevice(SizeOf[device]) /\ type # "unknown" =>
        Cardinality({p.topic : p \in published}) = TopicsExpected

\* Nothing is published from a refusal, an answer to a read of another length,
\* a write's answer, a piece of an answer or two of them.
OnlyFromItsAnswer == published # {} => heard = "answer"

\* The rows the generator writes for count registers read every one of them,
\* and each but once, in both modes and across the turns of the base. (Rows of
\* single bits do overlap: each reads the word that begins at its bit.)
ReadBy(row) ==
    LET named == Parse(row.start) IN
    {[name |-> named.name, number |-> named.number + n] :
        n \in 0..(Width * row.length - 1)}
GeneratedRowsRead ==
    Parsed # Invalid =>
        \A mode \in Modes :
            LET rows == BuildRows(Start, length, mode)
            IN  /\ {[name |-> device, number |-> first + n] : n \in 0..(length - 1)}
                      \subseteq UNION {ReadBy(rows[k]) : k \in DOMAIN rows}
                /\ ~IsBits =>
                      \A j, k \in DOMAIN rows :
                        j # k => ReadBy(rows[j]) \cap ReadBy(rows[k]) = {}
=============================================================================
