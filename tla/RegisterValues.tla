--------------------------- MODULE RegisterValues ---------------------------
(***************************************************************************)
(* From the words of a response to the values that are published: the      *)
(* decoder's expansion of words in slmp.py and the scan_as methods of      *)
(* scan_list.py.                                                           *)
(*                                                                         *)
(* A key is the register's offset from the start of the entry, with the    *)
(* bit for the type that publishes the bits of a word. A float is the pair *)
(* of words it is made of, low word first: what IEEE 754 makes of them     *)
(* does not matter here.                                                   *)
(*                                                                         *)
(* Operators only: EntryReading puts them to use.                          *)
(***************************************************************************)
EXTENDS Integers, Sequences

W == 16                 \* bits of a word
Powers == <<1, 2, 4, 8, 16, 32, 64, 128, 256, 512, 1024, 2048, 4096, 8192,
            16384, 32768>>
WordRange == 65536      \* 2 ^ W
SignBit == 32768        \* 2 ^ (W - 1)
Word == 0..(WordRange - 1)

\* What an entry can be told to be read as, and what it is read as: "BIT" is
\* the string of commands and scan lists, EnumBit the member of RegisterType.
EnumBit == "RegisterType.BIT"
GivenTypes == {"BIT", EnumBit, "BIT_R", "WORD", "UWORD", "DWORD", "FLOAT",
               "unknown"}
NoBit == -1

\* The constructor's rule for relays: the registers of an R entry that is
\* given as bits are words to expand. The comparison is with the member, which
\* no string equals.
TypeOf(d, given) ==
    IF given = EnumBit
    THEN IF d[1] = "R" THEN "BIT_R" ELSE "BIT"
    ELSE given

-----------------------------------------------------------------------------
(***************************************************************************)
(* The decoder.                                                            *)
(***************************************************************************)

\* Bit i of a word, from the least significant on.
Bit(w, i) == (w \div Powers[i + 1]) % 2

\* A word of a bit device is W registers; a word device's is one. A double
\* word device is refused: DecodesDevice.
Decode(size, w) ==
    IF size = "BIT"
    THEN [j \in 1..(W * Len(w)) |-> Bit(w[(j - 1) \div W + 1], (j - 1) % W)]
    ELSE w

DecodesDevice(size) == size \in {"BIT", "WORD"}

-----------------------------------------------------------------------------
(***************************************************************************)
(* The conversions.                                                        *)
(***************************************************************************)

\* A conversion that reads a signed type as unsigned (a mutant of Signed).
Unsigned(v) == v

\* unpack("h") of what pack("<H") wrote.
Signed(v) == IF v < SignBit THEN v ELSE v - WordRange

\* unpack("i") of two words, the low one first.
DoubleWord(lo, hi) == lo + Signed(hi) * WordRange

Key(n) == [n |-> n, bit |-> NoBit]

\* One entry per value that was decoded; a WORD is signed.
Single(t, values) ==
    [k \in {Key(n) : n \in 0..(Len(values) - 1)} |->
        IF t = "WORD" THEN Signed(values[k.n + 1]) ELSE values[k.n + 1]]

\* Pairs that are counted by their first registers, the last one left out (a
\* mutant of Pairs).
PairsButLast(t, values) ==
    [k \in {Key(2 * n) : n \in 0..(Len(values) \div 2 - 2)} |->
        <<values[k.n + 1], values[k.n + 2]>>]

\* One entry per two values, at the offset of the first. A last value without
\* a partner is dropped.
Pairs(t, values) ==
    [k \in {Key(2 * n) : n \in 0..(Len(values) \div 2 - 1)} |->
        IF t = "DWORD"
        THEN DoubleWord(values[k.n + 1], values[k.n + 2])
        ELSE <<values[k.n + 1], values[k.n + 2]>>]

\* W entries for each of the first length values.
Bits(values, length) ==
    [k \in {[n |-> n, bit |-> i] : n \in 0..(length - 1), i \in 0..(W - 1)} |->
        Bit(values[k.n + 1], k.bit)]

ScanAs(t, length, values) ==
    CASE t \in {"BIT", "WORD", "UWORD"} -> Single(t, values)
      [] t \in {"DWORD", "FLOAT"} -> Pairs(t, values)
      [] t = "BIT_R" -> Bits(values, length)
      [] OTHER -> <<>>
=============================================================================
