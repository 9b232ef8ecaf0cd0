---------------------------- MODULE DeviceAddress ----------------------------
(***************************************************************************)
(* Device addresses: how _parse_device_string splits one into a device     *)
(* name and a register number, and how device_address_add makes the        *)
(* address of the n-th register of an entry, the topic its value is        *)
(* published under (slmp.py).                                              *)
(*                                                                         *)
(* An address is a sequence of characters. Only capital letters and        *)
(* digits: a lower-case name is in no table. The devices without a symbol, *)
(* which no address can name, are left out.                                *)
(*                                                                         *)
(* Operators only: EntryReading puts them to use.                          *)
(***************************************************************************)
EXTENDS Naturals, SequencesExt

NoCode == 0

\* DEVICES: name, binary code, data_type, and the base of the numbers.
DeviceSpecs ==
    {<<<<"F", "X">>, NoCode, "BIT", 16>>, <<<<"F", "Y">>, NoCode, "BIT", 16>>,
     <<<<"F", "D">>, NoCode, "WORD", 10>>, <<<<"S", "M">>, 145, "BIT", 10>>,
     <<<<"S", "D">>, 169, "WORD", 10>>, <<<<"X">>, 156, "BIT", 16>>,
     <<<<"Y">>, 157, "BIT", 16>>, <<<<"M">>, 144, "BIT", 10>>,
     <<<<"L">>, 146, "BIT", 10>>, <<<<"F">>, 147, "BIT", 10>>,
     <<<<"V">>, 148, "BIT", 10>>, <<<<"B">>, 160, "BIT", 16>>,
     <<<<"D">>, 168, "WORD", 10>>, <<<<"W">>, 180, "WORD", 16>>,
     <<<<"T", "S">>, 193, "BIT", 10>>, <<<<"T", "C">>, 192, "BIT", 10>>,
     <<<<"T", "N">>, 194, "WORD", 10>>, <<<<"L", "T", "S">>, 81, "BIT", 10>>,
     <<<<"L", "T", "C">>, 80, "BIT", 10>>,
     <<<<"L", "T", "N">>, 82, "DWORD", 10>>,
     <<<<"S", "T", "S">>, 199, "BIT", 10>>,
     <<<<"S", "T", "C">>, 198, "BIT", 10>>,
     <<<<"S", "T", "N">>, 200, "WORD", 10>>,
     <<<<"L", "S", "T", "S">>, 89, "BIT", 10>>,
     <<<<"L", "S", "T", "C">>, 88, "BIT", 10>>,
     <<<<"L", "S", "T", "N">>, 90, "DWORD", 10>>,
     <<<<"C", "S">>, 196, "BIT", 10>>, <<<<"C", "C">>, 195, "BIT", 10>>,
     <<<<"C", "N">>, 197, "WORD", 10>>, <<<<"L", "C", "S">>, 85, "BIT", 10>>,
     <<<<"L", "C", "C">>, 84, "BIT", 10>>,
     <<<<"L", "C", "N">>, 86, "DWORD", 10>>, <<<<"S", "B">>, 161, "BIT", 16>>,
     <<<<"S", "W">>, 181, "WORD", 16>>, <<<<"S">>, NoCode, "BIT", 10>>,
     <<<<"D", "X">>, 162, "BIT", 16>>, <<<<"D", "Y">>, 163, "BIT", 16>>,
     <<<<"Z">>, 204, "WORD", 10>>, <<<<"L", "Z">>, 98, "DWORD", 10>>,
     <<<<"R">>, 175, "WORD", 10>>, <<<<"Z", "R">>, 176, "WORD", 16>>,
     <<<<"R", "D">>, 44, "WORD", 10>>}

Devices == {spec[1] : spec \in DeviceSpecs}
SpecOf(d) == CHOOSE spec \in DeviceSpecs : spec[1] = d
CodeOf == [d \in Devices |-> SpecOf(d)[2]]
SizeOf == [d \in Devices |-> SpecOf(d)[3]]
BaseOf == [d \in Devices |-> SpecOf(d)[4]]

Digits == <<"0", "1", "2", "3", "4", "5", "6", "7", "8", "9",
            "A", "B", "C", "D", "E", "F">>
HexDigit == {Digits[k] : k \in 1..16}
DecimalDigit == {Digits[k] : k \in 1..10}
Letter == {"A", "B", "C", "D", "E", "F", "L", "M", "N", "R", "S", "T",
           "V", "W", "X", "Y", "Z"}

-----------------------------------------------------------------------------
(***************************************************************************)
(* The parser.                                                             *)
(***************************************************************************)
Invalid == [name |-> <<>>, number |-> 0]

\* The places where a name can end, its letters taken from position from on:
\* one where a digit, hexadecimal or not, follows.
Ends(a, from) ==
    {k \in from..(Len(a) - 1) :
        a[k + 1] \in HexDigit /\ \A j \in from..k : a[j] \in Letter}

\* A name that is taken as long as it can be (a mutant of NameEnd).
NameEndGreedy(a) == Max(Ends(a, 1) \cup {0})

\* (s?[a-z]+?): a leading S is taken into the name when a name is left after
\* it, and of the letters as few as will do.
NameEnd(a) ==
    CASE a[1] = "S" /\ Ends(a, 2) # {} -> Min(Ends(a, 2))
      [] Ends(a, 1) # {} /\ (a[1] # "S" \/ Ends(a, 2) = {}) -> Min(Ends(a, 1))
      [] OTHER -> 0

\* ([a-f\d]+): all the digits that follow.
DigitsFrom(a, k) ==
    LET run == {j \in k..Len(a) : \A m \in k..j : a[m] \in HexDigit}
    IN  SubSeq(a, k, Max(run))

DigitValue(c) == CHOOSE k \in 0..15 : Digits[k + 1] = c
Number(digits, base) ==
    LET upTo[k \in 0..Len(digits)] ==
            IF k = 0 THEN 0 ELSE upTo[k - 1] * base + DigitValue(digits[k])
    IN  upTo[Len(digits)]

\* A name that is not in the table raises, and so do letters in a decimal
\* number.
Parse(a) ==
    LET k == NameEnd(a)
        name == SubSeq(a, 1, k)
        digits == DigitsFrom(a, k + 1)
    IN  IF \/ k = 0
           \/ name \notin Devices
           \/ BaseOf[name] = 10 /\ ~ToSet(digits) \subseteq DecimalDigit
        THEN Invalid
        ELSE [name |-> name, number |-> Number(digits, BaseOf[name])]

-----------------------------------------------------------------------------
(***************************************************************************)
(* The formatter.                                                          *)
(***************************************************************************)
Numeral(v, base) ==
    LET of[n \in 0..v] ==
            (IF n < base THEN <<>> ELSE of[n \div base])
                \o <<Digits[(n % base) + 1]>>
    IN  of[v]

Address(d, v) == d \o Numeral(v, BaseOf[d])

\* An address that is always decimal (a mutant of AddressAdd).
AddressAddDecimal(a, k) ==
    LET p == Parse(a) IN p.name \o Numeral(p.number + k, 10)

\* device_address_add.
AddressAdd(a, k) ==
    LET p == Parse(a) IN Address(p.name, p.number + k)

-----------------------------------------------------------------------------
(***************************************************************************)
(* Which names can be told from the digits that follow them.               *)
(***************************************************************************)

\* A name is plain when no letter of it but the first (the one after a
\* leading S) can be taken for a digit.
Plain(d) ==
    \A k \in DOMAIN d :
        k > (IF d[1] = "S" /\ Len(d) > 1 THEN 2 ELSE 1) => d[k] \notin HexDigit
=============================================================================
