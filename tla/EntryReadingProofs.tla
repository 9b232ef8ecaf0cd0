------------------------- MODULE EntryReadingProofs -------------------------
(***************************************************************************)
(* Theorems about EntryReading for every register number, every length of  *)
(* an entry, every word that is written and every device of the table.     *)
(*                                                                         *)
(*  - AddressesParseHolds: what an address is made of is what it is read   *)
(*    as, in either base, and what cannot be addressed is refused.         *)
(*  - OnlyFromItsAnswerHolds: only the answer to a read decodes.           *)
(*  - ValueOfItsRegisterHolds, SignKeptHolds, EveryRegisterPublishedHolds: *)
(*    each value is the one of the register its topic names, with its      *)
(*    sign, and no register is left out.                                   *)
(*  - GeneratedRowsReadHolds: the rows of the generator read each register *)
(*    they are for.                                                        *)
(*                                                                         *)
(* The proofs go the way of the bytes: numerals, names, frames, answers,   *)
(* then the inductive invariant EInv, which says that the mock's memory is *)
(* what was meant as long as no word is misplaced, and that what is        *)
(* published is what the words it holds spell. Recursive functions are     *)
(* reasoned about by their least counterexample.                           *)
(***************************************************************************)
EXTENDS EntryReading, SequenceTheorems, FiniteSetTheorems,
        WellFoundedInduction, TLAPS

-----------------------------------------------------------------------------
(***************************************************************************)
(* Recursive functions, and the numerals they make and read.               *)
(***************************************************************************)

\* Every set of naturals that is not empty has a least element.
LEMMA LeastNatural ==
    ASSUME NEW S \in SUBSET Nat, S # {}
    PROVE  \E m \in S : \A y \in S : m <= y
<1>1. PICK x \in S : \A y \in S : ~(<<y, x>> \in OpToRel(<, Nat))
  BY NatLessThanWellFounded, WFMin
<1>2. \A y \in S : ~(y < x)
  BY <1>1 DEF OpToRel
<1> QED
  BY <1>2

\* A set that has each natural below which it has all has every natural.
LEMMA SetInduction ==
    ASSUME NEW S,
           \A n \in Nat : (\A m \in Nat : m < n => m \in S) => n \in S
    PROVE  Nat \subseteq S
<1> SUFFICES ASSUME Nat \ S # {} PROVE FALSE
  OBVIOUS
<1>1. PICK m \in Nat \ S : \A y \in Nat \ S : m <= y
  BY LeastNatural
<1> QED
  BY <1>1

\* A digit is worth its place in the table of digits.
LEMMA DigitsGiveTheirValue ==
    ASSUME NEW k \in 0..15
    PROVE  /\ Digits[k + 1] \in HexDigit
           /\ k < 10 => Digits[k + 1] \in DecimalDigit
           /\ DigitValue(Digits[k + 1]) = k
<1>1. DigitValue(Digits[k + 1]) = k
  BY DEF DigitValue, Digits
<1> QED
  BY <1>1 DEF HexDigit, DecimalDigit

\* The equations of the functions that Numeral and Number are made of.
LastDigit(n, base) == <<Digits[(n % base) + 1]>>
Numerals(f, v, base) ==
    f = [n \in 0..v |->
            (IF n < base THEN <<>> ELSE f[n \div base]) \o LastDigit(n, base)]
Counts(f, digits, base) ==
    f = [k \in 0..Len(digits) |->
            IF k = 0 THEN 0 ELSE f[k - 1] * base + DigitValue(digits[k])]

\* There is a function with the equations of Numeral.
LEMMA NumeralsExist ==
    ASSUME NEW base \in {10, 16}, NEW v \in Nat
    PROVE  \E f : Numerals(f, v, base)
<1> DEFINE S == {n \in Nat : \E f : Numerals(f, n, base)}
<1>1. ASSUME NEW n \in Nat, \A m \in Nat : m < n => m \in S
      PROVE  n \in S
  <2>1. CASE n = 0
    <3> DEFINE f == [k \in 0..n |-> <<>> \o LastDigit(k, base)]
    <3>1. \A k \in 0..n : f[k] = (IF k < base THEN <<>> ELSE f[k \div base])
                                    \o LastDigit(k, base)
      BY <2>1
    <3>2. f = [k \in 0..n |-> f[k]]
      OBVIOUS
    <3> HIDE DEF f
    <3>3. Numerals(f, n, base)
      BY <3>1, <3>2 DEF Numerals
    <3> QED BY <3>3
  <2>2. CASE n # 0
    <3>1. n - 1 \in Nat /\ n - 1 < n
      BY <2>2
    <3>2. PICK f : Numerals(f, n - 1, base)
      BY <1>1, <3>1
    <3> DEFINE Step(g, k) == (IF k < base THEN <<>> ELSE g[k \div base]) \o LastDigit(k, base)
               g == [k \in 0..n |-> IF k = n THEN Step(f, n) ELSE f[k]]
    <3>3. \A k \in 0..(n - 1) : f[k] = Step(f, k)
      BY <3>2 DEF Numerals
    <3> HIDE DEF Step
    <3>4. \A k \in 0..n : g[k] = Step(f, k)
      BY <3>1, <3>3
    <3>5. g = [k \in 0..n |-> g[k]] /\ \A k \in 0..(n - 1) : g[k] = f[k]
      BY <3>1
    <3> HIDE DEF g
    <3> USE DEF Step
    <3>6. ASSUME NEW k \in 0..n PROVE g[k] = Step(g, k)
      <4>1. CASE k < base
        BY <3>4, <4>1
      <4>2. CASE ~(k < base)
        <5>1. k \div base \in 0..(n - 1)
          BY <3>1, <4>2
        <5>2. g[k \div base] = f[k \div base]
          BY <3>5, <5>1
        <5> QED BY <3>4, <4>2, <5>2
      <4> QED BY <4>1, <4>2
    <3>7. g = [k \in 0..n |-> Step(g, k)]
      BY <3>5, <3>6
    <3>8. Numerals(g, n, base)
      BY <3>7 DEF Numerals
    <3> QED BY <3>8
  <2> QED BY <2>1, <2>2
<1> HIDE DEF S
<1>2. Nat \subseteq S
  BY <1>1, SetInduction
<1> QED
  BY <1>2 DEF S

\* So Numeral is a value of one.
LEMMA NumeralIsOne ==
    ASSUME NEW base \in {10, 16}, NEW v \in Nat
    PROVE  \E f : Numerals(f, v, base) /\ Numeral(v, base) = f[v]
<1> DEFINE c == CHOOSE f : Numerals(f, v, base)
<1>1. Numerals(c, v, base)
  BY NumeralsExist
<1>2. Numeral(v, base) = c[v]
  BY DEF Numeral, Numerals, LastDigit
<1> QED
  BY <1>1, <1>2

\* There is a function with the equations of Number.
LEMMA CountsExist ==
    ASSUME NEW digits, NEW base, Len(digits) \in Nat
    PROVE  \E f : Counts(f, digits, base)
<1> DEFINE N == Len(digits)
           Step(g, k) == IF k = 0 THEN 0 ELSE g[k - 1] * base + DigitValue(digits[k])
           UpTo(g, n) == g = [k \in 0..n |-> Step(g, k)]
           S == {n \in Nat : \E g : UpTo(g, n)}
<1>1. ASSUME NEW n \in Nat, \A m \in Nat : m < n => m \in S
      PROVE  n \in S
  <2>1. CASE n = 0
    <3> DEFINE f == [k \in 0..0 |-> 0]
    <3>1. UpTo(f, n)
      BY <2>1
    <3> QED BY <3>1
  <2>2. CASE n # 0
    <3>1. n - 1 \in Nat /\ n - 1 < n
      BY <2>2
    <3>2. PICK f : UpTo(f, n - 1)
      BY <1>1, <3>1
    <3> DEFINE g == [k \in 0..n |-> IF k = n THEN Step(f, n) ELSE f[k]]
    <3>3. \A k \in 0..(n - 1) : f[k] = Step(f, k)
      BY <3>2
    <3>4. \A k \in 0..n : g[k] = Step(f, k)
      BY <3>3
    <3>5. ASSUME NEW k \in 0..n PROVE g[k] = Step(g, k)
      <4>1. CASE k = 0
        BY <3>4, <4>1
      <4>2. CASE k # 0
        <5>1. k - 1 \in 0..(n - 1)
          BY <3>1, <4>2
        <5>2. g[k - 1] = f[k - 1]
          BY <5>1
        <5> QED BY <3>4, <4>2, <5>2
      <4> QED BY <4>1, <4>2
    <3>6. g = [k \in 0..n |-> g[k]]
      OBVIOUS
    <3> HIDE DEF g
    <3>7. g = [k \in 0..n |-> Step(g, k)]
      BY <3>5, <3>6
    <3> QED BY <3>7
  <2> QED BY <2>1, <2>2
<1> HIDE DEF S
<1>2. Nat \subseteq S
  BY <1>1, SetInduction
<1> QED
  BY <1>2 DEF S, Counts

\* So Number is a value of one.
LEMMA NumberIsOne ==
    ASSUME NEW digits, NEW base, Len(digits) \in Nat
    PROVE  \E f : Counts(f, digits, base) /\ Number(digits, base) = f[Len(digits)]
<1> DEFINE c == CHOOSE f : Counts(f, digits, base)
<1>1. Counts(c, digits, base)
  BY CountsExist
<1>2. Number(digits, base) = c[Len(digits)]
  BY DEF Number, Counts
<1> QED
  BY <1>1, <1>2


\* A digit more turns the number over by the base and adds its value.
LEMMA NumberOfOneMore ==
    ASSUME NEW digits \in Seq(HexDigit), NEW c \in HexDigit, NEW base
    PROVE  Number(digits \o <<c>>, base) = Number(digits, base) * base + DigitValue(c)
<1> DEFINE longer == digits \o <<c>>
           n == Len(digits)
<1>1. /\ n \in Nat /\ Len(longer) = n + 1 /\ longer[n + 1] = c
      /\ \A k \in 1..n : longer[k] = digits[k]
  OBVIOUS
<1> HIDE DEF longer, n
<1>2. PICK f : Counts(f, digits, base) /\ Number(digits, base) = f[n]
  BY <1>1, NumberIsOne DEF n
<1>3. PICK g : Counts(g, longer, base) /\ Number(longer, base) = g[n + 1]
  BY <1>1, NumberIsOne
<1>4. f[0] = 0 /\ \A k \in 1..n : f[k] = f[k - 1] * base + DigitValue(digits[k])
  <2>1. \A k \in 0..n : f[k] = IF k = 0 THEN 0 ELSE f[k - 1] * base + DigitValue(digits[k])
    BY <1>2 DEF Counts, n
  <2> QED BY <2>1, <1>1
<1>5. g[0] = 0 /\ \A k \in 1..(n + 1) : g[k] = g[k - 1] * base + DigitValue(longer[k])
  <2>1. \A k \in 0..(n + 1) : g[k] = IF k = 0 THEN 0 ELSE g[k - 1] * base + DigitValue(longer[k])
    BY <1>1, <1>3 DEF Counts
  <2> QED BY <2>1, <1>1
<1> DEFINE S == {k \in Nat : k <= n => f[k] = g[k]}
<1>6. ASSUME NEW k \in Nat, \A m \in Nat : m < k => m \in S
      PROVE  k \in S
  <2>1. CASE k = 0
    BY <1>4, <1>5, <2>1
  <2>2. CASE k # 0 /\ k <= n
    <3>1. k \in 1..n /\ k \in 1..(n + 1) /\ k - 1 \in Nat /\ k - 1 < k /\ k - 1 <= n
      BY <1>1, <2>2
    <3>2. f[k - 1] = g[k - 1]
      BY <1>6, <3>1
    <3>3. f[k] = g[k]
      BY <1>1, <1>4, <1>5, <3>1, <3>2
    <3> QED BY <3>3
  <2>3. CASE ~(k <= n)
    BY <2>3
  <2> QED BY <2>1, <2>2, <2>3
<1> HIDE DEF S
<1>7. Nat \subseteq S
  BY <1>6, SetInduction
<1>8. f[n] = g[n]
  BY <1>1, <1>7 DEF S
<1>9. g[n + 1] = g[n] * base + DigitValue(c)
  <2>1. n + 1 \in 1..(n + 1) /\ (n + 1) - 1 = n
    BY <1>1
  <2> QED BY <1>1, <1>5, <2>1
<1> QED
  BY <1>2, <1>3, <1>8, <1>9 DEF longer

\* No digits are worth nothing.
LEMMA NumberOfNone == ASSUME NEW base PROVE Number(<<>>, base) = 0
<1>1. PICK f : Counts(f, <<>>, base) /\ Number(<<>>, base) = f[0]
  BY NumberIsOne
<1> QED
  BY <1>1 DEF Counts

\* digits are a numeral of v in the base.
Spelled(digits, v, base) ==
    /\ digits \in Seq(HexDigit)
    /\ digits # <<>>
    /\ base = 10 => \A k \in 1..Len(digits) : digits[k] \in DecimalDigit
    /\ Number(digits, base) = v

\* A numeral is read back as the number it was made of.
LEMMA NumeralSpells ==
    ASSUME NEW base \in {10, 16}, NEW v \in Nat
    PROVE  Spelled(Numeral(v, base), v, base)
<1>1. PICK f : Numerals(f, v, base) /\ Numeral(v, base) = f[v]
  BY NumeralIsOne
<1>2. \A n \in 0..v : f[n] = (IF n < base THEN <<>> ELSE f[n \div base]) \o LastDigit(n, base)
  BY <1>1 DEF Numerals
<1> DEFINE S == {n \in Nat : n <= v => Spelled(f[n], n, base)}
<1>3. ASSUME NEW n \in Nat, \A m \in Nat : m < n => m \in S
      PROVE  n \in S
  <2> SUFFICES ASSUME n <= v PROVE Spelled(f[n], n, base)
    OBVIOUS
  <2> DEFINE head == IF n < base THEN <<>> ELSE f[n \div base]
             c == Digits[(n % base) + 1]
  <2>1. f[n] = head \o <<c>>
    <3>1. n \in 0..v
      OBVIOUS
    <3> QED BY <1>2, <3>1 DEF LastDigit
  <2>2. n % base \in 0..15 /\ (base = 10 => n % base < 10)
    OBVIOUS
  <2>3. c \in HexDigit /\ (base = 10 => c \in DecimalDigit) /\ DigitValue(c) = n % base
    BY <2>2, DigitsGiveTheirValue
  <2>4. /\ head \in Seq(HexDigit)
        /\ base = 10 => \A k \in 1..Len(head) : head[k] \in DecimalDigit
        /\ Number(head, base) = n \div base
    <3>1. CASE n < base
      <4>1. head = <<>> /\ n \div base = 0
        BY <3>1
      <4> QED BY <4>1, NumberOfNone
    <3>2. CASE ~(n < base)
      <4>1. n \div base \in Nat /\ n \div base < n /\ n \div base <= v
        BY <3>2
      <4>2. Spelled(f[n \div base], n \div base, base)
        BY <1>3, <4>1
      <4> QED BY <3>2, <4>2 DEF Spelled
    <3> QED BY <3>1, <3>2
  <2> HIDE DEF head, c
  <2>5. Number(head \o <<c>>, base) = (n \div base) * base + (n % base)
    BY <2>3, <2>4, NumberOfOneMore
  <2>6. (n \div base) * base + (n % base) = n
    OBVIOUS
  <2>7. /\ head \o <<c>> \in Seq(HexDigit)
        /\ head \o <<c>> # <<>>
    BY <2>3, <2>4
  <2>8. base = 10 => \A k \in 1..Len(head \o <<c>>) : (head \o <<c>>)[k] \in DecimalDigit
    BY <2>3, <2>4
  <2> QED BY <2>1, <2>5, <2>6, <2>7, <2>8 DEF Spelled
<1> HIDE DEF S
<1>4. Nat \subseteq S
  BY <1>3, SetInduction
<1> QED
  BY <1>1, <1>4 DEF S

-----------------------------------------------------------------------------
(***************************************************************************)
(* The table of devices, and which names of it can be told apart.          *)
(***************************************************************************)

\* The fields of the rows of the table.
LEMMA NamesInTheTable ==
    ASSUME NEW spec \in DeviceSpecs
    PROVE  /\ Len(spec[1]) \in 1..4
           /\ \A k \in 1..4 : k <= Len(spec[1]) => spec[1][k] \in Letter
           /\ spec[1] = [k \in 1..Len(spec[1]) |-> spec[1][k]]
           /\ spec[2] \in Nat
           /\ spec[3] \in {"BIT", "WORD", "DWORD"}
           /\ spec[4] \in {10, 16}
<1>1. Len(spec[1]) \in 1..4
  BY DEF DeviceSpecs
<1>2. \A k \in 1..4 : k <= Len(spec[1]) => spec[1][k] \in Letter
  BY DEF DeviceSpecs, Letter
<1>3. spec[1] = [k \in 1..Len(spec[1]) |-> spec[1][k]]
  BY DEF DeviceSpecs
<1>4. spec[2] \in Nat /\ spec[3] \in {"BIT", "WORD", "DWORD"} /\ spec[4] \in {10, 16}
  BY DEF DeviceSpecs, NoCode
<1> QED
  BY <1>1, <1>2, <1>3, <1>4

\* Where a letter that is also a digit stands in a name, past its first.
LEMMA LettersThatMislead ==
    ASSUME NEW spec \in DeviceSpecs, NEW m \in 2..4, m <= Len(spec[1]),
           spec[1][m] \in HexDigit
    PROVE  \/ spec[1][1] = "S" /\ m = 2
           \/ m = 2 /\ spec[1][1] \in {"F", "R", "T", "C", "L"}
           \/ m > 2 /\ spec[1][m - 1] = "T"
           \/ m = 3 /\ spec[1][1] = "L" /\ spec[1][2] = "C"
<1>1. \A c \in Letter : c \in HexDigit => c \in {"A", "B", "C", "D", "E", "F"}
  BY DEF Letter, HexDigit, Digits
<1>2. spec[1][m] \in {"A", "B", "C", "D", "E", "F"}
  <2>1. m \in 1..4
    OBVIOUS
  <2>2. spec[1][m] \in Letter
    BY <2>1, NamesInTheTable
  <2> QED BY <1>1, <2>2
<1>3. CASE m = 2
  BY <1>2, <1>3 DEF DeviceSpecs
<1>4. CASE m = 3
  BY <1>2, <1>4 DEF DeviceSpecs
<1>5. CASE m = 4
  BY <1>2, <1>5 DEF DeviceSpecs
<1> QED
  BY <1>3, <1>4, <1>5

\* The shorter names that such a letter can leave: what the table says of
\* those.
LEMMA NamesTheyLeave ==
    ASSUME NEW spec \in DeviceSpecs
    PROVE  /\ Len(spec[1]) = 1 /\ spec[1][1] \in {"S", "F", "R", "T", "C", "L"}
                => spec[4] = 10
           /\ \A m \in 2..4 : Len(spec[1]) = m => spec[1][m] # "T"
<1>1. Len(spec[1]) = 1 /\ spec[1][1] \in {"S", "F", "R", "T", "C", "L"}
        => spec[4] = 10
  BY DEF DeviceSpecs
<1>2. \A m \in 2..4 : Len(spec[1]) = m => spec[1][m] # "T"
  BY DEF DeviceSpecs
<1> QED
  BY <1>1, <1>2

\* The table as the model reads it.
LEMMA DeviceTypes ==
    ASSUME NEW d \in Devices
    PROVE  /\ SpecOf(d) \in DeviceSpecs /\ SpecOf(d)[1] = d
           /\ d \in Seq(Letter) /\ Len(d) \in 1..4
           /\ BaseOf[d] = SpecOf(d)[4]
           /\ BaseOf[d] \in {10, 16}
           /\ CodeOf[d] \in Nat
           /\ SizeOf[d] \in {"BIT", "WORD", "DWORD"}
<1>1. SpecOf(d) \in DeviceSpecs /\ SpecOf(d)[1] = d
  <2>1. PICK spec \in DeviceSpecs : spec[1] = d
    BY DEF Devices
  <2> QED BY <2>1 DEF SpecOf
<1>2. d \in Seq(Letter) /\ Len(d) \in 1..4
  <2>1. /\ Len(d) \in 1..4
        /\ \A k \in 1..4 : k <= Len(d) => d[k] \in Letter
        /\ d = [k \in 1..Len(d) |-> d[k]]
    BY <1>1, NamesInTheTable
  <2>2. \A k \in 1..Len(d) : d[k] \in Letter
    BY <2>1
  <2> QED BY <2>1, <2>2
<1>3. /\ BaseOf[d] = SpecOf(d)[4]
      /\ CodeOf[d] = SpecOf(d)[2]
      /\ SizeOf[d] = SpecOf(d)[3]
  BY DEF BaseOf, CodeOf, SizeOf
<1> QED
  BY <1>1, <1>2, <1>3, NamesInTheTable

\* The first letter of d, past those that cannot end a name, that is also a
\* digit.
Misleads(d, m) ==
    /\ m \in 2..Len(d)
    /\ d[m] \in HexDigit
    /\ d[1] = "S" => m > 2
    /\ \A j \in 2..(m - 1) : d[j] \in HexDigit => d[1] = "S" /\ j = 2

\* A device whose name is left when the misleading letter is taken for a digit
\* has decimal numbers: the letter makes no number of it.
LEMMA NameThatIsLeft ==
    ASSUME NEW d \in Devices, NEW m, Misleads(d, m),
           NEW p \in Devices, p = SubSeq(d, 1, m - 1)
    PROVE  BaseOf[p] = 10
<1>1. /\ SpecOf(d) \in DeviceSpecs /\ SpecOf(d)[1] = d /\ Len(d) \in 1..4
      /\ SpecOf(p) \in DeviceSpecs /\ SpecOf(p)[1] = p
      /\ BaseOf[p] = SpecOf(p)[4] /\ d \in Seq(Letter)
  BY DeviceTypes
<1>2. m \in 2..4 /\ m <= Len(d) /\ d[m] \in HexDigit /\ (d[1] = "S" => m > 2)
  BY <1>1 DEF Misleads
<1>3. Len(p) = m - 1 /\ \A j \in 1..(m - 1) : p[j] = d[j]
  BY <1>1, <1>2
<1>4. \/ m = 2 /\ d[1] \in {"F", "R", "T", "C", "L"}
      \/ m > 2 /\ d[m - 1] = "T"
      \/ m = 3 /\ d[1] = "L" /\ d[2] = "C"
  BY <1>1, <1>2, LettersThatMislead
<1>5. CASE m = 2 /\ d[1] \in {"F", "R", "T", "C", "L"}
  BY <1>1, <1>3, <1>5, NamesTheyLeave
<1>6. CASE m > 2 /\ d[m - 1] = "T"
  <2>1. m - 1 \in 2..4 /\ Len(p) = m - 1 /\ p[m - 1] = "T"
    BY <1>2, <1>3, <1>6
  <2> QED BY <1>1, <2>1, NamesTheyLeave
<1>7. CASE m = 3 /\ d[1] = "L" /\ d[2] = "C"
  BY <1>7 DEF Misleads, HexDigit, Digits
<1> QED
  BY <1>4, <1>5, <1>6, <1>7

-----------------------------------------------------------------------------
(***************************************************************************)
(* Where the parser takes a name to end.                                   *)
(***************************************************************************)

\* The first place where a name can end is the least of all.
LEMMA FirstEnd ==
    ASSUME NEW a, Len(a) \in Nat, NEW from \in 1..2, NEW m \in Nat,
           from <= m, m < Len(a), a[m + 1] \in HexDigit,
           \A j \in from..m : a[j] \in Letter,
           \A j \in from..(m - 1) : a[j + 1] \notin HexDigit
    PROVE  Ends(a, from) # {} /\ Min(Ends(a, from)) = m
<1>1. m \in Ends(a, from)
  BY DEF Ends
<1>2. \A k \in Ends(a, from) : k \in Nat /\ m <= k
  BY DEF Ends
<1>3. \A k \in Ends(a, from) : (\A y \in Ends(a, from) : k <= y) => k = m
  BY <1>1, <1>2
<1> QED
  BY <1>1, <1>2, <1>3 DEF Min

\* The places where a name can be seen to end: before the digit at m + 1.
LEMMA NameEndsThere ==
    ASSUME NEW a, Len(a) \in Nat, NEW m \in Nat,
           1 <= m, m < Len(a), a[m + 1] \in HexDigit,
           \A j \in 1..m : a[j] \in Letter,
           \A j \in 1..(m - 1) : a[j + 1] \in HexDigit => a[1] = "S" /\ j = 1,
           a[1] = "S" => m > 1 \/ a[2] \notin Letter
    PROVE  NameEnd(a) = m
<1>1. CASE a[1] # "S"
  <2>1. Ends(a, 1) # {} /\ Min(Ends(a, 1)) = m
    BY <1>1, FirstEnd
  <2> QED BY <1>1, <2>1 DEF NameEnd
<1>2. CASE a[1] = "S" /\ m > 1
  <2>1. Ends(a, 2) # {} /\ Min(Ends(a, 2)) = m
    <3>1. \A j \in 2..m : a[j] \in Letter
      OBVIOUS
    <3>2. \A j \in 2..(m - 1) : a[j + 1] \notin HexDigit
      OBVIOUS
    <3> QED BY <1>2, <3>1, <3>2, FirstEnd
  <2> QED BY <1>2, <2>1 DEF NameEnd
<1>3. CASE a[1] = "S" /\ m = 1
  <2>1. Ends(a, 2) = {}
    BY <1>3 DEF Ends
  <2>2. Ends(a, 1) # {} /\ Min(Ends(a, 1)) = m
    BY <1>3, FirstEnd
  <2> QED BY <1>3, <2>1, <2>2 DEF NameEnd
<1> QED
  BY <1>1, <1>2, <1>3

\* The digits are those from k on up to the end, when nothing else follows.
LEMMA AllDigits ==
    ASSUME NEW a, Len(a) \in Nat, NEW k \in 1..Len(a),
           \A j \in k..Len(a) : a[j] \in HexDigit
    PROVE  DigitsFrom(a, k) = SubSeq(a, k, Len(a))
<1> DEFINE run == {j \in k..Len(a) : \A m \in k..j : a[m] \in HexDigit}
<1>1. run = k..Len(a)
  OBVIOUS
<1>2. Max(run) = Len(a)
  <2>1. Len(a) \in run /\ \A y \in run : y <= Len(a)
    BY <1>1
  <2>2. \A x \in run : (\A y \in run : x >= y) => x = Len(a)
    BY <1>1
  <2> HIDE DEF run
  <2>3. \A y \in run : Len(a) >= y
    BY <1>1
  <2> QED BY <2>1, <2>2, <2>3 DEF Max
<1> QED
  BY <1>2 DEF DigitsFrom

\* They begin with the one at k, whatever follows.
LEMMA DigitsBegin ==
    ASSUME NEW S, NEW a \in Seq(S), NEW k \in 1..Len(a), a[k] \in HexDigit
    PROVE  a[k] \in ToSet(DigitsFrom(a, k))
<1> DEFINE run == {j \in k..Len(a) : \A m \in k..j : a[m] \in HexDigit}
           below == {Len(a) - j : j \in run}
<1>1. k \in run
  OBVIOUS
<1>2. below \in SUBSET Nat /\ below # {}
  BY <1>1
<1>3. PICK least \in below : \A y \in below : least <= y
  BY <1>2, LeastNatural
<1>4. PICK top \in run : least = Len(a) - top
  BY <1>3
<1>5. run \subseteq k..Len(a)
  OBVIOUS
<1>6. ASSUME NEW j \in run PROVE j <= top
  <2>1. Len(a) - j \in below
    OBVIOUS
  <2>2. Len(a) - top <= Len(a) - j
    BY <1>3, <1>4, <2>1
  <2>3. j \in Nat /\ top \in Nat /\ Len(a) \in Nat
    BY <1>4, <1>5
  <2> HIDE DEF run, below
  <2> QED BY <2>2, <2>3
<1> HIDE DEF run, below
<1>7. Max(run) \in run
  <2>1. \A y \in run : top >= y
    BY <1>4, <1>5, <1>6
  <2> QED BY <1>4, <2>1 DEF Max
<1>8. Max(run) \in k..Len(a)
  BY <1>5, <1>7
<1>9. DigitsFrom(a, k) = SubSeq(a, k, Max(run))
  BY DEF DigitsFrom, run
<1> HIDE DEF run
<1> DEFINE n == Max(run)
<1>10. n \in k..Len(a)
  BY <1>8
<1> HIDE DEF n
<1>11. Len(SubSeq(a, k, n)) = n - k + 1 /\ SubSeq(a, k, n)[1] = a[k]
  BY <1>10
<1>12. 1 \in DOMAIN SubSeq(a, k, n)
  BY <1>10, <1>11
<1> QED
  BY <1>9, <1>11, <1>12 DEF ToSet, n

\* No decimal digit can be taken for a letter.
LEMMA DecimalDigitsAreNoLetters == DecimalDigit \cap Letter = {}
BY DEF DecimalDigit, Digits, Letter

\* A plain name ends where it should, and all the digits follow.
LEMMA ParseOfPlain ==
    ASSUME NEW d \in Devices, Plain(d), NEW v \in Nat
    PROVE  Parse(Address(d, v)) = [name |-> d, number |-> v]
<1> DEFINE base == BaseOf[d]
           digits == Numeral(v, base)
           a == d \o digits
           n == Len(d)
<1>1. /\ d \in Seq(Letter) /\ n \in 1..4 /\ base \in {10, 16}
      /\ SpecOf(d) \in DeviceSpecs /\ SpecOf(d)[1] = d /\ base = SpecOf(d)[4]
  BY DeviceTypes
<1>2. Spelled(digits, v, base)
  BY <1>1, NumeralSpells
<1>3. digits \in Seq(HexDigit) /\ Len(digits) \in Nat \ {0}
  BY <1>2 DEF Spelled
<1> HIDE DEF base, digits
<1>4. /\ Len(a) = n + Len(digits)
      /\ \A j \in 1..n : a[j] = d[j] /\ a[j] \in Letter
      /\ \A j \in 1..Len(digits) : a[n + j] = digits[j] /\ a[n + j] \in HexDigit
  BY <1>1, <1>3
<1>5. \A j \in (n + 1)..Len(a) : a[j] \in HexDigit
  <2> SUFFICES ASSUME NEW j \in (n + 1)..Len(a) PROVE a[j] \in HexDigit
    OBVIOUS
  <2>1. j - n \in 1..Len(digits) /\ n + (j - n) = j
    BY <1>1, <1>3, <1>4
  <2> QED BY <1>4, <2>1
<1>6. SubSeq(a, 1, n) = d /\ SubSeq(a, n + 1, Len(a)) = digits
  BY <1>1, <1>3
<1>7. a[1] = d[1] /\ n + 1 \in 1..Len(a) /\ a[n + 1] = digits[1] /\ a[n + 1] \in HexDigit
  BY <1>1, <1>3, <1>4, <1>5
<1>8. \A j \in 1..(n - 1) : a[j + 1] \in HexDigit => a[1] = "S" /\ j = 1
  <2> SUFFICES ASSUME NEW j \in 1..(n - 1), a[j + 1] \in HexDigit
               PROVE  a[1] = "S" /\ j = 1
    OBVIOUS
  <2>1. j + 1 \in 1..n /\ j + 1 \in DOMAIN d /\ a[j + 1] = d[j + 1] /\ j + 1 > 1
    BY <1>1, <1>4
  <2> QED BY <1>1, <1>7, <2>1 DEF Plain
<1> HIDE DEF a, n
<1>9. a[1] = "S" => n > 1 \/ a[2] \notin Letter
  <2> SUFFICES ASSUME a[1] = "S", n = 1 PROVE a[2] \notin Letter
    BY <1>1
  <2>1. base = 10
    BY <1>1, <1>7, NamesTheyLeave DEF n
  <2>2. a[2] \in DecimalDigit
    BY <1>2, <1>3, <1>7, <2>1 DEF Spelled
  <2> QED BY <2>2, DecimalDigitsAreNoLetters
<1>10. Len(a) \in Nat /\ n \in Nat /\ 1 <= n /\ n < Len(a)
  BY <1>1, <1>3, <1>4
<1>11. NameEnd(a) = n
  BY <1>4, <1>7, <1>8, <1>9, <1>10, NameEndsThere
<1>12. DigitsFrom(a, n + 1) = digits
  BY <1>5, <1>6, <1>7, <1>10, AllDigits
<1>13. base = 10 => ToSet(digits) \subseteq DecimalDigit
  BY <1>2, <1>3 DEF Spelled, ToSet
<1>14. Number(digits, base) = v
  BY <1>2 DEF Spelled
<1>15. /\ NameEnd(a) # 0
       /\ SubSeq(a, 1, NameEnd(a)) = d
       /\ DigitsFrom(a, NameEnd(a) + 1) = digits
  BY <1>6, <1>10, <1>11, <1>12
<1>16. ~(BaseOf[d] = 10 /\ ~ToSet(digits) \subseteq DecimalDigit)
  BY <1>13 DEF base
<1>17. Number(digits, BaseOf[d]) = v
  BY <1>14 DEF base
<1>18. Parse(a) = [name |-> d, number |-> v]
  BY <1>15, <1>16, <1>17, Zenon DEF Parse
<1> QED
  BY <1>18 DEF a, Address, digits, base


\* A name that is not plain has a first misleading letter.
LEMMA NotPlainMisleads ==
    ASSUME NEW d \in Devices, ~Plain(d)
    PROVE  \E m \in Nat : Misleads(d, m)
<1> DEFINE from == IF d[1] = "S" /\ Len(d) > 1 THEN 2 ELSE 1
           Bad == {k \in DOMAIN d : k > from /\ d[k] \in HexDigit}
<1>1. d \in Seq(Letter) /\ Len(d) \in 1..4 /\ DOMAIN d = 1..Len(d)
  BY DeviceTypes
<1>2. Bad # {} /\ Bad \in SUBSET Nat
  BY <1>1 DEF Plain
<1>3. PICK m \in Bad : \A y \in Bad : m <= y
  BY <1>2, LeastNatural
<1>4. m \in 2..Len(d) /\ d[m] \in HexDigit /\ (d[1] = "S" => m > 2)
  BY <1>1
<1>5. ASSUME NEW j \in 2..(m - 1), d[j] \in HexDigit
      PROVE  d[1] = "S" /\ j = 2
  <2>1. j \notin Bad /\ j \in DOMAIN d
    BY <1>1, <1>3, <1>4
  <2> QED BY <1>5, <2>1
<1> QED
  BY <1>1, <1>4, <1>5 DEF Misleads

\* The name ends before it, and a letter is left in a decimal number.
LEMMA ParseOfOthers ==
    ASSUME NEW d \in Devices, ~Plain(d), NEW v \in Nat
    PROVE  Parse(Address(d, v)) = Invalid
<1> DEFINE digits == Numeral(v, BaseOf[d])
           a == d \o digits
           n == Len(d)
<1>1. d \in Seq(Letter) /\ n \in 1..4 /\ BaseOf[d] \in {10, 16}
  BY DeviceTypes
<1>2. Spelled(digits, v, BaseOf[d])
  BY <1>1, NumeralSpells
<1>3. digits \in Seq(HexDigit) /\ Len(digits) \in Nat \ {0}
  BY <1>2 DEF Spelled
<1> HIDE DEF digits
<1>4. PICK m \in Nat : Misleads(d, m)
  BY NotPlainMisleads
<1>5. m \in 2..n /\ d[m] \in HexDigit /\ (d[1] = "S" => m > 2)
  BY <1>4 DEF Misleads
<1>6. /\ a \in Seq(Letter \cup HexDigit)
      /\ Len(a) = n + Len(digits)
      /\ \A j \in 1..n : a[j] = d[j] /\ a[j] \in Letter
  BY <1>1, <1>3
<1>7. SubSeq(a, 1, m - 1) = SubSeq(d, 1, m - 1)
  BY <1>1, <1>3, <1>5
<1> DEFINE k == m - 1
<1>8. k \in Nat /\ 1 <= k /\ k < Len(a) /\ k + 1 = m /\ Len(a) \in Nat /\ k + 1 \in 1..Len(a)
  BY <1>1, <1>3, <1>5, <1>6
<1>9. a[k + 1] \in HexDigit /\ a[k + 1] \in Letter /\ a[1] = d[1]
  BY <1>1, <1>5, <1>6, <1>8
<1>10. \A j \in 1..k : a[j] \in Letter
  BY <1>1, <1>5, <1>6
<1>11. ASSUME NEW j \in 1..(k - 1), a[j + 1] \in HexDigit
       PROVE  a[1] = "S" /\ j = 1
  <2>1. j + 1 \in 2..(m - 1) /\ j + 1 \in 1..n /\ a[j + 1] = d[j + 1]
    BY <1>1, <1>5, <1>6
  <2> QED BY <1>4, <1>9, <1>11, <2>1 DEF Misleads
<1>12. a[1] = "S" => k > 1 \/ a[2] \notin Letter
  BY <1>5, <1>9
<1>13. SubSeq(a, 1, k) = SubSeq(d, 1, m - 1)
  BY <1>7
<1> HIDE DEF a, n, k
<1>14. NameEnd(a) = k
  BY <1>8, <1>9, <1>10, <1>11, <1>12, NameEndsThere
<1>15. a[k + 1] \in ToSet(DigitsFrom(a, k + 1))
  BY <1>6, <1>8, <1>9, DigitsBegin
<1>16. ~ToSet(DigitsFrom(a, k + 1)) \subseteq DecimalDigit
  BY <1>9, <1>15, DecimalDigitsAreNoLetters
<1>17. SubSeq(a, 1, k) \in Devices => BaseOf[SubSeq(a, 1, k)] = 10
  BY <1>4, <1>13, NameThatIsLeft
<1>18. Parse(a) = Invalid
  BY <1>14, <1>16, <1>17, Zenon DEF Parse
<1> QED
  BY <1>18 DEF a, Address, digits

\* AddressesParse. Every address of a device with a plain name parses into the
\* device and the number it was made of, and every address of another device is
\* refused: for every register number.
THEOREM AddressesParseHolds == Spec => []AddressesParse
<1> DEFINE I == device \in Devices /\ first \in Numbers
<1>1. Init => I
  BY DEF Init
<1>2. I /\ [Next]_vars => I'
  BY DEF Next, PlcWrite, Scan, vars
<1>3. I => AddressesParse
  BY NumbersAssumption, ParseOfPlain, ParseOfOthers DEF AddressesParse, Parsed, Start
<1> QED
  BY <1>1, <1>2, <1>3, PTL DEF Spec

-----------------------------------------------------------------------------
(***************************************************************************)
(* Bytes: packing, joining, and taking numbers out again.                  *)
(***************************************************************************)

\* joined is s followed by t. Byte strings are joined by this name, not by \o:
\* the provers enumerate concatenations when they see one of unknown length.
Follow(s, t, joined) ==
    /\ joined \in Seq(Nat) /\ Len(joined) = Len(s) + Len(t)
    /\ \A i \in 1..Len(s) : joined[i] = s[i]
    /\ \A i \in 1..Len(t) : joined[Len(s) + i] = t[i]

\* Concatenation joins.
LEMMA Joining ==
    ASSUME NEW s \in Seq(Nat), NEW t \in Seq(Nat)
    PROVE  Follow(s, t, s \o t)
BY DEF Follow

\* b is v in two bytes, or in four, the low ones first.
Packs(v, b) ==
    b \in Seq(Nat) /\ Len(b) = 2 /\ b[1] + 256 * b[2] = v

Packs4(v, b) ==
    /\ b \in Seq(Nat) /\ Len(b) = 4
    /\ (b[1] + 256 * b[2]) + 65536 * (b[3] + 256 * b[4]) = v

\* Pack2 and Pack4 do what they are for.
LEMMA Packing ==
    ASSUME NEW v \in Nat
    PROVE  Packs(v, Pack2(v)) /\ Packs4(v, Pack4(v))
<1>1. \A u \in Nat : Packs(u, Pack2(u))
  BY DEF Pack2, Packs
<1>2. Packs4(v, Pack4(v))
  <2> DEFINE lo == v % 65536
             hi == v \div 65536
             p == Pack2(lo)
             q == Pack2(hi)
             pq == p \o q
  <2>1. lo \in Nat /\ hi \in Nat /\ lo + 65536 * hi = v
    OBVIOUS
  <2> HIDE DEF lo, hi
  <2>2. Packs(lo, p) /\ Packs(hi, q)
    BY <1>1, <2>1
  <2> HIDE DEF p, q
  <2>3. Follow(p, q, pq)
    BY <2>2, Joining DEF Packs
  <2>4. Pack4(v) = pq
    BY DEF Pack4, p, q, lo, hi
  <2> HIDE DEF pq
  <2>5. /\ pq \in Seq(Nat) /\ Len(pq) = 4
        /\ pq[1] = p[1] /\ pq[2] = p[2] /\ pq[3] = q[1] /\ pq[4] = q[2]
    BY <2>2, <2>3 DEF Follow, Packs
  <2>6. ASSUME NEW i \in 1..4 PROVE pq[i] \in Nat
    <3>1. pq \in Seq(Nat) /\ i \in 1..Len(pq)
      BY <2>5
    <3> QED BY <3>1, ElementOfSeq
  <2>7. pq[1] + 256 * pq[2] = lo /\ pq[3] + 256 * pq[4] = hi
    BY <2>2, <2>5 DEF Packs
  <2>8. (pq[1] + 256 * pq[2]) + 65536 * (pq[3] + 256 * pq[4]) = v
    BY <2>1, <2>6, <2>7
  <2> QED BY <2>4, <2>5, <2>8 DEF Packs4
<1> QED
  BY <1>1, <1>2

\* The numbers that begin after byte k.
WordAt(frame, k) == frame[k + 1] + 256 * frame[k + 2]
LongAt(frame, k) == WordAt(frame, k) + 65536 * WordAt(frame, k + 2)

\* Unpacking a slice is taking the number at its place.
LEMMA UnpackOfSlice ==
    ASSUME NEW frame \in Seq(Nat), NEW k \in Nat, k + 2 <= Len(frame)
    PROVE  Unpack2(Slice(frame, k, k + 2)) = WordAt(frame, k)
<1> DEFINE b == Slice(frame, k, k + 2)
<1>1. b = SubSeq(frame, k + 1, k + 2) /\ Len(frame) \in Nat
  BY DEF Slice
<1> HIDE DEF b
<1>2. b[1] = frame[k + 1] /\ b[2] = frame[k + 2]
  BY <1>1
<1>3. Unpack2(b) = WordAt(frame, k)
  BY <1>2 DEF Unpack2, WordAt
<1> QED
  BY <1>3 DEF b

\* The same of four bytes.
LEMMA Unpack4OfSlice ==
    ASSUME NEW frame \in Seq(Nat), NEW k \in Nat, k + 4 <= Len(frame)
    PROVE  Unpack4(Slice(frame, k, k + 4)) = LongAt(frame, k)
<1> DEFINE b == Slice(frame, k, k + 4)
           c == Slice(b, 2, 4)
<1>1. /\ b \in Seq(Nat) /\ Len(b) = 4
      /\ b[1] = frame[k + 1] /\ b[2] = frame[k + 2]
      /\ b[3] = frame[k + 3] /\ b[4] = frame[k + 4]
  BY DEF Slice
<1>2. Unpack4(b) = Unpack2(b) + 65536 * Unpack2(c)
  BY DEF Unpack4
<1> HIDE DEF b
<1>3. c[1] = b[3] /\ c[2] = b[4]
  BY <1>1 DEF Slice
<1> HIDE DEF c
<1>4. Unpack4(b) = (b[1] + 256 * b[2]) + 65536 * (b[3] + 256 * b[4])
  BY <1>2, <1>3 DEF Unpack2
<1>5. k + 2 + 1 = k + 3 /\ k + 2 + 2 = k + 4
  OBVIOUS
<1>6. LongAt(frame, k) = (b[1] + 256 * b[2]) + 65536 * (b[3] + 256 * b[4])
  BY <1>1, <1>5 DEF LongAt, WordAt
<1> QED
  BY <1>4, <1>6 DEF b

\* The bytes of the data of a request, by their places in the frame.
DataBytes(command, number, code, payload, data) ==
    /\ data \in Seq(Nat) /\ Len(data) = 12 + Len(payload)
    /\ WordAt(data, 2) = command
    /\ LongAt(data, 6) = number
    /\ WordAt(data, 10) = code
    /\ \A i \in 1..Len(payload) : data[12 + i] = payload[i]

\* DeviceBody puts them there.
LEMMA BodyBytes ==
    ASSUME NEW command \in Nat, NEW number \in Nat, NEW code \in Nat,
           NEW payload \in Seq(Nat)
    PROVE  DataBytes(command, number, code, payload,
                     DeviceBody(command, number, code, payload))
<1> DEFINE a == Pack2(4)
           b == Pack2(command)
           c == Pack2(2)
           d == Pack4(number)
           e == Pack2(code)
           ab == a \o b
           abc == ab \o c
           abcd == abc \o d
           abcde == abcd \o e
           data == abcde \o payload
<1>1. Packs(4, a) /\ Packs(command, b) /\ Packs(2, c) /\ Packs4(number, d) /\ Packs(code, e)
  BY Packing
<1>2. DeviceBody(command, number, code, payload) = data
  BY DEF DeviceBody
<1> HIDE DEF a, b, c, d, e
<1>3. /\ a \in Seq(Nat) /\ Len(a) = 2 /\ b \in Seq(Nat) /\ Len(b) = 2
      /\ c \in Seq(Nat) /\ Len(c) = 2 /\ d \in Seq(Nat) /\ Len(d) = 4
      /\ e \in Seq(Nat) /\ Len(e) = 2
  BY <1>1 DEF Packs, Packs4
<1>4. Follow(a, b, ab)
  BY <1>3, Joining
<1> HIDE DEF ab
<1>5. ab \in Seq(Nat) /\ Len(ab) = 4 /\ ab[3] = b[1] /\ ab[4] = b[2]
  BY <1>3, <1>4 DEF Follow
<1>6. Follow(ab, c, abc)
  BY <1>3, <1>5, Joining
<1> HIDE DEF abc
<1>7. abc \in Seq(Nat) /\ Len(abc) = 6 /\ abc[3] = b[1] /\ abc[4] = b[2]
  BY <1>3, <1>5, <1>6 DEF Follow
<1>8. Follow(abc, d, abcd)
  BY <1>3, <1>7, Joining
<1> HIDE DEF abcd
<1>9. /\ abcd \in Seq(Nat) /\ Len(abcd) = 10 /\ abcd[3] = b[1] /\ abcd[4] = b[2]
      /\ abcd[7] = d[1] /\ abcd[8] = d[2] /\ abcd[9] = d[3] /\ abcd[10] = d[4]
  BY <1>3, <1>7, <1>8 DEF Follow
<1>10. Follow(abcd, e, abcde)
  BY <1>3, <1>9, Joining
<1> HIDE DEF abcde
<1>11. /\ abcde \in Seq(Nat) /\ Len(abcde) = 12 /\ abcde[3] = b[1] /\ abcde[4] = b[2]
       /\ abcde[7] = d[1] /\ abcde[8] = d[2] /\ abcde[9] = d[3] /\ abcde[10] = d[4]
       /\ abcde[11] = e[1] /\ abcde[12] = e[2]
  BY <1>3, <1>9, <1>10 DEF Follow
<1>12. Follow(abcde, payload, data)
  BY <1>11, Joining
<1> HIDE DEF data
<1>13. /\ data \in Seq(Nat) /\ Len(data) = 12 + Len(payload)
       /\ data[3] = b[1] /\ data[4] = b[2]
       /\ data[7] = d[1] /\ data[8] = d[2] /\ data[9] = d[3] /\ data[10] = d[4]
       /\ data[11] = e[1] /\ data[12] = e[2]
       /\ \A i \in 1..Len(payload) : data[12 + i] = payload[i]
  <2>1. data \in Seq(Nat) /\ Len(data) = 12 + Len(payload)
    BY <1>11, <1>12 DEF Follow
  <2>2. \A i \in 1..12 : data[i] = abcde[i]
    BY <1>11, <1>12 DEF Follow
  <2>3. \A i \in 1..Len(payload) : data[12 + i] = payload[i]
    BY <1>11, <1>12 DEF Follow
  <2>4. /\ data[3] = abcde[3] /\ data[4] = abcde[4]
        /\ data[7] = abcde[7] /\ data[8] = abcde[8]
        /\ data[9] = abcde[9] /\ data[10] = abcde[10]
        /\ data[11] = abcde[11] /\ data[12] = abcde[12]
    BY <2>2
  <2> QED BY <1>11, <2>1, <2>3, <2>4
<1>14. DataBytes(command, number, code, payload, data)
  <2>1. /\ data[2 + 1] = b[1] /\ data[2 + 2] = b[2]
        /\ data[6 + 1] = d[1] /\ data[6 + 2] = d[2]
        /\ data[6 + 2 + 1] = d[3] /\ data[6 + 2 + 2] = d[4]
        /\ data[10 + 1] = e[1] /\ data[10 + 2] = e[2]
    BY <1>13
  <2>2. WordAt(data, 2) = command /\ LongAt(data, 6) = number /\ WordAt(data, 10) = code
    BY <1>1, <2>1 DEF Packs, Packs4, WordAt, LongAt
  <2> QED BY <1>13, <2>2 DEF DataBytes
<1> QED
  BY <1>2, <1>14

\* frame is data after the nine bytes of the header.
Frames(data, frame) ==
    /\ frame \in Seq(Nat) /\ Len(frame) = 9 + Len(data)
    /\ \A i \in 1..Len(data) : frame[9 + i] = data[i]

\* AssembleFrame makes such a frame.
LEMMA FrameBytes ==
    ASSUME NEW data \in Seq(Nat)
    PROVE  Frames(data, AssembleFrame(data))
<1> DEFINE p == Pack2(Len(data))
           m == Pack2(1023)
           q == Pack2(80) \o <<0, 255>>
           r == q \o m
           prefix == r \o <<0>>
           head == prefix \o p
           frame == head \o data
<1>1. AssembleFrame(data) = frame
  BY DEF AssembleFrame, RoutingPrefix
<1>2. q \in Seq(Nat) /\ Len(q) = 4
  BY DEF Pack2
<1> HIDE DEF q
<1>3. r \in Seq(Nat) /\ Len(r) = 6
  <2>1. m \in Seq(Nat) /\ Len(m) = 2
    BY DEF Pack2
  <2> HIDE DEF m
  <2>2. Follow(q, m, r)
    BY <1>2, <2>1, Joining
  <2> HIDE DEF r
  <2> QED BY <1>2, <2>1, <2>2 DEF Follow
<1> HIDE DEF r
<1>4. prefix \in Seq(Nat) /\ Len(prefix) = 7
  <2>1. <<0>> \in Seq(Nat) /\ Len(<<0>>) = 1
    OBVIOUS
  <2>2. Follow(r, <<0>>, prefix)
    BY <1>3, <2>1, Joining
  <2> HIDE DEF prefix
  <2> QED BY <1>3, <2>1, <2>2 DEF Follow
<1> HIDE DEF prefix
<1>5. Packs(Len(data), p)
  BY Packing
<1> HIDE DEF p
<1>6. Follow(prefix, p, head)
  BY <1>4, <1>5, Joining DEF Packs
<1> HIDE DEF head
<1>7. head \in Seq(Nat) /\ Len(head) = 9
  BY <1>4, <1>5, <1>6 DEF Follow, Packs
<1>8. Follow(head, data, frame)
  BY <1>7, Joining
<1> HIDE DEF frame
<1> QED
  BY <1>1, <1>7, <1>8 DEF Follow, Frames

-----------------------------------------------------------------------------
(***************************************************************************)
(* What the mock reads out of a request.                                   *)
(***************************************************************************)

\* What the mock reads out of a request.
Asks(command, number, code, payload, frame) ==
    /\ frame \in Seq(Nat) /\ Len(frame) = 21 + Len(payload)
    /\ \A i \in 1..Len(payload) : frame[21 + i] = payload[i]
    /\ Request(frame) = [command |-> command, number |-> number,
                         prefix |-> DevicePrefix(code),
                         points |-> WordAt(payload, 0)]

\* A request asks for what it was made to ask for.
LEMMA FrameAsks ==
    ASSUME NEW command \in Nat, NEW number \in Nat, NEW code \in Nat,
           NEW payload \in Seq(Nat), Len(payload) >= 2
    PROVE  Asks(command, number, code, payload,
                AssembleFrame(DeviceBody(command, number, code, payload)))
<1> DEFINE data == DeviceBody(command, number, code, payload)
           frame == AssembleFrame(data)
           n == Len(payload)
<1>1. DataBytes(command, number, code, payload, data)
  BY BodyBytes
<1> HIDE DEF data, n
<1>2. /\ data \in Seq(Nat) /\ n \in Nat /\ n >= 2 /\ Len(data) = 12 + n
      /\ WordAt(data, 2) = command /\ LongAt(data, 6) = number /\ WordAt(data, 10) = code
      /\ \A i \in 1..n : data[12 + i] = payload[i]
  BY <1>1 DEF DataBytes, n
<1>3. Frames(data, frame)
  BY <1>2, FrameBytes
<1> HIDE DEF frame
<1>4. frame \in Seq(Nat) /\ Len(frame) = 21 + n
  BY <1>2, <1>3 DEF Frames
<1>5. \A i \in 1..(12 + n) : frame[9 + i] = data[i]
  BY <1>2, <1>3 DEF Frames
<1>6. ASSUME NEW i \in 1..n PROVE frame[21 + i] = payload[i]
  <2>1. 12 + i \in 1..(12 + n) /\ 9 + (12 + i) = 21 + i
    BY <1>2
  <2>2. frame[9 + (12 + i)] = data[12 + i]
    BY <1>5, <2>1
  <2> QED BY <1>2, <2>1, <2>2
<1>7. ASSUME NEW k \in Nat, k + 2 <= 12 + n PROVE WordAt(frame, 9 + k) = WordAt(data, k)
  <2>1. /\ k + 1 \in 1..(12 + n) /\ 9 + (k + 1) = 9 + k + 1
        /\ k + 2 \in 1..(12 + n) /\ 9 + (k + 2) = 9 + k + 2
    BY <1>2, <1>7
  <2>2. frame[9 + (k + 1)] = data[k + 1] /\ frame[9 + (k + 2)] = data[k + 2]
    BY <1>5, <2>1
  <2> QED BY <2>1, <2>2 DEF WordAt
<1>8. /\ WordAt(frame, 11) = command
      /\ WordAt(frame, 19) = code
      /\ WordAt(frame, 21) = WordAt(payload, 0)
      /\ LongAt(frame, 15) = number
  <2>1. 2 + 2 <= 12 + n /\ 10 + 2 <= 12 + n /\ 12 + 2 <= 12 + n /\ 6 + 2 <= 12 + n /\ 8 + 2 <= 12 + n
    BY <1>2
  <2>2. WordAt(frame, 9 + 2) = WordAt(data, 2) /\ WordAt(frame, 9 + 10) = WordAt(data, 10)
    BY <1>7, <2>1
  <2>3. WordAt(frame, 9 + 6) = WordAt(data, 6) /\ WordAt(frame, 9 + 8) = WordAt(data, 8)
    BY <1>7, <2>1
  <2>4. LongAt(frame, 15) = LongAt(data, 6)
    <3>1. 9 + 6 = 15 /\ 9 + 8 = 15 + 2 /\ 6 + 2 = 8
      OBVIOUS
    <3> QED BY <2>3, <3>1 DEF LongAt
  <2>5. WordAt(frame, 21) = WordAt(payload, 0)
    <3>1. frame[21 + 1] = payload[0 + 1] /\ frame[21 + 2] = payload[0 + 2]
      BY <1>2, <1>6
    <3> QED BY <3>1 DEF WordAt
  <2> QED BY <1>2, <2>2, <2>4, <2>5
<1>9. /\ Unpack2(Slice(frame, 11, 13)) = WordAt(frame, 11)
      /\ Unpack2(Slice(frame, 19, 21)) = WordAt(frame, 19)
      /\ Unpack2(Slice(frame, 21, 23)) = WordAt(frame, 21)
      /\ Unpack4(Slice(frame, 15, 19)) = LongAt(frame, 15)
  <2>1. /\ 11 + 2 <= Len(frame) /\ 19 + 2 <= Len(frame) /\ 21 + 2 <= Len(frame)
        /\ 15 + 4 <= Len(frame)
    BY <1>2, <1>4
  <2>2. Unpack2(Slice(frame, 11, 11 + 2)) = WordAt(frame, 11)
    BY <1>4, <2>1, UnpackOfSlice
  <2>3. Unpack2(Slice(frame, 19, 19 + 2)) = WordAt(frame, 19)
    BY <1>4, <2>1, UnpackOfSlice
  <2>4. Unpack2(Slice(frame, 21, 21 + 2)) = WordAt(frame, 21)
    BY <1>4, <2>1, UnpackOfSlice
  <2>5. Unpack4(Slice(frame, 15, 15 + 4)) = LongAt(frame, 15)
    BY <1>4, <2>1, Unpack4OfSlice
  <2> QED BY <2>2, <2>3, <2>4, <2>5
<1>10. Request(frame) = [command |-> command, number |-> number,
                         prefix |-> DevicePrefix(code),
                         points |-> WordAt(payload, 0)]
  BY <1>8, <1>9 DEF Request
<1>11. Asks(command, number, code, payload, frame)
  BY <1>4, <1>6, <1>10 DEF Asks, n
<1> QED
  BY <1>11 DEF frame, data

\* A read names its command, first register, device and length.
LEMMA ReadRequestAsks ==
    ASSUME NEW number \in Nat, NEW code \in Nat, NEW points \in Nat,
           NEW frame, frame = ReadRequest(number, code, points)
    PROVE  /\ frame \in Seq(Nat) /\ Len(frame) = 23
           /\ Request(frame) = [command |-> ReadCommand, number |-> number,
                                prefix |-> DevicePrefix(code), points |-> points]
           /\ Understood(frame)
<1> DEFINE payload == Pack2(points)
<1>1. Packs(points, payload)
  BY Packing
<1>2. frame = AssembleFrame(DeviceBody(ReadCommand, number, code, payload))
  BY DEF ReadRequest
<1> HIDE DEF payload
<1>3. payload \in Seq(Nat) /\ Len(payload) = 2 /\ Len(payload) >= 2 /\ ReadCommand \in Nat
  BY <1>1 DEF Packs, ReadCommand
<1>4. Asks(ReadCommand, number, code, payload, frame)
  BY <1>2, <1>3, FrameAsks
<1>5. WordAt(payload, 0) = points
  BY <1>1 DEF Packs, WordAt
<1>6. /\ frame \in Seq(Nat) /\ Len(frame) = 23
      /\ Request(frame) = [command |-> ReadCommand, number |-> number,
                           prefix |-> DevicePrefix(code), points |-> points]
  BY <1>3, <1>4, <1>5 DEF Asks
<1>7. Understood(frame)
  BY <1>6 DEF Understood
<1> QED
  BY <1>6, <1>7

\* A write of a word names its register, one point and the word.
LEMMA WriteRequestAsks ==
    ASSUME NEW number \in Nat, NEW code \in Nat, NEW value \in Nat,
           NEW frame, frame = WriteRequest(number, code, value)
    PROVE  /\ Request(frame) = [command |-> WriteCommand, number |-> number,
                                prefix |-> DevicePrefix(code), points |-> 1]
           /\ Unpack2(Slice(frame, 23, 25)) = value
<1> DEFINE one == Pack2(1)
           word == Pack2(value)
           payload == one \o word
<1>1. Packs(1, one) /\ Packs(value, word)
  BY Packing
<1>2. frame = AssembleFrame(DeviceBody(WriteCommand, number, code, payload))
  BY DEF WriteRequest
<1> HIDE DEF one, word
<1>3. Follow(one, word, payload)
  BY <1>1, Joining DEF Packs
<1> HIDE DEF payload
<1>4. /\ payload \in Seq(Nat) /\ Len(payload) = 4 /\ Len(payload) >= 2 /\ WriteCommand \in Nat
      /\ payload[1] = one[1] /\ payload[2] = one[2]
      /\ payload[3] = word[1] /\ payload[4] = word[2]
  BY <1>1, <1>3 DEF Packs, Follow, WriteCommand
<1>5. WordAt(payload, 0) = 1
  BY <1>1, <1>4 DEF Packs, WordAt
<1>6. Asks(WriteCommand, number, code, payload, frame)
  BY <1>2, <1>4, FrameAsks
<1>7. frame \in Seq(Nat) /\ Len(frame) = 25 /\ \A i \in 1..4 : frame[21 + i] = payload[i]
  BY <1>4, <1>6 DEF Asks
<1>8. frame[23 + 1] = word[1] /\ frame[23 + 2] = word[2]
  <2>1. frame[21 + 3] = payload[3] /\ frame[21 + 4] = payload[4]
    BY <1>7
  <2> QED BY <1>4, <2>1
<1>9. Unpack2(Slice(frame, 23, 23 + 2)) = WordAt(frame, 23)
  <2>1. frame \in Seq(Nat) /\ 23 \in Nat /\ 23 + 2 <= Len(frame)
    BY <1>7
  <2> QED BY <2>1, UnpackOfSlice
<1>10. Unpack2(Slice(frame, 23, 25)) = value
  BY <1>1, <1>8, <1>9 DEF WordAt, Packs
<1> QED
  BY <1>5, <1>6, <1>10 DEF Asks

-----------------------------------------------------------------------------
(***************************************************************************)
(* Answers, and which of them decode.                                      *)
(***************************************************************************)

\* What an answer says of its length and its end code, and its payload.
Answers(length_, endCode, payload, answer) ==
    /\ answer \in Seq(Nat) /\ Len(answer) = 11 + Len(payload)
    /\ DataLength(answer) = length_
    /\ EndCode(answer) = endCode
    /\ \A i \in 1..Len(payload) : answer[11 + i] = payload[i]

\* The answers of the mock: the routing of the request, a length, an end code
\* and a payload.
Assembled(frame, announced, endCode, payload) ==
    ((Slice(frame, 0, 7) \o Pack2(announced)) \o Pack2(endCode)) \o payload

\* Where the decoder finds the length and the end code.
LEMMA FieldsOfAnswer ==
    ASSUME NEW answer \in Seq(Nat), Len(answer) >= 11
    PROVE  DataLength(answer) = WordAt(answer, 7) /\ EndCode(answer) = WordAt(answer, 9)
<1>1. 7 \in Nat /\ 7 + 2 <= Len(answer) /\ 9 \in Nat /\ 9 + 2 <= Len(answer)
  OBVIOUS
<1>2. Unpack2(Slice(answer, 7, 7 + 2)) = WordAt(answer, 7)
  BY <1>1, UnpackOfSlice
<1>3. Unpack2(Slice(answer, 9, 9 + 2)) = WordAt(answer, 9)
  BY <1>1, UnpackOfSlice
<1> QED
  BY <1>2, <1>3 DEF DataLength, EndCode

\* What an answer can be assembled from.
Assemblable(frame, announced, endCode, payload) ==
    /\ frame \in Seq(Nat) /\ Len(frame) >= 7
    /\ announced \in Nat /\ endCode \in Nat /\ payload \in Seq(Nat)

\* An assembled answer says what it was assembled from.
LEMMA AssembledAnswers ==
    ASSUME NEW frame, NEW announced, NEW endCode, NEW payload,
           Assemblable(frame, announced, endCode, payload)
    PROVE  Answers(announced, endCode, payload,
                   Assembled(frame, announced, endCode, payload))
<1> DEFINE head == Slice(frame, 0, 7)
           p == Pack2(announced)
           q == Pack2(endCode)
           hp == head \o p
           hpq == hp \o q
           answer == hpq \o payload
           n == Len(payload)
<1>0. /\ frame \in Seq(Nat) /\ Len(frame) >= 7
      /\ announced \in Nat /\ endCode \in Nat /\ payload \in Seq(Nat)
  BY DEF Assemblable
<1>1. head \in Seq(Nat) /\ Len(head) = 7
  <2>1. frame \in Seq(Nat) /\ Len(frame) >= 7
    BY <1>0
  <2> QED BY <2>1 DEF Slice
<1>2. Packs(announced, p) /\ Packs(endCode, q)
  BY <1>0, Packing
<1>3. Assembled(frame, announced, endCode, payload) = answer
  BY DEF Assembled
<1> HIDE DEF head, p, q, n
<1>4. Follow(head, p, hp)
  BY <1>1, <1>2, Joining DEF Packs
<1> HIDE DEF hp
<1>5. hp \in Seq(Nat) /\ Len(hp) = 9 /\ hp[8] = p[1] /\ hp[9] = p[2]
  <2>1. hp[7 + 1] = p[1] /\ hp[7 + 2] = p[2]
    BY <1>1, <1>2, <1>4 DEF Follow, Packs
  <2> QED BY <1>1, <1>2, <1>4, <2>1 DEF Follow, Packs
<1>6. Follow(hp, q, hpq)
  BY <1>5, <1>2, Joining DEF Packs
<1> HIDE DEF hpq
<1>7. /\ hpq \in Seq(Nat) /\ Len(hpq) = 11
      /\ hpq[8] = p[1] /\ hpq[9] = p[2] /\ hpq[10] = q[1] /\ hpq[11] = q[2]
  <2>1. hpq[9 + 1] = q[1] /\ hpq[9 + 2] = q[2]
    BY <1>5, <1>2, <1>6 DEF Follow, Packs
  <2> QED BY <1>5, <1>2, <1>6, <2>1 DEF Follow, Packs
<1>8. Follow(hpq, payload, answer)
  BY <1>0, <1>7, Joining
<1> HIDE DEF answer
<1>9. n \in Nat /\ answer \in Seq(Nat) /\ Len(answer) = 11 + n
  BY <1>0, <1>7, <1>8 DEF Follow, n
<1>10. \A i \in 1..n : answer[11 + i] = payload[i]
  BY <1>0, <1>7, <1>8 DEF Follow, n
<1>11. \A i \in 1..11 : answer[i] = hpq[i]
  BY <1>7, <1>8 DEF Follow
<1>12. /\ answer[7 + 1] = p[1] /\ answer[7 + 2] = p[2]
       /\ answer[9 + 1] = q[1] /\ answer[9 + 2] = q[2]
  BY <1>7, <1>11
<1>13. WordAt(answer, 7) = announced /\ WordAt(answer, 9) = endCode
  BY <1>2, <1>12 DEF WordAt, Packs
<1>14. DataLength(answer) = announced /\ EndCode(answer) = endCode
  BY <1>9, <1>13, FieldsOfAnswer
<1>15. Answers(announced, endCode, payload, answer)
  BY <1>9, <1>10, <1>14 DEF Answers, n
<1> QED
  BY <1>3, <1>15

\* Packed words are two bytes each, in order, the low one first.
LEMMA PackedBytes ==
    ASSUME NEW words \in Seq(Nat)
    PROVE  /\ Packed(words) \in Seq(Nat)
           /\ Len(Packed(words)) = 2 * Len(words)
           /\ \A n \in 1..Len(words) :
                Packed(words)[2 * n - 1] + 256 * Packed(words)[2 * n] = words[n]
<1> DEFINE N == Len(words)
           b == Packed(words)
<1>1. N \in Nat /\ \A n \in 1..N : words[n] \in Nat
  BY ElementOfSeq
<1> HIDE DEF N
<1>2. b = [i \in 1..(2 * N) |-> Pack2(words[(i + 1) \div 2])[2 - (i % 2)]]
  BY DEF Packed, N
<1> HIDE DEF b
<1>3. ASSUME NEW n \in 1..N
      PROVE  /\ b[2 * n - 1] = words[n] % 256
             /\ b[2 * n] = words[n] \div 256
  <2>1. /\ 2 * n - 1 \in 1..(2 * N) /\ ((2 * n - 1) + 1) \div 2 = n /\ 2 - ((2 * n - 1) % 2) = 1
        /\ 2 * n \in 1..(2 * N) /\ ((2 * n) + 1) \div 2 = n /\ 2 - ((2 * n) % 2) = 2
    BY <1>1
  <2>2. b[2 * n - 1] = Pack2(words[n])[1] /\ b[2 * n] = Pack2(words[n])[2]
    BY <1>2, <2>1
  <2> QED BY <2>2 DEF Pack2
<1>4. ASSUME NEW i \in 1..(2 * N) PROVE b[i] \in Nat
  <2> DEFINE n == (i + 1) \div 2
  <2>1. n \in 1..N /\ (i = 2 * n - 1 \/ i = 2 * n)
    BY <1>1
  <2> HIDE DEF n
  <2>2. words[n] \in Nat
    BY <1>1, <2>1
  <2>3. words[n] % 256 \in Nat /\ words[n] \div 256 \in Nat
    BY <2>2
  <2> QED BY <1>3, <2>1, <2>3
<1>5. b \in Seq(Nat) /\ Len(b) = 2 * N
  <2>1. 2 * N \in Nat
    BY <1>1
  <2>2. b = [i \in 1..(2 * N) |-> b[i]]
    BY <1>2
  <2> QED BY <1>4, <2>1, <2>2
<1>6. ASSUME NEW n \in 1..N PROVE b[2 * n - 1] + 256 * b[2 * n] = words[n]
  <2>1. words[n] \in Nat
    BY <1>1
  <2>2. (words[n] % 256) + 256 * (words[n] \div 256) = words[n]
    BY <2>1
  <2> QED BY <1>3, <2>2
<1> QED
  BY <1>5, <1>6 DEF b, N


\* What the mock holds in the registers from number on.
WordsHeld(store, prefix, number, points) ==
    [i \in 1..points |-> HeldBy(store, Register(prefix, number + i - 1))]

\* The answer to a read carries the words that are held.
LEMMA ReadResponseAnswers ==
    ASSUME NEW number \in Nat, NEW code \in Nat, NEW points \in Nat,
           NEW store, \A r \in DOMAIN store : store[r] \in Nat
    PROVE  LET words == WordsHeld(store, DevicePrefix(code), number, points) IN
           /\ words \in Seq(Nat) /\ Len(words) = points
           /\ Answers(2 + 2 * points, 0, Packed(words),
                      ReadResponse(ReadRequest(number, code, points), store))
<1> DEFINE frame == ReadRequest(number, code, points)
           words == WordsHeld(store, DevicePrefix(code), number, points)
           payload == Packed(words)
<1>1. /\ frame \in Seq(Nat) /\ Len(frame) = 23
      /\ Request(frame) = [command |-> ReadCommand, number |-> number,
                           prefix |-> DevicePrefix(code), points |-> points]
  BY ReadRequestAsks
<1> HIDE DEF frame
<1>2. \A r : HeldBy(store, r) \in Nat
  BY DEF HeldBy
<1>3. words \in Seq(Nat) /\ Len(words) = points
  BY <1>2 DEF WordsHeld
<1>4. ReadResponse(frame, store) = Answer(frame, payload)
  <2> DEFINE registers == RegistersOf(Request(frame))
  <2>1. registers = [i \in 1..points |-> Register(DevicePrefix(code), number + i - 1)]
    BY <1>1 DEF RegistersOf
  <2>2. ReadResponse(frame, store) =
            Answer(frame, Packed([i \in DOMAIN registers |-> HeldBy(store, registers[i])]))
    BY DEF ReadResponse
  <2> HIDE DEF registers
  <2>3. [i \in DOMAIN registers |-> HeldBy(store, registers[i])] = words
    BY <2>1 DEF WordsHeld
  <2> QED BY <2>2, <2>3
<1> HIDE DEF words
<1>5. payload \in Seq(Nat) /\ Len(payload) = 2 * points
  BY <1>3, PackedBytes
<1>6. Assemblable(frame, 2 + 2 * points, 0, payload)
  BY <1>1, <1>5 DEF Assemblable
<1> HIDE DEF payload
<1>7. Answer(frame, payload) = Assembled(frame, 2 + 2 * points, 0, payload)
  BY <1>5 DEF Answer, Assembled
<1>8. Answers(2 + 2 * points, 0, payload, Answer(frame, payload))
  BY <1>6, <1>7, AssembledAnswers
<1> QED
  BY <1>3, <1>4, <1>8 DEF payload, words, frame

\* A write's answer and a refusal carry nothing, and say so.
LEMMA OtherAnswers ==
    ASSUME NEW frame \in Seq(Nat), Len(frame) >= 7
    PROVE  /\ Answers(2, 0, <<>>, WriteResponse(frame))
           /\ Answers(2, 49241, <<>>, ErrorResponse(frame, 49241))
<1> DEFINE none == <<>>
<1>1. none \in Seq(Nat) /\ Len(none) = 0
  OBVIOUS
<1> HIDE DEF none
<1>2. /\ Answers(2, 0, none, Assembled(frame, 2, 0, none))
      /\ Answers(2, 49241, none, Assembled(frame, 2, 49241, none))
  <2>1. Assemblable(frame, 2, 0, none) /\ Assemblable(frame, 2, 49241, none)
    BY <1>1 DEF Assemblable
  <2>2. Answers(2, 0, none, Assembled(frame, 2, 0, none))
    BY <2>1, AssembledAnswers
  <2>3. Answers(2, 49241, none, Assembled(frame, 2, 49241, none))
    BY <2>1, AssembledAnswers
  <2> QED BY <2>2, <2>3
<1> USE DEF none
<1>3. WriteResponse(frame) = Assembled(frame, 2, 0, <<>>)
  BY <1>1 DEF WriteResponse, Answer, Assembled
<1>4. ErrorResponse(frame, 49241) = Assembled(frame, 2, 49241, <<>>)
  <2> DEFINE s == (Slice(frame, 0, 7) \o Pack2(2)) \o Pack2(49241)
  <2>1. s \in Seq(Nat)
    <3>1. Slice(frame, 0, 7) \in Seq(Nat)
      BY DEF Slice
    <3>2. Pack2(2) \in Seq(Nat) /\ Pack2(49241) \in Seq(Nat)
      BY DEF Pack2
    <3> QED BY <3>1, <3>2, ConcatProperties
  <2>2. ErrorResponse(frame, 49241) = s /\ Assembled(frame, 2, 49241, <<>>) = s \o <<>>
    BY DEF ErrorResponse, Assembled
  <2> HIDE DEF s
  <2>3. s \o <<>> = s
    BY <2>1, ConcatEmptySeq
  <2> QED BY <2>2, <2>3
<1> QED
  BY <1>2, <1>3, <1>4

\* An answer with as many words as were asked for gives back those words.
LEMMA AnswerDecodes ==
    ASSUME NEW words \in Seq(Nat), NEW answer, NEW points \in Nat, Len(words) = points,
           Answers(2 + 2 * points, 0, Packed(words), answer)
    PROVE  Decodable(answer, points) /\ WordsOf(answer, points) = words
<1> DEFINE payload == Packed(words)
<1>1. /\ payload \in Seq(Nat) /\ Len(payload) = 2 * points
      /\ \A n \in 1..points : payload[2 * n - 1] + 256 * payload[2 * n] = words[n]
  BY PackedBytes
<1> HIDE DEF payload
<1>2. /\ answer \in Seq(Nat) /\ Len(answer) = 11 + 2 * points
      /\ DataLength(answer) = 2 + 2 * points /\ EndCode(answer) = 0
      /\ \A i \in 1..(2 * points) : answer[11 + i] = payload[i]
  BY <1>1 DEF Answers, payload
<1>3. Decodable(answer, points)
  BY <1>2 DEF Decodable
<1>4. ASSUME NEW n \in 1..points
      PROVE  Unpack2(Slice(answer, 9 + 2 * n, 11 + 2 * n)) = words[n]
  <2> DEFINE k == 9 + 2 * n
  <2>1. /\ k \in Nat /\ k + 2 = 11 + 2 * n /\ k + 2 <= Len(answer)
        /\ k + 1 = 11 + (2 * n - 1) /\ k + 2 = 11 + 2 * n
        /\ 2 * n - 1 \in 1..(2 * points) /\ 2 * n \in 1..(2 * points)
    BY <1>2
  <2> HIDE DEF k
  <2>2. answer[k + 1] = payload[2 * n - 1] /\ answer[k + 2] = payload[2 * n]
    BY <1>2, <2>1
  <2>3. Unpack2(Slice(answer, k, k + 2)) = WordAt(answer, k)
    BY <1>2, <2>1, UnpackOfSlice
  <2>4. WordAt(answer, k) = words[n]
    BY <1>1, <2>2 DEF WordAt
  <2> QED BY <2>1, <2>3, <2>4 DEF k
<1>5. WordsOf(answer, points) = [n \in 1..points |-> words[n]]
  BY <1>4 DEF WordsOf
<1>6. words = [n \in 1..points |-> words[n]]
  OBVIOUS
<1> QED
  BY <1>3, <1>5, <1>6

\* What is announced is what is compared, with the length of what came and with
\* what was asked for.
LEMMA OthersDoNotDecode ==
    ASSUME NEW points \in Nat \ {0}, NEW length_, NEW endCode, NEW payload, NEW answer,
           Answers(length_, endCode, payload, answer),
           endCode # 0 \/ length_ # 2 + 2 * points
    PROVE  ~Decodable(answer, points)
BY DEF Answers, Decodable

\* A piece of an answer is shorter than it announces, and two answers are
\* longer.
LEMMA PiecesDoNotDecode ==
    ASSUME NEW points \in Nat \ {0}, NEW proper \in Seq(Nat),
           Len(proper) = 11 + 2 * points, DataLength(proper) = 2 + 2 * points
    PROVE  /\ ~Decodable(proper \o proper, points)
           /\ \A n \in {10, 12, Len(proper) - 1} : ~Decodable(SubSeq(proper, 1, n), points)
<1>1. WordAt(proper, 7) = 2 + 2 * points
  BY FieldsOfAnswer
<1>2. ~Decodable(proper \o proper, points)
  <2> DEFINE twice == proper \o proper
  <2>1. Follow(proper, proper, twice)
    BY Joining
  <2> HIDE DEF twice
  <2>2. twice \in Seq(Nat) /\ Len(twice) = 22 + 4 * points
    BY <2>1 DEF Follow
  <2>3. \A i \in 1..9 : twice[i] = proper[i]
    BY <2>1 DEF Follow
  <2>4. twice[7 + 1] = proper[7 + 1] /\ twice[7 + 2] = proper[7 + 2]
    BY <2>3
  <2>5. DataLength(twice) = WordAt(twice, 7)
    BY <2>2, FieldsOfAnswer
  <2>6. DataLength(twice) = 2 + 2 * points
    BY <1>1, <2>4, <2>5 DEF WordAt
  <2> QED BY <2>2, <2>6 DEF Decodable, twice
<1>3. ASSUME NEW n \in {10, 12, Len(proper) - 1} PROVE ~Decodable(SubSeq(proper, 1, n), points)
  <2> DEFINE piece == SubSeq(proper, 1, n)
  <2>1. n \in 1..Len(proper) /\ n # Len(proper)
    OBVIOUS
  <2>2. piece \in Seq(Nat) /\ Len(piece) = n /\ \A i \in 1..n : piece[i] = proper[i]
    BY <2>1
  <2> HIDE DEF piece
  <2>3. CASE n < 11
    BY <2>2, <2>3 DEF Decodable, piece
  <2>4. CASE ~(n < 11)
    <3>1. piece[7 + 1] = proper[7 + 1] /\ piece[7 + 2] = proper[7 + 2]
      BY <2>1, <2>2, <2>4
    <3>2. DataLength(piece) = WordAt(piece, 7)
      BY <2>1, <2>2, <2>4, FieldsOfAnswer
    <3>3. DataLength(piece) = 2 + 2 * points
      BY <1>1, <3>1, <3>2 DEF WordAt
    <3> QED BY <2>1, <2>2, <3>3 DEF Decodable, piece
  <2> QED BY <2>3, <2>4
<1> QED
  BY <1>2, <1>3

-----------------------------------------------------------------------------
(***************************************************************************)
(* The invariant: the memory holds what was meant, unless a word was       *)
(* misplaced, and what is published is what the words it holds spell.      *)
(***************************************************************************)

\* The mock's prefix for the registers of the entry, and the words it holds for
\* them.
Prefix == DevicePrefix(CodeOf[device])
HeldWord(k) == memory[Register(Prefix, first + k)]
HeldWords == [n \in 1..length |-> HeldWord(n - 1)]

\* What a scan shows when the words that came are the ones the mock holds.
Shown ==
    LET values == ScanAs(type, length, Decode(SizeOf[device], HeldWords)) IN
    IF DecodesDevice(SizeOf[device])
    THEN {[topic |-> TopicOf(k), value |-> values[k]] : k \in DOMAIN values}
    ELSE {}

\* What an entry can be read as.
ReadAs == {"BIT", "BIT_R", "WORD", "UWORD", "DWORD", "FLOAT", "unknown"}

\* The type invariant, with what the variables that do not change are.
EntryType ==
    /\ device \in Devices
    /\ first \in Numbers
    /\ length \in 1..MaxLength
    /\ type \in ReadAs
    /\ DOMAIN meant = 0..(RegisterCount - 1)
    /\ misplaced \in BOOLEAN

\* The mock holds a word for each of the entry's registers and for no others.
MemoryHolds ==
    Made => /\ DOMAIN memory = {Register(Prefix, first + k) : k \in 0..(length - 1)}
            /\ \A k \in 0..(length - 1) : HeldWord(k) \in Word

\* As long as no word is misplaced, they are the words that plc_write was told
\* to write, and their bits.
MeantIsHeld ==
    Made /\ ~misplaced => \A n \in 0..(RegisterCount - 1) : meant[n] = HeldFor(n)

\* The last answer published what the words that are held spell.
PublishedAsHeld ==
    /\ heard # "answer" => published = {}
    /\ heard = "answer" => Made /\ published = Shown

\* The inductive invariant.
EInv == EntryType /\ MemoryHolds /\ MeantIsHeld /\ PublishedAsHeld

\* A word is a natural number.
LEMMA WordsAreNatural == Word \subseteq Nat
BY DEF Word, WordRange

\* What the assumptions make of the variables that do not change.
LEMMA Constants ==
    ASSUME EntryType
    PROVE  /\ first \in Nat /\ length \in Nat \ {0} /\ CodeOf[device] \in Nat
           /\ RegisterCount \in Nat /\ length <= RegisterCount
<1>1. first \in Nat /\ length \in Nat \ {0}
  BY NumbersAssumption, MaxLengthAssumption DEF EntryType
<1>2. CodeOf[device] \in Nat
  BY DeviceTypes DEF EntryType
<1>3. RegisterCount \in Nat /\ length <= RegisterCount
  BY <1>1 DEF RegisterCount, Width, W
<1> QED
  BY <1>1, <1>2, <1>3

\* The words the mock holds are words.
LEMMA HeldTypes ==
    ASSUME EntryType, MemoryHolds, Made
    PROVE  /\ \A k \in 0..(length - 1) : HeldWord(k) \in Word /\ HeldWord(k) \in Nat
           /\ HeldWords \in Seq(Word) /\ HeldWords \in Seq(Nat) /\ Len(HeldWords) = length
           /\ \A k \in 1..length : HeldWords[k] = HeldWord(k - 1)
<1>1. length \in Nat
  BY Constants
<1>2. ASSUME NEW k \in 0..(length - 1) PROVE HeldWord(k) \in Word /\ HeldWord(k) \in Nat
  <2>1. HeldWord(k) \in Word
    BY DEF MemoryHolds
  <2> QED BY <2>1, WordsAreNatural
<1>3. ASSUME NEW k \in 1..length PROVE k - 1 \in 0..(length - 1)
  BY <1>1
<1>4. HeldWords \in [1..length -> Word] /\ HeldWords \in [1..length -> Nat]
  BY <1>2, <1>3 DEF HeldWords
<1>5. HeldWords \in Seq(Word) /\ HeldWords \in Seq(Nat) /\ Len(HeldWords) = length
  BY <1>1, <1>4 DEF HeldWords
<1>6. \A k \in 1..length : HeldWords[k] = HeldWord(k - 1)
  BY DEF HeldWords
<1> QED
  BY <1>2, <1>5, <1>6

\* An entry that could be made has a plain name.
LEMMA MadeParses ==
    ASSUME device \in Devices, first \in Nat, Made
    PROVE  Plain(device) /\ Parsed = [name |-> device, number |-> first]
BY ParseOfPlain, ParseOfOthers DEF Made, Parsed, Start

\* The address of register k of the entry names that register.
LEMMA AddressOfRegister ==
    ASSUME device \in Devices, first \in Nat, Plain(device), NEW k \in Nat
    PROVE  /\ AddressAdd(Start, k) = Address(device, first + k)
           /\ Parse(AddressAdd(Start, k)) = [name |-> device, number |-> first + k]
<1>1. Parse(Start) = [name |-> device, number |-> first]
  BY ParseOfPlain DEF Start
<1>2. AddressAdd(Start, k) = Address(device, first + k)
  BY <1>1 DEF AddressAdd
<1>3. first + k \in Nat
  OBVIOUS
<1> QED
  BY <1>2, <1>3, ParseOfPlain

\* The mock reads out of the entry's request the registers it is for.
LEMMA Requested ==
    ASSUME EntryType, Made, NEW points \in Nat,
           NEW frame, frame = RequestOf(points)
    PROVE  /\ frame = ReadRequest(first, CodeOf[device], points)
           /\ frame \in Seq(Nat) /\ Len(frame) = 23 /\ Understood(frame)
           /\ RegistersOf(Request(frame)) =
                [i \in 1..points |-> Register(Prefix, first + i - 1)]
<1>1. first \in Nat /\ CodeOf[device] \in Nat
  BY Constants
<1>2. frame = ReadRequest(first, CodeOf[device], points)
  BY <1>1, MadeParses DEF RequestOf, EntryType
<1>3. /\ frame \in Seq(Nat) /\ Len(frame) = 23 /\ Understood(frame)
      /\ Request(frame) = [command |-> ReadCommand, number |-> first,
                           prefix |-> Prefix, points |-> points]
  BY <1>1, <1>2, ReadRequestAsks DEF Prefix
<1> QED
  BY <1>2, <1>3 DEF RegistersOf

\* The word a register belongs to is one of the entry's.
LEMMA WordOfRegister ==
    ASSUME EntryType, NEW n \in 0..(RegisterCount - 1)
    PROVE  WordFor(n) \in 0..(length - 1) /\ n \in Nat
<1>1. length \in Nat \ {0} /\ RegisterCount \in Nat
  BY Constants
<1>2. n \in Nat
  BY <1>1
<1>3. CASE IsBits
  <2>1. RegisterCount = 16 * length
    BY <1>3 DEF RegisterCount, Width, W
  <2>2. n \div 16 \in 0..(length - 1)
    BY <1>1, <1>2, <2>1
  <2> QED BY <1>2, <1>3, <2>2 DEF WordFor, W
<1>4. CASE ~IsBits
  <2>1. RegisterCount = length
    BY <1>1, <1>4 DEF RegisterCount, Width
  <2> QED BY <1>2, <1>4, <2>1 DEF WordFor
<1> QED
  BY <1>3, <1>4

\* The bits of 0 are 0.
LEMMA NothingOfZero ==
    ASSUME NEW i \in 0..(W - 1)
    PROVE  Bit(0, i) = 0
<1> DEFINE p == Powers[i + 1]
<1>1. p \in Nat \ {0}
  BY DEF Powers, W
<1> HIDE DEF p
<1>2. 0 \div p = 0
  BY <1>1
<1> QED
  BY <1>2 DEF Bit, p

\* The mock's memory starts as it is meant to be.
LEMMA EntryInit == Init => EInv
<1> SUFFICES ASSUME Init PROVE EInv
  OBVIOUS
<1>1. EntryType
  <2>1. device \in Devices /\ first \in Numbers /\ length \in 1..MaxLength
    BY DEF Init
  <2>2. type \in ReadAs
    BY DEF Init, TypeOf, GivenTypes, EnumBit, ReadAs
  <2>3. DOMAIN meant = 0..(RegisterCount - 1) /\ misplaced \in BOOLEAN
    BY DEF Init
  <2> QED BY <2>1, <2>2, <2>3 DEF EntryType
<1>2. ASSUME Made
      PROVE  /\ DOMAIN memory = {Register(Prefix, first + k) : k \in 0..(length - 1)}
             /\ \A k \in 0..(length - 1) : HeldWord(k) = 0
  <2>1. first \in Nat /\ length \in Nat \ {0}
    BY <1>1, Constants
  <2>2. Covered = ToSet([i \in 1..length |-> Register(Prefix, first + i - 1)])
    BY <1>1, <1>2, <2>1, Requested DEF Covered
  <2>3. Covered = {Register(Prefix, first + k) : k \in 0..(length - 1)}
    <3>1. Covered = {Register(Prefix, first + i - 1) : i \in 1..length}
      BY <2>2 DEF ToSet
    <3>2. ASSUME NEW i \in 1..length PROVE i - 1 \in 0..(length - 1) /\ first + i - 1 = first + (i - 1)
      BY <2>1
    <3>3. ASSUME NEW k \in 0..(length - 1) PROVE k + 1 \in 1..length /\ first + (k + 1) - 1 = first + k
      BY <2>1
    <3> QED BY <3>1, <3>2, <3>3
  <2>4. memory = [r \in Covered |-> 0]
    BY <1>2 DEF Init
  <2> QED BY <2>3, <2>4 DEF HeldWord
<1>3. MemoryHolds
  <2>1. 0 \in Word
    BY DEF Word, WordRange
  <2> QED BY <1>2, <2>1 DEF MemoryHolds
<1>4. MeantIsHeld
  <2> SUFFICES ASSUME Made, NEW n \in 0..(RegisterCount - 1) PROVE meant[n] = HeldFor(n)
    BY DEF MeantIsHeld
  <2>1. WordFor(n) \in 0..(length - 1) /\ n \in Nat
    BY <1>1, WordOfRegister
  <2>2. HeldFor(n) = Part(0, n % W)
    BY <1>2, <2>1 DEF HeldFor, HeldWord, Prefix
  <2>3. n % W \in 0..(W - 1)
    BY <2>1 DEF W
  <2>4. Part(0, n % W) = 0
    BY <2>3, NothingOfZero DEF Part
  <2> QED BY <2>2, <2>4 DEF Init
<1>5. PublishedAsHeld
  BY DEF Init, PublishedAsHeld
<1> QED
  BY <1>1, <1>5, <1>3, <1>4 DEF EInv

\* plc_write changes the register it was told to, and no other: the names the
\* mock gives the registers of an entry are all different.
LEMMA EntryWrite == EInv /\ PlcWrite => EInv'
<1> SUFFICES ASSUME EInv, PlcWrite PROVE EInv'
  OBVIOUS
<1>1. EntryType /\ MemoryHolds /\ MeantIsHeld /\ Made
  BY DEF EInv, PlcWrite
<1>2. /\ first \in Nat /\ length \in Nat \ {0} /\ CodeOf[device] \in Nat
      /\ device \in Devices /\ Plain(device)
  BY <1>1, Constants, MadeParses DEF EntryType
<1>3. UNCHANGED <<device, first, length, type>> /\ heard' = "nothing" /\ published' = {}
  BY DEF PlcWrite
<1> DEFINE Meant(k, v) ==
                [n \in DOMAIN meant |->
                    IF n \in k..(k + Width - 1) THEN Part(v, n - k) ELSE meant[n]]
<1>4. PICK k \in Targets \cap 0..(RegisterCount - 1), v \in SomeWords :
        LET target == Parse(AddressAdd(Start, k))
            frame == WriteRequest(target.number, CodeOf[target.name], v)
        IN  /\ memory' = Written(frame, memory)
            /\ meant' = Meant(k, v)
            /\ misplaced' = (misplaced \/ (IsBits /\ k # 0))
  BY DEF PlcWrite
<1>5. k \in Nat /\ first + k \in Nat /\ v \in Word /\ v \in Nat
  <2>1. k \in Nat
    BY TargetsAssumption
  <2>4. first + k \in Nat
    BY <1>2, <2>1
  <2>2. v \in Word
    BY SomeWordsAssumption
  <2>3. v \in Nat
    BY <2>2, WordsAreNatural
  <2> QED BY <2>1, <2>2, <2>3, <2>4
<1> HIDE DEF Meant
<1> DEFINE frame == WriteRequest(first + k, CodeOf[device], v)
<1>6. memory' = Written(frame, memory) /\ meant' = Meant(k, v)
      /\ misplaced' = (misplaced \/ (IsBits /\ k # 0))
  <2>1. Parse(AddressAdd(Start, k)) = [name |-> device, number |-> first + k]
    BY <1>2, <1>5, AddressOfRegister
  <2> QED BY <1>4, <2>1
<1>7. /\ Request(frame) = [command |-> WriteCommand, number |-> first + k,
                           prefix |-> Prefix, points |-> 1]
      /\ Unpack2(Slice(frame, 23, 25)) = v
  BY <1>2, <1>5, WriteRequestAsks DEF Prefix
<1> HIDE DEF frame
<1>8. memory' = [r \in DOMAIN memory |-> IF r = Register(Prefix, first + k) THEN v ELSE memory[r]]
  <2> DEFINE registers == RegistersOf(Request(frame))
  <2>1. registers = [i \in 1..1 |-> Register(Prefix, first + k)]
    <3>1. registers = [i \in 1..1 |-> Register(Prefix, first + k + i - 1)]
      BY <1>7 DEF RegistersOf
    <3>2. \A i \in 1..1 : first + k + i - 1 = first + k
      BY <1>5
    <3> QED BY <3>1, <3>2
  <2>2. memory' = [r \in DOMAIN memory |->
                    IF \E i \in DOMAIN registers : registers[i] = r
                    THEN Unpack2(Slice(frame, 21 + 2 * (CHOOSE i \in DOMAIN registers : registers[i] = r),
                                       23 + 2 * (CHOOSE i \in DOMAIN registers : registers[i] = r)))
                    ELSE memory[r]]
    BY <1>6 DEF Written
  <2> HIDE DEF registers
  <2>3. ASSUME NEW r
        PROVE  /\ (\E i \in DOMAIN registers : registers[i] = r) <=> r = Register(Prefix, first + k)
               /\ r = Register(Prefix, first + k) =>
                    (CHOOSE i \in DOMAIN registers : registers[i] = r) = 1
    BY <2>1
  <2>4. 21 + 2 * 1 = 23 /\ 23 + 2 * 1 = 25
    OBVIOUS
  <2> QED BY <1>7, <2>2, <2>3, <2>4
<1>9. /\ Prefix' = Prefix /\ IsBits' = IsBits /\ Width' = Width
      /\ RegisterCount' = RegisterCount
      /\ \A n : WordFor(n)' = WordFor(n)
  BY <1>3 DEF Prefix, IsBits, Width, RegisterCount, WordFor
<1>10. EntryType'
  <2>1. DOMAIN meant' = 0..(RegisterCount - 1)
    BY <1>1, <1>6 DEF EntryType, Meant
  <2>2. misplaced' \in BOOLEAN
    BY <1>6, Zenon
  <2> QED BY <1>1, <1>3, <1>9, <2>1, <2>2 DEF EntryType
<1>11. \A j \in 0..(length - 1) : HeldWord(j)' = IF j = k THEN v ELSE HeldWord(j)
  <2> SUFFICES ASSUME NEW j \in 0..(length - 1)
               PROVE  HeldWord(j)' = IF j = k THEN v ELSE HeldWord(j)
    OBVIOUS
  <2>1. Register(Prefix, first + j) = Register(Prefix, first + k) <=> j = k
    BY <1>2, <1>5 DEF Register
  <2>2. Register(Prefix, first + j) \in DOMAIN memory
    BY <1>1 DEF MemoryHolds
  <2> QED BY <1>3, <1>8, <1>9, <2>1, <2>2 DEF HeldWord
<1>12. MemoryHolds'
  <2>1. DOMAIN memory = {Register(Prefix, first + j) : j \in 0..(length - 1)}
    BY <1>1 DEF MemoryHolds
  <2>2. DOMAIN memory' = DOMAIN memory
    BY <1>8
  <2>3. \A j \in 0..(length - 1) : HeldWord(j)' \in Word
    BY <1>1, <1>5, <1>11 DEF MemoryHolds
  <2> QED BY <1>3, <1>9, <2>1, <2>2, <2>3 DEF MemoryHolds
<1>13. MeantIsHeld'
  <2> SUFFICES ASSUME ~misplaced', NEW n \in 0..(RegisterCount - 1)
               PROVE  meant'[n] = HeldFor(n)'
    BY <1>9 DEF MeantIsHeld
  <2>1. ~misplaced /\ (IsBits => k = 0)
    BY <1>6
  <2>2. meant[n] = HeldFor(n) /\ WordFor(n) \in 0..(length - 1) /\ n \in Nat
    BY <1>1, <2>1, WordOfRegister DEF MeantIsHeld
  <2>3. PICK w \in 0..(length - 1) : w = WordFor(n)
    BY <2>2
  <2>4. HeldFor(n) = Part(HeldWord(w), n % W)
    BY <2>3 DEF HeldFor, HeldWord, Prefix
  <2>5. HeldFor(n)' = Part(HeldWord(w)', n % W)
    BY <1>3, <1>9, <2>3 DEF HeldFor, HeldWord, Prefix, Part
  <2>6. meant'[n] = IF n \in k..(k + Width - 1) THEN Part(v, n - k) ELSE meant[n]
    BY <1>1, <1>6 DEF EntryType, Meant
  <2>7. HeldWord(w)' = IF w = k THEN v ELSE HeldWord(w)
    BY <1>11
  <2>8. CASE IsBits
    <3>1. k = 0 /\ Width = 16 /\ w = n \div 16
      BY <2>1, <2>3, <2>8 DEF Width, WordFor, W
    <3>2. n \in k..(k + Width - 1) <=> w = k
      BY <2>2, <3>1
    <3>3. n \in k..(k + Width - 1) => n - k = n % W
      BY <2>2, <3>1 DEF W
    <3>4. CASE w = k
      BY <2>5, <2>6, <2>7, <3>2, <3>3, <3>4
    <3>5. CASE w # k
      BY <2>2, <2>4, <2>5, <2>6, <2>7, <3>2, <3>5
    <3> QED BY <3>4, <3>5
  <2>9. CASE ~IsBits
    <3>1. Width = 1 /\ w = n
      BY <2>3, <2>9 DEF Width, WordFor
    <3>2. n \in k..(k + Width - 1) <=> w = k
      BY <1>5, <2>2, <3>1
    <3>3. \A u, i, j : Part(u, i) = Part(u, j)
      BY <2>9 DEF Part
    <3>4. CASE w = k
      BY <2>5, <2>6, <2>7, <3>2, <3>3, <3>4
    <3>5. CASE w # k
      BY <2>2, <2>4, <2>5, <2>6, <2>7, <3>2, <3>5
    <3> QED BY <3>4, <3>5
  <2> QED BY <2>8, <2>9
<1>14. PublishedAsHeld'
  BY <1>3 DEF PublishedAsHeld
<1> QED
  BY <1>10, <1>14, <1>12, <1>13 DEF EInv


\* The answer to the entry's read carries the words that are held.
LEMMA ProperAnswers ==
    ASSUME EntryType, MemoryHolds, Made
    PROVE  /\ HeldWords \in Seq(Nat) /\ Len(HeldWords) = length
           /\ Answers(2 + 2 * length, 0, Packed(HeldWords), Proper)
<1>1. /\ first \in Nat /\ length \in Nat \ {0} /\ CodeOf[device] \in Nat
      /\ HeldWords \in Seq(Nat) /\ Len(HeldWords) = length
  BY Constants, HeldTypes
<1>2. /\ DOMAIN memory = {Register(Prefix, first + k) : k \in 0..(length - 1)}
      /\ \A k \in 0..(length - 1) :
            memory[Register(Prefix, first + k)] = HeldWord(k) /\ HeldWord(k) \in Nat
  BY HeldTypes DEF MemoryHolds, HeldWord
<1>3. \A r \in DOMAIN memory : memory[r] \in Nat
  BY <1>2
<1>4. WordsHeld(memory, Prefix, first, length) = HeldWords
  <2>1. ASSUME NEW i \in 1..length
        PROVE  HeldBy(memory, Register(Prefix, first + i - 1)) = HeldWord(i - 1)
    <3>1. i - 1 \in 0..(length - 1) /\ first + i - 1 = first + (i - 1)
      BY <1>1
    <3>2. Register(Prefix, first + i - 1) \in DOMAIN memory
      BY <1>2, <3>1
    <3> QED BY <1>2, <3>1, <3>2 DEF HeldBy
  <2> QED BY <2>1 DEF WordsHeld, HeldWords
<1>5. Proper = ReadResponse(ReadRequest(first, CodeOf[device], length), memory)
  BY <1>1, Requested DEF Proper
<1> QED
  BY <1>1, <1>3, <1>4, <1>5, ReadResponseAnswers DEF Prefix

\* What comes in the place of the answer does not decode.
LEMMA OnlyTheAnswerDecodes ==
    ASSUME EntryType, MemoryHolds, Made, NEW reply \in Replies
    PROVE  \/ reply.kind = "answer" /\ reply.bytes = Proper
           \/ reply.kind = "other" /\ ~Decodable(reply.bytes, length)
<1>1. first \in Nat /\ length \in Nat \ {0} /\ CodeOf[device] \in Nat
  BY Constants
<1> DEFINE frame == RequestOf(length)
           payload == Packed(HeldWords)
           longer == ReadResponse(RequestOf(length + 1), memory)
<1>2. frame \in Seq(Nat) /\ Len(frame) >= 7
  <2>1. frame \in Seq(Nat) /\ Len(frame) = 23
    BY <1>1, Requested
  <2> HIDE DEF frame
  <2> QED BY <2>1
<1>3. /\ ~Decodable(WriteResponse(frame), length)
      /\ ~Decodable(ErrorResponse(frame, 49241), length)
  <2>1. Answers(2, 0, <<>>, WriteResponse(frame)) /\ Answers(2, 49241, <<>>, ErrorResponse(frame, 49241))
    BY <1>2, OtherAnswers
  <2>2. 2 # 2 + 2 * length /\ 49241 # 0
    BY <1>1
  <2> QED BY <1>1, <2>1, <2>2, OthersDoNotDecode
<1>4. ~Decodable(longer, length)
  <2> DEFINE points == length + 1
             words == WordsHeld(memory, DevicePrefix(CodeOf[device]), first, points)
  <2>1. \A r \in DOMAIN memory : memory[r] \in Nat
    BY HeldTypes DEF MemoryHolds, HeldWord
  <2>2. points \in Nat /\ 2 + 2 * points # 2 + 2 * length
    BY <1>1
  <2>3. longer = ReadResponse(ReadRequest(first, CodeOf[device], points), memory)
    BY <1>1, <2>2, Requested
  <2> HIDE DEF points, longer
  <2>4. Answers(2 + 2 * points, 0, Packed(words), longer)
    BY <1>1, <2>1, <2>2, <2>3, ReadResponseAnswers
  <2> HIDE DEF words
  <2> QED BY <1>1, <2>2, <2>4, OthersDoNotDecode DEF longer
<1>5. Proper \in Seq(Nat) /\ Len(Proper) = 11 + 2 * length /\ DataLength(Proper) = 2 + 2 * length
  <2>1. Answers(2 + 2 * length, 0, payload, Proper) /\ HeldWords \in Seq(Nat) /\ Len(HeldWords) = length
    BY ProperAnswers
  <2>2. Len(payload) = 2 * length
    BY <2>1, PackedBytes
  <2> HIDE DEF payload
  <2> QED BY <2>1, <2>2 DEF Answers
<1>6. /\ ~Decodable(Proper \o Proper, length)
      /\ \A n \in {10, 12, Len(Proper) - 1} : ~Decodable(SubSeq(Proper, 1, n), length)
  BY <1>1, <1>5, PiecesDoNotDecode
<1> DEFINE Kind(k, b) == [kind |-> k, bytes |-> b]
           refusal == ErrorResponse(frame, 49241)
           written == WriteResponse(frame)
           twice == Proper \o Proper
           Places == {10, 12, Len(Proper) - 1}
           Piece(n) == SubSeq(Proper, 1, n)
<1>7. reply \in {Kind("answer", Proper), Kind("other", refusal), Kind("other", written),
                 Kind("other", longer), Kind("other", twice)}
                \cup {Kind("other", Piece(n)) : n \in Places}
  BY DEF Replies
<1>8. /\ ~Decodable(refusal, length) /\ ~Decodable(written, length)
      /\ ~Decodable(longer, length) /\ ~Decodable(twice, length)
      /\ \A n \in Places : ~Decodable(Piece(n), length)
  BY <1>3, <1>4, <1>6
<1>9. \A k, b : Kind(k, b).kind = k /\ Kind(k, b).bytes = b
  OBVIOUS
<1> HIDE DEF frame, longer, Kind, refusal, written, twice, Places, Piece
<1>10. \/ reply = Kind("answer", Proper)
       \/ \E b : reply = Kind("other", b) /\ ~Decodable(b, length)
  BY <1>7, <1>8
<1> QED
  BY <1>9, <1>10

\* Only plc_write touches what the invariant says of the memory.
LEMMA EntryStays ==
    ASSUME EntryType, MemoryHolds, MeantIsHeld,
           UNCHANGED <<device, first, length, type, memory, meant, misplaced>>
    PROVE  /\ Shown' = Shown /\ EntryType' /\ MemoryHolds' /\ MeantIsHeld'
           /\ Made' = Made
<1>1. /\ Prefix' = Prefix /\ Made' = Made /\ RegisterCount' = RegisterCount
      /\ HeldWords' = HeldWords
      /\ \A k : HeldWord(k)' = HeldWord(k) /\ HeldFor(k)' = HeldFor(k)
  BY DEF Prefix, Made, Parsed, Start, RegisterCount, Width, IsBits, HeldWords, HeldWord,
         HeldFor, WordFor, Part
<1>2. Shown' = Shown
  BY <1>1 DEF Shown, TopicOf, Start
<1>3. EntryType'
  BY <1>1 DEF EntryType
<1>4. MemoryHolds'
  BY <1>1 DEF MemoryHolds
<1>5. MeantIsHeld'
  BY <1>1 DEF MeantIsHeld
<1> QED
  BY <1>1, <1>2, <1>3, <1>4, <1>5

\* A scan publishes what they spell, or nothing.
LEMMA EntryScan == EInv /\ Scan => EInv'
<1> SUFFICES ASSUME EInv, Scan PROVE EInv'
  OBVIOUS
<1>1. EntryType /\ MemoryHolds /\ MeantIsHeld /\ Made
  BY DEF EInv, Scan
<1>2. UNCHANGED <<device, first, length, type, memory, meant, misplaced>>
  BY DEF Scan
<1>3. Shown' = Shown /\ EntryType' /\ MemoryHolds' /\ MeantIsHeld' /\ Made'
  BY <1>1, <1>2, EntryStays
<1> DEFINE Values(reply) == ScanAs(type, length, Decode(SizeOf[device], WordsOf(reply.bytes, length)))
<1>5. PICK reply \in Replies :
        /\ heard' = reply.kind
        /\ published' =
            IF Decodable(reply.bytes, length) /\ DecodesDevice(SizeOf[device])
            THEN {[topic |-> TopicOf(k), value |-> Values(reply)[k]] : k \in DOMAIN Values(reply)}
            ELSE {}
  BY DEF Scan
<1>6. PublishedAsHeld'
  <2>1. CASE reply.kind = "answer" /\ reply.bytes = Proper
    <3>1. Decodable(Proper, length) /\ WordsOf(Proper, length) = HeldWords
      <4>1. /\ HeldWords \in Seq(Nat) /\ Len(HeldWords) = length
            /\ Answers(2 + 2 * length, 0, Packed(HeldWords), Proper)
        BY <1>1, ProperAnswers
      <4>2. length \in Nat
        BY <1>1, Constants
      <4> QED BY <4>1, <4>2, AnswerDecodes
    <3>2. published' = Shown
      BY <1>5, <2>1, <3>1 DEF Shown
    <3> QED BY <1>1, <1>3, <1>5, <2>1, <3>2 DEF PublishedAsHeld
  <2>2. CASE reply.kind = "other" /\ ~Decodable(reply.bytes, length)
    BY <1>5, <2>2 DEF PublishedAsHeld
  <2> QED BY <1>1, <2>1, <2>2, OnlyTheAnswerDecodes
<1> QED
  BY <1>3, <1>6 DEF EInv

\* EInv is an invariant.
LEMMA EntryInvariant == Spec => []EInv
<1>1. EInv /\ UNCHANGED vars => EInv'
  <2> SUFFICES ASSUME EInv, UNCHANGED vars PROVE EInv'
    OBVIOUS
  <2>1. /\ device' = device /\ first' = first /\ length' = length /\ type' = type
        /\ memory' = memory /\ meant' = meant /\ misplaced' = misplaced
        /\ heard' = heard /\ published' = published
    BY DEF vars
  <2>2. /\ Shown' = Shown /\ EntryType' /\ MemoryHolds' /\ MeantIsHeld'
        /\ Made' = Made
    BY <2>1, EntryStays DEF EInv
  <2>3. PublishedAsHeld'
    BY <2>1, <2>2 DEF EInv, PublishedAsHeld
  <2> QED BY <2>2, <2>3 DEF EInv
<1>2. EInv /\ [Next]_vars => EInv'
  BY <1>1, EntryWrite, EntryScan DEF Next
<1> QED
  BY <1>2, EntryInit, PTL DEF Spec

\* OnlyFromItsAnswer. decode_response refuses whatever is not the answer to
\* the read: a refusal, the answer to a write or to a read of another length, a
\* piece of an answer, two of them: for entries of every length.
THEOREM OnlyFromItsAnswerHolds == Spec => []OnlyFromItsAnswer
<1>1. EInv => OnlyFromItsAnswer
  BY DEF EInv, PublishedAsHeld, OnlyFromItsAnswer
<1> QED
  BY <1>1, EntryInvariant, PTL

-----------------------------------------------------------------------------
(***************************************************************************)
(* What the held words spell: every value of its register.                 *)
(***************************************************************************)

\* A bit is 0 or 1.
LEMMA BitIsOne ==
    ASSUME NEW w \in Nat, NEW i \in 0..(W - 1)
    PROVE  Bit(w, i) \in {0, 1}
<1> DEFINE p == Powers[i + 1]
<1>1. p \in Nat \ {0}
  BY DEF Powers, W
<1> HIDE DEF p
<1>2. w \div p \in Nat
  BY <1>1
<1>3. (w \div p) % 2 \in {0, 1}
  BY <1>2
<1> QED
  BY <1>3 DEF Bit, p

\* The words of a word device, and the bits of a bit device, are as they are
\* held, and that is what is due.
LEMMA DecodedAsDue ==
    ASSUME EntryType, MemoryHolds, MeantIsHeld, Made, DecodesDevice(SizeOf[device])
    PROVE  LET values == Decode(SizeOf[device], HeldWords) IN
           /\ values \in Seq(Word) /\ Len(values) = RegisterCount
           /\ \A n \in 0..(RegisterCount - 1) : values[n + 1] = Due(n)
           /\ RegisterCount \in Nat /\ length <= RegisterCount
<1> DEFINE values == Decode(SizeOf[device], HeldWords)
<1>1. length \in Nat \ {0} /\ \A k \in 0..(length - 1) : HeldWord(k) \in Word /\ HeldWord(k) \in Nat
  BY Constants, HeldTypes
<1>2. /\ HeldWords \in Seq(Word) /\ Len(HeldWords) = length
      /\ \A k \in 1..length : HeldWords[k] = HeldWord(k - 1)
  BY HeldTypes
<1>3. \A n \in 0..(RegisterCount - 1) : Due(n) = HeldFor(n)
  BY DEF Due, MeantIsHeld
<1>4. CASE SizeOf[device] = "BIT"
  <2> DEFINE N == W * length
             word(j) == (j - 1) \div W
             bit(j) == (j - 1) % W
  <2>1. N \in Nat /\ RegisterCount = N /\ length <= N
    BY <1>1, <1>4 DEF RegisterCount, Width, IsBits, W
  <2>2. Len(HeldWords) = length
    BY <1>2
  <2>3. values = [j \in 1..N |-> Bit(HeldWords[word(j) + 1], bit(j))]
    BY <1>4, <2>2 DEF Decode
  <2>4. ASSUME NEW j \in 1..N
        PROVE  word(j) \in 0..(length - 1) /\ word(j) + 1 \in 1..length /\ bit(j) \in 0..(W - 1)
    BY <1>1 DEF W
  <2> HIDE DEF word, bit, N, values
  <2>5. ASSUME NEW j \in 1..N
        PROVE  values[j] = Bit(HeldWord(word(j)), bit(j)) /\ values[j] \in Word
    <3>1. HeldWords[word(j) + 1] = HeldWord((word(j) + 1) - 1) /\ (word(j) + 1) - 1 = word(j)
      BY <1>1, <1>2, <2>4
    <3>2. values[j] = Bit(HeldWord(word(j)), bit(j))
      BY <2>3, <3>1
    <3>3. Bit(HeldWord(word(j)), bit(j)) \in {0, 1}
      BY <1>1, <2>4, BitIsOne
    <3>4. {0, 1} \subseteq Word
      BY DEF Word, WordRange
    <3> QED BY <3>2, <3>3, <3>4
  <2>6. values \in Seq(Word) /\ Len(values) = N
    BY <2>1, <2>3, <2>5
  <2>7. ASSUME NEW n \in 0..(N - 1) PROVE values[n + 1] = Due(n)
    <3>1. n + 1 \in 1..N /\ word(n + 1) = n \div W /\ bit(n + 1) = n % W
      BY <2>1 DEF word, bit
    <3>2. HeldFor(n) = Bit(HeldWord(n \div W), n % W)
      BY <1>4 DEF HeldFor, HeldWord, Prefix, WordFor, Part, IsBits
    <3> QED BY <1>3, <2>1, <2>5, <3>1, <3>2
  <2> QED BY <2>1, <2>6, <2>7 DEF values
<1>5. CASE SizeOf[device] # "BIT"
  <2>1. values = HeldWords /\ RegisterCount = length
    BY <1>1, <1>5 DEF Decode, RegisterCount, Width, IsBits
  <2>2. ASSUME NEW n \in 0..(length - 1) PROVE HeldWords[n + 1] = Due(n)
    <3>1. n + 1 \in 1..length /\ (n + 1) - 1 = n
      BY <1>1
    <3>2. HeldFor(n) = HeldWord(n)
      BY <1>5 DEF HeldFor, HeldWord, Prefix, WordFor, Part, IsBits
    <3> QED BY <1>2, <1>3, <2>1, <3>1, <3>2
  <2> HIDE DEF values
  <2> QED BY <1>1, <1>2, <2>1, <2>2 DEF values
<1> QED
  BY <1>4, <1>5

\* Signed gives back the word modulo 2^16, and the sign of its top bit.
LEMMA SignedWord ==
    ASSUME NEW v \in Word
    PROVE  /\ Signed(v) \in Int
           /\ Signed(v) % WordRange = v
           /\ Signed(v) < 0 <=> v >= SignBit
<1>1. v \in Nat /\ v < 65536
  BY DEF Word, WordRange
<1>2. CASE v < 32768
  <2>1. Signed(v) = v
    BY <1>2 DEF Signed, SignBit
  <2> QED BY <1>1, <1>2, <2>1 DEF WordRange, SignBit
<1>3. CASE ~(v < 32768)
  <2>1. Signed(v) = v - 65536
    BY <1>3 DEF Signed, SignBit, WordRange
  <2>2. (v - 65536) % 65536 = v
    BY <1>1
  <2> QED BY <1>1, <1>3, <2>1, <2>2 DEF WordRange, SignBit
<1> QED
  BY <1>2, <1>3

\* DoubleWord gives back both words, and the sign of the upper one.
LEMMA SignedDoubleWord ==
    ASSUME NEW lo \in Word, NEW hi \in Word
    PROVE  /\ DoubleWord(lo, hi) % WordRange = lo
           /\ (DoubleWord(lo, hi) \div WordRange) % WordRange = hi
           /\ DoubleWord(lo, hi) < 0 <=> hi >= SignBit
<1> DEFINE s == Signed(hi)
           d == lo + s * 65536
<1>1. s \in Int /\ s % WordRange = hi /\ (s < 0 <=> hi >= SignBit)
  BY SignedWord
<1>2. DoubleWord(lo, hi) = d
  BY DEF DoubleWord, WordRange
<1> HIDE DEF s
<1>3. lo \in Nat /\ lo < 65536
  BY DEF Word, WordRange
<1>4. d % 65536 = lo
  BY <1>1, <1>3
<1>5. d \div 65536 = s
  BY <1>1, <1>3
<1>6. d < 0 <=> s < 0
  BY <1>1, <1>3
<1> HIDE DEF d
<1> QED
  BY <1>1, <1>2, <1>4, <1>5, <1>6 DEF WordRange


\* The keys of what a type makes of N values.
SingleKeys(N) == {Key(n) : n \in 0..(N - 1)}
PairKeys(N) == {Key(2 * n) : n \in 0..(N \div 2 - 1)}
BitKeys == {[n |-> n, bit |-> i] : n \in 0..(length - 1), i \in 0..(W - 1)}
KeysShown ==
    CASE type \in {"BIT", "WORD", "UWORD"} -> SingleKeys(RegisterCount)
      [] type \in {"DWORD", "FLOAT"} -> PairKeys(RegisterCount)
      [] type = "BIT_R" -> BitKeys

\* SignKept, for one value of the register n.
Negative(value, n) ==
    /\ type = "WORD" => (value < 0 <=> Due(n) >= SignBit)
    /\ type = "DWORD" => (value < 0 <=> Due(n + 1) >= SignBit)

\* A word is what is left of it modulo 2^16.
LEMMA WordKeeps ==
    ASSUME NEW w \in Word
    PROVE  w % WordRange = w
<1>1. w \in Nat /\ w < 65536
  BY DEF Word, WordRange
<1>2. w % 65536 = w
  BY <1>1
<1> QED
  BY <1>2 DEF WordRange

\* Each value that is shown spells the registers of its key.
LEMMA ShownSpells ==
    ASSUME EntryType, MemoryHolds, MeantIsHeld, Made, DecodesDevice(SizeOf[device]),
           type # "unknown"
    PROVE  LET values == ScanAs(type, length, Decode(SizeOf[device], HeldWords)) IN
           /\ DOMAIN values = KeysShown
           /\ \A k \in KeysShown :
                /\ k.n \in 0..(RegisterCount - 1)
                /\ Spells(values[k], k.n, k.bit)
                /\ Negative(values[k], k.n)
<1> DEFINE words == Decode(SizeOf[device], HeldWords)
           values == ScanAs(type, length, words)
           N == RegisterCount
<1>1. /\ words \in Seq(Word) /\ Len(words) = N /\ N \in Nat /\ length <= N
      /\ \A n \in 0..(N - 1) : words[n + 1] = Due(n)
  BY DecodedAsDue
<1>2. ASSUME NEW n \in 0..(N - 1) PROVE words[n + 1] = Due(n) /\ Due(n) \in Word
  <2>1. n + 1 \in 1..Len(words)
    BY <1>1
  <2>2. words[n + 1] \in Word
    BY <1>1, <2>1, ElementOfSeq
  <2> QED BY <1>1, <2>2
<1>3. length \in Nat \ {0} /\ type \in ReadAs
  BY Constants DEF EntryType
<1> HIDE DEF words, N
<1>4. CASE type \in {"BIT", "WORD", "UWORD"}
  <2>1. values = Single(type, words) /\ KeysShown = SingleKeys(N)
    BY <1>4 DEF ScanAs, KeysShown, N
  <2>2. DOMAIN values = SingleKeys(N)
    BY <1>1, <2>1 DEF Single, SingleKeys
  <2>3. ASSUME NEW k \in SingleKeys(N)
        PROVE  k.n \in 0..(N - 1) /\ Spells(values[k], k.n, k.bit) /\ Negative(values[k], k.n)
    <3>1. PICK n \in 0..(N - 1) : k = Key(n)
      BY DEF SingleKeys
    <3>2. k.n = n
      BY <3>1 DEF Key
    <3>3. values[k] = IF type = "WORD" THEN Signed(words[n + 1]) ELSE words[n + 1]
      BY <1>1, <2>1, <3>2 DEF Single, SingleKeys
    <3>4. words[n + 1] = Due(n) /\ Due(n) \in Word
      BY <1>2
    <3>5. values[k] % WordRange = Due(n) /\ Negative(values[k], n)
      <4>1. CASE type = "WORD"
        BY <3>3, <3>4, <4>1, SignedWord DEF Negative
      <4>2. CASE type # "WORD"
        <5>1. Due(n) % WordRange = Due(n)
          BY <3>4, WordKeeps
        <5> QED BY <1>4, <3>3, <3>4, <4>2, <5>1 DEF Negative
      <4> QED BY <4>1, <4>2
    <3>6. Spells(values[k], n, k.bit)
      BY <1>4, <3>5 DEF Spells
    <3> QED BY <3>2, <3>5, <3>6
  <2> HIDE DEF values
  <2> QED BY <2>1, <2>2, <2>3 DEF N, values, words
<1>5. CASE type \in {"DWORD", "FLOAT"}
  <2>1. values = Pairs(type, words) /\ KeysShown = PairKeys(N)
    BY <1>5 DEF ScanAs, KeysShown, N
  <2>2. DOMAIN values = PairKeys(N)
    BY <1>1, <2>1 DEF Pairs, PairKeys
  <2>3. ASSUME NEW k \in PairKeys(N)
        PROVE  k.n \in 0..(N - 1) /\ Spells(values[k], k.n, k.bit) /\ Negative(values[k], k.n)
    <3>1. PICK m \in 0..(N \div 2 - 1) : k = Key(2 * m)
      BY DEF PairKeys
    <3> DEFINE n == 2 * m
    <3>2. k.n = n
      BY <3>1 DEF Key
    <3>3. n \in 0..(N - 1) /\ n + 1 \in 0..(N - 1) /\ n + 2 = (n + 1) + 1
      BY <1>1
    <3> HIDE DEF n
    <3>4. values[k] = IF type = "DWORD"
                      THEN DoubleWord(words[n + 1], words[n + 2])
                      ELSE <<words[n + 1], words[n + 2]>>
      BY <1>1, <2>1, <3>2 DEF Pairs, PairKeys
    <3>5. /\ words[n + 1] = Due(n) /\ Due(n) \in Word
          /\ words[n + 2] = Due(n + 1) /\ Due(n + 1) \in Word
      BY <1>2, <3>3
    <3>6. CASE type = "DWORD"
      <4>1. values[k] = DoubleWord(Due(n), Due(n + 1))
        BY <3>4, <3>5, <3>6
      <4>2. /\ values[k] % WordRange = Due(n)
            /\ (values[k] \div WordRange) % WordRange = Due(n + 1)
            /\ values[k] < 0 <=> Due(n + 1) >= SignBit
        BY <3>5, <4>1, SignedDoubleWord
      <4> QED BY <3>2, <3>3, <3>6, <4>2 DEF Spells, Negative
    <3>7. CASE type = "FLOAT"
      BY <3>2, <3>3, <3>4, <3>5, <3>7 DEF Spells, Negative
    <3> QED BY <1>5, <3>6, <3>7
  <2> HIDE DEF values
  <2> QED BY <2>1, <2>2, <2>3 DEF N, values, words
<1>6. CASE type = "BIT_R"
  <2>1. values = Bits(words, length) /\ KeysShown = BitKeys
    BY <1>6 DEF ScanAs, KeysShown
  <2>2. DOMAIN values = BitKeys
    BY <2>1 DEF Bits, BitKeys
  <2>3. ASSUME NEW k \in BitKeys
        PROVE  k.n \in 0..(N - 1) /\ Spells(values[k], k.n, k.bit) /\ Negative(values[k], k.n)
    <3>1. k.n \in 0..(length - 1)
      BY DEF BitKeys
    <3>2. k.n \in 0..(N - 1)
      BY <1>1, <1>3, <3>1
    <3>3. values[k] = Bit(words[k.n + 1], k.bit)
      BY <2>1 DEF Bits, BitKeys
    <3>4. words[k.n + 1] = Due(k.n)
      BY <1>2, <3>2
    <3> QED BY <1>6, <3>2, <3>3, <3>4 DEF Spells, Negative
  <2> HIDE DEF values
  <2> QED BY <2>1, <2>2, <2>3 DEF N, values, words
<1> QED
  BY <1>3, <1>4, <1>5, <1>6 DEF ReadAs

\* An entry of an unknown type shows nothing.
LEMMA UnknownShowsNothing ==
    ASSUME type = "unknown"
    PROVE  Shown = {}
BY DEF Shown, ScanAs

\* A value that is published under an address is the one of the register that
\* this address names.
LEMMA PublishedOfItsKey ==
    ASSUME EInv, NEW p \in published
    PROVE  \E k \in KeysShown :
                /\ p.topic = TopicOf(k)
                /\ k.n \in 0..(RegisterCount - 1)
                /\ Spells(p.value, k.n, k.bit)
                /\ Negative(p.value, k.n)
                /\ Parse(p.topic.address) = [name |-> device, number |-> first + k.n]
                /\ p.topic.bit = k.bit
<1> DEFINE values == ScanAs(type, length, Decode(SizeOf[device], HeldWords))
<1>1. EntryType /\ MemoryHolds /\ MeantIsHeld /\ Made /\ p \in Shown
  BY DEF EInv, PublishedAsHeld
<1>2. DecodesDevice(SizeOf[device]) /\ \E k \in DOMAIN values : p = [topic |-> TopicOf(k), value |-> values[k]]
  BY <1>1 DEF Shown
<1>3. type # "unknown"
  BY <1>1, UnknownShowsNothing
<1>4. /\ DOMAIN values = KeysShown
      /\ \A k \in KeysShown :
            /\ k.n \in 0..(RegisterCount - 1)
            /\ Spells(values[k], k.n, k.bit)
            /\ Negative(values[k], k.n)
  BY <1>1, <1>2, <1>3, ShownSpells
<1> HIDE DEF values
<1>5. PICK k \in KeysShown : p = [topic |-> TopicOf(k), value |-> values[k]]
  BY <1>2, <1>4
<1>6. p.topic.address = AddressAdd(Start, k.n) /\ p.topic.bit = k.bit
  BY <1>5 DEF TopicOf
<1>7. k.n \in Nat
  BY <1>4
<1>8. Parse(p.topic.address) = [name |-> device, number |-> first + k.n]
  <2>1. device \in Devices /\ first \in Nat /\ Plain(device)
    BY <1>1, Constants, MadeParses DEF EntryType
  <2> QED BY <1>6, <1>7, <2>1, AddressOfRegister
<1> QED
  BY <1>4, <1>5, <1>6, <1>8

\* ValueOfItsRegister. What scan_as_* publishes under a topic is what plc_write
\* wrote to the register that the topic addresses, through the frames of
\* slmp.py, the mock's memory and the conversion: for every word, every length,
\* every register number, every device and every type; for a bit device that a
\* word was written to behind its first register, it is what the mock holds for
\* the word that the gateway takes the register from.
THEOREM ValueOfItsRegisterHolds == Spec => []ValueOfItsRegister
<1>1. EInv => ValueOfItsRegister
  <2> SUFFICES ASSUME EInv, NEW p \in published
               PROVE  LET named == Parse(p.topic.address)
                          n == named.number - first
                      IN  /\ named.name = device
                          /\ n \in 0..(RegisterCount - 1)
                          /\ Spells(p.value, n, p.topic.bit)
    BY DEF ValueOfItsRegister
  <2>1. PICK k \in KeysShown :
            /\ k.n \in 0..(RegisterCount - 1)
            /\ Spells(p.value, k.n, k.bit)
            /\ Parse(p.topic.address) = [name |-> device, number |-> first + k.n]
            /\ p.topic.bit = k.bit
    BY PublishedOfItsKey
  <2>2. first \in Nat
    BY Constants DEF EInv
  <2>3. (first + k.n) - first = k.n
    BY <2>1, <2>2
  <2> QED BY <2>1, <2>3
<1> QED
  BY <1>1, EntryInvariant, PTL

\* SignKept. unpack("h") and unpack("i") of what the PLC sent are negative
\* exactly when the top bit of the (upper) word is set: for every word.
THEOREM SignKeptHolds == Spec => []SignKept
<1>1. EInv => SignKept
  <2> SUFFICES ASSUME EInv, type \in {"WORD", "DWORD"}, NEW p \in published
               PROVE  LET n == Parse(p.topic.address).number - first
                          top == IF type = "WORD" THEN n ELSE n + 1
                      IN  p.value < 0 <=> Due(top) >= SignBit
    BY DEF SignKept
  <2>1. PICK k \in KeysShown :
            /\ k.n \in 0..(RegisterCount - 1)
            /\ Negative(p.value, k.n)
            /\ Parse(p.topic.address) = [name |-> device, number |-> first + k.n]
    BY PublishedOfItsKey
  <2>2. first \in Nat
    BY Constants DEF EInv
  <2>3. (first + k.n) - first = k.n
    BY <2>1, <2>2
  <2> QED BY <2>1, <2>3 DEF Negative
<1> QED
  BY <1>1, EntryInvariant, PTL

-----------------------------------------------------------------------------
(***************************************************************************)
(* How many topics there are.                                              *)
(***************************************************************************)

\* A set has as many elements as there are numbers that name them.
LEMMA AsManyAsNumbers ==
    ASSUME NEW N \in Nat, NEW S, NEW f \in [1..N -> S],
           \A s \in S : \E i \in 1..N : f[i] = s,
           \A i, j \in 1..N : f[i] = f[j] => i = j
    PROVE  Cardinality(S) = N
<1>1. f \in Bijection(1..N, S)
  BY DEF Bijection, Injection, Surjection, IsInjective
<1> QED
  BY <1>1, FS_CountingElements DEF ExistsBijection

\* The i-th key of what is shown.
KeyNumbered(i) ==
    CASE type \in {"BIT", "WORD", "UWORD"} -> Key(i - 1)
      [] type \in {"DWORD", "FLOAT"} -> Key(2 * (i - 1))
      [] type = "BIT_R" -> [n |-> (i - 1) \div W, bit |-> (i - 1) % W]

\* The number of registers of an entry is a number.
LEMMA CountOfRegisters ==
    ASSUME EntryType
    PROVE  RegisterCount \in Nat
<1>1. length \in Nat
  BY Constants
<1> QED
  BY <1>1 DEF RegisterCount, Width, W

\* The keys are numbered from 1 to TopicsExpected, each but once.
LEMMA KeysAreNumbered ==
    ASSUME EntryType, type # "unknown"
    PROVE  /\ TopicsExpected \in Nat
           /\ \A i \in 1..TopicsExpected : KeyNumbered(i) \in KeysShown
           /\ \A k \in KeysShown : \E i \in 1..TopicsExpected : KeyNumbered(i) = k
           /\ \A i, j \in 1..TopicsExpected :
                KeyNumbered(i).n = KeyNumbered(j).n /\ KeyNumbered(i).bit = KeyNumbered(j).bit
                    => i = j
<1> DEFINE N == RegisterCount
<1>1. N \in Nat /\ length \in Nat /\ type \in ReadAs
  BY CountOfRegisters, Constants DEF EntryType
<1> HIDE DEF N
<1>2. CASE type \in {"BIT", "WORD", "UWORD"}
  <2>1. TopicsExpected = N /\ KeysShown = {Key(n) : n \in 0..(N - 1)}
    BY <1>2 DEF TopicsExpected, KeysShown, SingleKeys, N
  <2>2. \A i : KeyNumbered(i) = Key(i - 1)
    BY <1>2 DEF KeyNumbered
  <2>3. ASSUME NEW i \in 1..N PROVE i - 1 \in 0..(N - 1)
    BY <1>1
  <2>4. ASSUME NEW n \in 0..(N - 1) PROVE n + 1 \in 1..N /\ (n + 1) - 1 = n
    BY <1>1
  <2>5. ASSUME NEW i \in 1..N, NEW j \in 1..N, Key(i - 1).n = Key(j - 1).n PROVE i = j
    BY <1>1, <2>5 DEF Key
  <2>6. ASSUME NEW k \in KeysShown PROVE \E i \in 1..N : KeyNumbered(i) = k
    BY <2>1, <2>2, <2>4
  <2> QED BY <1>1, <2>1, <2>2, <2>3, <2>5, <2>6
<1>3. CASE type \in {"DWORD", "FLOAT"}
  <2> DEFINE H == N \div 2
  <2>1. TopicsExpected = H /\ KeysShown = {Key(2 * n) : n \in 0..(H - 1)} /\ H \in Nat
    BY <1>1, <1>3 DEF TopicsExpected, KeysShown, PairKeys, N
  <2> HIDE DEF H
  <2>2. \A i : KeyNumbered(i) = Key(2 * (i - 1))
    BY <1>3 DEF KeyNumbered
  <2>3. ASSUME NEW i \in 1..H PROVE i - 1 \in 0..(H - 1)
    BY <2>1
  <2>4. ASSUME NEW n \in 0..(H - 1) PROVE n + 1 \in 1..H /\ (n + 1) - 1 = n
    BY <2>1
  <2>5. ASSUME NEW i \in 1..H, NEW j \in 1..H, Key(2 * (i - 1)).n = Key(2 * (j - 1)).n
        PROVE  i = j
    BY <2>1, <2>5 DEF Key
  <2>6. ASSUME NEW k \in KeysShown PROVE \E i \in 1..H : KeyNumbered(i) = k
    BY <2>1, <2>2, <2>4
  <2> QED BY <2>1, <2>2, <2>3, <2>5, <2>6
<1>4. CASE type = "BIT_R"
  <2> DEFINE M == W * length
             word(i) == (i - 1) \div W
             bit(i) == (i - 1) % W
  <2>1. TopicsExpected = M /\ KeysShown = BitKeys /\ M \in Nat
    BY <1>1, <1>4 DEF TopicsExpected, KeysShown, W
  <2>2. \A i : KeyNumbered(i) = [n |-> word(i), bit |-> bit(i)]
    BY <1>4 DEF KeyNumbered
  <2>3. ASSUME NEW i \in 1..M
        PROVE  word(i) \in 0..(length - 1) /\ bit(i) \in 0..(W - 1) /\ i = word(i) * W + bit(i) + 1
    BY <1>1 DEF W
  <2>4. ASSUME NEW n \in 0..(length - 1), NEW b \in 0..(W - 1)
        PROVE  \E i \in 1..M : word(i) = n /\ bit(i) = b
    <3> DEFINE i == n * W + b + 1
    <3>1. i \in 1..M /\ word(i) = n /\ bit(i) = b
      BY <1>1 DEF W
    <3> QED BY <3>1
  <2> HIDE DEF M, word, bit
  <2>5. ASSUME NEW k \in KeysShown PROVE \E i \in 1..M : KeyNumbered(i) = k
    <3>1. PICK n \in 0..(length - 1), b \in 0..(W - 1) : k = [n |-> n, bit |-> b]
      BY <2>1 DEF BitKeys
    <3>2. PICK i \in 1..M : word(i) = n /\ bit(i) = b
      BY <2>4
    <3> QED BY <2>2, <3>1, <3>2
  <2>6. ASSUME NEW i \in 1..M PROVE KeyNumbered(i) \in KeysShown
    BY <2>1, <2>2, <2>3 DEF BitKeys
  <2>7. ASSUME NEW i \in 1..M, NEW j \in 1..M,
               KeyNumbered(i).n = KeyNumbered(j).n, KeyNumbered(i).bit = KeyNumbered(j).bit
        PROVE  i = j
    <3>1. word(i) = word(j) /\ bit(i) = bit(j)
      BY <2>2, <2>7
    <3> QED BY <2>3, <3>1
  <2> QED BY <2>1, <2>5, <2>6, <2>7
<1> QED
  BY <1>1, <1>2, <1>3, <1>4 DEF ReadAs

\* Two keys with one topic are one key.
LEMMA TopicsApart ==
    ASSUME EntryType, Made, NEW j, NEW k, j.n \in Nat, k.n \in Nat, TopicOf(j) = TopicOf(k)
    PROVE  j.n = k.n /\ j.bit = k.bit
<1>1. device \in Devices /\ first \in Nat /\ Plain(device)
  BY Constants, MadeParses DEF EntryType
<1>2. AddressAdd(Start, j.n) = AddressAdd(Start, k.n) /\ j.bit = k.bit
  BY DEF TopicOf
<1>3. first + j.n = first + k.n
  <2>1. /\ Parse(AddressAdd(Start, j.n)) = [name |-> device, number |-> first + j.n]
        /\ Parse(AddressAdd(Start, k.n)) = [name |-> device, number |-> first + k.n]
    BY <1>1, AddressOfRegister
  <2> QED BY <1>2, <2>1
<1> QED
  BY <1>1, <1>2, <1>3

\* EveryRegisterPublished. A scan that publishes anything publishes as many
\* topics as the entry has values, no two values under one topic, however long
\* the entry is and wherever it starts.
THEOREM EveryRegisterPublishedHolds == Spec => []EveryRegisterPublished
<1>1. EInv => EveryRegisterPublished
  <2> SUFFICES ASSUME EInv, heard = "answer", DecodesDevice(SizeOf[device]), type # "unknown"
               PROVE  Cardinality({p.topic : p \in published}) = TopicsExpected
    BY DEF EveryRegisterPublished
  <2> DEFINE values == ScanAs(type, length, Decode(SizeOf[device], HeldWords))
             topics == {p.topic : p \in published}
             N == TopicsExpected
             f == [i \in 1..N |-> TopicOf(KeyNumbered(i))]
  <2>1. EntryType /\ MemoryHolds /\ MeantIsHeld /\ Made /\ published = Shown
    BY DEF EInv, PublishedAsHeld
  <2>2. DOMAIN values = KeysShown /\ \A k \in KeysShown : k.n \in Nat
    BY <2>1, ShownSpells
  <2>3. published = {[topic |-> TopicOf(k), value |-> values[k]] : k \in KeysShown}
    BY <2>1, <2>2 DEF Shown
  <2> HIDE DEF values
  <2>4. topics = {TopicOf(k) : k \in KeysShown}
    <3>1. ASSUME NEW t \in topics PROVE \E k \in KeysShown : t = TopicOf(k)
      <4>1. PICK p \in published : t = p.topic
        OBVIOUS
      <4> QED BY <2>3, <4>1
    <3>2. ASSUME NEW k \in KeysShown PROVE TopicOf(k) \in topics
      <4> DEFINE p == [topic |-> TopicOf(k), value |-> values[k]]
      <4>1. p \in published
        BY <2>3
      <4>2. p.topic = TopicOf(k)
        OBVIOUS
      <4> QED BY <4>1, <4>2
    <3> HIDE DEF topics
    <3> QED BY <3>1, <3>2
  <2>5. /\ N \in Nat
        /\ \A i \in 1..N : KeyNumbered(i) \in KeysShown
        /\ \A k \in KeysShown : \E i \in 1..N : KeyNumbered(i) = k
        /\ \A i, j \in 1..N :
            KeyNumbered(i).n = KeyNumbered(j).n /\ KeyNumbered(i).bit = KeyNumbered(j).bit => i = j
    BY <2>1, KeysAreNumbered
  <2> HIDE DEF N, topics
  <2>6. f \in [1..N -> topics]
    BY <2>4, <2>5
  <2>7. \A t \in topics : \E i \in 1..N : f[i] = t
    BY <2>4, <2>5
  <2>8. ASSUME NEW i \in 1..N, NEW j \in 1..N, f[i] = f[j] PROVE i = j
    <3>1. TopicOf(KeyNumbered(i)) = TopicOf(KeyNumbered(j))
      BY <2>8
    <3>2. KeyNumbered(i).n \in Nat /\ KeyNumbered(j).n \in Nat
      BY <2>2, <2>5
    <3>3. KeyNumbered(i).n = KeyNumbered(j).n /\ KeyNumbered(i).bit = KeyNumbered(j).bit
      BY <2>1, <3>1, <3>2, TopicsApart
    <3> QED BY <2>5, <3>3
  <2> HIDE DEF f
  <2>9. Cardinality(topics) = N
    BY <2>5, <2>6, <2>7, <2>8, AsManyAsNumbers
  <2> QED BY <2>9 DEF topics, N
<1> QED
  BY <1>1, EntryInvariant, PTL

-----------------------------------------------------------------------------
(***************************************************************************)
(* The rows of the generator.                                              *)
(***************************************************************************)

\* The registers that the words of a row span, from number m on.
Span(m, words) ==
    {[name |-> device, number |-> m + n] :
        n \in 0..(Width * words - 1)}

\* A row that starts k registers after the first reads from there on.
LEMMA RowReads ==
    ASSUME EntryType, Parsed # Invalid, NEW k \in Nat, NEW words
    PROVE  /\ ReadBy([start |-> AddressAdd(Start, k), length |-> words]) = Span(first + k, words)
           /\ ReadBy([start |-> Start, length |-> words]) = Span(first, words)
<1>1. device \in Devices /\ first \in Nat
  BY Constants DEF EntryType
<1>2. Plain(device)
  BY <1>1, ParseOfOthers DEF Parsed, Start
<1>3. Parse(AddressAdd(Start, k)) = [name |-> device, number |-> first + k]
  BY <1>1, <1>2, AddressOfRegister
<1>4. Parse(Start) = [name |-> device, number |-> first]
  BY <1>1, <1>2, ParseOfPlain DEF Start
<1>5. ReadBy([start |-> AddressAdd(Start, k), length |-> words]) = Span(first + k, words)
  BY <1>3 DEF ReadBy, Span
<1>6. ReadBy([start |-> Start, length |-> words]) = Span(first, words)
  BY <1>4 DEF ReadBy, Span
<1> QED
  BY <1>5, <1>6

\* Rows of words span just the registers that are asked for; rows of bits
\* span more.
LEMMA SpanOfWords ==
    ASSUME EntryType, NEW m \in Nat, NEW words \in Nat
    PROVE  /\ \A n \in 0..(words - 1) : [name |-> device, number |-> m + n] \in Span(m, words)
           /\ ~IsBits => Span(m, 1) = {[name |-> device, number |-> m]}
<1>1. ASSUME NEW n \in 0..(words - 1) PROVE [name |-> device, number |-> m + n] \in Span(m, words)
  <2>1. n \in 0..(Width * words - 1)
    BY DEF Width, W
  <2> QED BY <2>1 DEF Span
<1>2. ASSUME ~IsBits PROVE Span(m, 1) = {[name |-> device, number |-> m]}
  <2>1. Span(m, 1) = {[name |-> device, number |-> m + n] : n \in 0..(1 * 1 - 1)}
    BY <1>2 DEF Span, Width
  <2>2. 0..(1 * 1 - 1) = {0} /\ m + 0 = m
    OBVIOUS
  <2> QED BY <2>1, <2>2
<1> QED
  BY <1>1, <1>2

\* GeneratedRowsRead. The rows that generate_scan_list writes for a range of
\* registers read every one of them, and rows of words read each but once:
\* from every first register, for every count, across the turns of the base.
THEOREM GeneratedRowsReadHolds == Spec => []GeneratedRowsRead
<1>1. EInv => GeneratedRowsRead
  <2> SUFFICES ASSUME EInv, Parsed # Invalid, NEW mode \in Modes
               PROVE  LET rows == BuildRows(Start, length, mode)
                      IN  /\ {[name |-> device, number |-> first + n] : n \in 0..(length - 1)}
                                \subseteq UNION {ReadBy(rows[k]) : k \in DOMAIN rows}
                          /\ ~IsBits =>
                                \A j, k \in DOMAIN rows :
                                  j # k => ReadBy(rows[j]) \cap ReadBy(rows[k]) = {}
    BY DEF GeneratedRowsRead
  <2> DEFINE rows == BuildRows(Start, length, mode)
             Of(n) == [name |-> device, number |-> first + n]
  <2>1. EntryType /\ first \in Nat /\ length \in Nat \ {0}
    BY Constants DEF EInv
  <2>2. CASE mode = "block"
    <3>1. rows = <<[start |-> Start, length |-> length]>>
      BY <2>2 DEF BuildRows
    <3>2. DOMAIN rows = {1} /\ rows[1] = [start |-> Start, length |-> length]
      BY <3>1
    <3>3. ReadBy(rows[1]) = Span(first, length)
      BY <2>1, <3>2, RowReads, 0 \in Nat
    <3> HIDE DEF rows
    <3>4. ASSUME NEW n \in 0..(length - 1) PROVE Of(n) \in Span(first, length)
      BY <2>1, SpanOfWords
    <3> HIDE DEF Of
    <3>5. {Of(n) : n \in 0..(length - 1)} \subseteq UNION {ReadBy(rows[k]) : k \in DOMAIN rows}
      BY <3>2, <3>3, <3>4
    <3> QED BY <3>2, <3>5 DEF Of, rows
  <2>3. CASE mode = "separate"
    <3>1. rows = [k \in 1..length |-> [start |-> AddressAdd(Start, k - 1), length |-> 1]]
      BY <2>3 DEF BuildRows, Modes
    <3> HIDE DEF rows
    <3>2. ASSUME NEW k \in 1..length PROVE k - 1 \in Nat /\ ReadBy(rows[k]) = Span(first + (k - 1), 1)
      <4>1. k - 1 \in Nat
        BY <2>1
      <4> DEFINE before == k - 1
      <4>2. rows[k] = [start |-> AddressAdd(Start, before), length |-> 1]
        BY <3>1
      <4> HIDE DEF before
      <4>3. before \in Nat
        BY <4>1 DEF before
      <4>4. ReadBy(rows[k]) = Span(first + before, 1)
        BY <2>1, <4>2, <4>3, RowReads
      <4> QED BY <4>1, <4>4 DEF before
    <3>3. ASSUME NEW n \in 0..(length - 1) PROVE Of(n) \in ReadBy(rows[n + 1]) /\ n + 1 \in 1..length
      <4>1. n + 1 \in 1..length /\ (n + 1) - 1 = n /\ first + n \in Nat /\ (first + n) + 0 = first + n
        BY <2>1
      <4>2. ReadBy(rows[n + 1]) = Span(first + n, 1)
        BY <3>2, <4>1
      <4>3. [name |-> device, number |-> (first + n) + 0] \in Span(first + n, 1)
        <5>1. 0 \in 0..(1 - 1) /\ 1 \in Nat
          OBVIOUS
        <5> QED BY <2>1, <4>1, <5>1, SpanOfWords
      <4> QED BY <4>1, <4>2, <4>3
    <3>4. ASSUME ~IsBits, NEW j \in 1..length, NEW k \in 1..length, j # k
          PROVE  ReadBy(rows[j]) \cap ReadBy(rows[k]) = {}
      <4>1. /\ first + (j - 1) \in Nat /\ first + (k - 1) \in Nat
            /\ first + (j - 1) # first + (k - 1)
        BY <2>1, <3>4
      <4>2. /\ ReadBy(rows[j]) = {[name |-> device, number |-> first + (j - 1)]}
            /\ ReadBy(rows[k]) = {[name |-> device, number |-> first + (k - 1)]}
        <5>1. /\ Span(first + (j - 1), 1) = {[name |-> device, number |-> first + (j - 1)]}
              /\ Span(first + (k - 1), 1) = {[name |-> device, number |-> first + (k - 1)]}
          BY <2>1, <3>4, <4>1, SpanOfWords
        <5> QED BY <3>2, <5>1
      <4> QED BY <4>1, <4>2
    <3>5. DOMAIN rows = 1..length
      BY <3>1
    <3> HIDE DEF Of
    <3>6. {Of(n) : n \in 0..(length - 1)} \subseteq UNION {ReadBy(rows[k]) : k \in DOMAIN rows}
      BY <3>3, <3>5
    <3> QED BY <3>4, <3>5, <3>6 DEF Of, rows
  <2> QED BY <2>2, <2>3 DEF Modes
<1> QED
  BY <1>1, EntryInvariant, PTL
=============================================================================
