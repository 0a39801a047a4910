------------------------------- MODULE Fields -------------------------------
(***************************************************************************)
(* The plain AMQP field types and what they are on the wire                *)
(* (src/tmp_install/include/amqpcpp: numericfield.h, stringfield.h,        *)
(* booleanset.h, outbuffer.h and inbuffer.h).  A text is a sequence of     *)
(* bytes, a BooleanSet the set of its bits.  Reading takes fields off the  *)
(* front of an input [left, ok]; ok is FALSE once the code has thrown.     *)
(***************************************************************************)
EXTENDS Integers, Sequences, SequencesExt, FiniteSetsExt

CONSTANTS
  Huge,         \* stands for every number from here on; far above all sizes in use
  TableNames,   \* the names that entries of tables have, in the order std::map keeps them
  Absent        \* what a table holds under a name that has no entry

ByteRange == 256

Octets == 0..ByteRange - 1

(* Lists and sums that loops make up, here from the last part to the first. *)
Total(terms) ==
  LET from[k \in 0..Len(terms)] ==
        IF k = 0 THEN 0 ELSE terms[Len(terms) - k + 1] + from[k - 1]
  IN  from[Len(terms)]

Concatenated(pieces) ==
  LET from[k \in 0..Len(pieces)] ==
        IF k = 0 THEN <<>> ELSE pieces[Len(pieces) - k + 1] \o from[k - 1]
  IN  from[Len(pieces)]

(* The typedefs of NumericField that hold integers: bytes and sign. *)
Width  == [b |-> 1, B |-> 1, U |-> 2, u |-> 2, I |-> 4, i |-> 4, L |-> 8, l |-> 8, T |-> 8]
Signed == {"b", "U", "I", "L"}

IsNumeric(type) == type \in DOMAIN Width

(* OutBuffer::add() of an integer: its bytes, the most significant first. *)
Shifted(n, width) ==
  LET shifted[k \in 0..width] == IF k = 0 THEN n ELSE shifted[k - 1] \div ByteRange IN shifted

add(n, width) == [k \in 1..width |-> Shifted(n, width)[width - k] % ByteRange]

(* What an integer of that width can hold. *)
Numbers(width, signed) ==
  {n \in Int : /\ n < Huge
               /\ IF signed THEN Shifted(n, width)[width - 1] \in -(ByteRange \div 2)..(ByteRange \div 2) - 1
                  ELSE Shifted(n, width)[width] = 0}

-----------------------------------------------------------------------------
Input(bytes) == [left |-> bytes, ok |-> TRUE]

Inputs == [left : Seq(Octets), ok : BOOLEAN]

(* nextData(): the next bytes, or an exception when there are fewer. *)
nextData(in, size) ==
  IF in.ok /\ size <= Len(in.left)
  THEN [value |-> SubSeq(in.left, 1, size), in |-> Input(SubSeq(in.left, size + 1, Len(in.left)))]
  ELSE [value |-> <<>>, in |-> [in EXCEPT !.ok = FALSE]]

(* nextUint8() up to nextInt64(): the most significant byte has the sign. *)
Digit(bytes, k, signed) ==
  IF k = 1 /\ signed /\ bytes[k] >= ByteRange \div 2 THEN bytes[k] - ByteRange ELSE bytes[k]

Followed(n, digit) == IF n >= Huge THEN Huge ELSE Min({n * ByteRange + digit, Huge})

Assembled(bytes, width, signed) ==
  LET value[k \in 0..width] ==
        IF k = 0 THEN 0 ELSE Followed(value[k - 1], Digit(bytes, k, signed))
  IN  value[width]

nextInteger(in, width, signed) ==
  LET data == nextData(in, width)
  IN  [value |-> IF data.in.ok THEN Assembled(data.value, width, signed) ELSE 0, in |-> data.in]

-----------------------------------------------------------------------------
(* A BooleanSet is one byte. *)
Bits == 0..7

set(bits, index, value) ==
  IF index \notin Bits THEN bits ELSE IF value THEN bits \cup {index} ELSE bits \ {index}

get(bits, index) == index \in Bits /\ index \in bits

Mask == <<1, 2, 4, 8, 16, 32, 64, 128>>

Byte(bits) ==
  LET bit(k) == IF k \in bits THEN Mask[k + 1] ELSE 0
  IN  bit(0) + bit(1) + bit(2) + bit(3) + bit(4) + bit(5) + bit(6) + bit(7)

BooleanSet(byte) == {k \in Bits : (byte \div Mask[k + 1]) % 2 = 1}

(* A text of 's' has one byte for its size, one of 'S' has four; the cast  *)
(* to T::Type cuts the size of a longer text.                              *)
SizeWidth  == [s |-> 1, S |-> 4]
maxLength == ByteRange - 1   \* of a ShortString

fillString(type, text) ==
  add(IF type = "s" THEN Len(text) % ByteRange ELSE Len(text), SizeWidth[type]) \o text

(* As many bytes as the number read before says. *)
Announced(length) == nextData(length.in, length.value)

StringField(in, type) == Announced(nextInteger(in, SizeWidth[type], FALSE))

(* The texts that the two types can hold. *)
ShortTexts == {text \in Seq(Octets) : Len(text) <= maxLength}
LongTexts  == {text \in Seq(Octets) : Len(text) \in Numbers(SizeWidth["S"], FALSE)}

-----------------------------------------------------------------------------
(* A table maps every name to a field or to Absent; it begins without any. *)
Names == ToSet(TableNames)

EmptyTable == [name \in Names |-> Absent]

(* std::map compares byte by byte. *)
SortsBefore(a, b) ==
  \E k \in 0..Len(a) : /\ k < Len(b) /\ SubSeq(a, 1, k) = SubSeq(b, 1, k)
                       /\ k < Len(a) => a[k + 1] < b[k + 1]

ASSUME FieldsAssumption ==
  /\ Huge \in Nat /\ Huge > maxLength
  /\ TableNames \in Seq(ShortTexts)
  /\ \A j, k \in DOMAIN TableNames : j < k => SortsBefore(TableNames[j], TableNames[k])
=============================================================================
