------------------------------- MODULE Tables -------------------------------
(***************************************************************************)
(* Fields of every type, and the tables and arrays made of them            *)
(* (src/tmp_install/include/amqpcpp: decimalfield.h, voidfield.h, table.h, *)
(* array.h and fieldproxy.h).  A field is [type, held] with its type ID; a *)
(* table is a function from names, an array a sequence of fields.          *)
(***************************************************************************)
EXTENDS Fields

CONSTANT MaxDepth   \* bound: how deep tables and arrays are in each other

(* The type IDs and what they are on the wire. *)
typeID == [b |-> 98, B |-> 66, U |-> 85, u |-> 117, I |-> 73, i |-> 105, L |-> 76, l |-> 108,
           T |-> 84, D |-> 68, t |-> 116, s |-> 115, S |-> 83, V |-> 86, F |-> 70, A |-> 65]

Nested == {"F", "A"}

(* The fields that hold one value each, and those that hold fields; tables *)
(* and arrays are up to MaxDepth deep in each other.                       *)
PlainField ==
  {f \in [type : DOMAIN Width, held : Int] : f.held \in Numbers(Width[f.type], f.type \in Signed)}
    \cup [type : {"t"}, held : SUBSET Bits]
    \cup [type : {"D"}, held : [places : Numbers(1, FALSE), number : Numbers(4, FALSE)]]
    \cup [type : {"V"}, held : {0}]
    \cup [type : {"s"}, held : ShortTexts]
    \cup [type : {"S"}, held : LongTexts]

Field[depth \in 0..MaxDepth] ==
  IF depth = 0 THEN PlainField
  ELSE PlainField \cup [type : {"A"}, held : Seq(Field[depth - 1])]
             \cup [type : {"F"}, held : [Names -> {Absent} \cup Field[depth - 1]]]

ASSUME DepthAssumption ==
  MaxDepth \in Nat /\ \A depth \in 0..MaxDepth : Absent \notin Field[depth]

-----------------------------------------------------------------------------
(* A loop over a table or an array: how far it goes, and what it meets.    *)
Slots(field) == IF field.type = "A" THEN Len(field.held) ELSE Len(TableNames)

Entry(field, k) == IF field.type = "A" THEN field.held[k] ELSE field.held[TableNames[k]]

HasEntry(field, k) == Entry(field, k) # Absent

(* Table::size(), Array::size() and fill(): entries after a four-byte      *)
(* size, each with its name, if any, and its type ID.  inner is the size,  *)
(* or the bytes, of the fields inside.                                     *)
sizeName(field, k) == IF field.type = "A" THEN 0 ELSE 1 + Len(TableNames[k])

fillName(field, k) == IF field.type = "A" THEN <<>> ELSE fillString("s", TableNames[k])

sizeEntries(field, inner) ==
  4 + Total([k \in 1..Slots(field) |->
               IF HasEntry(field, k) THEN sizeName(field, k) + 1 + inner[Entry(field, k)] ELSE 0])

fillEntries(field, inner) ==
  LET bytes == Concatenated([k \in 1..Slots(field) |->
                 IF HasEntry(field, k)
                 THEN fillName(field, k) \o <<typeID[Entry(field, k).type]>> \o inner[Entry(field, k)]
                 ELSE <<>>])
  IN  add(Len(bytes), 4) \o bytes

sizePlain(field) ==
  LET type == field.type IN
  CASE IsNumeric(type)     -> Width[type]
    [] type = "t"          -> 1
    [] type = "D"          -> 5
    [] type = "V"          -> 0
    [] type \in {"s", "S"} -> SizeWidth[type] + Len(field.held)

fillPlain(field) ==
  LET type == field.type IN
  CASE IsNumeric(type)     -> add(field.held, Width[type])
    [] type = "t"          -> <<Byte(field.held)>>
    [] type = "D"          -> add(field.held.places, 1) \o add(field.held.number, 4)
    [] type = "V"          -> <<>>
    [] type \in {"s", "S"} -> fillString(type, field.held)

sizes[depth \in 0..MaxDepth] ==
  [field \in Field[depth] |->
     IF field.type \in Nested THEN sizeEntries(field, sizes[depth - 1]) ELSE sizePlain(field)]

fills[depth \in 0..MaxDepth] ==
  [field \in Field[depth] |->
     IF field.type \in Nested THEN fillEntries(field, fills[depth - 1]) ELSE fillPlain(field)]

size(field) == sizes[MaxDepth][field]
fill(field) == fills[MaxDepth][field]

-----------------------------------------------------------------------------
Decimal(places, number) ==
  [value |-> [places |-> places.value, number |-> number.value], in |-> number.in]

DecimalField(in) ==
  LET places == nextInteger(in, 1, FALSE) IN Decimal(places, nextInteger(places.in, 4, FALSE))

OneByte(byte) == [value |-> BooleanSet(byte.value), in |-> byte.in]

decodePlain(type, in) ==
  CASE IsNumeric(type)     -> nextInteger(in, Width[type], type \in Signed)
    [] type = "t"          -> OneByte(nextInteger(in, 1, FALSE))
    [] type = "D"          -> DecimalField(in)
    [] type = "V"          -> [value |-> 0, in |-> in]
    [] type \in {"s", "S"} -> StringField(in, type)

Unread(in) == [value |-> 0, in |-> [in EXCEPT !.ok = FALSE]]

(* Table::set(); a second value of a name replaces the first. *)
setTable(table, name, field) ==
  [n \in DOMAIN table \cup {name} |-> IF n = name THEN field ELSE table[n]]

AddEntry(type, entries, name, entry) ==
  IF type = "A" THEN Append(entries, entry) ELSE setTable(entries, name, entry)

(* Table(InBuffer), Array(InBuffer): one more entry, unless the size is    *)
(* used up; inner reads the fields inside.                                 *)
decodeKnown(type, entries, name, kind, field) ==
  [value |-> AddEntry(type, entries, name, [type |-> kind, held |-> field.value]), in |-> field.in]

decodeNamed(type, entries, name, id, inner) ==
  LET known == {t \in DOMAIN typeID : typeID[t] = id.value}
      kind  == CHOOSE t \in known : TRUE
  IN  IF ~id.in.ok \/ known = {} THEN [Unread(id.in) EXCEPT !.value = entries]
      ELSE decodeKnown(type, entries, name, kind, inner[kind][id.in])

decodeEntry(type, read, inner) ==
  LET name == IF type = "F" THEN StringField(read.in, "s") ELSE [value |-> <<>>, in |-> read.in]
  IN  IF ~read.in.ok \/ read.in.left = <<>> THEN read
      ELSE decodeNamed(type, read.value, name.value, nextInteger(name.in, 1, FALSE), inner)

(* Each entry has a byte at least, so there are no more than bytes. *)
decodeEntries(type, data, inner) ==
  LET read[k \in 0..Len(data.value)] ==
        IF k = 0 THEN [value |-> IF type = "A" THEN <<>> ELSE EmptyTable,
                       in    |-> [left |-> data.value, ok |-> data.in.ok]]
        ELSE decodeEntry(type, read[k - 1], inner)
  IN  read[Len(data.value)]

Inside(data, entries) ==
  [value |-> entries.value, in |-> [left |-> data.in.left, ok |-> entries.in.ok]]

decodeNested(type, data, inner) == Inside(data, decodeEntries(type, data, inner))

decodes[depth \in 0..MaxDepth] ==
  [type \in DOMAIN typeID |->
     [in \in Inputs |->
        IF type \notin Nested THEN decodePlain(type, in)
        ELSE IF depth = 0 THEN Unread(in)
        ELSE decodeNested(type, StringField(in, "S"), decodes[depth - 1])]]

decode(type, in) == decodes[MaxDepth][type][in]

-----------------------------------------------------------------------------
(* The operator= of FieldProxy stores the value under the type of the C++  *)
(* value; an Array takes the index, or appends when it is past the end     *)
(* (index counts from 0).                                                  *)
setArray(array, index, field) ==
  IF index >= Len(array) THEN Append(array, field) ELSE [array EXCEPT ![index + 1] = field]

(* The field that holds a C++ value: no value becomes a short string. *)
FieldOf(type, value) ==
  [type |-> CASE type = "bool" -> "t"  [] type = "uint8_t" -> "B"  [] type = "int8_t" -> "b"
              [] type = "uint16_t" -> "u" [] type = "int16_t" -> "U"
              [] type = "uint32_t" -> "i" [] type = "int32_t" -> "I"
              [] type = "uint64_t" -> "l" [] type = "int64_t" -> "L"
              [] type = "string" -> "S" [] type = "nullptr" -> "V"
              [] type = "DecimalField" -> "D" [] type = "Array" -> "A" [] type = "Table" -> "F",
   held |-> value]
=============================================================================
