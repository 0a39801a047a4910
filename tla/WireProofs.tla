----------------------------- MODULE WireProofs -----------------------------
(***************************************************************************)
(* Proofs about the bytes of messages (Fields, Tables, Wire, ClientWire):  *)
(* that size() is what fill() needs and that reading gives back what was   *)
(* written - for numbers, texts, tables and arrays in each other to any    *)
(* depth, properties, envelopes and the header frames of the client.       *)
(***************************************************************************)
EXTENDS ClientWire, AmqpClientProofs

-----------------------------------------------------------------------------
(* Counting up, and functions that are defined by it. *)
LEMMA Upwards ==
  ASSUME NEW S, NEW n \in Nat, 0 \in S, \A k \in 1..n : k - 1 \in S => k \in S
  PROVE  0..n \subseteq S
<1> DEFINE Bad == {k \in 0..n : k \notin S}
<1> SUFFICES ASSUME Bad # {} PROVE FALSE
  OBVIOUS
<1>1. PICK k \in Bad : \A j \in Bad : k <= j
  <2>1. Bad \in SUBSET Nat
    OBVIOUS
  <2> HIDE DEF Bad
  <2> QED
    BY <2>1, Least
<1>2. k \in 0..n /\ k \notin S /\ k # 0
  OBVIOUS
<1>3. k - 1 \in 0..n /\ ~(k <= k - 1) /\ k \in 1..n
  BY <1>2
<1> QED
  BY <1>1, <1>2, <1>3

Steps(f, n, base, step) ==
  f = [k \in 0..n |-> IF k = 0 THEN base ELSE step[k][f[k - 1]]]

(* A loop of so many steps has a function of its turns. *)
LEMMA LoopExists ==
  ASSUME NEW D, NEW base \in D, NEW n \in Nat, NEW step \in [1..n -> [D -> D]]
  PROVE  \E f \in [0..n -> D] : Steps(f, n, base, step)
<1> DEFINE S == {m \in 0..n : \E f \in [0..m -> D] : Steps(f, m, base, step)}
<1>1. 0 \in S
  <2> DEFINE f == [k \in 0..0 |-> base]
  <2>1. f \in [0..0 -> D] /\ Steps(f, 0, base, step)
    BY DEF Steps
  <2> QED
    BY <2>1
<1>2. ASSUME NEW m \in 1..n, m - 1 \in S PROVE m \in S
  <2>1. PICK f \in [0..m - 1 -> D] : Steps(f, m - 1, base, step)
    BY <1>2
  <2> DEFINE g == [k \in 0..m |-> IF k = m THEN step[m][f[m - 1]] ELSE f[k]]
  <2>2. m - 1 \in 0..m - 1 /\ m - 1 \in 0..m /\ m - 1 # m
    OBVIOUS
  <2>3. g \in [0..m -> D]
    <3>1. f[m - 1] \in D /\ step[m] \in [D -> D]
      BY <2>2
    <3>2. \A k \in 0..m : k # m => k \in 0..m - 1
      OBVIOUS
    <3> QED
      BY <3>1, <3>2
  <2>4. ASSUME NEW k \in 0..m PROVE g[k] = IF k = 0 THEN base ELSE step[k][g[k - 1]]
    <3>1. CASE k = m
      BY <2>2, <3>1
    <3>2. CASE k # m
      <4>1. k \in 0..m - 1 /\ g[k] = f[k]
        BY <3>2
      <4>2. f[k] = IF k = 0 THEN base ELSE step[k][f[k - 1]]
        BY <2>1, <4>1 DEF Steps
      <4>3. k # 0 => k - 1 \in 0..m /\ k - 1 # m
        BY <3>2
      <4>4. k # 0 => g[k - 1] = f[k - 1]
        BY <4>3
      <4> QED
        BY <4>1, <4>2, <4>4
    <3> QED
      BY <3>1, <3>2
  <2>5. g = [k \in 0..m |-> g[k]]
    OBVIOUS
  <2> HIDE DEF g
  <2>6. Steps(g, m, base, step)
    BY <2>4, <2>5 DEF Steps
  <2> QED
    BY <2>3, <2>6
<1> HIDE DEF S
<1>3. 0..n \subseteq S
  BY <1>1, <1>2, Upwards
<1>4. n \in S
  BY <1>3
<1> QED
  BY <1>4 DEF S

-----------------------------------------------------------------------------
Above(x) == x \div 256

Below(x) == x % 256

(* An integer without its last bytes, its bytes, and what they are read as.*)
LEMMA ShiftedIs ==
  ASSUME NEW n \in Int, NEW w \in Nat
  PROVE  /\ Shifted(n, w) \in [0..w -> Int]
         /\ Shifted(n, w)[0] = n
         /\ \A k \in 1..w : Shifted(n, w)[k] = Above(Shifted(n, w)[k - 1])
<1> DEFINE step == [k \in 1..w |-> [x \in Int |-> x \div ByteRange]]
           Is(f) == f = [k \in 0..w |-> IF k = 0 THEN n ELSE f[k - 1] \div ByteRange]
<1>1. step \in [1..w -> [Int -> Int]]
  BY DEF ByteRange
<1>2. PICK f \in [0..w -> Int] : Steps(f, w, n, step)
  <2> HIDE DEF step
  <2> QED
    BY <1>1, LoopExists
<1>3. ASSUME NEW k \in 0..w PROVE f[k] = IF k = 0 THEN n ELSE f[k - 1] \div ByteRange
  <2>1. f[k] = IF k = 0 THEN n ELSE step[k][f[k - 1]]
    BY <1>2 DEF Steps
  <2>2. k # 0 => k \in 1..w /\ f[k - 1] \in Int
    OBVIOUS
  <2> QED
    BY <2>1, <2>2
<1>4. f = [k \in 0..w |-> f[k]]
  OBVIOUS
<1>5. Is(f)
  BY <1>3, <1>4
<1> DEFINE g == Shifted(n, w)
<1>6. g = CHOOSE h : Is(h)
  BY DEF Shifted
<1>7. Is(g)
  BY <1>5, <1>6
<1> HIDE DEF g
<1>8. \A k \in 0..w : g[k] = IF k = 0 THEN n ELSE g[k - 1] \div ByteRange
  BY <1>7
<1> DEFINE S == {k \in 0..w : g[k] \in Int}
<1>9. 0..w \subseteq S
  <2>1. 0 \in S
    BY <1>8
  <2>2. ASSUME NEW k \in 1..w, k - 1 \in S PROVE k \in S
    BY <1>8, <2>2 DEF ByteRange
  <2> HIDE DEF S
  <2> QED
    BY <2>1, <2>2, Upwards
<1>10. g \in [0..w -> Int]
  BY <1>7, <1>9
<1>11. g[0] = n /\ \A k \in 1..w : g[k] = Above(g[k - 1])
  BY <1>8 DEF ByteRange, Above
<1> QED
  BY <1>10, <1>11 DEF g

LEMMA AddIs ==
  ASSUME NEW n \in Int, NEW w \in Nat
  PROVE  /\ add(n, w) \in Seq(Octets) /\ Len(add(n, w)) = w
         /\ \A k \in 1..w : add(n, w)[k] = Below(Shifted(n, w)[w - k])
<1> DEFINE s == Shifted(n, w)
<1>1. s \in [0..w -> Int]
  BY ShiftedIs
<1> HIDE DEF s
<1>2. ASSUME NEW k \in 1..w PROVE s[w - k] % ByteRange \in Octets
  <2>1. s[w - k] \in Int
    BY <1>1
  <2> QED
    BY <2>1 DEF ByteRange, Octets
<1>3. add(n, w) = [k \in 1..w |-> s[w - k] % ByteRange]
  BY DEF add, s
<1>5. ASSUME NEW x PROVE x % ByteRange = Below(x)
  BY DEF ByteRange, Below
<1>4. add(n, w) \in [1..w -> Octets]
  BY <1>2, <1>3
<1> QED
  BY <1>3, <1>4, <1>5 DEF s

LEMMA OctetIs ==
  ASSUME NEW byte \in Octets
  PROVE  byte \in Int /\ byte \in 0..255
BY DEF Octets, ByteRange

LEMMA DigitIs ==
  ASSUME NEW bytes \in Seq(Octets), NEW k \in 1..Len(bytes), NEW signed \in BOOLEAN
  PROVE  /\ Digit(bytes, k, signed) \in Int
         /\ Digit(bytes, k, signed)
              = IF k = 1 /\ signed /\ bytes[k] >= 128 THEN bytes[k] - 256 ELSE bytes[k]
<1>1. bytes[k] \in Octets
  OBVIOUS
<1>2. bytes[k] \in Int
  BY <1>1, OctetIs, Zenon
<1>3. ByteRange = 256 /\ ByteRange \div 2 = 128
  BY DEF ByteRange
<1>4. Digit(bytes, k, signed)
        = IF k = 1 /\ signed /\ bytes[k] >= 128 THEN bytes[k] - 256 ELSE bytes[k]
  BY <1>3, Zenon DEF Digit
<1> HIDE DEF Octets
<1>5. ASSUME NEW b \in Int PROVE b - 256 \in Int
  OBVIOUS
<1> QED
  BY <1>2, <1>4, <1>5, Zenon

LEMMA FollowedIs ==
  ASSUME NEW n \in Int, NEW d \in Int
  PROVE  /\ Followed(n, d) \in Int
         /\ n < Huge /\ n * 256 + d < Huge => Followed(n, d) = n * 256 + d
<1>1. Huge \in Int /\ n * 256 + d \in Int
  BY FieldsAssumption
<1> DEFINE m == n * 256 + d
<1> HIDE DEF m
<1>2. m \in Int
  BY <1>1 DEF m
<1>3. Min({m, Huge}) = IF m <= Huge THEN m ELSE Huge
  BY <1>1, <1>2 DEF Min
<1>4. Followed(n, d) = IF n >= Huge THEN Huge ELSE Min({m, Huge})
  BY DEF Followed, m, ByteRange
<1>5. n < Huge /\ m < Huge => Followed(n, d) = m
  BY <1>1, <1>2, <1>3, <1>4
<1>6. Followed(n, d) \in Int
  BY <1>1, <1>2, <1>3, <1>4
<1> QED
  BY <1>5, <1>6 DEF m

IsAssembled(v, bytes, w, signed) ==
  v = [k \in 0..w |-> IF k = 0 THEN 0 ELSE Followed(v[k - 1], Digit(bytes, k, signed))]

LEMMA AssembledIs ==
  ASSUME NEW bytes \in Seq(Octets), NEW w \in Nat, Len(bytes) = w, NEW signed \in BOOLEAN
  PROVE  \E v \in [0..w -> Int] :
           /\ Assembled(bytes, w, signed) = v[w] /\ v[0] = 0
           /\ \A k \in 1..w : v[k] = Followed(v[k - 1], Digit(bytes, k, signed))
<1> DEFINE step == [k \in 1..w |-> [x \in Int |-> Followed(x, Digit(bytes, k, signed))]]
<1>1. step \in [1..w -> [Int -> Int]]
  BY DigitIs, FollowedIs, ZenonT(40)
<1>2. PICK f \in [0..w -> Int] : Steps(f, w, 0, step)
  <2> HIDE DEF step
  <2>1. 0 \in Int
    OBVIOUS
  <2> QED
    BY <1>1, <2>1, LoopExists
<1>3. ASSUME NEW k \in 0..w
      PROVE  f[k] = IF k = 0 THEN 0 ELSE Followed(f[k - 1], Digit(bytes, k, signed))
  <2>1. f[k] = IF k = 0 THEN 0 ELSE step[k][f[k - 1]]
    BY <1>2 DEF Steps
  <2>2. k # 0 => k \in 1..w /\ f[k - 1] \in Int
    OBVIOUS
  <2> QED
    BY <2>1, <2>2
<1>4. f = [k \in 0..w |-> f[k]]
  OBVIOUS
<1>5. IsAssembled(f, bytes, w, signed)
  BY <1>3, <1>4 DEF IsAssembled
<1> DEFINE g == CHOOSE h : IsAssembled(h, bytes, w, signed)
<1>6. IsAssembled(g, bytes, w, signed)
  BY <1>5
<1>7. Assembled(bytes, w, signed) = g[w]
  BY DEF Assembled, IsAssembled
<1> HIDE DEF g
<1>8. \A k \in 0..w : g[k] = IF k = 0 THEN 0 ELSE Followed(g[k - 1], Digit(bytes, k, signed))
  BY <1>6 DEF IsAssembled
<1> DEFINE S == {k \in 0..w : g[k] \in Int}
<1>9. 0..w \subseteq S
  <2>1. 0 \in S
    BY <1>8
  <2>2. ASSUME NEW k \in 1..w, k - 1 \in S PROVE k \in S
    <3>1. k \in 0..w /\ k # 0
      OBVIOUS
    <3>2. g[k] = Followed(g[k - 1], Digit(bytes, k, signed)) /\ g[k - 1] \in Int
      BY <1>8, <2>2, <3>1
    <3>3. Digit(bytes, k, signed) \in Int
      BY DigitIs
    <3>4. Followed(g[k - 1], Digit(bytes, k, signed)) \in Int
      BY <3>2, <3>3, FollowedIs, Zenon
    <3> QED
      BY <3>1, <3>2, <3>4, Zenon
  <2> HIDE DEF S
  <2> QED
    BY <2>1, <2>2, Upwards
<1>10. g = [k \in 0..w |-> g[k]]
  BY <1>6 DEF IsAssembled
<1>11. g \in [0..w -> Int]
  BY <1>9, <1>10
<1>12. g[0] = 0 /\ \A k \in 1..w : g[k] = Followed(g[k - 1], Digit(bytes, k, signed))
  BY <1>8
<1> QED
  BY <1>7, <1>11, <1>12

LEMMA ByBytes ==
  ASSUME NEW x \in Int
  PROVE  /\ Above(x) \in Int /\ Below(x) \in 0..255 /\ x = Above(x) * 256 + Below(x)
         /\ x >= 0 => Above(x) <= x /\ Above(x) >= 0
         /\ x < 0 => Above(x) < 0
         /\ x \in 0..255 => Above(x) = 0 /\ Below(x) = x
<1>1. Above(x) \in Int /\ Below(x) \in 0..255
  BY DEF Above, Below
<1>2. x = Above(x) * 256 + Below(x)
  BY DEF Above, Below
<1> QED
  BY <1>1, <1>2

(* An integer is read back as it was written, whatever follows it.         *)
LEMMA NumberAssembled ==
  ASSUME NEW w \in Nat \ {0}, NEW signed \in BOOLEAN, NEW n \in Numbers(w, signed)
  PROVE  Assembled(add(n, w), w, signed) = n
<1> DEFINE s == Shifted(n, w)
           bytes == add(n, w)
<1>1. n \in Int /\ n < Huge /\ IF signed THEN s[w - 1] \in -128..127 ELSE s[w] = 0
  <2>1. -(ByteRange \div 2)..(ByteRange \div 2) - 1 = -128..127
    BY DEF ByteRange
  <2> QED
    BY <2>1 DEF Numbers
<1>2. Huge \in Nat /\ Huge > 0
  BY FieldsAssumption DEF maxLength, ByteRange
<1>0. w \in Nat /\ w > 0 /\ w \in 0..w
  OBVIOUS
<1>3. s \in [0..w -> Int] /\ s[0] = n /\ \A k \in 1..w : s[k] = Above(s[k - 1])
  <2>1. n \in Int
    BY <1>1
  <2> HIDE DEF s
  <2>2. Shifted(n, w) \in [0..w -> Int] /\ Shifted(n, w)[0] = n
          /\ \A k \in 1..w : Shifted(n, w)[k] = Above(Shifted(n, w)[k - 1])
    BY <1>0, <2>1, ShiftedIs
  <2> QED
    BY <2>2 DEF s
<1>4. bytes \in Seq(Octets) /\ Len(bytes) = w /\ \A k \in 1..w : bytes[k] = Below(s[w - k])
  BY <1>0, <1>1, AddIs, Zenon
<1> HIDE DEF s, bytes
<1>5. PICK v \in [0..w -> Int] :
        /\ Assembled(bytes, w, signed) = v[w] /\ v[0] = 0
        /\ \A k \in 1..w : v[k] = Followed(v[k - 1], Digit(bytes, k, signed))
  BY <1>0, <1>4, AssembledIs, ZenonT(40)
<1> DEFINE Small == {k \in 0..w : s[k] < Huge}
<1>6. 0..w \subseteq Small
  <2>1. 0 \in Small
    BY <1>1, <1>3
  <2>2. ASSUME NEW k \in 1..w, k - 1 \in Small PROVE k \in Small
    <3>1. s[k - 1] \in Int /\ s[k] = Above(s[k - 1]) /\ s[k - 1] < Huge
      BY <1>3, <2>2
    <3>2. /\ Above(s[k - 1]) \in Int
          /\ s[k - 1] >= 0 => Above(s[k - 1]) <= s[k - 1]
          /\ s[k - 1] < 0 => Above(s[k - 1]) < 0
      BY <3>1, ByBytes, ZenonT(40)
    <3>3. s[k] < Huge
      BY <1>2, <3>1, <3>2
    <3> QED
      BY <3>3
  <2> HIDE DEF Small
  <2> QED
    BY <2>1, <2>2, Upwards
<1> DEFINE S == {k \in 0..w : k # 0 => v[k] = s[w - k]}
<1>7. 0..w \subseteq S
  <2>1. 0 \in S
    OBVIOUS
  <2>2. ASSUME NEW k \in 1..w, k - 1 \in S PROVE k \in S
    <3> DEFINE x == s[w - k]
               d == Digit(bytes, k, signed)
    <3>1. w - k \in 0..w /\ w - k + 1 \in 1..w /\ (w - k + 1) - 1 = w - k /\ w - (k - 1) = w - k + 1
      OBVIOUS
    <3>2. x \in Int /\ x < Huge /\ bytes[k] = Below(x)
      <4>1. x \in Int /\ bytes[k] = Below(x)
        BY <1>3, <1>4, <3>1, Zenon
      <4>2. x < Huge
        BY <1>6, <3>1, Zenon
      <4> QED
        BY <4>1, <4>2
    <3>3. s[w - k + 1] = Above(x) /\ Above(x) < Huge
      <4>1. s[w - k + 1] = Above(s[w - k])
        BY <1>3, <3>1
      <4>2. s[w - k + 1] < Huge
        <5>1. w - k + 1 \in 0..w
          OBVIOUS
        <5> QED
          BY <1>6, <5>1, Zenon
      <4> QED
        BY <4>1, <4>2
    <3>4. d = (IF k = 1 /\ signed /\ Below(x) >= 128 THEN Below(x) - 256 ELSE Below(x))
      <4>1. k \in 1..Len(bytes)
        BY <1>4
      <4>2. d = IF k = 1 /\ signed /\ bytes[k] >= 128 THEN bytes[k] - 256 ELSE bytes[k]
        BY <1>4, <4>1, DigitIs
      <4> QED
        BY <3>2, <4>2
    <3>5. k # 1 => v[k - 1] = Above(x)
      BY <2>2, <3>1, <3>3
    <3>6. k = 1 => IF signed THEN x \in -128..127 ELSE Above(x) = 0
      <4>1. k = 1 => w - k = w - 1 /\ w - k + 1 = w
        OBVIOUS
      <4> QED
        BY <1>1, <3>3, <4>1
    <3>7. d \in Int /\ v[k] = Followed(v[k - 1], d)
      <4>1. k \in 1..Len(bytes)
        BY <1>4
      <4> QED
        BY <1>4, <1>5, <4>1, DigitIs, Zenon
    <3> HIDE DEF x, d
    <3>8. v[k - 1] \in Int /\ v[k - 1] < Huge /\ v[k - 1] * 256 + d = x
      <4>1. CASE k # 1
        BY <3>2, <3>3, <3>4, <3>5, <4>1, ByBytes
      <4>2. CASE k = 1 /\ ~signed
        BY <1>2, <1>5, <3>2, <3>4, <3>6, <4>2, ByBytes
      <4>3. CASE k = 1 /\ signed
        <5>1. x \in -128..127 /\ v[k - 1] = 0
          BY <1>5, <3>6, <4>3
        <5>2. Below(x) = IF x >= 0 THEN x ELSE x + 256
          BY <5>1 DEF Below
        <5> QED
          BY <1>2, <3>4, <4>3, <5>1, <5>2
      <4> QED
        BY <4>1, <4>2, <4>3
    <3>9. v[k] = x
      BY <3>2, <3>7, <3>8, FollowedIs, ZenonT(40)
    <3> QED
      BY <3>9 DEF x
  <2> HIDE DEF S
  <2> QED
    BY <2>1, <2>2, Upwards
<1>8. v[w] = s[0]
  BY <1>7
<1> QED
  BY <1>3, <1>5, <1>8 DEF bytes

-----------------------------------------------------------------------------
(* Reading from the front of what was written. *)
Taken(value, rest) == [value |-> value, in |-> Input(rest)]

(* The bytes asked for come off the front, the others are left. *)
LEMMA NextDataIs ==
  ASSUME NEW a \in Seq(Octets), NEW b \in Seq(Octets)
  PROVE  nextData(Input(a \o b), Len(a)) = Taken(a, b)
<1>1. a \o b \in Seq(Octets) /\ Len(a \o b) = Len(a) + Len(b) /\ Len(a) \in Nat /\ Len(b) \in Nat
  BY ConcatProperties
<1>2. SubSeq(a \o b, 1, Len(a)) = a
  BY SubSeqOfConcat1, SubSeqFull
<1>3. SubSeq(a \o b, Len(a) + 1, Len(a \o b)) = b
  BY <1>1, ConcatSimplifications, SubSeqOfConcat2, SubSeqFull
<1> DEFINE z == a \o b
<1> HIDE DEF z
<1>4. Len(a) <= Len(z)
  BY <1>1 DEF z
<1> DEFINE in == Input(z)
<1>5. in.left = z /\ in.ok
  BY DEF Input
<1>6. SubSeq(z, Len(a) + 1, Len(z)) = b
  BY <1>3 DEF z
<1> HIDE DEF in
<1>7. nextData(in, Len(a)) = [value |-> a, in |-> Input(b)]
  <2>1. SubSeq(z, 1, Len(a)) = a
    BY <1>2 DEF z
  <2> QED
    BY <1>4, <1>5, <1>6, <2>1, Zenon DEF nextData
<1> QED
  BY <1>7 DEF Taken, z, in

LEMMA InputIs ==
  ASSUME NEW bytes \in Seq(Octets)
  PROVE  Input(bytes) \in Inputs
BY DEF Input, Inputs

(* An integer of any width is read back, whatever follows it. *)
LEMMA IntegerIsRead ==
  ASSUME NEW w \in Nat \ {0}, NEW signed \in BOOLEAN, NEW n \in Numbers(w, signed),
         NEW rest \in Seq(Octets)
  PROVE  nextInteger(Input(add(n, w) \o rest), w, signed) = Taken(n, rest)
<1>1. add(n, w) \in Seq(Octets) /\ Len(add(n, w)) = w
  <2>1. n \in Int /\ w \in Nat
    BY DEF Numbers
  <2> QED
    BY <2>1, AddIs
<1>2. nextData(Input(add(n, w) \o rest), w) = Taken(add(n, w), rest)
  BY <1>1, NextDataIs
<1>3. Assembled(add(n, w), w, signed) = n
  BY NumberAssembled
<1> DEFINE in == Input(add(n, w) \o rest)
           data == nextData(in, w)
<1>4. data.value = add(n, w) /\ data.in = Input(rest) /\ data.in.ok
  <2>1. data = [value |-> add(n, w), in |-> Input(rest)]
    BY <1>2 DEF Taken
  <2> HIDE DEF data
  <2>2. data.value = add(n, w) /\ data.in = Input(rest)
    BY <2>1
  <2>3. Input(rest).ok
    BY DEF Input
  <2> QED
    BY <2>2, <2>3
<1> HIDE DEF in, data
<1>5. nextInteger(in, w, signed) = [value |-> Assembled(data.value, w, signed), in |-> data.in]
  BY <1>4, Zenon DEF nextInteger, data
<1> QED
  BY <1>3, <1>4, <1>5, Zenon DEF Taken, in

LEMMA AddedByte ==
  ASSUME NEW n \in 0..255
  PROVE  n \in Int /\ n \in Numbers(1, FALSE) /\ add(n, 1) = <<n>> /\ n % ByteRange = n
<1>1. Above(n) = 0 /\ Below(n) = n /\ n \in Int
  BY ByBytes
<1>2. Shifted(n, 1)[0] = n /\ Shifted(n, 1)[1] = Above(Shifted(n, 1)[1 - 1]) /\ 1 - 1 = 0
  BY <1>1, ShiftedIs
<1>3. n < Huge
  BY FieldsAssumption DEF maxLength, ByteRange
<1>4. n \in Numbers(1, FALSE)
  BY <1>1, <1>2, <1>3 DEF Numbers
<1>5. add(n, 1) \in Seq(Octets) /\ Len(add(n, 1)) = 1 /\ add(n, 1)[1] = Below(Shifted(n, 1)[1 - 1])
  <2>1. 1 \in Nat /\ 1 \in 1..1
    OBVIOUS
  <2> QED
    BY <1>1, <2>1, AddIs, Zenon
<1>6. add(n, 1)[1] = n
  BY <1>1, <1>2, <1>5
<1>7. add(n, 1) = <<n>>
  BY <1>5, <1>6
<1> QED
  BY <1>1, <1>4, <1>7 DEF Below, ByteRange

LEMMA ByteIsRead ==
  ASSUME NEW n \in 0..255, NEW rest \in Seq(Octets)
  PROVE  nextInteger(Input(<<n>> \o rest), 1, FALSE) = Taken(n, rest)
<1>1. n \in Numbers(1, FALSE) /\ add(n, 1) = <<n>>
  BY AddedByte
<1>2. 1 \in Nat \ {0} /\ FALSE \in BOOLEAN
  OBVIOUS
<1>3. nextInteger(Input(add(n, 1) \o rest), 1, FALSE) = Taken(n, rest)
  BY <1>1, <1>2, IntegerIsRead, Zenon
<1> QED
  BY <1>1, <1>3, Zenon

(* A text that its type can hold. *)
Texts(type) == IF type = "s" THEN ShortTexts ELSE LongTexts

LEMMA ShortTextIs ==
  ASSUME NEW text \in ShortTexts
  PROVE  /\ text \in Seq(Octets) /\ Len(text) \in Int /\ Len(text) \in 0..255
         /\ Len(text) \in Numbers(1, FALSE) /\ Len(text) % ByteRange = Len(text)
<1>1. text \in Seq(Octets) /\ Len(text) <= maxLength
  BY Zenon DEF ShortTexts
<1>2. Len(text) \in Nat
  BY <1>1, LenProperties, Zenon
<1>3. Len(text) \in 0..255
  <2> DEFINE l == Len(text)
  <2>1. l \in Nat /\ l <= 255
    BY <1>1, <1>2 DEF maxLength, ByteRange
  <2> HIDE DEF l
  <2>2. l \in 0..255
    BY <2>1
  <2> QED
    BY <2>2 DEF l
<1> QED
  BY <1>1, <1>3, AddedByte, Zenon

LEMMA LongTextIs ==
  ASSUME NEW text \in LongTexts
  PROVE  text \in Seq(Octets) /\ Len(text) \in Int /\ Len(text) \in Numbers(4, FALSE)
<1>1. text \in Seq(Octets) /\ Len(text) \in Numbers(SizeWidth["S"], FALSE)
  BY Zenon DEF LongTexts
<1>2. SizeWidth["S"] = 4
  BY DEF SizeWidth
<1>3. Len(text) \in Int
  <2>1. Len(text) \in Nat
    BY <1>1, LenProperties, Zenon
  <2> QED
    BY <2>1
<1> QED
  BY <1>1, <1>2, <1>3, Zenon

(* A text is read back, whatever follows it. *)
LEMMA TextIsRead ==
  ASSUME NEW type \in {"s", "S"}, NEW text \in Texts(type), NEW rest \in Seq(Octets)
  PROVE  /\ fillString(type, text) \in Seq(Octets)
         /\ Len(fillString(type, text)) = SizeWidth[type] + Len(text)
         /\ StringField(Input(fillString(type, text) \o rest), type) = Taken(text, rest)
<1> DEFINE w == SizeWidth[type]
           head == add(Len(text), w)
<1>1. text \in Seq(Octets) /\ Len(text) \in Numbers(w, FALSE) /\ w \in Nat \ {0}
  <2>1. CASE type = "s"
    <3>1. text \in ShortTexts
      BY <2>1, Zenon DEF Texts
    <3>2. w = 1
      BY <2>1 DEF SizeWidth
    <3> HIDE DEF w
    <3>3. w \in Nat \ {0}
      BY <3>2
    <3> QED
      BY <3>1, <3>2, <3>3, ShortTextIs, Zenon
  <2>2. CASE type = "S"
    <3>1. text \in LongTexts
      BY <2>2 DEF Texts
    <3>2. w = 4
      BY <2>2 DEF SizeWidth
    <3> HIDE DEF w
    <3>3. w \in Nat \ {0}
      BY <3>2
    <3> QED
      BY <3>1, <3>2, <3>3, LongTextIs, Zenon
  <2> QED
    BY <2>1, <2>2
<1>2. fillString(type, text) = head \o text
  <2>1. type = "s" => text \in ShortTexts
    BY Zenon DEF Texts
  <2>2. type = "s" => Len(text) % ByteRange = Len(text)
    BY <2>1, ShortTextIs, Zenon
  <2> QED
    BY <2>2, Zenon DEF fillString
<1> HIDE DEF w
<1>3. head \in Seq(Octets) /\ Len(head) = w
  <2>1. Len(text) \in Int /\ w \in Nat
    BY <1>1
  <2> QED
    BY <2>1, AddIs
<1>4. nextInteger(Input(head \o (text \o rest)), w, FALSE) = Taken(Len(text), text \o rest)
  <2>1. text \o rest \in Seq(Octets)
    BY <1>1, ConcatProperties
  <2> QED
    BY <1>1, <2>1, IntegerIsRead
<1>5. nextData(Input(text \o rest), Len(text)) = Taken(text, rest)
  BY <1>1, NextDataIs
<1> HIDE DEF head
<1>6. (head \o text) \o rest = head \o (text \o rest)
  BY <1>1, <1>3, ConcatAssociative
<1> DEFINE length == nextInteger(Input(head \o (text \o rest)), w, FALSE)
<1>9. length.value = Len(text) /\ length.in = Input(text \o rest)
  <2> HIDE DEF length
  <2>1. length = [value |-> Len(text), in |-> Input(text \o rest)]
    BY <1>4, Zenon DEF Taken, length
  <2> QED
    BY <2>1
<1>10. StringField(Input(head \o (text \o rest)), type) = Announced(length)
  BY Zenon DEF StringField, w
<1> HIDE DEF length
<1>7. StringField(Input((head \o text) \o rest), type) = Taken(text, rest)
  BY <1>5, <1>6, <1>9, <1>10, Zenon DEF Announced
<1>8. head \o text \in Seq(Octets) /\ Len(head \o text) = w + Len(text)
  BY <1>1, <1>3, ConcatProperties
<1> QED
  BY <1>2, <1>7, <1>8 DEF w

-----------------------------------------------------------------------------
(* A BooleanSet is read back from its byte. *)
LEMMA BitsAreRead ==
  ASSUME NEW bits \in SUBSET Bits
  PROVE  Byte(bits) \in 0..255 /\ BooleanSet(Byte(bits)) = bits
<1> DEFINE bit(k) == IF k \in bits THEN Mask[k + 1] ELSE 0
<1>1. PICK b0 \in Int, b1 \in Int, b2 \in Int, b3 \in Int, b4 \in Int, b5 \in Int, b6 \in Int, b7 \in Int :
        /\ b0 = IF 0 \in bits THEN 1 ELSE 0
        /\ b1 = IF 1 \in bits THEN 1 ELSE 0
        /\ b2 = IF 2 \in bits THEN 1 ELSE 0
        /\ b3 = IF 3 \in bits THEN 1 ELSE 0
        /\ b4 = IF 4 \in bits THEN 1 ELSE 0
        /\ b5 = IF 5 \in bits THEN 1 ELSE 0
        /\ b6 = IF 6 \in bits THEN 1 ELSE 0
        /\ b7 = IF 7 \in bits THEN 1 ELSE 0
  OBVIOUS
<1> DEFINE x == b0 + 2 * b1 + 4 * b2 + 8 * b3 + 16 * b4 + 32 * b5 + 64 * b6 + 128 * b7
<1>2. Byte(bits) = x
  <2>1. /\ Mask[0 + 1] = 1 /\ Mask[1 + 1] = 2 /\ Mask[2 + 1] = 4 /\ Mask[3 + 1] = 8
        /\ Mask[4 + 1] = 16 /\ Mask[5 + 1] = 32 /\ Mask[6 + 1] = 64 /\ Mask[7 + 1] = 128
    BY DEF Mask
  <2> QED
    BY <1>1, <2>1 DEF Byte
<1>3. /\ b0 \in 0..1 /\ b1 \in 0..1 /\ b2 \in 0..1 /\ b3 \in 0..1
      /\ b4 \in 0..1 /\ b5 \in 0..1 /\ b6 \in 0..1 /\ b7 \in 0..1
  BY <1>1
<1>4. x \in 0..255
  BY <1>3
<1>5. /\ (x \div 1) % 2 = b0 /\ (x \div 2) % 2 = b1 /\ (x \div 4) % 2 = b2 /\ (x \div 8) % 2 = b3
      /\ (x \div 16) % 2 = b4 /\ (x \div 32) % 2 = b5 /\ (x \div 64) % 2 = b6
      /\ (x \div 128) % 2 = b7
  BY <1>3, SMTT(60)
<1> HIDE DEF x
<1>6. ASSUME NEW k \in Bits PROVE (x \div Mask[k + 1]) % 2 = 1 <=> k \in bits
  <2>1. k = 0 \/ k = 1 \/ k = 2 \/ k = 3 \/ k = 4 \/ k = 5 \/ k = 6 \/ k = 7
    BY DEF Bits
  <2>2. CASE k = 0  BY <1>1, <1>5, <2>2 DEF Mask
  <2>3. CASE k = 1  BY <1>1, <1>5, <2>3 DEF Mask
  <2>4. CASE k = 2  BY <1>1, <1>5, <2>4 DEF Mask
  <2>5. CASE k = 3  BY <1>1, <1>5, <2>5 DEF Mask
  <2>6. CASE k = 4  BY <1>1, <1>5, <2>6 DEF Mask
  <2>7. CASE k = 5  BY <1>1, <1>5, <2>7 DEF Mask
  <2>8. CASE k = 6  BY <1>1, <1>5, <2>8 DEF Mask
  <2>9. CASE k = 7  BY <1>1, <1>5, <2>9 DEF Mask
  <2> QED
    BY <2>1, <2>2, <2>3, <2>4, <2>5, <2>6, <2>7, <2>8, <2>9
<1>7. BooleanSet(x) = bits
  BY <1>6 DEF BooleanSet
<1> QED
  BY <1>2, <1>4, <1>7

LEMMA JoinedOnce ==
  ASSUME NEW a \in Seq(Octets), NEW b \in Seq(Octets)
  PROVE  /\ a \o b \in Seq(Octets) /\ Len(a \o b) = Len(a) + Len(b)
         /\ Len(a) \in Nat /\ Len(b) \in Nat
BY ConcatProperties

LEMMA JoinedTwice ==
  ASSUME NEW a \in Seq(Octets), NEW b \in Seq(Octets), NEW z \in Seq(Octets)
  PROVE  (a \o b) \o z = a \o (b \o z)
BY ConcatAssociative

LEMMA IntegerField ==
  ASSUME NEW w \in Nat \ {0}, NEW signed \in BOOLEAN, NEW n \in Numbers(w, signed)
  PROVE  n \in Int /\ add(n, w) \in Seq(Octets) /\ Len(add(n, w)) = w
<1>1. n \in Int
  BY Zenon DEF Numbers
<1>2. w \in Nat
  OBVIOUS
<1> QED
  BY <1>1, <1>2, AddIs, Zenon

LEMMA PlainFieldIs ==
  ASSUME NEW f \in PlainField
  PROVE  \/ f.type \in DOMAIN Width /\ f.held \in Numbers(Width[f.type], f.type \in Signed)
         \/ f.type = "t" /\ f.held \in SUBSET Bits
         \/ f.type = "D" /\ f.held \in [places : Numbers(1, FALSE), number : Numbers(4, FALSE)]
         \/ f.type = "V" /\ f.held = 0
         \/ f.type \in {"s", "S"} /\ f.held \in Texts(f.type)
<1>1. \/ f \in [type : DOMAIN Width, held : Int] /\ f.held \in Numbers(Width[f.type], f.type \in Signed)
      \/ f \in [type : {"t"}, held : SUBSET Bits]
      \/ f \in [type : {"D"}, held : [places : Numbers(1, FALSE), number : Numbers(4, FALSE)]]
      \/ f \in [type : {"V"}, held : {0}]
      \/ f \in [type : {"s"}, held : ShortTexts]
      \/ f \in [type : {"S"}, held : LongTexts]
  BY Zenon DEF PlainField
<1>2. CASE f \in [type : DOMAIN Width, held : Int] /\ f.held \in Numbers(Width[f.type], f.type \in Signed)
  BY <1>2
<1>3. CASE f \in [type : {"t"}, held : SUBSET Bits]
  BY <1>3
<1>4. CASE f \in [type : {"D"}, held : [places : Numbers(1, FALSE), number : Numbers(4, FALSE)]]
  BY <1>4
<1>5. CASE f \in [type : {"V"}, held : {0}]
  BY <1>5
<1>6. CASE f \in [type : {"s"}, held : ShortTexts]
  BY <1>6 DEF Texts
<1>7. CASE f \in [type : {"S"}, held : LongTexts]
  BY <1>7 DEF Texts
<1> QED
  BY <1>1, <1>2, <1>3, <1>4, <1>5, <1>6, <1>7

(* A field that holds one value is read back, and its size is right. *)
LEMMA PlainIsRead ==
  ASSUME NEW f \in PlainField, NEW rest \in Seq(Octets)
  PROVE  /\ fillPlain(f) \in Seq(Octets) /\ Len(fillPlain(f)) = sizePlain(f) /\ sizePlain(f) \in Nat
         /\ f.type \in DOMAIN typeID /\ f.type \notin Nested
         /\ decodePlain(f.type, Input(fillPlain(f) \o rest)) = Taken(f.held, rest)
<1> DEFINE type == f.type
           value == f.held
<1>1. CASE type \in DOMAIN Width /\ value \in Numbers(Width[type], type \in Signed)
  <2> DEFINE w == Width[type]
             signed == type \in Signed
  <2>1. w \in Nat \ {0} /\ type \in DOMAIN typeID /\ type \notin Nested
    BY <1>1 DEF Width, typeID, Nested
  <2>0. IsNumeric(type) /\ type # "t" /\ type # "D" /\ type # "V" /\ type \notin {"s", "S"}
    BY <1>1 DEF IsNumeric, Width
  <2>2. fillPlain(f) = add(value, w) /\ sizePlain(f) = w
    BY <2>0 DEF fillPlain, sizePlain
  <2>3. decodePlain(type, Input(add(value, w) \o rest))
          = nextInteger(Input(add(value, w) \o rest), w, signed)
    BY <2>0 DEF decodePlain
  <2>4. value \in Numbers(w, signed) /\ signed \in BOOLEAN
    BY <1>1
  <2> HIDE DEF w, signed, value, type
  <2>5. add(value, w) \in Seq(Octets) /\ Len(add(value, w)) = w
    BY <2>1, <2>4, IntegerField
  <2>6. nextInteger(Input(add(value, w) \o rest), w, signed) = Taken(value, rest)
    BY <2>1, <2>4, IntegerIsRead
  <2>7. w \in Nat
    BY <2>1
  <2> QED
    BY <2>1, <2>2, <2>3, <2>5, <2>6, <2>7, Zenon DEF type, value
<1>2. CASE type = "t" /\ value \in SUBSET Bits
  <2> DEFINE byte == Byte(value)
  <2>1. byte \in 0..255 /\ BooleanSet(byte) = value
    BY <1>2, BitsAreRead
  <2>2. fillPlain(f) = <<byte>> /\ sizePlain(f) = 1
        /\ decodePlain(type, Input(<<byte>> \o rest)) = OneByte(nextInteger(Input(<<byte>> \o rest), 1, FALSE))
    BY <1>2 DEF fillPlain, sizePlain, decodePlain, IsNumeric, Width
  <2>3. type \in DOMAIN typeID /\ type \notin Nested
    BY <1>2 DEF typeID, Nested
  <2> HIDE DEF byte, type, value
  <2>4. nextInteger(Input(<<byte>> \o rest), 1, FALSE) = Taken(byte, rest)
    BY <2>1, ByteIsRead
  <2>5. OneByte(Taken(byte, rest)) = Taken(value, rest)
    BY <2>1 DEF OneByte, Taken
  <2>6. <<byte>> \in Seq(Octets) /\ Len(<<byte>>) = 1 /\ 1 \in Nat
    BY <2>1 DEF Octets, ByteRange
  <2> QED
    BY <2>2, <2>3, <2>4, <2>5, <2>6 DEF type, value
<1>3. CASE type = "D" /\ value \in [places : Numbers(1, FALSE), number : Numbers(4, FALSE)]
  <2> DEFINE a == add(value.places, 1)
             b == add(value.number, 4)
  <2>1. value.places \in Numbers(1, FALSE) /\ value.number \in Numbers(4, FALSE)
        /\ value = [places |-> value.places, number |-> value.number]
    BY <1>3
  <2>2. fillPlain(f) = a \o b /\ sizePlain(f) = 5
        /\ \A in : decodePlain(type, in) = DecimalField(in)
    BY <1>3 DEF fillPlain, sizePlain, decodePlain, IsNumeric, Width
  <2>3. type \in DOMAIN typeID /\ type \notin Nested
    BY <1>3 DEF typeID, Nested
  <2> HIDE DEF type, value
  <2>4. a \in Seq(Octets) /\ Len(a) = 1 /\ b \in Seq(Octets) /\ Len(b) = 4
    <3>1. 1 \in Nat \ {0} /\ 4 \in Nat \ {0} /\ FALSE \in BOOLEAN
      OBVIOUS
    <3> QED
      BY <2>1, <3>1, IntegerField, Zenon
  <2>5. nextInteger(Input(a \o (b \o rest)), 1, FALSE) = Taken(value.places, b \o rest)
        /\ nextInteger(Input(b \o rest), 4, FALSE) = Taken(value.number, rest)
    <3>1. 1 \in Nat \ {0} /\ 4 \in Nat \ {0} /\ FALSE \in BOOLEAN
      OBVIOUS
    <3>2. b \o rest \in Seq(Octets)
      BY <2>4, ConcatProperties
    <3> QED
      BY <2>1, <3>1, <3>2, IntegerIsRead, Zenon
  <2> HIDE DEF a, b
  <2> DEFINE places == nextInteger(Input(a \o (b \o rest)), 1, FALSE)
             number == nextInteger(Input(b \o rest), 4, FALSE)
  <2>6. DecimalField(Input(a \o (b \o rest)))
          = [value |-> [places |-> value.places, number |-> value.number], in |-> Input(rest)]
    <3>1. /\ places.value = value.places /\ places.in = Input(b \o rest)
          /\ number.value = value.number /\ number.in = Input(rest)
      <4> HIDE DEF places, number
      <4>1. places = [value |-> value.places, in |-> Input(b \o rest)]
            /\ number = [value |-> value.number, in |-> Input(rest)]
        BY <2>5, Zenon DEF places, number, Taken
      <4> QED
        BY <4>1
    <3>2. DecimalField(Input(a \o (b \o rest))) = Decimal(places, nextInteger(places.in, 4, FALSE))
      BY Zenon DEF DecimalField
    <3> HIDE DEF places
    <3>3. nextInteger(places.in, 4, FALSE) = number
      BY <3>1
    <3> HIDE DEF number
    <3> QED
      BY <3>1, <3>2, <3>3, Zenon DEF Decimal
  <2>7. (a \o b) \o rest = a \o (b \o rest)
    BY <2>4, JoinedTwice, Zenon
  <2>8. a \o b \in Seq(Octets) /\ Len(a \o b) = 5
    <3>0. a \in Seq(Octets) /\ b \in Seq(Octets)
      BY <2>4
    <3>1. a \o b \in Seq(Octets) /\ Len(a \o b) = Len(a) + Len(b)
      BY <3>0, JoinedOnce
    <3> QED
      BY <2>4, <3>1
  <2> QED
    BY <2>1, <2>2, <2>3, <2>6, <2>7, <2>8 DEF Taken, type, value
<1>4. CASE type = "V" /\ value = 0
  <2>1. fillPlain(f) = <<>> /\ sizePlain(f) = 0
        /\ \A in : decodePlain(type, in) = [value |-> 0, in |-> in]
    BY <1>4 DEF fillPlain, sizePlain, decodePlain, IsNumeric, Width
  <2>2. type \in DOMAIN typeID /\ type \notin Nested
    BY <1>4 DEF typeID, Nested
  <2>3. <<>> \o rest = rest
    OBVIOUS
  <2> QED
    BY <1>4, <2>1, <2>2, <2>3 DEF Taken
<1>5. CASE type \in {"s", "S"} /\ value \in Texts(type)
  <2>1. fillPlain(f) = fillString(type, value) /\ sizePlain(f) = SizeWidth[type] + Len(value)
        /\ \A in : decodePlain(type, in) = StringField(in, type)
    BY <1>5 DEF fillPlain, sizePlain, decodePlain, IsNumeric, Width
  <2>2. type \in DOMAIN typeID /\ type \notin Nested
    BY <1>5 DEF typeID, Nested
  <2> HIDE DEF type, value
  <2>3. /\ fillString(type, value) \in Seq(Octets)
        /\ Len(fillString(type, value)) = SizeWidth[type] + Len(value)
        /\ StringField(Input(fillString(type, value) \o rest), type) = Taken(value, rest)
    BY <1>5, TextIsRead
  <2>4. Len(fillString(type, value)) \in Nat
    BY <2>3, LenProperties, Zenon
  <2> QED
    BY <2>1, <2>2, <2>3, <2>4, Zenon DEF type, value
<1> QED
  BY <1>1, <1>2, <1>3, <1>4, <1>5, PlainFieldIs

-----------------------------------------------------------------------------
(* A sum and a list that loops make up, seen from each place on.           *)
IsTotal(from, terms) ==
  from = [k \in 0..Len(terms) |-> IF k = 0 THEN 0 ELSE terms[Len(terms) - k + 1] + from[k - 1]]

LEMMA TotalIs ==
  ASSUME NEW m \in Nat, NEW terms \in [1..m -> Nat]
  PROVE  \E tails \in [0..m -> Nat] :
           /\ Total(terms) = tails[0] /\ tails[m] = 0
           /\ \A k \in 1..m : tails[k - 1] = terms[k] + tails[k]
<1>1. Len(terms) = m
  OBVIOUS
<1> DEFINE step == [k \in 1..m |-> [x \in Nat |-> terms[m - k + 1] + x]]
<1>2. step \in [1..m -> [Nat -> Nat]]
  <2>1. ASSUME NEW k \in 1..m, NEW x \in Nat PROVE terms[m - k + 1] + x \in Nat
    <3>1. m - k + 1 \in 1..m
      OBVIOUS
    <3>2. terms[m - k + 1] \in Nat
      BY <3>1
    <3> QED
      BY <3>2
  <2> QED
    BY <2>1
<1>3. PICK f \in [0..m -> Nat] : Steps(f, m, 0, step)
  <2> HIDE DEF step
  <2>1. 0 \in Nat
    OBVIOUS
  <2> QED
    BY <1>2, <2>1, LoopExists
<1>4. ASSUME NEW k \in 0..m
      PROVE  f[k] = IF k = 0 THEN 0 ELSE terms[m - k + 1] + f[k - 1]
  <2>1. f[k] = IF k = 0 THEN 0 ELSE step[k][f[k - 1]]
    BY <1>3 DEF Steps
  <2>2. k # 0 => k \in 1..m /\ f[k - 1] \in Nat
    OBVIOUS
  <2> QED
    BY <2>1, <2>2
<1>5. f = [k \in 0..m |-> f[k]]
  OBVIOUS
<1>6. IsTotal(f, terms)
  BY <1>1, <1>4, <1>5 DEF IsTotal
<1> DEFINE g == CHOOSE h : IsTotal(h, terms)
<1>7. IsTotal(g, terms)
  BY <1>6
<1>8. Total(terms) = g[m]
  BY <1>1 DEF Total, IsTotal
<1> HIDE DEF g
<1>9. \A k \in 0..m : g[k] = IF k = 0 THEN 0 ELSE terms[m - k + 1] + g[k - 1]
  BY <1>1, <1>7 DEF IsTotal
<1> DEFINE S == {k \in 0..m : g[k] \in Nat}
<1>10. 0..m \subseteq S
  <2>1. 0 \in S
    BY <1>9
  <2>2. ASSUME NEW k \in 1..m, k - 1 \in S PROVE k \in S
    <3>1. m - k + 1 \in 1..m /\ k \in 0..m /\ k # 0
      OBVIOUS
    <3>2. terms[m - k + 1] \in Nat /\ g[k - 1] \in Nat
      BY <2>2, <3>1
    <3>3. g[k] = terms[m - k + 1] + g[k - 1]
      BY <1>9, <3>1
    <3> QED
      BY <3>1, <3>2, <3>3, SMTT(30)
  <2> HIDE DEF S
  <2> QED
    BY <2>1, <2>2, Upwards
<1> DEFINE tails == [k \in 0..m |-> g[m - k]]
<1>11. tails \in [0..m -> Nat]
  <2>1. ASSUME NEW k \in 0..m PROVE g[m - k] \in Nat
    <3>1. m - k \in 0..m
      OBVIOUS
    <3> QED
      BY <1>10, <3>1
  <2> QED
    BY <2>1
<1>12. tails[0] = g[m] /\ tails[m] = 0
  BY <1>9
<1>13. ASSUME NEW k \in 1..m PROVE tails[k - 1] = terms[k] + tails[k]
  <2>1. m - (k - 1) \in 0..m /\ m - (k - 1) # 0 /\ m - (m - (k - 1)) + 1 = k
        /\ (m - (k - 1)) - 1 = m - k /\ k - 1 \in 0..m /\ k \in 0..m
    OBVIOUS
  <2>2. g[m - (k - 1)] = terms[k] + g[m - k]
    BY <1>9, <2>1
  <2> QED
    BY <2>1, <2>2
<1> QED
  BY <1>8, <1>11, <1>12, <1>13

IsConcatenated(from, pieces) ==
  from = [k \in 0..Len(pieces) |->
            IF k = 0 THEN <<>> ELSE pieces[Len(pieces) - k + 1] \o from[k - 1]]

LEMMA ConcatenatedIs ==
  ASSUME NEW m \in Nat, NEW pieces \in [1..m -> Seq(Octets)]
  PROVE  \E rests \in [0..m -> Seq(Octets)] :
           /\ Concatenated(pieces) = rests[0] /\ rests[m] = <<>>
           /\ \A k \in 1..m : rests[k - 1] = pieces[k] \o rests[k]
<1>1. Len(pieces) = m
  OBVIOUS
<1> DEFINE D == Seq(Octets)
           step == [k \in 1..m |-> [x \in D |-> pieces[m - k + 1] \o x]]
<1>2. step \in [1..m -> [D -> D]]
  <2>1. ASSUME NEW k \in 1..m, NEW x \in D PROVE pieces[m - k + 1] \o x \in D
    <3>1. m - k + 1 \in 1..m
      OBVIOUS
    <3>2. pieces[m - k + 1] \in D
      BY <3>1
    <3> QED
      BY <3>2, JoinedOnce
  <2> HIDE DEF D
  <2> QED
    BY <2>1
<1>3. PICK f \in [0..m -> D] : Steps(f, m, <<>>, step)
  <2>1. <<>> \in D
    OBVIOUS
  <2> HIDE DEF step, D
  <2> QED
    BY <1>2, <2>1, LoopExists
<1> HIDE DEF D
<1>4. ASSUME NEW k \in 0..m
      PROVE  f[k] = IF k = 0 THEN <<>> ELSE pieces[m - k + 1] \o f[k - 1]
  <2>1. f[k] = IF k = 0 THEN <<>> ELSE step[k][f[k - 1]]
    BY <1>3 DEF Steps
  <2>2. k # 0 => k \in 1..m /\ f[k - 1] \in D
    OBVIOUS
  <2> QED
    BY <2>1, <2>2
<1>5. f = [k \in 0..m |-> f[k]]
  OBVIOUS
<1>6. IsConcatenated(f, pieces)
  BY <1>1, <1>4, <1>5 DEF IsConcatenated
<1> DEFINE g == CHOOSE h : IsConcatenated(h, pieces)
<1>7. IsConcatenated(g, pieces)
  BY <1>6
<1>8. Concatenated(pieces) = g[m]
  BY <1>1 DEF Concatenated, IsConcatenated
<1> HIDE DEF g
<1>9. \A k \in 0..m : g[k] = IF k = 0 THEN <<>> ELSE pieces[m - k + 1] \o g[k - 1]
  BY <1>1, <1>7 DEF IsConcatenated
<1> DEFINE S == {k \in 0..m : g[k] \in D}
<1>10. 0..m \subseteq S
  <2>1. 0 \in S
    <3>1. <<>> \in D
      BY DEF D
    <3> QED
      BY <1>9, <3>1
  <2>2. ASSUME NEW k \in 1..m, k - 1 \in S PROVE k \in S
    <3>1. m - k + 1 \in 1..m /\ k \in 0..m /\ k # 0
      OBVIOUS
    <3>2. pieces[m - k + 1] \in D /\ g[k - 1] \in D
      BY <2>2, <3>1 DEF D
    <3>3. g[k] = pieces[m - k + 1] \o g[k - 1]
      BY <1>9, <3>1
    <3>4. pieces[m - k + 1] \o g[k - 1] \in D
      BY <3>2, JoinedOnce, Zenon DEF D
    <3> QED
      BY <3>1, <3>3, <3>4
  <2> HIDE DEF S
  <2> QED
    BY <2>1, <2>2, Upwards
<1> DEFINE rests == [k \in 0..m |-> g[m - k]]
<1>11. rests \in [0..m -> D]
  <2>1. ASSUME NEW k \in 0..m PROVE g[m - k] \in D
    <3>1. m - k \in 0..m
      OBVIOUS
    <3> QED
      BY <1>10, <3>1
  <2> QED
    BY <2>1
<1>12. rests[0] = g[m] /\ rests[m] = <<>>
  BY <1>9
<1>13. ASSUME NEW k \in 1..m PROVE rests[k - 1] = pieces[k] \o rests[k]
  <2>1. m - (k - 1) \in 0..m /\ m - (k - 1) # 0 /\ m - (m - (k - 1)) + 1 = k
        /\ (m - (k - 1)) - 1 = m - k /\ k - 1 \in 0..m /\ k \in 0..m
    OBVIOUS
  <2>2. g[m - (k - 1)] = pieces[k] \o g[m - k]
    BY <1>9, <2>1
  <2> QED
    BY <2>1, <2>2
<1> QED
  BY <1>8, <1>11, <1>12, <1>13 DEF D

(* No part of a total, and no rest of it, is more than the whole. *)
LEMMA TotalBounds ==
  ASSUME NEW m \in Nat, NEW terms \in [1..m -> Nat]
  PROVE  Total(terms) \in Nat /\ \A k \in 1..m : terms[k] <= Total(terms)
<1>1. PICK tails \in [0..m -> Nat] :
        /\ Total(terms) = tails[0] /\ tails[m] = 0
        /\ \A k \in 1..m : tails[k - 1] = terms[k] + tails[k]
  BY TotalIs
<1> DEFINE S == {k \in 0..m : tails[k] <= tails[0]}
<1>2. 0..m \subseteq S
  <2>1. 0 \in S
    OBVIOUS
  <2>2. ASSUME NEW k \in 1..m, k - 1 \in S PROVE k \in S
    <3>1. k \in 0..m /\ k - 1 \in 0..m /\ 0 \in 0..m
      OBVIOUS
    <3>2. tails[k] \in Nat /\ tails[k - 1] \in Nat /\ tails[0] \in Nat /\ terms[k] \in Nat
      BY <3>1
    <3>3. tails[k - 1] = terms[k] + tails[k] /\ tails[k - 1] <= tails[0]
      BY <1>1, <2>2
    <3> QED
      BY <3>1, <3>2, <3>3
  <2> HIDE DEF S
  <2> QED
    BY <2>1, <2>2, Upwards
<1>3. ASSUME NEW k \in 1..m PROVE terms[k] <= tails[0]
  <2>1. k \in 0..m /\ k - 1 \in 0..m /\ 0 \in 0..m
    OBVIOUS
  <2>2. tails[k] \in Nat /\ tails[k - 1] \in Nat /\ tails[0] \in Nat /\ terms[k] \in Nat
    BY <2>1
  <2>3. tails[k - 1] <= tails[0]
    BY <1>2, <2>1
  <2> QED
    BY <1>1, <2>2, <2>3
<1>4. tails[0] \in Nat
  OBVIOUS
<1> QED
  BY <1>1, <1>3, <1>4

(* The pieces together are as long as all of them. *)
LEMMA LengthsAdd ==
  ASSUME NEW m \in Nat, NEW pieces \in [1..m -> Seq(Octets)], NEW terms \in [1..m -> Nat],
         \A k \in 1..m : Len(pieces[k]) = terms[k]
  PROVE  Concatenated(pieces) \in Seq(Octets) /\ Len(Concatenated(pieces)) = Total(terms)
<1>1. PICK tails \in [0..m -> Nat] :
        /\ Total(terms) = tails[0] /\ tails[m] = 0
        /\ \A k \in 1..m : tails[k - 1] = terms[k] + tails[k]
  BY TotalIs
<1>2. PICK rests \in [0..m -> Seq(Octets)] :
        /\ Concatenated(pieces) = rests[0] /\ rests[m] = <<>>
        /\ \A k \in 1..m : rests[k - 1] = pieces[k] \o rests[k]
  BY ConcatenatedIs
<1> DEFINE S == {j \in 0..m : Len(rests[m - j]) = tails[m - j]}
<1>3. 0..m \subseteq S
  <2>1. 0 \in S
    BY <1>1, <1>2
  <2>2. ASSUME NEW j \in 1..m, j - 1 \in S PROVE j \in S
    <3> DEFINE k == m - j + 1
    <3>1. k \in 1..m /\ m - (j - 1) = k /\ m - j = k - 1 /\ k \in 0..m /\ k - 1 \in 0..m /\ j \in 0..m
      OBVIOUS
    <3> HIDE DEF k
    <3>2. rests[k - 1] = pieces[k] \o rests[k] /\ tails[k - 1] = terms[k] + tails[k]
          /\ Len(rests[k]) = tails[k] /\ Len(pieces[k]) = terms[k]
      BY <1>1, <1>2, <2>2, <3>1
    <3>3. pieces[k] \in Seq(Octets) /\ rests[k] \in Seq(Octets)
      BY <3>1
    <3>4. Len(pieces[k] \o rests[k]) = Len(pieces[k]) + Len(rests[k])
      BY <3>3, JoinedOnce, Zenon
    <3> QED
      BY <3>1, <3>2, <3>4
  <2> HIDE DEF S
  <2> QED
    BY <2>1, <2>2, Upwards
<1>4. m \in 0..m /\ m - m = 0 /\ 0 \in 0..m
  OBVIOUS
<1>5. Len(rests[0]) = tails[0]
  BY <1>3, <1>4
<1>6. rests[0] \in Seq(Octets)
  BY <1>4
<1> QED
  BY <1>1, <1>2, <1>5, <1>6

-----------------------------------------------------------------------------
(* The functions that are defined depth by depth exist, so their           *)
(* definitions hold of them at every depth.                                *)
FieldLayer(depth, inner) ==
  IF depth = 0 THEN PlainField
  ELSE PlainField \cup [type : {"A"}, held : Seq(inner)]
             \cup [type : {"F"}, held : [Names -> {Absent} \cup inner]]

SizesLayer(depth, inner) ==
  [field \in Field[depth] |->
     IF field.type \in Nested THEN sizeEntries(field, inner) ELSE sizePlain(field)]

FillsLayer(depth, inner) ==
  [field \in Field[depth] |->
     IF field.type \in Nested THEN fillEntries(field, inner) ELSE fillPlain(field)]

DecodesLayer(depth, inner) ==
  [type \in DOMAIN typeID |->
     [in \in Inputs |->
        IF type \notin Nested THEN decodePlain(type, in)
        ELSE IF depth = 0 THEN Unread(in)
        ELSE decodeNested(type, StringField(in, "S"), inner)]]

EntriesLayer(loop, turn, prior) ==
  IF turn = 0 THEN [value |-> IF loop.type = "A" THEN <<>> ELSE EmptyTable,
                    in    |-> [left |-> loop.data.value, ok |-> loop.data.in.ok]]
  ELSE decodeEntry(loop.type, prior, loop.inner)

PropertiesLayer(loop, turn, prior) ==
  IF turn = 0 THEN [value |-> [MetaData EXCEPT !.bools = loop.bools], in |-> loop.in]
  ELSE readProperty(prior, ReadOrder[turn])

EvaluatedLayer(loop, turn, prior) ==
  IF turn = 0 THEN <<>> ELSE Append(prior, loop.seq[turn])

Layer(which, depth, inner) ==
  CASE which.of = "Field"      -> FieldLayer(depth, inner)
    [] which.of = "sizes"      -> SizesLayer(depth, inner)
    [] which.of = "fills"      -> FillsLayer(depth, inner)
    [] which.of = "decodes"    -> DecodesLayer(depth, inner)
    [] which.of = "entries"    -> EntriesLayer(which, depth, inner)
    [] which.of = "properties" -> PropertiesLayer(which, depth, inner)
    [] which.of = "evaluated"  -> EvaluatedLayer(which, depth, inner)

Layered(which, f, n) == f = [depth \in 0..n |-> Layer(which, depth, f[depth - 1])]

(* Whatever is defined layer by layer exists. *)
LEMMA LayersExist ==
  ASSUME NEW which, NEW n \in Nat, \A a, b : Layer(which, 0, a) = Layer(which, 0, b)
  PROVE  \E f : Layered(which, f, n)
<1> DEFINE S == {m \in 0..n : \E f : Layered(which, f, m)}
<1>1. 0 \in S
  <2> DEFINE f == [depth \in 0..0 |-> Layer(which, 0, 0)]
  <2>1. f[0] = Layer(which, 0, f[0 - 1])
    OBVIOUS
  <2>2. f = [depth \in 0..0 |-> f[depth]]
    OBVIOUS
  <2> HIDE DEF f
  <2>3. \A depth \in 0..0 : f[depth] = Layer(which, depth, f[depth - 1])
    BY <2>1
  <2>4. Layered(which, f, 0)
    BY <2>2, <2>3 DEF Layered
  <2> QED
    BY <2>4
<1>2. ASSUME NEW m \in 1..n, m - 1 \in S PROVE m \in S
  <2>1. PICK f : Layered(which, f, m - 1)
    BY <1>2
  <2> DEFINE g == [k \in 0..m |-> IF k = m THEN Layer(which, m, f[m - 1]) ELSE f[k]]
  <2>2. m \in 0..m /\ m - 1 \in 0..m /\ m - 1 # m /\ m \in 0..n
    OBVIOUS
  <2>3. ASSUME NEW k \in 0..m PROVE g[k] = Layer(which, k, g[k - 1])
    <3>1. CASE k = m
      BY <2>2, <3>1
    <3>2. CASE k # m
      <4>1. k \in 0..m - 1 /\ g[k] = f[k]
        BY <3>2
      <4>2. f[k] = Layer(which, k, f[k - 1])
        BY <2>1, <4>1 DEF Layered
      <4>3. CASE k = 0
        <5>1. Layer(which, 0, f[k - 1]) = Layer(which, 0, g[k - 1])
          OBVIOUS
        <5> QED
          BY <4>1, <4>2, <4>3, <5>1
      <4>4. CASE k # 0
        <5>1. k - 1 \in 0..m /\ k - 1 # m
          BY <3>2, <4>4
        <5>2. g[k - 1] = f[k - 1]
          BY <5>1
        <5> QED
          BY <4>1, <4>2, <5>2
      <4> QED
        BY <4>3, <4>4
    <3> QED
      BY <3>1, <3>2
  <2>4. g = [k \in 0..m |-> g[k]]
    OBVIOUS
  <2> HIDE DEF g
  <2>5. Layered(which, g, m)
    BY <2>3, <2>4 DEF Layered
  <2> QED
    BY <2>2, <2>5
<1> HIDE DEF S
<1>3. 0..n \subseteq S
  BY <1>1, <1>2, Upwards
<1> QED
  BY <1>3 DEF S

LEMMA FieldIs ==
  \A depth \in 0..MaxDepth : Field[depth] = FieldLayer(depth, Field[depth - 1])
<1>1. MaxDepth \in Nat
  BY DepthAssumption
<1>2. \A a, b : Layer([of |-> "Field"], 0, a) = Layer([of |-> "Field"], 0, b)
  BY DEF Layer, FieldLayer
<1>3. PICK f : Layered([of |-> "Field"], f, MaxDepth)
  BY <1>1, <1>2, LayersExist, Zenon
<1>4. \A depth, inner : Layer([of |-> "Field"], depth, inner) = FieldLayer(depth, inner)
  BY DEF Layer
<1> DEFINE Is(h) == h = [depth \in 0..MaxDepth |-> FieldLayer(depth, h[depth - 1])]
<1>5. Is(f)
  BY <1>3, <1>4 DEF Layered
<1>6. Field = CHOOSE h : Is(h)
  BY Zenon DEF Field, FieldLayer
<1>7. Is(Field)
  BY <1>5, <1>6
<1> QED
  BY <1>7

LEMMA DepthIs ==
  /\ MaxDepth \in Nat /\ 0 \in 0..MaxDepth /\ MaxDepth \in 0..MaxDepth
  /\ \A k \in 0..MaxDepth : k \in Nat
  /\ Field[0] = PlainField
<1>1. MaxDepth \in Nat
  BY DepthAssumption
<1>2. 0 \in 0..MaxDepth /\ MaxDepth \in 0..MaxDepth /\ \A k \in 0..MaxDepth : k \in Nat
  BY <1>1
<1>3. Field[0] = FieldLayer(0, Field[0 - 1])
  BY <1>2, FieldIs, Zenon
<1>4. Field[0] = PlainField
  BY <1>3 DEF FieldLayer
<1> QED
  BY <1>1, <1>2, <1>4

LEMMA SizesIs ==
  \A depth \in 0..MaxDepth : sizes[depth] = SizesLayer(depth, sizes[depth - 1])
<1>1. MaxDepth \in Nat
  BY DepthAssumption
<1>2. \A a, b : Layer([of |-> "sizes"], 0, a) = Layer([of |-> "sizes"], 0, b)
  <2>1. \A field \in Field[0] : field.type \notin Nested
    <3>1. <<>> \in Seq(Octets)
      OBVIOUS
    <3> QED
      BY <3>1, DepthIs, PlainIsRead
  <2>2. \A a, b : SizesLayer(0, a) = SizesLayer(0, b)
    BY <2>1 DEF SizesLayer
  <2> QED
    BY <2>2 DEF Layer
<1>3. PICK f : Layered([of |-> "sizes"], f, MaxDepth)
  BY <1>1, <1>2, LayersExist, Zenon
<1>4. \A depth, inner : Layer([of |-> "sizes"], depth, inner) = SizesLayer(depth, inner)
  BY DEF Layer
<1> DEFINE Is(h) == h = [depth \in 0..MaxDepth |-> SizesLayer(depth, h[depth - 1])]
<1>5. Is(f)
  BY <1>3, <1>4 DEF Layered
<1>6. sizes = CHOOSE h : Is(h)
  BY Zenon DEF sizes, SizesLayer
<1>7. Is(sizes)
  BY <1>5, <1>6
<1> QED
  BY <1>7

LEMMA FillsIs ==
  \A depth \in 0..MaxDepth : fills[depth] = FillsLayer(depth, fills[depth - 1])
<1>1. MaxDepth \in Nat
  BY DepthAssumption
<1>2. \A a, b : Layer([of |-> "fills"], 0, a) = Layer([of |-> "fills"], 0, b)
  <2>1. \A field \in Field[0] : field.type \notin Nested
    <3>1. <<>> \in Seq(Octets)
      OBVIOUS
    <3> QED
      BY <3>1, DepthIs, PlainIsRead
  <2>2. \A a, b : FillsLayer(0, a) = FillsLayer(0, b)
    BY <2>1 DEF FillsLayer
  <2> QED
    BY <2>2 DEF Layer
<1>3. PICK f : Layered([of |-> "fills"], f, MaxDepth)
  BY <1>1, <1>2, LayersExist, Zenon
<1>4. \A depth, inner : Layer([of |-> "fills"], depth, inner) = FillsLayer(depth, inner)
  BY DEF Layer
<1> DEFINE Is(h) == h = [depth \in 0..MaxDepth |-> FillsLayer(depth, h[depth - 1])]
<1>5. Is(f)
  BY <1>3, <1>4 DEF Layered
<1>6. fills = CHOOSE h : Is(h)
  BY Zenon DEF fills, FillsLayer
<1>7. Is(fills)
  BY <1>5, <1>6
<1> QED
  BY <1>7

LEMMA DecodesIs ==
  \A depth \in 0..MaxDepth : decodes[depth] = DecodesLayer(depth, decodes[depth - 1])
<1>1. MaxDepth \in Nat
  BY DepthAssumption
<1>2. \A a, b : Layer([of |-> "decodes"], 0, a) = Layer([of |-> "decodes"], 0, b)
  BY DEF Layer, DecodesLayer
<1>3. PICK f : Layered([of |-> "decodes"], f, MaxDepth)
  BY <1>1, <1>2, LayersExist, Zenon
<1>4. \A depth, inner : Layer([of |-> "decodes"], depth, inner) = DecodesLayer(depth, inner)
  BY DEF Layer
<1> DEFINE Is(h) == h = [depth \in 0..MaxDepth |-> DecodesLayer(depth, h[depth - 1])]
<1>5. Is(f)
  BY <1>3, <1>4 DEF Layered
<1>6. decodes = CHOOSE h : Is(h)
  BY DEF decodes, DecodesLayer
<1>7. Is(decodes)
  BY <1>5, <1>6
<1> QED
  BY <1>7

-----------------------------------------------------------------------------
(* The fields of some depth are written in as many bytes as their size     *)
(* says, and read back from them; a table or an array must not be longer   *)
(* than its own size can say.                                              *)
KeptAt(depth) ==
  \A f \in Field[depth] :
    /\ f.type \in DOMAIN typeID /\ f = [type |-> f.type, held |-> f.held]
    /\ sizes[depth][f] \in Nat
    /\ fills[depth][f] \in Seq(Octets) /\ Len(fills[depth][f]) = sizes[depth][f]

Writable(f, depth) == f.type \in Nested => sizes[depth][f] \in Numbers(4, FALSE)

Decoded(depth, type, in) == decodes[depth][type][in]

ReadAt(depth) ==
  \A f \in Field[depth] : Writable(f, depth) =>
    \A rest \in Seq(Octets) :
      Decoded(depth, f.type, Input(fills[depth][f] \o rest)) = Taken(f.held, rest)

(* Every type has a byte of its own. *)
LEMMA TypeIDs ==
  /\ \A t \in DOMAIN typeID : typeID[t] \in 0..255
  /\ \A t, u \in DOMAIN typeID : typeID[t] = typeID[u] => t = u
BY DEF typeID

LEMMA NestedFieldIs ==
  ASSUME NEW depth \in 0..MaxDepth, NEW f \in Field[depth], f.type \in Nested
  PROVE  /\ depth # 0 /\ depth - 1 \in 0..MaxDepth
         /\ f = [type |-> f.type, held |-> f.held]
         /\ \/ f.type = "A" /\ f.held \in Seq(Field[depth - 1])
            \/ f.type = "F" /\ f.held \in [Names -> {Absent} \cup Field[depth - 1]]
<1>1. f \notin PlainField
  <2>1. <<>> \in Seq(Octets)
    OBVIOUS
  <2> QED
    BY <2>1, PlainIsRead
<1>2. Field[depth] = FieldLayer(depth, Field[depth - 1])
  BY FieldIs, Zenon
<1>3. depth # 0
  BY <1>1, <1>2 DEF FieldLayer
<1>4. depth - 1 \in 0..MaxDepth
  BY <1>3, DepthIs
<1> DEFINE Inner == Field[depth - 1]
<1>5. f \in PlainField \cup [type : {"A"}, held : Seq(Inner)]
            \cup [type : {"F"}, held : [Names -> {Absent} \cup Inner]]
  BY <1>2, <1>3, Zenon DEF FieldLayer
<1> HIDE DEF Inner
<1>6. f \in [type : {"A"}, held : Seq(Inner)] \/ f \in [type : {"F"}, held : [Names -> {Absent} \cup Inner]]
  BY <1>1, <1>5, Zenon
<1>7. CASE f \in [type : {"A"}, held : Seq(Inner)]
  BY <1>3, <1>4, <1>7 DEF Inner
<1>8. CASE f \in [type : {"F"}, held : [Names -> {Absent} \cup Inner]]
  BY <1>3, <1>4, <1>8 DEF Inner
<1> QED
  BY <1>6, <1>7, <1>8

LEMMA PlainAtDepth ==
  ASSUME NEW depth \in 0..MaxDepth, NEW f \in Field[depth], f.type \notin Nested
  PROVE  f \in PlainField
<1>1. Field[depth] = FieldLayer(depth, Field[depth - 1])
  BY FieldIs, Zenon
<1>2. f \notin [type : {"A"}, held : Seq(Field[depth - 1])]
  BY DEF Nested
<1>3. f \notin [type : {"F"}, held : [Names -> {Absent} \cup Field[depth - 1]]]
  BY DEF Nested
<1> QED
  BY <1>1, <1>2, <1>3, Zenon DEF FieldLayer

(* The slots of a table or an array hold nothing or a field. *)
LEMMA SlotsAre ==
  ASSUME NEW depth \in 0..MaxDepth, NEW f \in Field[depth], f.type \in Nested
  PROVE  /\ Slots(f) \in Nat
         /\ \A k \in 1..Slots(f) :
              /\ HasEntry(f, k) => Entry(f, k) \in Field[depth - 1]
              /\ f.type = "A" => HasEntry(f, k)
<1>0. depth - 1 \in 0..MaxDepth
  BY NestedFieldIs
<1>1. Absent \notin Field[depth - 1]
  BY <1>0, DepthAssumption
<1> DEFINE Inner == Field[depth - 1]
<1>2. \/ f.type = "A" /\ f.held \in Seq(Inner)
      \/ f.type = "F" /\ f.held \in [Names -> {Absent} \cup Inner]
  BY NestedFieldIs
<1> HIDE DEF Inner
<1>3. CASE f.type = "A" /\ f.held \in Seq(Inner)
  <2>1. Slots(f) = Len(f.held) /\ \A k : Entry(f, k) = f.held[k]
    BY <1>3 DEF Slots, Entry
  <2>2. Len(f.held) \in Nat /\ \A k \in 1..Len(f.held) : f.held[k] \in Inner
    BY <1>3
  <2>3. \A k \in 1..Len(f.held) : f.held[k] # Absent
    BY <1>1, <2>2 DEF Inner
  <2> QED
    BY <2>1, <2>2, <2>3 DEF HasEntry, Inner
<1>4. CASE f.type = "F" /\ f.held \in [Names -> {Absent} \cup Inner]
  <2>1. Slots(f) = Len(TableNames) /\ \A k : Entry(f, k) = f.held[TableNames[k]]
    BY <1>4 DEF Slots, Entry
  <2>2. Len(TableNames) \in Nat /\ \A k \in 1..Len(TableNames) : TableNames[k] \in Names
    <3>1. TableNames \in Seq(ShortTexts)
      BY FieldsAssumption
    <3> QED
      BY <3>1 DEF Names, ToSet
  <2>3. \A k \in 1..Len(TableNames) : f.held[TableNames[k]] \in {Absent} \cup Inner
    BY <1>4, <2>2
  <2> QED
    BY <1>4, <2>1, <2>2, <2>3 DEF HasEntry, Inner
<1> QED
  BY <1>2, <1>3, <1>4

(* The name before an entry. *)
LEMMA NameIs ==
  ASSUME NEW f, f.type \in Nested, NEW k \in 1..Slots(f)
  PROVE  /\ fillName(f, k) \in Seq(Octets) /\ Len(fillName(f, k)) = sizeName(f, k)
         /\ sizeName(f, k) \in Nat
         /\ f.type = "F" => /\ TableNames[k] \in ShortTexts /\ TableNames[k] \in Names
                            /\ fillName(f, k) = fillString("s", TableNames[k])
         /\ f.type = "A" => fillName(f, k) = <<>>
<1>1. CASE f.type = "A"
  BY <1>1 DEF fillName, sizeName
<1>2. CASE f.type = "F"
  <2>1. k \in 1..Len(TableNames) /\ fillName(f, k) = fillString("s", TableNames[k])
        /\ sizeName(f, k) = 1 + Len(TableNames[k])
    BY <1>2 DEF Slots, fillName, sizeName
  <2>2. TableNames[k] \in ShortTexts /\ TableNames[k] \in Names
    <3>1. TableNames \in Seq(ShortTexts)
      BY FieldsAssumption
    <3> QED
      BY <2>1, <3>1 DEF Names, ToSet
  <2>3. TableNames[k] \in Texts("s") /\ SizeWidth["s"] = 1 /\ <<>> \in Seq(Octets)
    BY <2>2 DEF Texts, SizeWidth
  <2>4. fillString("s", TableNames[k]) \in Seq(Octets)
        /\ Len(fillString("s", TableNames[k])) = SizeWidth["s"] + Len(TableNames[k])
    BY <2>3, TextIsRead
  <2>5. Len(fillString("s", TableNames[k])) \in Nat
    BY <2>4, LenProperties, Zenon
  <2> QED
    BY <1>2, <2>1, <2>2, <2>3, <2>4, <2>5
<1> QED
  BY <1>1, <1>2 DEF Nested

-----------------------------------------------------------------------------
(* What a table or an array writes for one of its slots, and how much. *)
Piece(f, k, inner) ==
  IF HasEntry(f, k) THEN fillName(f, k) \o <<typeID[Entry(f, k).type]>> \o inner[Entry(f, k)]
  ELSE <<>>

Term(f, k, inner) ==
  IF HasEntry(f, k) THEN sizeName(f, k) + 1 + inner[Entry(f, k)] ELSE 0

LEMMA PieceIs ==
  ASSUME NEW depth \in 0..MaxDepth, NEW f \in Field[depth], f.type \in Nested,
         KeptAt(depth - 1), NEW k \in 1..Slots(f)
  PROVE  /\ Piece(f, k, fills[depth - 1]) \in Seq(Octets)
         /\ Len(Piece(f, k, fills[depth - 1])) = Term(f, k, sizes[depth - 1])
         /\ Term(f, k, sizes[depth - 1]) \in Nat
         /\ HasEntry(f, k) =>
              /\ Term(f, k, sizes[depth - 1]) > sizes[depth - 1][Entry(f, k)]
              /\ Entry(f, k).type \in DOMAIN typeID
<1>1. CASE ~HasEntry(f, k)
  BY <1>1 DEF Piece, Term
<1>2. CASE HasEntry(f, k)
  <2> DEFINE e == Entry(f, k)
             a == fillName(f, k)
             b == <<typeID[e.type]>>
             d == fills[depth - 1][e]
             l == sizes[depth - 1][e]
             name == sizeName(f, k)
  <2>1. e \in Field[depth - 1]
    BY <1>2, SlotsAre
  <2>2. e.type \in DOMAIN typeID /\ l \in Nat /\ d \in Seq(Octets) /\ Len(d) = l
    BY <2>1 DEF KeptAt
  <2>3. a \in Seq(Octets) /\ Len(a) = name /\ name \in Nat
    BY NameIs
  <2>4. b \in Seq(Octets) /\ Len(b) = 1
    <3>1. typeID[e.type] \in Octets
      BY <2>2, TypeIDs DEF Octets, ByteRange
    <3> QED
      BY <3>1
  <2>5. Piece(f, k, fills[depth - 1]) = (a \o b) \o d /\ Term(f, k, sizes[depth - 1]) = name + 1 + l
    BY <1>2 DEF Piece, Term
  <2> HIDE DEF a, b, d, l, name, e
  <2>6. a \o b \in Seq(Octets) /\ Len(a \o b) = name + 1
    BY <2>3, <2>4, JoinedOnce
  <2>7. (a \o b) \o d \in Seq(Octets) /\ Len((a \o b) \o d) = name + 1 + l
    BY <2>2, <2>6, JoinedOnce
  <2>8. name + 1 + l \in Nat /\ name + 1 + l > l
    BY <2>2, <2>3
  <2> QED
    BY <2>2, <2>5, <2>7, <2>8 DEF e, l
<1> QED
  BY <1>1, <1>2

(* size() is what fill() writes, of a table or an array. *)
LEMMA NestedIsKept ==
  ASSUME NEW depth \in 0..MaxDepth, NEW f \in Field[depth], f.type \in Nested, KeptAt(depth - 1)
  PROVE  /\ sizes[depth][f] \in Nat
         /\ fills[depth][f] \in Seq(Octets) /\ Len(fills[depth][f]) = sizes[depth][f]
         /\ \E bytes \in Seq(Octets), rests \in [0..Slots(f) -> Seq(Octets)] :
              /\ fills[depth][f] = add(Len(bytes), 4) \o bytes
              /\ Len(bytes) <= sizes[depth][f]
              /\ rests[0] = bytes /\ rests[Slots(f)] = <<>>
              /\ \A k \in 1..Slots(f) : rests[k - 1] = Piece(f, k, fills[depth - 1]) \o rests[k]
         /\ \A k \in 1..Slots(f) :
              HasEntry(f, k) => sizes[depth - 1][Entry(f, k)] <= sizes[depth][f]
<1> DEFINE m == Slots(f)
           pieces == [k \in 1..m |-> Piece(f, k, fills[depth - 1])]
           terms == [k \in 1..m |-> Term(f, k, sizes[depth - 1])]
           bytes == Concatenated(pieces)
           sum == Total(terms)
<1>1. m \in Nat
  BY SlotsAre
<1>2. pieces \in [1..m -> Seq(Octets)] /\ terms \in [1..m -> Nat]
      /\ \A k \in 1..m : Len(pieces[k]) = terms[k]
  BY PieceIs
<1>3. sizes[depth][f] = 4 + sum
  <2>1. sizes[depth] = SizesLayer(depth, sizes[depth - 1])
    BY SizesIs, Zenon
  <2>2. sizes[depth][f] = sizeEntries(f, sizes[depth - 1])
    BY <2>1 DEF SizesLayer
  <2> QED
    BY <2>2, Zenon DEF sizeEntries, Term
<1>4. fills[depth][f] = add(Len(bytes), 4) \o bytes
  <2>1. fills[depth] = FillsLayer(depth, fills[depth - 1])
    BY FillsIs, Zenon
  <2>2. fills[depth][f] = fillEntries(f, fills[depth - 1])
    BY <2>1 DEF FillsLayer
  <2> QED
    BY <2>2, Zenon DEF fillEntries, Piece
<1>5. \A k \in 1..m : pieces[k] = Piece(f, k, fills[depth - 1])
                      /\ terms[k] = Term(f, k, sizes[depth - 1])
  OBVIOUS
<1> HIDE DEF pieces, terms
<1>6. bytes \in Seq(Octets) /\ Len(bytes) = sum
  <2> HIDE DEF m
  <2> QED
    BY <1>1, <1>2, LengthsAdd
<1>7. sum \in Nat /\ \A k \in 1..m : terms[k] <= sum
  <2> HIDE DEF m
  <2> QED
    BY <1>1, <1>2, TotalBounds
<1>8. PICK rests \in [0..m -> Seq(Octets)] :
        /\ bytes = rests[0] /\ rests[m] = <<>>
        /\ \A k \in 1..m : rests[k - 1] = pieces[k] \o rests[k]
  <2> HIDE DEF m
  <2> QED
    BY <1>1, <1>2, ConcatenatedIs
<1> HIDE DEF bytes, sum
<1>9. add(Len(bytes), 4) \in Seq(Octets) /\ Len(add(Len(bytes), 4)) = 4
  <2>1. Len(bytes) \in Int /\ 4 \in Nat
    BY <1>6, <1>7
  <2> QED
    BY <2>1, AddIs
<1>10. fills[depth][f] \in Seq(Octets) /\ Len(fills[depth][f]) = 4 + sum
  BY <1>4, <1>6, <1>9, JoinedOnce
<1>11. 4 + sum \in Nat /\ sum <= 4 + sum
  BY <1>7
<1>12. ASSUME NEW k \in 1..m, HasEntry(f, k) PROVE sizes[depth - 1][Entry(f, k)] <= sizes[depth][f]
  <2>1. Term(f, k, sizes[depth - 1]) > sizes[depth - 1][Entry(f, k)] /\ Term(f, k, sizes[depth - 1]) \in Nat
    BY <1>12, PieceIs
  <2>2. Term(f, k, sizes[depth - 1]) <= sum
    BY <1>5, <1>7
  <2>3. sizes[depth - 1][Entry(f, k)] \in Nat
    BY <1>12, SlotsAre DEF KeptAt
  <2> QED
    BY <1>3, <1>7, <2>1, <2>2, <2>3
<1>13. \E b \in Seq(Octets), r \in [0..m -> Seq(Octets)] :
         /\ fills[depth][f] = add(Len(b), 4) \o b
         /\ Len(b) <= sizes[depth][f]
         /\ r[0] = b /\ r[m] = <<>>
         /\ \A k \in 1..m : r[k - 1] = Piece(f, k, fills[depth - 1]) \o r[k]
  <2>1. Len(bytes) <= sizes[depth][f]
    BY <1>3, <1>6, <1>11
  <2>2. \A k \in 1..m : rests[k - 1] = Piece(f, k, fills[depth - 1]) \o rests[k]
    BY <1>5, <1>8
  <2> QED
    BY <1>4, <1>6, <1>8, <2>1, <2>2
<1> QED
  BY <1>3, <1>10, <1>11, <1>12, <1>13

-----------------------------------------------------------------------------
(* What has been read of a table or an array after its first slots. *)
Part(f, k) ==
  IF f.type = "A" THEN SubSeq(f.held, 1, k)
  ELSE [name \in Names |-> IF \E j \in 1..k : TableNames[j] = name THEN f.held[name] ELSE Absent]

LEMMA PrefixGrows ==
  ASSUME NEW D, NEW s \in Seq(D), NEW k \in 1..Len(s)
  PROVE  SubSeq(s, 1, k) = Append(SubSeq(s, 1, k - 1), s[k])
OBVIOUS

LEMMA PartsAre ==
  ASSUME NEW depth \in 0..MaxDepth, NEW f \in Field[depth], f.type \in Nested
  PROVE  /\ Part(f, 0) = IF f.type = "A" THEN <<>> ELSE EmptyTable
         /\ Part(f, Slots(f)) = f.held
         /\ \A k \in 1..Slots(f) :
              /\ ~HasEntry(f, k) => Part(f, k) = Part(f, k - 1)
              /\ HasEntry(f, k) =>
                   Part(f, k) = AddEntry(f.type, Part(f, k - 1), TableNames[k], Entry(f, k))
<1> DEFINE Inner == Field[depth - 1]
<1>0. \/ f.type = "A" /\ f.held \in Seq(Inner)
      \/ f.type = "F" /\ f.held \in [Names -> {Absent} \cup Inner]
  BY NestedFieldIs
<1> HIDE DEF Inner
<1>1. CASE f.type = "A" /\ f.held \in Seq(Inner)
  <2> DEFINE held == f.held
  <2>1. Slots(f) = Len(held) /\ \A k : Entry(f, k) = held[k] /\ Part(f, k) = SubSeq(held, 1, k)
    BY <1>1 DEF Slots, Entry, Part
  <2>2. held \in Seq(Inner)
    BY <1>1
  <2> HIDE DEF held
  <2>3. SubSeq(held, 1, 0) = <<>> /\ SubSeq(held, 1, Len(held)) = held
    BY <2>2
  <2>4. ASSUME NEW k \in 1..Len(held) PROVE SubSeq(held, 1, k) = Append(SubSeq(held, 1, k - 1), held[k])
    BY <2>2, PrefixGrows, Zenon
  <2>5. \A k \in 1..Slots(f) : HasEntry(f, k)
    BY <1>1, SlotsAre
  <2>6. \A k : AddEntry(f.type, Part(f, k - 1), TableNames[k], Entry(f, k))
                 = Append(Part(f, k - 1), Entry(f, k))
    BY <1>1 DEF AddEntry
  <2>7. ASSUME NEW k \in 1..Slots(f)
        PROVE  Part(f, k) = AddEntry(f.type, Part(f, k - 1), TableNames[k], Entry(f, k))
    BY <2>1, <2>4, <2>6
  <2>8. Part(f, 0) = <<>> /\ Part(f, Slots(f)) = f.held
    BY <2>1, <2>3 DEF held
  <2> QED
    BY <1>1, <2>5, <2>7, <2>8
<1>2. CASE f.type = "F" /\ f.held \in [Names -> {Absent} \cup Inner]
  <2> DEFINE held == f.held
  <2>1. Slots(f) = Len(TableNames) /\ \A k : Entry(f, k) = held[TableNames[k]]
    BY <1>2 DEF Slots, Entry
  <2>2. \A k : Part(f, k) = [name \in Names |->
                  IF \E j \in 1..k : TableNames[j] = name THEN held[name] ELSE Absent]
    BY <1>2 DEF Part
  <2>3. held = [name \in Names |-> held[name]]
    BY <1>2
  <2> HIDE DEF held
  <2>4. TableNames \in Seq(ShortTexts)
    BY FieldsAssumption
  <2>5. \A name \in Names : \E j \in 1..Len(TableNames) : TableNames[j] = name
    BY <2>4 DEF Names, ToSet
  <2>6. Part(f, 0) = EmptyTable
    BY <2>2 DEF EmptyTable
  <2>7. Part(f, Slots(f)) = held
    BY <2>1, <2>2, <2>3, <2>5
  <2>8. ASSUME NEW k \in 1..Slots(f)
        PROVE  /\ TableNames[k] \in Names
               /\ \A name \in Names :
                    /\ name # TableNames[k] => Part(f, k)[name] = Part(f, k - 1)[name]
                    /\ name = TableNames[k] => Part(f, k)[name] = held[name]
               /\ Part(f, k - 1)[TableNames[k]] \in {Absent, held[TableNames[k]]}
    <3>1. TableNames[k] \in Names
      BY <2>1, <2>4 DEF Names, ToSet
    <3>2. \A name : (\E j \in 1..k : TableNames[j] = name)
                      <=> (TableNames[k] = name \/ \E j \in 1..k - 1 : TableNames[j] = name)
      <4>1. \A j : j \in 1..k <=> (j = k \/ j \in 1..k - 1)
        BY <2>1, <2>4
      <4> QED
        BY <4>1
    <3> QED
      BY <2>2, <3>1, <3>2
  <2>9. ASSUME NEW k \in 1..Slots(f), ~HasEntry(f, k) PROVE Part(f, k) = Part(f, k - 1)
    <3>1. held[TableNames[k]] = Absent
      BY <2>1, <2>9 DEF HasEntry
    <3>2. \A name \in Names : Part(f, k)[name] = Part(f, k - 1)[name]
      BY <2>8, <3>1
    <3> QED
      BY <2>2, <3>2
  <2>10. ASSUME NEW k \in 1..Slots(f)
         PROVE  Part(f, k) = setTable(Part(f, k - 1), TableNames[k], Entry(f, k))
    <3> DEFINE before == Part(f, k - 1)
               after == Part(f, k)
               nm == TableNames[k]
               e == Entry(f, k)
    <3>1. DOMAIN before = Names /\ DOMAIN after = Names /\ after = [name \in Names |-> after[name]]
      BY <2>2
    <3>2. e = held[nm]
      BY <2>1
    <3>3. nm \in Names /\ \A name \in Names : after[name] = IF name = nm THEN e ELSE before[name]
      BY <2>8, <3>2
    <3> HIDE DEF before, after, nm, e
    <3>4. Names \cup {nm} = Names
      BY <3>3
    <3>5. setTable(before, nm, e) = [name \in Names |-> IF name = nm THEN e ELSE before[name]]
      BY <3>1, <3>4 DEF setTable
    <3>6. after = setTable(before, nm, e)
      BY <3>1, <3>3, <3>5
    <3> QED
      BY <3>6 DEF before, after, nm, e
  <2>11. \A k : AddEntry(f.type, Part(f, k - 1), TableNames[k], Entry(f, k))
                  = setTable(Part(f, k - 1), TableNames[k], Entry(f, k))
    BY <1>2 DEF AddEntry
  <2> QED
    BY <1>2, <2>6, <2>7, <2>9, <2>10, <2>11 DEF held
<1> QED
  BY <1>0, <1>1, <1>2

(* One turn of the loop that reads a table or an array takes one entry off *)
(* its bytes.                                                              *)
LEMMA EntryIsRead ==
  ASSUME NEW depth \in 0..MaxDepth, NEW f \in Field[depth], f.type \in Nested,
         KeptAt(depth - 1), ReadAt(depth - 1),
         NEW k \in 1..Slots(f), HasEntry(f, k), Writable(Entry(f, k), depth - 1),
         NEW rest \in Seq(Octets)
  PROVE  LET bytes == Piece(f, k, fills[depth - 1]) \o rest
         IN  /\ bytes # <<>>
             /\ decodeEntry(f.type, Taken(Part(f, k - 1), bytes), decodes[depth - 1])
                  = Taken(Part(f, k), rest)
<1> DEFINE e == Entry(f, k)
           inner == decodes[depth - 1]
           a == fillName(f, k)
           id == typeID[e.type]
           d == fills[depth - 1][e]
           piece == Piece(f, k, fills[depth - 1])
           before == Part(f, k - 1)
           type == f.type
           nm == TableNames[k]
<1>1. e \in Field[depth - 1]
  BY SlotsAre
<1>2. e.type \in DOMAIN typeID /\ e = [type |-> e.type, held |-> e.held] /\ d \in Seq(Octets)
  BY <1>1 DEF KeptAt
<1>3. id \in 0..255
  BY <1>2, TypeIDs
<1>4. <<id>> \in Seq(Octets) /\ Len(<<id>>) = 1
  <2> HIDE DEF id
  <2>1. id \in Octets
    BY <1>3 DEF Octets, ByteRange
  <2> QED
    BY <2>1
<1>5. a \in Seq(Octets)
  BY NameIs
<1>6. piece = (a \o <<id>>) \o d
  BY Zenon DEF Piece
<1>7. inner[e.type][Input(d \o rest)] = Taken(e.held, rest)
  <2>1. Decoded(depth - 1, e.type, Input(d \o rest)) = Taken(e.held, rest)
    BY <1>1, Zenon DEF ReadAt
  <2> QED
    BY <2>1 DEF Decoded
<1>8. Part(f, k) = AddEntry(type, before, nm, e)
  BY PartsAre
<1>9. type = "F" => nm \in Texts("s") /\ a = fillString("s", nm)
  BY NameIs DEF Texts
<1>10. type # "F" => type = "A" /\ a = <<>>
  BY NameIs DEF Nested
<1>11. KeptAt(depth - 1) => piece \in Seq(Octets) /\ Len(piece) > 0
  <2>1. Len(piece) = Term(f, k, sizes[depth - 1]) /\ piece \in Seq(Octets)
        /\ Term(f, k, sizes[depth - 1]) > sizes[depth - 1][Entry(f, k)]
    BY PieceIs
  <2>2. sizes[depth - 1][Entry(f, k)] \in Nat
    BY <1>1 DEF KeptAt
  <2>3. Len(piece) \in Nat
    BY <2>1, LenProperties, Zenon
  <2> QED
    BY <2>1, <2>2, <2>3
<1> HIDE DEF e, inner, a, id, d, piece, before, type, nm
<1> DEFINE tail == d \o rest
           after == <<id>> \o tail
           bytes == piece \o rest
<1>12. tail \in Seq(Octets) /\ after \in Seq(Octets)
  <2>1. tail \in Seq(Octets)
    BY <1>2, JoinedOnce
  <2> HIDE DEF tail
  <2> QED
    BY <1>4, <2>1, JoinedOnce
<1>13. bytes = a \o after
  <2>1. a \o <<id>> \in Seq(Octets)
    BY <1>4, <1>5, JoinedOnce
  <2>2. ((a \o <<id>>) \o d) \o rest = (a \o <<id>>) \o (d \o rest)
    BY <1>2, <2>1, JoinedTwice
  <2> HIDE DEF tail
  <2>3. (a \o <<id>>) \o tail = a \o (<<id>> \o tail)
    BY <1>4, <1>5, <1>12, JoinedTwice
  <2> QED
    BY <1>6, <2>2, <2>3 DEF tail
<1>14. bytes # <<>>
  <2>1. Len(bytes) = Len(piece) + Len(rest) /\ Len(rest) \in Nat /\ Len(piece) > 0 /\ Len(piece) \in Nat
    BY <1>11, JoinedOnce
  <2> HIDE DEF bytes
  <2> QED
    BY <2>1
<1> HIDE DEF bytes, after
<1> DEFINE read == Taken(before, bytes)
           name == IF type = "F" THEN StringField(read.in, "s") ELSE [value |-> <<>>, in |-> read.in]
<1>15. read.in = Input(bytes) /\ read.value = before /\ read.in.ok /\ read.in.left = bytes
  BY DEF Taken, Input
<1>16. name.in = Input(after) /\ (type = "F" => name.value = nm)
  <2>1. CASE type = "F"
    <3>1. StringField(Input(a \o after), "s") = Taken(nm, after)
      BY <1>9, <1>12, <2>1, TextIsRead
    <3>2. name = Taken(nm, after)
      BY <1>13, <1>15, <2>1, <3>1
    <3> HIDE DEF name
    <3> QED
      BY <3>2 DEF Taken
  <2>2. CASE type # "F"
    <3>1. bytes = after
      BY <1>10, <1>12, <1>13, <2>2
    <3> QED
      BY <1>15, <2>2, <3>1
  <2> QED
    BY <2>1, <2>2
<1>17. nextInteger(Input(after), 1, FALSE) = Taken(id, tail)
  BY <1>3, <1>12, ByteIsRead DEF after
<1> HIDE DEF read, name
<1> DEFINE number == Taken(id, tail)
           known == {t \in DOMAIN typeID : typeID[t] = number.value}
           kind == CHOOSE t \in known : TRUE
<1>18. number.value = id /\ number.in = Input(tail) /\ number.in.ok
  BY DEF Taken, Input
<1>19. known # {} /\ kind = e.type
  <2> HIDE DEF number
  <2>1. known = {e.type}
    BY <1>2, <1>18, TypeIDs DEF id
  <2> HIDE DEF known
  <2> QED
    BY <2>1
<1>20. decodeEntry(type, read, inner) = decodeNamed(type, before, name.value, number, inner)
  <2>1. nextInteger(name.in, 1, FALSE) = number
    BY <1>16, <1>17
  <2> HIDE DEF number
  <2>2. decodeEntry(type, read, inner)
          = decodeNamed(type, read.value, name.value, nextInteger(name.in, 1, FALSE), inner)
    BY <1>14, <1>15, Zenon DEF decodeEntry, name
  <2> QED
    BY <1>15, <2>1, <2>2
<1>21. decodeNamed(type, before, name.value, number, inner)
         = decodeKnown(type, before, name.value, e.type, Taken(e.held, rest))
  <2>1. inner[kind][number.in] = Taken(e.held, rest)
    BY <1>7, <1>18, <1>19 DEF tail
  <2>2. number.in.ok
    BY <1>18
  <2> HIDE DEF number
  <2>3. decodeNamed(type, before, name.value, number, inner)
          = decodeKnown(type, before, name.value, kind, inner[kind][number.in])
    BY <1>19, <2>2, Zenon DEF decodeNamed
  <2> QED
    BY <1>19, <2>1, <2>3
<1>22. decodeKnown(type, before, name.value, e.type, Taken(e.held, rest))
         = [value |-> AddEntry(type, before, name.value, e), in |-> Input(rest)]
  <2>1. Taken(e.held, rest).value = e.held /\ Taken(e.held, rest).in = Input(rest)
    BY DEF Taken
  <2> QED
    BY <1>2, <2>1 DEF decodeKnown
<1>23. AddEntry(type, before, name.value, e) = AddEntry(type, before, nm, e)
  BY <1>10, <1>16, Zenon DEF AddEntry
<1>24. decodeEntry(type, read, inner) = Taken(Part(f, k), rest)
  BY <1>8, <1>20, <1>21, <1>22, <1>23, Zenon DEF Taken
<1> QED
  BY <1>14, <1>24 DEF read, bytes, type, before, inner, piece

-----------------------------------------------------------------------------
(* The loop itself: after some turns it has read the first slots, and when *)
(* the bytes are used up nothing changes any more.                         *)
IsRead(read, type, data, inner) ==
  read = [k \in 0..Len(data.value) |->
            IF k = 0 THEN [value |-> IF type = "A" THEN <<>> ELSE EmptyTable,
                           in    |-> [left |-> data.value, ok |-> data.in.ok]]
            ELSE decodeEntry(type, read[k - 1], inner)]

EntryTurns(read, type, data, inner, n) ==
  /\ decodeEntries(type, data, inner) = read[n]
  /\ read[0] = [value |-> IF type = "A" THEN <<>> ELSE EmptyTable,
                in    |-> [left |-> data.value, ok |-> data.in.ok]]
  /\ \A k \in 1..n : read[k] = decodeEntry(type, read[k - 1], inner)

LEMMA TurnsAre ==
  ASSUME NEW type, NEW data, NEW inner, NEW n \in Nat, Len(data.value) = n
  PROVE  \E read : EntryTurns(read, type, data, inner, n)
<1> DEFINE loop == [of |-> "entries", type |-> type, data |-> data, inner |-> inner]
<1>1. \A k, prior : Layer(loop, k, prior) =
         IF k = 0 THEN [value |-> IF type = "A" THEN <<>> ELSE EmptyTable,
                        in    |-> [left |-> data.value, ok |-> data.in.ok]]
         ELSE decodeEntry(type, prior, inner)
  <2>1. loop.of = "entries" /\ loop.type = type /\ loop.data = data /\ loop.inner = inner
    OBVIOUS
  <2> HIDE DEF loop
  <2>2. \A k, prior : Layer(loop, k, prior) = EntriesLayer(loop, k, prior)
    BY <2>1 DEF Layer
  <2> QED
    BY <2>1, <2>2, Zenon DEF EntriesLayer
<1> HIDE DEF loop
<1>2. \A a, b : Layer(loop, 0, a) = Layer(loop, 0, b)
  BY <1>1
<1>3. PICK f : Layered(loop, f, n)
  BY <1>2, LayersExist, Zenon
<1>4. IsRead(f, type, data, inner)
  BY <1>1, <1>3 DEF Layered, IsRead
<1> DEFINE g == CHOOSE h : IsRead(h, type, data, inner)
<1>5. IsRead(g, type, data, inner)
  BY <1>4
<1>6. decodeEntries(type, data, inner) = g[Len(data.value)]
  BY Zenon DEF decodeEntries, IsRead
<1> HIDE DEF g
<1>7. \A k \in 0..n : g[k] =
         IF k = 0 THEN [value |-> IF type = "A" THEN <<>> ELSE EmptyTable,
                        in    |-> [left |-> data.value, ok |-> data.in.ok]]
         ELSE decodeEntry(type, g[k - 1], inner)
  BY <1>5 DEF IsRead
<1>8. 0 \in 0..n /\ \A k \in 1..n : k \in 0..n /\ k # 0
  OBVIOUS
<1>9. g[0] = [value |-> IF type = "A" THEN <<>> ELSE EmptyTable,
              in    |-> [left |-> data.value, ok |-> data.in.ok]]
  BY <1>7, <1>8
<1>10. \A k \in 1..n : g[k] = decodeEntry(type, g[k - 1], inner)
  BY <1>7, <1>8
<1>11. decodeEntries(type, data, inner) = g[n]
  BY <1>6
<1>12. EntryTurns(g, type, data, inner, n)
  BY <1>9, <1>10, <1>11 DEF EntryTurns
<1> QED
  BY <1>12

LEMMA ConcatLonger ==
  ASSUME NEW a \in Seq(Octets), NEW b \in Seq(Octets), Len(a) > 0
  PROVE  Len(b) < Len(a \o b)
BY JoinedOnce

(* A table or an array is read back from its bytes. *)
LEMMA EntriesAreRead ==
  ASSUME NEW depth \in 0..MaxDepth, NEW f \in Field[depth], f.type \in Nested,
         KeptAt(depth - 1), ReadAt(depth - 1),
         \A k \in 1..Slots(f) : HasEntry(f, k) => Writable(Entry(f, k), depth - 1),
         NEW bytes \in Seq(Octets), NEW rests \in [0..Slots(f) -> Seq(Octets)],
         rests[0] = bytes, rests[Slots(f)] = <<>>,
         \A k \in 1..Slots(f) : rests[k - 1] = Piece(f, k, fills[depth - 1]) \o rests[k],
         NEW rest
  PROVE  decodeEntries(f.type, Taken(bytes, rest), decodes[depth - 1]) = Taken(f.held, <<>>)
<1> DEFINE m == Slots(f)
           n == Len(bytes)
           type == f.type
           inner == decodes[depth - 1]
           data == Taken(bytes, rest)
<1>1. m \in Nat /\ n \in Nat
  BY SlotsAre, LenProperties
<1>2. data.value = bytes /\ data.in.ok
  BY DEF Taken, Input
<1> HIDE DEF data
<1>11. PICK read : EntryTurns(read, type, data, inner, n)
  <2>1. Len(data.value) = n
    BY <1>2
  <2> HIDE DEF n, type, inner
  <2> QED
    BY <1>1, <2>1, TurnsAre, Zenon
<1>3. /\ decodeEntries(type, data, inner) = read[n]
      /\ read[0] = [value |-> IF type = "A" THEN <<>> ELSE EmptyTable,
                    in    |-> [left |-> data.value, ok |-> data.in.ok]]
      /\ \A k \in 1..n : read[k] = decodeEntry(type, read[k - 1], inner)
  BY <1>11 DEF EntryTurns
<1>4. read[0] = Taken(Part(f, 0), rests[0])
  BY <1>2, <1>3, PartsAre DEF Taken, Input
<1>5. ASSUME NEW k \in 1..m
      PROVE  IF HasEntry(f, k)
             THEN /\ Len(rests[k]) < Len(rests[k - 1])
                  /\ decodeEntry(type, Taken(Part(f, k - 1), rests[k - 1]), inner)
                       = Taken(Part(f, k), rests[k])
             ELSE Part(f, k) = Part(f, k - 1) /\ rests[k] = rests[k - 1]
  <2>1. rests[k] \in Seq(Octets) /\ rests[k - 1] = Piece(f, k, fills[depth - 1]) \o rests[k]
    <3>1. k \in 0..m
      OBVIOUS
    <3> QED
      BY <3>1
  <2>2. CASE HasEntry(f, k)
    <3>1. decodeEntry(type, Taken(Part(f, k - 1), rests[k - 1]), inner) = Taken(Part(f, k), rests[k])
      BY <2>1, <2>2, EntryIsRead
    <3>2. Piece(f, k, fills[depth - 1]) \in Seq(Octets) /\ Len(Piece(f, k, fills[depth - 1])) > 0
      <4>1. /\ Len(Piece(f, k, fills[depth - 1])) = Term(f, k, sizes[depth - 1])
            /\ Piece(f, k, fills[depth - 1]) \in Seq(Octets)
            /\ Term(f, k, sizes[depth - 1]) > sizes[depth - 1][Entry(f, k)]
        BY <2>2, PieceIs
      <4>2. sizes[depth - 1][Entry(f, k)] \in Nat
        BY <2>2, SlotsAre DEF KeptAt
      <4>3. Len(Piece(f, k, fills[depth - 1])) \in Nat
        BY <4>1, LenProperties, Zenon
      <4> QED
        BY <4>1, <4>2, <4>3
    <3>3. Len(rests[k]) < Len(Piece(f, k, fills[depth - 1]) \o rests[k])
      <4> DEFINE p == Piece(f, k, fills[depth - 1])
                 q == rests[k]
      <4>1. p \in Seq(Octets) /\ q \in Seq(Octets) /\ Len(p) > 0
        BY <2>1, <3>2
      <4> HIDE DEF p, q
      <4>2. Len(q) < Len(p \o q)
        BY <4>1, ConcatLonger
      <4> QED
        BY <4>2 DEF p, q
    <3>4. Len(rests[k]) < Len(rests[k - 1])
      BY <2>1, <3>3, Zenon
    <3> QED
      BY <2>2, <3>1, <3>4, Zenon
  <2>3. CASE ~HasEntry(f, k)
    <3>1. Piece(f, k, fills[depth - 1]) = <<>>
      BY <2>3 DEF Piece
    <3> QED
      BY <2>1, <2>3, <3>1, PartsAre
  <2> QED
    BY <2>2, <2>3
<1>6. \A k \in 0..m : rests[k] \in Seq(Octets) /\ Len(rests[k]) \in Nat
  BY LenProperties
<1> DEFINE Arrived(k) == \E t \in 0..n : t <= n - Len(rests[k]) /\ read[t] = Taken(Part(f, k), rests[k])
           S == {k \in 0..m : Arrived(k)}
<1>7. 0..m \subseteq S
  <2>1. 0 \in S
    <3>1. 0 \in 0..m /\ 0 \in 0..n /\ 0 <= n - Len(rests[0])
      BY <1>1
    <3> QED
      BY <1>4, <3>1
  <2>2. ASSUME NEW k \in 1..m, k - 1 \in S PROVE k \in S
    <3>1. PICK t \in 0..n : t <= n - Len(rests[k - 1]) /\ read[t] = Taken(Part(f, k - 1), rests[k - 1])
      BY <2>2
    <3>2. k \in 0..m /\ k - 1 \in 0..m
      BY <1>1
    <3>3. Len(rests[k]) \in Nat /\ Len(rests[k - 1]) \in Nat
      BY <1>6, <3>2
    <3>4. CASE HasEntry(f, k)
      <4>1. Len(rests[k]) < Len(rests[k - 1])
        BY <1>5, <3>4
      <4>2. t + 1 \in 1..n /\ t + 1 \in 0..n /\ t + 1 <= n - Len(rests[k]) /\ (t + 1) - 1 = t
        <5> DEFINE p == Len(rests[k])
                   q == Len(rests[k - 1])
        <5>1. p \in Nat /\ q \in Nat /\ p < q /\ t \in 0..n /\ t <= n - q /\ n \in Nat
          BY <1>1, <3>1, <3>3, <4>1
        <5> HIDE DEF p, q, n
        <5>2. t + 1 \in 1..n /\ t + 1 \in 0..n /\ t + 1 <= n - p /\ (t + 1) - 1 = t
          BY <5>1
        <5> QED
          BY <5>2 DEF p
      <4>3. read[t + 1] = decodeEntry(type, read[t], inner)
        BY <1>3, <4>2
      <4>4. read[t + 1] = Taken(Part(f, k), rests[k])
        BY <1>5, <3>1, <3>4, <4>3
      <4> QED
        BY <3>2, <4>2, <4>4
    <3>5. CASE ~HasEntry(f, k)
      <4>1. Part(f, k) = Part(f, k - 1) /\ rests[k] = rests[k - 1]
        BY <1>5, <3>5
      <4> QED
        BY <3>1, <3>2, <4>1
    <3> QED
      BY <3>4, <3>5
  <2> HIDE DEF S
  <2> QED
    BY <1>1, <2>1, <2>2, Upwards
<1> DEFINE end == Taken(f.held, <<>>)
<1>8. PICK t \in 0..n : read[t] = end
  <2>1. m \in S
    BY <1>1, <1>7
  <2>2. Part(f, m) = f.held
    BY PartsAre
  <2> QED
    BY <2>1, <2>2
<1> DEFINE R == {j \in 0..n : j >= t => read[j] = end}
<1>9. 0..n \subseteq R
  <2>1. 0 \in R
    BY <1>1, <1>8
  <2>2. ASSUME NEW j \in 1..n, j - 1 \in R PROVE j \in R
    <3>1. j \in 0..n /\ j - 1 \in 0..n
      BY <1>1
    <3>2. CASE j = t
      BY <1>8, <3>1, <3>2
    <3>3. CASE j > t
      <4>1. read[j - 1] = end
        BY <1>1, <2>2, <3>1, <3>3
      <4>2. read[j] = decodeEntry(type, end, inner)
        BY <1>3, <4>1
      <4>3. decodeEntry(type, end, inner) = end
        <5>1. end.in.left = <<>>
          BY DEF Taken, Input
        <5> HIDE DEF end
        <5> QED
          BY <5>1, Zenon DEF decodeEntry
      <4> QED
        BY <3>1, <4>2, <4>3
    <3>4. CASE j < t
      BY <1>1, <3>1, <3>4
    <3> QED
      BY <1>1, <3>2, <3>3, <3>4
  <2> HIDE DEF R
  <2> QED
    BY <1>1, <2>1, <2>2, Upwards
<1>10. read[n] = end
  <2>1. n \in 0..n /\ n >= t
    BY <1>1
  <2> HIDE DEF end, n
  <2> QED
    BY <1>9, <2>1
<1> QED
  BY <1>3, <1>10 DEF data

-----------------------------------------------------------------------------
(* A number that fits does so with every smaller one. *)
LEMMA SmallerFit ==
  ASSUME NEW w \in Nat, NEW n \in Numbers(w, FALSE), NEW x \in Nat, x <= n
  PROVE  x \in Numbers(w, FALSE)
<1>1. n \in Int /\ n < Huge /\ Shifted(n, w)[w] = 0
  BY Zenon DEF Numbers
<1>2. Huge \in Nat
  BY FieldsAssumption
<1> DEFINE s == Shifted(n, w)
           r == Shifted(x, w)
<1>3. s \in [0..w -> Int] /\ s[0] = n /\ \A k \in 1..w : s[k] = Above(s[k - 1])
  <2>1. n \in Int
    BY <1>1
  <2> QED
    BY <2>1, ShiftedIs
<1>4. r \in [0..w -> Int] /\ r[0] = x /\ \A k \in 1..w : r[k] = Above(r[k - 1])
  <2>1. x \in Int
    OBVIOUS
  <2> QED
    BY <2>1, ShiftedIs, Zenon
<1> HIDE DEF s, r
<1> DEFINE S == {k \in 0..w : r[k] >= 0 /\ r[k] <= s[k]}
<1>5. 0..w \subseteq S
  <2>1. 0 \in S
    BY <1>3, <1>4
  <2>2. ASSUME NEW k \in 1..w, k - 1 \in S PROVE k \in S
    <3>1. k \in 0..w /\ k - 1 \in 0..w
      OBVIOUS
    <3>2. r[k - 1] \in Int /\ s[k - 1] \in Int /\ r[k - 1] >= 0 /\ r[k - 1] <= s[k - 1]
      BY <1>3, <1>4, <2>2, <3>1
    <3>3. \A a, b \in Int : a >= 0 /\ a <= b => Above(a) >= 0 /\ Above(a) <= Above(b)
      BY DEF Above
    <3>4. r[k] = Above(r[k - 1]) /\ s[k] = Above(s[k - 1])
      BY <1>3, <1>4
    <3> QED
      BY <3>1, <3>2, <3>3, <3>4
  <2> HIDE DEF S
  <2> QED
    BY <2>1, <2>2, Upwards
<1>6. w \in 0..w
  OBVIOUS
<1>7. r[w] >= 0 /\ r[w] <= s[w] /\ r[w] \in Int
  BY <1>4, <1>5, <1>6
<1>8. r[w] = 0
  BY <1>1, <1>7 DEF s
<1>9. x \in Int /\ x < Huge
  BY <1>1, <1>2
<1> QED
  BY <1>8, <1>9, Zenon DEF Numbers, r

(* Fields of every depth are written to the size that was computed. *)
LEMMA KeptFromPlain ==
  ASSUME NEW depth \in 0..MaxDepth, depth # 0 => KeptAt(depth - 1)
  PROVE  KeptAt(depth)
<1> SUFFICES ASSUME NEW f \in Field[depth]
             PROVE  /\ f.type \in DOMAIN typeID /\ f = [type |-> f.type, held |-> f.held]
                    /\ sizes[depth][f] \in Nat
                    /\ fills[depth][f] \in Seq(Octets) /\ Len(fills[depth][f]) = sizes[depth][f]
  BY DEF KeptAt
<1>1. CASE f.type \in Nested
  <2>1. KeptAt(depth - 1)
    BY <1>1, NestedFieldIs
  <2>2. f.type \in DOMAIN typeID
    BY <1>1 DEF Nested, typeID
  <2> QED
    BY <1>1, <2>1, <2>2, NestedFieldIs, NestedIsKept
<1>2. CASE f.type \notin Nested
  <2>1. f \in PlainField /\ <<>> \in Seq(Octets)
    BY <1>2, PlainAtDepth
  <2>2. sizes[depth][f] = sizePlain(f) /\ fills[depth][f] = fillPlain(f)
    <3>1. sizes[depth] = SizesLayer(depth, sizes[depth - 1])
          /\ fills[depth] = FillsLayer(depth, fills[depth - 1])
      BY SizesIs, FillsIs, Zenon
    <3> QED
      BY <1>2, <3>1 DEF SizesLayer, FillsLayer
  <2>3. f = [type |-> f.type, held |-> f.held]
    BY <2>1 DEF PlainField
  <2> QED
    BY <2>1, <2>2, <2>3, PlainIsRead
<1> QED
  BY <1>1, <1>2

LEMMA DecodedIs ==
  ASSUME NEW depth \in 0..MaxDepth, NEW type \in DOMAIN typeID, NEW in \in Inputs
  PROVE  Decoded(depth, type, in) =
           IF type \notin Nested THEN decodePlain(type, in)
           ELSE IF depth = 0 THEN Unread(in)
           ELSE decodeNested(type, StringField(in, "S"), decodes[depth - 1])
<1>1. decodes[depth] = DecodesLayer(depth, decodes[depth - 1])
  BY DecodesIs, Zenon
<1> DEFINE inner == decodes[depth - 1]
<1> HIDE DEF inner
<1>2. DecodesLayer(depth, inner)[type][in] =
         IF type \notin Nested THEN decodePlain(type, in)
         ELSE IF depth = 0 THEN Unread(in)
         ELSE decodeNested(type, StringField(in, "S"), inner)
  BY DEF DecodesLayer
<1>3. Decoded(depth, type, in) = DecodesLayer(depth, inner)[type][in]
  BY <1>1 DEF Decoded, inner
<1> QED
  BY <1>2, <1>3 DEF inner

LEMMA ReadFromPlain ==
  ASSUME NEW depth \in 0..MaxDepth, depth # 0 => KeptAt(depth - 1) /\ ReadAt(depth - 1)
  PROVE  ReadAt(depth)
<1> SUFFICES ASSUME NEW f \in Field[depth], Writable(f, depth), NEW rest \in Seq(Octets)
             PROVE  Decoded(depth, f.type, Input(fills[depth][f] \o rest)) = Taken(f.held, rest)
  BY Zenon DEF ReadAt
<1> DEFINE in == Input(fills[depth][f] \o rest)
<1>0. f.type \in DOMAIN typeID /\ in \in Inputs
  <2>1. KeptAt(depth)
    BY KeptFromPlain
  <2>2. f.type \in DOMAIN typeID /\ fills[depth][f] \in Seq(Octets)
    BY <2>1 DEF KeptAt
  <2>3. fills[depth][f] \o rest \in Seq(Octets)
    BY <2>2, JoinedOnce
  <2> QED
    BY <2>2, <2>3, InputIs, Zenon
<1>1. Decoded(depth, f.type, in) =
        IF f.type \notin Nested THEN decodePlain(f.type, in)
        ELSE IF depth = 0 THEN Unread(in)
        ELSE decodeNested(f.type, StringField(in, "S"), decodes[depth - 1])
  <2> HIDE DEF in
  <2> QED
    BY <1>0, DecodedIs
<1>2. CASE f.type \notin Nested
  <2>1. f \in PlainField
    BY <1>2, PlainAtDepth
  <2>2. fills[depth][f] = fillPlain(f)
    <3>1. fills[depth] = FillsLayer(depth, fills[depth - 1])
      BY FillsIs, Zenon
    <3> QED
      BY <1>2, <3>1 DEF FillsLayer
  <2> QED
    BY <1>1, <1>2, <2>1, <2>2, PlainIsRead
<1>3. CASE f.type \in Nested
  <2>1. depth # 0 /\ KeptAt(depth - 1) /\ ReadAt(depth - 1) /\ depth - 1 \in 0..MaxDepth
    BY <1>3, NestedFieldIs
  <2>2. PICK bytes \in Seq(Octets), rests \in [0..Slots(f) -> Seq(Octets)] :
          /\ fills[depth][f] = add(Len(bytes), 4) \o bytes
          /\ Len(bytes) <= sizes[depth][f]
          /\ rests[0] = bytes /\ rests[Slots(f)] = <<>>
          /\ \A k \in 1..Slots(f) : rests[k - 1] = Piece(f, k, fills[depth - 1]) \o rests[k]
    BY <1>3, <2>1, NestedIsKept
  <2>3. sizes[depth][f] \in Numbers(4, FALSE)
    BY <1>3 DEF Writable
  <2>4. \A k \in 1..Slots(f) : HasEntry(f, k) => Writable(Entry(f, k), depth - 1)
    <3> SUFFICES ASSUME NEW k \in 1..Slots(f), HasEntry(f, k)
                 PROVE  sizes[depth - 1][Entry(f, k)] \in Numbers(4, FALSE)
      BY DEF Writable
    <3>1. sizes[depth - 1][Entry(f, k)] <= sizes[depth][f]
      BY <1>3, <2>1, NestedIsKept
    <3>2. sizes[depth - 1][Entry(f, k)] \in Nat
      BY <1>3, <2>1, SlotsAre DEF KeptAt
    <3>3. 4 \in Nat
      OBVIOUS
    <3> QED
      BY <2>3, <3>1, <3>2, <3>3, SmallerFit
  <2>5. bytes \in LongTexts
    <3>1. Len(bytes) \in Nat /\ 4 \in Nat
      BY LenProperties
    <3>2. Len(bytes) \in Numbers(4, FALSE)
      BY <2>2, <2>3, <3>1, SmallerFit
    <3> QED
      BY <3>2 DEF LongTexts, SizeWidth
  <2>6. StringField(in, "S") = Taken(bytes, rest)
    <3>1. bytes \in Texts("S") /\ "S" \in {"s", "S"}
      BY <2>5 DEF Texts
    <3>2. fillString("S", bytes) = add(Len(bytes), 4) \o bytes
      BY DEF fillString, SizeWidth
    <3>3. StringField(Input(fillString("S", bytes) \o rest), "S") = Taken(bytes, rest)
      BY <3>1, TextIsRead, Zenon
    <3> QED
      BY <2>2, <3>2, <3>3
  <2>7. decodeEntries(f.type, Taken(bytes, rest), decodes[depth - 1]) = Taken(f.held, <<>>)
    BY <1>3, <2>1, <2>2, <2>4, EntriesAreRead
  <2>8. Inside(Taken(bytes, rest), Taken(f.held, <<>>)) = Taken(f.held, rest)
    BY DEF Inside, Taken, Input
  <2>9. Decoded(depth, f.type, in) = decodeNested(f.type, StringField(in, "S"), decodes[depth - 1])
    BY <1>1, <1>3, <2>1
  <2> HIDE DEF in
  <2>10. Decoded(depth, f.type, in) = Taken(f.held, rest)
    BY <2>6, <2>7, <2>8, <2>9, Zenon DEF decodeNested
  <2> QED
    BY <2>10 DEF in
<1> QED
  BY <1>2, <1>3

(* Fields of every depth are written as announced and read back. *)
LEMMA EveryDepth ==
  \A depth \in 0..MaxDepth : KeptAt(depth) /\ ReadAt(depth)
<1> DEFINE S == {depth \in 0..MaxDepth : KeptAt(depth) /\ ReadAt(depth)}
<1>1. 0 \in S
  BY DepthIs, KeptFromPlain, ReadFromPlain
<1>2. ASSUME NEW depth \in 1..MaxDepth, depth - 1 \in S PROVE depth \in S
  <2>1. depth \in 0..MaxDepth /\ KeptAt(depth - 1) /\ ReadAt(depth - 1)
    BY <1>2
  <2>2. KeptAt(depth) /\ ReadAt(depth)
    BY <2>1, KeptFromPlain, ReadFromPlain
  <2> QED
    BY <2>1, <2>2
<1> HIDE DEF S
<1>3. 0..MaxDepth \subseteq S
  BY <1>1, <1>2, DepthIs, Upwards
<1> QED
  BY <1>3 DEF S

-----------------------------------------------------------------------------
(* Fields of any depth are written in as many bytes as size() says and     *)
(* read back from them, whatever follows.                                  *)
THEOREM FieldsAreRead ==
  \A f \in Field[MaxDepth] :
    /\ size(f) \in Nat /\ fill(f) \in Seq(Octets) /\ Len(fill(f)) = size(f)
    /\ (f.type \in Nested => size(f) \in Numbers(4, FALSE)) =>
         \A rest \in Seq(Octets) :
           decode(f.type, Input(fill(f) \o rest)) = [value |-> f.held, in |-> Input(rest)]
<1>1. KeptAt(MaxDepth) /\ ReadAt(MaxDepth)
  BY EveryDepth, DepthIs, Zenon
<1> QED
  BY <1>1, Zenon DEF KeptAt, ReadAt, Writable, Decoded, Taken, size, fill, decode

-----------------------------------------------------------------------------
(* The properties of a message. *)
LEMMA StoredField ==
  ASSUME NEW meta, Storable(meta), NEW p \in Properties, has(meta, p)
  PROVE  LET f == FieldOfProperty(meta, p)
         IN  /\ fill(f) \in Seq(Octets) /\ Len(fill(f)) = size(f) /\ size(f) \in Nat
             /\ \A rest \in Seq(Octets) :
                  decode(Type[p], Input(fill(f) \o rest)) = Taken(meta.values[p], rest)
<1> DEFINE f == FieldOfProperty(meta, p)
<1>1. f \in Field[MaxDepth] /\ (f.type \in Nested => size(f) \in Numbers(4, FALSE))
  BY DEF Storable, StorableProperty
<1>2. f.type = Type[p] /\ f.held = meta.values[p]
  BY DEF FieldOfProperty
<1>3. KeptAt(MaxDepth) /\ ReadAt(MaxDepth)
  BY EveryDepth, DepthIs
<1> HIDE DEF f
<1>4. fill(f) \in Seq(Octets) /\ Len(fill(f)) = size(f) /\ size(f) \in Nat
  BY <1>1, <1>3 DEF KeptAt, fill, size
<1>5. Writable(f, MaxDepth)
  BY <1>1 DEF Writable, size
<1>6. ASSUME NEW rest \in Seq(Octets)
      PROVE  decode(Type[p], Input(fill(f) \o rest)) = Taken(meta.values[p], rest)
  <2>1. Decoded(MaxDepth, f.type, Input(fills[MaxDepth][f] \o rest)) = Taken(f.held, rest)
    BY <1>1, <1>3, <1>5, Zenon DEF ReadAt
  <2> QED
    BY <1>2, <2>1 DEF Decoded, decode, fill
<1> QED
  BY <1>4, <1>6, Zenon DEF f

PropertyPiece(meta, k) ==
  IF has(meta, FillOrder[k]) THEN fill(FieldOfProperty(meta, FillOrder[k])) ELSE <<>>

PropertyTerm(meta, k) ==
  IF has(meta, FillOrder[k]) THEN size(FieldOfProperty(meta, FillOrder[k])) ELSE 0

LEMMA Orders ==
  /\ Len(FillOrder) = 14 /\ DOMAIN FillOrder = 1..14 /\ ReadOrder = FillOrder
  /\ \A k \in 1..14 : FillOrder[k] \in Properties
  /\ \A p \in Properties : \E k \in 1..14 : FillOrder[k] = p
<1>1. Len(FillOrder) = 14 /\ DOMAIN FillOrder = 1..14 /\ ReadOrder = FillOrder
  BY DEF FillOrder, ReadOrder
<1>2. \A k \in 1..14 : FillOrder[k] \in Properties
  BY DEF FillOrder, Properties, Type
<1>3. \A p \in Properties : \E k \in 1..14 : FillOrder[k] = p
  BY DEF FillOrder, Properties, Type
<1> QED
  BY <1>1, <1>2, <1>3

LEMMA PropertyPieceIs ==
  ASSUME NEW meta, Storable(meta), NEW k \in 1..14
  PROVE  /\ PropertyPiece(meta, k) \in Seq(Octets) /\ PropertyTerm(meta, k) \in Nat
         /\ Len(PropertyPiece(meta, k)) = PropertyTerm(meta, k)
<1>1. CASE has(meta, FillOrder[k])
  BY <1>1, Orders, StoredField DEF PropertyPiece, PropertyTerm
<1>2. CASE ~has(meta, FillOrder[k])
  BY <1>2 DEF PropertyPiece, PropertyTerm
<1> QED
  BY <1>1, <1>2

(* A sum of fourteen terms, written out. *)
LEMMA TotalOfFourteen ==
  ASSUME NEW terms \in [1..14 -> Nat]
  PROVE  Total(terms) = terms[1] + terms[2] + terms[3] + terms[4] + terms[5] + terms[6] + terms[7]
                        + terms[8] + terms[9] + terms[10] + terms[11] + terms[12] + terms[13]
                        + terms[14]
<1>1. 14 \in Nat
  OBVIOUS
<1>2. PICK t \in [0..14 -> Nat] :
        /\ Total(terms) = t[0] /\ t[14] = 0
        /\ \A k \in 1..14 : t[k - 1] = terms[k] + t[k]
  BY <1>1, TotalIs
<1>3. /\ t[0] = terms[1] + t[1] /\ t[1] = terms[2] + t[2] /\ t[2] = terms[3] + t[3]
      /\ t[3] = terms[4] + t[4] /\ t[4] = terms[5] + t[5] /\ t[5] = terms[6] + t[6]
      /\ t[6] = terms[7] + t[7] /\ t[7] = terms[8] + t[8] /\ t[8] = terms[9] + t[9]
      /\ t[9] = terms[10] + t[10] /\ t[10] = terms[11] + t[11] /\ t[11] = terms[12] + t[12]
      /\ t[12] = terms[13] + t[13] /\ t[13] = terms[14] + t[14]
  BY <1>2
<1>4. \A k \in 1..14 : terms[k] \in Nat /\ t[k] \in Nat
  OBVIOUS
<1>5. t[10] = terms[11] + terms[12] + terms[13] + terms[14]
  BY <1>2, <1>3, <1>4
<1>6. t[6] = terms[7] + terms[8] + terms[9] + terms[10] + t[10]
  BY <1>3, <1>4
<1>7. t[3] = terms[4] + terms[5] + terms[6] + t[6]
  BY <1>3, <1>4
<1>8. t[0] = terms[1] + terms[2] + terms[3] + t[3]
  BY <1>3, <1>4
<1>9. /\ terms[1] \in Nat /\ terms[2] \in Nat /\ terms[3] \in Nat /\ terms[4] \in Nat
      /\ terms[5] \in Nat /\ terms[6] \in Nat /\ terms[7] \in Nat /\ terms[8] \in Nat
      /\ terms[9] \in Nat /\ terms[10] \in Nat /\ terms[11] \in Nat /\ terms[12] \in Nat
      /\ terms[13] \in Nat /\ terms[14] \in Nat
  BY <1>4
<1>10. Total(terms) = t[0]
  BY <1>2
<1> QED
  BY <1>5, <1>6, <1>7, <1>8, <1>9, <1>10

(* The list of size() has the properties of the list of fill(), each once: *)
(* its first eight and then its last six, both backwards.                  *)
InSize(k) == IF k <= 8 THEN 9 - k ELSE 23 - k

LEMMA SizeOrderIs ==
  DOMAIN SizeOrder = 1..14 /\ \A k \in 1..14 : SizeOrder[k] = FillOrder[InSize(k)]
<1>1. DOMAIN SizeOrder = 1..14
  BY DEF SizeOrder
<1>2. ASSUME NEW k \in 1..14 PROVE SizeOrder[k] = FillOrder[InSize(k)]
  <2>1. \/ k = 1 \/ k = 2 \/ k = 3 \/ k = 4 \/ k = 5 \/ k = 6 \/ k = 7
        \/ k = 8 \/ k = 9 \/ k = 10 \/ k = 11 \/ k = 12 \/ k = 13 \/ k = 14
    OBVIOUS
  <2> QED
    BY <2>1 DEF SizeOrder, FillOrder, InSize
<1> QED
  BY <1>1, <1>2

LEMMA SizesAdd ==
  ASSUME NEW meta, \A k \in 1..14 : PropertyTerm(meta, k) \in Nat
  PROVE  sizeMetaData(meta) = 2 + Total([k \in 1..14 |-> PropertyTerm(meta, k)])
<1> DEFINE a == [k \in 1..14 |-> PropertyTerm(meta, k)]
           b == [k \in 1..14 |-> PropertyTerm(meta, InSize(k))]
<1>1. sizeMetaData(meta) = 2 + Total(b)
  <2>1. [k \in DOMAIN SizeOrder |->
           IF has(meta, SizeOrder[k]) THEN size(FieldOfProperty(meta, SizeOrder[k])) ELSE 0] = b
    BY SizeOrderIs, Zenon DEF PropertyTerm
  <2> QED
    BY <2>1, Zenon DEF sizeMetaData
<1>2. a \in [1..14 -> Nat]
  OBVIOUS
<1>3. /\ b[1] = a[8] /\ b[2] = a[7] /\ b[3] = a[6] /\ b[4] = a[5] /\ b[5] = a[4] /\ b[6] = a[3]
      /\ b[7] = a[2] /\ b[8] = a[1] /\ b[9] = a[14] /\ b[10] = a[13] /\ b[11] = a[12]
      /\ b[12] = a[11] /\ b[13] = a[10] /\ b[14] = a[9]
  BY DEF InSize
<1>4. b \in [1..14 -> Nat]
  <2>1. \A k \in 1..14 : InSize(k) \in 1..14
    BY DEF InSize
  <2> QED
    BY <2>1
<1> HIDE DEF a, b
<1>5. Total(a) = Total(b)
  <2>1. \A k \in 1..14 : a[k] \in Nat
    BY <1>2
  <2>2. Total(a) = a[1] + a[2] + a[3] + a[4] + a[5] + a[6] + a[7] + a[8] + a[9] + a[10] + a[11]
                   + a[12] + a[13] + a[14]
    BY <1>2, TotalOfFourteen
  <2>3. Total(b) = b[1] + b[2] + b[3] + b[4] + b[5] + b[6] + b[7] + b[8] + b[9] + b[10] + b[11]
                   + b[12] + b[13] + b[14]
    BY <1>4, TotalOfFourteen
  <2> QED
    BY <1>3, <2>1, <2>2, <2>3
<1> QED
  BY <1>1, <1>5 DEF a

(* The two bytes of flags, and after them the properties. *)
LEMMA FlagsAre ==
  ASSUME NEW meta, Storable(meta)
  PROVE  /\ \A k \in 1..2 : /\ meta.bools[k] \in SUBSET Bits /\ Byte(meta.bools[k]) \in 0..255
                            /\ BooleanSet(Byte(meta.bools[k])) = meta.bools[k]
                            /\ <<Byte(meta.bools[k])>> \in Seq(Octets)
                            /\ Len(<<Byte(meta.bools[k])>>) = 1
<1> SUFFICES ASSUME NEW k \in 1..2
             PROVE  /\ meta.bools[k] \in SUBSET Bits /\ Byte(meta.bools[k]) \in 0..255
                    /\ BooleanSet(Byte(meta.bools[k])) = meta.bools[k]
                    /\ <<Byte(meta.bools[k])>> \in Seq(Octets)
                    /\ Len(<<Byte(meta.bools[k])>>) = 1
  OBVIOUS
<1>1. meta.bools[k] \in SUBSET Bits
  <2>1. k = 1 \/ k = 2
    OBVIOUS
  <2> QED
    BY <2>1 DEF Storable
<1>2. Byte(meta.bools[k]) \in 0..255 /\ BooleanSet(Byte(meta.bools[k])) = meta.bools[k]
  BY <1>1, BitsAreRead
<1> DEFINE byte == Byte(meta.bools[k])
<1>3. byte \in Octets
  BY <1>2 DEF Octets, ByteRange
<1> HIDE DEF byte
<1>4. <<byte>> \in Seq(Octets) /\ Len(<<byte>>) = 1
  BY <1>3
<1> QED
  BY <1>1, <1>2, <1>4 DEF byte

(* The meta data are written to the size that was computed. *)
LEMMA MetaDataIsKept ==
  ASSUME NEW meta, Storable(meta)
  PROVE  /\ fillMetaData(meta) \in Seq(Octets)
         /\ Len(fillMetaData(meta)) = sizeMetaData(meta) /\ sizeMetaData(meta) \in Nat
         /\ \E bytes \in Seq(Octets), rests \in [0..14 -> Seq(Octets)] :
              /\ fillMetaData(meta) = <<Byte(meta.bools[1])>> \o (<<Byte(meta.bools[2])>> \o bytes)
              /\ rests[0] = bytes /\ rests[14] = <<>>
              /\ \A k \in 1..14 : rests[k - 1] = PropertyPiece(meta, k) \o rests[k]
<1> DEFINE pieces == [k \in 1..14 |-> PropertyPiece(meta, k)]
           terms == [k \in 1..14 |-> PropertyTerm(meta, k)]
           bytes == Concatenated(pieces)
           sum == Total(terms)
           x == <<Byte(meta.bools[1])>>
           y == <<Byte(meta.bools[2])>>
<1>1. pieces \in [1..14 -> Seq(Octets)] /\ terms \in [1..14 -> Nat]
      /\ \A k \in 1..14 : Len(pieces[k]) = terms[k]
  BY PropertyPieceIs
<1>2. \A k \in 1..14 : pieces[k] = PropertyPiece(meta, k)
  OBVIOUS
<1>3. sizeMetaData(meta) = 2 + sum
  BY PropertyPieceIs, SizesAdd
<1>4. fillMetaData(meta) = <<Byte(meta.bools[1]), Byte(meta.bools[2])>> \o bytes
  BY Orders, Zenon DEF fillMetaData, PropertyPiece
<1>5. 14 \in Nat
  OBVIOUS
<1> HIDE DEF pieces, terms
<1>6. bytes \in Seq(Octets) /\ Len(bytes) = sum /\ sum \in Nat
  BY <1>1, <1>5, LengthsAdd, TotalBounds
<1>7. PICK rests \in [0..14 -> Seq(Octets)] :
        /\ bytes = rests[0] /\ rests[14] = <<>>
        /\ \A k \in 1..14 : rests[k - 1] = pieces[k] \o rests[k]
  BY <1>1, <1>5, ConcatenatedIs
<1> HIDE DEF bytes, sum
<1>8. <<Byte(meta.bools[1]), Byte(meta.bools[2])>> = x \o y
  OBVIOUS
<1>9. x \in Seq(Octets) /\ y \in Seq(Octets) /\ Len(x) = 1 /\ Len(y) = 1
  <2>1. 1 \in 1..2 /\ 2 \in 1..2
    OBVIOUS
  <2> QED
    BY <2>1, FlagsAre
<1> HIDE DEF x, y
<1>10. fillMetaData(meta) = x \o (y \o bytes)
  <2>1. (x \o y) \o bytes = x \o (y \o bytes)
    BY <1>6, <1>9, JoinedTwice
  <2> QED
    BY <1>4, <1>8, <2>1
<1>11. y \o bytes \in Seq(Octets) /\ Len(y \o bytes) = 1 + sum
  BY <1>6, <1>9, JoinedOnce
<1>12. x \o (y \o bytes) \in Seq(Octets) /\ Len(x \o (y \o bytes)) = 1 + (1 + sum)
  <2> DEFINE z == y \o bytes
  <2> HIDE DEF z
  <2>1. z \in Seq(Octets) /\ Len(z) = 1 + sum
    BY <1>11 DEF z
  <2>2. x \o z \in Seq(Octets) /\ Len(x \o z) = Len(x) + Len(z)
    BY <1>9, <2>1, JoinedOnce
  <2> QED
    BY <1>9, <2>1, <2>2 DEF z
<1>13. 1 + (1 + sum) = 2 + sum /\ 2 + sum \in Nat
  BY <1>6
<1>14. \A k \in 1..14 : rests[k - 1] = PropertyPiece(meta, k) \o rests[k]
  BY <1>2, <1>7
<1> QED
  BY <1>3, <1>6, <1>7, <1>10, <1>12, <1>13, <1>14 DEF x, y

-----------------------------------------------------------------------------
(* What has been read of the properties after some turns of the loop. *)
ValuesPart(meta, k) ==
  [p \in Properties |-> IF \E j \in 1..k : FillOrder[j] = p THEN meta.values[p] ELSE Cleared[p]]

MetaPart(meta, k) ==
  [bools |-> <<meta.bools[1], meta.bools[2]>>, values |-> ValuesPart(meta, k)]

LEMMA WithPropertyIs ==
  ASSUME NEW bools, NEW values, DOMAIN values = Properties, NEW p, NEW value, NEW in, NEW rest
  PROVE  WithProperty([value |-> [bools |-> bools, values |-> values], in |-> in], p,
                      Taken(value, rest))
           = Taken([bools |-> bools,
                    values |-> [q \in Properties |-> IF q = p THEN value ELSE values[q]]], rest)
<1> DEFINE m == [bools |-> bools, values |-> values]
<1>1. [m EXCEPT !.values[p] = value]
        = [bools |-> bools, values |-> [q \in Properties |-> IF q = p THEN value ELSE values[q]]]
  OBVIOUS
<1>2. Taken(value, rest).value = value /\ Taken(value, rest).in = Input(rest)
  BY DEF Taken
<1>3. \A v : Taken(v, rest) = [value |-> v, in |-> Input(rest)]
  BY DEF Taken
<1> QED
  BY <1>1, <1>2, <1>3 DEF WithProperty

LEMMA PropertyPartsAre ==
  ASSUME NEW meta, Storable(meta)
  PROVE  /\ ValuesPart(meta, 0) = Cleared /\ MetaPart(meta, 14) = meta
         /\ \A k \in 0..14 : \A p : has(MetaPart(meta, k), p) <=> has(meta, p)
         /\ \A k \in 1..14 : /\ DOMAIN ValuesPart(meta, k - 1) = Properties
                             /\ ~has(meta, FillOrder[k]) => ValuesPart(meta, k) = ValuesPart(meta, k - 1)
                             /\ ValuesPart(meta, k) =
                                  [q \in Properties |-> IF q = FillOrder[k] THEN meta.values[q]
                                                        ELSE ValuesPart(meta, k - 1)[q]]
<1>1. Cleared = [p \in Properties |-> Cleared[p]]
  BY Zenon DEF Cleared
<1>2. ValuesPart(meta, 0) = Cleared
  BY <1>1 DEF ValuesPart
<1>3. MetaPart(meta, 14) = meta
  <2>1. ValuesPart(meta, 14) = [p \in Properties |-> meta.values[p]]
    BY Orders DEF ValuesPart
  <2> QED
    BY <2>1, Zenon DEF MetaPart, Storable
<1>4. ASSUME NEW k \in 0..14, NEW p PROVE has(MetaPart(meta, k), p) <=> has(meta, p)
  <2>1. MetaPart(meta, k).bools = meta.bools
    BY DEF MetaPart, Storable
  <2> QED
    BY <2>1, Zenon DEF has
<1>5. ASSUME NEW k \in 1..14
      PROVE  /\ DOMAIN ValuesPart(meta, k - 1) = Properties
             /\ ~has(meta, FillOrder[k]) => ValuesPart(meta, k) = ValuesPart(meta, k - 1)
             /\ ValuesPart(meta, k) = [q \in Properties |-> IF q = FillOrder[k] THEN meta.values[q]
                                                            ELSE ValuesPart(meta, k - 1)[q]]
  <2>1. \A j : j \in 1..k <=> (j = k \/ j \in 1..k - 1)
    OBVIOUS
  <2>2. \A q : (\E j \in 1..k : FillOrder[j] = q)
                 <=> (q = FillOrder[k] \/ \E j \in 1..k - 1 : FillOrder[j] = q)
    BY <2>1
  <2>3. ValuesPart(meta, k) = [q \in Properties |-> IF q = FillOrder[k] THEN meta.values[q]
                                                    ELSE ValuesPart(meta, k - 1)[q]]
    BY <2>2 DEF ValuesPart
  <2>4. DOMAIN ValuesPart(meta, k - 1) = Properties
        /\ ValuesPart(meta, k - 1) = [q \in Properties |-> ValuesPart(meta, k - 1)[q]]
    BY DEF ValuesPart
  <2>5. ASSUME ~has(meta, FillOrder[k])
        PROVE  \A q \in Properties : q = FillOrder[k] => meta.values[q] = ValuesPart(meta, k - 1)[q]
    <3>1. FillOrder[k] \in Properties
      BY Orders
    <3>2. meta.values[FillOrder[k]] = Cleared[FillOrder[k]]
      BY <2>5, <3>1, Zenon DEF Storable, StorableProperty
    <3> QED
      BY <3>1, <3>2 DEF ValuesPart
  <2>6. ASSUME ~has(meta, FillOrder[k]) PROVE ValuesPart(meta, k) = ValuesPart(meta, k - 1)
    BY <2>3, <2>4, <2>5, <2>6
  <2> QED
    BY <2>3, <2>4, <2>6
<1> QED
  BY <1>2, <1>3, <1>4, <1>5

(* One turn of the loop over the properties reads one of them, if set. *)
LEMMA PropertyIsRead ==
  ASSUME NEW meta, Storable(meta), NEW k \in 1..14, NEW rest \in Seq(Octets)
  PROVE  readProperty(Taken(MetaPart(meta, k - 1), PropertyPiece(meta, k) \o rest), ReadOrder[k])
           = Taken(MetaPart(meta, k), rest)
<1> DEFINE p == FillOrder[k]
           before == MetaPart(meta, k - 1)
           bytes == PropertyPiece(meta, k) \o rest
           read == Taken(before, bytes)
<1>1. p \in Properties /\ ReadOrder[k] = p /\ k - 1 \in 0..14
  BY Orders
<1>2. read.value = before /\ read.in = Input(bytes) /\ read.in.ok
  BY DEF Taken, Input
<1>3. has(before, p) <=> has(meta, p)
  BY <1>1, PropertyPartsAre
<1>4. CASE ~has(meta, p)
  <2>1. bytes = rest
    BY <1>4 DEF PropertyPiece
  <2>2. MetaPart(meta, k) = before
    BY <1>4, PropertyPartsAre DEF MetaPart
  <2>3. readProperty(read, p) = read
    <3> HIDE DEF read, p, before
    <3> QED
      BY <1>2, <1>3, <1>4, Zenon DEF readProperty
  <2> QED
    BY <1>1, <2>1, <2>2, <2>3
<1>5. CASE has(meta, p)
  <2> DEFINE value == meta.values[p]
  <2>1. PropertyPiece(meta, k) = fill(FieldOfProperty(meta, p))
    BY <1>5, Zenon DEF PropertyPiece
  <2>2. decode(Type[p], Input(bytes)) = Taken(value, rest)
    BY <1>1, <1>5, <2>1, StoredField
  <2>3. readProperty(read, p) = WithProperty(read, p, Taken(value, rest))
    <3> HIDE DEF read, p, before, bytes, value
    <3> QED
      BY <1>2, <1>3, <1>5, <2>2, Zenon DEF readProperty
  <2> DEFINE bools == <<meta.bools[1], meta.bools[2]>>
             values == ValuesPart(meta, k - 1)
  <2>4. DOMAIN values = Properties
        /\ ValuesPart(meta, k) = [q \in Properties |-> IF q = p THEN value ELSE values[q]]
    BY PropertyPartsAre
  <2>5. read = [value |-> [bools |-> bools, values |-> values], in |-> Input(bytes)]
    BY Zenon DEF Taken, MetaPart
  <2>6. MetaPart(meta, k) = [bools |-> bools, values |-> ValuesPart(meta, k)]
    BY Zenon DEF MetaPart
  <2> HIDE DEF read, p, before, bytes, value, bools, values
  <2>7. WithProperty(read, p, Taken(value, rest))
          = Taken([bools |-> bools,
                   values |-> [q \in Properties |-> IF q = p THEN value ELSE values[q]]], rest)
    <3>1. DOMAIN values = Properties
      BY <2>4
    <3>2. WithProperty([value |-> [bools |-> bools, values |-> values], in |-> Input(bytes)], p,
                       Taken(value, rest))
            = Taken([bools |-> bools,
                     values |-> [q \in Properties |-> IF q = p THEN value ELSE values[q]]], rest)
      BY <3>1, WithPropertyIs
    <3> QED
      BY <2>5, <3>2, Zenon
  <2> QED
    BY <1>1, <2>3, <2>4, <2>6, <2>7, Zenon DEF read, before, bytes
<1> QED
  BY <1>4, <1>5

IsPropertiesRead(read, bools, in) ==
  read = [k \in 0..Len(ReadOrder) |->
            IF k = 0 THEN [value |-> [MetaData EXCEPT !.bools = bools], in |-> in]
            ELSE readProperty(read[k - 1], ReadOrder[k])]

PropertyReads(read, bools, in) ==
  /\ readProperties(bools, in) = read[14]
  /\ read[0] = [value |-> [MetaData EXCEPT !.bools = bools], in |-> in]
  /\ \A k \in 1..14 : read[k] = readProperty(read[k - 1], ReadOrder[k])

LEMMA PropertyTurns ==
  ASSUME NEW bools, NEW in
  PROVE  \E read : PropertyReads(read, bools, in)
<1> DEFINE loop == [of |-> "properties", bools |-> bools, in |-> in]
<1>1. \A k, prior : Layer(loop, k, prior) =
         IF k = 0 THEN [value |-> [MetaData EXCEPT !.bools = bools], in |-> in]
         ELSE readProperty(prior, ReadOrder[k])
  <2>1. loop.of = "properties" /\ loop.bools = bools /\ loop.in = in
    OBVIOUS
  <2> HIDE DEF loop
  <2>2. \A k, prior : Layer(loop, k, prior) = PropertiesLayer(loop, k, prior)
    BY <2>1 DEF Layer
  <2> QED
    BY <2>1, <2>2, Zenon DEF PropertiesLayer
<1> HIDE DEF loop
<1>2. \A x, y : Layer(loop, 0, x) = Layer(loop, 0, y)
  BY <1>1
<1>3. Len(ReadOrder) = 14 /\ 14 \in Nat
  BY Orders
<1>4. PICK f : Layered(loop, f, 14)
  BY <1>2, <1>3, LayersExist, Zenon
<1>5. IsPropertiesRead(f, bools, in)
  BY <1>1, <1>3, <1>4, ZenonT(40) DEF Layered, IsPropertiesRead
<1> DEFINE g == CHOOSE h : IsPropertiesRead(h, bools, in)
<1>6. IsPropertiesRead(g, bools, in)
  BY <1>5
<1>7. readProperties(bools, in) = g[Len(ReadOrder)]
  BY Zenon DEF readProperties, IsPropertiesRead
<1> HIDE DEF g
<1> DEFINE first == [value |-> [MetaData EXCEPT !.bools = bools], in |-> in]
<1>8. \A k \in 0..14 : g[k] = IF k = 0 THEN first ELSE readProperty(g[k - 1], ReadOrder[k])
  BY <1>3, <1>6, Zenon DEF IsPropertiesRead
<1> HIDE DEF first
<1>9. 0 \in 0..14 /\ \A k \in 1..14 : k \in 0..14 /\ k # 0
  OBVIOUS
<1>10. g[0] = first /\ \A k \in 1..14 : g[k] = readProperty(g[k - 1], ReadOrder[k])
  BY <1>8, <1>9
<1>11. readProperties(bools, in) = g[14]
  BY <1>3, <1>7
<1> QED
  BY <1>10, <1>11, Zenon DEF first, PropertyReads

-----------------------------------------------------------------------------
(* From the first to the last of the properties. *)
LEMMA BlankMetaData ==
  ASSUME NEW b
  PROVE  [MetaData EXCEPT !.bools = b] = [bools |-> b, values |-> Cleared]
<1> DEFINE z == Cleared
           m == [bools |-> <<{}, {}>>, values |-> z]
<1>1. MetaData = m
  BY Zenon DEF MetaData
<1> HIDE DEF z
<1>2. [m EXCEPT !.bools = b] = [bools |-> b, values |-> z]
  OBVIOUS
<1> QED
  BY <1>1, <1>2, Zenon DEF z

LEMMA PropertiesAreRead ==
  ASSUME NEW meta, Storable(meta), NEW bytes \in Seq(Octets), NEW rests \in [0..14 -> Seq(Octets)],
         rests[0] = bytes, rests[14] = <<>>,
         \A k \in 1..14 : rests[k - 1] = PropertyPiece(meta, k) \o rests[k],
         NEW rest \in Seq(Octets)
  PROVE  readProperties(<<meta.bools[1], meta.bools[2]>>, Input(bytes \o rest)) = Taken(meta, rest)
<1> DEFINE bools == <<meta.bools[1], meta.bools[2]>>
           in == Input(bytes \o rest)
<1>1. PICK read : PropertyReads(read, bools, in)
  <2> HIDE DEF bools, in
  <2> QED
    BY PropertyTurns, Zenon
<1>2. read[0] = Taken(MetaPart(meta, 0), rests[0] \o rest)
  <2>1. \A b : [MetaData EXCEPT !.bools = b] = [bools |-> b, values |-> Cleared]
    BY BlankMetaData
  <2>2. MetaPart(meta, 0) = [bools |-> bools, values |-> Cleared]
    BY PropertyPartsAre, Zenon DEF MetaPart
  <2>3. read[0] = [value |-> [MetaData EXCEPT !.bools = bools], in |-> in]
    BY <1>1, Zenon DEF PropertyReads
  <2>4. in = Input(rests[0] \o rest)
    BY Zenon
  <2> HIDE DEF bools, in
  <2> QED
    BY <2>1, <2>2, <2>3, <2>4, Zenon DEF Taken
<1>3. ASSUME NEW k \in 1..14, read[k - 1] = Taken(MetaPart(meta, k - 1), rests[k - 1] \o rest)
      PROVE  read[k] = Taken(MetaPart(meta, k), rests[k] \o rest)
  <2>1. rests[k] \in Seq(Octets)
    <3>1. k \in 0..14
      OBVIOUS
    <3> QED
      BY <3>1
  <2>2. PropertyPiece(meta, k) \in Seq(Octets)
    BY PropertyPieceIs
  <2> DEFINE piece == PropertyPiece(meta, k)
             next == rests[k]
  <2>3. rests[k - 1] = piece \o next
    OBVIOUS
  <2>7. piece \in Seq(Octets) /\ next \in Seq(Octets)
    BY <2>1, <2>2, Zenon
  <2> HIDE DEF piece, next
  <2>4. (piece \o next) \o rest = piece \o (next \o rest) /\ next \o rest \in Seq(Octets)
    <3>1. \A u, v \in Seq(Octets) : (u \o v) \o rest = u \o (v \o rest)
      BY JoinedTwice
    <3>2. next \o rest \in Seq(Octets)
      BY <2>7, JoinedOnce
    <3> QED
      BY <2>7, <3>1, <3>2, Zenon
  <2>5. readProperty(Taken(MetaPart(meta, k - 1), piece \o (next \o rest)), ReadOrder[k])
          = Taken(MetaPart(meta, k), next \o rest)
    BY <2>4, PropertyIsRead DEF piece
  <2>6. read[k] = readProperty(read[k - 1], ReadOrder[k])
    BY <1>1, Zenon DEF PropertyReads
  <2> QED
    BY <1>3, <2>3, <2>4, <2>5, <2>6, Zenon DEF next
<1> DEFINE part(k) == Taken(MetaPart(meta, k), rests[k] \o rest)
           S == {k \in 0..14 : read[k] = part(k)}
<1>8. read[0] = part(0)
  BY <1>2, Zenon
<1>9. ASSUME NEW k \in 1..14, read[k - 1] = part(k - 1) PROVE read[k] = part(k)
  BY <1>3, <1>9, Zenon
<1> HIDE DEF part
<1>4. 0..14 \subseteq S
  <2>1. 0 \in S /\ 14 \in Nat
    BY <1>8
  <2>2. ASSUME NEW k \in 1..14, k - 1 \in S PROVE k \in S
    <3>1. k \in 0..14
      OBVIOUS
    <3> QED
      BY <1>9, <2>2, <3>1, Zenon
  <2> HIDE DEF S
  <2> QED
    BY <2>1, <2>2, Upwards
<1>10. read[14] = part(14)
  <2>1. 14 \in 0..14
    OBVIOUS
  <2> QED
    BY <1>4, <2>1, Zenon
<1>5. read[14] = Taken(MetaPart(meta, 14), rests[14] \o rest)
  BY <1>10, Zenon DEF part
<1>11. readProperties(bools, in) = read[14]
  BY <1>1, Zenon DEF PropertyReads
<1>6. MetaPart(meta, 14) = meta
  BY PropertyPartsAre
<1>7. rests[14] \o rest = rest
  OBVIOUS
<1> QED
  BY <1>5, <1>6, <1>7, <1>11, Zenon

(* What MetaData::fill() wrote, MetaData(InBuffer) reads as it was, with   *)
(* every property that was set, and leaves the bytes behind it.            *)
THEOREM MetaDataIsRead ==
  ASSUME NEW meta, Storable(meta), NEW rest \in Seq(Octets)
  PROVE  readMetaData(Input(fillMetaData(meta) \o rest)) = Taken(meta, rest)
<1>1. PICK bytes \in Seq(Octets), rests \in [0..14 -> Seq(Octets)] :
        /\ fillMetaData(meta) = <<Byte(meta.bools[1])>> \o (<<Byte(meta.bools[2])>> \o bytes)
        /\ rests[0] = bytes /\ rests[14] = <<>>
        /\ \A k \in 1..14 : rests[k - 1] = PropertyPiece(meta, k) \o rests[k]
  BY MetaDataIsKept
<1> DEFINE x == Byte(meta.bools[1])
           y == Byte(meta.bools[2])
           after == bytes \o rest
           one == nextInteger(Input(<<x>> \o (<<y>> \o after)), 1, FALSE)
           two == nextInteger(Input(<<y>> \o after), 1, FALSE)
<1>2. /\ x \in 0..255 /\ BooleanSet(x) = meta.bools[1] /\ <<x>> \in Seq(Octets)
      /\ y \in 0..255 /\ BooleanSet(y) = meta.bools[2] /\ <<y>> \in Seq(Octets)
  <2>1. 1 \in 1..2 /\ 2 \in 1..2
    OBVIOUS
  <2> QED
    BY <2>1, FlagsAre, ZenonT(40)
<1>3. readProperties(<<meta.bools[1], meta.bools[2]>>, Input(after)) = Taken(meta, rest)
  BY <1>1, PropertiesAreRead
<1> HIDE DEF x, y
<1>4. after \in Seq(Octets)
  BY JoinedOnce
<1>5. fillMetaData(meta) \o rest = <<x>> \o (<<y>> \o after)
  <2> DEFINE p == <<x>>
             q == <<y>>
  <2>1. p \in Seq(Octets) /\ q \in Seq(Octets)
    BY <1>2
  <2> HIDE DEF p, q
  <2>2. q \o bytes \in Seq(Octets)
    BY <2>1, JoinedOnce
  <2>3. (p \o (q \o bytes)) \o rest = p \o ((q \o bytes) \o rest)
    <3> DEFINE tail == q \o bytes
    <3>1. tail \in Seq(Octets)
      BY <2>2
    <3> HIDE DEF tail
    <3>2. (p \o tail) \o rest = p \o (tail \o rest)
      BY <2>1, <3>1, JoinedTwice, ZenonT(40)
    <3> QED
      BY <3>2 DEF tail
  <2>4. (q \o bytes) \o rest = q \o (bytes \o rest)
    BY <2>1, JoinedTwice, Zenon
  <2> QED
    BY <1>1, <2>3, <2>4, Zenon DEF p, q, x, y
<1> HIDE DEF after
<1>6. <<y>> \o after \in Seq(Octets)
  BY <1>2, <1>4, JoinedOnce
<1>7. one = Taken(x, <<y>> \o after) /\ two = Taken(y, after)
  BY <1>2, <1>4, <1>6, ByteIsRead
<1> HIDE DEF one, two
<1>8. one.value = x /\ one.in = Input(<<y>> \o after) /\ two.value = y /\ two.in = Input(after)
  BY <1>7 DEF Taken
<1>9. readMetaData(Input(fillMetaData(meta) \o rest)) = readFlags(one, two)
  BY <1>5, <1>8, Zenon DEF readMetaData, one, two
<1>10. readFlags(one, two) = readProperties(<<meta.bools[1], meta.bools[2]>>, Input(after))
  BY <1>2, <1>8, Zenon DEF readFlags
<1> QED
  BY <1>3, <1>9, <1>10

(* An envelope has room in as many bytes as its size() says, and is read   *)
(* from them as it was, meta data and body.                                *)
THEOREM EnvelopeIsKept ==
  ASSUME NEW e, SendableEnvelope(e)
  PROVE  /\ fillEnvelope(e) \in Seq(Octets) /\ Len(fillEnvelope(e)) = sizeEnvelope(e)
         /\ \A rest \in Seq(Octets) :
              readEnvelope(Input(fillEnvelope(e) \o rest)) = Taken(e, rest)
<1> DEFINE meta == e.meta
           body == e.body
           m == fillMetaData(meta)
           l == add(Len(body), 8)
<1>1. Storable(meta) /\ body \in Seq(Octets) /\ Len(body) \in Numbers(8, FALSE) /\ e = Envelope(meta, body)
  BY DEF SendableEnvelope
<1>2. fillEnvelope(e) = (m \o l) \o body /\ sizeEnvelope(e) = sizeMetaData(meta) + Len(body) + 8
  BY Zenon DEF fillEnvelope, sizeEnvelope
<1> HIDE DEF meta, body
<1>3. m \in Seq(Octets) /\ Len(m) = sizeMetaData(meta) /\ sizeMetaData(meta) \in Nat
  BY <1>1, MetaDataIsKept
<1>4. l \in Seq(Octets) /\ Len(l) = 8
  <2>1. 8 \in Nat \ {0} /\ FALSE \in BOOLEAN
    OBVIOUS
  <2> QED
    BY <1>1, <2>1, IntegerField, Zenon
<1>5. \A rest \in Seq(Octets) :
        /\ nextInteger(Input(l \o (body \o rest)), 8, FALSE) = Taken(Len(body), body \o rest)
        /\ nextData(Input(body \o rest), Len(body)) = Taken(body, rest)
        /\ l \o (body \o rest) \in Seq(Octets)
        /\ readMetaData(Input(m \o (l \o (body \o rest)))) = Taken(meta, l \o (body \o rest))
        /\ ((m \o l) \o body) \o rest = m \o (l \o (body \o rest))
  <2> SUFFICES ASSUME NEW rest \in Seq(Octets)
               PROVE  /\ nextInteger(Input(l \o (body \o rest)), 8, FALSE) = Taken(Len(body), body \o rest)
                      /\ nextData(Input(body \o rest), Len(body)) = Taken(body, rest)
                      /\ l \o (body \o rest) \in Seq(Octets)
                      /\ readMetaData(Input(m \o (l \o (body \o rest)))) = Taken(meta, l \o (body \o rest))
                      /\ ((m \o l) \o body) \o rest = m \o (l \o (body \o rest))
    OBVIOUS
  <2> DEFINE after == body \o rest
  <2>1. after \in Seq(Octets)
    BY <1>1, JoinedOnce
  <2>2. nextData(Input(body \o rest), Len(body)) = Taken(body, rest)
    BY <1>1, NextDataIs
  <2>3. ((m \o l) \o body) \o rest = (m \o l) \o (body \o rest)
    <3>1. m \o l \in Seq(Octets)
      BY <1>3, <1>4, JoinedOnce
    <3> QED
      BY <1>1, <3>1, JoinedTwice
  <2> HIDE DEF after
  <2>4. nextInteger(Input(l \o after), 8, FALSE) = Taken(Len(body), after)
    <3>1. 8 \in Nat \ {0} /\ FALSE \in BOOLEAN
      OBVIOUS
    <3> QED
      BY <1>1, <2>1, <3>1, IntegerIsRead, Zenon
  <2>5. l \o after \in Seq(Octets) /\ (m \o l) \o after = m \o (l \o after)
    <3>1. m \in Seq(Octets) /\ l \in Seq(Octets)
      BY <1>3, <1>4
    <3> HIDE DEF m, l
    <3>2. l \o after \in Seq(Octets)
      BY <2>1, <3>1, JoinedOnce, Zenon
    <3>3. (m \o l) \o after = m \o (l \o after)
      BY <2>1, <3>1, JoinedTwice, Zenon
    <3> QED
      BY <3>2, <3>3
  <2>6. readMetaData(Input(m \o (l \o after))) = Taken(meta, l \o after)
    BY <1>1, <2>5, MetaDataIsRead
  <2> QED
    BY <2>2, <2>3, <2>4, <2>5, <2>6 DEF after
<1>6. (m \o l) \o body \in Seq(Octets) /\ Len((m \o l) \o body) = sizeMetaData(meta) + Len(body) + 8
  <2> DEFINE front == m \o l
  <2>1. front \in Seq(Octets) /\ Len(front) = Len(m) + Len(l)
    BY <1>3, <1>4, JoinedOnce
  <2> HIDE DEF front
  <2>2. front \o body \in Seq(Octets) /\ Len(front \o body) = Len(front) + Len(body) /\ Len(body) \in Nat
    BY <1>1, <2>1, JoinedOnce
  <2>3. Len(front \o body) = sizeMetaData(meta) + Len(body) + 8
    <3> DEFINE w == Len(front \o body)
               x == Len(front)
               y == Len(body)
               z == sizeMetaData(meta)
    <3>1. w = x + y /\ x = z + 8 /\ y \in Nat /\ z \in Nat
      BY <1>3, <1>4, <2>1, <2>2, Zenon
    <3> HIDE DEF w, x, y, z
    <3>2. w = z + y + 8
      BY <3>1
    <3> QED
      BY <3>2, Zenon DEF w, y, z
  <2> QED
    BY <2>2, <2>3 DEF front
<1> HIDE DEF m, l
<1>7. ASSUME NEW rest \in Seq(Octets)
      PROVE  readEnvelope(Input(((m \o l) \o body) \o rest)) = Taken(e, rest)
  <2> DEFINE read == Taken(meta, l \o (body \o rest))
             length == Taken(Len(body), body \o rest)
             data == Taken(body, rest)
  <2>1. read.value = meta /\ read.in = Input(l \o (body \o rest))
        /\ length.value = Len(body) /\ length.in = Input(body \o rest)
        /\ data.value = body /\ data.in = Input(rest)
    BY DEF Taken
  <2>2. readMetaData(Input(((m \o l) \o body) \o rest)) = read
    BY <1>5
  <2>3. nextInteger(read.in, 8, FALSE) = length /\ nextData(length.in, length.value) = data
    BY <1>5, <2>1
  <2> HIDE DEF read, length, data
  <2>4. readEnvelope(Input(((m \o l) \o body) \o rest)) = Together(read, data)
    BY <2>2, <2>3, Zenon DEF readEnvelope, Announced
  <2> QED
    BY <1>1, <2>1, <2>4, Zenon DEF Together, Taken
<1> QED
  BY <1>2, <1>6, <1>7, Zenon

-----------------------------------------------------------------------------
(* Each property has a bit of its own. *)
LEMMA FlagsDiffer ==
  /\ \A p \in Properties : Flag[p][1] \in {1, 2} /\ Flag[p][2] \in Bits
  /\ \A p, q \in Properties : Flag[p][1] = Flag[q][1] /\ Flag[p][2] = Flag[q][2] => p = q
<1>1. \A p \in Properties : Flag[p][1] \in {1, 2} /\ Flag[p][2] \in Bits
  BY DEF Properties, Type, Flag, Bits
<1>2. \A p, q \in Properties : Flag[p][1] = Flag[q][1] /\ Flag[p][2] = Flag[q][2] => p = q
  BY DEF Properties, Type, Flag
<1> QED
  BY <1>1, <1>2

SetBits(meta, k, p, value) ==
  IF k = Flag[p][1] THEN set(meta.bools[k], Flag[p][2], value) ELSE meta.bools[k]

LEMMA MarkedIs ==
  ASSUME NEW meta, Storable(meta), NEW p \in Properties, NEW value \in BOOLEAN
  PROVE  Marked(meta, p, value)
           = [bools |-> <<SetBits(meta, 1, p, value), SetBits(meta, 2, p, value)>>, values |-> meta.values]
<1> DEFINE i == Flag[p][1]
           b == Flag[p][2]
           x == meta.bools[1]
           y == meta.bools[2]
           v == meta.values
           m == [bools |-> <<x, y>>, values |-> v]
<1>1. meta = m
  <2>1. meta = [bools |-> <<x, y>>, values |-> [q \in Properties |-> meta.values[q]]]
    BY Zenon DEF Storable
  <2> DEFINE w == [q \in Properties |-> meta.values[q]]
  <2>2. meta = [bools |-> <<x, y>>, values |-> w]
    BY <2>1
  <2> HIDE DEF w, x, y
  <2>3. meta.values = w
    BY <2>2
  <2> QED
    BY <2>2, <2>3, Zenon
<1>2. i \in {1, 2}
  BY FlagsDiffer
<1>3. Marked(meta, p, value) = [meta EXCEPT !.bools[i] = set(@, b, value)]
  BY Zenon DEF Marked
<1>4. SetBits(meta, 1, p, value) = IF 1 = i THEN set(x, b, value) ELSE x
  BY Zenon DEF SetBits
<1>5. SetBits(meta, 2, p, value) = IF 2 = i THEN set(y, b, value) ELSE y
  BY Zenon DEF SetBits
<1> HIDE DEF i, b, x, y, v
<1>6. [m EXCEPT !.bools[i] = set(@, b, value)]
        = [bools |-> <<IF 1 = i THEN set(x, b, value) ELSE x, IF 2 = i THEN set(y, b, value) ELSE y>>,
           values |-> v]
  BY <1>2
<1> QED
  BY <1>1, <1>3, <1>4, <1>5, <1>6, Zenon DEF v

(* Setting or clearing a property touches its own bit only. *)
LEMMA SetBitsAre ==
  ASSUME NEW meta, Storable(meta), NEW p \in Properties, NEW value \in BOOLEAN,
         NEW values
  PROVE  LET after == [bools |-> <<SetBits(meta, 1, p, value), SetBits(meta, 2, p, value)>>,
                       values |-> values]
         IN  /\ SetBits(meta, 1, p, value) \in SUBSET Bits /\ SetBits(meta, 2, p, value) \in SUBSET Bits
             /\ has(after, p) <=> value
             /\ \A q \in Properties : q # p => (has(after, q) <=> has(meta, q))
<1> DEFINE after == [bools |-> <<SetBits(meta, 1, p, value), SetBits(meta, 2, p, value)>>,
                     values |-> values]
<1>1. meta.bools[1] \in SUBSET Bits /\ meta.bools[2] \in SUBSET Bits
  BY Zenon DEF Storable
<1>2. SetBits(meta, 1, p, value) \in SUBSET Bits /\ SetBits(meta, 2, p, value) \in SUBSET Bits
  BY <1>1 DEF SetBits, set
<1>3. \A k \in {1, 2} : after.bools[k] = SetBits(meta, k, p, value)
  OBVIOUS
<1> HIDE DEF after
<1>4. has(after, p) <=> value
  BY <1>3, FlagsDiffer DEF has, get, set, SetBits
<1>5. ASSUME NEW q \in Properties, q # p PROVE has(after, q) <=> has(meta, q)
  BY <1>3, <1>5, FlagsDiffer DEF has, get, set, SetBits
<1> QED
  BY <1>2, <1>4, <1>5 DEF after

(* A property that a type fits, or none. *)
Fitting(p, value) ==
  LET field == [type |-> Type[p], held |-> value]
  IN  field \in Field[MaxDepth] /\ (field.type \in Nested => size(field) \in Numbers(4, FALSE))

(* What is left can still be written, if the new value can. *)
LEMMA ChangedIs ==
  ASSUME NEW meta, Storable(meta), NEW p \in Properties, NEW value \in BOOLEAN, NEW held,
         IF value THEN Fitting(p, held) ELSE held = Cleared[p]
  PROVE  Storable([Marked(meta, p, value) EXCEPT !.values[p] = held])
<1> DEFINE x == SetBits(meta, 1, p, value)
           y == SetBits(meta, 2, p, value)
           v == meta.values
           w == [q \in Properties |-> IF q = p THEN held ELSE meta.values[q]]
           after == [bools |-> <<x, y>>, values |-> w]
<1>1. Marked(meta, p, value) = [bools |-> <<x, y>>, values |-> v]
  BY MarkedIs, Zenon
<1>2. v = [q \in Properties |-> v[q]]
  <2> DEFINE z == [q \in Properties |-> meta.values[q]]
             b == <<meta.bools[1], meta.bools[2]>>
  <2>1. meta = [bools |-> b, values |-> z]
    BY Zenon DEF Storable
  <2> HIDE DEF z, b
  <2>2. meta.values = z
    BY <2>1
  <2> QED
    BY <2>2, Zenon DEF z
<1>3. x \in SUBSET Bits /\ y \in SUBSET Bits
      /\ (has(after, p) <=> value)
      /\ \A q \in Properties : q # p => (has(after, q) <=> has(meta, q))
  BY SetBitsAre, Zenon
<1>4. [Marked(meta, p, value) EXCEPT !.values[p] = held] = after
  <2> HIDE DEF x, y
  <2>1. w = [v EXCEPT ![p] = held]
    BY <1>2
  <2> HIDE DEF v, w
  <2>2. [[bools |-> <<x, y>>, values |-> v] EXCEPT !.values[p] = held] = [bools |-> <<x, y>>, values |-> w]
    BY <2>1
  <2> QED
    BY <1>1, <2>2, Zenon
<1>5. after.bools[1] = x /\ after.bools[2] = y /\ after.values = w
  <2> HIDE DEF x, y, w
  <2> QED
    OBVIOUS
<1>6. w = [q \in Properties |-> w[q]] /\ w[p] = held /\ \A q \in Properties : q # p => w[q] = meta.values[q]
  BY Zenon
<1>7. ASSUME NEW q \in Properties PROVE StorableProperty(after, q)
  <2>1. CASE q = p
    <3>1. FieldOfProperty(after, p) = [type |-> Type[p], held |-> held]
      BY <1>5, <1>6, Zenon DEF FieldOfProperty
    <3>2. ~value => after.values[p] = Cleared[p]
      BY <1>5, <1>6, Zenon
    <3> HIDE DEF after
    <3> QED
      BY <1>3, <2>1, <3>1, <3>2, Zenon DEF StorableProperty, Fitting
  <2>2. CASE q # p
    <3>1. StorableProperty(meta, q)
      BY Zenon DEF Storable
    <3>2. FieldOfProperty(after, q) = FieldOfProperty(meta, q) /\ after.values[q] = meta.values[q]
      BY <1>5, <1>6, <2>2, Zenon DEF FieldOfProperty
    <3> HIDE DEF after
    <3> QED
      BY <1>3, <2>2, <3>1, <3>2, Zenon DEF StorableProperty
  <2> QED
    BY <2>1, <2>2
<1>8. after = [bools |-> <<after.bools[1], after.bools[2]>>,
               values |-> [q \in Properties |-> after.values[q]]]
  BY <1>5, <1>6, Zenon
<1> HIDE DEF after, x, y, w
<1>9. Storable(after)
  BY <1>3, <1>5, <1>7, <1>8, Zenon DEF Storable
<1> QED
  BY <1>4, <1>9, Zenon

(* MetaData() and its setters make nothing that cannot be written. *)
THEOREM SettersKeepStorable ==
  /\ Storable(MetaData)
  /\ \A meta : Storable(meta) =>
       /\ \A p \in Properties :
            /\ Storable(removeProperty(meta, p))
            /\ \A value : Fitting(p, value) => Storable(setProperty(meta, p, value))
       /\ \A value \in BOOLEAN : Storable(setPersistent(meta, value))
<1>1. Storable(MetaData)
  <2>1. MetaData.bools[1] = {} /\ MetaData.bools[2] = {} /\ MetaData.values = Cleared
    BY DEF MetaData
  <2>2. \A p \in Properties : ~has(MetaData, p)
    BY <2>1, FlagsDiffer DEF has, get
  <2>3. Cleared = [p \in Properties |-> Cleared[p]]
    BY Zenon DEF Cleared
  <2>4. MetaData = [bools |-> <<{}, {}>>, values |-> Cleared]
    BY Zenon DEF MetaData
  <2>5. {} \in SUBSET Bits
    OBVIOUS
  <2> QED
    BY <2>1, <2>2, <2>3, <2>4, <2>5, Zenon DEF Storable, StorableProperty
<1>2. ASSUME NEW meta, Storable(meta), NEW p \in Properties
      PROVE  /\ Storable(removeProperty(meta, p))
             /\ \A value : Fitting(p, value) => Storable(setProperty(meta, p, value))
  <2>1. FALSE \in BOOLEAN /\ TRUE \in BOOLEAN
    OBVIOUS
  <2>2. Storable([Marked(meta, p, FALSE) EXCEPT !.values[p] = Cleared[p]])
    BY <1>2, <2>1, ChangedIs
  <2>3. ASSUME NEW value, Fitting(p, value)
        PROVE  Storable([Marked(meta, p, TRUE) EXCEPT !.values[p] = value])
    BY <1>2, <2>1, <2>3, ChangedIs
  <2> QED
    BY <2>2, <2>3, Zenon DEF removeProperty, setProperty
<1>3. ASSUME NEW meta, Storable(meta), NEW value \in BOOLEAN PROVE Storable(setPersistent(meta, value))
  <2>1. "deliveryMode" \in Properties /\ Type["deliveryMode"] = "B" /\ "B" \notin Nested
    BY DEF Properties, Type, Nested
  <2>2. Cleared["deliveryMode"] = 0
    BY <2>1 DEF Cleared
  <2>3. Fitting("deliveryMode", 2)
    <3> DEFINE f == [type |-> "B", held |-> 2]
    <3>1. f \in PlainField
      <4>1. 2 \in Numbers(1, FALSE) /\ 2 \in Int
        <5>1. 2 \in 0..255
          OBVIOUS
        <5> QED
          BY <5>1, AddedByte, Zenon
      <4>2. "B" \in DOMAIN Width /\ Width["B"] = 1 /\ ("B" \in Signed) = FALSE
        BY DEF Width, Signed
      <4>3. f \in [type : DOMAIN Width, held : Int] /\ f.type = "B" /\ f.held = 2
        BY <4>1, <4>2
      <4> HIDE DEF f
      <4> QED
        BY <4>1, <4>2, <4>3, Zenon DEF PlainField
    <3>2. Field[MaxDepth] = FieldLayer(MaxDepth, Field[MaxDepth - 1])
      BY DepthIs, FieldIs, Zenon
    <3>3. f \in Field[MaxDepth]
      <4> HIDE DEF f
      <4> QED
        BY <3>1, <3>2, Zenon DEF FieldLayer
    <3>4. f.type \notin Nested
      BY <2>1
    <3> QED
      BY <2>1, <3>3, <3>4, Zenon DEF Fitting
  <2>4. CASE value
    BY <1>2, <1>3, <2>1, <2>3, <2>4, Zenon DEF setPersistent
  <2>5. CASE ~value
    <3>1. Storable([Marked(meta, "deliveryMode", FALSE) EXCEPT !.values["deliveryMode"] = 0])
      BY <1>3, <2>1, <2>2, ChangedIs
    <3> QED
      BY <2>5, <3>1, Zenon DEF setPersistent
  <2> QED
    BY <2>4, <2>5
<1> QED
  BY <1>1, <1>2, <1>3, Zenon

-----------------------------------------------------------------------------
(* A sequence in full is that sequence. *)
IsDone(done, seq) ==
  done = [k \in 0..Len(seq) |-> IF k = 0 THEN <<>> ELSE Append(done[k - 1], seq[k])]

LEMMA OneMore ==
  ASSUME NEW k \in Nat \ {0}, NEW n \in Nat, k <= n, NEW seq, DOMAIN seq = 1..n
  PROVE  Append([j \in 1..k - 1 |-> seq[j]], seq[k]) = [j \in 1..k |-> seq[j]]
<1> DEFINE a == [j \in 1..k - 1 |-> seq[j]]
           x == seq[k]
<1>1. Len(a) = k - 1
  OBVIOUS
<1>2. Append(a, x) = [j \in 1..k |-> IF j = k THEN x ELSE a[j]]
  BY <1>1 
<1> QED
  BY <1>2

LEMMA EvaluatedIs ==
  ASSUME NEW n \in Nat, NEW seq, Len(seq) = n, seq = [k \in 1..n |-> seq[k]]
  PROVE  Evaluated(seq) = seq
<1> DEFINE loop == [of |-> "evaluated", seq |-> seq]
<1>1. \A k, prior : Layer(loop, k, prior) = IF k = 0 THEN <<>> ELSE Append(prior, seq[k])
  <2>1. loop.of = "evaluated" /\ loop.seq = seq
    OBVIOUS
  <2> HIDE DEF loop
  <2>2. \A k, prior : Layer(loop, k, prior) = EvaluatedLayer(loop, k, prior)
    BY <2>1 DEF Layer
  <2> QED
    BY <2>1, <2>2, Zenon DEF EvaluatedLayer
<1> HIDE DEF loop
<1>2. \A x, y : Layer(loop, 0, x) = Layer(loop, 0, y)
  BY <1>1
<1>3. PICK f : Layered(loop, f, n)
  BY <1>2, LayersExist, Zenon
<1>4. IsDone(f, seq)
  BY <1>1, <1>3, Zenon DEF Layered, IsDone
<1> DEFINE g == CHOOSE h : IsDone(h, seq)
<1>5. IsDone(g, seq)
  BY <1>4, Zenon
<1>6. Evaluated(seq) = g[Len(seq)]
  BY Zenon DEF Evaluated, IsDone
<1> HIDE DEF g
<1>7. \A k \in 0..n : g[k] = IF k = 0 THEN <<>> ELSE Append(g[k - 1], seq[k])
  BY <1>5, Zenon DEF IsDone
<1> DEFINE FirstOf(k) == [j \in 1..k |-> seq[j]]
           S == {k \in 0..n : g[k] = FirstOf(k)}
<1>8. 0..n \subseteq S
  <2>1. 0 \in S
    BY <1>7
  <2>2. ASSUME NEW k \in 1..n, k - 1 \in S PROVE k \in S
    <3>1. k \in 0..n /\ k # 0 /\ k \in Nat \ {0} /\ k <= n
      OBVIOUS
    <3>2. g[k] = Append(FirstOf(k - 1), seq[k])
      BY <1>7, <2>2, <3>1, Zenon
    <3>3. Append(FirstOf(k - 1), seq[k]) = FirstOf(k)
      <4>1. DOMAIN seq = 1..n
        BY Zenon
      <4>2. k \in Nat \ {0} /\ n \in Nat /\ k <= n
        BY <3>1
      <4> QED
        BY <4>1, <4>2, OneMore
    <3> QED
      BY <3>1, <3>2, <3>3, Zenon
  <2> HIDE DEF S
  <2> QED
    BY <2>1, <2>2, Upwards
<1>9. n \in 0..n
  OBVIOUS
<1>10. g[n] = FirstOf(n)
  BY <1>8, <1>9, Zenon
<1> QED
  BY <1>6, <1>10, Zenon

-----------------------------------------------------------------------------
(* The header frame: 19 bytes before the meta data, the separator after it.*)
LEMMA BehindIs ==
  ASSUME NEW a \in Seq(Octets), NEW b \in Seq(Octets), Len(a) = 19
  PROVE  SubSeq(a \o b, 20, Len(a \o b)) = b
<1> DEFINE in == Input(a \o b)
           z == a \o b
<1>1. z \in Seq(Octets) /\ Len(a) <= Len(z) /\ Len(a) + 1 = 20
  <2> DEFINE i == Len(a)
             j == Len(b)
             k == Len(z)
  <2>1. z \in Seq(Octets) /\ k = i + j /\ i \in Nat /\ j \in Nat
    BY JoinedOnce, Zenon
  <2>2. i = 19
    OBVIOUS
  <2> HIDE DEF z, i, j, k
  <2>3. i <= k /\ i + 1 = 20
    BY <2>1, <2>2
  <2> QED
    BY <2>1, <2>3, Zenon DEF i, k
<1>2. nextData(in, Len(a)) = Taken(a, b)
  BY NextDataIs, Zenon
<1>3. nextData(in, Len(a)) = [value |-> SubSeq(z, 1, Len(a)), in |-> Input(SubSeq(z, Len(a) + 1, Len(z)))]
  <2>1. in.left = z /\ in.ok
    BY DEF Input
  <2> HIDE DEF in, z
  <2> QED
    BY <1>1, <2>1, Zenon DEF nextData
<1> DEFINE d == SubSeq(z, Len(a) + 1, Len(z))
<1>4. Taken(a, b) = [value |-> SubSeq(z, 1, Len(a)), in |-> Input(d)]
  BY <1>2, <1>3, Zenon
<1> HIDE DEF z, d
<1>5. Taken(a, b).in.left = b
  BY DEF Taken, Input
<1>6. Taken(a, b).in.left = d
  BY <1>4 DEF Input
<1> QED
  BY <1>1, <1>5, <1>6, Zenon DEF z, d

LEMMA HeaderFrameIs ==
  ASSUME NEW e, SendableEnvelope(e)
  PROVE  LET frame == HeaderFrame(e)
         IN  /\ Len(frame.data) = frame.capacity
             /\ SubSeq(frame.data, 20, Len(frame.data)) = fillMetaData(e.meta) \o <<Separator>>
<1> DEFINE s == sizeMetaData(e.meta)
           m == fillMetaData(e.meta)
           p == 12 + s
           kind == <<2>>
           channel == add(1, 2)
           length == add(p, 4)
           class == add(60, 2)
           weight == add(0, 2)
           bytes == add(Len(e.body), 8)
           end == <<Separator>>
<1>1. m \in Seq(Octets) /\ Len(m) = s /\ s \in Nat
  BY MetaDataIsKept DEF SendableEnvelope
<1>2. Len(e.body) \in Int
  <2>1. Len(e.body) \in Numbers(8, FALSE)
    BY DEF SendableEnvelope
  <2> QED
    BY <2>1, Zenon DEF Numbers
<1>3. /\ channel \in Seq(Octets) /\ Len(channel) = 2 /\ length \in Seq(Octets) /\ Len(length) = 4
      /\ class \in Seq(Octets) /\ Len(class) = 2 /\ weight \in Seq(Octets) /\ Len(weight) = 2
      /\ bytes \in Seq(Octets) /\ Len(bytes) = 8
  <2>1. /\ 1 \in Int /\ p \in Int /\ 60 \in Int /\ 0 \in Int
        /\ 2 \in Nat /\ 4 \in Nat /\ 8 \in Nat
    BY <1>1
  <2> HIDE DEF p
  <2> QED
    BY <1>2, <2>1, AddIs, Zenon
<1>4. kind \in Seq(Octets) /\ Len(kind) = 1 /\ end \in Seq(Octets) /\ Len(end) = 1
  BY DEF Octets, ByteRange, Separator
<1>5. HeaderFrame(e).data = Append(kind \o channel \o length \o class \o weight \o bytes \o m, Separator)
      /\ HeaderFrame(e).capacity = 8 + p
  BY Zenon DEF HeaderFrame, CopiedBuffer
<1> DEFINE a == kind \o channel
           b == a \o length
           z == b \o class
           d == z \o weight
           front == d \o bytes
           whole == front \o m
           rest == m \o end
<1>6. HeaderFrame(e).data = Append(whole, Separator)
  BY <1>5
<1> HIDE DEF s, m, kind, channel, length, class, weight, bytes, end
<1>7. a \in Seq(Octets) /\ Len(a) = 3
  <2>1. a \in Seq(Octets) /\ Len(a) = Len(kind) + Len(channel)
    BY <1>3, <1>4, JoinedOnce, Zenon
  <2> HIDE DEF a
  <2> QED
    BY <1>3, <1>4, <2>1
<1> HIDE DEF a
<1>8. b \in Seq(Octets) /\ Len(b) = 7
  <2>1. b \in Seq(Octets) /\ Len(b) = Len(a) + Len(length)
    BY <1>3, <1>7, JoinedOnce, Zenon
  <2> HIDE DEF b
  <2> QED
    BY <1>3, <1>7, <2>1
<1> HIDE DEF b
<1>9. z \in Seq(Octets) /\ Len(z) = 9
  <2>1. z \in Seq(Octets) /\ Len(z) = Len(b) + Len(class)
    BY <1>3, <1>8, JoinedOnce, Zenon
  <2> HIDE DEF z
  <2> QED
    BY <1>3, <1>8, <2>1
<1> HIDE DEF z
<1>10. d \in Seq(Octets) /\ Len(d) = 11
  <2>1. d \in Seq(Octets) /\ Len(d) = Len(z) + Len(weight)
    BY <1>3, <1>9, JoinedOnce, Zenon
  <2> HIDE DEF d
  <2> QED
    BY <1>3, <1>9, <2>1
<1> HIDE DEF d
<1>11. front \in Seq(Octets) /\ Len(front) = 19
  <2>1. front \in Seq(Octets) /\ Len(front) = Len(d) + Len(bytes)
    BY <1>3, <1>10, JoinedOnce, Zenon
  <2> HIDE DEF front
  <2> QED
    BY <1>3, <1>10, <2>1
<1> HIDE DEF front
<1>12. whole \in Seq(Octets) /\ rest \in Seq(Octets) /\ whole \o end = front \o rest
  BY <1>1, <1>4, <1>11, JoinedOnce, JoinedTwice
<1> HIDE DEF whole
<1>13. Append(whole, Separator) = whole \o end
  BY <1>12 DEF end
<1>17. rest \in Seq(Octets) /\ Len(rest) = s + 1
  <2>1. rest \in Seq(Octets) /\ Len(rest) = Len(m) + Len(end)
    BY <1>1, <1>4, JoinedOnce, Zenon
  <2> HIDE DEF rest
  <2> QED
    BY <1>1, <1>4, <2>1
<1> HIDE DEF rest
<1>14. Len(front \o rest) = 8 + p
  <2>1. Len(front \o rest) = Len(front) + Len(rest)
    BY <1>11, <1>17, JoinedOnce, Zenon
  <2> DEFINE l == Len(front \o rest)
  <2> HIDE DEF l
  <2>2. l = 19 + (s + 1)
    BY <1>11, <1>17, <2>1 DEF l
  <2> QED
    BY <1>1, <2>2 DEF l
<1>15. SubSeq(front \o rest, 20, Len(front \o rest)) = rest
  BY <1>11, <1>12, BehindIs
<1> QED
  BY <1>5, <1>6, <1>12, <1>13, <1>14, <1>15, Zenon DEF m, rest, end, whole

-----------------------------------------------------------------------------
(* The envelopes of the client, written and read. *)
LEMMA EachEvaluated ==
  ASSUME NEW F
  PROVE  Evaluated([k \in DOMAIN Envelopes |-> F[k]]) = [k \in DOMAIN Envelopes |-> F[k]]
<1> DEFINE n == Len(Envelopes)
           s == [k \in DOMAIN Envelopes |-> F[k]]
<1>1. n \in Nat /\ DOMAIN Envelopes = 1..n
  BY WireAssumption
<1>2. s = [k \in 1..n |-> s[k]]
  BY <1>1
<1>3. Len(s) = n
  BY <1>1
<1> HIDE DEF n, s
<1>4. Evaluated(s) = s
  BY <1>1, <1>2, <1>3, EvaluatedIs, Zenon
<1> QED
  BY <1>4 DEF s

(* Every envelope is written to memory of exactly its size, as a frame and *)
(* as a program stores it, and read from there as it was.                  *)
Written(k) ==
  /\ SendableEnvelope(Envelopes[k])
  /\ Headers[k] = HeaderFrame(Envelopes[k])
  /\ Stored[k] = [bytes |-> fillEnvelope(Envelopes[k]), size |-> sizeEnvelope(Envelopes[k])]
  /\ WireHeaders[k] = readMetaData(Input(SubSeq(Headers[k].data, 20, Len(Headers[k].data)))).value
  /\ Restored[k] = readEnvelope(Input(Stored[k].bytes))

LEMMA EnvelopesAreWritten ==
  ASSUME NEW k \in DOMAIN Envelopes
  PROVE  Written(k)
<1> DEFINE headers == [j \in DOMAIN Envelopes |-> HeaderFrame(Envelopes[j])]
           stored == [j \in DOMAIN Envelopes |->
             [bytes |-> fillEnvelope(Envelopes[j]), size |-> sizeEnvelope(Envelopes[j])]]
           read == [j \in DOMAIN Envelopes |->
             readMetaData(Input(SubSeq(Headers[j].data, 20, Len(Headers[j].data)))).value]
           restored == [j \in DOMAIN Envelopes |-> readEnvelope(Input(Stored[j].bytes))]
<1>1. SendableEnvelope(Envelopes[k])
  BY EnvelopesAssumption, Zenon
<1>2. Headers = Evaluated(headers)
  BY Zenon DEF Headers
<1>3. Stored = Evaluated(stored)
  BY Zenon DEF Stored
<1>4. WireHeaders = Evaluated(read)
  BY Zenon DEF WireHeaders
<1>5. Restored = Evaluated(restored)
  BY Zenon DEF Restored
<1>6. /\ headers = [j \in DOMAIN Envelopes |-> headers[j]]
      /\ stored = [j \in DOMAIN Envelopes |-> stored[j]]
      /\ read = [j \in DOMAIN Envelopes |-> read[j]]
      /\ restored = [j \in DOMAIN Envelopes |-> restored[j]]
  BY Zenon
<1>7. /\ headers[k] = HeaderFrame(Envelopes[k])
      /\ stored[k] = [bytes |-> fillEnvelope(Envelopes[k]), size |-> sizeEnvelope(Envelopes[k])]
      /\ read[k] = readMetaData(Input(SubSeq(Headers[k].data, 20, Len(Headers[k].data)))).value
      /\ restored[k] = readEnvelope(Input(Stored[k].bytes))
  BY Zenon
<1> HIDE DEF headers, stored, read, restored
<1>8. Headers = headers /\ Stored = stored /\ WireHeaders = read /\ Restored = restored
  <2>1. /\ Evaluated([j \in DOMAIN Envelopes |-> headers[j]]) = [j \in DOMAIN Envelopes |-> headers[j]]
        /\ Evaluated([j \in DOMAIN Envelopes |-> stored[j]]) = [j \in DOMAIN Envelopes |-> stored[j]]
        /\ Evaluated([j \in DOMAIN Envelopes |-> read[j]]) = [j \in DOMAIN Envelopes |-> read[j]]
        /\ Evaluated([j \in DOMAIN Envelopes |-> restored[j]]) = [j \in DOMAIN Envelopes |-> restored[j]]
    BY EachEvaluated, Zenon
  <2> QED
    BY <1>2, <1>3, <1>4, <1>5, <1>6, <2>1, Zenon
<1> QED
  BY <1>1, <1>7, <1>8, Zenon DEF Written

(* The client's header frames: the properties read from them are those of  *)
(* the envelope, as WireAssumption says of ReadHeaders.                    *)
THEOREM HeadersAreRead ==
  \A k \in DOMAIN Envelopes :
    WireHeaders[k] = Envelopes[k].meta /\ Retrieved(WireHeaders[k]) = Retrieved(Envelopes[k].meta)
<1> SUFFICES ASSUME NEW k \in DOMAIN Envelopes PROVE WireHeaders[k] = Envelopes[k].meta
  BY Zenon
<1> DEFINE e == Envelopes[k]
           frame == HeaderFrame(e)
           end == <<Separator>>
<1>1. /\ SendableEnvelope(e)
      /\ WireHeaders[k] = readMetaData(Input(SubSeq(frame.data, 20, Len(frame.data)))).value
  BY EnvelopesAreWritten, Zenon DEF Written
<1>2. SubSeq(frame.data, 20, Len(frame.data)) = fillMetaData(e.meta) \o end
  BY <1>1, HeaderFrameIs, Zenon
<1>3. end \in Seq(Octets)
  BY DEF Octets, ByteRange, Separator
<1> HIDE DEF e, frame, end
<1>4. Storable(e.meta)
  BY <1>1, Zenon DEF SendableEnvelope
<1>5. readMetaData(Input(fillMetaData(e.meta) \o end)) = Taken(e.meta, end)
  BY <1>3, <1>4, MetaDataIsRead, Zenon
<1>6. Taken(e.meta, end).value = e.meta
  BY DEF Taken
<1> QED
  BY <1>1, <1>2, <1>5, <1>6, Zenon DEF e

(* Both its buffers are filled, and what was stored is read back. *)
LEMMA BuffersAreFilled ==
  ASSUME NEW k \in DOMAIN Envelopes
  PROVE  /\ Len(Headers[k].data) = Headers[k].capacity
         /\ Len(Stored[k].bytes) = Stored[k].size
         /\ Restored[k] = [value |-> Envelopes[k], in |-> Input(<<>>)]
<1> DEFINE e == Envelopes[k]
           bytes == fillEnvelope(e)
<1>1. /\ SendableEnvelope(e) /\ Headers[k] = HeaderFrame(e)
      /\ Stored[k] = [bytes |-> bytes, size |-> sizeEnvelope(e)]
      /\ Restored[k] = readEnvelope(Input(Stored[k].bytes))
  BY EnvelopesAreWritten, Zenon DEF Written
<1>2. Len(Headers[k].data) = Headers[k].capacity
  BY <1>1, HeaderFrameIs, Zenon
<1>3. /\ bytes \in Seq(Octets) /\ Len(bytes) = sizeEnvelope(e)
      /\ readEnvelope(Input(bytes \o <<>>)) = Taken(e, <<>>)
  <2>1. <<>> \in Seq(Octets)
    OBVIOUS
  <2> QED
    BY <1>1, <2>1, EnvelopeIsKept, Zenon
<1> HIDE DEF e, bytes
<1>4. bytes \o <<>> = bytes
  BY <1>3
<1>5. Stored[k].bytes = bytes /\ Stored[k].size = sizeEnvelope(e)
  BY <1>1
<1>6. Restored[k] = Taken(e, <<>>)
  BY <1>1, <1>3, <1>4, <1>5, Zenon
<1> QED
  BY <1>2, <1>3, <1>5, <1>6, Zenon DEF Taken, e

(* Whatever envelopes there are, and however deep their tables: no header  *)
(* on its way to the client has a buffer that size() and fill() disagree   *)
(* on, or an envelope that a program would read back otherwise.            *)
THEOREM ClientFillsBuffers == ClientSpec => []BuffersFilled
<1>1. ASSUME Greeting, Flowing PROVE BuffersFilled
  <2> SUFFICES ASSUME NEW k \in DOMAIN inbox, inbox[k].type = "header"
               PROVE  inbox[k].of \in DOMAIN Envelopes
    BY BuffersAreFilled, Zenon DEF BuffersFilled
  <2>1. k \in 1..Len(inbox)
    BY <1>1 DEF Greeting, Arriving, IsSequence
  <2>2. PICK E : \A j \in 1..Len(inbox) : Brings(E[j - 1], inbox[j], E[j])
    BY <1>1, Zenon DEF Flowing, Carries
  <2>3. Brings(E[k - 1], inbox[k], E[k])
    BY <2>1, <2>2, Zenon
  <2> QED
    BY <2>3 DEF Brings
<1> QED
  BY <1>1, GreetingInvariance, FlowingInvariance, PTL
=============================================================================
