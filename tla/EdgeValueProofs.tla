-------------------------- MODULE EdgeValueProofs --------------------------
(***************************************************************************)
(* What the conversions of EdgeValue do for every register width, scale    *)
(* and value.                                                              *)
(***************************************************************************)
EXTENDS EdgeValue, TLAPS

(* Nonlinear arithmetic the solver is helped with. *)

LEMMA ProductMonotone ==
  ASSUME NEW a \in Int, NEW b \in Int, NEW w \in Nat, a <= b
  PROVE  a * w <= b * w
  OBVIOUS

LEMMA ModuloOfSmall ==
  ASSUME NEW n \in Nat \ {0}, NEW x \in Int
  PROVE  /\ x \in 0 .. n - 1 => x % n = x /\ x \div n = 0
         /\ x \in -n .. -1 => x % n = x + n /\ x \div n = -1
  OBVIOUS

LEMMA DivisionFacts ==
  ASSUME NEW n \in Nat \ {0}, NEW x \in Int
  PROVE  /\ x \div n \in Int
         /\ x % n \in 0 .. n - 1
         /\ x = (n * (x \div n)) + (x % n)
  OBVIOUS

LEMMA WidthFacts ==
  /\ HalfWord \in Nat \ {0}
  /\ WordSize \in Nat \ {0}
  /\ WordSize = 2 * HalfWord
  /\ HalfWord * WordSize \in Nat \ {0}
  /\ WordSize * WordSize = 2 * (HalfWord * WordSize)
  BY WidthAssumption DEF WordSize

LEMMA AsWordType == \A x \in Int : AsWord(x) \in Words
  BY WidthFacts, DivisionFacts DEF AsWord, Words

(* The two's complement register of a number of at most 16 bits. *)
LEMMA AsWordOfSmall ==
  ASSUME NEW x \in Int, -WordSize <= x, x <= WordSize - 1
  PROVE  AsWord(x) = IF x >= 0 THEN x ELSE x + WordSize
<1>1. WordSize \in Nat \ {0}
  BY WidthFacts
<1>2. CASE x >= 0
  <2>1. x \in 0 .. WordSize - 1
    BY <1>1, <1>2
  <2> QED
    BY <1>1, <1>2, <2>1, ModuloOfSmall DEF AsWord
<1>3. CASE x < 0
  <2>1. x \in -WordSize .. -1
    BY <1>1, <1>3
  <2>2. x % WordSize = x + WordSize
    BY <1>1, <2>1, ModuloOfSmall
  <2> QED
    BY <1>3, <2>2 DEF AsWord
<1> QED
  BY <1>2, <1>3

LEMMA AsSignedType ==
  ASSUME NEW half \in Nat \ {0}, NEW w \in 0 .. 2 * half - 1
  PROVE  AsSigned(w, half) \in -half .. half - 1
  BY DEF AsSigned

(* Two words, the high one first, make a number of the 32-bit range. *)
LEMMA WordPairRange ==
  ASSUME NEW h \in Words, NEW l \in Words
  PROVE  h * WordSize + l \in 0 .. WordSize * WordSize - 1
<1>1. h * WordSize <= (WordSize - 1) * WordSize
  BY WidthFacts, ProductMonotone DEF Words
<1>2. (WordSize - 1) * WordSize = WordSize * WordSize - WordSize
  BY WidthFacts
<1>3. h * WordSize \in Nat
  BY WidthFacts DEF Words
<1> QED
  BY <1>1, <1>2, <1>3, WidthFacts DEF Words

(* Whatever the registers hold, the poll leaves a value of the node's type *)
(* (apply_registers_to_node).                                              *)
THEOREM ApplyType ==
  ASSUME NEW t \in EdgeDataType, NEW scale \in Int,
         NEW raw, \A k \in 1 .. register_width_for_node(t) : raw[k] \in Words
  PROVE  apply_registers_to_node(t, scale, raw) \in EdgeValues(t)
<1>1. raw[1] \in Words
  BY DEF register_width_for_node
<1>2. CASE t = "bool"
  <2>1. raw[1] % 2 \in {0, 1}
    BY <1>1, WidthFacts DEF Words
  <2> QED
    BY <1>2, <2>1 DEF apply_registers_to_node, EdgeValues
<1>3. CASE t = "int16"
  <2>1. AsSigned(raw[1], HalfWord) \in Int16
    BY <1>1, AsSignedType, WidthFacts DEF Words, Int16
  <2> QED
    BY <1>3, <2>1 DEF apply_registers_to_node, EdgeValues
<1>4. CASE t \in {"int32", "uint32"}
  <2>1. raw[2] \in Words
    BY <1>4 DEF register_width_for_node
  <2>2. raw[1] * WordSize + raw[2] \in 0 .. WordSize * WordSize - 1
    BY <1>1, <2>1, WordPairRange
  <2>3. AsSigned(raw[1] * WordSize + raw[2], HalfWord * WordSize) \in Int32
    <3> DEFINE w == raw[1] * WordSize + raw[2]
               half == HalfWord * WordSize
    <3>1. half \in Nat \ {0} /\ w \in 0 .. 2 * half - 1
      BY <2>2, WidthFacts
    <3>2. AsSigned(w, half) \in -half .. half - 1
      BY <3>1, AsSignedType
    <3> QED
      BY <3>2 DEF Int32
  <2> QED
    BY <1>4, <2>2, <2>3 DEF apply_registers_to_node, EdgeValues, UInt32
<1>5. CASE t = "double"
  <2>1. AsSigned(raw[1], HalfWord) \in Int
    BY <1>1, WidthFacts DEF AsSigned, Words
  <2>2. EffectiveScale(scale) \in Int
    BY WidthAssumption DEF EffectiveScale
  <2>3. AsSigned(raw[1], HalfWord) * EffectiveScale(scale) \in Int
    BY <2>1, <2>2
  <2> QED
    BY <1>5, <2>3 DEF apply_registers_to_node, EdgeValues, Doubles
<1> QED
  BY <1>2, <1>3, <1>4, <1>5 DEF EdgeDataType

LEMMA RoundedQuotientType ==
  ASSUME NEW d \in Int, NEW scale \in Int, scale # 0
  PROVE  RoundedQuotient(d, scale) \in Int
<1>1. Abs(d) \in Nat /\ Abs(scale) \in Nat \ {0}
  BY DEF Abs
<1>2. (2 * Abs(d) + Abs(scale)) \div (2 * Abs(scale)) \in Int
  BY <1>1
<1> QED
  BY <1>2 DEF RoundedQuotient

LEMMA ScaleType ==
  ASSUME NEW scale \in Int
  PROVE  EffectiveScale(scale) \in Int /\ EffectiveScale(scale) # 0
  BY WidthAssumption DEF EffectiveScale

(* The image of any double is one word. *)
LEMMA DoubleImage ==
  ASSUME NEW scale \in Int, NEW d \in Doubles,
         NEW image \in pack_node_to_registers("double", scale, d)
  PROVE  \E w \in Words : image = <<w>>
<1>1. 0 \in Words /\ WordSize - 1 \in Words
  BY WidthFacts DEF Words
<1>2. CASE d \in NonFinite
  BY <1>1, <1>2 DEF pack_node_to_registers
<1>3. CASE d \notin NonFinite
  <2> DEFINE r == RoundedQuotient(d, EffectiveScale(scale))
  <2>1. d \in Int
    BY <1>3 DEF Doubles
  <2>2. AsWord(r) \in Words
    BY <2>1, ScaleType, RoundedQuotientType, AsWordType
  <2>3. image \in {<<AsWord(r)>>, <<0>>, <<WordSize - 1>>}
    BY <1>3 DEF pack_node_to_registers
  <2> QED
    BY <1>1, <2>2, <2>3
<1> QED
  BY <1>2, <1>3

(* Whatever a client wrote, the request carries one 16-bit word for each   *)
(* register of the node (pack_node_to_registers).                          *)
THEOREM PackType ==
  ASSUME NEW t \in EdgeDataType, NEW scale \in Int, NEW v \in EdgeValues(t),
         NEW image \in pack_node_to_registers(t, scale, v)
  PROVE  /\ image \in Seq(Words) /\ Len(image) = register_width_for_node(t)
         /\ \A k \in 1 .. register_width_for_node(t) : image[k] \in Words
<1>1. CASE t = "bool"
  <2>1. image \in {<<0>>, <<1>>}
    BY <1>1 DEF pack_node_to_registers
  <2>2. 0 \in Words /\ 1 \in Words
    BY WidthFacts DEF Words
  <2>3. \E w \in Words : image = <<w>>
    BY <2>1, <2>2
  <2> QED
    BY <1>1, <2>3 DEF register_width_for_node
<1>2. CASE t = "int16"
  <2>1. v \in Int
    BY <1>2, WidthFacts DEF EdgeValues, Int16
  <2>2. image = <<AsWord(v)>>
    BY <1>2 DEF pack_node_to_registers
  <2> QED
    BY <1>2, <2>1, <2>2, AsWordType DEF register_width_for_node
<1>3. CASE t \in {"int32", "uint32"}
  <2>1. v \in Int
    BY <1>3, WidthFacts DEF EdgeValues, Int32, UInt32
  <2>2. image = <<AsWord(v \div WordSize), AsWord(v)>>
    BY <1>3 DEF pack_node_to_registers, WordPair
  <2>3. v \div WordSize \in Int
    BY <2>1, WidthFacts, DivisionFacts
  <2> QED
    BY <1>3, <2>1, <2>2, <2>3, AsWordType DEF register_width_for_node
<1>4. CASE t = "double"
  <2>1. v \in Doubles
    BY <1>4 DEF EdgeValues
  <2>2. \E w \in Words : image = <<w>>
    BY <1>4, <2>1, DoubleImage
  <2> QED
    BY <1>4, <2>2 DEF register_width_for_node
<1> QED
  BY <1>1, <1>2, <1>3, <1>4 DEF EdgeDataType

(* An integer or Boolean written to the PLC is read back as it was:        *)
(* apply_registers_to_node inverts pack_node_to_registers.                 *)
THEOREM IntegerRoundTrip ==
  ASSUME NEW t \in EdgeDataType \ {"double"}, NEW scale \in Int, NEW v \in EdgeValues(t),
         NEW image \in pack_node_to_registers(t, scale, v)
  PROVE  apply_registers_to_node(t, scale, image) = v
<1>1. CASE t = "bool"
  <2>1. v \in {0, 1} /\ image = <<v>>
    BY <1>1 DEF pack_node_to_registers, EdgeValues
  <2> QED
    BY <1>1, <2>1 DEF apply_registers_to_node
<1>2. CASE t = "int16"
  <2>1. v \in -HalfWord .. HalfWord - 1 /\ image = <<AsWord(v)>>
    BY <1>2 DEF pack_node_to_registers, EdgeValues, Int16
  <2>2. AsWord(v) = IF v >= 0 THEN v ELSE v + WordSize
    BY <2>1, WidthFacts, AsWordOfSmall
  <2>3. AsSigned(AsWord(v), HalfWord) = v
    BY <2>1, <2>2, WidthFacts DEF AsSigned
  <2> QED
    BY <1>2, <2>1, <2>3 DEF apply_registers_to_node
<1>3. CASE t \in {"int32", "uint32"}
  <2> DEFINE h == v \div WordSize
  <2>1. v \in Int
    BY <1>3, WidthFacts DEF EdgeValues, Int32, UInt32
  <2>2. image = <<AsWord(h), AsWord(v)>>
    BY <1>3 DEF pack_node_to_registers, WordPair
  <2>3. h \in Int /\ AsWord(v) \in Words /\ v = WordSize * h + AsWord(v)
    BY <2>1, WidthFacts, DivisionFacts DEF AsWord, Words
  <2> HIDE DEF h
  <2>4. CASE t = "uint32"
    <3>1. v \in 0 .. WordSize * WordSize - 1
      BY <2>4 DEF EdgeValues, UInt32
    <3>2. h >= 0
      BY <2>3, <3>1, WidthFacts, ProductMonotone DEF Words
    <3>3. h <= WordSize - 1
      <4>1. SUFFICES ASSUME h >= WordSize PROVE FALSE
        BY <2>3, WidthFacts
      <4>2. WordSize * WordSize <= h * WordSize
        BY <4>1, <2>3, WidthFacts, ProductMonotone
      <4> QED
        BY <4>2, <2>3, <3>1, WidthFacts DEF Words
    <3>4. AsWord(h) = h
      BY <3>2, <3>3, <2>3, WidthFacts, AsWordOfSmall
    <3> QED
      BY <2>4, <2>2, <2>3, <3>4, WidthFacts DEF apply_registers_to_node
  <2>5. CASE t = "int32"
    <3>1. v \in -(HalfWord * WordSize) .. HalfWord * WordSize - 1
      BY <2>5 DEF EdgeValues, Int32
    <3>2. h >= -HalfWord
      <4>1. SUFFICES ASSUME h <= -HalfWord - 1 PROVE FALSE
        BY <2>3, WidthFacts
      <4>2. h * WordSize <= (-HalfWord - 1) * WordSize
        BY <4>1, <2>3, WidthFacts, ProductMonotone
      <4>3. (-HalfWord - 1) * WordSize = -(HalfWord * WordSize) - WordSize
        BY WidthFacts
      <4> QED
        BY <4>2, <4>3, <2>3, <3>1, WidthFacts DEF Words
    <3>3. h <= HalfWord - 1
      <4>1. SUFFICES ASSUME h >= HalfWord PROVE FALSE
        BY <2>3, WidthFacts
      <4>2. HalfWord * WordSize <= h * WordSize
        BY <4>1, <2>3, WidthFacts, ProductMonotone
      <4> QED
        BY <4>2, <2>3, <3>1, WidthFacts DEF Words
    <3>4. AsWord(h) = IF h >= 0 THEN h ELSE h + WordSize
      BY <3>2, <3>3, <2>3, WidthFacts, AsWordOfSmall
    <3>5. AsWord(h) * WordSize + AsWord(v) = IF h >= 0 THEN v ELSE v + WordSize * WordSize
      <4>1. (h + WordSize) * WordSize = WordSize * h + WordSize * WordSize
        BY <2>3, WidthFacts
      <4> QED
        BY <4>1, <2>3, <3>4, WidthFacts DEF Words
    <3>6. (h >= 0) = (v >= 0)
      <4>1. h >= 0 => v >= 0
        BY <2>3, WidthFacts, ProductMonotone DEF Words
      <4>2. h <= -1 => h * WordSize <= (-1) * WordSize
        BY <2>3, WidthFacts, ProductMonotone
      <4> QED
        BY <4>1, <4>2, <2>3, WidthFacts DEF Words
    <3>7. AsSigned(AsWord(h) * WordSize + AsWord(v), HalfWord * WordSize) = v
      BY <3>1, <3>5, <3>6, <2>1, WidthFacts DEF AsSigned
    <3> QED
      BY <2>5, <2>2, <3>7 DEF apply_registers_to_node
  <2> QED
    BY <1>3, <2>4, <2>5
<1> QED
  BY <1>1, <1>2, <1>3 DEF EdgeDataType

-----------------------------------------------------------------------------
(* Doubles. *)

LEMMA AbsFacts ==
  ASSUME NEW x \in Int
  PROVE  /\ Abs(x) \in Nat
         /\ x = Abs(x) \/ x = -Abs(x)
         /\ x < 0 => x = -Abs(x)
         /\ x >= 0 => x = Abs(x)
         /\ x # 0 => Abs(x) > 0
  BY DEF Abs

LEMMA HalfUp ==
  ASSUME NEW a \in Nat, NEW b \in Nat \ {0}, NEW m \in Int, NEW r \in 0 .. (2 * b) - 1,
         2 * a + b = ((2 * b) * m) + r
  PROVE  -b <= 2 * (a - m * b) /\ 2 * (a - m * b) <= b
<1>1. (2 * b) * m = 2 * (m * b) /\ m * b \in Int
  OBVIOUS
<1> QED
  BY <1>1

LEMMA SignCases ==
  ASSUME NEW a \in Int, NEW b \in Int, NEW m \in Int
  PROVE  /\ a - m * b \in Int
         /\ (-a) - (-m) * b = -(a - m * b)
         /\ a - (-m) * (-b) = a - m * b
         /\ (-a) - m * (-b) = -(a - m * b)
  OBVIOUS

(* The rounded quotient is off by half a unit at most. *)
LEMMA RoundingError ==
  ASSUME NEW d \in Int, NEW s \in Int, s # 0
  PROVE  2 * Abs(d - RoundedQuotient(d, s) * s) <= Abs(s)
<1>1. PICK a \in Nat : a = Abs(d) /\ d = IF d < 0 THEN -a ELSE a
  BY DEF Abs
<1>2. PICK b \in Nat \ {0} : b = Abs(s) /\ s = IF s < 0 THEN -b ELSE b
  BY DEF Abs
<1>3. PICK x \in Int, n \in Nat \ {0} : x = 2 * a + b /\ n = 2 * b
  OBVIOUS
<1> DEFINE m == x \div n
<1>4. m \in Int /\ -b <= 2 * (a - m * b) /\ 2 * (a - m * b) <= b
  <2>1. m \in Int /\ x % n \in 0 .. n - 1 /\ x = (n * m) + (x % n)
    BY DivisionFacts
  <2> HIDE DEF m
  <2>2. PICK r \in 0 .. n - 1 : x = (n * m) + r
    BY <2>1
  <2> QED
    BY <1>3, <2>1, <2>2, HalfUp
<1>5. PICK q : q = RoundedQuotient(d, s)
  OBVIOUS
<1>6. q = IF (d < 0) = (s < 0) THEN m ELSE -m
  BY <1>1, <1>2, <1>3, <1>5 DEF RoundedQuotient
<1> HIDE DEF m
<1>7. d - q * s = a - m * b \/ d - q * s = -(a - m * b)
  <2>1. CASE d < 0 /\ s < 0
    <3>1. d - q * s = (-a) - m * (-b)
      BY <2>1, <1>1, <1>2, <1>6
    <3> QED
      BY <3>1, <1>4, SignCases
  <2>2. CASE d < 0 /\ ~(s < 0)
    <3>1. d - q * s = (-a) - (-m) * b
      BY <2>2, <1>1, <1>2, <1>6
    <3> QED
      BY <3>1, <1>4, SignCases
  <2>3. CASE ~(d < 0) /\ s < 0
    <3>1. d - q * s = a - (-m) * (-b)
      BY <2>3, <1>1, <1>2, <1>6
    <3> QED
      BY <3>1, <1>4, SignCases
  <2>4. CASE ~(d < 0) /\ ~(s < 0)
    BY <2>4, <1>1, <1>2, <1>4, <1>6
  <2> QED
    BY <2>1, <2>2, <2>3, <2>4
<1>8. PICK e \in Int : e = a - m * b
  BY <1>4
<1>9. 2 * Abs(d - q * s) <= b
  BY <1>4, <1>7, <1>8 DEF Abs
<1> QED
  BY <1>2, <1>5, <1>9

LEMMA NonzeroMultiple ==
  ASSUME NEW j \in Int, j # 0, NEW s \in Int
  PROVE  Abs(j * s) >= Abs(s)
<1>1. j * s \in Int /\ j * (-s) = -(j * s) /\ (j >= 1 \/ j <= -1)
  OBVIOUS
<1>2. CASE s >= 0
  <2>1. j >= 1 => 1 * s <= j * s
    BY <1>2, ProductMonotone
  <2>2. j <= -1 => j * s <= (-1) * s
    BY <1>2, ProductMonotone
  <2> QED
    BY <1>1, <1>2, <2>1, <2>2 DEF Abs
<1>3. CASE s < 0
  <2>1. j >= 1 => 1 * (-s) <= j * (-s)
    BY <1>3, ProductMonotone
  <2>2. j <= -1 => j * (-s) <= (-1) * (-s)
    BY <1>3, ProductMonotone
  <2> QED
    BY <1>1, <1>3, <2>1, <2>2 DEF Abs
<1> QED
  BY <1>2, <1>3

(* A multiple of the scale is packed as its factor. *)
LEMMA ExactQuotient ==
  ASSUME NEW k \in Int, NEW s \in Int, s # 0
  PROVE  RoundedQuotient(k * s, s) = k
<1>1. PICK q \in Int : q = RoundedQuotient(k * s, s)
  BY RoundedQuotientType
<1>2. 2 * Abs(k * s - q * s) <= Abs(s)
  BY <1>1, RoundingError
<1>3. PICK j \in Int : j = k - q
  OBVIOUS
<1>4. k * s - q * s = j * s
  BY <1>3
<1>5. SUFFICES ASSUME j # 0 PROVE FALSE
  BY <1>1, <1>3
<1>6. Abs(j * s) >= Abs(s)
  BY <1>5, NonzeroMultiple
<1>7. Abs(s) \in Nat /\ Abs(s) > 0 /\ Abs(j * s) \in Nat
  BY AbsFacts
<1> QED
  BY <1>2, <1>4, <1>6, <1>7

LEMMA SignedWordInverse ==
  ASSUME NEW x \in Int16
  PROVE  AsSigned(AsWord(x), HalfWord) = x
<1>1. AsWord(x) = IF x >= 0 THEN x ELSE x + WordSize
  BY WidthFacts, AsWordOfSmall DEF Int16
<1> QED
  BY <1>1, WidthFacts DEF AsSigned, Int16

LEMMA WordSignedInverse ==
  ASSUME NEW w \in Words
  PROVE  AsSigned(w, HalfWord) \in Int16 /\ AsWord(AsSigned(w, HalfWord)) = w
<1>1. AsSigned(w, HalfWord) \in Int16
  BY WidthFacts, AsSignedType DEF Words, Int16
<1>2. AsSigned(w, HalfWord) = IF w < HalfWord THEN w ELSE w - WordSize
  BY WidthFacts DEF AsSigned
<1>3. CASE w < HalfWord
  BY <1>2, <1>3, WidthFacts, AsWordOfSmall, <1>1 DEF Words
<1>4. CASE w >= HalfWord
  <2>1. w - WordSize \in Int /\ -WordSize <= w - WordSize /\ w - WordSize <= -1
    BY WidthFacts DEF Words
  <2>2. AsWord(w - WordSize) = w
    BY <2>1, WidthFacts, AsWordOfSmall DEF Words
  <2> QED
    BY <1>1, <1>2, <1>4, <2>2, WidthFacts DEF Words
<1> QED
  BY <1>3, <1>4, WidthFacts DEF Words

LEMMA Int16Fits == \A r \in Int16 : r \in Int /\ Abs(r) <= LongMax
  BY WidthAssumption, WidthFacts DEF Int16, Abs

(* The registers of a double that fits decode to its rounded multiple of   *)
(* the scale.                                                              *)
LEMMA DoubleReadBack ==
  ASSUME NEW scale \in Int, NEW d \in Int,
         RoundedQuotient(d, EffectiveScale(scale)) \in Int16,
         NEW image \in pack_node_to_registers("double", scale, d)
  PROVE  apply_registers_to_node("double", scale, image) =
           RoundedQuotient(d, EffectiveScale(scale)) * EffectiveScale(scale)
<1> DEFINE r == RoundedQuotient(d, EffectiveScale(scale))
<1>1. d \notin NonFinite
  BY WidthAssumption
<1>2. Abs(r) <= LongMax
  BY Int16Fits
<1>3. image = <<AsWord(r)>>
  BY <1>1, <1>2 DEF pack_node_to_registers
<1>4. AsSigned(AsWord(r), HalfWord) = r
  BY SignedWordInverse
<1> QED
  BY <1>3, <1>4 DEF apply_registers_to_node

(* Packing what a one-word image decodes to gives that image again. *)
LEMMA DoubleRewrite ==
  ASSUME NEW scale \in Int, NEW w \in Words
  PROVE  pack_node_to_registers("double", scale,
           apply_registers_to_node("double", scale, <<w>>)) = {<<w>>}
<1> DEFINE k == AsSigned(w, HalfWord)
           s == EffectiveScale(scale)
<1>1. k \in Int16 /\ AsWord(k) = w
  BY WordSignedInverse
<1>2. s \in Int /\ s # 0
  BY ScaleType
<1>3. apply_registers_to_node("double", scale, <<w>>) = k * s
  BY DEF apply_registers_to_node
<1>4. k \in Int /\ Abs(k) <= LongMax
  BY <1>1, Int16Fits
<1> HIDE DEF k, s
<1>5. k * s \in Int /\ RoundedQuotient(k * s, s) = k
  BY <1>2, <1>4, ExactQuotient
<1>6. k * s \notin NonFinite
  BY <1>5, WidthAssumption
<1>7. pack_node_to_registers("double", scale, k * s) = {<<AsWord(k)>>}
  BY <1>4, <1>5, <1>6 DEF pack_node_to_registers, s
<1> QED
  BY <1>1, <1>3, <1>7

-----------------------------------------------------------------------------
(* The doubles of latest_values. *)

(* The value a start gives a node is one of the node's type.               *)
THEOREM RestoreType ==
  ASSUME NEW t \in EdgeDataType, NEW d \in Doubles,
         NEW v \in edge_node_set_from_double(t, d)
  PROVE  v \in EdgeValues(t)
<1>1. CASE t = "double"
  BY <1>1 DEF edge_node_set_from_double, EdgeValues
<1>2. CASE t # "double" /\ d \in NonFinite
  <2>1. v = 0
    BY <1>2, WidthAssumption DEF edge_node_set_from_double
  <2> QED
    BY <1>2, <2>1, WidthFacts DEF EdgeValues, EdgeDataType, Int16, Int32, UInt32
<1>3. CASE t = "bool" /\ d \notin NonFinite
  BY <1>3 DEF edge_node_set_from_double, EdgeValues, Doubles
<1>4. CASE t \notin {"double", "bool"} /\ d \notin NonFinite
  BY <1>4 DEF edge_node_set_from_double
<1> QED
  BY <1>1, <1>2, <1>3, <1>4

(* edge_node_set_from_double inverts edge_node_as_double.                  *)
THEOREM RestoreInverse ==
  ASSUME NEW t \in EdgeDataType, NEW v \in EdgeValues(t)
  PROVE  edge_node_set_from_double(t, edge_node_as_double(t, v)) = {v}
<1>1. CASE t = "double"
  BY <1>1 DEF edge_node_set_from_double, edge_node_as_double
<1>2. CASE t # "double"
  <2>1. v \in Int
    BY <1>2, WidthFacts DEF EdgeValues, EdgeDataType, Int16, Int32, UInt32
  <2>2. One \in Nat \ {0}
    BY WidthAssumption
  <2>3. v * One \in Int /\ v * One \notin NonFinite
    BY <2>1, <2>2, WidthAssumption
  <2>4. edge_node_as_double(t, v) = v * One
    BY <1>2 DEF edge_node_as_double
  <2>5. CASE t = "bool"
    <3>1. v \in {0, 1}
      BY <2>5 DEF EdgeValues
    <3>2. (v * One # 0) = (v = 1)
      BY <3>1, <2>2
    <3> QED
      BY <2>3, <2>4, <2>5, <3>1, <3>2 DEF edge_node_set_from_double
  <2>6. CASE t # "bool"
    <3>1. Truncated(v * One) = v
      <4>1. CASE v >= 0
        <5>1. ~(v * One < 0)
          BY <4>1, <2>1, <2>2
        <5>2. (v * One) \div One = v
          BY <2>1, <2>2
        <5> QED
          BY <5>1, <5>2 DEF Truncated
      <4>2. CASE v < 0
        <5>1. v * One < 0 /\ Abs(v * One) = (-v) * One
          BY <4>2, <2>1, <2>2 DEF Abs
        <5>2. ((-v) * One) \div One = -v
          BY <2>1, <2>2
        <5> QED
          BY <5>1, <5>2, <2>1 DEF Truncated
      <4> QED
        BY <4>1, <4>2, <2>1
    <3> QED
      BY <1>2, <2>3, <2>4, <2>6, <3>1 DEF edge_node_set_from_double
  <2> QED
    BY <2>5, <2>6
<1> QED
  BY <1>1, <1>2
=============================================================================
