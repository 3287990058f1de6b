----------------------------- MODULE EdgeValue -----------------------------
(***************************************************************************)
(* The value conversions of opcua-edge: include/edge_value.h (node value   *)
(* to and from the double kept in SQLite) and the register codec of        *)
(* src/edge_modbus.c (node value to and from Modbus holding registers).    *)
(*                                                                         *)
(* Integers keep their C widths: a register has WordSize = 2 * HalfWord    *)
(* values (HalfWord is 2^15 in the code).  A finite double is represented  *)
(* by the whole number of quanta it measures; 1.0 is One quanta, and a     *)
(* node's scale is a number of quanta too, so raw * scale is exact.        *)
(* Rounding of the floating-point representation itself is left out.       *)
(***************************************************************************)
EXTENDS Integers, Sequences

CONSTANTS
  HalfWord,              \* half the number of values of one holding register
  One,                   \* the quanta in the double 1.0
  LongMax,               \* LONG_MAX: the largest magnitude a C long holds
  NaN, PosInf, NegInf    \* the doubles that are not finite

NonFinite == {NaN, PosInf, NegInf}

ASSUME WidthAssumption ==
  /\ HalfWord \in Nat \ {0}
  /\ One \in Nat \ {0}
  /\ LongMax \in Nat
  /\ HalfWord <= LongMax
  /\ NonFinite \cap Int = {}

WordSize == 2 * HalfWord

Words == 0 .. WordSize - 1

Doubles == Int \cup NonFinite

Int16 == -HalfWord .. HalfWord - 1

Int32 == -(HalfWord * WordSize) .. HalfWord * WordSize - 1

UInt32 == 0 .. WordSize * WordSize - 1

EdgeDataType == {"bool", "int16", "int32", "uint32", "double"}

(* The values the union EdgeValue can hold for a node of data type t. *)
EdgeValues(t) ==
  CASE t = "bool"   -> {0, 1}
    [] t = "int16"  -> Int16
    [] t = "int32"  -> Int32
    [] t = "uint32" -> UInt32
    [] t = "double" -> Doubles

-----------------------------------------------------------------------------
(* Two's complement: the register that holds x, and the signed reading of  *)
(* a word w with 2 * half values.                                          *)

AsWordUnmasked(x) == x     \* mutant: the conversion to uint16_t left out

AsWord(x) == x % WordSize

AsSigned(w, half) == IF w < half THEN w ELSE w - 2 * half

register_width_for_node(t) == IF t \in {"int32", "uint32"} THEN 2 ELSE 1

(* A scale of zero is treated as 1.0. *)
EffectiveScale(scale) == IF scale # 0 THEN scale ELSE One

Abs(x) == IF x < 0 THEN -x ELSE x

(* The two registers of a 32-bit value, high word first. *)

WordPairLowFirst(v) == <<AsWord(v), AsWord(v \div WordSize)>>     \* mutant

WordPair(v) == <<AsWord(v \div WordSize), AsWord(v)>>

(* Mutants of the rounding: no half added; the half always added upwards.  *)

QuotientTruncated(d, scale) ==
  IF (d < 0) = (scale < 0) THEN Abs(d) \div Abs(scale) ELSE -(Abs(d) \div Abs(scale))

QuotientHalfUp(d, scale) ==
  IF (d < 0) = (scale < 0) THEN (2 * Abs(d) + Abs(scale)) \div (2 * Abs(scale))
                           ELSE -((2 * Abs(d) - Abs(scale)) \div (2 * Abs(scale)))

(* (long)(d / scale +- 0.5): the nearest whole number, halves away from 0. *)
RoundedQuotient(d, scale) ==
  LET magnitude == (2 * Abs(d) + Abs(scale)) \div (2 * Abs(scale))
  IN  IF (d < 0) = (scale < 0) THEN magnitude ELSE -magnitude

(***************************************************************************)
(* The register images pack_node_to_registers may produce.  It is a single *)
(* image except where the C conversion of a double to long is undefined:   *)
(* there the builds give LONG_MIN, or the bound they saturate at, and its  *)
(* low 16 bits are all zeros or all ones.                                  *)
(***************************************************************************)
pack_node_to_registers(t, scale, v) ==
  CASE t = "bool" -> {<<IF v # 0 THEN 1 ELSE 0>>}
    [] t = "int16" -> {<<AsWord(v)>>}
    [] t \in {"int32", "uint32"} -> {WordPair(v)}
    [] t = "double" /\ v \in NonFinite -> {<<0>>}
    [] OTHER ->
         LET rounded == RoundedQuotient(v, EffectiveScale(scale))
         IN  IF Abs(rounded) <= LongMax
               THEN {<<AsWord(rounded)>>}
               ELSE {<<0>>, <<WordSize - 1>>}

(* The node value the registers raw are decoded to. *)
apply_registers_to_node(t, scale, raw) ==
  CASE t = "bool"   -> raw[1] % 2
    [] t = "int16"  -> AsSigned(raw[1], HalfWord)
    [] t = "int32"  -> AsSigned(raw[1] * WordSize + raw[2], HalfWord * WordSize)
    [] t = "uint32" -> raw[1] * WordSize + raw[2]
    [] t = "double" -> AsSigned(raw[1], HalfWord) * EffectiveScale(scale)

-----------------------------------------------------------------------------

(* Mutant: every integer type read through the union's int16 member. *)
AsDoubleOfInt16(t, v) ==
  IF t = "double" THEN v ELSE AsSigned(AsWord(v), HalfWord) * One

edge_node_as_double(t, v) == IF t = "double" THEN v ELSE v * One

(* C conversion of the finite double d to an integer: the fraction goes. *)
Truncated(d) == IF d < 0 THEN -(Abs(d) \div One) ELSE d \div One

(* The values edge_node_set_from_double may leave in a node: several only  *)
(* when d is outside the integer type, where the conversion is undefined.  *)
edge_node_set_from_double(t, d) ==
  CASE t = "double" -> {d}
    [] t # "double" /\ d \in NonFinite -> {0}
    [] t = "bool" /\ d \in Int -> {IF d # 0 THEN 1 ELSE 0}
    [] OTHER -> IF Truncated(d) \in EdgeValues(t) THEN {Truncated(d)} ELSE EdgeValues(t)
=============================================================================
