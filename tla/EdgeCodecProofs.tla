-------------------------- MODULE EdgeCodecProofs --------------------------
(***************************************************************************)
(* The properties of EdgeCodec for every register width and scale and for  *)
(* every value a client may write.  They follow from one invariant: the    *)
(* registers are an image of the value they were packed from, and a polled *)
(* value is the decoding of the registers.                                 *)
(***************************************************************************)
EXTENDS EdgeCodec, EdgeValueProofs

CodecInv ==
  /\ type \in EdgeDataType
  /\ scale \in Scales /\ scale \in Int
  /\ given \in EdgeValues(type)
  /\ step \in Steps
  /\ step \in {"set", "restored"} => regs = <<>>
  /\ step \in {"set", "packed", "restored"} => value = given
  /\ step \in {"packed", "polled"} => regs \in pack_node_to_registers(type, scale, given)
  /\ step = "polled" => value = apply_registers_to_node(type, scale, regs)

LEMMA PolledType ==
  ASSUME NEW t \in EdgeDataType, NEW s \in Int, NEW v \in EdgeValues(t),
         NEW image \in pack_node_to_registers(t, s, v)
  PROVE  apply_registers_to_node(t, s, image) \in EdgeValues(t)
  BY PackType, ApplyType

LEMMA ValueTyped == CodecInv => value \in EdgeValues(type)
  BY PolledType DEF CodecInv, Steps

LEMMA CodecInvInit == Init => CodecInv
<1> SUFFICES ASSUME Init PROVE CodecInv
  OBVIOUS
<1>1. value \in EdgeValues(type)
  BY SampleAssumption DEF Init, EdgeValues
<1> QED
  BY <1>1, SampleAssumption DEF Init, CodecInv, Steps

LEMMA CodecInvNext == CodecInv /\ [Next]_vars => CodecInv'
<1> SUFFICES ASSUME CodecInv, [Next]_vars PROVE CodecInv'
  OBVIOUS
<1>1. value \in EdgeValues(type)
  BY ValueTyped
<1>2. CASE Pack
  BY <1>1, <1>2 DEF Pack, CodecInv, Steps
<1>3. CASE Poll
  BY <1>3 DEF Poll, CodecInv, Steps
<1>4. CASE Restore
  <2>1. value' = value
    BY <1>1, <1>4, RestoreInverse DEF Restore, CodecInv
  <2> QED
    BY <1>4, <2>1 DEF Restore, CodecInv, Steps
<1>5. CASE UNCHANGED vars
  BY <1>5 DEF vars, CodecInv
<1> QED
  BY <1>2, <1>3, <1>4, <1>5 DEF Next

THEOREM CodecInvariant == Spec => []CodecInv
  BY CodecInvInit, CodecInvNext, PTL DEF Spec

(* CodecTypeOK for every register width: whatever was packed, polled or    *)
(* restored, the node has a value of its type and its registers are words. *)
THEOREM CodecTypeCorrect == Spec => []CodecTypeOK
<1>1. ASSUME CodecInv PROVE CodecTypeOK
  <2>1. value \in EdgeValues(type)
    BY <1>1, ValueTyped
  <2>2. CASE step \in {"packed", "polled"}
    BY <1>1, <2>1, <2>2, PackType DEF CodecInv, CodecTypeOK
  <2> QED
    BY <1>1, <2>1, <2>2 DEF CodecInv, CodecTypeOK, Steps
<1> QED
  BY <1>1, CodecInvariant, PTL

(* IntegersSurvive for every register width: an integer or Boolean command *)
(* is read back from the PLC as it was written.                            *)
THEOREM IntegersAlwaysSurvive == Spec => []IntegersSurvive
<1>1. CodecInv => IntegersSurvive
  BY IntegerRoundTrip DEF CodecInv, IntegersSurvive
<1> QED
  BY <1>1, CodecInvariant, PTL

(* RestoreExact for every register width: what latest_values keeps of a    *)
(* value is enough to restore it.                                          *)
THEOREM AlwaysRestoredExactly == Spec => []RestoreExact
<1>1. CodecInv => RestoreExact
  BY DEF CodecInv, RestoreExact
<1> QED
  BY <1>1, CodecInvariant, PTL

LEMMA NearestMultiple ==
  ASSUME NEW d \in Int, NEW s \in Int, s # 0, NEW raw \in Int, NEW q \in Int,
         2 * Abs(d - q * s) <= Abs(s)
  PROVE  Abs(d - q * s) <= Abs(d - raw * s)
<1>1. PICK e \in Int : e = d - q * s
  OBVIOUS
<1>2. PICK j \in Int : j = q - raw
  OBVIOUS
<1>3. d - raw * s = e + j * s /\ j * s \in Int
  BY <1>1, <1>2
<1>4. j = 0 \/ Abs(j * s) >= Abs(s)
  BY NonzeroMultiple
<1>5. CASE j = 0
  <2>1. d - raw * s = e
    BY <1>3, <1>5
  <2>2. Abs(e) \in Nat
    BY AbsFacts
  <2> QED
    BY <1>1, <2>1, <2>2
<1>6. CASE Abs(j * s) >= Abs(s)
  <2>1. PICK p \in Int : p = j * s
    BY <1>3
  <2>2. 2 * Abs(e) <= Abs(p)
    BY <1>1, <1>6, <2>1, AbsFacts
  <2>3. Abs(e) <= Abs(e + p)
    BY <2>2 DEF Abs
  <2> QED
    BY <1>1, <1>3, <2>1, <2>3
<1> QED
  BY <1>4, <1>5, <1>6

(* NearestRepresentable for every register width and scale: rounding in    *)
(* pack_node_to_registers loses half a unit of the scale at most.          *)
THEOREM AlwaysNearest == Spec => []NearestRepresentable
<1>1. ASSUME CodecInv PROVE NearestRepresentable
  <2> DEFINE s == EffectiveScale(scale)
  <2> SUFFICES ASSUME step = "polled", type = "double", InRange(given, s), NEW raw \in Int16
               PROVE  Abs(given - value) <= Abs(given - raw * s)
    BY DEF NearestRepresentable
  <2>1. given \in Int /\ scale \in Int
    BY <1>1 DEF CodecInv, InRange, EdgeValues, Doubles
  <2>2. s \in Int /\ s # 0
    BY <2>1, ScaleType
  <2>3. RoundedQuotient(given, s) \in Int16 /\ RoundedQuotient(given, s) \in Int
    BY Int16Fits DEF InRange
  <2>4. value = RoundedQuotient(given, s) * s
    BY <1>1, <2>1, <2>3, DoubleReadBack DEF CodecInv
  <2>5. 2 * Abs(given - RoundedQuotient(given, s) * s) <= Abs(s)
    BY <2>1, <2>2, RoundingError
  <2>6. raw \in Int
    BY Int16Fits
  <2> HIDE DEF s
  <2> QED
    BY <2>1, <2>2, <2>3, <2>4, <2>5, <2>6, NearestMultiple
<1> QED
  BY <1>1, CodecInvariant, PTL

(* WriteBackKeepsRegisters for every register width, scale and value, the  *)
(* ones that overflow a register included.                                 *)
THEOREM RegistersNeverDrift == Spec => WriteBackKeepsRegisters
<1>1. ASSUME CodecInv, Next, step = "polled", step' = "packed" PROVE regs' = regs
  <2>1. regs' \in pack_node_to_registers(type, scale, value)
    BY <1>1 DEF Next, Pack, Poll, Restore
  <2>2. CASE type = "double"
    <3>1. given \in Doubles /\ scale \in Int
      BY <1>1, <2>2 DEF CodecInv, EdgeValues
    <3>2. PICK w \in Words : regs = <<w>>
      BY <1>1, <2>2, <3>1, DoubleImage DEF CodecInv
    <3>3. value = apply_registers_to_node("double", scale, <<w>>)
      BY <1>1, <2>2, <3>2 DEF CodecInv
    <3> QED
      BY <2>1, <2>2, <3>1, <3>2, <3>3, DoubleRewrite
  <2>3. CASE type # "double"
    <3>1. value = given
      BY <1>1, <2>3, IntegerRoundTrip DEF CodecInv
    <3>2. regs \in pack_node_to_registers(type, scale, value)
      BY <1>1, <3>1 DEF CodecInv
    <3> QED
      BY <1>1, <2>1, <2>3, <3>2 DEF CodecInv, EdgeDataType, pack_node_to_registers
  <2> QED
    BY <2>2, <2>3
<1>2. CodecInv /\ [Next]_vars => [step = "polled" /\ step' = "packed" => regs' = regs]_vars
  BY <1>1 DEF vars
<1> QED
  BY <1>2, CodecInvariant, PTL DEF Spec, WriteBackKeepsRegisters
=============================================================================
