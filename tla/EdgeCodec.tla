----------------------------- MODULE EdgeCodec -----------------------------
(***************************************************************************)
(* One node value on its way through the conversions of EdgeValue: written *)
(* to holding registers, polled back, written again, and restored from the *)
(* double that latest_values keeps for it.                                 *)
(***************************************************************************)
EXTENDS EdgeValue

CONSTANTS
  Scales,      \* the scales a node may be configured with
  Samples      \* the doubles an OPC UA client may write to a double node

ASSUME SampleAssumption == Scales \subseteq Int /\ Samples \subseteq Doubles

VARIABLES
  type, scale,   \* the node's data_type and scale
  given,         \* the value the registers were last packed from
  value,         \* the node's value
  regs,          \* the holding registers, <<>> before the first write
  step           \* what was done last

vars == <<type, scale, given, value, regs, step>>

Steps == {"set", "packed", "polled", "restored"}

Init ==
  /\ type \in EdgeDataType
  /\ scale \in Scales
  /\ value \in IF type = "double" THEN Samples ELSE EdgeValues(type)
  /\ given = value
  /\ regs = <<>>
  /\ step = "set"

(* edge_modbus_write_node puts the packed image into the registers. *)
Pack ==
  /\ step \in {"set", "polled"}
  /\ regs' \in pack_node_to_registers(type, scale, value)
  /\ given' = value
  /\ step' = "packed"
  /\ UNCHANGED <<type, scale, value>>

(* edge_modbus_poll decodes what it read. *)
Poll ==
  /\ step = "packed"
  /\ value' = apply_registers_to_node(type, scale, regs)
  /\ step' = "polled"
  /\ UNCHANGED <<type, scale, given, regs>>

(* A restart: latest_values holds the node as a double; a NaN has no row.  *)
Restore ==
  /\ step = "set"
  /\ edge_node_as_double(type, value) # NaN
  /\ value' \in edge_node_set_from_double(type, edge_node_as_double(type, value))
  /\ step' = "restored"
  /\ UNCHANGED <<type, scale, given, regs>>

Next == Pack \/ Poll \/ Restore

Spec == Init /\ [][Next]_vars

-----------------------------------------------------------------------------

(* The node holds a value of its data type, its registers are as many      *)
(* 16-bit words as register_width_for_node says.                           *)
CodecTypeOK ==
  /\ type \in EdgeDataType
  /\ scale \in Scales
  /\ given \in EdgeValues(type)
  /\ value \in EdgeValues(type)
  /\ step \in Steps
  /\ \/ regs = <<>> /\ step \in {"set", "restored"}
     \/ /\ regs \in Seq(Words)
        /\ Len(regs) = register_width_for_node(type)

(* An integer or a Boolean a client wrote is what the next poll reads back *)
(* from the registers: word order and sign survive pack and apply.         *)
IntegersSurvive ==
  step = "polled" /\ type # "double" => value = given

(* The doubles whose rounded quotient by the scale fits a signed register. *)
InRange(d, s) == d \notin NonFinite /\ RoundedQuotient(d, s) \in Int16

(* A double within the scaled int16 range is read back as the closest of   *)
(* the engineering values a register can express with the node's scale.    *)
NearestRepresentable ==
  LET s == EffectiveScale(scale)
  IN  step = "polled" /\ type = "double" /\ InRange(given, s) =>
        \A raw \in Int16 : Abs(given - value) <= Abs(given - raw * s)

(* Writing a polled value back leaves the PLC's registers alone, also when *)
(* the value that first went there did not fit: no drift of a set point.   *)
WriteBackKeepsRegisters ==
  [][step = "polled" /\ step' = "packed" => regs' = regs]_vars

(* A restart restores exactly the value latest_values was written from.    *)
RestoreExact == step = "restored" => value = given
=============================================================================
