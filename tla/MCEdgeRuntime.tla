--------------------------- MODULE MCEdgeRuntime ---------------------------
(***************************************************************************)
(* Instances of EdgeRuntime.  A register has two values here (HalfWord 1), *)
(* RegisterBase is 10 and the units are small numbers.                     *)
(***************************************************************************)
EXTENDS EdgeRuntime

(* Modbus only: two units polled in the order 1, 2, 1, two-register and    *)
(* one-register commands, a unit that modbus_set_slave refuses, and a      *)
(* register beyond the address space, which names the one of node 1.       *)
ModbusTypes == <<"int16", "uint32", "bool", "bool">>
ModbusScales == <<1, 1, 1, 1>>
ModbusUnits == <<1, 2, 3, 1>>
ModbusRegisters == <<10, 10, 10, 14>>
ModbusDevice == {<<1, 0>>, <<2, 0>>, <<2, 1>>}
ModbusPlant == {<<2, 1>>}
ModbusClients == <<{-1}, {2, 3}, {1}, {1}>>

(* Events and store, Modbus disabled: clients drive the values, NaN and    *)
(* infinity included, across the thresholds of two events.                 *)
StoreTypes == <<"double", "int16">>
StoreScales == <<1, 1>>
StoreUnits == <<1, 1>>
StoreRegisters == <<10, 11>>
StoreClients == <<{0, 3, PosInf, NaN}, {-1, 0}>>
StoreSources == <<1, 2>>
StoreConditions == <<"greater", "less">>
StoreThresholds == <<2, 0>>

(* A register the PLC does not serve, a refused unit and an unmapped node  *)
(* before a node that is served.                                           *)
LiveTypes == <<"int16", "bool", "bool", "bool">>
LiveUnits == <<1, 3, 1, 1>>
LiveRegisters == <<10, 10, 9, 11>>
LiveClients == <<{-1}, {}, {}, {}>>
LiveHole == {<<1, 1>>}

(* Events and store with one node and two events on it. *)
LiveStoreTypes == <<"double">>
LiveStoreOnes == <<1>>
LiveStoreRegisters == <<10>>
LiveStoreClients == <<{0, 3, NaN}>>
LiveStoreSources == <<1, 1>>
LiveStoreThresholds == <<2, 1>>

(* The whole gateway: a command node that is also polled and watched by    *)
(* two events, and a node without a holding register.                      *)
WholeTypes == <<"int16", "bool">>
WholeOnes == <<1, 1>>
WholeRegisters == <<10, 9>>
WholeClients == <<{-1}, {}>>
WholeDevice == {<<1, 0>>}
WholeThresholds == <<-1, 0>>

NoRegisters == {}

NoEvents == <<>>
=============================================================================
