---------------------------- MODULE EdgeModbus -----------------------------
(***************************************************************************)
(* src/edge_modbus.c: the Modbus TCP connection with its reconnect         *)
(* backoff, the cyclic poll and the write of one node, against a PLC whose *)
(* registers and reachability the gateway does not control.                *)
(*                                                                         *)
(* Left out: the statistics counters of EdgeModbus (poll_count,            *)
(* read_ok_count, ...), which the gateway only writes.                     *)
(***************************************************************************)
EXTENDS EdgeModel

CONSTANTS
  Enabled,          \* a Modbus host and port are configured
  RegisterBase,     \* edge_modbus_register_base, 40001
  OffsetSpace,      \* addresses a Modbus request can name, 65536
  LegalUnits,       \* the units modbus_set_slave accepts, 0 .. 247 and 255
  TcpSlave,         \* the unit a new context addresses, 255
  Device,           \* the <<unit, offset>> pairs a PLC answers for
  PlantDriven,      \* the registers the process itself changes
  BackoffInitial, BackoffMax   \* delays before another connection attempt

ASSUME ModbusAssumption ==
  /\ Enabled \in BOOLEAN
  /\ RegisterBase \in Nat
  /\ OffsetSpace \in Nat \ {0}
  /\ LegalUnits \subseteq Nat
  /\ TcpSlave \in Nat
  /\ Device \subseteq Nat \X Nat
  /\ PlantDriven \subseteq Device
  /\ BackoffInitial \in Nat \ {0}
  /\ BackoffMax \in Nat
  /\ BackoffInitial <= BackoffMax

VARIABLES
  connected,    \* modbus->connected: there is an open context
  backoff,      \* modbus->connect_backoff_us
  retryIn,      \* modbus->next_connect_attempt_us, as the time left until it
  slave,        \* the unit the context addresses
  currentUnit,  \* current_unit of the poll; NoUnit while unit_set is 0
  plc,          \* register -> its word
  reachable     \* the PLC can be reached over the network

linkVars == <<connected, backoff, retryIn, slave, currentUnit>>

modbusVars == <<linkVars, plc, reachable>>

NoUnit == 0

ModbusTypeOK ==
  /\ connected \in BOOLEAN /\ reachable \in BOOLEAN
  /\ backoff \in Nat /\ retryIn \in Nat
  /\ slave \in Nat /\ currentUnit \in Nat
  /\ plc \in [Device -> Words]

ModbusInit ==
  /\ connected = FALSE
  /\ backoff = 0
  /\ retryIn = 0
  /\ slave = TcpSlave
  /\ currentUnit = NoUnit
  /\ plc = [a \in Device |-> 0]
  /\ reachable = Enabled

-----------------------------------------------------------------------------
(* Requests.  An offset beyond the address space is truncated by the       *)
(* encoding of the request; a PLC answers if it serves every register.     *)

Mapped(i) == Register[i] >= RegisterBase

Width(i) == register_width_for_node(DataType[i])

Address(unit, i, k) == <<unit, ((Register[i] - RegisterBase) % OffsetSpace) + k - 1>>

Serves(unit, i) == \A k \in 1 .. Width(i) : Address(unit, i, k) \in Device

ReadRegisters(unit, i) == [k \in 1 .. Width(i) |-> plc[Address(unit, i, k)]]

(* The registers regs after a request to write image to unit for node i.   *)
WrittenTo(unit, regs, i, image) ==
  LET At(a) == {k \in 1 .. Width(i) : a = Address(unit, i, k)}
  IN  [a \in Device |-> IF At(a) = {} THEN regs[a] ELSE image[CHOOSE k \in At(a) : TRUE]]

Written(regs, i, image) == WrittenTo(Unit[i], regs, i, image)

Images(i, v) == pack_node_to_registers(DataType[i], Scale[i], v)

-----------------------------------------------------------------------------
(* The connection. *)

(* Mutant: the doubled delay is not capped. *)
UncappedBackoff == IF backoff = 0 THEN BackoffInitial ELSE 2 * backoff

NextBackoff ==
  LET next == IF backoff = 0 THEN BackoffInitial ELSE 2 * backoff
  IN  IF next > BackoffMax THEN BackoffMax ELSE next

note_connect_failure ==
  /\ backoff' = NextBackoff
  /\ retryIn' = NextBackoff
  /\ UNCHANGED <<connected, slave, currentUnit>>

(* edge_modbus_connect returns an error: it is too early for an attempt,   *)
(* or the attempt fails.                                                   *)
ConnectDeferred ==
  /\ ~connected
  /\ retryIn > 0
  /\ UNCHANGED linkVars

ConnectRefused ==
  /\ ~connected
  /\ retryIn = 0
  /\ ~reachable
  /\ note_connect_failure

ConnectFails == ConnectDeferred \/ ConnectRefused

(* edge_modbus_connect opens a context, which addresses the default unit.  *)
edge_modbus_connect ==
  /\ ~connected
  /\ retryIn = 0
  /\ reachable
  /\ connected' = TRUE
  /\ backoff' = 0
  /\ retryIn' = 0
  /\ slave' = TcpSlave
  /\ UNCHANGED currentUnit

(* The context is closed and freed; the backoff is not touched. *)
edge_modbus_disconnect ==
  /\ connected' = FALSE
  /\ slave' = TcpSlave
  /\ UNCHANGED <<backoff, retryIn>>

-----------------------------------------------------------------------------
(* edge_modbus_write_node(i), from the call to the return, in the cases    *)
(* the code distinguishes.  A missing connection is opened by a step of    *)
(* its own (WriteConnects), so that the link may drop before the request.  *)

WriteWanted(i) == Enabled /\ i \in Writable /\ Mapped(i)

WriteConnects(i) ==
  /\ WriteWanted(i)
  /\ edge_modbus_connect
  /\ UNCHANGED <<plc, reachable>>

WriteNotWanted(i) ==
  /\ ~WriteWanted(i)
  /\ UNCHANGED modbusVars

WriteNoConnection(i) ==
  /\ WriteWanted(i)
  /\ ConnectFails
  /\ UNCHANGED <<plc, reachable>>

WriteUnitRefused(i) ==
  /\ WriteWanted(i)
  /\ connected
  /\ Unit[i] \notin LegalUnits
  /\ UNCHANGED modbusVars

(* Mutant: modbus_set_slave is left out. *)
WriteToOldSlave(i) ==
  /\ WriteWanted(i)
  /\ connected
  /\ reachable
  /\ Serves(slave, i)
  /\ \E image \in Images(i, value[i]) : plc' = WrittenTo(slave, plc, i, image)
  /\ UNCHANGED <<linkVars, reachable>>

WriteAcknowledged(i) ==
  /\ WriteWanted(i)
  /\ connected
  /\ Unit[i] \in LegalUnits
  /\ reachable
  /\ Serves(Unit[i], i)
  /\ slave' = Unit[i]
  /\ \E image \in Images(i, value[i]) : plc' = Written(plc, i, image)
  /\ UNCHANGED <<connected, backoff, retryIn, currentUnit, reachable>>

(* The PLC answers with an exception, or the link is down: then the        *)
(* request is lost, or it is carried out and only the answer is lost.      *)
WriteFails(i) ==
  /\ WriteWanted(i)
  /\ connected
  /\ Unit[i] \in LegalUnits
  /\ ~(reachable /\ Serves(Unit[i], i))
  /\ edge_modbus_disconnect
  /\ \/ UNCHANGED plc
     \/ /\ ~reachable
        /\ Serves(Unit[i], i)
        /\ \E image \in Images(i, value[i]) : plc' = Written(plc, i, image)
  /\ UNCHANGED <<currentUnit, reachable>>

edge_modbus_write_node(i) ==
  \/ WriteNotWanted(i)
  \/ WriteNoConnection(i)
  \/ WriteUnitRefused(i)
  \/ WriteAcknowledged(i)
  \/ WriteFails(i)

-----------------------------------------------------------------------------
(* edge_modbus_poll, entered at label "poll" and returning to ret; its     *)
(* loop over the nodes is label "scan".                                    *)

PollDisabled(ret) ==
  /\ pc = "poll"
  /\ ~Enabled
  /\ Goto(ret)
  /\ UNCHANGED <<value, modbusVars>>

PollConnects ==
  /\ pc = "poll"
  /\ Enabled
  /\ edge_modbus_connect
  /\ UNCHANGED <<controlVars, value, plc, reachable>>

PollNoConnection(ret) ==
  /\ pc = "poll"
  /\ Enabled
  /\ ConnectFails
  /\ Goto(ret)
  /\ UNCHANGED <<value, plc, reachable>>

(* Mutant: unit_set and current_unit outlive the call. *)
CacheKept == UNCHANGED currentUnit

CacheEmptied == currentUnit' = NoUnit

PollEnters ==
  /\ pc = "poll"
  /\ Enabled
  /\ connected
  /\ Goto("scan")
  /\ CacheEmptied
  /\ UNCHANGED <<value, connected, backoff, retryIn, slave, plc, reachable>>

ScanSkips ==
  /\ AtNode("scan")
  /\ ~Mapped(cursor)
  /\ Advance
  /\ UNCHANGED <<value, modbusVars>>

(* Mutant: a refused unit ends the loop. *)
ScanUnitRefusedBreaks ==
  /\ AtNode("scan")
  /\ Mapped(cursor)
  /\ currentUnit # Unit[cursor]
  /\ Unit[cursor] \notin LegalUnits
  /\ pc' = pc /\ cursor' = NodeCount + 1
  /\ UNCHANGED <<value, modbusVars>>

(* modbus_set_slave is called when the cached unit is another one; it      *)
(* refuses illegal units and leaves both the context and the cache alone.  *)
ScanUnitRefused ==
  /\ AtNode("scan")
  /\ Mapped(cursor)
  /\ currentUnit # Unit[cursor]
  /\ Unit[cursor] \notin LegalUnits
  /\ Advance
  /\ UNCHANGED <<value, modbusVars>>

(* The unit the request of this iteration addresses. *)
RequestUnit == IF currentUnit # Unit[cursor] THEN Unit[cursor] ELSE slave

ScanRequests ==
  /\ AtNode("scan")
  /\ Mapped(cursor)
  /\ currentUnit = Unit[cursor] \/ Unit[cursor] \in LegalUnits
  /\ currentUnit' = Unit[cursor]

ScanReads ==
  /\ ScanRequests
  /\ reachable
  /\ Serves(RequestUnit, cursor)
  /\ slave' = RequestUnit
  /\ value' = [value EXCEPT ![cursor] =
                 apply_registers_to_node(DataType[cursor], Scale[cursor],
                                         ReadRegisters(RequestUnit, cursor))]
  /\ Advance
  /\ UNCHANGED <<connected, backoff, retryIn, plc, reachable>>

(* The first failed read drops the connection and ends the poll. *)
ScanFails(ret) ==
  /\ ScanRequests
  /\ ~(reachable /\ Serves(RequestUnit, cursor))
  /\ edge_modbus_disconnect
  /\ Goto(ret)
  /\ UNCHANGED <<value, plc, reachable>>

ScanDone(ret) ==
  /\ PastNodes("scan")
  /\ Goto(ret)
  /\ UNCHANGED <<value, modbusVars>>

edge_modbus_poll(ret) ==
  \/ PollDisabled(ret)
  \/ PollConnects
  \/ PollNoConnection(ret)
  \/ PollEnters
  \/ ScanSkips
  \/ ScanUnitRefused
  \/ ScanReads
  \/ ScanFails(ret)
  \/ ScanDone(ret)

(* edge_modbus_clear, or the end of the process. *)
ModbusCleared ==
  /\ connected' = FALSE
  /\ backoff' = 0
  /\ retryIn' = 0
  /\ slave' = TcpSlave
  /\ currentUnit' = NoUnit
  /\ UNCHANGED <<plc, reachable>>

-----------------------------------------------------------------------------
(* The world outside: the plant, the network and the clock.  The network   *)
(* plays no part where Modbus is disabled.                                 *)

PlantChange ==
  /\ \E a \in PlantDriven, w \in Words : plc' = [plc EXCEPT ![a] = w]
  /\ UNCHANGED <<controlVars, value, linkVars, reachable>>

LinkChange ==
  /\ Enabled
  /\ reachable' = ~reachable
  /\ UNCHANGED <<controlVars, value, linkVars, plc>>

Elapse ==
  /\ retryIn > 0
  /\ retryIn' = retryIn - 1
  /\ UNCHANGED <<controlVars, value, connected, backoff, slave, currentUnit, plc, reachable>>
=============================================================================
