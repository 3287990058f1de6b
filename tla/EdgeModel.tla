----------------------------- MODULE EdgeModel -----------------------------
(***************************************************************************)
(* The node table of include/edge_types.h as the running gateway uses it,  *)
(* and the control state of its single thread.  The template's fields are  *)
(* constants; the values of the nodes are state.                           *)
(*                                                                         *)
(* Everything the gateway does runs on one thread, but a tick blocks on    *)
(* the network and on SQLite, and the plant, the clock, a signal or        *)
(* another process may act between any two of its calls.  So each loop of  *)
(* the C code is a label of pc, and cursor is its index (from 1).          *)
(***************************************************************************)
EXTENDS EdgeValue

CONSTANTS
  NodeCount,   \* model->node_count
  DataType,    \* node -> its data_type
  Scale,       \* node -> its scale, in quanta
  Writable,    \* the nodes with access=read_write
  Unit,        \* node -> its modbus_unit
  Register     \* node -> its modbus_register

Nodes == 1 .. NodeCount

ASSUME ModelAssumption ==
  /\ NodeCount \in Nat
  /\ DataType \in [Nodes -> EdgeDataType]
  /\ Scale \in [Nodes -> Int]
  /\ Writable \subseteq Nodes
  /\ Unit \in [Nodes -> Nat \ {0}]
  /\ Register \in [Nodes -> Nat]

VARIABLES
  pc,       \* where the thread is
  cursor,   \* the index of the loop it is in
  value     \* node -> its value

controlVars == <<pc, cursor>>

(* Enter a loop, or return to the caller. *)
Goto(label) == pc' = label /\ cursor' = 1

(* The next iteration of the loop the thread is in. *)
Advance == cursor' = cursor + 1 /\ UNCHANGED pc

AtNode(label) == pc = label /\ cursor \in Nodes

PastNodes(label) == pc = label /\ cursor = NodeCount + 1

NodeValues(v) ==
  /\ DOMAIN v = Nodes
  /\ \A i \in Nodes : v[i] \in EdgeValues(DataType[i])
=============================================================================
