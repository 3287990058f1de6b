---------------------------- MODULE MCEdgeConfig ---------------------------
(***************************************************************************)
(* Templates of up to three assets, two nodes and two events.  Sections    *)
(* lack a field, give one twice, or have a line that is refused; an asset  *)
(* may have the plant's id, parents may be declared late, and the ids "a"  *)
(* and "a.b" of assets make the variables "a.b.x" of nodes "b.x" and "x"   *)
(* collide.                                                                *)
(***************************************************************************)
EXTENDS EdgeConfig

P == <<"p">>
A == <<"a">>
AB == <<"a", "b">>
X == <<"x">>
BX == <<"b", "x">>
Alarm == <<"e">>
Fault == <<"f">>

Text(key, text) == [key |-> key, text |-> text, number |-> NotNumber]

Number(key, number) == [key |-> key, text |-> <<"1">>, number |-> number]

MCPlants ==
  {<<Text("id", P), Text("name", X)>>, <<Text("id", AB)>>, <<Text("id", AB \o BX)>>,
   <<Text("unknown", X)>>}

Asset(id, parent) ==
  <<Text("id", id), Text("type", X), Text("name", X), Text("parent", parent)>>

MCAssets ==
  {Asset(A, Empty), Asset(A, AB), Asset(AB, A), Asset(AB, P), Asset(P, AB), Asset(P, P),
   <<Text("id", A), Text("type", X)>>, <<Text("id", Empty)>>}

Node(asset, id, register) ==
  <<Text("asset", asset), Text("id", id), Text("name", X), Text("data_type", <<"int16">>),
    Text("source", <<"modbus">>), Text("access", <<"read">>), Number("scale", NaN),
    Number("modbus_unit", MaxUnit), Number("modbus_register", register)>>

(* The numbers at the borders: the last one of its field, the first beyond *)
(* it, zero, and the negative one that strtoul turns into 1.               *)
MCNodes ==
  {Node(AB, X, UIntMax), Node(A, X, -ULongMax), Node(A, BX, 1), Node(P, X, 0),
   Node(A, X, UIntMax + 1), Node(A, X, -1), Node(A, X, NaN),
   <<Number("modbus_unit", 0)>>, <<Number("modbus_unit", MaxUnit + 1)>>}

Event(asset, id, source) ==
  <<Text("asset", asset), Text("id", id), Text("condition", <<"less_than">>),
    Number("threshold", 1), Number("severity", UShortMax), Text("source_node", source)>>

MCEvents ==
  {Event(A, Alarm, X), Event(AB, Fault, X),
   <<Text("asset", P), Text("id", Fault), Text("id", Alarm)>>,
   <<Number("severity", UShortMax + 1)>>}
=============================================================================
