------------------------- MODULE EdgeRuntimeProofs -------------------------
(***************************************************************************)
(* Theorems about EdgeRuntime, for every template (nodes, events, units,   *)
(* registers), PLC, client and schedule.                                   *)
(***************************************************************************)
EXTENDS EdgeRuntime, EdgeValueProofs

-----------------------------------------------------------------------------
(* Type correctness, component by component. *)

LEMMA WrittenType ==
  ASSUME ModbusTypeOK, NEW i \in Nodes, NEW v \in EdgeValues(DataType[i]),
         NEW image \in Images(i, v)
  PROVE  Written(plc, i, image) \in [Device -> Words]
<1>1. DataType[i] \in EdgeDataType /\ Scale[i] \in Int
  BY ModelAssumption
<1>2. \A k \in 1 .. Width(i) : image[k] \in Words
  BY <1>1, PackType DEF Images, Width
<1>3. plc \in [Device -> Words]
  BY DEF ModbusTypeOK
<1> QED
  BY <1>2, <1>3 DEF Written, WrittenTo

LEMMA BackoffType == ModbusTypeOK => NextBackoff \in Nat
  BY ModbusAssumption DEF ModbusTypeOK, NextBackoff

LEMMA ConnectType ==
  ASSUME ModbusTypeOK, ConnectFails \/ edge_modbus_connect, UNCHANGED <<plc, reachable>>
  PROVE  ModbusTypeOK'
  BY BackoffType, ModbusAssumption
     DEF ModbusTypeOK, ConnectFails, ConnectDeferred, ConnectRefused, note_connect_failure,
         edge_modbus_connect, linkVars

LEMMA WriteNodeType ==
  ASSUME ModbusTypeOK, NodeValues(value), NEW i \in Nodes, edge_modbus_write_node(i)
  PROVE  ModbusTypeOK'
<1>1. value[i] \in EdgeValues(DataType[i]) /\ Unit[i] \in Nat
  BY ModelAssumption DEF NodeValues
<1>2. CASE WriteNotWanted(i) \/ WriteUnitRefused(i)
  BY <1>2 DEF WriteNotWanted, WriteUnitRefused, ModbusTypeOK, modbusVars, linkVars
<1>3. CASE WriteNoConnection(i)
  BY <1>3, ConnectType DEF WriteNoConnection
<1>4. CASE WriteAcknowledged(i)
  <2>1. plc' \in [Device -> Words]
    BY <1>1, <1>4, WrittenType DEF WriteAcknowledged
  <2> QED
    BY <1>1, <1>4, <2>1 DEF WriteAcknowledged, ModbusTypeOK
<1>5. CASE WriteFails(i)
  <2>1. plc' \in [Device -> Words]
    BY <1>1, <1>5, WrittenType DEF WriteFails, ModbusTypeOK
  <2> QED
    BY <1>5, <2>1, ModbusAssumption DEF WriteFails, edge_modbus_disconnect, ModbusTypeOK
<1> QED
  BY <1>2, <1>3, <1>4, <1>5 DEF edge_modbus_write_node

LEMMA GotoType ==
  ASSUME NEW label \in Labels, Goto(label)
  PROVE  ControlTypeOK'
  BY ModelAssumption, StoreAssumption DEF Goto, ControlTypeOK

LEMMA AdvanceNodes ==
  ASSUME ControlTypeOK, NEW label \in LoopsOverNodes, AtNode(label), Advance
  PROVE  ControlTypeOK'
  BY ModelAssumption DEF ControlTypeOK, AtNode, Advance, Nodes, LoopsOverNodes

LEMMA AdvanceEvents ==
  ASSUME ControlTypeOK, AtEvent, Advance
  PROVE  ControlTypeOK'
  BY StoreAssumption DEF ControlTypeOK, AtEvent, Advance, Events, LoopsOverNodes

(* Whatever the PLC answers, the node keeps a value of its type. *)
LEMMA ReadType ==
  ASSUME ModbusTypeOK, NEW i \in Nodes, NEW unit, Serves(unit, i)
  PROVE  apply_registers_to_node(DataType[i], Scale[i], ReadRegisters(unit, i))
           \in EdgeValues(DataType[i])
<1>1. DataType[i] \in EdgeDataType /\ Scale[i] \in Int
  BY ModelAssumption
<1>2. \A k \in 1 .. register_width_for_node(DataType[i]) : ReadRegisters(unit, i)[k] \in Words
  BY DEF ReadRegisters, Serves, Width, ModbusTypeOK
<1> QED
  BY <1>1, <1>2, ApplyType

LEMMA PollPreservesTypes ==
  ASSUME ControlTypeOK, NodeValues(value), ModbusTypeOK, edge_modbus_poll("events")
  PROVE  ControlTypeOK' /\ NodeValues(value)' /\ ModbusTypeOK'
<1>1. "events" \in Labels /\ "scan" \in Labels /\ "scan" \in LoopsOverNodes
  BY DEF Labels, TickLabels, LoopsOverNodes
<1>2. UNCHANGED value => NodeValues(value)'
  BY DEF NodeValues
<1>3. UNCHANGED modbusVars => ModbusTypeOK'
  BY DEF modbusVars, linkVars, ModbusTypeOK
<1>4. ASSUME ScanRequests
      PROVE  cursor \in Nodes /\ RequestUnit \in Nat /\ currentUnit' \in Nat
  BY <1>4, ModelAssumption DEF ScanRequests, AtNode, RequestUnit, ModbusTypeOK
<1>5. CASE PollDisabled("events") \/ ScanDone("events")
  BY <1>1, <1>2, <1>3, <1>5, GotoType DEF PollDisabled, ScanDone
<1>6. CASE PollConnects
  BY <1>2, <1>6, ConnectType DEF PollConnects, ControlTypeOK, controlVars
<1>7. CASE PollNoConnection("events")
  BY <1>1, <1>2, <1>7, GotoType, ConnectType DEF PollNoConnection
<1>8. CASE PollEnters
  <2>1. ModbusTypeOK'
    BY <1>8 DEF PollEnters, CacheEmptied, NoUnit, ModbusTypeOK
  <2> QED
    BY <1>1, <1>2, <1>8, <2>1, GotoType DEF PollEnters
<1>9. CASE ScanSkips \/ ScanUnitRefused
  BY <1>1, <1>2, <1>3, <1>9, AdvanceNodes DEF ScanSkips, ScanUnitRefused
<1>10. CASE ScanReads
  <2>1. NodeValues(value)'
    BY <1>4, <1>10, ReadType DEF ScanReads, NodeValues
  <2>2. ModbusTypeOK'
    BY <1>4, <1>10 DEF ScanReads, ModbusTypeOK
  <2>3. ControlTypeOK'
    BY <1>1, <1>10, AdvanceNodes DEF ScanReads, ScanRequests
  <2> QED
    BY <2>1, <2>2, <2>3
<1>11. CASE ScanFails("events")
  <2>1. ModbusTypeOK'
    BY <1>4, <1>11, ModbusAssumption DEF ScanFails, edge_modbus_disconnect, ModbusTypeOK
  <2> QED
    BY <1>1, <1>2, <1>11, <2>1, GotoType DEF ScanFails
<1> QED
  BY <1>5, <1>6, <1>7, <1>8, <1>9, <1>10, <1>11 DEF edge_modbus_poll

LEMMA AsDoubleType ==
  ASSUME NodeValues(value), NEW i \in Nodes
  PROVE  NodeAsDouble(i) \in Doubles
<1>1. DataType[i] \in EdgeDataType /\ value[i] \in EdgeValues(DataType[i])
  BY ModelAssumption DEF NodeValues
<1>2. CASE DataType[i] = "double"
  BY <1>1, <1>2 DEF NodeAsDouble, edge_node_as_double, EdgeValues
<1>3. CASE DataType[i] # "double"
  <2>1. value[i] \in Int
    <3>1. \A t \in EdgeDataType \ {"double"} : EdgeValues(t) \subseteq Int
      BY WidthFacts DEF EdgeValues, EdgeDataType, Int16, Int32, UInt32
    <3> QED
      BY <1>1, <1>3, <3>1
  <2>2. value[i] * One \in Int
    BY <2>1, WidthAssumption
  <2> QED
    BY <1>3, <2>2 DEF NodeAsDouble, edge_node_as_double, Doubles
<1> QED
  BY <1>2, <1>3

LEMMA PersistPreservesTypes ==
  ASSUME ControlTypeOK, NodeValues(value), StoreTypeOK,
         NEW entry, NEW rows \in {"rows", "finalrows"}, NEW ret \in {"idle", "closing"},
         edge_store_persist_latest_values(entry, rows, ret)
  PROVE  ControlTypeOK' /\ NodeValues(value)' /\ StoreTypeOK'
<1>1. rows \in Labels /\ rows \in LoopsOverNodes /\ ret \in Labels
  BY DEF Labels, TickLabels, StopLabels, LoopsOverNodes
<1>2. UNCHANGED value => NodeValues(value)'
  BY DEF NodeValues
<1>3. UNCHANGED storeVars => StoreTypeOK'
  BY DEF storeVars, tableVars, StoreTypeOK
<1>4. CASE PersistRefused(entry, ret) \/ PersistCommitBusy(rows, ret)
  BY <1>1, <1>2, <1>3, <1>4, GotoType DEF PersistRefused, PersistCommitBusy
<1>5. CASE PersistBegins(entry, rows)
  BY <1>1, <1>2, <1>5, GotoType DEF PersistBegins, StoreTypeOK
<1>6. CASE PersistRow(rows)
  <2>1. NodeAsDouble(cursor) \in Doubles
    BY <1>6, AsDoubleType DEF PersistRow, AtNode
  <2>2. StoreTypeOK'
    BY <1>6, <2>1 DEF PersistRow, RowUpserted, AtNode, StoreTypeOK
  <2> QED
    BY <1>1, <1>2, <1>6, <2>2, AdvanceNodes DEF PersistRow
<1>7. CASE PersistRowFails(rows, ret)
  BY <1>1, <1>2, <1>7, GotoType DEF PersistRowFails, Rollback, StoreTypeOK
<1>8. CASE PersistCommits(rows, ret)
  BY <1>1, <1>2, <1>8, GotoType DEF PersistCommits, Commit, StoreTypeOK
<1> QED
  BY <1>4, <1>5, <1>6, <1>7, <1>8 DEF edge_store_persist_latest_values

LEMMA CountedType ==
  ASSUME NEW c \in [Events -> 0 .. RowCap], NEW e \in Events
  PROVE  Counted(c, e) \in [Events -> 0 .. RowCap]
  BY StoreAssumption DEF Counted

LEMMA EvaluatePreservesTypes ==
  ASSUME ControlTypeOK, NodeValues(value), StoreTypeOK, EventsTypeOK,
         NEW ret \in {"persist", "idle"}, edge_events_evaluate(ret)
  PROVE  ControlTypeOK' /\ NodeValues(value)' /\ StoreTypeOK' /\ EventsTypeOK'
<1>1. ret \in Labels
  BY DEF Labels, TickLabels
<1>2. UNCHANGED value => NodeValues(value)'
  BY DEF NodeValues
<1>3. UNCHANGED storeVars => StoreTypeOK'
  BY DEF storeVars, tableVars, StoreTypeOK
<1>4. ASSUME AtEvent PROVE cursor \in Events /\ cursor \in 0 .. EventCount
  BY <1>4, StoreAssumption DEF AtEvent, Events
<1>5. ASSUME AtEvent, edge_store_insert_event_history(cursor) PROVE StoreTypeOK'
  BY <1>4, <1>5, CountedType DEF edge_store_insert_event_history, StoreTypeOK
<1>6. CASE EventInsertFails(ret)
  BY <1>1, <1>2, <1>3, <1>4, <1>6, GotoType DEF EventInsertFails, Latch, EventsTypeOK
<1>7. CASE EventEmitFails(ret)
  BY <1>1, <1>2, <1>4, <1>5, <1>7, GotoType DEF EventEmitFails, Latch, EventsTypeOK
<1>8. CASE EventFires
  BY <1>2, <1>4, <1>5, <1>8, AdvanceEvents, CountedType
     DEF EventFires, Latch, emit_opcua_event, EventsTypeOK
<1>9. CASE EventHolds
  BY <1>2, <1>3, <1>4, <1>9, AdvanceEvents DEF EventHolds, EventsTypeOK
<1>10. CASE EventClears
  <2>1. 0 \in 0 .. RowCap
    BY StoreAssumption
  <2> QED
    BY <1>2, <1>4, <1>10, <2>1, AdvanceEvents DEF EventClears, EventsTypeOK, StoreTypeOK
<1>11. CASE EventsDone(ret)
  BY <1>1, <1>2, <1>3, <1>11, GotoType DEF EventsDone, EventsTypeOK, eventVars
<1> QED
  BY <1>6, <1>7, <1>8, <1>9, <1>10, <1>11 DEF edge_events_evaluate

-----------------------------------------------------------------------------
(* What a step that leaves a component's variables alone preserves. *)

LEMMA UnchangedTypes ==
  /\ ControlTypeOK /\ UNCHANGED controlVars => ControlTypeOK'
  /\ NodeValues(value) /\ UNCHANGED value => NodeValues(value)'
  /\ ModbusTypeOK /\ UNCHANGED modbusVars => ModbusTypeOK'
  /\ StoreTypeOK /\ UNCHANGED storeVars => StoreTypeOK'
  /\ EventsTypeOK /\ UNCHANGED eventVars => EventsTypeOK'
  /\ RuntimeTypeOK /\ UNCHANGED runtimeVars => RuntimeTypeOK'
  BY DEF ControlTypeOK, controlVars, NodeValues, ModbusTypeOK, modbusVars, linkVars,
         StoreTypeOK, storeVars, tableVars, EventsTypeOK, eventVars,
         RuntimeTypeOK, runtimeVars

LEMMA TypeOKInit == Init => TypeOK
<1> SUFFICES ASSUME Init PROVE TypeOK
  OBVIOUS
<1>1. ControlTypeOK
  BY ModelAssumption, StoreAssumption DEF Init, ControlTypeOK, Labels
<1>2. NodeValues(value)
  <2>1. \A t \in EdgeDataType : 0 \in EdgeValues(t)
    BY WidthFacts DEF EdgeDataType, EdgeValues, Int16, Int32, UInt32, Doubles
  <2> QED
    BY <2>1, ModelAssumption DEF Init, NodeValues
<1>3. ModbusTypeOK
  <2>1. 0 \in Words
    BY WidthFacts DEF Words
  <2>2. reachable \in BOOLEAN /\ connected \in BOOLEAN
    BY ModbusAssumption, Zenon DEF Init, ModbusInit
  <2>3. backoff \in Nat /\ retryIn \in Nat /\ slave \in Nat /\ currentUnit \in Nat
    BY ModbusAssumption DEF Init, ModbusInit, NoUnit
  <2>4. plc \in [Device -> Words]
    BY <2>1 DEF Init, ModbusInit
  <2> QED
    BY <2>2, <2>3, <2>4 DEF ModbusTypeOK
<1>4. StoreTypeOK
  <2>1. 0 \in 0 .. RowCap
    BY StoreAssumption
  <2>2. dbRows \in [Events -> 0 .. RowCap] /\ txRows = dbRows
    BY <2>1 DEF Init, StoreInit
  <2>3. dbLatest \in [Nodes -> Doubles \cup {NoRow}] /\ txLatest = dbLatest
    BY DEF Init, StoreInit
  <2>4. txOpen \in BOOLEAN /\ dbLock \in OtherLocks \cup {"free"}
    BY DEF Init, StoreInit
  <2> QED
    BY <2>2, <2>3, <2>4 DEF StoreTypeOK
<1>5. EventsTypeOK
  BY StoreAssumption DEF Init, EventsInit, EventsTypeOK
<1>6. RuntimeTypeOK
  BY DEF Init, NonePending, RuntimeTypeOK
<1> QED
  BY <1>1, <1>2, <1>3, <1>4, <1>5, <1>6 DEF TypeOK

LEMMA DrainPreservesTypes ==
  ASSUME TypeOK, drain_pending_writes
  PROVE  TypeOK'
<1> USE DEF TypeOK
<1>1. {"drain", "poll"} \subseteq Labels /\ "drain" \in LoopsOverNodes
  BY DEF Labels, TickLabels, LoopsOverNodes
<1>2. CASE DrainSkips
  BY <1>1, <1>2, UnchangedTypes, AdvanceNodes DEF DrainSkips
<1>3. CASE DrainConnects
  BY <1>3, UnchangedTypes, ConnectType DEF DrainConnects, WriteConnects
<1>4. CASE DrainWrites
  <2>1. cursor \in Nodes
    BY <1>4 DEF DrainWrites, AtNode
  <2>2. ModbusTypeOK'
    BY <1>4, <2>1, WriteNodeType DEF DrainWrites
  <2>3. RuntimeTypeOK'
    BY <1>4, <2>1 DEF DrainWrites, PendingCleared, RuntimeTypeOK
  <2> QED
    BY <1>1, <1>4, <2>2, <2>3, UnchangedTypes, AdvanceNodes DEF DrainWrites
<1>5. CASE DrainDone
  BY <1>1, <1>5, UnchangedTypes, GotoType DEF DrainDone
<1> QED
  BY <1>2, <1>3, <1>4, <1>5 DEF drain_pending_writes

LEMMA ProcessEndsTypes ==
  ASSUME TypeOK, ProcessEnds
  PROVE  TypeOK'
<1> USE DEF TypeOK
<1>1. ControlTypeOK'
  BY GotoType DEF ProcessEnds, Labels
<1>2. ModbusTypeOK'
  BY ModbusAssumption DEF ProcessEnds, ModbusCleared, NoUnit, ModbusTypeOK
<1>3. StoreTypeOK'
  BY DEF ProcessEnds, Rollback, StoreTypeOK
<1>4. RuntimeTypeOK'
  BY DEF ProcessEnds, NonePending, RuntimeTypeOK
<1> QED
  BY <1>1, <1>2, <1>3, <1>4, UnchangedTypes DEF ProcessEnds

LEMMA StartsTypes ==
  ASSUME TypeOK, Starts
  PROVE  TypeOK'
<1> USE DEF TypeOK
<1>1. NodeValues(value)'
  <2>1. PICK v \in [Nodes -> UNION {RestoredValues(i) : i \in Nodes}] :
          value' = v /\ \A i \in Nodes : v[i] \in RestoredValues(i)
    BY DEF Starts
  <2>2. ASSUME NEW i \in Nodes PROVE v[i] \in EdgeValues(DataType[i])
    <3>1. DataType[i] \in EdgeDataType /\ v[i] \in RestoredValues(i)
      BY <2>1, <2>2, ModelAssumption
    <3>2. CASE dbLatest[i] = NoRow
      BY <3>1, <3>2, WidthFacts
         DEF RestoredValues, EdgeDataType, EdgeValues, Int16, Int32, UInt32, Doubles
    <3>3. CASE dbLatest[i] # NoRow
      <4>1. dbLatest[i] \in Doubles
        BY <2>2, <3>3 DEF StoreTypeOK
      <4>2. 0 \in EdgeValues(DataType[i])
        BY <3>1, WidthFacts DEF EdgeDataType, EdgeValues, Int16, Int32, UInt32, Doubles
      <4> QED
        BY <3>1, <3>3, <4>1, <4>2, RestoreType DEF RestoredValues, ReadRow
    <3> QED
      BY <3>2, <3>3
  <2> QED
    BY <2>1, <2>2 DEF NodeValues
<1>2. ControlTypeOK'
  BY GotoType DEF Starts, Labels
<1>3. StoreTypeOK' /\ EventsTypeOK'
  BY StoreAssumption DEF Starts, StoreTypeOK, EventsTypeOK
<1>4. RuntimeTypeOK'
  BY DEF Starts, RuntimeTypeOK
<1> QED
  BY <1>1, <1>2, <1>3, <1>4, UnchangedTypes DEF Starts

LEMMA OutsideTypes ==
  ASSUME TypeOK, OutsideModbus \/ OutsideStore
  PROVE  TypeOK'
<1> USE DEF TypeOK
<1>1. CASE OutsideModbus
  <2>1. ModbusTypeOK'
    <3>1. CASE PlantChange
      BY <3>1, ModbusAssumption DEF PlantChange, linkVars, ModbusTypeOK
    <3>2. CASE LinkChange
      <4>1. reachable' \in BOOLEAN
        BY <3>2, Zenon DEF LinkChange
      <4> QED
        BY <3>2, <4>1 DEF LinkChange, linkVars, ModbusTypeOK
    <3>3. CASE Elapse
      BY <3>3 DEF Elapse, ModbusTypeOK
    <3> QED
      BY <1>1, <3>1, <3>2, <3>3 DEF OutsideModbus
  <2> QED
    BY <1>1, <2>1, UnchangedTypes DEF OutsideModbus, PlantChange, LinkChange, Elapse
<1>2. CASE OutsideStore
  <2>1. StoreTypeOK'
    BY <1>2 DEF OutsideStore, OtherProcess, tableVars, StoreTypeOK
  <2> QED
    BY <1>2, <2>1, UnchangedTypes DEF OutsideStore, OtherProcess
<1> QED
  BY <1>1, <1>2

LEMMA TypeOKNext == TypeOK /\ [Next]_vars => TypeOK'
<1> SUFFICES ASSUME TypeOK, [Next]_vars PROVE TypeOK'
  OBVIOUS
<1> USE DEF TypeOK
<1>1. CASE ClientWrites
  <2>1. PICK i \in Nodes : \E v \in ClientValues[i] : write_edge_node(i, v)
    BY <1>1 DEF ClientWrites
  <2>2. PICK v \in ClientValues[i] : write_edge_node(i, v)
    BY <2>1
  <2>3. v \in EdgeValues(DataType[i])
    BY RuntimeAssumption
  <2>4. NodeValues(value)'
    BY <2>2, <2>3 DEF write_edge_node, NodeValues
  <2>5. RuntimeTypeOK'
    BY <2>2 DEF write_edge_node, RuntimeTypeOK
  <2> QED
    BY <2>2, <2>4, <2>5, UnchangedTypes DEF write_edge_node
<1>2. CASE TickBegins
  <2>1. tick' \in Nat
    BY <1>2, RuntimeAssumption, DivisionFacts DEF TickBegins, RuntimeTypeOK
  <2>2. RuntimeTypeOK'
    BY <1>2, <2>1 DEF TickBegins, RuntimeTypeOK
  <2>3. ControlTypeOK'
    BY <1>2, GotoType DEF TickBegins, Labels, TickLabels
  <2> QED
    BY <1>2, <2>2, <2>3, UnchangedTypes DEF TickBegins
<1>3. CASE drain_pending_writes
  BY <1>3, DrainPreservesTypes
<1>4. CASE Polls
  BY <1>4, PollPreservesTypes, UnchangedTypes DEF Polls
<1>5. CASE EvaluatesEvents
  <2>1. AfterEvents \in {"persist", "idle"}
    BY DEF AfterEvents
  <2> QED
    BY <1>5, <2>1, EvaluatePreservesTypes, UnchangedTypes DEF EvaluatesEvents
<1>6. CASE Persists
  BY <1>6, PersistPreservesTypes, UnchangedTypes DEF Persists
<1>7. CASE FinalPersists
  BY <1>7, PersistPreservesTypes, UnchangedTypes DEF FinalPersists
<1>8. CASE Closes \/ Crash
  BY <1>8, ProcessEndsTypes DEF Closes, Crash
<1>9. CASE handle_signal
  BY <1>9, UnchangedTypes DEF handle_signal, RuntimeTypeOK
<1>10. CASE ServerStops
  BY <1>10, GotoType, UnchangedTypes DEF ServerStops, Labels, StopLabels
<1>11. CASE Starts
  BY <1>11, StartsTypes
<1>12. CASE OutsideModbus \/ OutsideStore
  BY <1>12, OutsideTypes
<1>13. CASE UNCHANGED vars
  BY <1>13, UnchangedTypes DEF vars
<1> QED
  BY <1>1, <1>2, <1>3, <1>4, <1>5, <1>6, <1>7, <1>8, <1>9, <1>10, <1>11, <1>12, <1>13
     DEF Next, ServerStep, edge_runtime_tick

(* The type invariant, for every template, PLC and schedule: among others, *)
(* no register content, client value or database row leaves a node with a  *)
(* value outside its data type.                                            *)
THEOREM TypeCorrect == Spec => []TypeOK
  BY TypeOKInit, TypeOKNext, PTL DEF Spec

-----------------------------------------------------------------------------
(* The unit cache of the poll. *)

LEMMA CacheCoherentNext == TypeOK /\ CacheCoherent /\ [Next]_vars => CacheCoherent'
<1> SUFFICES ASSUME TypeOK, CacheCoherent, [Next]_vars PROVE CacheCoherent'
  OBVIOUS
<1>1. CASE ClientWrites \/ handle_signal
  BY <1>1 DEF ClientWrites, write_edge_node, handle_signal, controlVars, modbusVars,
              linkVars, CacheCoherent
<1>2. CASE TickBegins \/ ServerStops
  BY <1>2 DEF TickBegins, ServerStops, Goto, CacheCoherent
<1>3. CASE drain_pending_writes
  BY <1>3 DEF drain_pending_writes, DrainSkips, DrainConnects, DrainWrites, DrainDone,
              AtNode, PastNodes, Advance, Goto, controlVars, CacheCoherent
<1>4. CASE Polls
  <2>1. CASE PollConnects
    BY <2>1 DEF PollConnects, controlVars, CacheCoherent
  <2>2. CASE PollEnters
    BY <2>2 DEF PollEnters, CacheEmptied, CacheCoherent
  <2>3. CASE ScanSkips \/ ScanUnitRefused
    BY <2>3 DEF ScanSkips, ScanUnitRefused, Advance, modbusVars, linkVars, CacheCoherent
  <2>4. CASE ScanReads
    <3>1. currentUnit' = Unit[cursor] /\ slave' = RequestUnit /\ pc = "scan"
      BY <2>4 DEF ScanReads, ScanRequests, AtNode
    <3>2. Unit[cursor] # NoUnit
      BY <2>4, ModelAssumption DEF ScanReads, ScanRequests, AtNode, NoUnit
    <3> QED
      BY <3>1, <3>2 DEF RequestUnit, CacheCoherent
  <2>5. CASE \/ PollDisabled("events") \/ PollNoConnection("events")
             \/ ScanFails("events") \/ ScanDone("events")
    BY <2>5 DEF PollDisabled, PollNoConnection, ScanFails, ScanDone, Goto, CacheCoherent
  <2> QED
    BY <1>4, <2>1, <2>2, <2>3, <2>4, <2>5 DEF Polls, edge_modbus_poll
<1>5. CASE EvaluatesEvents
  <2>1. pc = "events" /\ (pc' = pc \/ pc' = AfterEvents)
    BY <1>5 DEF EvaluatesEvents, edge_events_evaluate, EventInsertFails, EventEmitFails,
                EventFires, EventHolds, EventClears, EventsDone, AtEvent, Goto, Advance
  <2> QED
    BY <2>1 DEF AfterEvents, CacheCoherent
<1>6. CASE Persists \/ FinalPersists
  <2>1. pc' # "scan"
    BY <1>6 DEF Persists, FinalPersists, edge_store_persist_latest_values, PersistRefused,
                PersistBegins, PersistRow, PersistRowFails, PersistCommits,
                PersistCommitBusy, AtNode, PastNodes, Goto, Advance
  <2> QED
    BY <2>1 DEF CacheCoherent
<1>7. CASE Closes \/ Crash
  BY <1>7 DEF Closes, Crash, ProcessEnds, Goto, CacheCoherent
<1>8. CASE Starts
  BY <1>8 DEF Starts, Goto, CacheCoherent
<1>9. CASE OutsideModbus \/ OutsideStore
  BY <1>9 DEF OutsideModbus, OutsideStore, PlantChange, LinkChange, Elapse, OtherProcess,
              controlVars, modbusVars, linkVars, CacheCoherent
<1>10. CASE UNCHANGED vars
  BY <1>10 DEF vars, controlVars, modbusVars, linkVars, CacheCoherent
<1> QED
  BY <1>1, <1>2, <1>3, <1>4, <1>5, <1>6, <1>7, <1>8, <1>9, <1>10
     DEF Next, ServerStep, edge_runtime_tick

(* CacheCoherent for every order of nodes and units: the context addresses *)
(* the unit the poll believes it has set.                                  *)
THEOREM CacheAlwaysCoherent == Spec => []CacheCoherent
<1>1. Init => CacheCoherent
  BY DEF Init, CacheCoherent
<1> QED
  BY <1>1, TypeCorrect, CacheCoherentNext, PTL DEF Spec

(* ReadsOwnRegisters for every template: no node whose register a request  *)
(* can name ever takes the value of another register or another unit.      *)
THEOREM PollReadsOwnRegisters == Spec => ReadsOwnRegisters
<1> DEFINE Own == [k \in 1 .. Width(cursor) |-> plc[OwnRegister(cursor, k)]]
           A == pc = "scan" /\ value' # value /\ Addressable(cursor) =>
                  value' = [value EXCEPT ![cursor] =
                              apply_registers_to_node(DataType[cursor], Scale[cursor], Own)]
<1>1. ASSUME TypeOK, CacheCoherent, Next PROVE A
  <2> SUFFICES ASSUME pc = "scan", value' # value, Addressable(cursor) PROVE A
    OBVIOUS
  <2>1. ScanReads
    BY <1>1 DEF Next, ClientWrites, write_edge_node, TickBegins, ServerStep,
       edge_runtime_tick, drain_pending_writes, DrainSkips, DrainConnects, DrainWrites,
       DrainDone, Polls, edge_modbus_poll, PollDisabled, PollConnects, PollNoConnection,
       PollEnters, ScanSkips, ScanUnitRefused, ScanFails, ScanDone, EvaluatesEvents,
       edge_events_evaluate, EventInsertFails, EventEmitFails, EventFires, EventHolds,
       EventClears, EventsDone, AtEvent, Persists, FinalPersists,
       edge_store_persist_latest_values, PersistRefused, PersistBegins, PersistRow,
       PersistRowFails, PersistCommits, PersistCommitBusy, Closes, handle_signal,
       ServerStops, Crash, ProcessEnds, Starts, OutsideModbus, PlantChange, LinkChange,
       Elapse, OutsideStore, OtherProcess, AtNode, PastNodes
  <2>2. RequestUnit = Unit[cursor]
    <3>1. Unit[cursor] # NoUnit
      BY <2>1, ModelAssumption DEF ScanReads, ScanRequests, AtNode, NoUnit
    <3> QED
      BY <1>1, <3>1 DEF RequestUnit, CacheCoherent
  <2>3. ReadRegisters(Unit[cursor], cursor) = Own
    <3>1. cursor \in Nodes /\ Register[cursor] - RegisterBase \in 0 .. OffsetSpace - 1
      BY <2>1, ModelAssumption, ModbusAssumption
         DEF ScanReads, ScanRequests, AtNode, Mapped, Addressable
    <3>2. (Register[cursor] - RegisterBase) % OffsetSpace = Register[cursor] - RegisterBase
      BY <3>1, ModbusAssumption, ModuloOfSmall
    <3>3. \A k \in 1 .. Width(cursor) : Address(Unit[cursor], cursor, k) = OwnRegister(cursor, k)
      BY <3>2 DEF Address, OwnRegister
    <3> QED
      BY <3>3 DEF ReadRegisters
  <2> QED
    BY <2>1, <2>2, <2>3 DEF ScanReads
<1>2. TypeOK /\ CacheCoherent /\ [Next]_vars => [A]_vars
  BY <1>1 DEF vars
<1> QED
  BY <1>2, TypeCorrect, CacheAlwaysCoherent, PTL DEF Spec, ReadsOwnRegisters

-----------------------------------------------------------------------------
(* The reconnect backoff. *)

LEMMA RetryWindowConnect ==
  ASSUME TypeOK, RetryWindow, ConnectFails \/ edge_modbus_connect
  PROVE  RetryWindow'
<1> USE DEF TypeOK, ModbusTypeOK, RetryWindow
<1>1. CASE ConnectDeferred
  BY <1>1 DEF ConnectDeferred, linkVars
<1>2. CASE ConnectRefused
  BY <1>2, ModbusAssumption DEF ConnectRefused, note_connect_failure, NextBackoff
<1>3. CASE edge_modbus_connect
  BY <1>3 DEF edge_modbus_connect
<1> QED
  BY <1>1, <1>2, <1>3 DEF ConnectFails

LEMMA RetryWindowUnchanged ==
  RetryWindow /\ UNCHANGED <<connected, backoff, retryIn>> => RetryWindow'
  BY DEF RetryWindow

LEMMA RetryWindowDisconnect == RetryWindow /\ edge_modbus_disconnect => RetryWindow'
  BY DEF RetryWindow, edge_modbus_disconnect

LEMMA RetryWindowNext == TypeOK /\ RetryWindow /\ [Next]_vars => RetryWindow'
<1> SUFFICES ASSUME TypeOK, RetryWindow, [Next]_vars PROVE RetryWindow'
  OBVIOUS
<1>1. CASE UNCHANGED modbusVars
  BY <1>1, RetryWindowUnchanged DEF modbusVars, linkVars
<1>2. CASE DrainConnects
  BY <1>2, RetryWindowConnect DEF DrainConnects, WriteConnects
<1>3. CASE DrainWrites
  <2>1. CASE WriteNotWanted(cursor) \/ WriteUnitRefused(cursor)
    BY <1>1, <2>1 DEF WriteNotWanted, WriteUnitRefused
  <2>2. CASE WriteNoConnection(cursor)
    BY <2>2, RetryWindowConnect DEF WriteNoConnection
  <2>3. CASE WriteAcknowledged(cursor)
    BY <2>3, RetryWindowUnchanged DEF WriteAcknowledged
  <2>4. CASE WriteFails(cursor)
    BY <2>4, RetryWindowDisconnect DEF WriteFails
  <2> QED
    BY <1>3, <2>1, <2>2, <2>3, <2>4 DEF DrainWrites, edge_modbus_write_node
<1>4. CASE Polls
  <2>1. CASE PollConnects \/ PollNoConnection("events")
    BY <2>1, RetryWindowConnect DEF PollConnects, PollNoConnection
  <2>2. CASE PollEnters \/ ScanReads
    BY <2>2, RetryWindowUnchanged DEF PollEnters, ScanReads
  <2>3. CASE ScanFails("events")
    BY <2>3, RetryWindowDisconnect DEF ScanFails
  <2>4. CASE PollDisabled("events") \/ ScanSkips \/ ScanUnitRefused \/ ScanDone("events")
    BY <1>1, <2>4 DEF PollDisabled, ScanSkips, ScanUnitRefused, ScanDone
  <2> QED
    BY <1>4, <2>1, <2>2, <2>3, <2>4 DEF Polls, edge_modbus_poll
<1>5. CASE Closes \/ Crash
  BY <1>5, ModbusAssumption DEF Closes, Crash, ProcessEnds, ModbusCleared, RetryWindow
<1>6. CASE OutsideModbus
  <2>1. CASE PlantChange \/ LinkChange
    BY <2>1, RetryWindowUnchanged DEF PlantChange, LinkChange, linkVars
  <2>2. CASE Elapse
    BY <2>2 DEF Elapse, RetryWindow, TypeOK, ModbusTypeOK
  <2> QED
    BY <1>6, <2>1, <2>2 DEF OutsideModbus
<1>7. CASE \/ ClientWrites \/ TickBegins \/ DrainSkips \/ DrainDone \/ EvaluatesEvents
           \/ Persists \/ FinalPersists \/ handle_signal \/ ServerStops \/ Starts
           \/ OutsideStore \/ UNCHANGED vars
  BY <1>1, <1>7 DEF ClientWrites, write_edge_node, TickBegins, DrainSkips, DrainDone,
     EvaluatesEvents, Persists, FinalPersists, handle_signal, ServerStops, Starts,
     OutsideStore, vars
<1> QED
  BY <1>2, <1>3, <1>4, <1>5, <1>6, <1>7
     DEF Next, ServerStep, edge_runtime_tick, drain_pending_writes

(* RetryWindow for every initial and maximal delay. *)
THEOREM RetryAlwaysInWindow == Spec => []RetryWindow
<1>1. Init => RetryWindow
  BY DEF Init, ModbusInit, RetryWindow
<1> QED
  BY <1>1, TypeCorrect, RetryWindowNext, PTL DEF Spec
=============================================================================
