-------------------------- MODULE EdgeRestoreProofs -------------------------
(***************************************************************************)
(* Proofs about the values EdgeLifecycle carries from one start to the     *)
(* next, for every set of templates and every data type a node may have    *)
(* had before.                                                             *)
(*                                                                         *)
(* The argument: before the restore every value is zero (Fresh), so a      *)
(* template loaded anew finds values of its data types; no node is         *)
(* restored ahead of its turn (InTurn).  Of the nodes the                  *)
(* restore has passed, one that was neither restored nor sampled and whose *)
(* SELECT met no lock has no row, or the row that this process has written *)
(* (Remembered); and one that was restored has the value of its row, as    *)
(* long as nothing is sampled (Faithful).                                  *)
(***************************************************************************)
EXTENDS EdgeLifecycleProofs

InStart == {"down", "create", "migrate", "stamp", "model", "rows"}

Serving == {"bind", "startup", "up", "final"}

Zeros == [n \in NodeIds |-> 0]

Fresh == pc \in InStart => value = Zeros /\ known = {} /\ refused = {}

(* The restore is past node i. *)
Passed(i) == (pc = "restore" /\ i < cursor) \/ pc \in Serving

ValuesTyped ==
  /\ DOMAIN value = NodeIds
  /\ \A i \in DOMAIN ModelNodes(template) : value[NodeId(i)] \in EdgeValues(DataType(i))
  /\ latest \in [NodeIds -> Doubles \cup {NoRow}]
  /\ known \subseteq NodeIds /\ refused \subseteq NodeIds

MainTyped ==
  /\ pc \in Labels
  /\ pc = "restore" => cursor <= Len(ModelNodes(template)) + 1

ClocksTyped == uptime \in 0 .. ClockCap /\ newest \in 0 .. ClockCap

BooleansTyped ==
  stuck \in BOOLEAN /\ running \in BOOLEAN /\ clean \in BOOLEAN /\ calm \in BOOLEAN

FlagsTyped == ClocksTyped /\ BooleansTyped

Remembered ==
  \A i \in DOMAIN ModelNodes(template) : Passed(i) =>
    \/ NodeId(i) \in known \cup refused
    \/ latest[NodeId(i)] = NoRow
    \/ latest[NodeId(i)] = NodeAsDouble(i)

Faithful ==
  \A i \in DOMAIN ModelNodes(template) :
    /\ (pc = "restore" /\ i < cursor) \/ pc = "bind"
    /\ NodeId(i) \in known
    /\ Fits(DataType(i), latest[NodeId(i)])
    => NodeAsDouble(i) = latest[NodeId(i)]

(* No node is restored ahead of its turn. *)
InTurn ==
  \A i \in DOMAIN ModelNodes(template) : NodeId(i) \in known => Passed(i)

LInv ==
  MainTyped /\ FlagsTyped /\ ValuesTyped /\ Fresh /\ InTurn /\ Remembered /\ Faithful

-----------------------------------------------------------------------------

(* The nodes of a template: a sequence, with ids of their own. *)
LEMMA NodesType ==
  ASSUME NEW t \in Templates
  PROVE  /\ Len(ModelNodes(t)) \in Nat
         /\ DOMAIN ModelNodes(t) = 1 .. Len(ModelNodes(t))
         /\ \A i \in DOMAIN ModelNodes(t) : ModelNodes(t)[i].id \in NodeIds
         /\ \A i \in DOMAIN ModelNodes(t) : NodeType[ModelNodes(t)[i].definition] \in EdgeDataType
         /\ \A i, j \in DOMAIN ModelNodes(t) : ModelNodes(t)[i].id = ModelNodes(t)[j].id => i = j
<1> DEFINE nodes == ModelNodes(t)
           Any == [id : NodeIds, definition : Definitions]
<1>1. nodes \in Seq(Any)
  BY LifeAssumption
<1>2. \A r \in Any : r.id \in NodeIds
  OBVIOUS
<1> HIDE DEF nodes, Any
<1>3. /\ Len(nodes) \in Nat
      /\ DOMAIN nodes = 1 .. Len(nodes)
      /\ \A i \in DOMAIN nodes : nodes[i] \in Any
  BY <1>1
<1>4. \A i \in DOMAIN nodes : nodes[i].id \in NodeIds
  BY <1>2, <1>3
<1> QED BY <1>3, <1>4, LifeAssumption DEF nodes

(* The same, of the template that is loaded. *)
LEMMA LoadedNodes ==
  ASSUME template \in Templates
  PROVE  /\ Len(ModelNodes(template)) \in Nat
         /\ DOMAIN ModelNodes(template) = 1 .. Len(ModelNodes(template))
         /\ \A i \in DOMAIN ModelNodes(template) :
              NodeId(i) \in NodeIds /\ DataType(i) \in EdgeDataType
         /\ \A i, j \in DOMAIN ModelNodes(template) : NodeId(i) = NodeId(j) => i = j
  BY NodesType DEF NodeId, DataType

LEMMA ZeroIsTyped == \A t \in EdgeDataType : 0 \in EdgeValues(t)
<1>1. 0 \in Int16 /\ 0 \in Int32 /\ 0 \in UInt32 /\ 0 \in Doubles
  BY WidthFacts DEF Int16, Int32, UInt32, Doubles
<1> QED BY <1>1 DEF EdgeDataType, EdgeValues

LEMMA AsDoubleType ==
  ASSUME NEW t \in EdgeDataType, NEW v \in EdgeValues(t)
  PROVE  edge_node_as_double(t, v) \in Doubles
<1>1. CASE t = "double"
  BY <1>1 DEF edge_node_as_double, EdgeValues
<1>2. CASE t # "double"
  <2>1. v \in Int
    BY <1>2, WidthFacts DEF EdgeValues, EdgeDataType, Int16, Int32, UInt32
  <2> QED BY <1>2, <2>1, WidthAssumption DEF edge_node_as_double, Doubles
<1> QED BY <1>1, <1>2

LEMMA ClockType == ClockCap \in Nat
  BY LifeAssumption

(* Init establishes the invariant. *)
LEMMA InitLInv == Init => LInv
<1> SUFFICES ASSUME Init PROVE LInv
  OBVIOUS
<1>1. pc = "down" /\ template \in Templates /\ value = Zeros
  BY DEF Init, SchemaInit, Zeros
<1>2. MainTyped /\ FlagsTyped /\ Fresh
  <2>1. ClocksTyped
    BY ClockType DEF Init, ClocksTyped
  <2>2. BooleansTyped
    BY DEF Init, BooleansTyped
  <2>3. MainTyped /\ Fresh
    BY <1>1 DEF Init, MainTyped, Fresh, Labels
  <2> QED BY <2>1, <2>2, <2>3 DEF FlagsTyped
<1>3. ValuesTyped
  BY <1>1, LoadedNodes, ZeroIsTyped DEF Init, ValuesTyped, Zeros
<1>4. InTurn /\ Remembered /\ Faithful
  BY <1>1 DEF Init, InTurn, Remembered, Faithful, Passed, Serving
<1> QED BY <1>2, <1>3, <1>4 DEF LInv

(* The flags and clocks keep their types, whatever else a step does. *)
LEMMA FlagsStep == FlagsTyped /\ [Next]_vars => FlagsTyped'
<1> SUFFICES ASSUME FlagsTyped, [Next]_vars PROVE FlagsTyped'
  OBVIOUS
<1>1. ClocksTyped'
  <2> USE ClockType DEF FlagsTyped, ClocksTyped, lifeVars, memoryVars
  <2>1. CASE Loads \/ PreparesDatabase \/ OtherProcess \/ UNCHANGED vars
    BY <2>1 DEF Loads, PreparesDatabase, OtherProcess, vars
  <2>2. CASE LateStep
    BY <2>2 DEF LateStep, edge_store_load_latest_values, RestoreRow, RestoreNone, RestoreRefused,
                RestoreDone, Binds, ServerStarts, ServerStartFails, ServerStops
  <2>3. CASE Sampled \/ Persists \/ handle_signal \/ Calms
    BY <2>3 DEF Sampled, Persists, handle_signal, Calms
  <2>4. CASE EventRecorded
    BY <2>4 DEF EventRecorded, edge_time_now_ms
  <2>5. CASE ClockAdvances
    BY <2>5 DEF ClockAdvances
  <2>6. CASE EndStep
    BY <2>6 DEF EndStep, BindFails, Closes, Crash
  <2>7. CASE Reboot
    BY <2>7 DEF Reboot
  <2> QED BY <2>1, <2>2, <2>3, <2>4, <2>5, <2>6, <2>7, NextCases DEF IdleStep
<1>2. BooleansTyped'
  <2> USE DEF FlagsTyped, BooleansTyped, lifeVars, memoryVars
  <2>1. CASE Loads \/ PreparesDatabase \/ OtherProcess \/ UNCHANGED vars
    BY <2>1 DEF Loads, PreparesDatabase, OtherProcess, vars
  <2>2. CASE LateStep
    BY <2>2 DEF LateStep, edge_store_load_latest_values, RestoreRow, RestoreNone, RestoreRefused,
                RestoreDone, Binds, ServerStarts, ServerStartFails, ServerStops
  <2>3. CASE Sampled \/ EventRecorded \/ ClockAdvances
    BY <2>3 DEF Sampled, EventRecorded, ClockAdvances
  <2>4. CASE handle_signal \/ Calms
    BY <2>4 DEF handle_signal, Calms
  <2>5. CASE Persists
    BY <2>5 DEF Persists
  <2>6. CASE EndStep
    BY <2>6 DEF EndStep, BindFails, Closes, Crash, ProcessEnds, MemoryLost
  <2>7. CASE Reboot
    BY <2>7 DEF Reboot, MemoryLost
  <2> QED BY <2>1, <2>2, <2>3, <2>4, <2>5, <2>6, <2>7, NextCases DEF IdleStep
<1> QED BY <1>1, <1>2 DEF FlagsTyped

(* A step that leaves the nodes, their rows and their history alone, and   *)
(* passes no node by.                                                      *)
Untouched == UNCHANGED <<template, value, latest, known, refused>>

LEMMA UntouchedStep ==
  ASSUME LInv, Untouched, MainTyped', Fresh', FlagsTyped',
         \A i \in DOMAIN ModelNodes(template) : Passed(i)' <=> Passed(i),
         \A i \in DOMAIN ModelNodes(template) :
           ((pc = "restore" /\ i < cursor) \/ pc = "bind")' =>
             ((pc = "restore" /\ i < cursor) \/ pc = "bind")
  PROVE  LInv'
<1>1. \A i : NodeId(i)' = NodeId(i) /\ DataType(i)' = DataType(i) /\ NodeAsDouble(i)' = NodeAsDouble(i)
  BY DEF Untouched, NodeId, DataType, NodeAsDouble
<1>2. ValuesTyped'
  BY <1>1 DEF LInv, ValuesTyped, Untouched
<1>3. InTurn' /\ Remembered'
  BY <1>1 DEF LInv, InTurn, Remembered, Untouched
<1>4. Faithful'
  BY <1>1 DEF LInv, Faithful, Untouched
<1> QED BY <1>2, <1>3, <1>4 DEF LInv

(* A new process reads a template into zeroed nodes. *)
LEMMA LoadsLInv == LInv /\ Loads /\ FlagsTyped' => LInv'
<1> SUFFICES ASSUME LInv, Loads, FlagsTyped' PROVE LInv'
  OBVIOUS
<1>1. /\ pc = "down" /\ pc' = "create" /\ template' \in Templates
      /\ UNCHANGED <<value, latest, known, refused>>
  BY DEF Loads, Goto, memoryVars
<1>2. value' = Zeros /\ known' = {} /\ refused' = {}
  BY <1>1 DEF LInv, Fresh, InStart
<1>3. \A i \in DOMAIN ModelNodes(template') :
        NodeId(i)' \in NodeIds /\ DataType(i)' \in EdgeDataType
  BY <1>1, NodesType DEF NodeId, DataType
<1>4. ValuesTyped'
  <2>1. \A i \in DOMAIN ModelNodes(template') : value'[NodeId(i)'] \in EdgeValues(DataType(i)')
    BY <1>2, <1>3, ZeroIsTyped DEF Zeros
  <2> QED BY <1>1, <1>2, <2>1 DEF LInv, ValuesTyped, Zeros
<1>5. MainTyped' /\ Fresh' /\ InTurn' /\ Remembered' /\ Faithful'
  BY <1>1, <1>2 DEF MainTyped, Fresh, InTurn, Remembered, Faithful, Passed, Serving, Labels, Zeros
<1> QED BY <1>4, <1>5 DEF LInv

(* The schema and the model are written before any node has a value. *)
LEMMA PreparesFrame ==
  ASSUME PreparesDatabase
  PROVE  /\ pc \in InStart
         /\ pc' \in InStart \/ (pc' = "restore" /\ cursor' = 1)
         /\ Untouched
<1>1. edge_store_init_schema =>
        pc \in InStart /\ pc' \in InStart /\ UNCHANGED template
  BY DEF edge_store_init_schema, CreateSkips, CreateTable, CreateFails, VersionUnread,
         NewerRefused, MigrationBegins, NoMigration, AddColumn, AddColumnFails, MigrationDone,
         Stamp, StampFails, Exits, Goto, Advance, InStart
<1>2. edge_store_persist_model =>
        /\ pc \in InStart
        /\ pc' \in InStart \/ (pc' = "restore" /\ cursor' = 1)
        /\ UNCHANGED template
  <2>1. ModelRefused \/ ModelRowFails \/ ModelCommitBusy =>
          pc \in InStart /\ pc' \in InStart /\ UNCHANGED template
    BY DEF ModelRefused, ModelRowFails, ModelCommitBusy, RowsDone, Exits, Goto, InStart
  <2>2. ModelBegins \/ ModelRow => pc \in InStart /\ pc' \in InStart /\ UNCHANGED template
    BY DEF ModelBegins, ModelRow, Goto, Advance, InStart
  <2>3. ModelCommits => pc \in InStart /\ pc' = "restore" /\ cursor' = 1 /\ UNCHANGED template
    BY DEF ModelCommits, RowsDone, Goto, InStart
  <2> QED BY <2>1, <2>2, <2>3 DEF edge_store_persist_model
<1>3. UNCHANGED <<value, latest, known, refused>>
  BY DEF PreparesDatabase, lifeVars, memoryVars
<1> QED BY <1>1, <1>2, <1>3 DEF PreparesDatabase, Untouched

LEMMA PreparesLInv == IInv /\ LInv /\ PreparesDatabase /\ FlagsTyped' => LInv'
<1> SUFFICES ASSUME IInv, LInv, PreparesDatabase, FlagsTyped' PROVE LInv'
  OBVIOUS
<1>1. /\ pc \in InStart
      /\ pc' \in InStart \/ (pc' = "restore" /\ cursor' = 1)
      /\ Untouched
  BY PreparesFrame
<1>2. Len(ModelNodes(template)) \in Nat /\ DOMAIN ModelNodes(template) = 1 .. Len(ModelNodes(template))
  BY LoadedNodes DEF IInv, SchemaTypeOK
<1>3. MainTyped'
  BY <1>1, <1>2 DEF MainTyped, Labels, InStart, Untouched
<1>4. Fresh'
  BY <1>1 DEF LInv, Fresh, Untouched, Zeros
<1>5. \A i \in DOMAIN ModelNodes(template) :
        ~Passed(i) /\ ~Passed(i)' /\ ~(pc' = "restore" /\ i < cursor') /\ pc' # "bind"
  BY <1>1, <1>2 DEF Passed, InStart, Serving
<1> QED BY <1>1, <1>3, <1>4, <1>5, UntouchedStep

(* One SELECT of the restore, with or without a row, refused or answered:  *)
(* only the node at the cursor may change, and it is passed.               *)
LEMMA RestoreFrame ==
  ASSUME IInv, LInv, RestoreRow \/ RestoreNone \/ RestoreRefused, FlagsTyped',
         ValuesTyped', UNCHANGED template,
         \A i \in DOMAIN ModelNodes(template) : i # cursor =>
           /\ NodeId(i) \in known' <=> NodeId(i) \in known
           /\ NodeId(i) \in refused' <=> NodeId(i) \in refused
           /\ NodeAsDouble(i)' = NodeAsDouble(i),
         NodeId(cursor) \in known' \cup refused' \/ latest[NodeId(cursor)] = NoRow,
         \A i \in DOMAIN ModelNodes(template) :
           i = cursor /\ NodeId(i) \in known' /\ Fits(DataType(i), latest[NodeId(i)]) =>
             NodeAsDouble(i)' = latest[NodeId(i)]
  PROVE  LInv'
<1>1. /\ pc = "restore" /\ pc' = "restore" /\ cursor' = cursor + 1 /\ UNCHANGED latest
      /\ cursor \in DOMAIN ModelNodes(template)
  BY DEF RestoreRow, RestoreNone, RestoreRefused, AtRestore, Advance, lifeVars
<1>2. /\ Len(ModelNodes(template)) \in Nat
      /\ DOMAIN ModelNodes(template) = 1 .. Len(ModelNodes(template))
  BY LoadedNodes DEF IInv, SchemaTypeOK
<1>3. MainTyped' /\ Fresh'
  BY <1>1, <1>2 DEF MainTyped, Fresh, Labels, InStart
<1>4. \A i \in DOMAIN ModelNodes(template) :
        (Passed(i) <=> i < cursor) /\ (Passed(i)' <=> i < cursor \/ i = cursor)
  BY <1>1, <1>2 DEF Passed, Serving
<1>5. \A i : NodeId(i)' = NodeId(i) /\ DataType(i)' = DataType(i)
  BY DEF NodeId, DataType
<1>6. InTurn'
  BY <1>4, <1>5 DEF LInv, InTurn
<1>7. Remembered'
  <2> SUFFICES ASSUME NEW i \in DOMAIN ModelNodes(template), Passed(i)'
               PROVE  \/ NodeId(i) \in known' \cup refused'
                      \/ latest[NodeId(i)] = NoRow
                      \/ latest[NodeId(i)] = NodeAsDouble(i)'
    BY <1>1, <1>5 DEF Remembered
  <2> QED BY <1>4 DEF LInv, Remembered
<1>8. Faithful'
  <2> SUFFICES ASSUME NEW i \in DOMAIN ModelNodes(template), i < cursor \/ i = cursor,
                      NodeId(i) \in known', Fits(DataType(i), latest[NodeId(i)])
               PROVE  NodeAsDouble(i)' = latest[NodeId(i)]
    <3>1. \A i \in DOMAIN ModelNodes(template) :
            ((pc = "restore" /\ i < cursor) \/ pc = "bind")' => i < cursor \/ i = cursor
      BY <1>1, <1>2
    <3> QED BY <1>1, <1>5, <3>1 DEF Faithful, Fits
  <2>1. CASE i = cursor
    BY <2>1
  <2>2. CASE i # cursor
    BY <1>1, <2>2 DEF LInv, Faithful
  <2> QED BY <2>1, <2>2
<1> QED BY <1>3, <1>6, <1>7, <1>8 DEF LInv

(* A row is restored into its own node: with a value of the node's type,   *)
(* and exactly, if the type can hold it.                                   *)
LEMMA RestoreRowLInv == IInv /\ LInv /\ RestoreRow /\ FlagsTyped' => LInv'
<1> SUFFICES ASSUME IInv, LInv, RestoreRow, FlagsTyped' PROVE LInv'
  OBVIOUS
<1> DEFINE here == NodeId(cursor)
           type == DataType(cursor)
<1>1. /\ cursor \in DOMAIN ModelNodes(template)
      /\ latest[here] # NoRow /\ UNCHANGED <<template, latest, refused>>
      /\ known' = known \cup {here}
  BY DEF RestoreRow, AtRestore
<1>2. PICK v \in edge_node_set_from_double(type, latest[here]) : value' = [value EXCEPT ![here] = v]
  BY DEF RestoreRow, Restored
<1>3. /\ \A i \in DOMAIN ModelNodes(template) : NodeId(i) \in NodeIds /\ DataType(i) \in EdgeDataType
      /\ \A i, j \in DOMAIN ModelNodes(template) : NodeId(i) = NodeId(j) => i = j
  BY LoadedNodes DEF IInv, SchemaTypeOK
<1>4. latest[here] \in Doubles
  BY <1>1, <1>3 DEF LInv, ValuesTyped
<1>5. v \in EdgeValues(type)
  BY <1>1, <1>2, <1>3, <1>4, RestoreType
<1>6. DOMAIN value = NodeIds
  BY DEF LInv, ValuesTyped
<1>7. value'[here] = v
  BY <1>1, <1>2, <1>3, <1>6
<1>8. \A i \in DOMAIN ModelNodes(template) : i # cursor => value'[NodeId(i)] = value[NodeId(i)]
  BY <1>1, <1>2, <1>3, <1>6
<1>9. \A i : NodeId(i)' = NodeId(i) /\ DataType(i)' = DataType(i)
  BY <1>1 DEF NodeId, DataType
<1>10. ValuesTyped'
  <2>1. \A i \in DOMAIN ModelNodes(template) : value'[NodeId(i)] \in EdgeValues(DataType(i))
    BY <1>5, <1>7, <1>8 DEF LInv, ValuesTyped
  <2>2. DOMAIN value' = NodeIds /\ known' \subseteq NodeIds
    BY <1>1, <1>2, <1>3, <1>6 DEF LInv, ValuesTyped
  <2> QED BY <1>1, <1>9, <2>1, <2>2 DEF LInv, ValuesTyped
<1>11. \A i \in DOMAIN ModelNodes(template) : i # cursor =>
         /\ NodeId(i) \in known' <=> NodeId(i) \in known
         /\ NodeId(i) \in refused' <=> NodeId(i) \in refused
         /\ NodeAsDouble(i)' = NodeAsDouble(i)
  BY <1>1, <1>3, <1>8, <1>9 DEF NodeAsDouble
<1>12. \A i \in DOMAIN ModelNodes(template) :
         i = cursor /\ Fits(DataType(i), latest[NodeId(i)]) => NodeAsDouble(i)' = latest[NodeId(i)]
  <2> SUFFICES ASSUME NEW i \in DOMAIN ModelNodes(template), i = cursor,
                      Fits(type, latest[here])
               PROVE  NodeAsDouble(i)' = latest[here]
    OBVIOUS
  <2>0. NodeAsDouble(i)' = edge_node_as_double(type, v)
    BY <1>7, <1>9 DEF NodeAsDouble
  <2>1. CASE type = "double"
    BY <1>2, <2>0, <2>1 DEF edge_node_set_from_double, edge_node_as_double
  <2>2. ASSUME NEW w \in EdgeValues(type), latest[here] = edge_node_as_double(type, w)
        PROVE  edge_node_as_double(type, v) = latest[here]
    BY <1>1, <1>2, <1>3, <2>2, RestoreInverse
  <2> QED BY <2>0, <2>1, <2>2 DEF Fits
<1> QED BY <1>1, <1>10, <1>11, <1>12, RestoreFrame

LEMMA RestoreOtherLInv ==
  IInv /\ LInv /\ (RestoreNone \/ RestoreRefused) /\ FlagsTyped' => LInv'
<1> SUFFICES ASSUME IInv, LInv, RestoreNone \/ RestoreRefused, FlagsTyped' PROVE LInv'
  OBVIOUS
<1>1. /\ pc = "restore" /\ cursor \in DOMAIN ModelNodes(template)
      /\ UNCHANGED <<template, value, known, latest>>
  BY DEF RestoreNone, RestoreRefused, AtRestore, lifeVars, memoryVars
<1>2. \/ UNCHANGED refused /\ latest[NodeId(cursor)] = NoRow
      \/ refused' = refused \cup {NodeId(cursor)}
  BY DEF RestoreNone, RestoreRefused, lifeVars, memoryVars
<1>3. /\ \A i \in DOMAIN ModelNodes(template) : NodeId(i) \in NodeIds
      /\ \A i, j \in DOMAIN ModelNodes(template) : NodeId(i) = NodeId(j) => i = j
  BY LoadedNodes DEF IInv, SchemaTypeOK
<1>4. \A i : NodeId(i)' = NodeId(i) /\ DataType(i)' = DataType(i) /\ NodeAsDouble(i)' = NodeAsDouble(i)
  BY <1>1 DEF NodeId, DataType, NodeAsDouble
<1>5. ValuesTyped'
  BY <1>1, <1>2, <1>3, <1>4 DEF LInv, ValuesTyped
<1>6. NodeId(cursor) \notin known'
  <2>1. ~Passed(cursor)
    BY <1>1 DEF Passed, Serving, IInv, SchemaTypeOK
  <2> QED BY <1>1, <2>1 DEF LInv, InTurn
<1> QED BY <1>1, <1>2, <1>3, <1>4, <1>5, <1>6, RestoreFrame

(* main() goes on past the restore. *)
LEMMA MovesLInv ==
  ASSUME IInv, LInv, FlagsTyped',
         RestoreDone \/ Binds \/ ServerStarts \/ ServerStartFails \/ ServerStops
  PROVE  LInv'
<1>1. /\ \/ pc = "restore" /\ cursor = Len(ModelNodes(template)) + 1 /\ pc' = "bind"
         \/ pc \in Serving /\ pc' \in {"startup", "up", "final"}
      /\ Untouched
  BY DEF RestoreDone, Binds, ServerStarts, ServerStartFails, ServerStops, Goto, lifeVars,
         memoryVars, Untouched, Serving
<1>2. /\ Len(ModelNodes(template)) \in Nat
      /\ DOMAIN ModelNodes(template) = 1 .. Len(ModelNodes(template))
  BY LoadedNodes DEF IInv, SchemaTypeOK
<1>3. MainTyped' /\ Fresh'
  BY <1>1 DEF MainTyped, Fresh, Labels, InStart
<1>4. \A i \in DOMAIN ModelNodes(template) : Passed(i) /\ Passed(i)'
  BY <1>1, <1>2 DEF Passed, Serving
<1>5. \A i \in DOMAIN ModelNodes(template) :
        ((pc = "restore" /\ i < cursor) \/ pc = "bind")' =>
          ((pc = "restore" /\ i < cursor) \/ pc = "bind")
  BY <1>1, <1>2
<1> QED BY <1>1, <1>3, <1>4, <1>5, UntouchedStep

(* Steps that leave main() where it is, and the nodes and rows too. *)
LEMMA FramesLInv ==
  ASSUME LInv, FlagsTyped',
         \/ EventRecorded \/ handle_signal \/ ClockAdvances \/ Calms \/ OtherProcess
         \/ UNCHANGED vars
  PROVE  LInv'
<1>1. Untouched /\ UNCHANGED <<pc, cursor>>
  BY DEF EventRecorded, handle_signal, ClockAdvances, Calms, OtherProcess, vars, startVars,
         lifeVars, memoryVars, Untouched
<1>2. MainTyped' /\ Fresh'
  BY <1>1 DEF LInv, MainTyped, Fresh, Untouched, Zeros
<1>3. \A i \in DOMAIN ModelNodes(template) : Passed(i)' <=> Passed(i)
  BY <1>1 DEF Passed
<1>4. \A i \in DOMAIN ModelNodes(template) :
        ((pc = "restore" /\ i < cursor) \/ pc = "bind")' =>
          ((pc = "restore" /\ i < cursor) \/ pc = "bind")
  BY <1>1
<1> QED BY <1>1, <1>2, <1>3, <1>4, UntouchedStep

(* A poll or a client gives one node a value of its type. *)
LEMMA SampledLInv == IInv /\ LInv /\ Sampled /\ FlagsTyped' => LInv'
<1> SUFFICES ASSUME IInv, LInv, Sampled, FlagsTyped' PROVE LInv'
  OBVIOUS
<1>1. /\ pc = "up" /\ UNCHANGED <<pc, cursor, template, latest, refused>>
  BY DEF Sampled, startVars
<1>2. PICK k \in DOMAIN ModelNodes(template) : \E v \in Samples[DataType(k)] :
        value' = [value EXCEPT ![NodeId(k)] = v] /\ known' = known \cup {NodeId(k)}
  BY DEF Sampled
<1>3. PICK v \in Samples[DataType(k)] :
        value' = [value EXCEPT ![NodeId(k)] = v] /\ known' = known \cup {NodeId(k)}
  BY <1>2
<1>4. /\ \A i \in DOMAIN ModelNodes(template) : NodeId(i) \in NodeIds /\ DataType(i) \in EdgeDataType
      /\ \A i, j \in DOMAIN ModelNodes(template) : NodeId(i) = NodeId(j) => i = j
  BY LoadedNodes DEF IInv, SchemaTypeOK
<1>5. v \in EdgeValues(DataType(k))
  BY <1>3, <1>4, LifeAssumption
<1>6. DOMAIN value = NodeIds
  BY DEF LInv, ValuesTyped
<1>7. value'[NodeId(k)] = v
  BY <1>3, <1>4, <1>6
<1>8. \A i \in DOMAIN ModelNodes(template) : i # k => value'[NodeId(i)] = value[NodeId(i)]
  BY <1>3, <1>4, <1>6
<1>9. \A i : NodeId(i)' = NodeId(i) /\ DataType(i)' = DataType(i)
  BY <1>1 DEF NodeId, DataType
<1>10. ValuesTyped'
  <2>1. \A i \in DOMAIN ModelNodes(template) : value'[NodeId(i)] \in EdgeValues(DataType(i))
    BY <1>5, <1>7, <1>8 DEF LInv, ValuesTyped
  <2>2. DOMAIN value' = NodeIds /\ known' \subseteq NodeIds
    BY <1>3, <1>4, <1>6 DEF LInv, ValuesTyped
  <2> QED BY <1>1, <1>9, <2>1, <2>2 DEF LInv, ValuesTyped
<1>11. MainTyped' /\ Fresh' /\ InTurn' /\ Faithful'
  BY <1>1 DEF MainTyped, Fresh, InTurn, Faithful, Passed, Serving, InStart, Labels
<1>12. Remembered'
  <2> SUFFICES ASSUME NEW i \in DOMAIN ModelNodes(template)
               PROVE  \/ NodeId(i) \in known' \cup refused
                      \/ latest[NodeId(i)] = NoRow
                      \/ latest[NodeId(i)] = NodeAsDouble(i)'
    BY <1>1, <1>9 DEF Remembered
  <2>1. CASE i = k
    BY <1>3, <2>1
  <2>2. CASE i # k
    <3>1. NodeAsDouble(i)' = NodeAsDouble(i)
      BY <1>8, <1>9, <2>2 DEF NodeAsDouble
    <3> QED BY <1>1, <1>3, <3>1 DEF LInv, Remembered, Passed, Serving
  <2> QED BY <2>1, <2>2
<1> QED BY <1>10, <1>11, <1>12 DEF LInv

(* edge_store_persist_latest_values gives every node of the template the   *)
(* row of its own value, and leaves the other rows alone.                  *)
LEMMA SavedFacts ==
  ASSUME IInv, LInv
  PROVE  /\ Saved \in [NodeIds -> Doubles \cup {NoRow}]
         /\ \A i \in DOMAIN ModelNodes(template) : Saved[NodeId(i)] = NodeAsDouble(i)
         /\ \A n \in NodeIds :
              (\A i \in DOMAIN ModelNodes(template) : NodeId(i) # n) => Saved[n] = latest[n]
<1>1. /\ \A i \in DOMAIN ModelNodes(template) : NodeId(i) \in NodeIds /\ DataType(i) \in EdgeDataType
      /\ \A i, j \in DOMAIN ModelNodes(template) : NodeId(i) = NodeId(j) => i = j
  BY LoadedNodes DEF IInv, SchemaTypeOK
<1>2. \A i \in DOMAIN ModelNodes(template) : NodeAsDouble(i) \in Doubles
  BY <1>1, AsDoubleType DEF LInv, ValuesTyped, NodeAsDouble
<1>3. \A i \in DOMAIN ModelNodes(template) :
        (CHOOSE j \in DOMAIN ModelNodes(template) : NodeId(j) = NodeId(i)) = i
  BY <1>1
<1>4. \A i \in DOMAIN ModelNodes(template) : Saved[NodeId(i)] = NodeAsDouble(i)
  BY <1>1, <1>3 DEF Saved
<1>5. \A n \in NodeIds :
        (\A i \in DOMAIN ModelNodes(template) : NodeId(i) # n) => Saved[n] = latest[n]
  BY DEF Saved
<1>6. \A n \in NodeIds : Saved[n] \in Doubles \cup {NoRow}
  BY <1>2, <1>4, <1>5 DEF LInv, ValuesTyped
<1>7. Saved = [n \in NodeIds |-> Saved[n]]
  BY DEF Saved
<1> QED BY <1>4, <1>5, <1>6, <1>7

(* What a persist leaves in latest_values. *)
LEMMA PersistedFacts ==
  ASSUME IInv, LInv, latest' = edge_store_persist_latest_values
  PROVE  /\ latest' \in [NodeIds -> Doubles \cup {NoRow}]
         /\ \A i \in DOMAIN ModelNodes(template) :
              latest'[NodeId(i)] = latest[NodeId(i)] \/ latest'[NodeId(i)] = NodeAsDouble(i)
         /\ \A n \in NodeIds : latest'[n] # latest[n] =>
              \E i \in DOMAIN ModelNodes(template) : NodeId(i) = n
<1>1. latest' = latest \/ latest' = Saved
  BY DEF edge_store_persist_latest_values
<1>2. CASE latest' = latest
  BY <1>2 DEF LInv, ValuesTyped
<1>3. CASE latest' = Saved
  BY <1>3, SavedFacts
<1> QED BY <1>1, <1>2, <1>3

LEMMA PersistsLInv == IInv /\ LInv /\ Persists /\ FlagsTyped' => LInv'
<1> SUFFICES ASSUME IInv, LInv, Persists, FlagsTyped' PROVE LInv'
  OBVIOUS
<1>1. /\ pc = "up" /\ UNCHANGED <<pc, cursor, template, value, known, refused>>
      /\ latest' = edge_store_persist_latest_values
  BY DEF Persists, startVars
<1>2. \A i : NodeId(i)' = NodeId(i) /\ DataType(i)' = DataType(i) /\ NodeAsDouble(i)' = NodeAsDouble(i)
  BY <1>1 DEF NodeId, DataType, NodeAsDouble
<1>3. ValuesTyped'
  BY <1>1, <1>2, PersistedFacts DEF LInv, ValuesTyped
<1>4. MainTyped' /\ Fresh' /\ InTurn' /\ Faithful'
  BY <1>1 DEF MainTyped, Fresh, InTurn, Faithful, Passed, Serving, InStart, Labels
<1>5. Remembered'
  <2> SUFFICES ASSUME NEW i \in DOMAIN ModelNodes(template)
               PROVE  \/ NodeId(i) \in known \cup refused
                      \/ latest'[NodeId(i)] = NoRow
                      \/ latest'[NodeId(i)] = NodeAsDouble(i)
    BY <1>1, <1>2 DEF Remembered
  <2> QED BY <1>1, PersistedFacts DEF LInv, Remembered, Passed, Serving
<1> QED BY <1>3, <1>4, <1>5 DEF LInv

(* The process ends: its values go, the rows stay. *)
LEMMA EndsLInv == IInv /\ LInv /\ (EndStep \/ Reboot) /\ FlagsTyped' => LInv'
<1> SUFFICES ASSUME IInv, LInv, EndStep \/ Reboot, FlagsTyped' PROVE LInv'
  OBVIOUS
<1>1. /\ pc' = "down" /\ UNCHANGED template
      /\ value' = Zeros /\ known' = {} /\ refused' = {}
      /\ UNCHANGED latest \/ latest' = edge_store_persist_latest_values
  BY DEF EndStep, BindFails, Closes, Crash, Reboot, ProcessEnds, Exits, Goto, MemoryLost, Zeros
<1>2. \A i \in DOMAIN ModelNodes(template) : NodeId(i) \in NodeIds /\ DataType(i) \in EdgeDataType
  BY LoadedNodes DEF IInv, SchemaTypeOK
<1>3. \A i : NodeId(i)' = NodeId(i) /\ DataType(i)' = DataType(i)
  BY <1>1 DEF NodeId, DataType
<1>4. ValuesTyped'
  <2>1. latest' \in [NodeIds -> Doubles \cup {NoRow}]
    BY <1>1, PersistedFacts DEF LInv, ValuesTyped
  <2>2. \A i \in DOMAIN ModelNodes(template) : value'[NodeId(i)] \in EdgeValues(DataType(i))
    BY <1>1, <1>2, ZeroIsTyped DEF Zeros
  <2> QED BY <1>1, <1>3, <2>1, <2>2 DEF ValuesTyped, Zeros
<1>5. MainTyped' /\ Fresh' /\ InTurn' /\ Remembered' /\ Faithful'
  BY <1>1 DEF MainTyped, Fresh, InTurn, Remembered, Faithful, Passed, Serving, Labels, Zeros
<1> QED BY <1>4, <1>5 DEF LInv

(* The invariant is inductive. *)
LEMMA NextLInv == IInv /\ LInv /\ [Next]_vars => LInv'
<1> SUFFICES ASSUME IInv, LInv, [Next]_vars PROVE LInv'
  OBVIOUS
<1>1. FlagsTyped'
  BY FlagsStep DEF LInv
<1>2. CASE LateStep
  BY <1>1, <1>2, RestoreRowLInv, RestoreOtherLInv, MovesLInv
     DEF LateStep, edge_store_load_latest_values
<1>3. CASE IdleStep \/ OtherProcess \/ UNCHANGED vars
  BY <1>1, <1>3, SampledLInv, PersistsLInv, FramesLInv DEF IdleStep
<1> QED
  BY <1>1, <1>2, <1>3, LoadsLInv, PreparesLInv, EndsLInv, NextCases

LEMMA AlwaysLInv == Spec => [](IInv /\ LInv)
<1>1. Init => IInv /\ LInv
  BY InitIInv, InitLInv DEF Init
<1>2. IInv /\ LInv /\ [Next]_vars => IInv' /\ LInv'
  BY NextIInv, NextLInv
<1> QED BY <1>1, <1>2, PTL DEF Spec

-----------------------------------------------------------------------------

(* Every variable keeps its type, for every set of templates: whatever an  *)
(* earlier template declared a node to be, edge_node_set_from_double gives *)
(* it a value of the data type it has now.                                 *)
THEOREM LifeAlwaysTyped == Spec => []LifeTypeOK
<1>1. IInv /\ LInv => LifeTypeOK
  BY DEF IInv, LInv, LifeTypeOK, MainTyped, FlagsTyped, ClocksTyped, BooleansTyped, ValuesTyped
<1> QED BY AlwaysLInv, <1>1, PTL

(* A restore that met the node's row gave the node exactly that value, if  *)
(* its data type can hold it.                                              *)
THEOREM RestoredAlwaysStored == Spec => []RestoredIsStored
<1>1. LInv => RestoredIsStored
  BY DEF LInv, Faithful, RestoredIsStored
<1> QED BY AlwaysLInv, <1>1, PTL

(* No way out of main() replaces a stored value by the zero of a node that *)
(* was neither restored nor sampled, unless a lock refused its SELECT.     *)
THEOREM NeverForgotten == Spec => NoForgetting
<1> DEFINE Rule == \A n \in NodeIds : latest[n] # NoRow /\ latest'[n] # latest[n] =>
                     n \in known \cup refused
<1>1. ASSUME IInv, LInv, [Next]_vars PROVE Rule
  <2> SUFFICES ASSUME NEW n \in NodeIds, latest[n] # NoRow, latest'[n] # latest[n]
               PROVE  n \in known \cup refused
    OBVIOUS
  <2>1. pc \in Serving /\ latest' = edge_store_persist_latest_values
    <3>1. Loads \/ PreparesDatabase \/ Reboot \/ OtherProcess \/ UNCHANGED vars => UNCHANGED latest
      BY DEF Loads, PreparesDatabase, Reboot, OtherProcess, vars, lifeVars
    <3>2. LateStep => UNCHANGED latest
      BY DEF LateStep, edge_store_load_latest_values, RestoreRow, RestoreNone, RestoreRefused,
             RestoreDone, Binds, ServerStarts, ServerStartFails, ServerStops, lifeVars
    <3>3. IdleStep => UNCHANGED latest \/ Persists
      BY DEF IdleStep, Sampled, EventRecorded, handle_signal, ClockAdvances, Calms, lifeVars
    <3>4. EndStep => UNCHANGED latest \/ Closes
      BY DEF EndStep, BindFails, Crash
    <3> QED BY <1>1, <3>1, <3>2, <3>3, <3>4, NextCases DEF Persists, Closes, Serving
  <2>2. PICK i \in DOMAIN ModelNodes(template) : NodeId(i) = n
    BY <1>1, <2>1, PersistedFacts
  <2>3. latest'[n] = NodeAsDouble(i)
    BY <1>1, <2>1, <2>2, PersistedFacts
  <2> QED BY <1>1, <2>1, <2>2, <2>3 DEF LInv, Remembered, Passed
<1>2. IInv /\ LInv /\ [Next]_vars => [Rule]_vars
  BY <1>1
<1> QED BY AlwaysLInv, <1>2, PTL DEF Spec, NoForgetting
=============================================================================
