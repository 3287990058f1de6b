------------------------- MODULE EdgeHistoryProofs -------------------------
(***************************************************************************)
(* Theorems about what the running gateway leaves in the database: the     *)
(* snapshot in latest_values, the history of events and the transaction    *)
(* around them, for every template, schedule of locks and crashes.         *)
(*                                                                         *)
(* The argument: the tables agree unless a transaction is open, and one is *)
(* open only inside the row loop or after a refused COMMIT (TablesAgree);  *)
(* inside the loop the rows before the cursor hold the present values      *)
(* (RowsSoFar); an event whose latch is clear has neither rows nor         *)
(* notifications (Activation, Once); the latches before the cursor of an   *)
(* evaluation follow their conditions (EvaluatedSoFar); and every stored   *)
(* double is the image of a value of its node's type (StoredAreImages).    *)
(***************************************************************************)
EXTENDS EdgeRuntimeProofs

RowLoop == {"rows", "finalrows"}

TablesAgree ==
  /\ pc \in RowLoop => txOpen /\ txRows = dbRows
  /\ ~txOpen => txLatest = dbLatest /\ txRows = dbRows
  /\ pc = "down" => ~txOpen

RowsSoFar ==
  pc \in RowLoop => \A i \in 1 .. cursor - 1 : txLatest[i] = NodeAsDouble(i)

Activation ==
  pc # "down" => \A e \in Events :
    /\ notes[e] <= txRows[e]
    /\ ~active[e] => txRows[e] = 0 /\ dbRows[e] = 0

Once == \A e \in Events : txRows[e] <= 1 /\ dbRows[e] <= 1 /\ notes[e] <= 1

EvaluatedSoFar ==
  pc = "events" =>
    /\ \A e \in 1 .. cursor - 1 : active[e] = event_condition_met(e)
    /\ cursor > 1 => checked = cursor - 1

Image(i, d) == \E v \in EdgeValues(DataType[i]) : d = edge_node_as_double(DataType[i], v)

StoredAreImages ==
  \A i \in Nodes : /\ dbLatest[i] # NoRow => Image(i, dbLatest[i])
                   /\ txLatest[i] # NoRow => Image(i, txLatest[i])

-----------------------------------------------------------------------------
(* Steps, by what they do to the tables and the events. *)

Quiet == {"idle", "drain", "poll", "scan", "final"}

(* A step that leaves tables and events alone: either main() stays where   *)
(* it is, with all its values, or it goes about its business elsewhere and *)
(* perhaps enters an evaluation.                                           *)
Elsewhere ==
  /\ UNCHANGED <<tableVars, eventVars>>
  /\ \/ UNCHANGED <<pc, cursor, value>>
     \/ /\ pc \in Quiet
        /\ pc' \in Quiet \/ (pc' = "events" /\ cursor' = 1)

LEMMA PollMoves ==
  ASSUME edge_modbus_poll("events")
  PROVE  pc \in Quiet /\ (pc' \in Quiet \/ (pc' = "events" /\ cursor' = 1))
  BY DEF edge_modbus_poll, PollDisabled, PollConnects, PollNoConnection, PollEnters, ScanSkips,
         ScanUnitRefused, ScanRequests, ScanReads, ScanFails, ScanDone, AtNode, PastNodes, Goto,
         Advance, controlVars, Quiet

LEMMA StoreCases ==
  ASSUME [Next]_vars
  PROVE  \/ Elsewhere \/ Persists \/ FinalPersists \/ EvaluatesEvents
         \/ Closes \/ Crash \/ Starts
<1>1. ClientWrites \/ TickBegins \/ ServerStops => Elsewhere
  BY DEF ClientWrites, write_edge_node, TickBegins, ServerStops, Goto, Elsewhere, Quiet,
         controlVars, storeVars
<1>2. drain_pending_writes => Elsewhere
  BY DEF drain_pending_writes, DrainSkips, DrainConnects, DrainWrites, DrainDone, AtNode,
         PastNodes, Goto, Advance, Elsewhere, Quiet, controlVars, storeVars
<1>3. Polls => Elsewhere
  BY PollMoves DEF Polls, Elsewhere, storeVars
<1>4. handle_signal \/ OutsideModbus \/ OutsideStore \/ UNCHANGED vars => Elsewhere
  BY DEF handle_signal, OutsideModbus, PlantChange, LinkChange, Elapse, OutsideStore,
         OtherProcess, vars, controlVars, storeVars, Elsewhere
<1> QED
  BY <1>1, <1>2, <1>3, <1>4 DEF Next, ServerStep, edge_runtime_tick

(* A call of edge_store_persist_latest_values, by the tick or at the end.  *)
PersistStep(entry, rows, ret) ==
  /\ edge_store_persist_latest_values(entry, rows, ret)
  /\ UNCHANGED eventVars
  /\ entry \in {"persist", "final"} /\ rows \in RowLoop /\ ret \in {"idle", "closing"}

LEMMA PersistCases ==
  ASSUME Persists \/ FinalPersists
  PROVE  \E entry, rows, ret : PersistStep(entry, rows, ret)
<1>1. CASE Persists
  BY <1>1 DEF Persists, PersistStep, RowLoop
<1>2. CASE FinalPersists
  BY <1>2 DEF FinalPersists, PersistStep, RowLoop
<1> QED BY <1>1, <1>2

-----------------------------------------------------------------------------
(* The transaction. *)

LEMMA AgreeInit == Init => TablesAgree
  BY DEF Init, StoreInit, TablesAgree, RowLoop

LEMMA AgreePersist ==
  ASSUME TablesAgree, NEW entry, NEW rows, NEW ret, PersistStep(entry, rows, ret)
  PROVE  TablesAgree'
<1>1. rows \in RowLoop /\ entry \notin RowLoop /\ ret \notin RowLoop /\ ret # "down"
  BY DEF PersistStep, RowLoop
<1>2. CASE PersistRefused(entry, ret) \/ PersistCommitBusy(rows, ret)
  BY <1>1, <1>2 DEF PersistRefused, PersistCommitBusy, PastNodes, Goto, storeVars, tableVars,
                    TablesAgree
<1>3. CASE PersistBegins(entry, rows)
  BY <1>1, <1>3 DEF PersistBegins, Goto, TablesAgree, RowLoop
<1>4. CASE PersistRow(rows)
  BY <1>1, <1>4 DEF PersistRow, AtNode, Advance, TablesAgree, RowLoop
<1>5. CASE PersistRowFails(rows, ret)
  BY <1>1, <1>5 DEF PersistRowFails, Rollback, Goto, TablesAgree
<1>6. CASE PersistCommits(rows, ret)
  BY <1>1, <1>6 DEF PersistCommits, Commit, Goto, TablesAgree
<1> QED
  BY <1>2, <1>3, <1>4, <1>5, <1>6 DEF PersistStep, edge_store_persist_latest_values

LEMMA AgreeEvaluate ==
  ASSUME TablesAgree, EvaluatesEvents
  PROVE  TablesAgree'
<1>1. pc = "events" /\ pc' \in {"events", "persist", "idle"}
  BY DEF EvaluatesEvents, edge_events_evaluate, EventInsertFails, EventEmitFails, EventFires,
         EventHolds, EventClears, EventsDone, AtEvent, Goto, Advance, AfterEvents
<1>2. UNCHANGED <<txOpen, txLatest, dbLatest>>
  BY DEF EvaluatesEvents, edge_events_evaluate, EventInsertFails, EventEmitFails, EventFires,
         EventHolds, EventClears, EventsDone, edge_store_insert_event_history, storeVars, tableVars
<1>3. ~txOpen => txRows' = dbRows'
  <2> SUFFICES ASSUME ~txOpen, txRows = dbRows PROVE txRows' = dbRows'
    BY DEF TablesAgree
  <2> QED
    BY DEF EvaluatesEvents, edge_events_evaluate, EventInsertFails, EventEmitFails, EventFires,
           EventHolds, EventClears, EventsDone, edge_store_insert_event_history, storeVars, tableVars
<1> QED BY <1>1, <1>2, <1>3 DEF TablesAgree, RowLoop

LEMMA AgreeNext == TablesAgree /\ [Next]_vars => TablesAgree'
<1> SUFFICES ASSUME TablesAgree, [Next]_vars PROVE TablesAgree'
  OBVIOUS
<1>1. CASE Elsewhere
  BY <1>1 DEF Elsewhere, Quiet, tableVars, TablesAgree, RowLoop
<1>2. CASE Persists \/ FinalPersists
  BY <1>2, PersistCases, AgreePersist
<1>3. CASE Closes \/ Crash
  BY <1>3 DEF Closes, Crash, ProcessEnds, Rollback, Goto, TablesAgree, RowLoop
<1>4. CASE Starts
  BY <1>4 DEF Starts, Goto, TablesAgree, RowLoop
<1> QED
  BY <1>1, <1>2, <1>3, <1>4, AgreeEvaluate, StoreCases

(* A transaction is left open only by a refused COMMIT. *)
THEOREM TransactionAlwaysClosed == Spec => TransactionClosed
<1> DEFINE Rule == ~LeftOpen /\ LeftOpen' =>
                     dbLock # "free" /\ (PastNodes("rows") \/ PastNodes("finalrows"))
<1>1. ASSUME TablesAgree, [Next]_vars PROVE Rule
  <2>1. CASE Elsewhere
    BY <2>1 DEF Elsewhere, Quiet, tableVars, LeftOpen
  <2>2. CASE Persists
    BY <2>2 DEF Persists, edge_store_persist_latest_values, PersistRefused, PersistBegins,
                PersistRow, PersistRowFails, PersistCommits, PersistCommitBusy, AtNode, PastNodes,
                Goto, Advance, Commit, Rollback, storeVars, tableVars, LeftOpen
  <2>3. CASE FinalPersists
    BY <2>3 DEF FinalPersists, edge_store_persist_latest_values, PersistRefused, PersistBegins,
                PersistRow, PersistRowFails, PersistCommits, PersistCommitBusy, AtNode, PastNodes,
                Goto, Advance, Commit, Rollback, storeVars, tableVars, LeftOpen
  <2>4. CASE EvaluatesEvents
    BY <2>4 DEF EvaluatesEvents, edge_events_evaluate, EventInsertFails, EventEmitFails,
                EventFires, EventHolds, EventClears, EventsDone, AtEvent,
                edge_store_insert_event_history, storeVars, tableVars, LeftOpen
  <2>5. CASE Closes \/ Crash \/ Starts
    BY <1>1, <2>5 DEF Closes, Crash, ProcessEnds, Rollback, Starts, TablesAgree, LeftOpen
  <2> QED BY <1>1, <2>1, <2>2, <2>3, <2>4, <2>5, StoreCases
<1>2. TablesAgree /\ [Next]_vars => [Rule]_vars
  BY <1>1
<1> QED BY AgreeInit, AgreeNext, <1>2, PTL DEF Spec, TransactionClosed

-----------------------------------------------------------------------------
(* The snapshot. *)

LEMMA RowsSoFarNext == TypeOK /\ RowsSoFar /\ [Next]_vars => RowsSoFar'
<1> SUFFICES ASSUME TypeOK, RowsSoFar, [Next]_vars PROVE RowsSoFar'
  OBVIOUS
<1>0. UNCHANGED value => \A i : NodeAsDouble(i)' = NodeAsDouble(i)
  BY DEF NodeAsDouble
<1>1. CASE Elsewhere
  BY <1>0, <1>1 DEF Elsewhere, Quiet, tableVars, RowsSoFar, RowLoop
<1>2. ASSUME NEW entry, NEW rows, NEW ret, PersistStep(entry, rows, ret) PROVE RowsSoFar'
  <2>1. rows \in RowLoop /\ entry \notin RowLoop /\ ret \notin RowLoop
    BY <1>2 DEF PersistStep, RowLoop
  <2>2. CASE PersistRow(rows)
    <3>1. /\ pc \in RowLoop /\ cursor \in Nodes /\ cursor \in Nat /\ cursor' = cursor + 1
          /\ UNCHANGED value
          /\ txLatest' = [txLatest EXCEPT ![cursor] = NodeAsDouble(cursor)]
      BY <2>1, <2>2 DEF PersistRow, AtNode, RowUpserted, Advance, TypeOK, ControlTypeOK
    <3>2. DOMAIN txLatest = Nodes
      BY DEF TypeOK, StoreTypeOK
    <3>3. ASSUME NEW i \in 1 .. cursor' - 1 PROVE txLatest'[i] = NodeAsDouble(i)
      <4>1. i \in Nodes
        BY <3>1, ModelAssumption DEF Nodes
      <4>2. CASE i = cursor
        BY <3>1, <3>2, <4>2
      <4>3. CASE i # cursor
        <5>1. i \in 1 .. cursor - 1
          BY <3>1, <4>3
        <5> QED BY <3>1, <3>2, <4>1, <4>3, <5>1 DEF RowsSoFar
      <4> QED BY <4>2, <4>3
    <3> QED BY <1>0, <3>1, <3>3 DEF RowsSoFar
  <2>3. CASE PersistBegins(entry, rows)
    BY <2>3 DEF PersistBegins, Goto, RowsSoFar
  <2>4. CASE \/ PersistRefused(entry, ret) \/ PersistRowFails(rows, ret)
             \/ PersistCommits(rows, ret) \/ PersistCommitBusy(rows, ret)
    BY <2>1, <2>4 DEF PersistRefused, PersistRowFails, PersistCommits, PersistCommitBusy, Goto,
                      RowsSoFar
  <2> QED
    BY <1>2, <2>2, <2>3, <2>4 DEF PersistStep, edge_store_persist_latest_values
<1>3. CASE EvaluatesEvents \/ Closes \/ Crash \/ Starts
  <2>1. pc' \in {"events", "persist", "idle", "down"}
    BY <1>3 DEF EvaluatesEvents, edge_events_evaluate, EventInsertFails, EventEmitFails,
                EventFires, EventHolds, EventClears, EventsDone, AtEvent, Goto, Advance,
                AfterEvents, Closes, Crash, ProcessEnds, Starts
  <2> QED BY <2>1 DEF RowsSoFar, RowLoop
<1> QED BY <1>1, <1>2, <1>3, PersistCases, StoreCases

(* Only a COMMIT at the end of the row loop changes latest_values. *)
LEMMA OnlyCommitChangesLatest ==
  ASSUME [Next]_vars, dbLatest' # dbLatest
  PROVE  \E rows \in RowLoop : \E ret : PersistCommits(rows, ret)
<1>1. Elsewhere \/ Closes \/ Crash \/ Starts => UNCHANGED dbLatest
  BY DEF Elsewhere, tableVars, Closes, Crash, ProcessEnds, Rollback, Starts
<1>2. EvaluatesEvents => UNCHANGED dbLatest
  BY DEF EvaluatesEvents, edge_events_evaluate, EventInsertFails, EventEmitFails, EventFires,
         EventHolds, EventClears, EventsDone, edge_store_insert_event_history, storeVars, tableVars
<1>3. ASSUME NEW entry, NEW rows, NEW ret, PersistStep(entry, rows, ret)
      PROVE  rows \in RowLoop /\ PersistCommits(rows, ret)
  BY <1>3 DEF PersistStep, edge_store_persist_latest_values, PersistRefused, PersistBegins,
              PersistRow, RowUpserted, PersistRowFails, Rollback, PersistCommitBusy, storeVars,
              tableVars
<1> QED BY <1>1, <1>2, <1>3, PersistCases, StoreCases

LEMMA RowsSoFarAlways == Spec => [](TypeOK /\ RowsSoFar)
<1>1. Init => RowsSoFar
  BY DEF Init, RowsSoFar, RowLoop
<1> QED BY <1>1, RowsSoFarNext, TypeCorrect, PTL DEF Spec

(* latest_values is committed as one snapshot of all nodes, for every      *)
(* number of nodes and whatever is written or polled between two saves.    *)
THEOREM SnapshotAlwaysAtomic == Spec => SnapshotAtomic
<1> DEFINE Rule == dbLatest' # dbLatest => \A i \in Nodes : dbLatest'[i] = NodeAsDouble(i)
<1>1. ASSUME TypeOK, RowsSoFar, [Next]_vars PROVE Rule
  <2> SUFFICES ASSUME dbLatest' # dbLatest, NEW i \in Nodes
               PROVE  dbLatest'[i] = NodeAsDouble(i)
    OBVIOUS
  <2>1. PICK rows \in RowLoop : \E ret : PersistCommits(rows, ret)
    BY <1>1, OnlyCommitChangesLatest
  <2>2. pc \in RowLoop /\ cursor = NodeCount + 1 /\ dbLatest' = txLatest
    BY <2>1 DEF PersistCommits, PastNodes, Commit
  <2>3. i \in 1 .. cursor - 1
    BY <2>2, ModelAssumption DEF Nodes
  <2> QED BY <1>1, <2>2, <2>3 DEF RowsSoFar
<1>2. TypeOK /\ RowsSoFar /\ [Next]_vars => [Rule]_vars
  BY <1>1
<1> QED BY RowsSoFarAlways, <1>2, PTL DEF Spec, SnapshotAtomic

(* The end of the last persist is its COMMIT, with the values of all nodes *)
(* in it, or a lock, a NaN or a transaction left open has stopped it.      *)
THEOREM LastValuesAlwaysStored == Spec => LastValuesStored
<1> DEFINE Rule == pc # "closing" /\ pc' = "closing" =>
                     \/ \A i \in Nodes : dbLatest'[i] = NodeAsDouble(i)
                     \/ dbLock # "free" \/ LeftOpen
                     \/ \E i \in Nodes : NodeAsDouble(i) = NaN
<1>1. ASSUME TypeOK, RowsSoFar, [Next]_vars PROVE Rule
  <2> SUFFICES ASSUME pc # "closing", pc' = "closing", dbLock = "free", ~LeftOpen,
                      \A i \in Nodes : NodeAsDouble(i) # NaN
               PROVE  \A i \in Nodes : dbLatest'[i] = NodeAsDouble(i)
    OBVIOUS
  <2>1. ~Elsewhere /\ ~EvaluatesEvents /\ ~Closes /\ ~Crash /\ ~Starts
    BY DEF Elsewhere, Quiet, EvaluatesEvents, edge_events_evaluate, EventInsertFails,
           EventEmitFails, EventFires, EventHolds, EventClears, EventsDone, AtEvent, Goto,
           Advance, AfterEvents, Closes, Crash, ProcessEnds, Starts
  <2>2. PICK entry, rows, ret : PersistStep(entry, rows, ret)
    BY <1>1, <2>1, PersistCases, StoreCases
  <2>3. entry \notin RowLoop /\ rows \in RowLoop /\ rows # "closing"
    BY <2>2 DEF PersistStep, RowLoop
  <2>4. ~PersistRefused(entry, ret) /\ ~PersistBegins(entry, rows)
    BY <2>3 DEF PersistRefused, PersistBegins, LeftOpen, RowLoop, Goto
  <2>5. ~PersistRow(rows) /\ ~PersistRowFails(rows, ret) /\ ~PersistCommitBusy(rows, ret)
    BY <2>3 DEF PersistRow, PersistRowFails, PersistCommitBusy, AtNode, Advance
  <2>6. PersistCommits(rows, ret)
    BY <2>2, <2>4, <2>5 DEF PersistStep, edge_store_persist_latest_values
  <2>7. pc \in RowLoop /\ cursor = NodeCount + 1 /\ dbLatest' = txLatest
    BY <2>3, <2>6 DEF PersistCommits, PastNodes, Commit
  <2>8. Nodes = 1 .. cursor - 1
    BY <2>7, ModelAssumption DEF Nodes
  <2> QED BY <1>1, <2>7, <2>8 DEF RowsSoFar
<1>2. TypeOK /\ RowsSoFar /\ [Next]_vars => [Rule]_vars
  BY <1>1
<1> QED BY RowsSoFarAlways, <1>2, PTL DEF Spec, LastValuesStored

-----------------------------------------------------------------------------
(* The restore. *)

LEMMA ImagesNext == TypeOK /\ StoredAreImages /\ [Next]_vars => StoredAreImages'
<1> SUFFICES ASSUME TypeOK, StoredAreImages, [Next]_vars PROVE StoredAreImages'
  OBVIOUS
<1>1. CASE Elsewhere \/ EvaluatesEvents \/ Starts
  <2>1. UNCHANGED <<dbLatest, txLatest>>
    BY <1>1 DEF Elsewhere, EvaluatesEvents, edge_events_evaluate, EventInsertFails,
       EventEmitFails, EventFires, EventHolds, EventClears, EventsDone, Starts,
       edge_store_insert_event_history, storeVars, tableVars
  <2> QED BY <2>1 DEF StoredAreImages, Image
<1>2. CASE Closes \/ Crash
  BY <1>2 DEF Closes, Crash, ProcessEnds, Rollback, StoredAreImages, Image
<1>3. ASSUME NEW entry, NEW rows, NEW ret, PersistStep(entry, rows, ret) PROVE StoredAreImages'
  <2>1. CASE PersistRow(rows)
    <3>1. cursor \in Nodes /\ Image(cursor, NodeAsDouble(cursor))
      BY <2>1 DEF PersistRow, AtNode, Image, NodeAsDouble, TypeOK, NodeValues
    <3>2. DOMAIN txLatest = Nodes
      BY DEF TypeOK, StoreTypeOK
    <3>3. UNCHANGED dbLatest /\ txLatest' = [txLatest EXCEPT ![cursor] = NodeAsDouble(cursor)]
      BY <2>1 DEF PersistRow, RowUpserted
    <3>4. ASSUME NEW i \in Nodes, txLatest'[i] # NoRow PROVE Image(i, txLatest'[i])
      BY <3>1, <3>2, <3>3, <3>4 DEF StoredAreImages
    <3> HIDE DEF Image
    <3>5. \A i \in Nodes : dbLatest'[i] # NoRow => Image(i, dbLatest'[i])
      BY <3>3 DEF StoredAreImages
    <3> QED BY <3>4, <3>5 DEF StoredAreImages, Image
  <2>2. CASE PersistCommits(rows, ret) \/ PersistRowFails(rows, ret)
    BY <2>2 DEF PersistCommits, Commit, PersistRowFails, Rollback, StoredAreImages, Image
  <2>3. CASE \/ PersistRefused(entry, ret) \/ PersistBegins(entry, rows)
             \/ PersistCommitBusy(rows, ret)
    BY <2>3 DEF PersistRefused, PersistBegins, PersistCommitBusy, storeVars, tableVars,
                StoredAreImages, Image
  <2> QED
    BY <1>3, <2>1, <2>2, <2>3 DEF PersistStep, edge_store_persist_latest_values
<1> QED BY <1>1, <1>2, <1>3, PersistCases, StoreCases

(* A start undoes exactly what the last committed save did to the values,  *)
(* for every data type and register width, in every node whose SELECT was  *)
(* not refused.                                                            *)
THEOREM SnapshotAlwaysRestored == Spec => RestoresSnapshot
<1> DEFINE Kept(i) == \/ edge_node_as_double(DataType[i], value'[i]) = dbLatest[i]
                      \/ SelectMayFail /\ value'[i] = 0
           Rule == pc = "down" /\ pc' = "idle" =>
                     \A i \in Nodes : dbLatest[i] # NoRow => Kept(i)
<1>1. Init => StoredAreImages
  BY DEF Init, StoreInit, StoredAreImages
<1>2. ASSUME StoredAreImages, [Next]_vars PROVE Rule
  <2> SUFFICES ASSUME pc = "down", pc' = "idle", NEW i \in Nodes, dbLatest[i] # NoRow
               PROVE  Kept(i)
    OBVIOUS
  <2>1. Starts
    <3>1. ~Persists /\ ~FinalPersists /\ ~EvaluatesEvents /\ ~Closes /\ ~Crash
      BY DEF Persists, FinalPersists, edge_store_persist_latest_values, PersistRefused,
             PersistBegins, PersistRow, PersistRowFails, PersistCommits, PersistCommitBusy,
             AtNode, PastNodes, EvaluatesEvents, edge_events_evaluate, EventInsertFails,
             EventEmitFails, EventFires, EventHolds, EventClears, EventsDone, AtEvent, Closes, Crash
    <3>2. ~Elsewhere
      BY DEF Elsewhere, Quiet
    <3> QED BY <1>2, <3>1, <3>2, StoreCases
  <2>2. \/ value'[i] \in edge_node_set_from_double(DataType[i], dbLatest[i])
        \/ SelectMayFail /\ value'[i] = 0
    BY <2>1 DEF Starts, RestoredValues, ReadRow
  <2>3. PICK v \in EdgeValues(DataType[i]) : dbLatest[i] = edge_node_as_double(DataType[i], v)
    BY <1>2 DEF StoredAreImages, Image
  <2>4. DataType[i] \in EdgeDataType
    BY ModelAssumption
  <2>5. value'[i] = v \/ (SelectMayFail /\ value'[i] = 0)
    BY <2>2, <2>3, <2>4, RestoreInverse
  <2> QED BY <2>3, <2>5
<1>3. StoredAreImages /\ [Next]_vars => [Rule]_vars
  BY <1>2
<1> QED BY <1>1, <1>3, ImagesNext, TypeCorrect, PTL DEF Spec, RestoresSnapshot

-----------------------------------------------------------------------------
(* The history of events. *)

HistoryInv == TypeOK /\ TablesAgree /\ Activation /\ Once

LEMMA HistoryInit == Init => HistoryInv
<1> SUFFICES ASSUME Init PROVE HistoryInv
  OBVIOUS
<1>1. Activation /\ Once
  BY DEF Init, StoreInit, EventsInit, Activation, Once
<1> QED BY <1>1, TypeOKInit, AgreeInit DEF HistoryInv

(* A row for an event whose latch was clear is its only one. *)
LEMMA CountedOnce ==
  ASSUME NEW c \in [Events -> 0 .. RowCap], NEW e \in Events, c[e] = 0
  PROVE  /\ Counted(c, e)[e] = 1
         /\ \A f \in Events : f # e => Counted(c, e)[f] = c[f]
  BY StoreAssumption DEF Counted

LEMMA HistoryEvaluate ==
  ASSUME HistoryInv, EvaluatesEvents
  PROVE  Activation' /\ Once'
<1>1. /\ txRows \in [Events -> 0 .. RowCap] /\ dbRows \in [Events -> 0 .. RowCap]
      /\ notes \in [Events -> 0 .. RowCap] /\ DOMAIN active = Events
  BY DEF HistoryInv, TypeOK, StoreTypeOK, EventsTypeOK
<1>2. pc = "events" /\ pc' # "down"
  BY DEF EvaluatesEvents, edge_events_evaluate, EventInsertFails, EventEmitFails, EventFires,
         EventHolds, EventClears, EventsDone, AtEvent, Goto, Advance, AfterEvents
<1>3. ASSUME AtEvent, Rises(cursor)
      PROVE  cursor \in Events /\ notes[cursor] = 0 /\ txRows[cursor] = 0 /\ dbRows[cursor] = 0
  <2>1. cursor \in Events /\ ~active[cursor]
    BY <1>3 DEF AtEvent, Rises
  <2>2. txRows[cursor] = 0 /\ dbRows[cursor] = 0 /\ notes[cursor] <= 0
    BY <1>2, <2>1 DEF HistoryInv, Activation
  <2>3. notes[cursor] \in Nat
    BY <1>1, <2>1, StoreAssumption
  <2> QED BY <2>1, <2>2, <2>3
<1>4. CASE EventInsertFails(AfterEvents) \/ EventHolds \/ EventsDone(AfterEvents)
  <2>1. UNCHANGED <<notes, txRows, dbRows>> /\ \A e \in Events : active[e] => active'[e]
    BY <1>1, <1>4 DEF EventInsertFails, Latch, EventHolds, EventsDone, storeVars, tableVars, eventVars
  <2> QED BY <1>2, <2>1 DEF HistoryInv, Activation, Once
<1>5. CASE EventEmitFails(AfterEvents) \/ EventFires
  <2>1. AtEvent /\ Rises(cursor) /\ edge_store_insert_event_history(cursor) /\ Latch(cursor)
    BY <1>5 DEF EventEmitFails, EventFires
  <2>2. notes' = notes \/ notes' = Counted(notes, cursor)
    BY <1>5 DEF EventEmitFails, EventFires, emit_opcua_event
  <2>3. txRows' = Counted(txRows, cursor) /\ (dbRows' = dbRows \/ dbRows' = Counted(dbRows, cursor))
    BY <2>1 DEF edge_store_insert_event_history
  <2>4. /\ txRows'[cursor] = 1
        /\ dbRows'[cursor] = 0 \/ dbRows'[cursor] = 1
        /\ notes'[cursor] = 0 \/ notes'[cursor] = 1
        /\ active'[cursor]
    BY <1>1, <1>3, <2>1, <2>2, <2>3, CountedOnce DEF Latch
  <2>5. \A f \in Events : f # cursor =>
          /\ txRows'[f] = txRows[f] /\ dbRows'[f] = dbRows[f]
          /\ notes'[f] = notes[f] /\ active'[f] = active[f]
    BY <1>1, <1>3, <2>1, <2>2, <2>3, CountedOnce DEF Latch
  <2> QED BY <1>2, <2>4, <2>5 DEF HistoryInv, Activation, Once
<1>6. CASE EventClears
  <2>1. cursor \in Events
    BY <1>6 DEF EventClears, AtEvent
  <2>2. txRows'[cursor] = 0 /\ dbRows'[cursor] = 0 /\ notes'[cursor] = 0
    BY <1>1, <1>6, <2>1 DEF EventClears
  <2>3. \A f \in Events : f # cursor =>
          /\ txRows'[f] = txRows[f] /\ dbRows'[f] = dbRows[f]
          /\ notes'[f] = notes[f] /\ active'[f] = active[f]
    BY <1>1, <1>6, <2>1 DEF EventClears
  <2> QED BY <1>2, <2>2, <2>3 DEF HistoryInv, Activation, Once
<1> QED
  BY <1>4, <1>5, <1>6 DEF EvaluatesEvents, edge_events_evaluate

LEMMA HistoryPersist ==
  ASSUME HistoryInv, NEW entry, NEW rows, NEW ret, PersistStep(entry, rows, ret)
  PROVE  Activation' /\ Once'
<1>1. pc # "down" /\ UNCHANGED <<active, notes>>
  BY DEF PersistStep, edge_store_persist_latest_values, PersistRefused, PersistBegins, PersistRow,
         PersistRowFails, PersistCommits, PersistCommitBusy, AtNode, PastNodes, RowLoop, eventVars
<1>2. UNCHANGED <<txRows, dbRows>>
  <2>1. PersistRowFails(rows, ret) \/ PersistCommits(rows, ret) => txRows = dbRows
    BY DEF PersistStep, PersistRowFails, PersistCommits, AtNode, PastNodes, HistoryInv, TablesAgree
  <2> QED
    BY <2>1 DEF PersistStep, edge_store_persist_latest_values, PersistRefused, PersistBegins,
           PersistRow, PersistRowFails, Rollback, PersistCommits, Commit, PersistCommitBusy,
           storeVars, tableVars
<1> QED BY <1>1, <1>2 DEF HistoryInv, Activation, Once

LEMMA HistoryNext == HistoryInv /\ [Next]_vars => HistoryInv'
<1> SUFFICES ASSUME HistoryInv, [Next]_vars PROVE Activation' /\ Once'
  BY TypeOKNext, AgreeNext DEF HistoryInv
<1>1. CASE Elsewhere
  BY <1>1 DEF Elsewhere, Quiet, tableVars, eventVars, HistoryInv, Activation, Once
<1>2. CASE Closes \/ Crash
  BY <1>2 DEF Closes, Crash, ProcessEnds, Rollback, Goto, eventVars, HistoryInv, Activation, Once
<1>3. CASE Starts
  BY <1>3 DEF Starts, Activation, Once
<1> QED
  BY <1>1, <1>2, <1>3, HistoryEvaluate, HistoryPersist, PersistCases, StoreCases

LEMMA HistoryAlways == Spec => []HistoryInv
  BY HistoryInit, HistoryNext, PTL DEF Spec

(* No notification goes out without its row, for every number of events.   *)
THEOREM NotifiedAlwaysHasHistory == Spec => []NotifiedHasHistory
<1>1. HistoryInv => NotifiedHasHistory
  BY DEF HistoryInv, Activation, NotifiedHasHistory
<1> QED BY HistoryAlways, <1>1, PTL

(* An activation is recorded and notified once, however often it is        *)
(* evaluated and whichever of its steps fail.                              *)
THEOREM AlwaysOneRow == Spec => []OneRowPerActivation
<1>1. HistoryInv => OneRowPerActivation
  BY DEF HistoryInv, Once, OneRowPerActivation
<1> QED BY HistoryAlways, <1>1, PTL

(* A row whose notification went out is committed with it, unless an       *)
(* earlier COMMIT was refused: no crash takes it back.                     *)
THEOREM NotifiedAlwaysDurable == Spec => NotifiedIsDurable
<1> DEFINE Rule == pc # "down" /\ ~LeftOpen => \A e \in Events : notes'[e] <= dbRows'[e]
<1>1. ASSUME HistoryInv, HistoryInv', [Next]_vars PROVE Rule
  <2> SUFFICES ASSUME pc # "down", ~LeftOpen PROVE \A e \in Events : notes'[e] <= dbRows'[e]
    OBVIOUS
  <2>1. txRows = dbRows
    BY <1>1 DEF HistoryInv, TablesAgree, LeftOpen, RowLoop
  <2>2. CASE Elsewhere \/ Persists \/ FinalPersists
    <3>1. UNCHANGED notes /\ (dbRows' = dbRows \/ dbRows' = txRows)
      <4>1. ASSUME NEW entry, NEW rows, NEW ret, PersistStep(entry, rows, ret)
            PROVE  UNCHANGED notes /\ (dbRows' = dbRows \/ dbRows' = txRows)
        BY <4>1 DEF PersistStep, edge_store_persist_latest_values, PersistRefused, PersistBegins,
                    PersistRow, PersistRowFails, Rollback, PersistCommits, Commit,
                    PersistCommitBusy, storeVars, tableVars, eventVars
      <4> QED BY <2>2, <4>1, PersistCases DEF Elsewhere, tableVars, eventVars
    <3> QED BY <1>1, <2>1, <3>1 DEF HistoryInv, Activation
  <2>3. CASE EvaluatesEvents
    <3>1. pc = "events" /\ ~txOpen
      BY <2>3 DEF EvaluatesEvents, edge_events_evaluate, EventInsertFails, EventEmitFails,
                  EventFires, EventHolds, EventClears, EventsDone, AtEvent, LeftOpen
    <3>2. pc' # "down" /\ UNCHANGED txOpen
      BY <2>3, <3>1 DEF EvaluatesEvents, edge_events_evaluate, EventInsertFails, EventEmitFails,
                  EventFires, EventHolds, EventClears, EventsDone, AtEvent, Goto, Advance,
                  AfterEvents, edge_store_insert_event_history, storeVars, tableVars
    <3> QED BY <1>1, <3>1, <3>2 DEF HistoryInv, TablesAgree, Activation
  <2>4. CASE Closes \/ Crash
    BY <1>1, <2>1, <2>4 DEF Closes, Crash, ProcessEnds, Rollback, eventVars, HistoryInv, Activation
  <2> QED BY <1>1, <2>2, <2>3, <2>4, StoreCases DEF Starts
<1>2. HistoryInv /\ HistoryInv' /\ [Next]_vars => [Rule]_vars
  BY <1>1
<1> QED BY HistoryAlways, <1>2, PTL DEF Spec, NotifiedIsDurable

-----------------------------------------------------------------------------
(* The latches. *)

LatchInv == TypeOK /\ EvaluatedSoFar /\ LatchFollowsCondition

LEMMA ConditionIsBoolean == \A e \in Events : event_condition_met(e) \in BOOLEAN
  BY DEF event_condition_met, GreaterThan

LEMMA ConditionUnchanged == UNCHANGED value => \A e : event_condition_met(e)' = event_condition_met(e)
  BY DEF event_condition_met, NodeAsDouble

(* One iteration of the loop leaves the latch of its event as it should be *)
(* and the latches of the events before it alone.                          *)
LEMMA LatchIteration ==
  ASSUME LatchInv, AtEvent,
         \/ EventInsertFails(AfterEvents) \/ EventEmitFails(AfterEvents)
         \/ EventFires \/ EventHolds \/ EventClears
  PROVE  /\ \A e \in 1 .. cursor : active'[e] = event_condition_met(e)'
         /\ checked' = cursor
<1>1. cursor \in Events /\ cursor \in Nat \ {0}
  BY DEF AtEvent, LatchInv, TypeOK, ControlTypeOK
<1>2. DOMAIN active = Events /\ active[cursor] \in BOOLEAN
  BY <1>1 DEF LatchInv, TypeOK, EventsTypeOK
<1>3. UNCHANGED value /\ checked' = cursor
  BY DEF EventInsertFails, EventEmitFails, EventFires, EventHolds, EventClears
<1>4. \A e \in 1 .. cursor - 1 : active[e] = event_condition_met(e)
  BY DEF LatchInv, EvaluatedSoFar, AtEvent
<1>5. \A e \in Events : e # cursor => active'[e] = active[e]
  BY <1>1, <1>2 DEF EventInsertFails, EventEmitFails, EventFires, EventHolds, EventClears, Latch
<1>6. active'[cursor] = event_condition_met(cursor)
  <2>1. event_condition_met(cursor) \in BOOLEAN
    BY <1>1, ConditionIsBoolean
  <2>2. CASE event_condition_met(cursor)
    BY <1>1, <1>2, <2>1, <2>2
       DEF EventInsertFails, EventEmitFails, EventFires, EventHolds, EventClears, Latch
  <2>3. CASE ~event_condition_met(cursor)
    BY <1>1, <1>2, <2>1, <2>3
       DEF EventInsertFails, EventEmitFails, EventFires, EventHolds, EventClears, Rises
  <2> QED BY <2>2, <2>3
<1>7. ASSUME NEW e \in 1 .. cursor PROVE active'[e] = event_condition_met(e)
  <2>1. e = cursor \/ (e \in 1 .. cursor - 1 /\ e \in Events)
    BY <1>1, StoreAssumption DEF Events
  <2> QED BY <1>1, <1>4, <1>5, <1>6, <2>1
<1> QED BY <1>3, <1>7, ConditionUnchanged

LEMMA LatchNext == LatchInv /\ [Next]_vars => LatchInv'
<1> SUFFICES ASSUME LatchInv, [Next]_vars PROVE EvaluatedSoFar' /\ LatchFollowsCondition'
  BY TypeOKNext DEF LatchInv
<1>1. CASE Elsewhere
  <2>1. CASE UNCHANGED <<pc, cursor, value>>
    BY <1>1, <2>1, ConditionUnchanged
       DEF Elsewhere, eventVars, LatchInv, EvaluatedSoFar, LatchFollowsCondition
  <2>2. CASE pc' \in Quiet \/ (pc' = "events" /\ cursor' = 1)
    BY <2>2 DEF Quiet, EvaluatedSoFar, LatchFollowsCondition
  <2> QED BY <1>1, <2>1, <2>2 DEF Elsewhere
<1>2. CASE Persists
  <2>1. UNCHANGED <<value, active, checked>>
    BY <1>2 DEF Persists, edge_store_persist_latest_values, PersistRefused, PersistBegins,
                PersistRow, PersistRowFails, PersistCommits, PersistCommitBusy, eventVars
  <2>2. pc \in {"persist", "rows"} /\ pc' # "events"
    BY <1>2 DEF Persists, edge_store_persist_latest_values, PersistRefused, PersistBegins,
                PersistRow, PersistRowFails, PersistCommits, PersistCommitBusy, AtNode, PastNodes,
                Goto, Advance
  <2> QED BY <2>1, <2>2, ConditionUnchanged DEF LatchInv, EvaluatedSoFar, LatchFollowsCondition
<1>3. CASE FinalPersists \/ Closes \/ Crash \/ Starts
  <2>1. pc' \in {"finalrows", "closing", "down", "idle"}
    BY <1>3 DEF FinalPersists, edge_store_persist_latest_values, PersistRefused, PersistBegins,
                PersistRow, PersistRowFails, PersistCommits, PersistCommitBusy, AtNode, PastNodes,
                Goto, Advance, Closes, Crash, ProcessEnds, Starts
  <2> QED BY <2>1 DEF EvaluatedSoFar, LatchFollowsCondition
<1>4. CASE EvaluatesEvents
  <2>1. CASE EventInsertFails(AfterEvents) \/ EventEmitFails(AfterEvents)
    <3>1. AtEvent /\ pc' \in {"persist", "idle"}
      BY <2>1 DEF EventInsertFails, EventEmitFails, Goto, AfterEvents
    <3> QED BY <2>1, <3>1, LatchIteration DEF EvaluatedSoFar, LatchFollowsCondition
  <2>2. CASE EventFires \/ EventHolds \/ EventClears
    <3>1. AtEvent /\ pc' = "events" /\ cursor' = cursor + 1 /\ cursor \in Nat \ {0}
      BY <2>2 DEF EventFires, EventHolds, EventClears, AtEvent, Advance, LatchInv, TypeOK,
                  ControlTypeOK
    <3>2. cursor' - 1 = cursor
      BY <3>1
    <3> QED BY <2>2, <3>1, <3>2, LatchIteration DEF EvaluatedSoFar, LatchFollowsCondition
  <2>3. CASE EventsDone(AfterEvents)
    <3>1. /\ pc = "events" /\ cursor = EventCount + 1 /\ pc' \in {"persist", "idle"}
          /\ UNCHANGED <<value, active, checked>>
      BY <2>3 DEF EventsDone, Goto, AfterEvents, eventVars
    <3>2. checked \in 0 .. EventCount /\ EventCount \in Nat
      BY StoreAssumption DEF LatchInv, TypeOK, EventsTypeOK
    <3>3. 1 .. checked \subseteq 1 .. cursor - 1
      BY <3>1, <3>2
    <3> QED
      BY <3>1, <3>3, ConditionUnchanged DEF LatchInv, EvaluatedSoFar, LatchFollowsCondition
  <2> QED
    BY <1>4, <2>1, <2>2, <2>3 DEF EvaluatesEvents, edge_events_evaluate
<1> QED BY <1>1, <1>2, <1>3, <1>4, StoreCases

(* After an evaluation the latches agree with the conditions, for every    *)
(* number of events and wherever an error cut the evaluation short.        *)
THEOREM LatchAlwaysFollows == Spec => []LatchFollowsCondition
<1>1. Init => LatchInv
  BY TypeOKInit DEF Init, LatchInv, EvaluatedSoFar, LatchFollowsCondition
<1> QED BY <1>1, LatchNext, PTL DEF Spec, LatchInv
=============================================================================
