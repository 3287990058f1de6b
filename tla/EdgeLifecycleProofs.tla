------------------------- MODULE EdgeLifecycleProofs ------------------------
(***************************************************************************)
(* Proofs about EdgeLifecycle, for every set of templates, every number of *)
(* tables and columns and every database a start may find.                 *)
(*                                                                         *)
(* The argument about the schema: tables are created in order, so at       *)
(* statement k the tables before k exist; and except at version 1 a        *)
(* benchmark_runs table has all its columns (ColumnsKnown), because it was *)
(* created with them or was migrated before the version was stamped,       *)
(* unless a start could not read version 1; a version is stamped only over *)
(* one that was accepted or could not be read.  The argument about the     *)
(* configuration: inside the transaction the rows before the cursor are    *)
(* the template's, and no later row has their key.                         *)
(***************************************************************************)
EXTENDS EdgeLifecycle, EdgeValueProofs

(* The committed rows under every key of the template t are t's own. *)
Records(rows, t, n) ==
  \A k \in 1 .. n : rows[ModelRows(t)[k].key] = ModelRows(t)[k].definition

CreatedInOrder ==
  /\ pc = "create" => 1 .. (cursor - 1) \subseteq tables
  /\ pc \in {"migrate", "stamp"} \/ AfterSchema => tables = Tables

ColumnsKnown ==
  /\ TableCount \in tables /\ version # 1 => columns = Columns \/ 1 \in misread
  /\ pc = "migrate" => version = 1 /\ 1 .. (cursor - 1) \subseteq columns
  /\ pc = "stamp" => columns = Columns \/ 1 \in misread
  /\ pc = "stamp" => version <= SchemaVersion \/ version \in misread
  /\ AfterSchema => version = SchemaVersion

RowsKnown ==
  /\ pc = "rows" => Records(txRows, template, cursor - 1)
  /\ AfterModel => Records(dbRows, template, Len(ModelRows(template)))

IInv == SchemaTypeOK /\ CreatedInOrder /\ ColumnsKnown /\ RowsKnown

(* A template is a sequence of rows. *)
LEMMA RowsType ==
  ASSUME NEW t \in Templates
  PROVE  /\ Len(ModelRows(t)) \in Nat
         /\ DOMAIN ModelRows(t) = 1 .. Len(ModelRows(t))
         /\ \A k \in 1 .. Len(ModelRows(t)) :
              /\ ModelRows(t)[k].key \in Keys
              /\ ModelRows(t)[k].definition \in Definitions
<1> DEFINE rows == ModelRows(t)
           Any == [key : Keys, definition : Definitions]
<1>1. rows \in Seq(Any)
  BY SchemaAssumption
<1>2. \A r \in Any : r.key \in Keys /\ r.definition \in Definitions
  OBVIOUS
<1> HIDE DEF rows, Any
<1>3. /\ Len(rows) \in Nat
      /\ DOMAIN rows = 1 .. Len(rows)
      /\ \A k \in 1 .. Len(rows) : rows[k] \in Any
  BY <1>1
<1> QED BY <1>2, <1>3 DEF rows

(* Init establishes the inductive invariant. *)
LEMMA InitIInv == SchemaInit => IInv
<1> SUFFICES ASSUME SchemaInit PROVE IInv
  OBVIOUS
<1>1. SchemaTypeOK
  <2>1. dbRows \in [Keys -> Definitions \cup {NoRow}] /\ txRows = dbRows
    BY DEF SchemaInit
  <2>2. /\ pc = "down" /\ cursor = 1 /\ template \in Templates
        /\ version \in FoundVersions /\ tables \subseteq Tables /\ columns \subseteq Columns
        /\ dbLock = "free" /\ misread = {}
    <3>1. tables \subseteq Tables /\ columns \subseteq Columns
      BY DEF SchemaInit
    <3> QED BY <3>1 DEF SchemaInit
  <2> QED BY <2>1, <2>2 DEF SchemaTypeOK
<1>2. CreatedInOrder /\ RowsKnown
  BY DEF SchemaInit, CreatedInOrder, RowsKnown, AfterSchema, AfterModel, InSchema
<1>3. ColumnsKnown
  BY SchemaAssumption DEF SchemaInit, ColumnsKnown, AfterSchema, InSchema, SchemaVersion, Tables
<1> QED BY <1>1, <1>2, <1>3 DEF IInv

(* The end of a process keeps the invariant, wherever it happens. *)
LEMMA ExitsIInv == IInv /\ Exits => IInv'
<1> SUFFICES ASSUME IInv, Exits PROVE IInv'
  OBVIOUS
<1> USE DEF IInv, Exits, Goto, schemaVars
<1>1. SchemaTypeOK'
  BY DEF SchemaTypeOK
<1>2. CreatedInOrder' /\ RowsKnown'
  BY DEF CreatedInOrder, RowsKnown, AfterSchema, AfterModel, InSchema
<1>3. ColumnsKnown'
  BY DEF ColumnsKnown, AfterSchema, InSchema
<1> QED BY <1>1, <1>2, <1>3

(* Every step of edge_store_init_schema keeps the invariant. *)
LEMMA SchemaStep == IInv /\ edge_store_init_schema => IInv'
<1> SUFFICES ASSUME IInv, edge_store_init_schema PROVE IInv'
  OBVIOUS
<1> USE SchemaAssumption DEF SchemaVersion
<1>1. CASE CreateSkips
  <2>1. SchemaTypeOK'
    BY <1>1 DEF IInv, SchemaTypeOK, CreateSkips, Advance, schemaVars, rowVars, Tables
  <2>2. CreatedInOrder'
    BY <1>1 DEF IInv, SchemaTypeOK, CreatedInOrder, CreateSkips, Advance, schemaVars,
                AfterSchema, InSchema
  <2>3. ColumnsKnown' /\ RowsKnown'
    BY <1>1 DEF IInv, ColumnsKnown, RowsKnown, CreateSkips, Advance, schemaVars,
                AfterSchema, AfterModel, InSchema
  <2> QED BY <2>1, <2>2, <2>3 DEF IInv
<1>2. CASE CreateTable
  <2>1. SchemaTypeOK'
    BY <1>2 DEF IInv, SchemaTypeOK, CreateTable, Advance, rowVars, Tables
  <2>2. CreatedInOrder'
    BY <1>2 DEF IInv, SchemaTypeOK, CreatedInOrder, CreateTable, Advance, AfterSchema, InSchema
  <2>3. ColumnsKnown' /\ RowsKnown'
    BY <1>2 DEF IInv, ColumnsKnown, RowsKnown, CreateTable, Advance,
                AfterSchema, AfterModel, InSchema
  <2> QED BY <2>1, <2>2, <2>3 DEF IInv
<1>0. ASSUME pc = "create", cursor = TableCount + 1
      PROVE  tables = Tables
  <2>1. 1 .. (cursor - 1) = 1 .. TableCount
    BY <1>0
  <2> QED BY <1>0, <2>1 DEF IInv, SchemaTypeOK, CreatedInOrder, Tables
<1>3. CASE MigrationBegins \/ NoMigration
  <2>0. tables = Tables
    BY <1>0, <1>3 DEF MigrationBegins, NoMigration
  <2>1. SchemaTypeOK'
    <3>1. /\ pc' \in {"migrate", "stamp"} /\ cursor' = 1
          /\ UNCHANGED <<template, tables, columns, version, misread, dbRows, txRows, dbLock>>
      BY <1>3 DEF MigrationBegins, NoMigration, Goto, schemaVars, rowVars
    <3> QED BY <3>1 DEF IInv, SchemaTypeOK
  <2>2. CreatedInOrder'
    BY <1>3, <2>0 DEF CreatedInOrder, MigrationBegins, NoMigration, Goto, schemaVars,
                AfterSchema, InSchema
  <2>3. ColumnsKnown'
    BY <1>3, <2>0 DEF IInv, ColumnsKnown, MigrationBegins, NoMigration, Goto, schemaVars,
                      AfterSchema, AfterModel, InSchema, Tables
  <2>4. RowsKnown'
    BY <1>3 DEF RowsKnown, MigrationBegins, NoMigration, Goto,
                AfterSchema, AfterModel, InSchema
  <2> QED BY <2>1, <2>2, <2>3, <2>4 DEF IInv
<1>4. CASE AddColumn
  <2>1. SchemaTypeOK'
    BY <1>4 DEF IInv, SchemaTypeOK, AddColumn, Advance, rowVars, Columns
  <2>2. CreatedInOrder'
    BY <1>4 DEF IInv, CreatedInOrder, AddColumn, Advance
  <2>3. ColumnsKnown' /\ RowsKnown'
    BY <1>4 DEF IInv, SchemaTypeOK, ColumnsKnown, RowsKnown, AddColumn, Advance,
                AfterSchema, AfterModel, InSchema
  <2> QED BY <2>1, <2>2, <2>3 DEF IInv
<1>5. CASE MigrationDone
  <2>0. columns = Columns
    <3>1. pc = "migrate" /\ 1 .. (cursor - 1) = 1 .. ColumnCount
      BY <1>5 DEF MigrationDone
    <3> QED BY <3>1 DEF IInv, SchemaTypeOK, ColumnsKnown, Columns
  <2>1. SchemaTypeOK'
    BY <1>5 DEF IInv, SchemaTypeOK, MigrationDone, Goto, schemaVars, rowVars
  <2>2. CreatedInOrder' /\ RowsKnown'
    BY <1>5 DEF IInv, CreatedInOrder, RowsKnown, MigrationDone, Goto, schemaVars,
                AfterSchema, AfterModel, InSchema
  <2>3. ColumnsKnown'
    BY <1>5, <2>0 DEF IInv, ColumnsKnown, MigrationDone, Goto, schemaVars, AfterSchema, InSchema
  <2> QED BY <2>1, <2>2, <2>3 DEF IInv
<1>6. CASE Stamp
  <2>1. SchemaTypeOK'
    BY <1>6 DEF IInv, SchemaTypeOK, Stamp, Goto, rowVars
  <2>2. CreatedInOrder' /\ RowsKnown'
    BY <1>6 DEF IInv, CreatedInOrder, RowsKnown, Stamp, Goto,
                AfterSchema, AfterModel, InSchema
  <2>3. ColumnsKnown'
    BY <1>6 DEF IInv, ColumnsKnown, Stamp, Goto, AfterSchema, InSchema
  <2> QED BY <2>1, <2>2, <2>3 DEF IInv
<1>7. CASE VersionUnread
  <2>0. tables = Tables
    BY <1>0, <1>7 DEF VersionUnread
  <2>1. SchemaTypeOK'
    BY <1>7 DEF IInv, SchemaTypeOK, VersionUnread, Goto, rowVars
  <2>2. CreatedInOrder' /\ RowsKnown'
    BY <1>7, <2>0 DEF CreatedInOrder, RowsKnown, VersionUnread, Goto,
                AfterSchema, AfterModel, InSchema
  <2>3. ColumnsKnown'
    BY <1>7, <2>0 DEF IInv, SchemaTypeOK, ColumnsKnown, VersionUnread, Goto,
                AfterSchema, InSchema, Tables
  <2> QED BY <2>1, <2>2, <2>3 DEF IInv
<1>8. CASE CreateFails \/ NewerRefused \/ AddColumnFails \/ StampFails
  BY <1>8, ExitsIInv DEF CreateFails, NewerRefused, AddColumnFails, StampFails
<1> QED
  BY <1>1, <1>2, <1>3, <1>4, <1>5, <1>6, <1>7, <1>8 DEF edge_store_init_schema

(* Every step of edge_store_persist_model keeps the invariant. *)
LEMMA ModelStep == IInv /\ edge_store_persist_model => IInv'
<1> SUFFICES ASSUME IInv, edge_store_persist_model PROVE IInv'
  OBVIOUS
<1> DEFINE rows == ModelRows(template)
<1>0. /\ Len(rows) \in Nat
      /\ DOMAIN rows = 1 .. Len(rows)
      /\ \A k \in 1 .. Len(rows) : rows[k].key \in Keys /\ rows[k].definition \in Definitions
      /\ \A j, k \in 1 .. Len(rows) : rows[j].key = rows[k].key => j = k
  BY RowsType, SchemaAssumption DEF IInv, SchemaTypeOK
<1>1. CASE ModelBegins
  <2>1. SchemaTypeOK'
    BY <1>0, <1>1 DEF IInv, SchemaTypeOK, ModelBegins, Goto, schemaVars, rowVars
  <2>2. CreatedInOrder' /\ ColumnsKnown'
    BY <1>1 DEF IInv, CreatedInOrder, ColumnsKnown, ModelBegins, Goto, schemaVars,
                AfterSchema, InSchema
  <2>3. RowsKnown'
    BY <1>1 DEF RowsKnown, Records, ModelBegins, Goto, AfterSchema, AfterModel, InSchema
  <2> QED BY <2>1, <2>2, <2>3 DEF IInv
<1>2. CASE ModelRow
  <2>1. /\ pc = "rows" /\ pc' = "rows" /\ cursor' = cursor + 1
        /\ cursor \in 1 .. Len(rows)
        /\ txRows' = [txRows EXCEPT ![rows[cursor].key] = rows[cursor].definition]
        /\ UNCHANGED <<template, tables, columns, version, misread, dbRows, dbLock>>
    BY <1>0, <1>2 DEF ModelRow, RowUpserted, CurrentRow, Advance, schemaVars
  <2>2. txRows' \in [Keys -> Definitions \cup {NoRow}]
    BY <1>0, <2>1 DEF IInv, SchemaTypeOK
  <2>3. SchemaTypeOK'
    BY <1>0, <2>1, <2>2 DEF IInv, SchemaTypeOK
  <2>4. CreatedInOrder' /\ ColumnsKnown'
    BY <2>1 DEF IInv, CreatedInOrder, ColumnsKnown, AfterSchema, InSchema
  <2>5. RowsKnown'
    <3>1. ASSUME NEW k \in 1 .. cursor
          PROVE  txRows'[rows[k].key] = rows[k].definition
      <4>1. CASE k = cursor
        BY <1>0, <2>1, <4>1 DEF IInv, SchemaTypeOK
      <4>2. CASE k # cursor
        <5>1. k \in 1 .. (cursor - 1) /\ k \in 1 .. Len(rows) /\ rows[k].key # rows[cursor].key
          BY <1>0, <2>1, <4>2 DEF IInv, SchemaTypeOK
        <5>2. txRows[rows[k].key] = rows[k].definition
          BY <2>1, <5>1 DEF IInv, RowsKnown, Records
        <5> QED BY <1>0, <2>1, <5>1, <5>2 DEF IInv, SchemaTypeOK
      <4> QED BY <4>1, <4>2
    <3>2. cursor' - 1 = cursor
      BY <2>1 DEF IInv, SchemaTypeOK
    <3> QED BY <2>1, <3>1, <3>2 DEF RowsKnown, Records, AfterSchema, AfterModel, InSchema
  <2> QED BY <2>3, <2>4, <2>5 DEF IInv
<1>3. CASE ModelCommits
  <2>1. SchemaTypeOK'
    BY <1>0, <1>3 DEF IInv, SchemaTypeOK, ModelCommits, RowsDone, Goto, schemaVars
  <2>2. CreatedInOrder' /\ ColumnsKnown'
    BY <1>3 DEF IInv, CreatedInOrder, ColumnsKnown, ModelCommits, RowsDone, Goto, schemaVars,
                AfterSchema, InSchema
  <2>3. RowsKnown'
    BY <1>0, <1>3 DEF IInv, SchemaTypeOK, RowsKnown, Records, ModelCommits, RowsDone, Goto
  <2> QED BY <2>1, <2>2, <2>3 DEF IInv
<1>4. CASE ModelRefused \/ ModelRowFails \/ ModelCommitBusy
  BY <1>4, ExitsIInv DEF ModelRefused, ModelRowFails, ModelCommitBusy
<1> QED
  BY <1>1, <1>2, <1>3, <1>4 DEF edge_store_persist_model

(* The steps of main() after the model is recorded leave the database as   *)
(* it is.                                                                  *)
LateStep ==
  \/ edge_store_load_latest_values
  \/ Binds
  \/ ServerStarts
  \/ ServerStartFails
  \/ ServerStops

LEMMA LateStepFrame ==
  ASSUME LateStep, cursor \in Nat \ {0}
  PROVE  /\ pc \in {"restore", "bind", "startup", "up"}
         /\ pc' \in {"restore", "bind", "startup", "up", "final"}
         /\ cursor' \in Nat \ {0}
         /\ UNCHANGED <<template, tables, columns, version, misread, dbRows, txRows, dbLock>>
  BY DEF LateStep, edge_store_load_latest_values, RestoreRow, RestoreNone, RestoreRefused,
         RestoreDone, AtRestore, Binds, ServerStarts, ServerStartFails, ServerStops, Goto,
         Advance, schemaVars, rowVars

(* The steps that leave main() and the database where they are. *)
IdleStep ==
  \/ Sampled
  \/ EventRecorded
  \/ Persists
  \/ handle_signal
  \/ ClockAdvances
  \/ Calms

LEMMA IdleStepFrame == IdleStep \/ UNCHANGED vars => UNCHANGED startVars
  BY DEF IdleStep, Sampled, EventRecorded, Persists, handle_signal, ClockAdvances, Calms, vars

EndStep == BindFails \/ Closes \/ Crash

LEMMA EndStepFrame == EndStep => Exits
  BY DEF EndStep, BindFails, Closes, Crash, ProcessEnds

(* Next, by what a step does to the database. *)
LEMMA NextCases ==
  Next => \/ Loads \/ PreparesDatabase \/ LateStep \/ IdleStep \/ EndStep
          \/ Reboot \/ OtherProcess
  BY DEF Next, MainStep, LateStep, IdleStep, EndStep

(* The invariant is inductive. *)
LEMMA NextIInv == IInv /\ [Next]_vars => IInv'
<1> SUFFICES ASSUME IInv, [Next]_vars PROVE IInv'
  OBVIOUS
<1>1. CASE Loads
  <2>1. SchemaTypeOK'
    BY <1>1, SchemaAssumption DEF IInv, SchemaTypeOK, Loads, Goto, schemaVars, rowVars
  <2>2. CreatedInOrder' /\ ColumnsKnown' /\ RowsKnown'
    BY <1>1 DEF IInv, CreatedInOrder, ColumnsKnown, RowsKnown, Loads, Goto, schemaVars,
                AfterSchema, AfterModel, InSchema
  <2> QED BY <2>1, <2>2 DEF IInv
<1>2. CASE PreparesDatabase
  BY <1>2, SchemaStep, ModelStep DEF PreparesDatabase
<1>3. CASE LateStep
  <2>1. /\ pc \in {"restore", "bind", "startup", "up"}
        /\ pc' \in {"restore", "bind", "startup", "up", "final"}
        /\ cursor' \in Nat \ {0}
        /\ UNCHANGED <<template, tables, columns, version, misread, dbRows, txRows, dbLock>>
    BY <1>3, LateStepFrame DEF IInv, SchemaTypeOK
  <2>2. SchemaTypeOK'
    BY <2>1 DEF IInv, SchemaTypeOK
  <2>3. CreatedInOrder' /\ ColumnsKnown' /\ RowsKnown'
    BY <2>1 DEF IInv, CreatedInOrder, ColumnsKnown, RowsKnown, Records, AfterSchema,
                AfterModel, InSchema
  <2> QED BY <2>2, <2>3 DEF IInv
<1>4. CASE IdleStep \/ UNCHANGED vars \/ OtherProcess
  <2>1. UNCHANGED <<pc, cursor, template, tables, columns, version, misread, dbRows, txRows>>
    BY <1>4, IdleStepFrame DEF OtherProcess, startVars, schemaVars, rowVars
  <2>2. dbLock' \in {"free", "shared", "reserved", "exclusive"}
    BY <1>4, IdleStepFrame DEF OtherProcess, startVars, IInv, SchemaTypeOK
  <2>3. SchemaTypeOK'
    BY <2>1, <2>2 DEF IInv, SchemaTypeOK
  <2>4. CreatedInOrder' /\ ColumnsKnown' /\ RowsKnown'
    BY <2>1 DEF IInv, CreatedInOrder, ColumnsKnown, RowsKnown, Records, AfterSchema,
                AfterModel, InSchema
  <2> QED BY <2>3, <2>4 DEF IInv
<1>5. CASE EndStep
  BY <1>5, EndStepFrame, ExitsIInv
<1>6. CASE Reboot
  <2>1. SchemaTypeOK'
    BY <1>6 DEF IInv, SchemaTypeOK, Reboot, Goto, schemaVars
  <2>2. CreatedInOrder' /\ ColumnsKnown' /\ RowsKnown'
    BY <1>6 DEF IInv, CreatedInOrder, ColumnsKnown, RowsKnown, Reboot, Goto, schemaVars,
                AfterSchema, AfterModel, InSchema
  <2> QED BY <2>1, <2>2 DEF IInv
<1> QED
  BY <1>1, <1>2, <1>3, <1>4, <1>5, <1>6, NextCases

(* Every reachable state satisfies the invariant. *)
LEMMA AlwaysIInv == Spec => []IInv
  <1>1. Init => IInv
  BY InitIInv DEF Init
<1> QED BY <1>1, NextIInv, PTL DEF Spec

(* However often edge_store_init_schema was cut off, no start goes on with *)
(* a schema that lacks a table or its version, or a column that no unread  *)
(* version 1 explains.                                                     *)
THEOREM SchemaAlwaysComplete == Spec => []SchemaComplete
<1>1. IInv => SchemaComplete
  BY SchemaAssumption DEF IInv, CreatedInOrder, ColumnsKnown, SchemaComplete, SchemaVersion,
                          Tables, AfterSchema, AfterModel, InSchema
<1> QED BY AlwaysIInv, <1>1, PTL

(* A gateway that is up has committed its whole template. *)
THEOREM ServedAlwaysRecorded == Spec => []ServedIsRecorded
<1>1. IInv => ServedIsRecorded
  BY RowsType DEF IInv, SchemaTypeOK, RowsKnown, Records, ServedIsRecorded
<1> QED BY AlwaysIInv, <1>1, PTL

(* Only the COMMIT of edge_store_persist_model changes the configuration.  *)
LEMMA OnlyCommitChangesRows ==
  ASSUME IInv, [Next]_vars, dbRows' # dbRows
  PROVE  ModelCommits
<1>1. Loads \/ Reboot \/ OtherProcess => UNCHANGED dbRows
  BY DEF Loads, Reboot, OtherProcess, rowVars
<1>2. LateStep \/ IdleStep \/ EndStep \/ UNCHANGED vars => UNCHANGED dbRows
  BY LateStepFrame, IdleStepFrame, EndStepFrame
     DEF IInv, SchemaTypeOK, startVars, rowVars, Exits
<1>3. edge_store_init_schema => UNCHANGED dbRows
  BY DEF edge_store_init_schema, rowVars, Exits, CreateSkips, CreateTable, CreateFails,
         VersionUnread, NewerRefused, MigrationBegins, NoMigration, AddColumn, AddColumnFails,
         MigrationDone, Stamp, StampFails
<1>4. edge_store_persist_model => UNCHANGED dbRows \/ ModelCommits
  BY DEF edge_store_persist_model, rowVars, Exits, ModelRefused, ModelBegins, ModelRow,
         RowUpserted, ModelRowFails, ModelCommitBusy
<1> QED BY <1>1, <1>2, <1>3, <1>4, NextCases DEF PreparesDatabase

(* edge_store_persist_model never leaves a mixture of two templates. *)
THEOREM ConfigurationAlwaysAtomic == Spec => ConfigurationAtomic
<1> DEFINE Rule == dbRows' # dbRows =>
       \A k \in DOMAIN ModelRows(template) :
         dbRows'[ModelRows(template)[k].key] = ModelRows(template)[k].definition
<1>1. IInv /\ [Next]_vars => Rule
  <2> SUFFICES ASSUME IInv, [Next]_vars, dbRows' # dbRows PROVE Rule
    OBVIOUS
  <2>1. ModelCommits
    BY OnlyCommitChangesRows
  <2> QED
    BY <2>1, RowsType DEF IInv, SchemaTypeOK, RowsKnown, Records, ModelCommits, RowsDone
<1>2. IInv /\ [Next]_vars => [Rule]_startVars
  BY <1>1
<1> QED BY AlwaysIInv, <1>2, PTL DEF Spec, ConfigurationAtomic

(* A database of a newer release is never reconfigured, and its version is *)
(* changed only by the stamp of a start that could not read it.            *)
THEOREM NewerNeverTouched == Spec => NewerUntouched
<1> DEFINE Rule == version > SchemaVersion =>
             /\ UNCHANGED dbRows
             /\ version' # version => pc = "stamp" /\ version \in misread
<1>1. IInv /\ [Next]_vars => Rule
  <2> SUFFICES ASSUME IInv, [Next]_vars, version > SchemaVersion
               PROVE  /\ UNCHANGED dbRows
                      /\ version' # version => pc = "stamp" /\ version \in misread
    OBVIOUS
  <2>1. ~AfterSchema /\ (pc = "stamp" => version \in misread)
    BY SchemaAssumption DEF IInv, SchemaTypeOK, ColumnsKnown, SchemaVersion
  <2>2. UNCHANGED dbRows
    BY <2>1, OnlyCommitChangesRows DEF ModelCommits, RowsDone, AfterSchema, InSchema
  <2>3. Loads \/ Reboot \/ OtherProcess => UNCHANGED version
    BY DEF Loads, Reboot, OtherProcess, schemaVars
  <2>4. LateStep \/ IdleStep \/ EndStep \/ UNCHANGED vars => UNCHANGED version
    BY LateStepFrame, IdleStepFrame, EndStepFrame
       DEF IInv, SchemaTypeOK, startVars, schemaVars, Exits
  <2>5. edge_store_init_schema => UNCHANGED version \/ pc = "stamp"
    BY DEF edge_store_init_schema, schemaVars, Exits, CreateSkips, CreateTable,
           CreateFails, VersionUnread, NewerRefused, MigrationBegins, NoMigration, AddColumn,
           AddColumnFails, MigrationDone, Stamp, StampFails
  <2>6. ~edge_store_persist_model
    BY <2>1 DEF edge_store_persist_model, ModelRefused, ModelBegins, ModelRow, ModelRowFails,
           ModelCommits, RowsDone, ModelCommitBusy, AfterSchema, InSchema
  <2> QED BY <2>1, <2>2, <2>3, <2>4, <2>5, <2>6, NextCases DEF PreparesDatabase
<1>2. IInv /\ [Next]_vars => [Rule]_startVars
  BY <1>1
<1> QED BY AlwaysIInv, <1>2, PTL DEF Spec, NewerUntouched
=============================================================================
