----------------------------- MODULE EdgeSchema ----------------------------
(***************************************************************************)
(* What a start does to the database it finds: edge_store_init_schema      *)
(* creates or migrates the schema, then edge_store_persist_model records   *)
(* the template, both of src/edge_store.c.  A start may be cut off between *)
(* any two statements, by a crash or by a lock of another process.         *)
(* EdgeLifecycle calls these two from main().                              *)
(*                                                                         *)
(* sqlite3_exec runs the statements of a script one by one, and each       *)
(* commits on its own.  A table other than benchmark_runs is the same in   *)
(* every schema version, so a table is a number and only the columns that  *)
(* version 2 added to benchmark_runs, numbered in the order of the         *)
(* migration, are kept apart.                                              *)
(***************************************************************************)
EXTENDS Integers, Sequences

CONSTANTS
  Templates,        \* the templates an operator may leave in the config file
  Template,         \* template -> its rows, see ModelRows
  TableCount,       \* tables of the schema, benchmark_runs is the last one
  ColumnCount,      \* columns the migration adds
  FoundVersions,    \* schema versions of the databases a start may find
  Null,             \* a definition with a NaN, which SQLite stores as NULL
  NoRow

SchemaVersion == 2  \* edge_store_schema_version

Tables == 1 .. TableCount

Columns == 1 .. ColumnCount

(***************************************************************************)
(* The rows edge_store_persist_model writes, in its order.  A row is the   *)
(* key of a table and the definition stored under it.                      *)
(***************************************************************************)
Row(table, entity) == [key |-> <<table, entity.id>>, definition |-> entity.definition]

RowsOf(table, entities) == [i \in DOMAIN entities |-> Row(table, entities[i])]

persist_plant(t) == <<Row("plants", Template[t].plant)>>

persist_assets(t) == RowsOf("assets", Template[t].assets)

persist_nodes(t) == RowsOf("nodes", Template[t].nodes)

persist_events(t) == RowsOf("event_definitions", Template[t].events)

ModelRows(t) ==
  persist_plant(t) \o persist_assets(t) \o persist_nodes(t) \o persist_events(t)

Keys == UNION {{ModelRows(t)[k].key : k \in DOMAIN ModelRows(t)} : t \in Templates}

Definitions ==
  UNION {{ModelRows(t)[k].definition : k \in DOMAIN ModelRows(t)} : t \in Templates}

(* Two rows of a template never share a key: validate_duplicates sees to   *)
(* it as long as no id contains the dot that joins asset and node id.      *)
ASSUME SchemaAssumption ==
  /\ Templates # {}
  /\ TableCount \in Nat \ {0}
  /\ ColumnCount \in Nat \ {0}
  /\ FoundVersions \subseteq {0, 1, SchemaVersion + 1}
  /\ \A t \in Templates :
       ModelRows(t) \in Seq([key : Keys, definition : Definitions])
  /\ \A t \in Templates : \A j, k \in DOMAIN ModelRows(t) :
       ModelRows(t)[j].key = ModelRows(t)[k].key => j = k
  /\ NoRow \notin Definitions

VARIABLES
  pc,         \* where main() is, "down" while no process runs
  cursor,     \* the statement or row it is at
  template,   \* the template this process loaded
  tables,     \* the tables that exist
  columns,    \* the added columns benchmark_runs has
  version,    \* PRAGMA user_version
  dbRows,     \* key -> the definition committed under it, or NoRow
  txRows,     \* the same as the gateway's connection sees it
  dbLock      \* the lock another process holds on the file, "free" if none

(* A history variable, which no action depends on: the versions, other     *)
(* than 0 and the current one, that some start could not read and took     *)
(* for 0.                                                                  *)
VARIABLE misread

schemaVars == <<tables, columns, version, misread>>

rowVars == <<dbRows, txRows>>

startVars == <<pc, cursor, template, schemaVars, rowVars, dbLock>>

(* A new file, a database of schema 1, or one a newer release has written. *)
SchemaInit ==
  /\ pc = "down"
  /\ cursor = 1
  /\ template \in Templates
  /\ version \in FoundVersions
  /\ tables = IF version = 0 THEN {} ELSE Tables
  /\ columns = IF version <= 1 THEN {} ELSE Columns
  /\ misread = {}
  /\ dbRows = [k \in Keys |-> NoRow]
  /\ txRows = dbRows
  /\ dbLock = "free"

Goto(label) == pc' = label /\ cursor' = 1

Advance == cursor' = cursor + 1 /\ UNCHANGED pc

(* The process ends; an open transaction is rolled back. *)
Exits ==
  /\ Goto("down")
  /\ txRows' = dbRows
  /\ UNCHANGED <<template, schemaVars, dbRows, dbLock>>

(* A statement that reads fails while another process commits. *)
MayRead == dbLock # "exclusive"

-----------------------------------------------------------------------------
(* edge_store_init_schema *)

(* Mutant: CREATE TABLE without IF NOT EXISTS. *)
CreateRepeated ==
  /\ pc = "create"
  /\ cursor \in tables
  /\ Exits

CreateSkips ==
  /\ pc = "create"
  /\ cursor \in tables
  /\ MayRead
  /\ Advance
  /\ UNCHANGED <<template, schemaVars, rowVars, dbLock>>

(* benchmark_runs is created with the columns of version 2. *)
CreateTable ==
  /\ pc = "create"
  /\ cursor \in Tables \ tables
  /\ dbLock = "free"
  /\ tables' = tables \cup {cursor}
  /\ columns' = IF cursor = TableCount THEN Columns ELSE columns
  /\ Advance
  /\ UNCHANGED <<template, version, misread, rowVars, dbLock>>

CreateFails ==
  /\ pc = "create"
  /\ cursor \in Tables
  /\ IF cursor \in tables THEN ~MayRead ELSE dbLock # "free"
  /\ Exits

(* Any status of the step but SQLITE_ROW leaves current_version at 0: a    *)
(* version that cannot be read is neither migrated nor refused, and goes   *)
(* on to be stamped like that of a new database.                           *)
VersionUnread ==
  /\ pc = "create"
  /\ cursor = TableCount + 1
  /\ ~MayRead
  /\ misread' = misread \cup ({version} \ {0, SchemaVersion})
  /\ Goto("stamp")
  /\ UNCHANGED <<template, tables, columns, version, rowVars, dbLock>>

(* Mutant: a database of a newer schema is taken for a current one. *)
NewerAccepted ==
  /\ pc = "create"
  /\ cursor = TableCount + 1
  /\ version > SchemaVersion
  /\ Goto("stamp")
  /\ UNCHANGED <<template, schemaVars, rowVars, dbLock>>

(* The version is read once the tables are there. *)
NewerRefused ==
  /\ pc = "create"
  /\ cursor = TableCount + 1
  /\ version > SchemaVersion
  /\ MayRead
  /\ Exits

(* Mutant: user_version is set before the columns are added. *)
StampedFirst ==
  /\ pc = "create"
  /\ cursor = TableCount + 1
  /\ version = 1
  /\ version' = SchemaVersion
  /\ Goto("migrate")
  /\ UNCHANGED <<template, tables, columns, misread, rowVars, dbLock>>

MigrationBegins ==
  /\ pc = "create"
  /\ cursor = TableCount + 1
  /\ version = 1
  /\ MayRead
  /\ Goto("migrate")
  /\ UNCHANGED <<template, schemaVars, rowVars, dbLock>>

NoMigration ==
  /\ pc = "create"
  /\ cursor = TableCount + 1
  /\ version \in {0, SchemaVersion}
  /\ MayRead
  /\ Goto("stamp")
  /\ UNCHANGED <<template, schemaVars, rowVars, dbLock>>

AddColumn ==
  /\ pc = "migrate"
  /\ cursor \in Columns \ columns
  /\ dbLock = "free"
  /\ columns' = columns \cup {cursor}
  /\ Advance
  /\ UNCHANGED <<template, tables, version, misread, rowVars, dbLock>>

(* ALTER TABLE fails on a column that is there already. *)
AddColumnFails ==
  /\ pc = "migrate"
  /\ cursor \in Columns
  /\ cursor \in columns \/ dbLock # "free"
  /\ Exits

MigrationDone ==
  /\ pc = "migrate"
  /\ cursor = ColumnCount + 1
  /\ Goto("stamp")
  /\ UNCHANGED <<template, schemaVars, rowVars, dbLock>>

Stamp ==
  /\ pc = "stamp"
  /\ dbLock = "free"
  /\ version' = SchemaVersion
  /\ Goto("model")
  /\ UNCHANGED <<template, tables, columns, misread, rowVars, dbLock>>

StampFails ==
  /\ pc = "stamp"
  /\ dbLock # "free"
  /\ Exits

edge_store_init_schema ==
  \/ CreateSkips \/ CreateTable \/ CreateFails
  \/ VersionUnread \/ NewerRefused \/ MigrationBegins \/ NoMigration
  \/ AddColumn \/ AddColumnFails \/ MigrationDone
  \/ Stamp \/ StampFails

-----------------------------------------------------------------------------
(* edge_store_persist_model; its transaction is open at label "rows". *)

ModelRefused ==
  /\ pc = "model"
  /\ dbLock \in {"reserved", "exclusive"}
  /\ Exits

ModelBegins ==
  /\ pc = "model"
  /\ dbLock \notin {"reserved", "exclusive"}
  /\ Goto("rows")
  /\ UNCHANGED <<template, schemaVars, rowVars, dbLock>>

CurrentRow == ModelRows(template)[cursor]

(* Mutant: the id is bound where the definition belongs. *)
RowMisbound(row) ==
  /\ txRows' = [txRows EXCEPT ![row.key] = row.key[2]]
  /\ UNCHANGED dbRows

(* Mutant: the row is committed on its own. *)
RowAutocommitted(row) ==
  /\ txRows' = [txRows EXCEPT ![row.key] = row.definition]
  /\ dbRows' = txRows'

RowUpserted(row) ==
  /\ txRows' = [txRows EXCEPT ![row.key] = row.definition]
  /\ UNCHANGED dbRows

ModelRow ==
  /\ pc = "rows"
  /\ cursor \in DOMAIN ModelRows(template)
  /\ CurrentRow.definition # Null
  /\ RowUpserted(CurrentRow)
  /\ Advance
  /\ UNCHANGED <<template, schemaVars, dbLock>>

ModelRowFails ==
  /\ pc = "rows"
  /\ cursor \in DOMAIN ModelRows(template)
  /\ CurrentRow.definition = Null
  /\ Exits

RowsDone == pc = "rows" /\ cursor = Len(ModelRows(template)) + 1

ModelCommits ==
  /\ RowsDone
  /\ dbLock = "free"
  /\ dbRows' = txRows
  /\ Goto("restore")
  /\ UNCHANGED <<template, schemaVars, txRows, dbLock>>

(* Mutant: the status of COMMIT is ignored. *)
CommitIgnored ==
  /\ RowsDone
  /\ dbLock # "free"
  /\ Goto("restore")
  /\ UNCHANGED <<template, schemaVars, rowVars, dbLock>>

ModelCommitBusy ==
  /\ RowsDone
  /\ dbLock # "free"
  /\ Exits

edge_store_persist_model ==
  \/ ModelRefused
  \/ ModelBegins
  \/ ModelRow
  \/ ModelRowFails
  \/ ModelCommits
  \/ ModelCommitBusy

-----------------------------------------------------------------------------
(* Properties. *)

(* The schema keeps its shape, and the loops stay inside their scripts. *)
SchemaTypeOK ==
  /\ cursor \in Nat \ {0}
  /\ pc = "create" => cursor <= TableCount + 1
  /\ pc = "migrate" => cursor <= ColumnCount + 1
  /\ pc = "rows" => cursor <= Len(ModelRows(template)) + 1
  /\ template \in Templates
  /\ tables \subseteq Tables /\ columns \subseteq Columns
  /\ version \in FoundVersions \cup {0, SchemaVersion}
  /\ misread \subseteq FoundVersions
  /\ dbRows \in [Keys -> Definitions \cup {NoRow}]
  /\ txRows \in [Keys -> Definitions \cup {NoRow}]
  /\ dbLock \in {"free", "shared", "reserved", "exclusive"}

(* Where main() is before and after edge_store_init_schema has returned,   *)
(* and after edge_store_persist_model has.                                 *)
InSchema == {"down", "create", "migrate", "stamp"}

AfterSchema == pc \notin InSchema

AfterModel == AfterSchema /\ pc \notin {"model", "rows"}

(* However often starts were cut off in the middle of the script, none     *)
(* gets past edge_store_init_schema on a database that lacks a table or    *)
(* its version, nor on one that lacks a column, unless some start could    *)
(* not read version 1.                                                     *)
SchemaComplete ==
  AfterSchema =>
    /\ tables = Tables
    /\ version = SchemaVersion
    /\ columns = Columns \/ 1 \in misread

(* The configuration of a database that a newer release has written stays  *)
(* as it is, and so does the version, unless a start that could not read   *)
(* it stamps its own over it.                                              *)
NewerUntouched ==
  [][version > SchemaVersion =>
       /\ UNCHANGED dbRows
       /\ version' # version => pc = "stamp" /\ version \in misread]_startVars

(* The committed configuration changes only to one that holds every row of *)
(* the template the process has loaded, never to a mixture of two.         *)
ConfigurationAtomic ==
  [][dbRows' # dbRows =>
       \A k \in DOMAIN ModelRows(template) :
         dbRows'[ModelRows(template)[k].key] = ModelRows(template)[k].definition]_startVars

(* A gateway that is up has its whole configuration on disk. *)
ServedIsRecorded ==
  AfterModel =>
    \A k \in DOMAIN ModelRows(template) :
      dbRows[ModelRows(template)[k].key] = ModelRows(template)[k].definition

Acceptable(t) == \A k \in DOMAIN ModelRows(t) : ModelRows(t)[k].definition # Null
=============================================================================
