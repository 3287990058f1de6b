----------------------------- MODULE EdgeStore -----------------------------
(***************************************************************************)
(* The part of src/edge_store.c the running gateway uses: the transaction  *)
(* that saves latest_values, the insert of an event_history row, the       *)
(* restore at start.  SQLite is external: a rollback-journal database file *)
(* without a busy timeout that other processes (a backup, an operator's    *)
(* shell) may lock.                                                        *)
(*                                                                         *)
(* The committed tables are what survives; the tables as the gateway's own *)
(* connection sees them run ahead of them while a transaction is open.     *)
(***************************************************************************)
EXTENDS EdgeModel

CONSTANTS
  EventCount,    \* model->event_count
  NoRow,         \* latest_values has no row for the node
  OtherLocks,    \* the locks other processes may take on the database file
  RowCap         \* rows and notifications are counted up to this bound

Events == 1 .. EventCount

ASSUME StoreAssumption ==
  /\ EventCount \in Nat
  /\ NoRow \notin Doubles
  /\ OtherLocks \subseteq {"shared", "reserved"}
  /\ RowCap \in Nat \ {0}

VARIABLES
  dbLatest,   \* node -> the double committed to latest_values, or NoRow
  txLatest,   \* the same as the gateway's connection sees it
  dbRows,     \* event -> committed event_history rows of its activation
  txRows,     \* the same as the gateway's connection sees it
  txOpen,     \* the connection is inside BEGIN ... COMMIT
  dbLock      \* the lock another process holds, "free" if none

tableVars == <<dbLatest, txLatest, dbRows, txRows, txOpen>>

storeVars == <<tableVars, dbLock>>

StoreTypeOK ==
  /\ dbLatest \in [Nodes -> Doubles \cup {NoRow}]
  /\ txLatest \in [Nodes -> Doubles \cup {NoRow}]
  /\ dbRows \in [Events -> 0 .. RowCap]
  /\ txRows \in [Events -> 0 .. RowCap]
  /\ txOpen \in BOOLEAN
  /\ dbLock \in OtherLocks \cup {"free"}

StoreInit ==
  /\ dbLatest = [i \in Nodes |-> NoRow]
  /\ txLatest = dbLatest
  /\ dbRows = [e \in Events |-> 0]
  /\ txRows = dbRows
  /\ txOpen = FALSE
  /\ dbLock = "free"

-----------------------------------------------------------------------------
(* Transactions. *)

Commit ==
  /\ txOpen' = FALSE
  /\ dbLatest' = txLatest
  /\ dbRows' = txRows
  /\ UNCHANGED <<txLatest, txRows>>

Rollback ==
  /\ txOpen' = FALSE
  /\ txLatest' = dbLatest
  /\ txRows' = dbRows
  /\ UNCHANGED <<dbLatest, dbRows>>

-----------------------------------------------------------------------------
(* edge_store_persist_latest_values, entered at label entry, with its row  *)
(* loop at label rows, returning to ret.                                   *)

(* Mutant: BEGIN IMMEDIATE is tried again until it succeeds. *)
PersistAwaitsLock(entry, ret) ==
  /\ pc = entry
  /\ txOpen \/ dbLock = "reserved"
  /\ UNCHANGED <<controlVars, value, storeVars>>

(* BEGIN IMMEDIATE fails inside a transaction, and while another process   *)
(* has reserved the database.                                              *)
PersistRefused(entry, ret) ==
  /\ pc = entry
  /\ txOpen \/ dbLock = "reserved"
  /\ Goto(ret)
  /\ UNCHANGED <<value, storeVars>>

PersistBegins(entry, rows) ==
  /\ pc = entry
  /\ ~txOpen
  /\ dbLock # "reserved"
  /\ txOpen' = TRUE
  /\ Goto(rows)
  /\ UNCHANGED <<value, dbLatest, txLatest, dbRows, txRows, dbLock>>

NodeAsDouble(i) == edge_node_as_double(DataType[i], value[i])

(* Mutant: the row is committed on its own. *)
RowAutocommitted(i) ==
  /\ txLatest' = [txLatest EXCEPT ![i] = NodeAsDouble(i)]
  /\ dbLatest' = txLatest'

RowUpserted(i) ==
  /\ txLatest' = [txLatest EXCEPT ![i] = NodeAsDouble(i)]
  /\ UNCHANGED dbLatest

PersistRow(rows) ==
  /\ AtNode(rows)
  /\ NodeAsDouble(cursor) # NaN
  /\ RowUpserted(cursor)
  /\ Advance
  /\ UNCHANGED <<value, dbRows, txRows, txOpen, dbLock>>

(* Mutant: the transaction is left open when a row is refused. *)
PersistRowLeftOpen(rows, ret) ==
  /\ AtNode(rows)
  /\ NodeAsDouble(cursor) = NaN
  /\ Goto(ret)
  /\ UNCHANGED <<value, storeVars>>

(* A NaN is bound as NULL, which double_value does not accept. *)
PersistRowFails(rows, ret) ==
  /\ AtNode(rows)
  /\ NodeAsDouble(cursor) = NaN
  /\ Rollback
  /\ Goto(ret)
  /\ UNCHANGED <<value, dbLock>>

PersistCommits(rows, ret) ==
  /\ PastNodes(rows)
  /\ dbLock = "free"
  /\ Commit
  /\ Goto(ret)
  /\ UNCHANGED <<value, dbLock>>

(* COMMIT is refused while a reader is inside the file, and the            *)
(* transaction stays open: the code does not roll it back.                 *)
PersistCommitBusy(rows, ret) ==
  /\ PastNodes(rows)
  /\ dbLock # "free"
  /\ Goto(ret)
  /\ UNCHANGED <<value, storeVars>>

edge_store_persist_latest_values(entry, rows, ret) ==
  \/ PersistRefused(entry, ret)
  \/ PersistBegins(entry, rows)
  \/ PersistRow(rows)
  \/ PersistRowFails(rows, ret)
  \/ PersistCommits(rows, ret)
  \/ PersistCommitBusy(rows, ret)

-----------------------------------------------------------------------------
(* edge_store_insert_event_history: a statement of its own, which commits  *)
(* at once, unless a transaction was left open.                            *)

InsertSucceeds == txOpen \/ dbLock = "free"

Counted(counts, e) == [counts EXCEPT ![e] = IF @ < RowCap THEN @ + 1 ELSE @]

edge_store_insert_event_history(e) ==
  /\ txRows' = Counted(txRows, e)
  /\ dbRows' = IF txOpen THEN dbRows ELSE Counted(dbRows, e)
  /\ UNCHANGED <<dbLatest, txLatest, txOpen, dbLock>>

-----------------------------------------------------------------------------
(* edge_store_load_latest_values: the values a start may leave in the      *)
(* nodes, which are zero where there is no row.                            *)

(* A SELECT is refused while a writer of another process commits, and any  *)
(* status but SQLITE_ROW leaves the node as it is.                         *)
SelectMayFail == "reserved" \in OtherLocks

(* Mutant: the column is read as an integer. *)
ReadAsInteger(i) ==
  IF dbLatest[i] \in NonFinite
    THEN {0} ELSE edge_node_set_from_double(DataType[i], One * Truncated(dbLatest[i]))

ReadRow(i) == edge_node_set_from_double(DataType[i], dbLatest[i])

RestoredValues(i) ==
  IF dbLatest[i] = NoRow THEN {0}
                         ELSE ReadRow(i) \cup (IF SelectMayFail THEN {0} ELSE {})

(* Another process takes or releases a lock on the file.  It cannot        *)
(* reserve what the gateway has reserved, nor start to read once COMMIT    *)
(* has been tried.                                                         *)
OtherProcess(committing) ==
  /\ \/ /\ dbLock = "free"
        /\ dbLock' \in OtherLocks
        /\ txOpen => dbLock' = "shared" /\ committing
     \/ /\ dbLock # "free"
        /\ dbLock' = "free"
  /\ UNCHANGED <<controlVars, value, tableVars>>
=============================================================================
