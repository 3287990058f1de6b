---------------------------- MODULE EdgeLifecycle --------------------------
(***************************************************************************)
(* The life of the process, start after start, on one database file:       *)
(* main() of src/main.c, edge_server_run of src/edge_server.c, the restore *)
(* of src/edge_store.c and the clock of src/edge_time.c.  The supervisor   *)
(* starts the process again, perhaps with an edited template; a signal, a  *)
(* crash, a reboot or a lock of another process may come at any step.      *)
(*                                                                         *)
(* While the server is up its ticks are taken as a whole: EdgeRuntime has  *)
(* their steps.  A node is known here by its id, which is its key in       *)
(* latest_values.                                                          *)
(***************************************************************************)
EXTENDS EdgeSchema, EdgeValue

CONSTANTS
  NodeType,    \* definition of a node -> its data_type
  Samples,     \* data type -> the values ticks and clients give such nodes
  ClockCap     \* the clock is followed for this long after a boot

ModelNodes(t) == Template[t].nodes

NodeIds == UNION {{ModelNodes(t)[i].id : i \in DOMAIN ModelNodes(t)} : t \in Templates}

(* Two nodes of a template have different keys, like all its rows. *)
ASSUME LifeAssumption ==
  /\ NoRow \notin Doubles
  /\ \A t \in Templates : ModelNodes(t) \in Seq([id : NodeIds, definition : Definitions])
  /\ \A t \in Templates : \A i, j \in DOMAIN ModelNodes(t) :
       ModelNodes(t)[i].id = ModelNodes(t)[j].id => i = j
  /\ \A t \in Templates : \A i \in DOMAIN ModelNodes(t) :
       NodeType[ModelNodes(t)[i].definition] \in EdgeDataType
  /\ \A d \in EdgeDataType : Samples[d] \subseteq EdgeValues(d)
  /\ ClockCap \in Nat

VARIABLES
  value,      \* node id -> the node's value, 0 while no process has the node
  latest,     \* node id -> the double committed to latest_values, or NoRow
  stuck,      \* a refused COMMIT has left the transaction open
  running,    \* g_running
  clean,      \* the last process to end returned 0
  uptime,     \* CLOCK_MONOTONIC
  newest      \* created_ms of the newest committed event_history row

(* History variables, which no action depends on: the nodes whose value    *)
(* was restored or sampled, and those whose SELECT met a lock.             *)
VARIABLES known, refused

(* Nothing disturbs a start any more. *)
VARIABLE calm

memoryVars == <<value, stuck, known, refused>>

lifeVars == <<memoryVars, latest, running, clean, uptime, newest>>

vars == <<startVars, lifeVars, calm>>

Init ==
  /\ SchemaInit
  /\ value = [n \in NodeIds |-> 0]
  /\ latest = [n \in NodeIds |-> NoRow]
  /\ stuck = FALSE
  /\ running = TRUE
  /\ clean = FALSE
  /\ uptime = 0
  /\ newest = 0
  /\ known = {} /\ refused = {}
  /\ calm = FALSE

DataType(i) == NodeType[ModelNodes(template)[i].definition]

NodeId(i) == ModelNodes(template)[i].id

(* What goes with the process, an open transaction included. *)
MemoryLost ==
  /\ value' = [n \in NodeIds |-> 0]
  /\ stuck' = FALSE
  /\ known' = {} /\ refused' = {}

ProcessEnds == Exits /\ MemoryLost

-----------------------------------------------------------------------------
(* main(), up to the restore *)

(* The handlers are installed, edge_config_load and edge_store_open. *)
Loads ==
  /\ pc = "down"
  /\ template' \in Templates
  /\ running' = TRUE
  /\ clean' = FALSE
  /\ Goto("create")
  /\ UNCHANGED <<schemaVars, rowVars, dbLock, memoryVars, latest, uptime, newest, calm>>

PreparesDatabase ==
  /\ edge_store_init_schema \/ edge_store_persist_model
  /\ UNCHANGED <<lifeVars, calm>>

-----------------------------------------------------------------------------
(* edge_store_load_latest_values *)

AtRestore == pc = "restore" /\ cursor \in DOMAIN ModelNodes(template)

(* Mutant: the column is read as an integer. *)
RestoredAsInteger(t, d) ==
  IF d \in NonFinite THEN {0} ELSE edge_node_set_from_double(t, One * Truncated(d))

Restored(t, d) == edge_node_set_from_double(t, d)

RestoreRow ==
  /\ AtRestore
  /\ MayRead
  /\ latest[NodeId(cursor)] # NoRow
  /\ \E v \in Restored(DataType(cursor), latest[NodeId(cursor)]) :
       value' = [value EXCEPT ![NodeId(cursor)] = v]
  /\ known' = known \cup {NodeId(cursor)}
  /\ Advance
  /\ UNCHANGED <<template, schemaVars, rowVars, dbLock, refused, stuck,
                 latest, running, clean, uptime, newest, calm>>

(* Mutant: the loop ends at the first node without a row. *)
RestoreStopsAtNone ==
  /\ AtRestore
  /\ MayRead
  /\ latest[NodeId(cursor)] = NoRow
  /\ Goto("bind")
  /\ UNCHANGED <<template, schemaVars, rowVars, dbLock, lifeVars, calm>>

RestoreNone ==
  /\ AtRestore
  /\ MayRead
  /\ latest[NodeId(cursor)] = NoRow
  /\ Advance
  /\ UNCHANGED <<template, schemaVars, rowVars, dbLock, lifeVars, calm>>

(* Any status but SQLITE_ROW is taken for "no row". *)
RestoreRefused ==
  /\ AtRestore
  /\ ~MayRead
  /\ refused' = refused \cup {NodeId(cursor)}
  /\ Advance
  /\ UNCHANGED <<template, schemaVars, rowVars, dbLock, value, known, stuck,
                 latest, running, clean, uptime, newest, calm>>

RestoreDone ==
  /\ pc = "restore"
  /\ cursor = Len(ModelNodes(template)) + 1
  /\ Goto("bind")
  /\ UNCHANGED <<template, schemaVars, rowVars, dbLock, lifeVars, calm>>

edge_store_load_latest_values ==
  RestoreRow \/ RestoreNone \/ RestoreRefused \/ RestoreDone

-----------------------------------------------------------------------------
(* main(), from Modbus to the runtime, and edge_server_run *)

(* edge_modbus_init, edge_server_init, edge_address_space_load and the     *)
(* registration of the tick.                                               *)
Binds ==
  /\ pc = "bind"
  /\ Goto("startup")
  /\ UNCHANGED <<template, schemaVars, rowVars, dbLock, lifeVars, calm>>

BindFails ==
  /\ pc = "bind"
  /\ ~calm
  /\ ProcessEnds
  /\ UNCHANGED <<latest, running, clean, uptime, newest, calm>>

(* Mutant: the flag is set when the loop is entered. *)
ServerStartsAfresh ==
  /\ pc = "startup"
  /\ Goto("up")
  /\ running' = TRUE
  /\ UNCHANGED <<template, schemaVars, rowVars, dbLock, memoryVars, latest, clean,
                 uptime, newest, calm>>

ServerStarts ==
  /\ pc = "startup"
  /\ Goto("up")
  /\ UNCHANGED <<template, schemaVars, rowVars, dbLock, lifeVars, calm>>

(* UA_Server_run_startup fails, say on a port in use: main() ignores the   *)
(* status of edge_server_run and goes on as after a signal.                *)
ServerStartFails ==
  /\ pc = "startup"
  /\ ~calm
  /\ Goto("final")
  /\ UNCHANGED <<template, schemaVars, rowVars, dbLock, lifeVars, calm>>

(* The loop of edge_server_run looks at the flag, also before the first    *)
(* iteration.                                                              *)
ServerStops ==
  /\ pc = "up"
  /\ ~running
  /\ Goto("final")
  /\ UNCHANGED <<template, schemaVars, rowVars, dbLock, lifeVars, calm>>

-----------------------------------------------------------------------------
(* What ticks and clients do while the server is up *)

(* A poll or a client gives a node a value. *)
Sampled ==
  /\ pc = "up"
  /\ \E i \in DOMAIN ModelNodes(template) : \E v \in Samples[DataType(i)] :
       /\ value' = [value EXCEPT ![NodeId(i)] = v]
       /\ known' = known \cup {NodeId(i)}
  /\ UNCHANGED <<startVars, refused, stuck, latest, running, clean, uptime, newest, calm>>

(* edge_time_now_ms *)
edge_time_now_ms == uptime

(* An event becomes active; the row stays in a transaction left open.  *)
EventRecorded ==
  /\ pc = "up"
  /\ stuck \/ dbLock = "free"
  /\ newest' = IF stuck THEN newest ELSE edge_time_now_ms
  /\ UNCHANGED <<startVars, memoryVars, latest, running, clean, uptime, calm>>

NodeAsDouble(i) == edge_node_as_double(DataType(i), value[NodeId(i)])

Storable == \A i \in DOMAIN ModelNodes(template) : NodeAsDouble(i) # NaN

(* latest_values with the row of every node of the template replaced. *)
Saved ==
  [n \in NodeIds |->
     IF \E i \in DOMAIN ModelNodes(template) : NodeId(i) = n
       THEN NodeAsDouble(CHOOSE i \in DOMAIN ModelNodes(template) : NodeId(i) = n)
       ELSE latest[n]]

(* latest_values after edge_store_persist_latest_values: all rows are      *)
(* replaced or none.                                                       *)
edge_store_persist_latest_values ==
  IF ~stuck /\ dbLock = "free" /\ Storable THEN Saved ELSE latest

(* A reader in the way of COMMIT leaves the transaction open. *)
Persists ==
  /\ pc = "up"
  /\ latest' = edge_store_persist_latest_values
  /\ stuck' = (stuck \/ (dbLock = "shared" /\ Storable))
  /\ UNCHANGED <<startVars, value, known, refused, running, clean, uptime, newest, calm>>

-----------------------------------------------------------------------------
(* The end of main() *)

(* The last persist, whatever its status, and the return of 0. *)
Closes ==
  /\ pc = "final"
  /\ ProcessEnds
  /\ latest' = edge_store_persist_latest_values
  /\ clean' = TRUE
  /\ UNCHANGED <<running, uptime, newest, calm>>

(* SIGINT or SIGTERM, also while the process still starts. *)
handle_signal ==
  /\ pc # "down"
  /\ calm => pc = "up"
  /\ running' = FALSE
  /\ UNCHANGED <<startVars, memoryVars, latest, clean, uptime, newest, calm>>

Crash ==
  /\ pc # "down"
  /\ ~calm
  /\ ProcessEnds
  /\ UNCHANGED <<latest, running, clean, uptime, newest, calm>>

(* The machine goes down with everything on it; the service is started at  *)
(* boot.                                                                   *)
Reboot ==
  /\ ~calm
  /\ Goto("down")
  /\ txRows' = dbRows
  /\ MemoryLost
  /\ dbLock' = "free"
  /\ clean' = FALSE
  /\ uptime' = 0
  /\ UNCHANGED <<template, schemaVars, dbRows, latest, running, newest, calm>>

ClockAdvances ==
  /\ uptime < ClockCap
  /\ uptime' = uptime + 1
  /\ UNCHANGED <<startVars, memoryVars, latest, running, clean, newest, calm>>

(* Another process takes or releases a lock: "shared" to read, "reserved"  *)
(* to write, "exclusive" to commit.  While the gateway has a transaction   *)
(* open it can only read, and not once COMMIT has been tried.              *)
OtherProcess ==
  /\ \/ /\ dbLock = "free" /\ ~stuck /\ ~calm
        /\ dbLock' \in IF pc = "rows" THEN {"shared"}
                                      ELSE {"shared", "reserved", "exclusive"}
     \/ /\ dbLock # "free"
        /\ dbLock' = "free"
  /\ UNCHANGED <<pc, cursor, template, schemaVars, rowVars, lifeVars, calm>>

(* From here on starts are left alone; what happened before stays. *)
Calms ==
  /\ ~calm
  /\ dbLock = "free"
  /\ calm' = TRUE
  /\ UNCHANGED <<startVars, lifeVars>>

MainStep ==
  \/ PreparesDatabase
  \/ edge_store_load_latest_values
  \/ Binds
  \/ BindFails
  \/ ServerStarts
  \/ ServerStartFails
  \/ ServerStops
  \/ Closes

Next ==
  \/ Loads
  \/ MainStep
  \/ Sampled
  \/ EventRecorded
  \/ Persists
  \/ handle_signal
  \/ Crash
  \/ Reboot
  \/ ClockAdvances
  \/ OtherProcess
  \/ Calms

Spec == Init /\ [][Next]_vars

(***************************************************************************)
(* systemd (Restart=on-failure) and Docker (--restart unless-stopped) both *)
(* start the process again when it did not return 0; main() runs on, no    *)
(* call of it waiting for anything but the network or the disk.            *)
(***************************************************************************)
Restarts == ~clean /\ Loads

FairSpec == Spec /\ WF_vars(Restarts) /\ WF_vars(MainStep)

-----------------------------------------------------------------------------
(* Properties. *)

Labels ==
  {"down", "create", "migrate", "stamp", "model", "rows", "restore", "bind",
   "startup", "up", "final"}

(* Every variable keeps its type; a node keeps a value of the data type    *)
(* its template gives it, also when an earlier template gave it another.   *)
LifeTypeOK ==
  /\ SchemaTypeOK
  /\ pc \in Labels
  /\ pc = "restore" => cursor <= Len(ModelNodes(template)) + 1
  /\ DOMAIN value = NodeIds
  /\ \A i \in DOMAIN ModelNodes(template) : value[NodeId(i)] \in EdgeValues(DataType(i))
  /\ latest \in [NodeIds -> Doubles \cup {NoRow}]
  /\ known \subseteq NodeIds /\ refused \subseteq NodeIds
  /\ stuck \in BOOLEAN /\ running \in BOOLEAN /\ clean \in BOOLEAN /\ calm \in BOOLEAN
  /\ uptime \in 0 .. ClockCap /\ newest \in 0 .. ClockCap

(* The stored value of a node is replaced only by one that was restored or *)
(* sampled, never by the zero a fresh process has, unless a lock refused   *)
(* its SELECT: neither a signal during the start, nor a port in use, nor a *)
(* node without a row makes the gateway forget.                            *)
NoForgetting ==
  [][\A n \in NodeIds : latest[n] # NoRow /\ latest'[n] # latest[n] =>
       n \in known \cup refused]_vars

(* The double d is the exact image of some value of data type t. *)
Fits(t, d) == t = "double" \/ d \in {edge_node_as_double(t, v) : v \in EdgeValues(t)}

(* A node that was restored has exactly the stored value, whatever data    *)
(* type it had when that was written, if its present type can hold it.     *)
RestoredIsStored ==
  pc = "bind" =>
    \A i \in DOMAIN ModelNodes(template) :
      NodeId(i) \in known /\ Fits(DataType(i), latest[NodeId(i)]) =>
        NodeAsDouble(i) = latest[NodeId(i)]

(* Once locks, crashes and failing calls cease and the operator leaves a   *)
(* sound template, a process that ended is followed by a gateway that is   *)
(* up, on a new or a current database, whatever earlier starts left in it. *)
(* An exit with status 0 is the one end systemd does not restart: a        *)
(* failing UA_Server_run_startup is among them.                            *)
StartsEventually ==
  <>[]Acceptable(template) =>
    (calm /\ pc = "down" /\ ~clean /\ version \in {0, SchemaVersion} ~> pc = "up")

(* A signal ends the process, also one that arrives while it still starts. *)
StopHonoured == ~running ~> pc = "down"

-----------------------------------------------------------------------------
(* What the repository says of the database and the code does not keep.    *)

(* The binary "migrates version 1 benchmark columns automatically".        *)
MigratesEventually ==
  <>[]Acceptable(template) => (calm /\ version = 1 ~> pc = "up")

(* Rows are stamped with "Unix epoch milliseconds": a later row never has  *)
(* an earlier time.                                                        *)
HistoryTimesOrdered == [][newest' >= newest]_vars
=============================================================================
