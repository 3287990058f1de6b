---------------------------- MODULE EdgeRuntime ----------------------------
(***************************************************************************)
(* The running gateway: src/edge_runtime.c drives Modbus, events and store *)
(* from a repeated callback of the OPC UA server; clients write nodes      *)
(* (write_edge_node of src/edge_address_space.c) between ticks; main()     *)
(* starts it from the database and shuts it down after a signal.           *)
(*                                                                         *)
(* Ticks and client requests run on the server's thread, one at a time:    *)
(* clients are served only at label "idle".  Labels of a tick: drain,      *)
(* poll, scan, events, persist, rows; of the shutdown: final, finalrows,   *)
(* closing; "down" while no process runs.                                  *)
(***************************************************************************)
EXTENDS EdgeModbus, EdgeEvents

CONSTANTS
  PersistEvery,   \* persist_every_n_ticks
  ClientValues,   \* node -> the values OPC UA clients write to it
  Interrupts,     \* what may end the process: "signal", "crash"
  NoValue         \* no command is waiting for a node

ASSUME RuntimeAssumption ==
  /\ PersistEvery \in Nat
  /\ DOMAIN ClientValues = Nodes
  /\ \A i \in Nodes : ClientValues[i] \subseteq EdgeValues(DataType[i])
  /\ Interrupts \subseteq {"signal", "crash"}
  /\ \A i \in Nodes : NoValue \notin EdgeValues(DataType[i])

VARIABLES
  pending,   \* node -> its pending_write
  tick,      \* tick_count modulo persist_every_n_ticks
  running    \* g_running

runtimeVars == <<pending, tick, running>>

vars == <<controlVars, value, modbusVars, eventVars, storeVars, runtimeVars>>

TickLabels == {"drain", "poll", "scan", "events", "persist", "rows"}

StopLabels == {"final", "finalrows", "closing"}

Labels == TickLabels \cup StopLabels \cup {"idle", "down"}

NonePending == [i \in Nodes |-> FALSE]

(* The first start, on a new database. *)
Init ==
  /\ pc = "idle"
  /\ cursor = 1
  /\ value = [i \in Nodes |-> 0]
  /\ ModbusInit
  /\ StoreInit
  /\ EventsInit
  /\ pending = NonePending
  /\ tick = 0
  /\ running = TRUE

-----------------------------------------------------------------------------

(* An OPC UA client writes a node of its data type and gets Good. *)
write_edge_node(i, v) ==
  /\ pc = "idle"
  /\ i \in Writable
  /\ value' = [value EXCEPT ![i] = v]
  /\ pending' = [pending EXCEPT ![i] = TRUE]
  /\ UNCHANGED <<controlVars, modbusVars, eventVars, storeVars, tick, running>>

ClientWrites == \E i \in Nodes : \E v \in ClientValues[i] : write_edge_node(i, v)

(* Mutant: the tick polls without draining the commands first. *)
TickPollsFirst ==
  /\ pc = "idle"
  /\ tick' = IF PersistEvery = 0 THEN 0 ELSE (tick + 1) % PersistEvery
  /\ Goto("poll")
  /\ UNCHANGED <<value, modbusVars, eventVars, storeVars, pending, running>>

(* The repeated callback fires. *)
TickBegins ==
  /\ pc = "idle"
  /\ tick' = IF PersistEvery = 0 THEN 0 ELSE (tick + 1) % PersistEvery
  /\ Goto("drain")
  /\ UNCHANGED <<value, modbusVars, eventVars, storeVars, pending, running>>

-----------------------------------------------------------------------------
(* drain_pending_writes *)

DrainSkips ==
  /\ AtNode("drain")
  /\ ~(cursor \in Writable /\ pending[cursor])
  /\ Advance
  /\ UNCHANGED <<value, modbusVars, eventVars, storeVars, runtimeVars>>

DrainConnects ==
  /\ AtNode("drain")
  /\ pending[cursor]
  /\ WriteConnects(cursor)
  /\ UNCHANGED <<controlVars, value, eventVars, storeVars, runtimeVars>>

(* Mutant: a command whose write failed stays pending. *)
PendingUnlessDone(i) ==
  pending' = [pending EXCEPT ![i] = ~(reachable /\ connected)]

(* The status of the write is ignored. *)
PendingCleared(i) == pending' = [pending EXCEPT ![i] = FALSE]

DrainWrites ==
  /\ AtNode("drain")
  /\ cursor \in Writable
  /\ pending[cursor]
  /\ edge_modbus_write_node(cursor)
  /\ PendingCleared(cursor)
  /\ Advance
  /\ UNCHANGED <<value, eventVars, storeVars, tick, running>>

DrainDone ==
  /\ PastNodes("drain")
  /\ Goto("poll")
  /\ UNCHANGED <<value, modbusVars, eventVars, storeVars, runtimeVars>>

drain_pending_writes == DrainSkips \/ DrainConnects \/ DrainWrites \/ DrainDone

-----------------------------------------------------------------------------
(* The rest of the tick. *)

Polls ==
  /\ edge_modbus_poll("events")
  /\ UNCHANGED <<eventVars, storeVars, runtimeVars>>

AfterEvents == IF PersistEvery # 0 /\ tick = 0 THEN "persist" ELSE "idle"

EvaluatesEvents ==
  /\ edge_events_evaluate(AfterEvents)
  /\ UNCHANGED <<modbusVars, runtimeVars>>

Persists ==
  /\ edge_store_persist_latest_values("persist", "rows", "idle")
  /\ UNCHANGED <<modbusVars, eventVars, runtimeVars>>

edge_runtime_tick == drain_pending_writes \/ Polls \/ EvaluatesEvents \/ Persists

-----------------------------------------------------------------------------
(* The life of the process. *)

(* SIGINT or SIGTERM, at any time. *)
handle_signal ==
  /\ "signal" \in Interrupts
  /\ pc # "down"
  /\ running
  /\ running' = FALSE
  /\ UNCHANGED <<controlVars, value, modbusVars, eventVars, storeVars, pending, tick>>

(* Mutant: the process closes without a last persist. *)
ServerStopsAtOnce ==
  /\ pc = "idle"
  /\ ~running
  /\ Goto("closing")
  /\ UNCHANGED <<value, modbusVars, eventVars, storeVars, runtimeVars>>

(* The server loop notices; the ticks that its shutdown still runs are     *)
(* TickBegins steps taken before this one.                                 *)
ServerStops ==
  /\ pc = "idle"
  /\ ~running
  /\ Goto("final")
  /\ UNCHANGED <<value, modbusVars, eventVars, storeVars, runtimeVars>>

FinalPersists ==
  /\ edge_store_persist_latest_values("final", "finalrows", "closing")
  /\ UNCHANGED <<modbusVars, eventVars, runtimeVars>>

(* What the end of the process does to the state: connections go, and with *)
(* the database connection an open transaction.                            *)
ProcessEnds ==
  /\ Goto("down")
  /\ ModbusCleared
  /\ Rollback
  /\ pending' = NonePending
  /\ tick' = 0
  /\ UNCHANGED <<value, eventVars, dbLock, running>>

Closes == pc = "closing" /\ ProcessEnds

Crash == "crash" \in Interrupts /\ pc # "down" /\ ProcessEnds

(* main() up to the first tick.  The model is saved first, so the start    *)
(* needs the database; values come from latest_values, node by node, also  *)
(* past a SELECT that was refused; latches are clear.                      *)
Starts ==
  /\ pc = "down"
  /\ dbLock = "free"
  /\ Goto("idle")
  /\ \E v \in [Nodes -> UNION {RestoredValues(i) : i \in Nodes}] :
       /\ \A i \in Nodes : v[i] \in RestoredValues(i)
       /\ value' = v
  /\ active' = [e \in Events |-> FALSE]
  /\ checked' = 0
  /\ notes' = [e \in Events |-> 0]
  /\ dbRows' = [e \in Events |-> 0]
  /\ txRows' = [e \in Events |-> 0]
  /\ running' = TRUE
  /\ UNCHANGED <<modbusVars, dbLatest, txLatest, txOpen, dbLock, pending, tick>>

-----------------------------------------------------------------------------

OutsideModbus ==
  /\ PlantChange \/ LinkChange \/ Elapse
  /\ UNCHANGED <<eventVars, storeVars, runtimeVars>>

OutsideStore ==
  /\ OtherProcess(pc \in {"rows", "finalrows"})
  /\ UNCHANGED <<modbusVars, eventVars, runtimeVars>>

ServerStep == edge_runtime_tick \/ FinalPersists \/ Closes

Next ==
  \/ ClientWrites
  \/ TickBegins
  \/ ServerStep
  \/ handle_signal
  \/ ServerStops
  \/ Crash
  \/ Starts
  \/ OutsideModbus
  \/ OutsideStore

Spec == Init /\ [][Next]_vars

(***************************************************************************)
(* Fairness.  open62541 runs the timed callback and the callback runs to   *)
(* its end, every blocking call of it being bounded by a timeout; the      *)
(* clock goes on; the server loop looks at g_running after every           *)
(* iteration, so it stops if it could stop again and again.  Nothing is    *)
(* assumed of clients, signals, the plant, the network, other processes    *)
(* or the supervisor.                                                      *)
(***************************************************************************)
ClockAdvances == Elapse /\ UNCHANGED <<eventVars, storeVars, runtimeVars>>

Fairness ==
  /\ WF_vars(TickBegins)
  /\ WF_vars(ServerStep)
  /\ SF_vars(ServerStops)
  /\ WF_vars(ClockAdvances)

FairSpec == Spec /\ Fairness

-----------------------------------------------------------------------------
(* Properties. *)

LoopsOverNodes == {"drain", "scan", "rows", "finalrows"}

ControlTypeOK ==
  /\ pc \in Labels
  /\ cursor \in Nat \ {0}
  /\ pc \in LoopsOverNodes => cursor <= NodeCount + 1
  /\ pc = "events" => cursor <= EventCount + 1

RuntimeTypeOK ==
  /\ pending \in [Nodes -> BOOLEAN]
  /\ tick \in Nat
  /\ running \in BOOLEAN

(* Every variable keeps its type; a node keeps a value of its data type    *)
(* whatever is written, polled or restored.                                *)
TypeOK ==
  /\ ControlTypeOK
  /\ NodeValues(value)
  /\ ModbusTypeOK
  /\ StoreTypeOK
  /\ EventsTypeOK
  /\ RuntimeTypeOK

(* While edge_modbus_poll holds a unit in current_unit, the context really *)
(* addresses that unit: no reconnect and no write of another node's        *)
(* command comes between modbus_set_slave and the read that relies on it.  *)
CacheCoherent == pc = "scan" /\ currentUnit # NoUnit => slave = currentUnit

(* The k-th register the template gives node i, and the nodes whose        *)
(* registers a Modbus request can name.                                    *)
OwnRegister(i, k) == <<Unit[i], Register[i] - RegisterBase + k - 1>>

Addressable(i) == Register[i] - RegisterBase < OffsetSpace

(* A poll changes a node only to the decoding of the registers the         *)
(* template gives that node, of its own unit, at the moment of the read.   *)
(* A node whose register is beyond the address space is the exception: the *)
(* parser accepts it, and the request reads another node's register.       *)
ReadsOwnRegisters ==
  [][pc = "scan" /\ value' # value /\ Addressable(cursor) =>
       value' = [value EXCEPT ![cursor] =
                   apply_registers_to_node(DataType[cursor], Scale[cursor],
                     [k \in 1 .. Width(cursor) |-> plc[OwnRegister(cursor, k)]])]]_vars

(* Between the plant's own changes, a command changes no register but      *)
(* those the template gives its node, whatever was connected, refused or   *)
(* half done before; a node beyond the address space excepted.             *)
CommandsStayOnNode ==
  [][pc = "drain" /\ cursor \in Nodes /\ Addressable(cursor) =>
       \A a \in Device \ PlantDriven :
         plc'[a] # plc[a] => \E k \in 1 .. Width(cursor) : a = OwnRegister(cursor, k)]_vars

(* Reconnect attempts are spaced by the backoff: never more than           *)
(* BackoffMax away, never delayed once connected, and the delay restarts   *)
(* from BackoffInitial after a success.                                    *)
RetryWindow ==
  /\ retryIn <= backoff
  /\ backoff \in {0} \cup (BackoffInitial .. BackoffMax)
  /\ connected => backoff = 0

(* The gateway implements CommandMailbox: an acknowledged command reaches  *)
(* the PLC at most once, with the value of the last acknowledged write and *)
(* never with a value polled in between.                                   *)
Mailbox == INSTANCE CommandMailbox
             WITH slot <- [i \in Nodes |-> IF pending[i] THEN value[i] ELSE NoValue],
                  regs <- plc

MailboxSpec == Mailbox!Spec

(* While the gateway runs, every notification it sent has its              *)
(* event_history row, in the tables as its own connection sees them.       *)
NotifiedHasHistory ==
  pc # "down" => \A e \in Events : notes[e] <= txRows[e]

(* As long as an event's condition holds, noisy or repeated evaluations    *)
(* write one event_history row and send one notification at most.          *)
OneRowPerActivation == \A e \in Events : txRows[e] <= 1 /\ notes[e] <= 1

(* The transaction of a finished edge_store_persist_latest_values is open. *)
LeftOpen == txOpen /\ pc \notin {"rows", "finalrows"}

(* A notification stands for a committed row: no crash or shutdown takes   *)
(* the history of an alarm that operators have seen, unless it also takes  *)
(* a transaction that had been left open.                                  *)
NotifiedIsDurable ==
  [][pc # "down" /\ ~LeftOpen => \A e \in Events : notes'[e] <= dbRows'[e]]_vars

(* edge_store_persist_latest_values leaves its transaction open only after *)
(* a refused COMMIT, and nothing else ever opens one.                      *)
TransactionClosed ==
  [][~LeftOpen /\ LeftOpen' =>
       dbLock # "free" /\ (PastNodes("rows") \/ PastNodes("finalrows"))]_vars

(* After an evaluation, also one that was cut short by an error, the latch *)
(* of every event it reached agrees with the event's condition.            *)
LatchFollowsCondition ==
  pc \in {"persist", "rows"} =>
    \A e \in 1 .. checked : active[e] = event_condition_met(e)

(* The committed latest_values change only to the values that all nodes    *)
(* have at that moment, never to a mixture of two snapshots.               *)
SnapshotAtomic ==
  [][dbLatest' # dbLatest => \A i \in Nodes : dbLatest'[i] = NodeAsDouble(i)]_vars

(* A start gives every node exactly the value that was committed for it,   *)
(* or leaves it at zero where a writer of another process may have refused *)
(* its SELECT: never another value, and no exception without such writers. *)
RestoresSnapshot ==
  [][pc = "down" /\ pc' = "idle" =>
       \A i \in Nodes : dbLatest[i] # NoRow =>
         \/ edge_node_as_double(DataType[i], value'[i]) = dbLatest[i]
         \/ SelectMayFail /\ value'[i] = 0]_vars

(* The process persists at its end: whatever part of a tick the signal     *)
(* met, it closes the database with the values all nodes have then, not    *)
(* with an older snapshot, unless another process holds a lock, a node is  *)
(* NaN or a transaction had been left open.                                *)
LastValuesStored ==
  [][pc # "closing" /\ pc' = "closing" =>
       \/ \A i \in Nodes : dbLatest'[i] = NodeAsDouble(i)
       \/ dbLock # "free" \/ LeftOpen
       \/ \E i \in Nodes : NodeAsDouble(i) = NaN]_vars

-----------------------------------------------------------------------------
(* Liveness, under FairSpec. *)

Up == pc \notin StopLabels \cup {"down"}

(* If the PLC stays reachable, edge_modbus_poll reads every node whose     *)
(* holding registers the PLC serves, again and again: reconnects, backoff, *)
(* refused units and unmapped nodes starve none of them.                   *)
AllNodesPolled ==
  <>[](reachable /\ Up) =>
    \A i \in Nodes : Mapped(i) /\ Unit[i] \in LegalUnits /\ Serves(Unit[i], i) =>
      []<><<ScanReads /\ cursor = i>>_vars

(* If the database stays free and no notification is refused, every event  *)
(* is evaluated again and again, whatever errors came before.              *)
NoEventStarves ==
  ~EmitMayFail /\ <>[](dbLock = "free" /\ Up) =>
    \A e \in Events : []<>(pc = "events" /\ cursor = e + 1)

SavesAgainAndAgain == []<><<PersistCommits("rows", "idle")>>_vars

DatabaseStaysUsable ==
  <>[](dbLock = "free" /\ Up /\ \A i \in Nodes : NodeAsDouble(i) # NaN)

(* If the database stays free and every node a number, latest_values is    *)
(* committed again and again, whatever crashes, refused transactions and   *)
(* NaNs came before, as long as no COMMIT was refused.                     *)
PersistenceResumes ==
  DatabaseStaysUsable /\ [](PastNodes("rows") => dbLock = "free") => SavesAgainAndAgain

(* A signal ends the process, whatever the PLC, the clients and the locks  *)
(* of other processes do.                                                  *)
StopsEventually == ~running ~> pc = "down"

-----------------------------------------------------------------------------
(* What the repository says of the gateway and the code does not keep.     *)

(* A pending OPC UA write is "committed on the next tick": the drain that  *)
(* takes it leaves its registers in the PLC.                               *)
CommittedOnNextTick ==
  [][\A i \in Nodes : pc = "drain" /\ pending[i] /\ ~pending'[i] =>
       \E image \in Images(i, value[i]) : plc' = Written(plc, i, image)]_vars

(* edge_events_evaluate "emits one notification per active transition". *)
OneNotificationPerTransition ==
  pc \in {"persist", "rows"} => \A e \in Events : active[e] => notes[e] = 1

(* A tick "persists latest values every 50 ticks": once the database stays *)
(* free they are committed, also after a reader got in the way of a COMMIT.*)
PersistsPeriodically == DatabaseStaysUsable => SavesAgainAndAgain
=============================================================================
