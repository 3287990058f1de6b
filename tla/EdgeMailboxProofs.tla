------------------------- MODULE EdgeMailboxProofs -------------------------
(***************************************************************************)
(* The gateway implements CommandMailbox, and a command stays on the       *)
(* registers of its node, for every template, PLC and schedule.            *)
(*                                                                         *)
(* The argument for the refinement: a poll or a restore changes values     *)
(* only while no command is waiting (Drained), because the drain that      *)
(* precedes the poll leaves nothing behind its cursor; so a slot changes   *)
(* only when a client writes, when the drain takes it, or when the process *)
(* ends.                                                                   *)
(***************************************************************************)
EXTENDS EdgeRuntimeProofs

(* Where nothing is waiting: from the end of the drain to the end of the   *)
(* tick, and while no process runs.                                        *)
AfterDrain == {"poll", "scan", "events", "persist", "rows", "down"}

Drained ==
  /\ \A i \in Nodes : pending[i] => i \in Writable
  /\ pc = "drain" => \A i \in 1 .. cursor - 1 : ~pending[i]
  /\ pc \in AfterDrain => \A i \in Nodes : ~pending[i]

MailInv == TypeOK /\ Drained

-----------------------------------------------------------------------------

(* Steps of a tick past the drain, and how they move. *)
LEMMA TickMoves ==
  ASSUME Polls \/ EvaluatesEvents \/ Persists
  PROVE  pc \in AfterDrain /\ pc # "down" /\ pc' # "drain" /\ UNCHANGED pending
<1>1. CASE Polls
  BY <1>1 DEF Polls, edge_modbus_poll, PollDisabled, PollConnects, PollNoConnection, PollEnters,
     ScanSkips, ScanUnitRefused, ScanRequests, ScanReads, ScanFails, ScanDone, AtNode, PastNodes,
     Goto, Advance, controlVars, runtimeVars, AfterDrain
<1>2. CASE EvaluatesEvents
  BY <1>2 DEF EvaluatesEvents, edge_events_evaluate, EventInsertFails, EventEmitFails, EventFires,
     EventHolds, EventClears, EventsDone, AtEvent, Goto, Advance, AfterEvents, runtimeVars, AfterDrain
<1>3. CASE Persists
  BY <1>3 DEF Persists, edge_store_persist_latest_values, PersistRefused, PersistBegins, PersistRow,
     PersistRowFails, PersistCommits, PersistCommitBusy, AtNode, PastNodes, Goto, Advance,
     runtimeVars, AfterDrain
<1> QED BY <1>1, <1>2, <1>3

LEMMA FinalMoves ==
  ASSUME FinalPersists
  PROVE  pc' \notin AfterDrain /\ pc' # "drain" /\ UNCHANGED <<pending, value, plc>>
  BY DEF FinalPersists, edge_store_persist_latest_values, PersistRefused, PersistBegins, PersistRow,
     PersistRowFails, PersistCommits, PersistCommitBusy, AtNode, PastNodes, Goto, Advance,
     runtimeVars, modbusVars, AfterDrain

(* The drain passes a node only when no command waits for it. *)
LEMMA DrainDrained ==
  ASSUME MailInv, drain_pending_writes
  PROVE  Drained'
<1>0. /\ pending \in [Nodes -> BOOLEAN] /\ cursor \in Nat \ {0} /\ NodeCount \in Nat
      /\ \A i \in Nodes : pending[i] => i \in Writable
  BY ModelAssumption DEF MailInv, Drained, TypeOK, RuntimeTypeOK, ControlTypeOK
<1>1. CASE DrainSkips
  <2>1. /\ pc = "drain" /\ pc' = "drain" /\ cursor' = cursor + 1 /\ UNCHANGED pending
        /\ cursor \in Nodes /\ ~pending[cursor]
    BY <1>0, <1>1 DEF DrainSkips, AtNode, Advance, runtimeVars
  <2>2. \A i \in 1 .. cursor' - 1 : i \in 1 .. cursor - 1 \/ i = cursor
    BY <1>0, <2>1
  <2> QED BY <2>1, <2>2 DEF MailInv, Drained, AfterDrain
<1>2. CASE DrainConnects
  BY <1>2 DEF DrainConnects, AtNode, controlVars, runtimeVars, MailInv, Drained, AfterDrain
<1>3. CASE DrainWrites
  <2>1. /\ pc = "drain" /\ pc' = "drain" /\ cursor' = cursor + 1 /\ cursor \in Nodes
        /\ pending' = [pending EXCEPT ![cursor] = FALSE]
    BY <1>3 DEF DrainWrites, AtNode, Advance, PendingCleared
  <2>2. \A i \in 1 .. cursor' - 1 : i = cursor \/ (i \in 1 .. cursor - 1 /\ i \in Nodes)
    BY <1>0, <2>1 DEF Nodes
  <2>3. \A i \in Nodes : pending'[i] => i \in Writable
    BY <1>0, <2>1
  <2>4. \A i \in 1 .. cursor' - 1 : ~pending'[i]
    BY <1>0, <2>1, <2>2 DEF MailInv, Drained
  <2> QED BY <2>1, <2>3, <2>4 DEF Drained, AfterDrain
<1>4. CASE DrainDone
  <2>1. /\ pc = "drain" /\ cursor = NodeCount + 1 /\ pc' = "poll" /\ UNCHANGED pending
    BY <1>4 DEF DrainDone, PastNodes, Goto, runtimeVars
  <2>2. \A i \in Nodes : i \in 1 .. cursor - 1
    BY <1>0, <2>1 DEF Nodes
  <2> QED BY <2>1, <2>2 DEF MailInv, Drained
<1> QED BY <1>1, <1>2, <1>3, <1>4 DEF drain_pending_writes

LEMMA DrainedNext == MailInv /\ [Next]_vars => MailInv'
<1> SUFFICES ASSUME MailInv, [Next]_vars PROVE Drained'
  BY TypeOKNext DEF MailInv
<1>0. pending \in [Nodes -> BOOLEAN]
  BY DEF MailInv, TypeOK, RuntimeTypeOK
<1>1. CASE ClientWrites
  BY <1>0, <1>1 DEF ClientWrites, write_edge_node, controlVars, MailInv, Drained, AfterDrain
<1>2. CASE TickBegins
  BY <1>2 DEF TickBegins, Goto, MailInv, Drained, AfterDrain
<1>3. CASE Polls \/ EvaluatesEvents \/ Persists
  BY <1>3, TickMoves DEF MailInv, Drained
<1>4. CASE FinalPersists
  BY <1>4, FinalMoves DEF MailInv, Drained
<1>5. CASE ServerStops
  BY <1>5 DEF ServerStops, Goto, runtimeVars, MailInv, Drained, AfterDrain
<1>6. CASE Closes \/ Crash
  BY <1>6 DEF Closes, Crash, ProcessEnds, NonePending, Goto, Drained, AfterDrain
<1>7. CASE Starts
  BY <1>7 DEF Starts, Goto, MailInv, Drained, AfterDrain
<1>8. CASE handle_signal \/ OutsideModbus \/ OutsideStore \/ UNCHANGED vars
  BY <1>8 DEF handle_signal, OutsideModbus, PlantChange, LinkChange, Elapse, OutsideStore,
     OtherProcess, vars, controlVars, runtimeVars, MailInv, Drained
<1> QED
  BY <1>1, <1>2, <1>3, <1>4, <1>5, <1>6, <1>7, <1>8, DrainDrained
     DEF Next, ServerStep, edge_runtime_tick

LEMMA MailInvAlways == Spec => []MailInv
<1>1. Init => MailInv
  BY TypeOKInit DEF Init, NonePending, MailInv, Drained
<1> QED BY <1>1, DrainedNext, PTL DEF Spec

-----------------------------------------------------------------------------
(* The refinement, step by step. *)

Slots == [i \in Nodes |-> IF pending[i] THEN value[i] ELSE NoValue]

LEMMA WriteNodeRegisters ==
  ASSUME NEW i \in Nodes, edge_modbus_write_node(i)
  PROVE  \/ UNCHANGED plc
         \/ WriteWanted(i) /\ \E image \in Images(i, value[i]) : plc' = Written(plc, i, image)
  BY DEF edge_modbus_write_node, WriteNotWanted, WriteNoConnection, WriteUnitRefused,
         WriteAcknowledged, WriteFails, modbusVars

LEMMA ClientAcknowledges == MailInv /\ ClientWrites => Mailbox!Next
<1> SUFFICES ASSUME MailInv, ClientWrites PROVE Mailbox!Next
  OBVIOUS
<1>1. PICK i \in Nodes : \E v \in ClientValues[i] : write_edge_node(i, v)
  BY DEF ClientWrites
<1>2. PICK v \in ClientValues[i] : write_edge_node(i, v)
  BY <1>1
<1>3. i \in Writable /\ UNCHANGED plc
  BY <1>2 DEF write_edge_node, modbusVars
<1>4. Slots' = [Slots EXCEPT ![i] = v]
  BY <1>2 DEF write_edge_node, Slots, MailInv, TypeOK, NodeValues, RuntimeTypeOK
<1>5. Mailbox!Acknowledge(i, v)
  BY <1>3, <1>4 DEF Mailbox!Acknowledge, Slots
<1>6. \E j \in Writable : \E w \in ClientValues[j] : Mailbox!Acknowledge(j, w)
  <2>1. \E w \in ClientValues[i] : Mailbox!Acknowledge(i, w)
    <3> WITNESS v \in ClientValues[i]
    <3> QED BY <1>5
  <2> QED BY <1>3, <2>1
<1> QED BY <1>6 DEF Mailbox!Next

LEMMA DrainTakes == MailInv /\ DrainWrites => Mailbox!Next
<1> SUFFICES ASSUME MailInv, DrainWrites PROVE Mailbox!Next
  OBVIOUS
<1>1. /\ cursor \in Nodes /\ pending[cursor] /\ edge_modbus_write_node(cursor)
      /\ pending' = [pending EXCEPT ![cursor] = FALSE] /\ UNCHANGED value
  BY DEF DrainWrites, AtNode, PendingCleared
<1>2. Slots[cursor] = value[cursor] /\ value[cursor] # NoValue
  BY <1>1, RuntimeAssumption DEF Slots, MailInv, TypeOK, NodeValues
<1>3. Slots' = [Slots EXCEPT ![cursor] = NoValue]
  BY <1>1 DEF Slots, MailInv, TypeOK, RuntimeTypeOK
<1>4. UNCHANGED plc \/ \E image \in Images(cursor, Slots[cursor]) : plc' = Written(plc, cursor, image)
  BY <1>1, <1>2, WriteNodeRegisters
<1>5. PICK i \in Nodes : i = cursor
  BY <1>1
<1>6. Mailbox!Take(i)
  BY <1>2, <1>3, <1>4, <1>5 DEF Mailbox!Take, Slots
<1>7. \E j \in Nodes : Mailbox!Take(j)
  <2> WITNESS i \in Nodes
  <2> QED BY <1>6
<1> QED BY <1>7 DEF Mailbox!Next

(* The end of the process loses what was waiting. *)
LEMMA EndLoses == MailInv /\ ProcessEnds => Mailbox!Next
<1> SUFFICES ASSUME MailInv, ProcessEnds PROVE Mailbox!Next
  OBVIOUS
<1>1. Slots' = [i \in Nodes |-> NoValue] /\ UNCHANGED plc
  BY DEF ProcessEnds, NonePending, ModbusCleared, Slots
<1>2. Mailbox!Lose
  BY <1>1 DEF Mailbox!Lose, Slots
<1> QED BY <1>2 DEF Mailbox!Next

LEMMA PlantSteps ==
  ASSUME PlantChange, UNCHANGED runtimeVars
  PROVE  Mailbox!Next
<1>1. UNCHANGED Slots /\ \E a \in PlantDriven, w \in Words : plc' = [plc EXCEPT ![a] = w]
  BY DEF PlantChange, runtimeVars, Slots
<1>2. Mailbox!PlantMoves
  BY <1>1 DEF Mailbox!PlantMoves, Slots
<1> QED BY <1>2 DEF Mailbox!Next

(* Steps that leave the slots and the registers alone: the commands and    *)
(* their values stay, or nothing waits and values may change.              *)
LEMMA Stutters ==
  ASSUME UNCHANGED <<pending, plc>>, UNCHANGED value \/ \A i \in Nodes : ~pending[i]
  PROVE  UNCHANGED Mailbox!mailboxVars
<1>1. UNCHANGED Slots
  BY DEF Slots
<1> QED BY <1>1 DEF Mailbox!mailboxVars, Slots

LEMMA MailboxNext == MailInv /\ [Next]_vars => [Mailbox!Next]_(Mailbox!mailboxVars)
<1> SUFFICES ASSUME MailInv, [Next]_vars PROVE Mailbox!Next \/ UNCHANGED Mailbox!mailboxVars
  OBVIOUS
<1>1. CASE ClientWrites
  BY <1>1, ClientAcknowledges
<1>2. CASE DrainWrites
  BY <1>2, DrainTakes
<1>3. CASE DrainSkips \/ DrainConnects \/ DrainDone \/ TickBegins \/ ServerStops
  BY <1>3, Stutters DEF DrainSkips, DrainConnects, WriteConnects, DrainDone, TickBegins, ServerStops,
     runtimeVars, modbusVars
<1>4. CASE Polls \/ EvaluatesEvents \/ Persists
  <2>1. UNCHANGED pending /\ \A i \in Nodes : ~pending[i]
    BY <1>4, TickMoves DEF MailInv, Drained
  <2>2. UNCHANGED plc
    BY <1>4 DEF Polls, edge_modbus_poll, PollDisabled, PollConnects, PollNoConnection, PollEnters,
       ScanSkips, ScanUnitRefused, ScanReads, ScanFails, ScanDone, EvaluatesEvents, Persists, modbusVars
  <2> QED BY <2>1, <2>2, Stutters
<1>5. CASE FinalPersists
  BY <1>5, FinalMoves, Stutters
<1>6. CASE Closes \/ Crash
  BY <1>6, EndLoses DEF Closes, Crash
<1>7. CASE Starts
  <2>1. UNCHANGED <<pending, plc>> /\ \A i \in Nodes : ~pending[i]
    BY <1>7 DEF Starts, modbusVars, MailInv, Drained, AfterDrain
  <2> QED BY <2>1, Stutters
<1>8. CASE OutsideModbus
  <2>1. CASE PlantChange
    BY <1>8, <2>1, PlantSteps DEF OutsideModbus
  <2>2. CASE LinkChange \/ Elapse
    BY <1>8, <2>2, Stutters DEF OutsideModbus, LinkChange, Elapse, runtimeVars
  <2> QED BY <1>8, <2>1, <2>2 DEF OutsideModbus
<1>9. CASE handle_signal \/ OutsideStore \/ UNCHANGED vars
  BY <1>9, Stutters DEF handle_signal, OutsideStore, OtherProcess, vars, runtimeVars, modbusVars
<1> QED
  BY <1>1, <1>2, <1>3, <1>4, <1>5, <1>6, <1>7, <1>8, <1>9
     DEF Next, ServerStep, edge_runtime_tick, drain_pending_writes

(* The gateway implements the mailbox that clients rely on: an             *)
(* acknowledged write is taken at most once, with the value the client     *)
(* wrote last and never with one that edge_modbus_poll or a restore put in *)
(* its place, and nothing else the gateway does changes a register.        *)
THEOREM ImplementsMailbox == Spec => MailboxSpec
<1>1. Init => Mailbox!Init
  BY DEF Init, NonePending, ModbusInit, Mailbox!Init
<1> QED
  BY <1>1, MailboxNext, MailInvAlways, PTL DEF Spec, MailboxSpec, Mailbox!Spec

-----------------------------------------------------------------------------
(* A command and the registers of its node. *)

LEMMA WrittenElsewhere ==
  ASSUME NEW i \in Nodes, NEW regs, NEW image, NEW a \in Device,
         Mapped(i), Addressable(i), Written(regs, i, image)[a] # regs[a]
  PROVE  \E k \in 1 .. Width(i) : a = OwnRegister(i, k)
<1>1. Register[i] - RegisterBase \in Int /\ Register[i] - RegisterBase \in 0 .. OffsetSpace - 1
  BY ModelAssumption, ModbusAssumption DEF Mapped, Addressable
<1>2. (Register[i] - RegisterBase) % OffsetSpace = Register[i] - RegisterBase
  BY <1>1, ModbusAssumption, ModuloOfSmall
<1>3. \E k \in 1 .. Width(i) : a = Address(Unit[i], i, k)
  BY DEF Written, WrittenTo
<1>4. \A k \in 1 .. Width(i) : Address(Unit[i], i, k) = OwnRegister(i, k)
  BY <1>2 DEF Address, OwnRegister
<1> QED BY <1>3, <1>4

(* While the drain is at a node, the registers that the plant leaves alone *)
(* change only where the template puts that node, whichever unit the       *)
(* connection addressed before and whether or not the answer was lost.     *)
THEOREM CommandsAlwaysStay == Spec => CommandsStayOnNode
<1> DEFINE A == pc = "drain" /\ cursor \in Nodes /\ Addressable(cursor) =>
                  \A a \in Device \ PlantDriven :
                    plc'[a] # plc[a] => \E k \in 1 .. Width(cursor) : a = OwnRegister(cursor, k)
<1>1. ASSUME TypeOK, Next PROVE A
  <2> SUFFICES ASSUME pc = "drain", cursor \in Nodes, Addressable(cursor),
                      NEW a \in Device \ PlantDriven, plc'[a] # plc[a]
               PROVE  \E k \in 1 .. Width(cursor) : a = OwnRegister(cursor, k)
    OBVIOUS
  <2>1. CASE DrainWrites
    <3>1. /\ WriteWanted(cursor)
          /\ \E image \in Images(cursor, value[cursor]) : plc' = Written(plc, cursor, image)
      BY <2>1, WriteNodeRegisters DEF DrainWrites
    <3> QED BY <3>1, WrittenElsewhere DEF WriteWanted
  <2>2. CASE PlantChange
    BY <2>2, <1>1 DEF PlantChange, TypeOK, ModbusTypeOK
  <2>3. CASE ~DrainWrites /\ ~PlantChange
    <3>1. UNCHANGED plc
      BY <1>1, <2>3 DEF Next, ClientWrites, write_edge_node, TickBegins, ServerStep,
         edge_runtime_tick, drain_pending_writes, DrainSkips, DrainConnects, WriteConnects,
         DrainDone, Polls, edge_modbus_poll, PollDisabled, PollConnects, PollNoConnection,
         PollEnters, ScanSkips, ScanUnitRefused, ScanReads, ScanFails, ScanDone,
         EvaluatesEvents, Persists, FinalPersists, Closes, handle_signal, ServerStops, Crash,
         ProcessEnds, ModbusCleared, Starts, OutsideModbus, LinkChange, Elapse, OutsideStore,
         modbusVars
    <3> QED BY <3>1
  <2> QED BY <2>1, <2>2, <2>3
<1>2. TypeOK /\ [Next]_vars => [A]_vars
  BY <1>1 DEF vars
<1> QED
  BY <1>2, TypeCorrect, PTL DEF Spec, CommandsStayOnNode
=============================================================================
