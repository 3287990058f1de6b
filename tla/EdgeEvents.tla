---------------------------- MODULE EdgeEvents -----------------------------
(***************************************************************************)
(* src/edge_events.c: threshold events with a latch each, a history row    *)
(* and an OPC UA notification when the latch is set.                       *)
(*                                                                         *)
(* An activation of an event lasts from one evaluation that finds its      *)
(* condition false (or a start of the process) to the next; notes, txRows  *)
(* and dbRows count within the present activation.                         *)
(***************************************************************************)
EXTENDS EdgeStore

CONSTANTS
  Source,       \* event -> its source_node
  Condition,    \* event -> "greater" or "less"
  Threshold,    \* event -> its threshold
  EmitMayFail   \* open62541 may refuse a notification (memory, message size)

ASSUME EventAssumption ==
  /\ Source \in [Events -> Nodes]
  /\ Condition \in [Events -> {"greater", "less"}]
  /\ Threshold \in [Events -> Doubles]
  /\ EmitMayFail \in BOOLEAN

VARIABLES
  active,    \* event -> its latch
  checked,   \* last_event_stats.checked_count, once the loop is entered
  notes      \* event -> notifications emitted in its activation

eventVars == <<active, checked, notes>>

EventsTypeOK ==
  /\ active \in [Events -> BOOLEAN]
  /\ checked \in 0 .. EventCount
  /\ notes \in [Events -> 0 .. RowCap]

EventsInit ==
  /\ active = [e \in Events |-> FALSE]
  /\ checked = 0
  /\ notes = [e \in Events |-> 0]

(* x > y for doubles: no comparison with a NaN is true. *)
GreaterThan(x, y) ==
  /\ x # NaN /\ y # NaN
  /\ x # NegInf /\ y # PosInf
  /\ \/ x = PosInf
     \/ y = NegInf
     \/ x \in Int /\ y \in Int /\ x > y

event_condition_met(e) ==
  IF Condition[e] = "greater" THEN GreaterThan(NodeAsDouble(Source[e]), Threshold[e])
                              ELSE GreaterThan(Threshold[e], NodeAsDouble(Source[e]))

-----------------------------------------------------------------------------
(* edge_events_evaluate, at label "events", returning to ret. *)

AtEvent == pc = "events" /\ cursor \in Events

Rises(e) == event_condition_met(e) /\ ~active[e]

(* Mutant: the latch is set only once the history row is in. *)
LatchAfterInsert(e) == active' = [active EXCEPT ![e] = InsertSucceeds]

(* Mutant: the latch is not set. *)
LatchForgotten(e) == UNCHANGED active

Latch(e) == active' = [active EXCEPT ![e] = TRUE]

(* Mutant: the notification goes out before the insert is tried. *)
EventEmittedFirst(ret) ==
  /\ AtEvent
  /\ Rises(cursor)
  /\ Latch(cursor)
  /\ ~InsertSucceeds
  /\ notes' = Counted(notes, cursor)
  /\ checked' = cursor
  /\ Goto(ret)
  /\ UNCHANGED <<value, storeVars>>

EventInsertFails(ret) ==
  /\ AtEvent
  /\ Rises(cursor)
  /\ Latch(cursor)
  /\ ~InsertSucceeds
  /\ checked' = cursor
  /\ Goto(ret)
  /\ UNCHANGED <<value, notes, storeVars>>

EventEmitFails(ret) ==
  /\ AtEvent
  /\ Rises(cursor)
  /\ Latch(cursor)
  /\ InsertSucceeds
  /\ edge_store_insert_event_history(cursor)
  /\ EmitMayFail
  /\ checked' = cursor
  /\ Goto(ret)
  /\ UNCHANGED <<value, notes>>

emit_opcua_event(e) == notes' = Counted(notes, e)

EventFires ==
  /\ AtEvent
  /\ Rises(cursor)
  /\ Latch(cursor)
  /\ InsertSucceeds
  /\ edge_store_insert_event_history(cursor)
  /\ emit_opcua_event(cursor)
  /\ checked' = cursor
  /\ Advance
  /\ UNCHANGED value

(* Mutant: an event that is already active ends the loop. *)
EventHoldsAndBreaks ==
  /\ AtEvent
  /\ event_condition_met(cursor)
  /\ active[cursor]
  /\ checked' = cursor
  /\ pc' = pc /\ cursor' = EventCount + 1
  /\ UNCHANGED <<value, active, notes, storeVars>>

EventHolds ==
  /\ AtEvent
  /\ event_condition_met(cursor)
  /\ active[cursor]
  /\ checked' = cursor
  /\ Advance
  /\ UNCHANGED <<value, active, notes, storeVars>>

EventClears ==
  /\ AtEvent
  /\ ~event_condition_met(cursor)
  /\ active' = [active EXCEPT ![cursor] = FALSE]
  /\ notes' = [notes EXCEPT ![cursor] = 0]
  /\ txRows' = [txRows EXCEPT ![cursor] = 0]
  /\ dbRows' = [dbRows EXCEPT ![cursor] = 0]
  /\ checked' = cursor
  /\ Advance
  /\ UNCHANGED <<value, dbLatest, txLatest, txOpen, dbLock>>

EventsDone(ret) ==
  /\ pc = "events"
  /\ cursor = EventCount + 1
  /\ Goto(ret)
  /\ UNCHANGED <<value, eventVars, storeVars>>

edge_events_evaluate(ret) ==
  \/ EventInsertFails(ret)
  \/ EventEmitFails(ret)
  \/ EventFires
  \/ EventHolds
  \/ EventClears
  \/ EventsDone(ret)
=============================================================================
