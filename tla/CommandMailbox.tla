--------------------------- MODULE CommandMailbox --------------------------
(***************************************************************************)
(* What OPC UA clients may rely on when a write is answered Good: each     *)
(* node has a one-place mailbox that holds the last acknowledged command;  *)
(* the gateway takes a command out at most once, and writes it, unchanged, *)
(* to the registers of that node or not at all.  Nothing else the gateway  *)
(* does changes a register.                                                *)
(***************************************************************************)
CONSTANTS
  Nodes, Writable, ClientValues, NoValue,
  Device, PlantDriven, Words,
  Images(_, _),       \* the register images of a value of a node
  Written(_, _, _)    \* the registers after an image is written for a node

VARIABLES
  slot,   \* node -> the command waiting for it, or NoValue
  regs    \* the registers of the PLC

mailboxVars == <<slot, regs>>

Init ==
  /\ slot = [i \in Nodes |-> NoValue]
  /\ regs = [a \in Device |-> 0]

Acknowledge(i, v) ==
  /\ slot' = [slot EXCEPT ![i] = v]
  /\ UNCHANGED regs

Take(i) ==
  /\ slot[i] # NoValue
  /\ slot' = [slot EXCEPT ![i] = NoValue]
  /\ \/ UNCHANGED regs
     \/ \E image \in Images(i, slot[i]) : regs' = Written(regs, i, image)

(* The process ends: commands that were not taken are lost. *)
Lose ==
  /\ slot' = [i \in Nodes |-> NoValue]
  /\ UNCHANGED regs

PlantMoves ==
  /\ \E a \in PlantDriven, w \in Words : regs' = [regs EXCEPT ![a] = w]
  /\ UNCHANGED slot

Next ==
  \/ \E i \in Writable : \E v \in ClientValues[i] : Acknowledge(i, v)
  \/ \E i \in Nodes : Take(i)
  \/ Lose
  \/ PlantMoves

Spec == Init /\ [][Next]_mailboxVars
=============================================================================
