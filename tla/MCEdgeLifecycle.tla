-------------------------- MODULE MCEdgeLifecycle --------------------------
(***************************************************************************)
(* Instances of EdgeLifecycle: an operator edits the template between      *)
(* starts, renaming the plant, giving a node another data type, adding a   *)
(* node, dropping an event, or leaving a NaN scale in it.  Registers have  *)
(* four values here, and 1.0 is two quanta.                                *)
(***************************************************************************)
EXTENDS EdgeLifecycle

Entity(id, definition) == [id |-> id, definition |-> definition]

EditedTemplates ==
  [first  |-> [plant |-> Entity("p", "v1"), assets |-> <<Entity("a", "v1")>>,
               nodes |-> <<Entity("n", "v1")>>, events |-> <<Entity("e", "v1")>>],
   second |-> [plant |-> Entity("q", "v1"), assets |-> <<Entity("a", "v2")>>,
               nodes |-> <<Entity("m", "v4"), Entity("n", "v2")>>, events |-> <<>>],
   broken |-> [plant |-> Entity("p", "v3"), assets |-> <<Entity("a", "v3")>>,
               nodes |-> <<Entity("n", Null)>>, events |-> <<>>]]

EditedTypes ==
  [d \in {"v1", "v2", "v4", Null} |->
     CASE d = "v2" -> "int16" [] d = "v4" -> "bool" [] OTHER -> "double"]

FewSamples ==
  [bool |-> {}, int16 |-> {-1}, int32 |-> {}, uint32 |-> {}, double |-> {3, NaN}]
=============================================================================
