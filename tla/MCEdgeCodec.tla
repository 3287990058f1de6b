---------------------------- MODULE MCEdgeCodec ----------------------------
(***************************************************************************)
(* EdgeCodec with four-valued registers: every integer of every type, and  *)
(* doubles up to beyond the range of long, in steps of half a unit.        *)
(***************************************************************************)
EXTENDS EdgeCodec

MCScales == {-3, 0, 1, 2, 5}

MCSamples == (-40 .. 40) \cup NonFinite
=============================================================================
