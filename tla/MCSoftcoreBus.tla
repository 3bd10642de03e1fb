--------------------------- MODULE MCSoftcoreBus ---------------------------
(***************************************************************************)
(* Two values tell every word of the bus apart from its neighbours: an old *)
(* one and a new one.                                                      *)
(***************************************************************************)
EXTENDS SoftcoreMemory

MCValue == {0, 1}
=============================================================================
