-------------------------- MODULE MCFismosLkmLoad ---------------------------
(***************************************************************************)
(* Three processes, so that files stay open while others are opened and    *)
(* closed.                                                                 *)
(***************************************************************************)
EXTENDS FismosLkmLoad

CONSTANTS p1, p2, p3

MCProcesses == {p1, p2, p3}
=============================================================================
