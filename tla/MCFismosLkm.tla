---------------------------- MODULE MCFismosLkm ----------------------------
(***************************************************************************)
(* Two processes, and two values per register so that one can change while *)
(* it is read.  Of the texts, one is shorter than what is parsed, so that  *)
(* it is followed by what is there, one fills it and one is longer.        *)
(***************************************************************************)
EXTENDS FismosLkm

CONSTANTS p1, p2

MCProcesses == {p1, p2}
MCValues    == {0, 1}
MCTexts     == {<<"1">>, <<"2", "0">>, <<"0", "2", "1">>}
=============================================================================
