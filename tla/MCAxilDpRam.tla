---------------------------- MODULE MCAxilDpRam ----------------------------
(***************************************************************************)
(* Linux writes what its programs write: the control register and the      *)
(* input buffer, an idle word or a request with bit 24 set.  The softcore  *)
(* writes the two acknowledgements of its firmware.  A value may serve     *)
(* several places: that an answer is another place's shows as soon as the  *)
(* two differ.  The lower lanes of what it writes are zero, so the input   *)
(* buffer, which no read through port A sees, stays as it is.              *)
(***************************************************************************)
EXTENDS PortAMemory

MCWritePlaces == {Control, Buffer}
MCStrobes     == {{2}}
MCLinuxWords  == {<<0, 0>>, <<256, 0>>}
MCSoftWords   == {Accepted, IrqReset}
MCOutputWords == {IrqReset}
=============================================================================
