---------------------------- MODULE PortAMemory ----------------------------
(***************************************************************************)
(* Port A, clock edge by clock edge, implements AtomicPort: the refinement *)
(* mapping.                                                                *)
(***************************************************************************)
EXTENDS AxilDpRam

\* The contents of the registers and buffers, by name.
WordsNow ==
    [control |-> control_register, status |-> status_register,
     bram_in |-> bram_in, bram_out |-> bram_out]

\* The writes whose address is among a and whose data are among d.
Joined(a, d) == {[place |-> p, data |-> x.data, strobe |-> x.strobe] : p \in a, x \in d}

\* A write waits once its address and its data are both there.  An access
\* waits no longer when its acceptance is signalled: it has taken effect.
WriteNow == IF port.awready THEN {} ELSE Joined(aw, w)

ReadNow == IF port.arready THEN {} ELSE ar

PortA == INSTANCE AtomicPort
    WITH Writes <- [place : WritePlaces, data : LinuxWords, strobe : Strobes],
         Reads <- Places, Stored <- SoftWords \union OutputWords, Initial <- Word0,
         words <- WordsNow, write <- WriteNow, read <- ReadNow, answer <- rdata

\* However the parts of an access arrive and however late its answer is
\* taken, each access of Linux takes effect at one moment while it is offered,
\* and what a read answers is what its place held at that moment: a program
\* may be thought of as accessing the shared memory in single steps (port A).
PortAtomic == PortA!Spec
=============================================================================
