--------------------------- MODULE SoftcoreMemory ---------------------------
(***************************************************************************)
(* The bus, clock edge by clock edge, implements AtomicMemory: the         *)
(* refinement mapping.                                                     *)
(***************************************************************************)
EXTENDS SoftcoreBus

\* The contents of the registers and memories, by name.
WordsNow ==
    [control |-> control_register, status |-> status_register,
     bram_in |-> bram_in, bram_out |-> bram_out, ram |-> ram, out32bit |-> out32bit]

PhaseNow ==
    IF ~mem_valid THEN "free" ELSE IF mem_ready THEN "answered" ELSE "offered"

AccessNow == [store |-> writing, place |-> place, data |-> wdata]

\* What the core would latch at the next edge.
AnswerNow == IF mem_xfer /\ ~writing THEN <<mem_rdata>> ELSE <<>>

Memory == INSTANCE AtomicMemory
    WITH words <- WordsNow, phase <- PhaseNow, access <- AccessNow, answer <- AnswerNow,
         resetting <- ~out_reset

\* Whatever is reset, remembered or answered late, an access of the firmware
\* takes effect at one moment while it is offered, and what a load returns is
\* what its place held at that moment: the firmware may be thought of as
\* accessing the shared memory in single steps (the bus of fismos.v, the
\* adapter, port B and the slaves).
MemorySpec == Memory!Spec
=============================================================================
