---------------------------- MODULE FismosService ----------------------------
(***************************************************************************)
(* The firmware, step by step, implements CommandService: the refinement   *)
(* mapping.                                                                *)
(***************************************************************************)
EXTENDS FismosCore

PhaseOf(p) ==
    CASE p = "reset"  -> "off"
      [] p = "poll"   -> "idle"
      [] p = "accept" -> "taken"
      [] p \in {"refuse", "spin", "trap"} -> "dead"
      [] OTHER -> "busy"

\* What a reader of status register and output buffer takes for the answer.
VisibleAnswer ==
    IF status_register \in DoneWords
    THEN <<job.mode, [k \in 0 .. OutLen(job.mode) - 1 |-> bram_out[k]]>>
    ELSE <<>>

Service == INSTANCE CommandService
    WITH request <- control_register,
         input   <- bram_in,
         offered <- seen,
         phase   <- PhaseOf(pc),
         current <- mode,
         served  <- {m \in Modes : run[m]},
         answer  <- VisibleAnswer

\* The interleaved accesses of firmware and host never show the host more
\* than the atomic service: answers appear whole, are computed from words
\* that were offered, are withdrawn before they change, and a failed module
\* stays silent (main() and the five handlers).
ServiceSpec == Service!Spec
=============================================================================
