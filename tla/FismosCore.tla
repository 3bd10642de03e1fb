----------------------------- MODULE FismosCore -----------------------------
(***************************************************************************)
(* The firmware of the PicoRV32 and the memory it shares with Linux.       *)
(*                                                                         *)
(* The firmware polls the control register; a mode it implements and has   *)
(* not run since it last saw a zero makes it write two acknowledgements    *)
(* and a "working" status, copy the input buffer word by word, compute,    *)
(* write the output buffer word by word, and write the "done" status.      *)
(* Every single access of shared memory is one action, so the host may     *)
(* write between any two of them; host writes are not constrained.  The    *)
(* softcore can be reset at any time, which leaves shared memory alone.    *)
(*                                                                         *)
(* What a mode computes is a parameter: the word k of the answer of mode m *)
(* to input x is Compute(m, x, k), and Accepts(m, x) is the outcome of the *)
(* memcmp of the two modes that check their input.                         *)
(***************************************************************************)
EXTENDS FismosRegisters

CONSTANTS
    Data,               \* values the host may put in a word of the input
    Zero,               \* the power-up content of a buffer word
    Commands,           \* control words the host may write
    Refused,            \* 0xffffffff, the answer to a failed comparison
    Compute(_, _, _),
    Accepts(_, _)

Inputs  == [Idx -> Data]
Results == {Compute(m, x, k) : m \in Modes, x \in Inputs, k \in Idx}
Outputs == {Zero, Refused} \union Results

ASSUME DataAssumption    == Zero \in Data
ASSUME CommandAssumption == Commands \subseteq Word
\* Only the keystorage and the comparison can reject their input.
ASSUME AcceptsAssumption ==
    \A m \in Modes, x \in Inputs :
        /\ Accepts(m, x) \in BOOLEAN
        /\ m \notin {COMPARE, KEYSTORAGE} => Accepts(m, x)

VARIABLES
    control_register, status_register,  \* axil_dp_ram.v
    bram_in, bram_out,
    pc, mode, i, in, run,               \* the firmware
    seen, job, held                     \* history, see below

shared   == <<control_register, status_register, bram_in, bram_out>>
firmware == <<pc, mode, i, in, run>>
history  == <<seen, job, held>>
vars     == <<shared, firmware, history>>

(***************************************************************************)
(* History variables, read by no guard:                                    *)
(*   seen[k]  the values word k of the input held since the last request   *)
(*            was acknowledged                                             *)
(*   job      the mode and the copied input of the last finished copy      *)
(*   held     the modes completed since when the host has never had a zero *)
(*            in the lower half of the control register                    *)
(***************************************************************************)

-----------------------------------------------------------------------------
(* The firmware                                                            *)

NoneRun == [m \in Modes |-> FALSE]

Init ==
    /\ control_register = <<0, 0>>
    /\ status_register = PowerUp
    /\ bram_in = [k \in Idx |-> Zero]
    /\ bram_out = [k \in Idx |-> Zero]
    /\ pc = "reset"
    /\ mode = AES
    /\ i = 0
    /\ in = [k \in Idx |-> Zero]
    /\ run = NoneRun
    /\ seen = [k \in Idx |-> {Zero}]
    /\ job = [mode |-> AES, input |-> [k \in Idx |-> Zero]]
    /\ held = {}

\* Out of reset: crt0 and the start of main().
Boot ==
    /\ pc = "reset"
    /\ pc' = "poll"
    /\ run' = NoneRun
    /\ UNCHANGED <<shared, mode, i, in, history>>

\* A poll that reads a zero forgets which modes have run.
PollZero ==
    /\ pc = "poll"
    /\ Low(control_register) = 0
    /\ run' = NoneRun
    /\ UNCHANGED <<shared, pc, mode, i, in, history>>

\* A poll that reads a mode the firmware has and has not run yet.
PollRequest ==
    /\ pc = "poll"
    /\ \E m \in Modes :
        /\ Low(control_register) = m
        /\ ~run[m]
        /\ mode' = m
    /\ pc' = "accept"
    /\ UNCHANGED <<shared, i, in, run, history>>

\* FISMOS_set_status_register(0x0000ffff)
Accept ==
    /\ pc = "accept"
    /\ status_register' = Accepted
    /\ pc' = "clear"
    /\ seen' = [k \in Idx |-> {bram_in[k]}]
    /\ UNCHANGED <<control_register, bram_in, bram_out, mode, i, in, run, job, held>>

\* FISMOS_set_status_register(0x00ffffff)
ClearIrq ==
    /\ pc = "clear"
    /\ status_register' = IrqReset
    /\ pc' = "work"
    /\ UNCHANGED <<control_register, bram_in, bram_out, mode, i, in, run, history>>

\* Mutants: the two status words swapped; the copy begins at word 1.
StartWorkSwapped ==
    /\ pc = "work" /\ pc' = "read"
    /\ status_register' = Done(mode)
    /\ i' = 0 /\ in' = [k \in Idx |-> Zero]
    /\ UNCHANGED <<control_register, bram_in, bram_out, mode, run, history>>

StartWorkAtOne ==
    /\ pc = "work" /\ pc' = "read"
    /\ status_register' = Working(mode)
    /\ i' = 1 /\ in' = [k \in Idx |-> Zero]
    /\ UNCHANGED <<control_register, bram_in, bram_out, mode, run, history>>

\* FISMOS_set_status_register(0x000F00xx), then the handler is called.
StartWork ==
    /\ pc = "work"
    /\ status_register' = Working(mode)
    /\ pc' = "read"
    /\ i' = 0
    /\ in' = [k \in Idx |-> Zero]
    /\ UNCHANGED <<control_register, bram_in, bram_out, mode, run, history>>

\* The handler copies one word of the input buffer.
ReadWord ==
    /\ pc = "read"
    /\ in' = [in EXCEPT ![i] = bram_in[i]]
    /\ i' = i + 1
    /\ IF i + 1 = InLen(mode)
       THEN /\ pc' = "compute"
            /\ job' = [mode |-> mode, input |-> in']
       ELSE UNCHANGED <<pc, job>>
    /\ UNCHANGED <<shared, mode, run, seen, held>>

\* Mutant: "done" is reported before the output is written.
ComputeAcceptEarly ==
    /\ pc = "compute" /\ Accepts(mode, in)
    /\ pc' = "finish" /\ i' = 0
    /\ UNCHANGED <<shared, mode, in, run, history>>

\* The computation succeeds and the input, where it is checked, matches.
ComputeAccept ==
    /\ pc = "compute"
    /\ Accepts(mode, in)
    /\ pc' = "write"
    /\ i' = 0
    /\ UNCHANGED <<shared, mode, in, run, history>>

\* Mutant: the outcome of memcmp() is ignored.
ComputeRejectIgnored ==
    /\ pc = "compute" /\ ~Accepts(mode, in)
    /\ pc' = "write" /\ i' = 0
    /\ UNCHANGED <<shared, mode, in, run, history>>

\* memcmp() differs: the comparison still writes a word, then both spin.
ComputeReject ==
    /\ pc = "compute"
    /\ ~Accepts(mode, in)
    /\ pc' = IF mode = COMPARE THEN "refuse" ELSE "spin"
    /\ UNCHANGED <<shared, mode, i, in, run, history>>

\* Mutant: a refused comparison reports "done" as well.
RefuseAsDone ==
    /\ pc = "refuse" /\ pc' = "spin"
    /\ bram_out' = [bram_out EXCEPT ![0] = Refused]
    /\ status_register' = Done(mode)
    /\ UNCHANGED <<control_register, bram_in, mode, i, in, run, history>>

Refuse ==
    /\ pc = "refuse"
    /\ bram_out' = [bram_out EXCEPT ![0] = Refused]
    /\ pc' = "spin"
    /\ UNCHANGED <<control_register, status_register, bram_in, mode, i, in, run, history>>

\* mbedTLS reports an error.  The HMAC handlers return -1 and main() spins;
\* the RSA handler exits, and the ebreak of _exit traps the processor.
LibraryError ==
    /\ pc = "compute"
    /\ mode \in {HMAC, COMPARE, RSA}
    /\ pc' = IF mode = RSA THEN "trap" ELSE "spin"
    /\ UNCHANGED <<shared, mode, i, in, run, history>>

\* Mutant: the write loop runs once too often.
WriteWordOnceMore ==
    /\ pc = "write"
    /\ bram_out' = [bram_out EXCEPT ![i] = Compute(mode, in, i)]
    /\ i' = i + 1
    /\ pc' = IF i = OutLen(mode) THEN "finish" ELSE pc
    /\ UNCHANGED <<control_register, status_register, bram_in, mode, in, run, history>>

\* The handler writes one word of the output buffer.
WriteWord ==
    /\ pc = "write"
    /\ bram_out' = [bram_out EXCEPT ![i] = Compute(mode, in, i)]
    /\ i' = i + 1
    /\ pc' = IF i + 1 = OutLen(mode) THEN "finish" ELSE pc
    /\ UNCHANGED <<control_register, status_register, bram_in, mode, in, run, history>>

\* Mutants: the RUN flag is not set; one flag serves all modes.
FinishUnmarked ==
    /\ pc = "finish" /\ pc' = "poll"
    /\ status_register' = Done(mode)
    /\ held' = IF Low(control_register) = 0 THEN held ELSE held \union {mode}
    /\ UNCHANGED <<control_register, bram_in, bram_out, mode, i, in, run, seen, job>>

FinishMarksAll ==
    /\ pc = "finish" /\ pc' = "poll"
    /\ status_register' = Done(mode)
    /\ run' = [m \in Modes |-> TRUE]
    /\ held' = IF Low(control_register) = 0 THEN held ELSE held \union {mode}
    /\ UNCHANGED <<control_register, bram_in, bram_out, mode, i, in, seen, job>>

\* FISMOS_set_status_register(0x00FF00xx); the mode is marked as run.
Finish ==
    /\ pc = "finish"
    /\ status_register' = Done(mode)
    /\ run' = [run EXCEPT ![mode] = TRUE]
    /\ pc' = "poll"
    /\ held' = IF Low(control_register) = 0 THEN held ELSE held \union {mode}
    /\ UNCHANGED <<control_register, bram_in, bram_out, mode, i, in, seen, job>>

Handler ==
    \/ StartWork \/ ReadWord \/ ComputeAccept \/ ComputeReject \/ Refuse
    \/ LibraryError \/ WriteWord \/ Finish

Firmware == Boot \/ PollZero \/ PollRequest \/ Accept \/ ClearIrq \/ Handler

-----------------------------------------------------------------------------
(* The host, through port A, and the reset line                            *)

HostWriteControl(c) ==
    /\ control_register' = c
    /\ held' = IF Low(c) = 0 THEN {} ELSE held
    /\ UNCHANGED <<status_register, bram_in, bram_out, firmware, seen, job>>

HostWriteInput(k, d) ==
    /\ bram_in' = [bram_in EXCEPT ![k] = d]
    /\ seen' = [seen EXCEPT ![k] = @ \union {d}]
    /\ UNCHANGED <<control_register, status_register, bram_out, firmware, job, held>>

\* Pulling resetn low stops the softcore wherever it is.
Reset ==
    /\ pc' = "reset"
    /\ held' = {}
    /\ UNCHANGED <<shared, mode, i, in, run, seen, job>>

Host ==
    \/ \E c \in Commands : HostWriteControl(c)
    \/ \E k \in Idx, d \in Data : HostWriteInput(k, d)

Next == Firmware \/ Host \/ Reset

Spec == Init /\ [][Next]_vars

-----------------------------------------------------------------------------
(* Properties                                                              *)

PCs == {"reset", "poll", "accept", "clear", "work", "read", "compute",
        "write", "finish", "refuse", "spin", "trap"}

\* Every variable holds a value of its type: registers hold the words the
\* two sides write, buffers the words each side may put there.
TypeOK ==
    /\ control_register \in Word
    /\ status_register \in StatusWords
    /\ bram_in \in Inputs
    /\ bram_out \in [Idx -> Outputs]
    /\ pc \in PCs
    /\ mode \in Modes
    /\ i \in 0 .. 2 * Half
    /\ in \in Inputs
    /\ run \in [Modes -> BOOLEAN]
    /\ seen \in [Idx -> SUBSET Data]
    /\ job \in [mode : Modes, input : Inputs]
    /\ held \subseteq Modes

\* The words a handler has copied: those of in that are meaningful.
Copied == IF pc = "read" THEN 0 .. i - 1
          ELSE IF pc \in {"compute", "write", "finish", "refuse"}
               THEN 0 .. InLen(mode) - 1
          ELSE {}

\* The word-by-word copy of the input never invents a value: whatever the
\* host writes meanwhile, each copied word was in the buffer at some moment
\* after the request was acknowledged.  In particular an input nobody
\* touches during the copy is copied exactly (read loops of the handlers).
CopyIsRegular == \A k \in Copied : in[k] \in seen[k]

\* While the status register says "done", the output buffer holds the
\* complete answer of the job it was written for: no word of it is missing,
\* left over from another mode or overwritten, whatever the host writes and
\* wherever a reset strikes (write loops, order of the status writes).
DoneMeansAnswered ==
    status_register \in DoneWords =>
        /\ status_register = Done(job.mode)
        /\ Accepts(job.mode, job.input)
        /\ \A k \in 0 .. OutLen(job.mode) - 1 :
                bram_out[k] = Compute(job.mode, job.input, k)

\* Once announced, an answer is withdrawn (the status leaves "done") before
\* any word of it is overwritten, also across resets: a reader that finds
\* the same "done" before and after its reads of the buffer has read one
\* answer, provided no run of the same mode came between.
AnswerStaysPut ==
    [][/\ status_register \in DoneWords
       /\ status_register' = status_register
       => bram_out' = bram_out]_vars

\* A mode is not run twice for one request: it starts again only after the
\* host has had a zero in the control register since the last time it
\* completed, or after a reset (the _RUN flags of main()).
OncePerRequest ==
    [][pc = "poll" /\ pc' = "accept" => mode' \notin held]_vars

\* A softcore that has rejected an input or hit a library error stays mute:
\* until it is reset it answers nothing, and the status register never says
\* that the failed mode is done (the nop loops, the trap).
FailureIsSilent ==
    pc \in {"refuse", "spin", "trap"} => status_register = Working(mode)
=============================================================================
