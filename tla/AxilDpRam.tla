------------------------------ MODULE AxilDpRam ------------------------------
(***************************************************************************)
(* The shared memory (axil_dp_ram.v) at the level of clock edges of port   *)
(* A, where Linux reads and writes through any AXI4-Lite master: address   *)
(* and data of a write may be offered at different edges and stay up until *)
(* accepted, and answers are taken whenever the master likes.  The         *)
(* softcore's accesses through port B are single steps here; SoftcoreBus   *)
(* has them edge by edge.  One word stands for each exchange buffer.       *)
(***************************************************************************)
EXTENDS Integers, FismosRegisters, AxilPort

CONSTANTS WritePlaces,  \* where Linux may write
          LinuxWords,   \* the words it may write
          Strobes,      \* the byte lanes it may strobe
          SoftWords,    \* words the softcore may write to the status register
          OutputWords   \* and to the output buffer

ASSUME WordsAssumption ==
    /\ LinuxWords \subseteq Word
    /\ SoftWords \subseteq Word /\ OutputWords \subseteq Word

Control == "control"
Status  == "status"
Buffer  == "buffer"
Places  == {Control, Status, Buffer}

\* Byte lanes go in pairs: 1 is the upper half of a word, 2 the lower.
ASSUME StrobesAssumption == Strobes \subseteq SUBSET {1, 2}

ASSUME PlacesAssumption == WritePlaces \subseteq Places

VARIABLES
    aw, w, ar,                  \* what the master offers on each channel
    port, rdata,                \* port A
    control_register, status_register, bram_in, bram_out,
    interrupt_to_softcore, interrupt_to_softcore_triggered, interrupt_to_linux,
    performed, unanswered, unread, window, armed    \* history, see below

master     == <<aw, w, ar>>
memory     == <<control_register, status_register, bram_in, bram_out>>
interrupts == <<interrupt_to_softcore, interrupt_to_softcore_triggered,
                interrupt_to_linux>>
history    == <<performed, unanswered, unread, window, armed>>
vars       == <<master, port, rdata, memory, interrupts, history>>

(***************************************************************************)
(* A channel is the set of what is offered on it: empty or a singleton.    *)
(* History, read by no guard:                                              *)
(*   performed   how often the write now offered has been performed        *)
(*   unanswered  writes performed less write answers taken since a reset,  *)
(*   unread      and the same for reads                                    *)
(*   window      the values the place of the latest read held from its     *)
(*               offer to its performance                                  *)
(*   armed       since the last interrupt, an edge saw bit 24 clear        *)
(***************************************************************************)

Word0 == <<0, 0>>

\* What Linux finds at place p.
Content(p) ==
    CASE p = Control -> control_register
      [] p = Status  -> status_register
      [] p = Buffer  -> bram_out

\* Word old with the strobed lanes of word new.
Lanes(old, new, strobe) ==
    <<IF 1 \in strobe THEN High(new) ELSE High(old),
      IF 2 \in strobe THEN Low(new) ELSE Low(old)>>

Init ==
    /\ aw = {} /\ w = {} /\ ar = {}
    /\ port = IdlePort /\ rdata = Word0
    /\ control_register = Word0 /\ status_register = Word0
    /\ bram_in = Word0 /\ bram_out = Word0
    /\ interrupt_to_softcore = FALSE
    /\ interrupt_to_softcore_triggered = FALSE
    /\ interrupt_to_linux = TRUE
    /\ performed = 0 /\ unanswered = 0 /\ unread = 0 /\ window = {} /\ armed = TRUE

-----------------------------------------------------------------------------
(* One clock edge                                                          *)

Signals(bready, rready) ==
    [awvalid |-> aw # {}, wvalid |-> w # {}, bready |-> bready,
     arvalid |-> ar # {}, rready |-> rready]

\* An offer stays until it is accepted; then the next may follow at once.
Offer(channel, ready, what) ==
    IF channel # {} /\ ~ready THEN {channel}
    ELSE {{}} \union {{x} : x \in what}

MasterEdge(resetn) ==
    IF resetn
    THEN /\ aw' \in Offer(aw, port.awready, WritePlaces)
         /\ w'  \in Offer(w, port.awready, [data : LinuxWords, strobe : Strobes])
         /\ ar' \in Offer(ar, port.arready, Places)
    ELSE aw' = {} /\ w' = {} /\ ar' = {}

\* Mutant: the word is written as soon as it may be, also in a read's turn.
PerformWriteAtOnce(m) ==
    /\ control_register' =
            IF WriteEligible(port, m) /\ Control \in aw
            THEN (CHOOSE x \in w : TRUE).data ELSE control_register
    /\ bram_in' =
            IF WriteEligible(port, m) /\ Buffer \in aw
            THEN LET x == CHOOSE x \in w : TRUE IN Lanes(bram_in, x.data, x.strobe)
            ELSE bram_in

\* Writing the control register ignores the strobes; writing the status
\* register is acknowledged and does nothing.
PerformWrite(m) ==
    /\ control_register' =
            IF MemWrite(port, m) /\ Control \in aw
            THEN (CHOOSE x \in w : TRUE).data ELSE control_register
    /\ bram_in' =
            IF MemWrite(port, m) /\ Buffer \in aw
            THEN LET x == CHOOSE x \in w : TRUE IN Lanes(bram_in, x.data, x.strobe)
            ELSE bram_in

\* Mutant: the unified address prefers that of a write.
PerformReadAtWrite(m) ==
    rdata' = IF MemRead(port, m)
             THEN Content(CHOOSE p \in IF aw # {} THEN aw ELSE ar : TRUE) ELSE rdata

PerformRead(m) ==
    rdata' = IF MemRead(port, m) THEN Content(CHOOSE p \in ar : TRUE) ELSE rdata

\* Mutant: nothing remembers that the interrupt was raised.
InterruptEdgeForgetful ==
    /\ interrupt_to_softcore' =
            (status_register # Accepted
             /\ (interrupt_to_softcore \/ Bit24(control_register)))
    /\ UNCHANGED interrupt_to_softcore_triggered

\* "accepted" in the status register takes the interrupt back; bit 24 of the
\* control register raises it once each time it is set.
InterruptEdge ==
    LET raise == /\ status_register # Accepted
                 /\ Bit24(control_register)
                 /\ ~interrupt_to_softcore_triggered
        rearm == /\ status_register # Accepted
                 /\ ~Bit24(control_register)
    IN /\ interrupt_to_softcore' =
                (status_register # Accepted /\ (interrupt_to_softcore \/ raise))
       /\ interrupt_to_softcore_triggered' =
                (~rearm /\ (interrupt_to_softcore_triggered \/ raise))

\* History.
Watch(resetn, m) ==
    /\ performed' = IF ~resetn \/ port.awready THEN 0
                    ELSE performed + (IF MemWrite(port, m) THEN 1 ELSE 0)
    /\ unanswered' = IF ~resetn THEN 0
                     ELSE unanswered + (IF MemWrite(port, m) THEN 1 ELSE 0)
                                     - (IF port.bvalid /\ m.bready THEN 1 ELSE 0)
    /\ unread' = IF ~resetn THEN 0
                 ELSE unread + (IF MemRead(port, m) THEN 1 ELSE 0)
                             - (IF port.rvalid /\ m.rready THEN 1 ELSE 0)
    /\ window' = IF ar = {} \/ port.arready THEN {Content(p)' : p \in ar'}
                 ELSE IF MemRead(port, m) THEN window
                 ELSE window \union {Content(p)' : p \in ar'}
    /\ armed' = (~Bit24(control_register)
                 \/ (armed /\ (interrupt_to_softcore \/ ~interrupt_to_softcore')))

Tick(resetn, bready, rready) ==
    LET m == Signals(bready, rready)
    IN /\ port' = Clocked(resetn, port, m)
       /\ MasterEdge(resetn)
       /\ PerformWrite(m)
       /\ PerformRead(m)
       /\ InterruptEdge
       /\ UNCHANGED <<status_register, bram_out, interrupt_to_linux>>
       /\ Watch(resetn, m)

-----------------------------------------------------------------------------
(* The softcore                                                            *)

\* While a read is offered, its window takes in what the softcore writes.
Widen == window' = IF ar # {} /\ ~port.arready
                   THEN window \union {Content(p)' : p \in ar} ELSE window

SoftWritesStatus(s) ==
    /\ status_register' = s
    /\ interrupt_to_linux' =
            (Bit24(s) \/ (interrupt_to_linux /\ ~(High(s) % 256 = 255 /\ Low(s) = 65535)))
    /\ UNCHANGED <<master, port, rdata, control_register, bram_in, bram_out,
                   interrupt_to_softcore, interrupt_to_softcore_triggered,
                   performed, unanswered, unread, armed>>
    /\ Widen

SoftWritesOutput(d) ==
    /\ bram_out' = d
    /\ UNCHANGED <<master, port, rdata, control_register, status_register, bram_in,
                   interrupts, performed, unanswered, unread, armed>>
    /\ Widen

Next ==
    \/ \E resetn, bready, rready \in BOOLEAN : Tick(resetn, bready, rready)
    \/ \E s \in SoftWords : SoftWritesStatus(s)
    \/ \E d \in OutputWords : SoftWritesOutput(d)

Spec == Init /\ [][Next]_vars

\* An edge at which the master takes what is answered and offers nothing new.
QuietTick ==
    /\ Tick(TRUE, TRUE, TRUE)
    /\ aw' \subseteq aw /\ w' \subseteq w /\ ar' \subseteq ar

\* The clock runs, and the master does not refuse answers for ever; it owes
\* no offer.
FairSpec == Spec /\ WF_vars(QuietTick)

-----------------------------------------------------------------------------
(* Properties                                                              *)

\* Every register holds a value of its width, every channel at most one offer.
TypeOK ==
    /\ aw \in SUBSET WritePlaces /\ ar \in SUBSET Places
    /\ w \in SUBSET [data : LinuxWords, strobe : Strobes]
    /\ port \in Port
    /\ {rdata, control_register, status_register, bram_in, bram_out} \subseteq Word
    /\ {interrupt_to_softcore, interrupt_to_softcore_triggered, interrupt_to_linux,
        armed} \subseteq BOOLEAN
    /\ performed \in 0 .. 2 /\ {unanswered, unread} \subseteq -1 .. 2
    /\ window \subseteq Word

\* A write is performed exactly once although it is offered at several
\* edges, only when its address and data are both there, and is owed exactly
\* one answer, also when the answer of the write before is taken at the same
\* edge.
WriteOnce ==
    /\ performed <= 1
    /\ port.awready => performed = 1 /\ aw # {} /\ w # {}
    /\ unanswered = (IF port.bvalid THEN 1 ELSE 0)

\* Each read is answered once: its answer, for which there is one data
\* register, stays up until it is taken or a reset drops it, whatever is
\* offered and performed meanwhile.
AnswersHold == unread = (IF port.rvalid THEN 1 ELSE 0)

\* A read answers with a value its own place held while it was offered.
ReadIsRegular == port.arready => rdata \in window

\* A read and a write offered together take turns: however many reads
\* follow each other, an offered write is accepted, and the other way round.
NoStarvation ==
    /\ (aw # {} /\ w # {}) ~> (port.awready \/ aw = {})
    /\ ar # {} ~> (port.arready \/ ar = {})

\* The softcore is interrupted once each time Linux sets bit 24 of the
\* control register, not again while the bit merely stays set.
InterruptOncePerPress ==
    [][~interrupt_to_softcore /\ interrupt_to_softcore' => armed]_vars
=============================================================================
