----------------------------- MODULE SoftcoreBus -----------------------------
(***************************************************************************)
(* The memory bus of the softcore, one clock edge per step: the memory     *)
(* interface of the PicoRV32 as the bus sees it, the slaves that answer it *)
(* - processor RAM, the output register, and the AXI adapter with port B   *)
(* of the shared memory - and the reset that resetn_oneshot derives from   *)
(* the external line.  Which access the core makes next is arbitrary.      *)
(* Fetches go to RAM, loads to RAM or the shared memory, stores anywhere,  *)
(* always whole words, as the firmware does.                               *)
(***************************************************************************)
EXTENDS Integers, AxilPort

CONSTANTS Value,        \* values of a register or memory word
          Initial       \* their value at power-up

ASSUME InitialAssumption == Initial \in Value

\* The places an access can go.  One word stands for each memory; a load
\* from the buffer reads bram_in, a store writes bram_out.
Control == "control"
Status  == "status"
Buffer  == "buffer"
Ram     == "ram"
Out     == "out32bit"

AxiPlaces   == {Control, Status, Buffer}
LoadPlaces  == AxiPlaces \union {Ram}
StorePlaces == LoadPlaces \union {Out}

VARIABLES
    oneshot, out_reset,                             \* resetn_oneshot.v
    mem_valid, instr, writing, place, wdata,        \* picorv32_core.v
    secondword, trap,
    ready_mem, rdata_mem, ram,                      \* cpu_memory.v
    ready_io, out32bit,                             \* io_memory.v
    ack_awvalid, ack_arvalid, ack_wvalid, xfer_done,    \* the adapter
    port, rdata,                                    \* axil_dp_ram.v, port B
    control_register, status_register, bram_in, bram_out,
    performed, current                              \* history, see below

core    == <<mem_valid, instr, writing, place, wdata, secondword, trap>>
slaves  == <<ready_mem, rdata_mem, ram, ready_io, out32bit>>
adapter == <<ack_awvalid, ack_arvalid, ack_wvalid, xfer_done>>
memory  == <<control_register, status_register, bram_in, bram_out>>
vars    == <<oneshot, out_reset, core, slaves, adapter, port, rdata, memory,
             performed, current>>

(***************************************************************************)
(* History, read by no guard:                                              *)
(*   performed  how often slaves have performed the latest access (word)   *)
(*   current    the values its place has held since the core offered it    *)
(***************************************************************************)

-----------------------------------------------------------------------------
(* Wires                                                                   *)

\* The adapter drives the channels of port B.
ToAxi == mem_valid /\ place \in AxiPlaces

\* Mutant: the adapter does not take the answers to writes or reads.
SignalsNeverReady ==
    [awvalid |-> ToAxi /\ writing /\ ~ack_awvalid,
     wvalid  |-> ToAxi /\ writing /\ ~ack_wvalid,
     bready  |-> FALSE,
     arvalid |-> ToAxi /\ ~writing /\ ~ack_arvalid,
     rready  |-> FALSE]

Signals ==
    [awvalid |-> ToAxi /\ writing /\ ~ack_awvalid,
     wvalid  |-> ToAxi /\ writing /\ ~ack_wvalid,
     bready  |-> ToAxi /\ writing,
     arvalid |-> ToAxi /\ ~writing /\ ~ack_arvalid,
     rready  |-> ToAxi /\ ~writing]

ready_AXI == port.bvalid \/ port.rvalid

\* mem_ready_io ^ mem_ready_mem ^ mem_ready_AXI
mem_ready == (ready_io # ready_mem) # ready_AXI
mem_rdata == IF ready_AXI THEN rdata ELSE rdata_mem
mem_xfer  == mem_valid /\ mem_ready

\* Mutant: the RAM answers at any address.
RamPerformsAnywhere == mem_valid /\ ~ready_mem

\* The slaves' conditions for performing the access at this edge.
RamPerforms == mem_valid /\ ~ready_mem /\ place = Ram
IoPerforms  == mem_valid /\ ~ready_io /\ writing /\ place = Out
AxiWrites   == MemWrite(port, Signals)
AxiReads    == MemRead(port, Signals)

\* What a load finds at place p.
Content(p) ==
    CASE p = Control -> control_register
      [] p = Status  -> status_register
      [] p = Buffer  -> bram_in
      [] p = Ram     -> ram
      [] p = Out     -> out32bit

-----------------------------------------------------------------------------
(* What one clock edge does to each part                                   *)

Init ==
    /\ oneshot = FALSE /\ out_reset = FALSE
    /\ mem_valid = FALSE /\ instr = FALSE /\ writing = FALSE
    /\ place = Ram /\ wdata = Initial /\ secondword = FALSE /\ trap = FALSE
    /\ ready_mem = FALSE /\ rdata_mem = Initial /\ ram = Initial
    /\ ready_io = FALSE /\ out32bit = Initial
    \* no initial block gives these a value
    /\ ack_awvalid \in BOOLEAN /\ ack_arvalid \in BOOLEAN
    /\ ack_wvalid \in BOOLEAN /\ xfer_done \in BOOLEAN
    /\ port = IdlePort /\ rdata = Initial
    /\ control_register = Initial /\ status_register = Initial
    /\ bram_in = Initial /\ bram_out = Initial
    /\ performed = 0 /\ current = {}

\* The first edge holds the reset whatever the line says.
OneshotEdge(in_reset) ==
    /\ out_reset' = (oneshot /\ in_reset)
    /\ oneshot' = TRUE

\* An ebreak or a fault traps the core; only a reset gets it out.
TrapEdge(fault) == trap' = (out_reset /\ (trap \/ fault))

\* The core in reset or trapped starts nothing and lets an access end.
CoreStopped ==
    /\ ~out_reset \/ trap
    /\ mem_valid' = (mem_valid /\ out_reset /\ ~mem_ready)
    /\ secondword' = FALSE
    /\ UNCHANGED <<instr, writing, place, wdata>>

CoreIdle ==
    /\ out_reset /\ ~trap /\ ~mem_valid
    /\ UNCHANGED <<mem_valid, instr, writing, place, wdata, secondword>>

CoreOffers ==
    /\ out_reset /\ ~trap /\ ~mem_valid
    /\ mem_valid' = TRUE
    /\ instr' \in BOOLEAN
    /\ writing' \in IF instr' THEN {FALSE} ELSE BOOLEAN
    /\ place' \in IF instr' THEN {Ram}
                  ELSE IF writing' THEN StorePlaces ELSE LoadPlaces
    /\ wdata' \in IF writing' THEN Value ELSE {wdata}
    /\ secondword' = FALSE

CoreWaits ==
    /\ out_reset /\ ~trap /\ mem_valid /\ ~mem_ready
    /\ UNCHANGED <<mem_valid, instr, writing, place, wdata, secondword>>

\* An instruction that crosses a word boundary takes a second fetch, for
\* which mem_valid stays up.
CoreTakes ==
    /\ out_reset /\ ~trap /\ mem_xfer
    /\ secondword' \in IF instr /\ ~secondword THEN BOOLEAN ELSE {FALSE}
    /\ mem_valid' = secondword'
    /\ UNCHANGED <<instr, writing, place, wdata>>

CoreEdge == CoreStopped \/ CoreIdle \/ CoreOffers \/ CoreWaits \/ CoreTakes

RamEdge ==
    /\ ready_mem' = RamPerforms
    /\ ram' = IF RamPerforms /\ writing THEN wdata ELSE ram
    /\ rdata_mem' = IF RamPerforms /\ ~writing THEN ram ELSE rdata_mem

\* Mutant: reset loads a value that is no value of the register.
IoEdgeNoValue ==
    /\ ready_io' = IoPerforms
    /\ out32bit' = IF IoPerforms THEN wdata
                   ELSE IF out_reset THEN out32bit ELSE -1

\* The output register gives a store precedence over its reset.
IoEdge ==
    /\ ready_io' = IoPerforms
    /\ out32bit' = IF IoPerforms THEN wdata
                   ELSE IF out_reset THEN out32bit ELSE Initial

\* Mutant: acknowledgements are only forgotten after a transfer.
AdapterEdgeKeeps ==
    IF ~out_reset
    THEN ack_awvalid' = FALSE /\ UNCHANGED <<ack_arvalid, ack_wvalid, xfer_done>>
    ELSE /\ xfer_done' = (mem_valid /\ ready_AXI)
         /\ ack_awvalid' = (~xfer_done /\ (ack_awvalid \/ (port.awready /\ Signals.awvalid)))
         /\ ack_arvalid' = (~xfer_done /\ (ack_arvalid \/ (port.arready /\ Signals.arvalid)))
         /\ ack_wvalid'  = (~xfer_done /\ (ack_wvalid  \/ (port.awready /\ Signals.wvalid)))

\* The adapter remembers which channels were acknowledged.  Of the four
\* registers a reset clears one.
AdapterEdge ==
    IF ~out_reset
    THEN /\ ack_awvalid' = FALSE
         /\ UNCHANGED <<ack_arvalid, ack_wvalid, xfer_done>>
    ELSE LET over == xfer_done \/ ~mem_valid IN
         /\ xfer_done' = (mem_valid /\ ready_AXI)
         /\ ack_awvalid' = (~over /\ (ack_awvalid \/ (port.awready /\ Signals.awvalid)))
         /\ ack_arvalid' = (~over /\ (ack_arvalid \/ (port.arready /\ Signals.arvalid)))
         /\ ack_wvalid'  = (~over /\ (ack_wvalid  \/ (port.awready /\ Signals.wvalid)))

\* Mutant: the softcore's stores reach the control register.
PortEdgeControl ==
    /\ port' = Clocked(out_reset, port, Signals)
    /\ rdata' = IF AxiReads THEN Content(place) ELSE rdata
    /\ control_register' = IF AxiWrites /\ place = Control THEN wdata
                           ELSE control_register
    /\ status_register' = IF AxiWrites /\ place = Status THEN wdata
                          ELSE status_register
    /\ bram_out' = IF AxiWrites /\ place = Buffer THEN wdata ELSE bram_out
    /\ UNCHANGED bram_in

\* Port B.  Reset clears the handshake, but the access of that edge is
\* performed.  A write to the control register is acknowledged and dropped.
PortEdge ==
    /\ port' = Clocked(out_reset, port, Signals)
    /\ rdata' = IF AxiReads THEN Content(place) ELSE rdata
    /\ status_register' = IF AxiWrites /\ place = Status THEN wdata
                          ELSE status_register
    /\ bram_out' = IF AxiWrites /\ place = Buffer THEN wdata ELSE bram_out
    /\ UNCHANGED <<control_register, bram_in>>

\* History: a word offered at this edge, by a new access or as the second
\* word of a fetch, starts afresh.
Watch ==
    IF mem_valid' /\ (~mem_valid \/ mem_xfer)
    THEN /\ performed' = 0
         /\ current' = {Content(place)'}
    ELSE /\ performed' =
                performed + (IF RamPerforms \/ IoPerforms \/ AxiWrites \/ AxiReads
                             THEN 1 ELSE 0)
         /\ UNCHANGED current

Tick(in_reset, fault) ==
    /\ OneshotEdge(in_reset)
    /\ TrapEdge(fault)
    /\ CoreEdge
    /\ RamEdge
    /\ IoEdge
    /\ AdapterEdge
    /\ PortEdge
    /\ Watch

\* Linux writes through port A: the control register or the input buffer.
LinuxWrites ==
    /\ \E v \in Value :
        \/ control_register' = v /\ UNCHANGED bram_in
        \/ bram_in' = v /\ UNCHANGED control_register
    /\ UNCHANGED <<oneshot, out_reset, core, slaves, adapter, port, rdata,
                   status_register, bram_out, performed>>
    /\ current' = IF mem_valid THEN current \union {Content(place)'} ELSE current

Next ==
    \/ \E in_reset, fault \in BOOLEAN : Tick(in_reset, fault)
    \/ LinuxWrites

Spec == Init /\ [][Next]_vars

\* The clock runs.  Neither a reset nor a trap is ever owed.
FairSpec == Spec /\ WF_vars(Tick(TRUE, FALSE))

-----------------------------------------------------------------------------
(* Properties                                                              *)

\* Every register holds a value of its width.
TypeOK ==
    /\ {oneshot, out_reset, mem_valid, instr, writing, secondword, trap,
        ready_mem, ready_io, ack_awvalid, ack_arvalid, ack_wvalid, xfer_done}
            \subseteq BOOLEAN
    /\ place \in StorePlaces
    /\ {wdata, rdata_mem, ram, out32bit, rdata, control_register,
        status_register, bram_in, bram_out} \subseteq Value
    /\ port \in Port
    /\ performed \in 0 .. 2
    /\ current \subseteq Value

\* fismos.v joins the three ready lines with an exclusive or and selects
\* the data by one of them: that is right only while the core waits for at
\* most one answer, and no stale answer of a former access, cut off by a
\* reset or not, is up together with it.
OneAnswerer ==
    mem_valid => ~(ready_io /\ ready_mem) /\ ~((ready_io \/ ready_mem) /\ ready_AXI)

\* The core takes an answer only for an access that a slave has performed,
\* and no slave performs an access twice, although the core holds it up for
\* an edge after the answer.
PerformedOnce ==
    /\ performed <= 1
    /\ mem_xfer => performed = 1

\* A load returns a value its place held while the load was offered, never
\* what an earlier access left in a data register.
LoadIsRegular ==
    mem_xfer /\ ~writing => mem_rdata \in current

\* When a store is acknowledged its place holds the value, except that
\* the softcore's stores to the control register are dropped.
StoreTookEffect ==
    mem_xfer /\ writing =>
        CASE place = Status -> status_register = wdata
          [] place = Buffer -> bram_out = wdata
          [] place = Ram    -> ram = wdata
          [] place = Out    -> out32bit = wdata
          [] place = Control -> TRUE

\* An access never hangs the core: its word is answered, or a reset ends
\* it.  In particular no acknowledgement remembered from before a reset
\* keeps the adapter from offering the next access.
AccessEnds == mem_valid ~> ~mem_valid
=============================================================================
