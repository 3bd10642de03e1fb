-------------------------- MODULE SoftcoreBus_proofs --------------------------
(***************************************************************************)
(* Proofs about SoftcoreBus: what the softcore's accesses can rely on, for *)
(* any values, and resets and traps at any edge.                           *)
(***************************************************************************)
EXTENDS SoftcoreMemory, TLAPS

-----------------------------------------------------------------------------
(* The inductive invariant                                                 *)

Types ==
    /\ oneshot \in BOOLEAN /\ out_reset \in BOOLEAN /\ mem_valid \in BOOLEAN
    /\ instr \in BOOLEAN /\ writing \in BOOLEAN /\ secondword \in BOOLEAN
    /\ trap \in BOOLEAN /\ ready_mem \in BOOLEAN /\ ready_io \in BOOLEAN
    /\ ack_awvalid \in BOOLEAN /\ ack_arvalid \in BOOLEAN
    /\ ack_wvalid \in BOOLEAN /\ xfer_done \in BOOLEAN
    /\ place \in StorePlaces
    /\ wdata \in Value /\ rdata_mem \in Value /\ ram \in Value /\ out32bit \in Value
    /\ rdata \in Value /\ control_register \in Value /\ status_register \in Value
    /\ bram_in \in Value /\ bram_out \in Value
    /\ port \in Port
    /\ current \subseteq Value

\* Port B answers nothing.
PortQuiet == ~port.awready /\ ~port.bvalid /\ ~port.arready /\ ~port.rvalid

\* The adapter remembers nothing.
AdapterQuiet == ~ack_awvalid /\ ~ack_arvalid /\ ~ack_wvalid /\ ~xfer_done

\* What the core may offer.
Offered ==
    /\ mem_valid
    /\ ~writing => place # Out
    /\ instr => place = Ram /\ ~writing

\* No access is on the bus.  The ready lines of RAM and output register may
\* still be up for one that a reset cut off.
Free == ~mem_valid /\ PortQuiet /\ performed \in {0, 1}

\* An access is offered and not performed.
Pending ==
    /\ Offered /\ AdapterQuiet /\ PortQuiet
    /\ ~ready_mem /\ ~ready_io
    /\ performed = 0
    /\ Content(place) \in current

\* An access is performed, and the one slave it went to answers it.
Done ==
    /\ Offered /\ AdapterQuiet
    /\ performed = 1
    /\ ready_mem = (place = Ram) /\ ready_io = (place = Out)
    /\ port.bvalid = (place \in AxiPlaces /\ writing) /\ port.awready = port.bvalid
    /\ port.rvalid = (place \in AxiPlaces /\ ~writing) /\ port.arready = port.rvalid
    /\ ~writing => mem_rdata \in current
    /\ writing => /\ place = Status => status_register = wdata
                  /\ place = Buffer => bram_out = wdata
                  /\ place = Ram => ram = wdata
                  /\ place = Out => out32bit = wdata

BusInv == Types /\ (Free \/ Pending \/ Done)

-----------------------------------------------------------------------------
(* What happens at an edge, by the phase of the access                     *)

\* With no access on the bus no slave performs one.
LEMMA FreeEdge ==
    ASSUME Types, Free
    PROVE  ~RamPerforms /\ ~IoPerforms /\ ~AxiWrites /\ ~AxiReads
  BY DEF Types, Free, RamPerforms, IoPerforms, AxiWrites, AxiReads, MemWrite, MemRead,
         WriteEligible, ReadEligible, Signals, ToAxi

\* An offered access is performed at the next edge by its one slave.
LEMMA PendingEdge ==
    ASSUME Types, Pending
    PROVE  /\ RamPerforms = (place = Ram) /\ IoPerforms = (place = Out)
           /\ AxiWrites = (place \in AxiPlaces /\ writing)
           /\ AxiReads = (place \in AxiPlaces /\ ~writing)
           /\ ~mem_ready
<1>1. RamPerforms = (place = Ram)
  BY DEF Types, Pending, Offered, RamPerforms
<1>2. IoPerforms = (place = Out)
  BY DEF Types, Pending, Offered, IoPerforms
<1>3. ~mem_ready
  BY DEF Types, Pending, PortQuiet, mem_ready, ready_AXI
<1>4. /\ WriteEligible(port, Signals) = (place \in AxiPlaces /\ writing)
      /\ ReadEligible(port, Signals) = (place \in AxiPlaces /\ ~writing)
  BY DEF Types, Pending, Offered, PortQuiet, AdapterQuiet, WriteEligible, ReadEligible,
         Signals, ToAxi
<1>5. /\ AxiWrites = (place \in AxiPlaces /\ writing)
      /\ AxiReads = (place \in AxiPlaces /\ ~writing)
  BY <1>4 DEF AxiWrites, AxiReads, MemWrite, MemRead
<1> QED BY <1>1, <1>2, <1>3, <1>5

\* A performed access is not performed again, and its answer is seen.
LEMMA DoneEdge ==
    ASSUME Types, Done
    PROVE  /\ ~RamPerforms /\ ~IoPerforms /\ ~AxiWrites /\ ~AxiReads
           /\ mem_ready
<1>1. place \in {Control, Status, Buffer, Ram, Out}
  BY DEF Types, StorePlaces, LoadPlaces, AxiPlaces
<1>2. mem_ready
  BY <1>1 DEF Types, Port, Done, Offered, mem_ready, ready_AXI, AxiPlaces, Control, Status,
              Buffer, Ram, Out
<1>3. ~RamPerforms /\ ~IoPerforms
  BY DEF Types, Done, RamPerforms, IoPerforms
<1>4. ~WriteEligible(port, Signals) /\ ~ReadEligible(port, Signals)
  BY DEF Types, Done, WriteEligible, ReadEligible, Signals, ToAxi
<1>5. ~AxiWrites /\ ~AxiReads
  BY <1>4 DEF AxiWrites, AxiReads, MemWrite, MemRead
<1> QED BY <1>2, <1>3, <1>5

\* An edge that ends an answer, or has none to end, leaves port B quiet.
LEMMA QuietAfter ==
    ASSUME Types, Free \/ Done, PortEdge
    PROVE  PortQuiet'
<1>1. ~AxiWrites /\ ~AxiReads
  BY FreeEdge, DoneEdge
<1>2. (port.bvalid => Signals.bready) /\ (port.rvalid => Signals.rready)
  BY DEF Types, Free, PortQuiet, Done, Offered, Signals, ToAxi
<1>3. CASE out_reset
  BY <1>1, <1>2, <1>3 DEF PortEdge, Clocked, AfterEdge, AxiWrites, AxiReads, PortQuiet
<1>4. CASE ~out_reset
  BY <1>4 DEF PortEdge, Clocked, IdlePort, PortQuiet
<1> QED BY <1>3, <1>4

\* Nor does an edge of the adapter leave anything behind, when no access to
\* the shared memory is answered at it.
LEMMA AdapterQuietAfter ==
    ASSUME Types, out_reset, AdapterEdge,
           ~mem_valid \/ (AdapterQuiet /\ PortQuiet)
    PROVE  AdapterQuiet'
  BY DEF Types, AdapterEdge, AdapterQuiet, PortQuiet, ready_AXI

-----------------------------------------------------------------------------
(* Types                                                                   *)

LEMMA ContentType ==
    ASSUME Types
    PROVE  Content(place) \in Value
  BY DEF Types, Content, StorePlaces, LoadPlaces, AxiPlaces, Control, Status, Buffer, Ram, Out

LEMMA CoreTypes ==
    ASSUME Types, CoreEdge
    PROVE  /\ mem_valid' \in BOOLEAN /\ instr' \in BOOLEAN /\ writing' \in BOOLEAN
           /\ secondword' \in BOOLEAN
           /\ place' \in StorePlaces /\ wdata' \in Value
<1>1. CASE CoreStopped \/ CoreIdle \/ CoreWaits \/ CoreTakes
  BY <1>1 DEF Types, CoreStopped, CoreIdle, CoreWaits, CoreTakes
<1>2. CASE CoreOffers
  <2>1. place' \in StorePlaces
    BY <1>2 DEF CoreOffers, StorePlaces, LoadPlaces
  <2>2. wdata' \in Value
    BY <1>2 DEF Types, CoreOffers
  <2>3. instr' \in BOOLEAN /\ writing' \in BOOLEAN
    BY <1>2 DEF CoreOffers
  <2> QED BY <1>2, <2>1, <2>2, <2>3 DEF CoreOffers
<1> QED BY <1>1, <1>2 DEF CoreEdge

LEMMA PortType ==
    ASSUME port \in Port, NEW resetn \in BOOLEAN, NEW m
    PROVE  Clocked(resetn, port, m) \in Port
  BY DEF Port, Clocked, AfterEdge, IdlePort, MemWrite, MemRead, WriteEligible,
         ReadEligible

LEMMA TypesTick ==
    ASSUME Types, NEW in_reset \in BOOLEAN, NEW fault \in BOOLEAN, Tick(in_reset, fault)
    PROVE  Types'
<1>1. oneshot' \in BOOLEAN /\ out_reset' \in BOOLEAN /\ trap' \in BOOLEAN
  BY DEF Types, Tick, OneshotEdge, TrapEdge
<1>2. /\ mem_valid' \in BOOLEAN /\ instr' \in BOOLEAN /\ writing' \in BOOLEAN
      /\ secondword' \in BOOLEAN
      /\ place' \in StorePlaces /\ wdata' \in Value
  BY CoreTypes DEF Tick
<1>3. ready_mem' \in BOOLEAN /\ ram' \in Value /\ rdata_mem' \in Value
  BY DEF Types, Tick, RamEdge, RamPerforms
<1>4. ready_io' \in BOOLEAN /\ out32bit' \in Value
  BY InitialAssumption DEF Types, Tick, IoEdge, IoPerforms
<1>5. /\ ack_awvalid' \in BOOLEAN /\ ack_arvalid' \in BOOLEAN
      /\ ack_wvalid' \in BOOLEAN /\ xfer_done' \in BOOLEAN
  BY DEF Types, Tick, AdapterEdge
<1>6. /\ rdata' \in Value /\ status_register' \in Value /\ bram_out' \in Value
      /\ control_register' \in Value /\ bram_in' \in Value
  BY ContentType DEF Types, Tick, PortEdge
<1>7. port' \in Port
  BY PortType DEF Types, Tick, PortEdge
<1>8. Content(place)' \in Value
  BY <1>2, <1>3, <1>4, <1>6 DEF Content, StorePlaces, LoadPlaces, AxiPlaces, Control, Status,
                                Buffer, Ram, Out
<1>9. current' \subseteq Value
  BY <1>8 DEF Types, Tick, Watch
<1> QED BY <1>1, <1>2, <1>3, <1>4, <1>5, <1>6, <1>7, <1>9 DEF Types

-----------------------------------------------------------------------------
(* The invariant is kept                                                   *)

LEMMA BusInit == Init => BusInv
<1>1. IdlePort \in Port
  BY DEF IdlePort, Port
<1>2. Init => Types
  BY <1>1, InitialAssumption DEF Init, Types, StorePlaces, LoadPlaces
<1>3. Init => Free
  BY DEF Init, Free, PortQuiet, IdlePort
<1> QED BY <1>2, <1>3 DEF BusInv

LEMMA FreeTick ==
    ASSUME Types, Free, NEW in_reset \in BOOLEAN, NEW fault \in BOOLEAN,
           Tick(in_reset, fault)
    PROVE  Free' \/ Pending'
<1>1. ~RamPerforms /\ ~IoPerforms /\ ~AxiWrites /\ ~AxiReads
  BY FreeEdge
<1>2. PortQuiet'
  BY QuietAfter DEF Tick
<1>3. CASE CoreOffers
  <2>1. Offered'
    BY <1>3 DEF CoreOffers, Offered, StorePlaces, LoadPlaces, AxiPlaces, Control, Status,
                Buffer, Ram, Out
  <2>2. AdapterQuiet'
    BY <1>3, AdapterQuietAfter DEF CoreOffers, Tick
  <2>3. ~ready_mem' /\ ~ready_io'
    BY <1>1 DEF Tick, RamEdge, IoEdge
  <2>4. performed' = 0 /\ Content(place)' \in current'
    BY <1>3 DEF CoreOffers, Tick, Watch
  <2> QED BY <1>2, <2>1, <2>2, <2>3, <2>4 DEF Pending
<1>4. CASE CoreStopped \/ CoreIdle \/ CoreWaits \/ CoreTakes
  <2>1. ~mem_valid'
    BY <1>4 DEF Types, Free, CoreStopped, CoreIdle, CoreWaits, CoreTakes, mem_xfer
  <2>2. performed' \in {0, 1}
    BY <1>1, <2>1 DEF Free, Tick, Watch
  <2> QED BY <1>2, <2>1, <2>2 DEF Free
<1> QED BY <1>3, <1>4 DEF Tick, CoreEdge

LEMMA PendingTick ==
    ASSUME Types, Pending, NEW in_reset \in BOOLEAN, NEW fault \in BOOLEAN,
           Tick(in_reset, fault)
    PROVE  Free' \/ Done'
<1>1. /\ RamPerforms = (place = Ram) /\ IoPerforms = (place = Out)
      /\ AxiWrites = (place \in AxiPlaces /\ writing)
      /\ AxiReads = (place \in AxiPlaces /\ ~writing)
      /\ ~mem_ready
  BY PendingEdge
<1>2. place \in AxiPlaces \/ place = Ram \/ place = Out
  BY DEF Types, StorePlaces, LoadPlaces
<1>3. mem_valid /\ ~mem_xfer
  BY <1>1 DEF Pending, Offered, mem_xfer
<1>4. RamPerforms \/ IoPerforms \/ AxiWrites \/ AxiReads
  BY <1>1, <1>2 DEF Types
<1>5. performed' = 1 /\ current' = current
  BY <1>3, <1>4 DEF Tick, Watch, Pending
<1>6. CASE ~out_reset
  <2>1. ~mem_valid'
    BY <1>3, <1>6 DEF Tick, CoreEdge, CoreStopped, CoreIdle, CoreOffers, CoreWaits, CoreTakes
  <2>2. PortQuiet'
    BY <1>6 DEF Tick, PortEdge, Clocked, IdlePort, PortQuiet
  <2> QED BY <1>5, <2>1, <2>2 DEF Free
<1>7. CASE out_reset
  <2>1. mem_valid' /\ UNCHANGED <<instr, writing, place, wdata>>
    BY <1>1, <1>3, <1>7 DEF Tick, CoreEdge, CoreStopped, CoreIdle, CoreOffers, CoreWaits, CoreTakes
  <2>2. Offered'
    BY <2>1 DEF Pending, Offered
  <2>3. AdapterQuiet'
    BY <1>7, AdapterQuietAfter DEF Tick, Pending
  <2>4. ready_mem' = (place' = Ram) /\ ready_io' = (place' = Out)
    BY <1>1, <2>1 DEF Tick, RamEdge, IoEdge
  <2>5. port' = AfterEdge(port, Signals)
    BY <1>7 DEF Tick, PortEdge, Clocked
  <2>6. /\ port'.bvalid = AxiWrites /\ port'.awready = AxiWrites
        /\ port'.rvalid = AxiReads /\ port'.arready = AxiReads
    BY <2>5, <1>1 DEF AfterEdge, AxiWrites, AxiReads, Pending, PortQuiet
  <2>7. ~writing' => mem_rdata' \in current'
    <3>1. ASSUME ~writing, place \in AxiPlaces PROVE mem_rdata' = Content(place)
      <4>1. AxiReads
        BY <3>1, <1>1
      <4>2. rdata' = Content(place)
        BY <4>1 DEF Tick, PortEdge
      <4>3. ready_AXI'
        BY <4>1, <2>6 DEF ready_AXI
      <4> QED BY <4>2, <4>3 DEF mem_rdata
    <3>2. ASSUME ~writing, place = Ram PROVE mem_rdata' = Content(place)
      <4>1. ~AxiWrites /\ ~AxiReads
        BY <3>2, <1>1 DEF AxiPlaces, Control, Status, Buffer, Ram
      <4>2. rdata_mem' = ram
        BY <3>2, <1>1 DEF Tick, RamEdge
      <4>3. ~ready_AXI'
        BY <4>1, <2>6 DEF ready_AXI
      <4>4. Content(place) = ram
        BY <3>2 DEF Content, Control, Status, Buffer, Ram, Out
      <4> QED BY <4>2, <4>3, <4>4 DEF mem_rdata
    <3>3. ~writing => place # Out
      BY DEF Pending, Offered
    <3>4. Content(place) \in current
      BY DEF Pending
    <3> QED BY <1>2, <1>5, <2>1, <3>1, <3>2, <3>3, <3>4
  <2>8. writing' => /\ place' = Status => status_register' = wdata'
                    /\ place' = Buffer => bram_out' = wdata'
                    /\ place' = Ram => ram' = wdata'
                    /\ place' = Out => out32bit' = wdata'
    BY <1>1, <2>1 DEF Tick, PortEdge, RamEdge, IoEdge, AxiPlaces
  <2> HIDE DEF mem_rdata
  <2> QED BY <1>1, <1>5, <2>1, <2>2, <2>3, <2>4, <2>6, <2>7, <2>8 DEF Done
<1> QED BY <1>6, <1>7

LEMMA DoneTick ==
    ASSUME Types, Done, NEW in_reset \in BOOLEAN, NEW fault \in BOOLEAN,
           Tick(in_reset, fault)
    PROVE  Free' \/ Pending'
<1>1. /\ ~RamPerforms /\ ~IoPerforms /\ ~AxiWrites /\ ~AxiReads
      /\ mem_ready
  BY DoneEdge
<1>2. PortQuiet'
  BY QuietAfter DEF Tick
<1>3. mem_valid /\ mem_xfer
  BY <1>1 DEF Done, Offered, mem_xfer
<1>4. CASE ~mem_valid'
  <2>1. performed' = 1
    BY <1>1, <1>4 DEF Tick, Watch, Done
  <2> QED BY <1>2, <1>4, <2>1 DEF Free
<1>5. CASE mem_valid'
  <2>1. CoreTakes /\ secondword'
    BY <1>1, <1>3, <1>5 DEF Tick, CoreEdge, CoreStopped, CoreIdle, CoreOffers, CoreWaits, CoreTakes
  <2>2. instr /\ UNCHANGED <<instr, writing, place, wdata>>
    BY <2>1 DEF CoreTakes
  <2>3. place = Ram
    BY <2>2 DEF Done, Offered
  <2>4. PortQuiet
    BY <2>3 DEF Done, PortQuiet, AxiPlaces, Control, Status, Buffer, Ram
  <2>5. AdapterQuiet'
    BY <2>1, <2>4, AdapterQuietAfter DEF CoreTakes, Tick, Done
  <2>6. ~ready_mem' /\ ~ready_io'
    BY <1>1 DEF Tick, RamEdge, IoEdge
  <2>7. performed' = 0 /\ Content(place)' \in current'
    BY <1>3, <1>5 DEF Tick, Watch
  <2>8. Offered'
    BY <1>5, <2>2 DEF Done, Offered
  <2> QED BY <1>2, <2>5, <2>6, <2>7, <2>8 DEF Pending
<1> QED BY <1>4, <1>5

LEMMA BusLinux ==
    ASSUME BusInv, LinuxWrites
    PROVE  BusInv'
<1>1. /\ UNCHANGED <<oneshot, out_reset, port, rdata, status_register, bram_out, performed>>
      /\ UNCHANGED <<mem_valid, instr, writing, place, wdata, secondword, trap>>
      /\ UNCHANGED <<ready_mem, rdata_mem, ram, ready_io, out32bit>>
      /\ UNCHANGED <<ack_awvalid, ack_arvalid, ack_wvalid, xfer_done>>
      /\ control_register' \in Value /\ bram_in' \in Value
      /\ current' = IF mem_valid THEN current \union {Content(place)'} ELSE current
  BY DEF LinuxWrites, BusInv, Types, core, slaves, adapter
<1>2. Content(place)' \in Value
  BY <1>1 DEF BusInv, Types, Content, StorePlaces, LoadPlaces, AxiPlaces, Control, Status,
              Buffer, Ram, Out
<1>3. Types'
  BY <1>1, <1>2 DEF BusInv, Types
<1>4. Free => Free'
  BY <1>1 DEF Free, PortQuiet
<1>5. Pending => Pending'
  BY <1>1 DEF Pending, Offered, AdapterQuiet, PortQuiet
<1>6. mem_rdata' = mem_rdata
  BY <1>1 DEF mem_rdata, ready_AXI
<1>7. Done => Done'
  BY <1>1, <1>6 DEF Done, Offered, AdapterQuiet
<1> QED BY <1>3, <1>4, <1>5, <1>7 DEF BusInv

LEMMA BusStutter ==
    ASSUME BusInv, UNCHANGED vars
    PROVE  BusInv'
<1>1. /\ UNCHANGED <<oneshot, out_reset, port, rdata, status_register, bram_out, performed>>
      /\ UNCHANGED <<mem_valid, instr, writing, place, wdata, secondword, trap>>
      /\ UNCHANGED <<ready_mem, rdata_mem, ram, ready_io, out32bit>>
      /\ UNCHANGED <<ack_awvalid, ack_arvalid, ack_wvalid, xfer_done>>
      /\ UNCHANGED <<control_register, bram_in, current>>
  BY DEF vars, core, slaves, adapter, memory
<1>2. Content(place)' = Content(place) /\ mem_rdata' = mem_rdata
  BY <1>1 DEF Content, mem_rdata, ready_AXI
<1>3. Types'
  BY <1>1 DEF BusInv, Types
<1>4. (Free => Free') /\ (Pending => Pending') /\ (Done => Done')
  BY <1>1, <1>2 DEF Free, Pending, Done, Offered, AdapterQuiet, PortQuiet
<1> QED BY <1>3, <1>4 DEF BusInv

LEMMA BusNext ==
    ASSUME BusInv, [Next]_vars
    PROVE  BusInv'
<1>1. ASSUME NEW in_reset \in BOOLEAN, NEW fault \in BOOLEAN, Tick(in_reset, fault)
      PROVE  BusInv'
  BY <1>1, TypesTick, FreeTick, PendingTick, DoneTick DEF BusInv
<1>2. CASE LinuxWrites
  BY <1>2, BusLinux
<1>3. CASE UNCHANGED vars
  BY <1>3, BusStutter
<1> QED BY <1>1, <1>2, <1>3 DEF Next

LEMMA BusAlways == Spec => []BusInv
  BY BusInit, BusNext, PTL DEF Spec

-----------------------------------------------------------------------------
(* The theorems                                                            *)

\* Whatever the core accesses, and whenever it is reset or trapped, every
\* register of the bus keeps to its width.
THEOREM TypeCorrect == Spec => []TypeOK
<1>1. ASSUME BusInv PROVE performed \in 0 .. 2
  BY <1>1 DEF BusInv, Free, Pending, Done
<1>2. BusInv => TypeOK
  BY <1>1 DEF BusInv, Types, TypeOK
<1> QED BY <1>2, BusAlways, PTL

\* The exclusive or of the ready lines is never asked to join two answers.
THEOREM AnswersAlone == Spec => []OneAnswerer
<1>1. Free => OneAnswerer
  BY DEF Free, OneAnswerer
<1>2. Pending => OneAnswerer
  BY DEF Pending, OneAnswerer
<1>3. Types /\ Done => OneAnswerer
  BY DEF Types, Done, OneAnswerer, ready_AXI, AxiPlaces, Control, Status, Buffer, Ram, Out
<1> QED BY <1>1, <1>2, <1>3, BusAlways, PTL DEF BusInv

\* Every answer the core takes is to an access performed exactly once.
THEOREM PerformsOnce == Spec => []PerformedOnce
<1>1. Free => PerformedOnce
  BY DEF Free, PerformedOnce, mem_xfer
<1>2. Types /\ Pending => PerformedOnce
  BY PendingEdge DEF Pending, PerformedOnce, mem_xfer
<1>3. Done => PerformedOnce
  BY DEF Done, PerformedOnce
<1> QED BY <1>1, <1>2, <1>3, BusAlways, PTL DEF BusInv

\* A load of the firmware from RAM or from shared memory returns a value
\* its place held while the load was on the bus.
THEOREM LoadRegular == Spec => []LoadIsRegular
<1>1. Free => LoadIsRegular
  BY DEF Free, LoadIsRegular, mem_xfer
<1>2. Types /\ Pending => LoadIsRegular
  BY PendingEdge DEF LoadIsRegular, mem_xfer
<1>3. Done => LoadIsRegular
  BY DEF Done, LoadIsRegular
<1> QED BY <1>1, <1>2, <1>3, BusAlways, PTL DEF BusInv

\* A store the firmware sees acknowledged has reached its place.
THEOREM StoreEffective == Spec => []StoreTookEffect
<1>1. Free => StoreTookEffect
  BY DEF Free, StoreTookEffect, mem_xfer
<1>2. Types /\ Pending => StoreTookEffect
  BY PendingEdge DEF StoreTookEffect, mem_xfer
<1>3. Types /\ Done => StoreTookEffect
  BY DEF Types, Done, StoreTookEffect, StorePlaces, LoadPlaces, AxiPlaces, Control, Status,
         Buffer, Ram, Out
<1> QED BY <1>1, <1>2, <1>3, BusAlways, PTL DEF BusInv

-----------------------------------------------------------------------------
(* The bus implements AtomicMemory: an access is free, pending or done in  *)
(* the invariant as it is free, offered or answered there.                 *)

\* Power-up of the bus is that of the memory, with no access on it.
LEMMA MemoryInit == Init => Memory!Init
<1> SUFFICES ASSUME Init PROVE Memory!Init
  OBVIOUS
<1> DEFINE w == [control |-> Initial, status |-> Initial, bram_in |-> Initial,
                 bram_out |-> Initial, ram |-> Initial, out32bit |-> Initial]
           f == [n \in Memory!Words |-> Initial]
<1>1. WordsNow = w
  BY DEF Init, WordsNow
<1>2. w = [n \in {"control", "status", "bram_in", "bram_out", "ram", "out32bit"} |-> w[n]]
  OBVIOUS
<1>3. \A n \in Memory!Words : w[n] = Initial
  BY DEF Memory!Words
<1>4. WordsNow = f
  BY <1>1, <1>2, <1>3 DEF Memory!Words
<1>5. PhaseNow = "free" /\ AnswerNow = <<>>
  BY DEF Init, PhaseNow, AnswerNow, mem_xfer
<1>6. AccessNow = [store |-> FALSE, place |-> "ram", data |-> Initial]
  BY DEF Init, AccessNow, Ram
<1>7. ~out_reset = TRUE
  BY DEF Init
<1> HIDE DEF w, f
<1> QED BY <1>4, <1>5, <1>6, <1>7 DEF f, Memory!Init, Memory!NoAnswer

\* The phase of an access, and the answer seen, in the phases of the invariant.
PhaseOfAccess ==
    /\ Free => PhaseNow = "free" /\ AnswerNow = <<>>
    /\ Types /\ Pending => PhaseNow = "offered" /\ AnswerNow = <<>>
    /\ Types /\ Done => PhaseNow = "answered" /\ AnswerNow = IF writing THEN <<>> ELSE <<mem_rdata>>

\* So it is,
LEMMA Phases == PhaseOfAccess
<1>1. Free => PhaseNow = "free" /\ AnswerNow = <<>>
  BY DEF Free, PhaseNow, AnswerNow, mem_xfer
<1>2. Types /\ Pending => PhaseNow = "offered" /\ AnswerNow = <<>>
  BY PendingEdge DEF Pending, Offered, PhaseNow, AnswerNow, mem_xfer
<1>3. Types /\ Done => PhaseNow = "answered" /\ AnswerNow = IF writing THEN <<>> ELSE <<mem_rdata>>
  BY DoneEdge DEF Types, Done, Offered, PhaseNow, AnswerNow, mem_xfer
<1> QED BY <1>1, <1>2, <1>3 DEF PhaseOfAccess

\* ... and after every step.
LEMMA PhasesNext == PhaseOfAccess'
  BY Phases, PTL

\* A reset changes one of the words.
LEMMA Cleared ==
    [WordsNow EXCEPT !["out32bit"] = Initial] =
        [control |-> control_register, status |-> status_register, bram_in |-> bram_in,
         bram_out |-> bram_out, ram |-> ram, out32bit |-> Initial]
  BY DEF WordsNow

\* The effect of the offered access, word by word.
LEMMA EffectIs ==
    ASSUME Types, NEW o
    PROVE  LET w == [control |-> control_register, status |-> status_register,
                     bram_in |-> bram_in, bram_out |-> bram_out, ram |-> ram, out32bit |-> o]
           IN  Memory!Effect(w) =
        [control |-> control_register,
         status |-> IF writing /\ place = Status THEN wdata ELSE status_register,
         bram_in |-> bram_in,
         bram_out |-> IF writing /\ place = Buffer THEN wdata ELSE bram_out,
         ram |-> IF writing /\ place = Ram THEN wdata ELSE ram,
         out32bit |-> IF writing /\ place = Out THEN wdata ELSE o]
<1> DEFINE w == [control |-> control_register, status |-> status_register,
                     bram_in |-> bram_in, bram_out |-> bram_out, ram |-> ram, out32bit |-> o]
<1>1. CASE ~writing \/ place = Control
  BY <1>1 DEF Types, Memory!Effect, AccessNow, Control, Status, Buffer, Ram, Out
<1>2. CASE writing /\ place = Status
  BY <1>2 DEF Types, Memory!Effect, Memory!StoredTo, AccessNow, Control, Status, Buffer, Ram, Out
<1>3. CASE writing /\ place = Buffer
  BY <1>3 DEF Types, Memory!Effect, Memory!StoredTo, AccessNow, Control, Status, Buffer, Ram, Out
<1>4. CASE writing /\ place = Ram
  BY <1>4 DEF Types, Memory!Effect, Memory!StoredTo, AccessNow, Control, Status, Buffer, Ram, Out
<1>5. CASE writing /\ place = Out
  BY <1>5 DEF Types, Memory!Effect, Memory!StoredTo, AccessNow, Control, Status, Buffer, Ram, Out
<1> QED BY <1>1, <1>2, <1>3, <1>4, <1>5 DEF Types, StorePlaces, LoadPlaces, AxiPlaces

\* The words after an edge.
LEMMA WordsAfter ==
    ASSUME Types, NEW in_reset \in BOOLEAN, NEW fault \in BOOLEAN, Tick(in_reset, fault)
    PROVE  WordsNow' =
        [control |-> control_register,
         status |-> IF AxiWrites /\ place = Status THEN wdata ELSE status_register,
         bram_in |-> bram_in,
         bram_out |-> IF AxiWrites /\ place = Buffer THEN wdata ELSE bram_out,
         ram |-> IF RamPerforms /\ writing THEN wdata ELSE ram,
         out32bit |-> IF IoPerforms THEN wdata ELSE IF out_reset THEN out32bit ELSE Initial]
  BY DEF Tick, PortEdge, RamEdge, IoEdge, WordsNow

\* An edge with no access on the bus offers one, or resets, or does nothing.
LEMMA MemoryFree ==
    ASSUME Types, Types', Free, Free' \/ Pending',
           NEW in_reset \in BOOLEAN, NEW fault \in BOOLEAN, Tick(in_reset, fault)
    PROVE  Memory!Softcore
<1>1. ~RamPerforms /\ ~IoPerforms /\ ~AxiWrites /\ ~AxiReads
  BY FreeEdge
<1>2. PhaseNow = "free" /\ AnswerNow = <<>> /\ AnswerNow' = <<>>
  BY Phases, PhasesNext DEF PhaseOfAccess
<1>3. (~out_reset)' \in BOOLEAN
  OBVIOUS
<1>4. WordsNow' = IF out_reset THEN WordsNow ELSE [WordsNow EXCEPT !["out32bit"] = Initial]
  BY <1>1, WordsAfter, Cleared DEF WordsNow
<1>5. CASE ~out_reset
  <2>1. ~mem_valid' /\ UNCHANGED AccessNow
    BY <1>5 DEF Free, Tick, CoreEdge, CoreStopped, CoreIdle, CoreOffers, CoreWaits, CoreTakes,
                AccessNow
  <2>2. PhaseNow' = "free"
    BY <2>1 DEF PhaseNow
  <2>3. Memory!Reset
    BY <1>2, <1>4, <1>5, <2>1, <2>2 DEF Memory!Reset, Memory!NoAnswer
  <2> QED BY <1>3, <2>3 DEF Memory!Softcore
<1>6. CASE out_reset /\ CoreOffers
  <2>1. Pending'
    BY <1>6 DEF CoreOffers, Free
  <2>2. PhaseNow' = "offered"
    BY <2>1, PhasesNext DEF PhaseOfAccess
  <2>3. AccessNow' \in Memory!Accesses
    BY <2>1 DEF Types, Pending, Offered, AccessNow, Memory!Accesses, Memory!Places,
                StorePlaces, LoadPlaces, AxiPlaces, Control, Status, Buffer, Ram, Out
  <2>4. Memory!Offer
    BY <1>2, <1>4, <1>6, <2>2, <2>3 DEF Memory!Offer
  <2> QED BY <1>3, <2>4 DEF Memory!Softcore
<1>7. CASE out_reset /\ ~CoreOffers
  <2>1. CoreStopped \/ CoreIdle \/ CoreWaits \/ CoreTakes
    BY <1>7 DEF Tick, CoreEdge
  <2>2. ~mem_valid' /\ UNCHANGED <<writing, place, wdata>>
    BY <2>1 DEF Types, Free, CoreStopped, CoreIdle, CoreWaits, CoreTakes, mem_xfer
  <2>3. PhaseNow' = "free" /\ UNCHANGED AccessNow
    BY <2>2 DEF PhaseNow, AccessNow
  <2> QED BY <1>2, <1>3, <1>4, <1>7, <2>3 DEF Memory!Softcore
<1> QED BY <1>5, <1>6, <1>7

\* The edge after the offer performs the access, even if a reset cuts it off.
LEMMA MemoryPending ==
    ASSUME Types, Types', Pending, Free' \/ Done',
           NEW in_reset \in BOOLEAN, NEW fault \in BOOLEAN, Tick(in_reset, fault)
    PROVE  Memory!Softcore
<1>1. /\ RamPerforms = (place = Ram) /\ IoPerforms = (place = Out)
      /\ AxiWrites = (place \in AxiPlaces /\ writing)
      /\ AxiReads = (place \in AxiPlaces /\ ~writing)
      /\ ~mem_ready
  BY PendingEdge
<1>2. PhaseNow = "offered" /\ AnswerNow = <<>>
  BY Phases, PhasesNext DEF PhaseOfAccess
<1>3. (~out_reset)' \in BOOLEAN
  OBVIOUS
<1>4. WordsNow' = Memory!Effect(IF out_reset THEN WordsNow
                                ELSE [WordsNow EXCEPT !["out32bit"] = Initial])
  <2>1. WordsNow' =
        [control |-> control_register,
         status |-> IF writing /\ place = Status THEN wdata ELSE status_register,
         bram_in |-> bram_in,
         bram_out |-> IF writing /\ place = Buffer THEN wdata ELSE bram_out,
         ram |-> IF writing /\ place = Ram THEN wdata ELSE ram,
         out32bit |-> IF writing /\ place = Out THEN wdata
                      ELSE IF out_reset THEN out32bit ELSE Initial]
    <3>1. place = Out => writing
      BY DEF Types, Pending, Offered
    <3>2. WordsNow' =
            [control |-> control_register,
             status |-> IF AxiWrites /\ place = Status THEN wdata ELSE status_register,
             bram_in |-> bram_in,
             bram_out |-> IF AxiWrites /\ place = Buffer THEN wdata ELSE bram_out,
             ram |-> IF RamPerforms /\ writing THEN wdata ELSE ram,
             out32bit |-> IF IoPerforms THEN wdata
                          ELSE IF out_reset THEN out32bit ELSE Initial]
      BY WordsAfter
    <3>3. /\ (AxiWrites /\ place = Status) = (writing /\ place = Status)
          /\ (AxiWrites /\ place = Buffer) = (writing /\ place = Buffer)
          /\ (RamPerforms /\ writing) = (writing /\ place = Ram)
          /\ IoPerforms = (writing /\ place = Out)
      BY <1>1, <3>1 DEF Types, AxiPlaces
    <3> HIDE DEF WordsNow, AxiWrites, RamPerforms, IoPerforms
    <3> QED BY <3>2, <3>3
  <2>2. CASE out_reset
    BY <2>1, <2>2, EffectIs DEF WordsNow
  <2>3. CASE ~out_reset
    BY <2>1, <2>3, EffectIs, Cleared
  <2> QED BY <2>2, <2>3
<1>5. CASE ~out_reset
  <2>1. ~mem_valid' /\ UNCHANGED AccessNow
    BY <1>5 DEF Pending, Offered, Tick, CoreEdge, CoreStopped, CoreIdle, CoreOffers, CoreWaits,
                CoreTakes, AccessNow
  <2>2. PhaseNow' = "free" /\ AnswerNow' = <<>>
    BY <2>1 DEF PhaseNow, AnswerNow, mem_xfer
  <2>3. Memory!Reset
    BY <1>2, <1>4, <1>5, <2>1, <2>2 DEF Memory!Reset, Memory!NoAnswer
  <2> QED BY <1>3, <2>3 DEF Memory!Softcore
<1>6. CASE out_reset
  <2>1. mem_valid' /\ UNCHANGED <<instr, writing, place, wdata>>
    BY <1>1, <1>6 DEF Pending, Offered, mem_xfer, Tick, CoreEdge, CoreStopped, CoreIdle,
                      CoreOffers, CoreWaits, CoreTakes
  <2>2. Done'
    BY <2>1 DEF Free
  <2>3. PhaseNow' = "answered" /\ AnswerNow' = IF writing THEN <<>> ELSE <<mem_rdata'>>
    BY <2>1, <2>2, PhasesNext DEF PhaseOfAccess
  <2>4. ~writing => mem_rdata' = Content(place)
    <3>1. SUFFICES ASSUME ~writing PROVE mem_rdata' = Content(place)
      OBVIOUS
    <3>2. CASE place \in AxiPlaces
      <4>1. rdata' = Content(place)
        BY <1>1, <3>1, <3>2 DEF Tick, PortEdge
      <4>2. ready_AXI'
        BY <2>1, <2>2, <3>1, <3>2 DEF Done, ready_AXI
      <4> QED BY <4>1, <4>2 DEF mem_rdata
    <3>3. CASE place = Ram
      <4>1. rdata_mem' = ram
        BY <1>1, <3>1, <3>3 DEF Tick, RamEdge
      <4>2. ~ready_AXI'
        BY <2>1, <2>2, <3>3 DEF Types, Port, Done, ready_AXI, AxiPlaces, Control, Status, Buffer, Ram
      <4>3. Content(place) = ram
        BY <3>3 DEF Content, Control, Status, Buffer, Ram, Out
      <4> QED BY <4>1, <4>2, <4>3 DEF mem_rdata
    <3> QED BY <3>1, <3>2, <3>3 DEF Types, Pending, Offered, StorePlaces, LoadPlaces
  <2>5. ~writing => WordsNow[Memory!LoadedFrom(place)] = Content(place)
    BY DEF Types, Pending, Offered, WordsNow, Memory!LoadedFrom, Content, StorePlaces,
           LoadPlaces, AxiPlaces, Control, Status, Buffer, Ram, Out
  <2>6. AccessNow.store = writing /\ AccessNow.place = place /\ UNCHANGED AccessNow
    BY <2>1 DEF AccessNow
  <2>7. Memory!Perform
    <3> HIDE DEF WordsNow, PhaseNow, AnswerNow, AccessNow, mem_rdata, Content
    <3> QED BY <1>2, <1>4, <1>6, <2>3, <2>4, <2>5, <2>6 DEF Types, Memory!Perform, Memory!NoAnswer
  <2> QED BY <1>3, <2>7 DEF Memory!Softcore
<1> QED BY <1>5, <1>6

\* The edge after that takes the answer, unless a reset does away with it.
LEMMA MemoryDone ==
    ASSUME Types, Types', Done, Free' \/ Pending',
           NEW in_reset \in BOOLEAN, NEW fault \in BOOLEAN, Tick(in_reset, fault)
    PROVE  Memory!Softcore
<1>1. /\ ~RamPerforms /\ ~IoPerforms /\ ~AxiWrites /\ ~AxiReads
      /\ mem_ready
  BY DoneEdge
<1>2. PhaseNow = "answered" /\ AnswerNow' = <<>> /\ (Free' => PhaseNow' = "free")
      /\ (Pending' => PhaseNow' = "offered")
  BY Phases, PhasesNext DEF PhaseOfAccess
<1>3. (~out_reset)' \in BOOLEAN
  OBVIOUS
<1>4. WordsNow' = IF out_reset THEN WordsNow ELSE [WordsNow EXCEPT !["out32bit"] = Initial]
  BY <1>1, WordsAfter, Cleared DEF WordsNow
<1>5. UNCHANGED AccessNow
  BY <1>1 DEF Done, Offered, Tick, CoreEdge, CoreStopped, CoreIdle, CoreOffers, CoreWaits,
              CoreTakes, AccessNow
<1>6. CASE ~out_reset
  <2>1. ~mem_valid'
    BY <1>1, <1>6 DEF Done, Offered, Tick, CoreEdge, CoreStopped, CoreIdle, CoreOffers,
                      CoreWaits, CoreTakes
  <2>2. PhaseNow' = "free"
    BY <2>1 DEF PhaseNow
  <2>3. Memory!Reset
    BY <1>2, <1>4, <1>5, <1>6, <2>2 DEF Memory!Reset, Memory!NoAnswer
  <2> QED BY <1>3, <2>3 DEF Memory!Softcore
<1>7. CASE out_reset
  <2>1. Pending' => ~writing /\ place = Ram
    BY <1>1 DEF Pending, Done, Offered, Tick, CoreEdge, CoreStopped, CoreIdle,
                CoreOffers, CoreWaits, CoreTakes
  <2>2. AccessNow.store = writing /\ AccessNow.place = place
    BY DEF AccessNow
  <2>3. Memory!Take
    BY <1>2, <1>4, <1>5, <1>7, <2>1, <2>2 DEF Memory!Take, Memory!NoAnswer, Ram
  <2> QED BY <1>3, <2>3 DEF Memory!Softcore
<1> QED BY <1>6, <1>7

\* What Linux writes disturbs no access and no answer.
LEMMA MemoryLinux ==
    ASSUME LinuxWrites
    PROVE  Memory!LinuxWrites
<1>1. /\ UNCHANGED <<oneshot, out_reset, port, rdata, status_register, bram_out>>
      /\ UNCHANGED <<mem_valid, instr, writing, place, wdata, secondword, trap>>
      /\ UNCHANGED <<ready_mem, rdata_mem, ram, ready_io, out32bit>>
  BY DEF LinuxWrites, core, slaves
<1>2. UNCHANGED <<PhaseNow, AccessNow, AnswerNow>> /\ (~out_reset)' = ~out_reset
  BY <1>1 DEF PhaseNow, AccessNow, AnswerNow, mem_xfer, mem_ready, mem_rdata, ready_AXI
<1>3. PICK v \in Value : \/ control_register' = v /\ UNCHANGED bram_in
                         \/ bram_in' = v /\ UNCHANGED control_register
  BY DEF LinuxWrites
<1>4. CASE control_register' = v /\ UNCHANGED bram_in
  <2>1. WordsNow' = [WordsNow EXCEPT !["control"] = v]
    BY <1>1, <1>4 DEF WordsNow
  <2> QED BY <1>2, <2>1 DEF Memory!LinuxWrites
<1>5. CASE bram_in' = v /\ UNCHANGED control_register
  <2>1. WordsNow' = [WordsNow EXCEPT !["bram_in"] = v]
    BY <1>1, <1>5 DEF WordsNow
  <2> QED BY <1>2, <2>1 DEF Memory!LinuxWrites
<1> QED BY <1>3, <1>4, <1>5

\* Each step of the bus is a step of AtomicMemory or changes nothing of it.
LEMMA MemoryStep ==
    BusInv /\ BusInv' /\ [Next]_vars => [Memory!Next]_(Memory!vars)
<1> SUFFICES ASSUME BusInv, BusInv', [Next]_vars PROVE [Memory!Next]_(Memory!vars)
  OBVIOUS
<1>1. ASSUME NEW in_reset \in BOOLEAN, NEW fault \in BOOLEAN, Tick(in_reset, fault)
      PROVE  Memory!Softcore
  <2>1. Types /\ Types'
    BY DEF BusInv
  <2>2. (Free => Free' \/ Pending') /\ (Pending => Free' \/ Done') /\ (Done => Free' \/ Pending')
    BY <1>1, <2>1, FreeTick, PendingTick, DoneTick
  <2> QED BY <1>1, <2>1, <2>2, MemoryFree, MemoryPending, MemoryDone DEF BusInv
<1>2. CASE LinuxWrites
  BY <1>2, MemoryLinux DEF Memory!Next
<1>3. CASE UNCHANGED vars
  BY <1>3 DEF vars, core, slaves, memory, Memory!vars, WordsNow, PhaseNow, AccessNow, AnswerNow,
              mem_xfer, mem_ready, mem_rdata, ready_AXI
<1> QED BY <1>1, <1>2, <1>3 DEF Next, Memory!Next

\* The bus implements AtomicMemory: an access of the firmware takes effect at
\* one moment between its offer and its answer, and only a reset cuts it off.
THEOREM ImplementsMemory == Spec => MemorySpec
  BY MemoryInit, MemoryStep, BusAlways, PTL DEF Spec, MemorySpec, Memory!Spec
=============================================================================
