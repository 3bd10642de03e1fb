--------------------------- MODULE AxilDpRam_proofs ---------------------------
(***************************************************************************)
(* Proofs about AxilDpRam: the handshake of port A under any master, the   *)
(* values of reads, the interrupt, and that port A implements AtomicPort,  *)
(* for any words, strobes and places.                                      *)
(***************************************************************************)
EXTENDS PortAMemory, TLAPS

-----------------------------------------------------------------------------
(* Types                                                                   *)

LEMMA SignalsType ==
    ASSUME NEW b \in BOOLEAN, NEW r \in BOOLEAN
    PROVE  Signals(b, r) \in Master
  BY DEF Signals, Master

LEMMA PortType ==
    ASSUME port \in Port, NEW resetn \in BOOLEAN, NEW m \in Master
    PROVE  Clocked(resetn, port, m) \in Port
  BY DEF Port, Master, Clocked, AfterEdge, IdlePort, MemWrite, MemRead, WriteEligible,
         ReadEligible

LEMMA LanesType ==
    ASSUME NEW old \in Word, NEW new \in Word, NEW strobe
    PROVE  Lanes(old, new, strobe) \in Word
  BY DEF Lanes, Word, High, Low

\* TypeOK without the counters, which follow from the handshake.
Types ==
    /\ aw \in SUBSET WritePlaces /\ ar \in SUBSET Places
    /\ w \in SUBSET [data : LinuxWords, strobe : Strobes]
    /\ port \in Port
    /\ rdata \in Word /\ control_register \in Word /\ status_register \in Word
    /\ bram_in \in Word /\ bram_out \in Word
    /\ interrupt_to_softcore \in BOOLEAN /\ interrupt_to_softcore_triggered \in BOOLEAN
    /\ interrupt_to_linux \in BOOLEAN /\ armed \in BOOLEAN
    /\ window \subseteq Word

LEMMA ContentType ==
    ASSUME Types, NEW p \in Places
    PROVE  Content(p) \in Word
  BY DEF Types, Content, Places, Control, Status, Buffer

LEMMA TypesInit == Init => Types
<1>1. 0 \in HalfWord
  BY DEF HalfWord
<1>2. Word0 \in Word
  BY <1>1 DEF Word0, Word
<1>3. IdlePort \in Port
  BY DEF IdlePort, Port
<1> QED BY <1>2, <1>3 DEF Init, Types

LEMMA TypesTick ==
    ASSUME Types, NEW resetn \in BOOLEAN, NEW bready \in BOOLEAN, NEW rready \in BOOLEAN,
           Tick(resetn, bready, rready)
    PROVE  Types'
<1> DEFINE m == Signals(bready, rready)
<1>1. m \in Master
  BY SignalsType
<1>2. port' \in Port
  BY <1>1, PortType DEF Tick, Types
<1>3. /\ aw' \in SUBSET WritePlaces /\ ar' \in SUBSET Places
      /\ w' \in SUBSET [data : LinuxWords, strobe : Strobes]
  BY DEF Tick, MasterEdge, Offer, Types
<1>4. MemWrite(port, m) => w # {}
  BY DEF MemWrite, WriteEligible, Signals
<1>5. MemRead(port, m) => ar # {}
  BY DEF MemRead, ReadEligible, Signals
<1>6. w # {} => (CHOOSE x \in w : TRUE).data \in Word
  <2>1. w # {} => (CHOOSE x \in w : TRUE) \in w
    OBVIOUS
  <2> QED BY <2>1, WordsAssumption DEF Types
<1>7. ar # {} => Content(CHOOSE p \in ar : TRUE) \in Word
  <2>1. ar # {} => (CHOOSE p \in ar : TRUE) \in ar
    OBVIOUS
  <2> QED BY <2>1, ContentType DEF Types
<1>8. PerformWrite(m) /\ PerformRead(m) /\ InterruptEdge /\ Watch(resetn, m)
      /\ status_register' = status_register /\ bram_out' = bram_out
      /\ interrupt_to_linux' = interrupt_to_linux
  BY DEF Tick
<1> HIDE DEF m
<1>9. control_register' \in Word
  BY <1>4, <1>6, <1>8 DEF PerformWrite, Types
<1>10. bram_in' \in Word
  BY <1>4, <1>6, <1>8, LanesType DEF PerformWrite, Types
<1>11. rdata' \in Word
  BY <1>5, <1>7, <1>8 DEF PerformRead, Types
<1>12. /\ interrupt_to_softcore' \in BOOLEAN /\ interrupt_to_softcore_triggered' \in BOOLEAN
       /\ armed' \in BOOLEAN
  BY <1>8 DEF InterruptEdge, Watch, Types
<1>13. \A p \in Places : Content(p)' \in Word
  BY <1>8, <1>9 DEF Types, Content, Places, Control, Status, Buffer
<1>14. window' \subseteq Word
  BY <1>3, <1>8, <1>13 DEF Watch, Types
<1> QED BY <1>2, <1>3, <1>8, <1>9, <1>10, <1>11, <1>12, <1>14 DEF Types

LEMMA TypesNext ==
    ASSUME Types, [Next]_vars
    PROVE  Types'
<1>1. ASSUME NEW resetn \in BOOLEAN, NEW bready \in BOOLEAN, NEW rready \in BOOLEAN,
             Tick(resetn, bready, rready)
      PROVE  Types'
  BY <1>1, TypesTick
<1>2. ASSUME NEW s \in SoftWords, SoftWritesStatus(s) PROVE Types'
  <2>1. status_register' \in Word
    BY <1>2, WordsAssumption DEF SoftWritesStatus
  <2>2. interrupt_to_linux' \in BOOLEAN
    BY <1>2 DEF SoftWritesStatus, Types, Bit24
  <2>3. \A p \in Places : Content(p)' \in Word
    BY <1>2, <2>1 DEF SoftWritesStatus, Types, Content, Places, Control, Status, Buffer
  <2>4. window' \subseteq Word
    BY <1>2, <2>3 DEF SoftWritesStatus, Widen, Types
  <2> QED BY <1>2, <2>1, <2>2, <2>4 DEF SoftWritesStatus, Types, master
<1>3. ASSUME NEW d \in OutputWords, SoftWritesOutput(d) PROVE Types'
  <2>1. bram_out' \in Word
    BY <1>3, WordsAssumption DEF SoftWritesOutput
  <2>2. \A p \in Places : Content(p)' \in Word
    BY <1>3, <2>1 DEF SoftWritesOutput, Types, Content, Places, Control, Status, Buffer
  <2>3. window' \subseteq Word
    BY <1>3, <2>2 DEF SoftWritesOutput, Widen, Types
  <2> QED BY <1>3, <2>1, <2>3 DEF SoftWritesOutput, Types, master, interrupts
<1>4. CASE UNCHANGED vars
  BY <1>4 DEF Types, vars, master, memory, interrupts, history
<1>5. CASE Next
  BY <1>1, <1>2, <1>3, <1>5 DEF Next
<1> QED BY <1>4, <1>5

-----------------------------------------------------------------------------
(* The handshake                                                           *)

\* What the counters say of the registers of the port: what has been
\* performed is signalled, and each answer that is owed stands.
Handshake ==
    /\ performed = (IF port.awready THEN 1 ELSE 0)
    /\ port.awready => aw # {} /\ w # {}
    /\ unanswered = (IF port.bvalid THEN 1 ELSE 0)
    /\ unread = (IF port.rvalid THEN 1 ELSE 0)

LEMMA HandshakeInit == Init => Handshake
  BY DEF Init, Handshake, IdlePort

\* An edge without reset moves each counter with its register.
LEMMA HandshakeEdge ==
    ASSUME Types, Handshake, NEW bready \in BOOLEAN, NEW rready \in BOOLEAN,
           Tick(TRUE, bready, rready)
    PROVE  Handshake'
<1> DEFINE m == Signals(bready, rready)
<1>1. /\ m \in Master /\ port \in Port
      /\ m.bready = bready /\ m.rready = rready
      /\ m.awvalid = (aw # {}) /\ m.wvalid = (w # {})
  BY SignalsType DEF Types, Signals
<1>2. port' = AfterEdge(port, m) /\ Watch(TRUE, m) /\ MasterEdge(TRUE)
  BY DEF Tick, Clocked
<1> HIDE DEF m
<1>3. /\ port'.awready = MemWrite(port, m)
      /\ port'.bvalid = (MemWrite(port, m) \/ (port.bvalid /\ ~m.bready))
      /\ port'.rvalid = (MemRead(port, m) \/ (port.rvalid /\ ~m.rready))
  BY <1>2 DEF AfterEdge
<1>4. MemWrite(port, m) => aw # {} /\ w # {} /\ ~port.awready /\ (~port.bvalid \/ m.bready)
  BY <1>1 DEF MemWrite, WriteEligible
<1>5. MemRead(port, m) => ~port.rvalid \/ m.rready
  BY DEF MemRead, ReadEligible
<1>6. MemWrite(port, m) \in BOOLEAN /\ MemRead(port, m) \in BOOLEAN
  BY DEF MemWrite, MemRead, WriteEligible, ReadEligible
<1>7. /\ port.awready \in BOOLEAN /\ port.bvalid \in BOOLEAN /\ port.rvalid \in BOOLEAN
      /\ m.bready \in BOOLEAN /\ m.rready \in BOOLEAN
  BY <1>1 DEF Port, Master
<1>8. performed' = (IF port'.awready THEN 1 ELSE 0)
  BY <1>2, <1>3, <1>4, <1>6, <1>7 DEF Watch, Handshake
<1>9. port'.awready => aw' # {} /\ w' # {}
  BY <1>2, <1>3, <1>4 DEF MasterEdge, Offer
<1>10. unanswered' = (IF port'.bvalid THEN 1 ELSE 0)
  BY <1>2, <1>3, <1>4, <1>6, <1>7 DEF Watch, Handshake
<1>11. unread' = (IF port'.rvalid THEN 1 ELSE 0)
  BY <1>2, <1>3, <1>5, <1>6, <1>7 DEF Watch, Handshake
<1> QED BY <1>8, <1>9, <1>10, <1>11 DEF Handshake

LEMMA HandshakeNext ==
    ASSUME Types, Handshake, [Next]_vars
    PROVE  Handshake'
<1>1. ASSUME NEW bready \in BOOLEAN, NEW rready \in BOOLEAN, Tick(TRUE, bready, rready)
      PROVE  Handshake'
  BY <1>1, HandshakeEdge
<1>2. ASSUME NEW bready \in BOOLEAN, NEW rready \in BOOLEAN, Tick(FALSE, bready, rready)
      PROVE  Handshake'
  BY <1>2 DEF Tick, Clocked, Watch, IdlePort, Handshake
<1>3. ASSUME NEW s \in SoftWords, SoftWritesStatus(s) PROVE Handshake'
  BY <1>3 DEF SoftWritesStatus, Handshake, master
<1>4. ASSUME NEW d \in OutputWords, SoftWritesOutput(d) PROVE Handshake'
  BY <1>4 DEF SoftWritesOutput, Handshake, master
<1>5. CASE UNCHANGED vars
  BY <1>5 DEF Handshake, vars, master, history
<1>6. CASE Next
  <2>1. ASSUME NEW resetn \in BOOLEAN, NEW bready \in BOOLEAN, NEW rready \in BOOLEAN,
               Tick(resetn, bready, rready)
        PROVE  Handshake'
    <3>1. resetn = TRUE \/ resetn = FALSE
      OBVIOUS
    <3> QED BY <3>1, <2>1, <1>1, <1>2
  <2> QED BY <2>1, <1>3, <1>4, <1>6 DEF Next
<1> QED BY <1>5, <1>6

LEMMA TypesAndHandshake == Spec => [](Types /\ Handshake)
<1>1. Init => Types /\ Handshake
  BY TypesInit, HandshakeInit
<1>2. Types /\ Handshake /\ [Next]_vars => (Types /\ Handshake)'
  BY TypesNext, HandshakeNext
<1> QED BY <1>1, <1>2, PTL DEF Spec

\* Whatever the master and the softcore do, at whatever edges and through
\* whatever resets, every register of the shared memory keeps to its width.
THEOREM TypeCorrect == Spec => []TypeOK
<1>1. Types /\ Handshake => TypeOK
  BY DEF Types, Handshake, TypeOK
<1> QED BY <1>1, TypesAndHandshake, PTL

\* However its address and its data arrive, a write through port A is
\* performed once and answered once.
THEOREM WritesOnce == Spec => []WriteOnce
<1>1. Types /\ Handshake => WriteOnce
  BY DEF Types, Port, Handshake, WriteOnce
<1> QED BY <1>1, TypesAndHandshake, PTL

\* No answer to a read is lost or given twice, however long the master
\* refuses it.
THEOREM AnswersStay == Spec => []AnswersHold
<1>1. Handshake => AnswersHold
  BY DEF Handshake, AnswersHold
<1> QED BY <1>1, TypesAndHandshake, PTL

-----------------------------------------------------------------------------
(* Reads                                                                   *)

\* While a read waits, its window holds what its place holds now; once it is
\* performed, what it answers.
ReadInv ==
    /\ ~port.arready => \A p \in ar : Content(p) \in window
    /\ port.arready => ar # {} /\ rdata \in window

LEMMA ReadInvInit == Init => ReadInv
  BY DEF Init, ReadInv, IdlePort

LEMMA ReadInvEdge ==
    ASSUME Types, ReadInv, NEW bready \in BOOLEAN, NEW rready \in BOOLEAN,
           Tick(TRUE, bready, rready)
    PROVE  ReadInv'
<1> DEFINE m == Signals(bready, rready)
<1>1. m.arvalid = (ar # {})
  BY DEF Signals
<1>2. port' = AfterEdge(port, m) /\ Watch(TRUE, m) /\ MasterEdge(TRUE) /\ PerformRead(m)
  BY DEF Tick, Clocked
<1> HIDE DEF m
<1>3. port'.arready = MemRead(port, m)
  BY <1>2 DEF AfterEdge
<1>4. MemRead(port, m) => ar # {} /\ ~port.arready
  BY <1>1 DEF MemRead, ReadEligible
<1>5. CASE MemRead(port, m)
  <2>1. ar' # {} /\ window' = window
    BY <1>2, <1>4, <1>5 DEF MasterEdge, Offer, Watch
  <2>2. rdata' = Content(CHOOSE p \in ar : TRUE)
    BY <1>2, <1>5 DEF PerformRead
  <2>3. (CHOOSE p \in ar : TRUE) \in ar
    BY <1>4, <1>5
  <2>4. rdata' \in window'
    BY <2>1, <2>2, <2>3, <1>4, <1>5 DEF ReadInv
  <2> QED BY <2>1, <2>4, <1>3, <1>5 DEF ReadInv
<1>6. CASE ~MemRead(port, m)
  <2>1. \A p \in ar' : Content(p)' \in window'
    BY <1>2, <1>6 DEF Watch
  <2> QED BY <2>1, <1>3, <1>6 DEF ReadInv
<1> QED BY <1>5, <1>6

LEMMA ReadInvNext ==
    ASSUME Types, ReadInv, [Next]_vars
    PROVE  ReadInv'
<1>1. ASSUME NEW bready \in BOOLEAN, NEW rready \in BOOLEAN, Tick(TRUE, bready, rready)
      PROVE  ReadInv'
  BY <1>1, ReadInvEdge
<1>2. ASSUME NEW bready \in BOOLEAN, NEW rready \in BOOLEAN, Tick(FALSE, bready, rready)
      PROVE  ReadInv'
  BY <1>2 DEF Tick, Clocked, MasterEdge, IdlePort, ReadInv
<1>3. ASSUME NEW s \in SoftWords, SoftWritesStatus(s) PROVE ReadInv'
  BY <1>3 DEF SoftWritesStatus, Widen, ReadInv, master
<1>4. ASSUME NEW d \in OutputWords, SoftWritesOutput(d) PROVE ReadInv'
  BY <1>4 DEF SoftWritesOutput, Widen, ReadInv, master
<1>5. CASE UNCHANGED vars
  <2>1. UNCHANGED <<ar, port, rdata, window, control_register, status_register, bram_out>>
    BY <1>5 DEF vars, master, memory, history
  <2>2. \A p \in Places : Content(p)' = Content(p)
    BY <2>1 DEF Content
  <2> QED BY <2>1, <2>2 DEF ReadInv, Types
<1>6. CASE Next
  <2>1. ASSUME NEW resetn \in BOOLEAN, NEW bready \in BOOLEAN, NEW rready \in BOOLEAN,
               Tick(resetn, bready, rready)
        PROVE  ReadInv'
    <3>1. resetn = TRUE \/ resetn = FALSE
      OBVIOUS
    <3> QED BY <3>1, <2>1, <1>1, <1>2
  <2> QED BY <2>1, <1>3, <1>4, <1>6 DEF Next
<1> QED BY <1>5, <1>6

\* Whatever is written meanwhile from either side, a read through port A
\* answers with a value its place held after it was offered.
THEOREM ReadRegular == Spec => []ReadIsRegular
<1>1. Init => Types /\ ReadInv
  BY TypesInit, ReadInvInit
<1>2. Types /\ ReadInv /\ [Next]_vars => (Types /\ ReadInv)'
  BY TypesNext, ReadInvNext
<1>3. ReadInv => ReadIsRegular
  BY DEF ReadInv, ReadIsRegular
<1> QED BY <1>1, <1>2, <1>3, PTL DEF Spec

-----------------------------------------------------------------------------
(* The interrupt                                                           *)

\* The hardware remembers that the interrupt was raised whenever bit 24 has
\* not been clear since.
Armed == interrupt_to_softcore_triggered \/ armed

LEMMA ArmedEdge ==
    ASSUME Types, Armed, NEW resetn \in BOOLEAN, NEW bready \in BOOLEAN,
           NEW rready \in BOOLEAN, Tick(resetn, bready, rready)
    PROVE  /\ Armed'
           /\ ~interrupt_to_softcore /\ interrupt_to_softcore' => armed
  BY DEF Tick, InterruptEdge, Watch, Types, Armed

LEMMA ArmedNext ==
    ASSUME Types, Armed, [Next]_vars
    PROVE  /\ Armed'
           /\ ~interrupt_to_softcore /\ interrupt_to_softcore' => armed
<1>1. CASE UNCHANGED vars
  BY <1>1 DEF Armed, vars, interrupts, history
<1>2. ASSUME NEW s \in SoftWords, SoftWritesStatus(s)
      PROVE  UNCHANGED <<interrupt_to_softcore, interrupt_to_softcore_triggered, armed>>
  BY <1>2 DEF SoftWritesStatus
<1>3. ASSUME NEW d \in OutputWords, SoftWritesOutput(d)
      PROVE  UNCHANGED <<interrupt_to_softcore, interrupt_to_softcore_triggered, armed>>
  BY <1>3 DEF SoftWritesOutput, interrupts
<1>4. CASE Next
  BY <1>2, <1>3, <1>4, ArmedEdge DEF Next, Armed
<1> QED BY <1>1, <1>4

\* Between two interrupts of the softcore, an edge has seen bit 24 of the
\* control register clear.
THEOREM OncePerPress == Spec => InterruptOncePerPress
<1>1. Init => Types /\ Armed
  BY TypesInit DEF Init, Armed
<1>2. Types /\ Armed /\ [Next]_vars => (Types /\ Armed)'
  BY TypesNext, ArmedNext
<1>3. Types /\ Armed /\ [Next]_vars
      => [~interrupt_to_softcore /\ interrupt_to_softcore' => armed]_vars
  BY ArmedNext
<1> QED BY <1>1, <1>2, <1>3, PTL DEF Spec, InterruptOncePerPress

-----------------------------------------------------------------------------
(* Port A is atomic.  An access waits from its offer to the edge that      *)
(* performs it; at that edge its acceptance and its answer go up together. *)

\* The channels carry at most one offer each.
Offers ==
    /\ aw = {} \/ \E p \in WritePlaces : aw = {p}
    /\ w = {} \/ \E x \in [data : LinuxWords, strobe : Strobes] : w = {x}
    /\ ar = {} \/ \E p \in Places : ar = {p}

LEMMA OffersNext ==
    ASSUME Offers, [Next]_vars
    PROVE  Offers'
<1>1. ASSUME NEW resetn \in BOOLEAN, NEW bready \in BOOLEAN, NEW rready \in BOOLEAN,
             Tick(resetn, bready, rready)
      PROVE  Offers'
  <2>1. MasterEdge(resetn)
    BY <1>1 DEF Tick
  <2>2. aw' = {} \/ \E p \in WritePlaces : aw' = {p}
    BY <2>1 DEF MasterEdge, Offer, Offers
  <2>3. w' = {} \/ \E x \in [data : LinuxWords, strobe : Strobes] : w' = {x}
    BY <2>1 DEF MasterEdge, Offer, Offers
  <2>4. ar' = {} \/ \E p \in Places : ar' = {p}
    BY <2>1 DEF MasterEdge, Offer, Offers
  <2> QED BY <2>2, <2>3, <2>4 DEF Offers
<1>2. ASSUME UNCHANGED master PROVE Offers'
  BY <1>2 DEF master, Offers
<1>3. CASE UNCHANGED vars
  BY <1>2, <1>3 DEF vars
<1>4. CASE Next
  BY <1>1, <1>2, <1>4 DEF Next, SoftWritesStatus, SoftWritesOutput
<1> QED BY <1>3, <1>4

PortInv == Types /\ Handshake /\ Offers

LEMMA PortAlways == Spec => []PortInv
<1>1. Init => Offers
  BY DEF Init, Offers
<1>2. Offers /\ [Next]_vars => Offers'
  BY OffersNext
<1>3. Spec => []Offers
  BY <1>1, <1>2, PTL DEF Spec
<1> QED BY <1>3, TypesAndHandshake, PTL DEF PortInv

WritesOfLinux == [place : WritePlaces, data : LinuxWords, strobe : Strobes]

\* An address and data make one write.
LEMMA JoinedIsOne ==
    ASSUME NEW p \in WritePlaces, NEW x \in [data : LinuxWords, strobe : Strobes]
    PROVE  /\ Joined({p}, {x}) = {[place |-> p, data |-> x.data, strobe |-> x.strobe]}
           /\ [place |-> p, data |-> x.data, strobe |-> x.strobe] \in WritesOfLinux
  BY DEF Joined, WritesOfLinux

LEMMA JoinedIsNone ==
    ASSUME NEW a, NEW d, a = {} \/ d = {}
    PROVE  Joined(a, d) = {}
  BY DEF Joined

LEMMA PortInit == Init => PortA!Init
  BY DEF Init, PortA!Init, WordsNow, WriteNow, ReadNow, Joined, IdlePort

\* Of the words, an edge changes what a write performs, and no other.
LEMMA PortWrites ==
    ASSUME PortInv, NEW resetn \in BOOLEAN, NEW bready \in BOOLEAN, NEW rready \in BOOLEAN,
           Tick(resetn, bready, rready),
           MemWrite(port, Signals(bready, rready))
    PROVE  \E x \in WriteNow : PortA!Write(x)
<1> DEFINE m == Signals(bready, rready)
<1>1. /\ aw # {} /\ w # {} /\ ~port.awready
      /\ ~MemRead(port, m) /\ MemWrite(port, m)
      /\ PerformWrite(m) /\ PerformRead(m)
      /\ UNCHANGED <<status_register, bram_out>>
  BY DEF Tick, MemWrite, MemRead, WriteEligible, Signals
<1> HIDE DEF m
<1>2. PICK p \in WritePlaces : aw = {p}
  BY <1>1 DEF PortInv, Offers
<1>3. PICK x \in [data : LinuxWords, strobe : Strobes] : w = {x}
  BY <1>1 DEF PortInv, Offers
<1> DEFINE e == [place |-> p, data |-> x.data, strobe |-> x.strobe]
<1>4. e \in WriteNow
  BY <1>1, <1>2, <1>3, JoinedIsOne DEF WriteNow
<1>5. (CHOOSE y \in w : TRUE) = x
  BY <1>3
<1>6. /\ control_register' = IF p = Control THEN x.data ELSE control_register
      /\ bram_in' = IF p = Buffer THEN Lanes(bram_in, x.data, x.strobe) ELSE bram_in
      /\ rdata' = rdata
  BY <1>1, <1>2, <1>5 DEF PerformWrite, PerformRead
<1>7. Lanes(bram_in, x.data, x.strobe)
        = [lane \in 1 .. 2 |-> IF lane \in x.strobe THEN x.data[lane] ELSE bram_in[lane]]
  BY DEF Lanes, High, Low
<1>8. p \in {"control", "status", "buffer"}
  BY PlacesAssumption DEF Places, Control, Status, Buffer
<1>9. /\ e.place = p /\ e.data = x.data /\ e.strobe = x.strobe
      /\ WordsNow["bram_in"] = bram_in
  BY DEF WordsNow
<1>10. WordsNow' = PortA!Effect(e)
  <2>1. CASE p = "control"
    BY <2>1, <1>1, <1>6, <1>9 DEF PortA!Effect, WordsNow, Control, Buffer
  <2>2. CASE p = "buffer"
    BY <2>2, <1>1, <1>6, <1>7, <1>9 DEF PortA!Effect, WordsNow, Control, Buffer
  <2>3. CASE p = "status"
    BY <2>3, <1>1, <1>6, <1>9 DEF PortA!Effect, WordsNow, Control, Buffer
  <2> QED BY <2>1, <2>2, <2>3, <1>8
<1> QED BY <1>4, <1>6, <1>10 DEF PortA!Write

LEMMA PortReads ==
    ASSUME PortInv, NEW resetn \in BOOLEAN, NEW bready \in BOOLEAN, NEW rready \in BOOLEAN,
           Tick(resetn, bready, rready),
           MemRead(port, Signals(bready, rready))
    PROVE  \E p \in ReadNow : PortA!Read(p)
<1> DEFINE m == Signals(bready, rready)
<1>1. /\ ar # {} /\ ~port.arready
      /\ MemRead(port, m) /\ ~MemWrite(port, m)
      /\ PerformWrite(m) /\ PerformRead(m)
      /\ UNCHANGED <<status_register, bram_out>>
  BY DEF Tick, MemRead, ReadEligible, Signals
<1> HIDE DEF m
<1>2. PICK p \in Places : ar = {p}
  BY <1>1 DEF PortInv, Offers
<1>3. rdata' = Content(p)
  BY <1>1, <1>2 DEF PerformRead
<1>4. UNCHANGED WordsNow
  BY <1>1 DEF PerformWrite, WordsNow
<1>5. Content(p) = WordsNow[PortA!ReadFrom(p)]
  BY DEF Content, WordsNow, PortA!ReadFrom, Places, Control, Status, Buffer
<1>6. p \in ReadNow
  BY <1>1, <1>2 DEF ReadNow
<1> QED BY <1>3, <1>4, <1>5, <1>6 DEF PortA!Read

LEMMA PortRests ==
    ASSUME NEW resetn, NEW bready, NEW rready, Tick(resetn, bready, rready),
           ~MemWrite(port, Signals(bready, rready)), ~MemRead(port, Signals(bready, rready))
    PROVE  UNCHANGED <<WordsNow, rdata>>
  BY DEF Tick, PerformWrite, PerformRead, WordsNow

\* What an edge without reset does to what waits on each side.
LEMMA WriteSide ==
    ASSUME PortInv, NEW bready \in BOOLEAN, NEW rready \in BOOLEAN,
           Tick(TRUE, bready, rready)
    PROVE  IF MemWrite(port, Signals(bready, rready))
           THEN WriteNow' = {} /\ unanswered' = 1
           ELSE PortA!WriteWaits
<1> DEFINE m == Signals(bready, rready)
<1>1. /\ port'.awready = MemWrite(port, m)
      /\ aw' \in Offer(aw, port.awready, WritePlaces)
      /\ w' \in Offer(w, port.awready, [data : LinuxWords, strobe : Strobes])
      /\ port'.bvalid = (MemWrite(port, m) \/ (port.bvalid /\ ~m.bready))
  BY DEF Tick, Clocked, AfterEdge, MasterEdge
<1>2. Handshake /\ Handshake'
  BY HandshakeEdge DEF PortInv
<1> HIDE DEF m
<1>3. CASE MemWrite(port, m)
  BY <1>1, <1>2, <1>3 DEF WriteNow, Handshake, m
<1>4. CASE ~MemWrite(port, m)
  <2>1. unanswered' \in {0, unanswered}
    BY <1>1, <1>2, <1>4 DEF Handshake
  <2>2. WriteNow' = Joined(aw', w')
    BY <1>1, <1>4 DEF WriteNow
  <2>3. /\ aw # {} /\ ~port.awready => aw' = aw
        /\ w # {} /\ ~port.awready => w' = w
    BY <1>1 DEF PortInv, Offers, Offer
  <2>4. WriteNow' = {} \/ \E x \in WritesOfLinux : WriteNow' = {x}
    <3>1. Offers'
      BY OffersNext DEF PortInv, Next
    <3>2. CASE aw' = {} \/ w' = {}
      BY <3>2, <2>2, JoinedIsNone
    <3>3. ASSUME NEW p \in WritePlaces, aw' = {p},
                 NEW x \in [data : LinuxWords, strobe : Strobes], w' = {x}
          PROVE  \E y \in WritesOfLinux : WriteNow' = {y}
      <4> DEFINE e == [place |-> p, data |-> x.data, strobe |-> x.strobe]
      <4>1. Joined(aw', w') = {e} /\ e \in WritesOfLinux
        BY <3>3, JoinedIsOne
      <4> HIDE DEF e
      <4> QED BY <4>1, <2>2
    <3> QED BY <3>1, <3>2, <3>3 DEF Offers
  <2>5. WriteNow = {} \/ WriteNow' = WriteNow
    BY <2>2, <2>3, JoinedIsNone DEF WriteNow
  <2>6. PortA!WriteWaits
    BY <2>1, <2>4, <2>5 DEF PortA!WriteWaits, WritesOfLinux
  <2> QED BY <2>6, <1>4 DEF m
<1> QED BY <1>3, <1>4

LEMMA ReadSide ==
    ASSUME PortInv, NEW bready \in BOOLEAN, NEW rready \in BOOLEAN,
           Tick(TRUE, bready, rready)
    PROVE  IF MemRead(port, Signals(bready, rready))
           THEN ReadNow' = {} /\ unread' = 1
           ELSE PortA!ReadWaits
<1> DEFINE m == Signals(bready, rready)
<1>1. /\ port'.arready = MemRead(port, m)
      /\ ar' \in Offer(ar, port.arready, Places)
      /\ port'.rvalid = (MemRead(port, m) \/ (port.rvalid /\ ~m.rready))
  BY DEF Tick, Clocked, AfterEdge, MasterEdge
<1>2. Handshake /\ Handshake'
  BY HandshakeEdge DEF PortInv
<1> HIDE DEF m
<1>3. CASE MemRead(port, m)
  BY <1>1, <1>2, <1>3 DEF ReadNow, Handshake, m
<1>4. CASE ~MemRead(port, m)
  <2>1. unread' \in {0, unread}
    BY <1>1, <1>2, <1>4 DEF Handshake
  <2>2. ReadNow' = ar'
    BY <1>1, <1>4 DEF ReadNow
  <2>3. /\ ar' = {} \/ \E p \in Places : ar' = {p}
        /\ ar # {} /\ ~port.arready => ar' = ar
    BY <1>1 DEF PortInv, Offers, Offer
  <2>4. ReadNow = {} \/ ReadNow' = ReadNow
    BY <2>2, <2>3 DEF ReadNow
  <2>5. PortA!ReadWaits
    BY <2>1, <2>2, <2>3, <2>4 DEF PortA!ReadWaits
  <2> QED BY <2>5, <1>4 DEF m
<1> QED BY <1>3, <1>4

\* An edge performs at most one access; a reset at the same edge drops both
\* sides.
LEMMA PortTick ==
    ASSUME PortInv, NEW resetn \in BOOLEAN, NEW bready \in BOOLEAN, NEW rready \in BOOLEAN,
           Tick(resetn, bready, rready)
    PROVE  PortA!Next
<1> DEFINE m == Signals(bready, rready)
<1>1. ~(MemWrite(port, m) /\ MemRead(port, m))
  BY DEF MemRead
<1>2. MemWrite(port, m) => \E x \in WriteNow : PortA!Write(x)
  BY PortWrites
<1>3. MemRead(port, m) => \E p \in ReadNow : PortA!Read(p)
  BY PortReads
<1>4. ~MemWrite(port, m) /\ ~MemRead(port, m) => UNCHANGED <<WordsNow, rdata>>
  BY PortRests
<1>5. CASE resetn
  <2>1. /\ MemWrite(port, m) => WriteNow' = {} /\ unanswered' = 1
        /\ ~MemWrite(port, m) => PortA!WriteWaits
    BY <1>5, WriteSide
  <2>2. /\ MemRead(port, m) => ReadNow' = {} /\ unread' = 1
        /\ ~MemRead(port, m) => PortA!ReadWaits
    BY <1>5, ReadSide
  <2> HIDE DEF m
  <2>3. PortA!Linux
    BY <1>1, <1>2, <1>3, <1>4, <2>1, <2>2 DEF PortA!Linux
  <2> QED BY <2>3 DEF PortA!Next
<1>6. CASE ~resetn
  <2>1. /\ aw' = {} /\ w' = {} /\ ar' = {}
        /\ unanswered' = 0 /\ unread' = 0
    BY <1>6 DEF Tick, MasterEdge, Watch
  <2>2. WriteNow' = {} /\ ReadNow' = {}
    BY <2>1, JoinedIsNone DEF WriteNow, ReadNow
  <2> HIDE DEF m
  <2>3. PortA!Reset
    BY <1>2, <1>3, <1>4, <2>1, <2>2 DEF PortA!Reset
  <2> QED BY <2>3 DEF PortA!Next
<1> QED BY <1>5, <1>6

\* What the softcore stores is one word, and disturbs nothing that waits.
LEMMA PortSoftcore ==
    ASSUME NEW v \in SoftWords \union OutputWords, UNCHANGED <<master, port, rdata>>,
           UNCHANGED <<control_register, bram_in, unanswered, unread>>,
           \/ status_register' = v /\ UNCHANGED bram_out
           \/ bram_out' = v /\ UNCHANGED status_register
    PROVE  PortA!SoftcoreStores
<1>1. UNCHANGED <<WriteNow, ReadNow>>
  BY DEF master, WriteNow, ReadNow
<1>2. \/ WordsNow' = [WordsNow EXCEPT !["status"] = v]
      \/ WordsNow' = [WordsNow EXCEPT !["bram_out"] = v]
  <2>1. UNCHANGED control_register /\ UNCHANGED bram_in
    OBVIOUS
  <2>2. CASE status_register' = v /\ UNCHANGED bram_out
    <3>1. WordsNow' = [WordsNow EXCEPT !["status"] = v]
      BY <2>1, <2>2 DEF WordsNow
    <3> QED BY <3>1
  <2>3. CASE bram_out' = v /\ UNCHANGED status_register
    BY <2>1, <2>3 DEF WordsNow
  <2> QED BY <2>2, <2>3
<1> QED BY <1>1, <1>2 DEF PortA!SoftcoreStores

\* Each step of the port is a step of AtomicPort or changes nothing of it.
LEMMA PortStep ==
    PortInv /\ [Next]_vars => [PortA!Next]_(PortA!vars)
<1> SUFFICES ASSUME PortInv, [Next]_vars PROVE [PortA!Next]_(PortA!vars)
  OBVIOUS
<1>1. ASSUME NEW resetn \in BOOLEAN, NEW bready \in BOOLEAN, NEW rready \in BOOLEAN,
             Tick(resetn, bready, rready)
      PROVE  PortA!Next
  BY <1>1, PortTick
<1>2. ASSUME NEW s \in SoftWords, SoftWritesStatus(s) PROVE PortA!SoftcoreStores
  BY <1>2, PortSoftcore DEF SoftWritesStatus
<1>3. ASSUME NEW d \in OutputWords, SoftWritesOutput(d) PROVE PortA!SoftcoreStores
  BY <1>3, PortSoftcore DEF SoftWritesOutput
<1>4. CASE UNCHANGED vars
  BY <1>4 DEF vars, master, memory, history, PortA!vars, WordsNow, WriteNow, ReadNow
<1> QED BY <1>1, <1>2, <1>3, <1>4 DEF Next, PortA!Next

\* Port A implements AtomicPort: under any master, each read and write of
\* Linux takes effect at one moment between its offer and its answer, and is
\* answered once; only a reset cuts one off.
THEOREM ImplementsPort == Spec => PortAtomic
  BY PortInit, PortStep, PortAlways, PTL DEF Spec, PortAtomic, PortA!Spec
=============================================================================
