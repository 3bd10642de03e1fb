------------------------------ MODULE AxilPort ------------------------------
(***************************************************************************)
(* The handshake of one AXI4-Lite port of axil_dp_ram.v; both ports run    *)
(* the same logic.  A port is the record of its registers, s, and sees the *)
(* signals of its master, m, at a rising edge of its clock.                *)
(*                                                                         *)
(*   s: last_read, awready (wready always equals it), bvalid, arready,     *)
(*      rvalid; AXIRAM_PIPELINE_OUTPUT is 0, so the pipeline registers     *)
(*      drive nothing and are left out                                     *)
(*   m: awvalid, wvalid, bready, arvalid, rready                           *)
(***************************************************************************)

Port == [last_read : BOOLEAN, awready : BOOLEAN, bvalid : BOOLEAN,
         arready : BOOLEAN, rvalid : BOOLEAN]

Master == [awvalid : BOOLEAN, wvalid : BOOLEAN, bready : BOOLEAN,
           arvalid : BOOLEAN, rready : BOOLEAN]

\* All registers 0, at power-up and after reset.
IdlePort == [last_read |-> FALSE, awready |-> FALSE, bvalid |-> FALSE,
             arready |-> FALSE, rvalid |-> FALSE]

\* Mutants: the write may be performed while its acceptance is signalled, or
\* while the answer before it still waits.
WriteEligibleTwice(s, m) == m.awvalid /\ m.wvalid /\ (~s.bvalid \/ m.bready)
WriteEligibleAlways(s, m) == m.awvalid /\ m.wvalid /\ ~s.awready

\* write_eligible and read_eligible
WriteEligible(s, m) ==
    /\ m.awvalid /\ m.wvalid
    /\ ~s.bvalid \/ m.bready
    /\ ~s.awready

\* Mutant: a read overtakes the answer that waits.
ReadEligibleAlways(s, m) == m.arvalid /\ ~s.arready

ReadEligible(s, m) ==
    /\ m.arvalid
    /\ ~s.rvalid \/ m.rready
    /\ ~s.arready

\* Mutant: a write always waits for a read.
MemWriteAfterRead(s, m) == WriteEligible(s, m) /\ s.last_read

\* mem_wr_en and mem_rd_en: when both are eligible they take turns.
MemWrite(s, m) == WriteEligible(s, m) /\ (~ReadEligible(s, m) \/ s.last_read)
MemRead(s, m)  == ReadEligible(s, m) /\ ~MemWrite(s, m)

\* The registers after an edge without and with reset.
AfterEdge(s, m) ==
    [last_read |-> IF MemWrite(s, m) THEN FALSE
                   ELSE s.last_read \/ MemRead(s, m),
     awready   |-> MemWrite(s, m),
     bvalid    |-> MemWrite(s, m) \/ (s.bvalid /\ ~m.bready),
     arready   |-> MemRead(s, m),
     rvalid    |-> MemRead(s, m) \/ (s.rvalid /\ ~m.rready)]

Clocked(resetn, s, m) == IF resetn THEN AfterEdge(s, m) ELSE IdlePort
=============================================================================
