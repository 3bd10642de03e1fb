------------------------ MODULE FismosLkmLoad_proofs ------------------------
(***************************************************************************)
(* Proofs about loading the kernel module, for any number of processes.    *)
(* That init and exit take back what was put in place holds if only the    *)
(* status register's file can be refused: the run lkm_load_fails shows     *)
(* what the other labels do.                                               *)
(***************************************************************************)
EXTENDS FismosLkmLoad, TLAPS

-----------------------------------------------------------------------------
(* Files and their code                                                    *)

\* From rmmod on no process has a file of the module open.
NoFileAtExit == stage = "exit" => \A p \in Processes : opened[p] \notin DeviceFiles

FileInv ==
    /\ opened \in [Processes -> DeviceFiles \union {Closed, Stale}]
    /\ NoFileAtExit

\* The files hold from any step to the next.
LEMMA FileInductive == FileInv /\ [Next]_vars => FileInv'
<1> SUFFICES ASSUME FileInv, [Next]_vars PROVE FileInv'
    OBVIOUS
<1> USE DEF FileInv, NoFileAtExit
<1>1. CASE Load \/ Register \/ RegisterFails \/ Unregister \/ UNCHANGED vars
    BY <1>1 DEF Load, Register, RegisterFails, Unregister, vars
<1>2. CASE Unload
    BY <1>2 DEF Unload, Busy
<1>3. CASE Free
    BY <1>3 DEF Free
<1>4. ASSUME NEW p \in Processes, Close(p) PROVE FileInv'
    BY <1>4, FileAssumption DEF Close, DeviceFiles, Parts
<1>5. ASSUME NEW p \in Processes, NEW f \in DeviceFiles, Open(p, f) PROVE FileInv'
    BY <1>5 DEF Open
<1> QED
    BY <1>1, <1>2, <1>3, <1>4, <1>5 DEF Next

\* rmmod never takes the code away from an open file, whatever may fail: the
\* files' .owner keeps the module.
THEOREM FilesKeepTheirCode == Spec => OnlyFailureTakesCode
<1> DEFINE Safe == \A p \in Processes :
                        opened'[p] = Stale /\ opened[p] # Stale => stage = "failed"
<1>1. Init => FileInv
    BY FileAssumption DEF Init, FileInv, NoFileAtExit, DeviceFiles, Parts
<1>2. ASSUME FileInv, [Next]_vars PROVE [Safe]_vars
    <2>1. CASE Load \/ Register \/ RegisterFails \/ Unload \/ Unregister
        BY <2>1 DEF Load, Register, RegisterFails, Unload, Unregister
    <2>2. CASE Free
        BY <2>2, <1>2 DEF Free, FileInv, NoFileAtExit
    <2>3. ASSUME NEW p \in Processes, Close(p) PROVE Safe
        BY <2>3, <1>2, FileAssumption DEF Close, FileInv
    <2>4. ASSUME NEW p \in Processes, NEW f \in DeviceFiles, Open(p, f) PROVE Safe
        BY <2>4, <1>2, FileAssumption DEF Open, FileInv, Parts
    <2> QED
        BY <1>2, <2>1, <2>2, <2>3, <2>4 DEF Next
<1> QED
    BY <1>1, <1>2, FileInductive, PTL DEF Spec, OnlyFailureTakesCode

-----------------------------------------------------------------------------
(* The ladder                                                              *)

PD == "platform_driver"
IR == "instruction_register"
SR == "status_register"
DB == "data_buffer"

\* At each stage, what is registered together with what is still to be done.
InitInv == stage = "init" =>
    /\ undo = <<>>
    /\ \/ todo = <<PD, IR, SR, DB>> /\ registered = {}
       \/ todo = <<IR, SR, DB>> /\ registered = {PD}
       \/ todo = <<SR, DB>> /\ registered = {PD, IR}
       \/ todo = <<DB>> /\ registered = {PD, IR, SR}
FailedInv == stage = "failed" =>
    /\ todo = <<>>
    /\ \/ undo = <<IR, PD>> /\ registered = {PD, IR}
       \/ undo = <<PD>> /\ registered = {PD}
       \/ undo = <<>> /\ registered = {}
ExitInv == stage = "exit" =>
    /\ todo = <<>>
    /\ \/ undo = <<PD, DB, SR, IR>> /\ registered = {PD, IR, SR, DB}
       \/ undo = <<DB, SR, IR>> /\ registered = {IR, SR, DB}
       \/ undo = <<SR, IR>> /\ registered = {IR, SR}
       \/ undo = <<IR>> /\ registered = {IR}
       \/ undo = <<>> /\ registered = {}
RestInv ==
    /\ stage = "absent" => registered = {} /\ todo = <<>> /\ undo = <<>>
    /\ stage = "loaded" => registered = {PD, IR, SR, DB} /\ todo = <<>> /\ undo = <<>>

LadderInv ==
    /\ stage \in {"absent", "init", "loaded", "failed", "exit"}
    /\ InitInv /\ FailedInv /\ ExitInv /\ RestInv

\* If only the status register's file can be refused, each step of the module
\* leads from one of these situations to another.
LEMMA LadderInductive ==
    ASSUME Failing \subseteq {"status_register"}
    PROVE  LadderInv /\ [Next]_vars => LadderInv'
<1> SUFFICES ASSUME LadderInv, [Next]_vars PROVE LadderInv'
    OBVIOUS
<1> USE DEF LadderInv, InitInv, FailedInv, ExitInv, RestInv, PD, IR, SR, DB
<1>1. CASE Load
    BY <1>1 DEF Load, InitOrder
<1>2. CASE Register
    <2>1. /\ stage = "init" /\ undo' = undo
          /\ registered' = registered \union {Head(todo)}
          /\ todo' = Tail(todo)
          /\ stage' = IF Tail(todo) = <<>> THEN "loaded" ELSE "init"
        BY <1>2 DEF Register
    <2>2. CASE todo = <<PD, IR, SR, DB>>
        BY <2>1, <2>2
    <2>3. CASE todo = <<IR, SR, DB>>
        BY <2>1, <2>3
    <2>4. CASE todo = <<SR, DB>>
        BY <2>1, <2>4
    <2>5. CASE todo = <<DB>>
        BY <2>1, <2>5
    <2> QED
        BY <2>1, <2>2, <2>3, <2>4, <2>5
<1>3. CASE RegisterFails
    BY <1>3 DEF RegisterFails, Ladder
<1>4. CASE Unload
    BY <1>4 DEF Unload, ExitOrder
<1>5. CASE Unregister
    <2>1. /\ stage \in {"failed", "exit"} /\ undo # <<>>
          /\ registered' = registered \ {Head(undo)}
          /\ undo' = Tail(undo)
          /\ UNCHANGED <<stage, todo>>
        BY <1>5 DEF Unregister
    <2>2. CASE stage = "failed"
        <3>1. CASE undo = <<IR, PD>>
            BY <2>1, <2>2, <3>1
        <3>2. CASE undo = <<PD>>
            BY <2>1, <2>2, <3>2
        <3> QED
            BY <2>1, <2>2, <3>1, <3>2
    <2>3. CASE stage = "exit"
        <3>1. CASE undo = <<PD, DB, SR, IR>>
            <4>1. undo' = <<DB, SR, IR>>
                BY <2>1, <3>1
            <4>2. registered' = {IR, SR, DB}
                BY <2>1, <2>3, <3>1
            <4> QED
                BY <2>1, <2>3, <4>1, <4>2
        <3>2. CASE undo = <<DB, SR, IR>>
            BY <2>1, <2>3, <3>2
        <3>3. CASE undo = <<SR, IR>>
            BY <2>1, <2>3, <3>3
        <3>4. CASE undo = <<IR>>
            BY <2>1, <2>3, <3>4
        <3> QED
            BY <2>1, <2>3, <3>1, <3>2, <3>3, <3>4
    <2> QED
        BY <2>1, <2>2, <2>3
<1>6. CASE Free
    BY <1>6 DEF Free
<1>7. ASSUME NEW p \in Processes, Close(p) \/ \E f \in DeviceFiles : Open(p, f)
      PROVE  LadderInv'
    BY <1>7 DEF Close, Open
<1>8. CASE UNCHANGED vars
    BY <1>8 DEF vars
<1> QED
    BY <1>1, <1>2, <1>3, <1>4, <1>5, <1>6, <1>7, <1>8 DEF Next

\* The situations have the three properties.
LEMMA LadderImplies ==
    LadderInv => UndoesTheDone /\ LoadedIsComplete /\ NothingLeftBehind
BY DEF LadderInv, InitInv, FailedInv, ExitInv, RestInv, PD, IR, SR, DB,
       UndoesTheDone, LoadedIsComplete, NothingLeftBehind, Parts, DeviceFiles

\* If only the status register's file can be refused, init and exit take away
\* just what was put in place ...
THEOREM LadderUndoes ==
    ASSUME Failing \subseteq {"status_register"}
    PROVE  Spec => []UndoesTheDone
<1>1. Init => LadderInv
    BY DEF Init, LadderInv, InitInv, FailedInv, ExitInv, RestInv
<1> QED
    BY <1>1, LadderInductive, LadderImplies, PTL DEF Spec

\* ... and leave nothing behind.
THEOREM LadderLeavesNothing ==
    ASSUME Failing \subseteq {"status_register"}
    PROVE  Spec => []NothingLeftBehind
<1>1. Init => LadderInv
    BY DEF Init, LadderInv, InitInv, FailedInv, ExitInv, RestInv
<1> QED
    BY <1>1, LadderInductive, LadderImplies, PTL DEF Spec
-----------------------------------------------------------------------------
(* A module that is loaded is complete, whatever may fail                  *)

\* fismos_init() goes through its parts in order and has put in place those
\* it went past.
ProgressInv ==
    /\ stage \in {"absent", "init", "loaded", "failed", "exit"}
    /\ registered \subseteq Parts
    /\ stage = "init" =>
        \/ todo = <<PD, IR, SR, DB>>
        \/ todo = <<IR, SR, DB>> /\ {PD} \subseteq registered
        \/ todo = <<SR, DB>> /\ {PD, IR} \subseteq registered
        \/ todo = <<DB>> /\ {PD, IR, SR} \subseteq registered
    /\ LoadedIsComplete

LEMMA ProgressInductive == ProgressInv /\ [Next]_vars => ProgressInv'
<1> SUFFICES ASSUME ProgressInv, [Next]_vars PROVE ProgressInv'
    OBVIOUS
<1> USE DEF ProgressInv, LoadedIsComplete, PD, IR, SR, DB, Parts, DeviceFiles
<1>1. CASE Load
    BY <1>1 DEF Load, InitOrder
<1>2. CASE Register
    <2>1. /\ stage = "init" /\ undo' = undo /\ opened' = opened
          /\ registered' = registered \union {Head(todo)}
          /\ todo' = Tail(todo)
          /\ stage' = IF Tail(todo) = <<>> THEN "loaded" ELSE "init"
        BY <1>2 DEF Register
    <2>2. CASE todo = <<PD, IR, SR, DB>>
        <3>1. Head(todo) = PD /\ Tail(todo) = <<IR, SR, DB>>
            BY <2>2
        <3>2. stage' = "init"
            BY <2>1, <3>1
        <3> QED
            BY <2>1, <2>2, <3>1, <3>2
    <2>3. CASE todo = <<IR, SR, DB>>
        <3>1. Head(todo) = IR /\ Tail(todo) = <<SR, DB>>
            BY <2>3
        <3>2. stage' = "init"
            BY <2>1, <3>1
        <3> QED
            BY <2>1, <2>3, <3>1, <3>2
    <2>4. CASE todo = <<SR, DB>>
        <3>1. Head(todo) = SR /\ Tail(todo) = <<DB>>
            BY <2>4
        <3>2. stage' = "init"
            BY <2>1, <3>1
        <3> QED
            BY <2>1, <2>4, <3>1, <3>2
    <2>5. CASE todo = <<DB>>
        <3>1. Head(todo) = DB /\ Tail(todo) = <<>>
            BY <2>5
        <3> QED
            BY <2>1, <2>5, <3>1
    <2> QED
        BY <2>1, <2>2, <2>3, <2>4, <2>5
<1>3. CASE RegisterFails
    BY <1>3 DEF RegisterFails, Ladder
<1>4. CASE Unload
    BY <1>4 DEF Unload, ExitOrder
<1>5. CASE Unregister
    BY <1>5 DEF Unregister
<1>6. CASE Free
    BY <1>6 DEF Free
<1>7. ASSUME NEW p \in Processes, Close(p) \/ \E f \in DeviceFiles : Open(p, f)
      PROVE  ProgressInv'
    BY <1>7 DEF Close, Open
<1>8. CASE UNCHANGED vars
    BY <1>8 DEF vars
<1> QED
    BY <1>1, <1>2, <1>3, <1>4, <1>5, <1>6, <1>7, <1>8 DEF Next

\* fismos_init() reports success only with everything in place.
THEOREM LoadedComplete == Spec => []LoadedIsComplete
<1>1. Init => ProgressInv
    BY DEF Init, ProgressInv, LoadedIsComplete
<1>2. ProgressInv => LoadedIsComplete
    BY DEF ProgressInv
<1> QED
    BY <1>1, <1>2, ProgressInductive, PTL DEF Spec

\* Every variable keeps its type, and there is something to register in
\* fismos_init() only.
THEOREM TypeCorrect == Spec => []TypeOK
<1>1. Init => TypeOK
    BY DEF Init, TypeOK
<1>2. TypeOK /\ [Next]_vars => TypeOK'
    <2> SUFFICES ASSUME TypeOK, [Next]_vars PROVE TypeOK'
        OBVIOUS
    <2> USE DEF TypeOK
    <2>1. CASE Load
        <3>1. InitOrder \in Seq(Parts) /\ InitOrder # <<>>
            BY DEF InitOrder, Parts, DeviceFiles
        <3> QED
            BY <2>1, <3>1 DEF Load
    <2>2. CASE Register
        <3>1. Tail(todo) \in Seq(Parts) /\ Head(todo) \in Parts
            BY <2>2 DEF Register
        <3> QED
            BY <2>2, <3>1 DEF Register
    <2>3. CASE RegisterFails
        <3>1. Head(todo) \in Parts
            BY <2>3 DEF RegisterFails
        <3>2. \A part \in Parts : Ladder(part) \in Seq(Parts)
            <4>1. {"platform_driver", "instruction_register", "data_buffer"} \subseteq Parts
                BY DEF Parts, DeviceFiles
            <4>2. /\ Ladder("platform_driver") = <<"platform_driver">>
                  /\ Ladder("instruction_register") = <<>>
                  /\ Ladder("status_register")
                        = <<"instruction_register", "platform_driver">>
                  /\ Ladder("data_buffer")
                        = <<"data_buffer", "instruction_register", "platform_driver">>
                BY DEF Ladder
            <4>3. /\ <<"platform_driver">> \in Seq(Parts) /\ <<>> \in Seq(Parts)
                  /\ <<"instruction_register", "platform_driver">> \in Seq(Parts)
                  /\ <<"data_buffer", "instruction_register", "platform_driver">>
                        \in Seq(Parts)
                BY <4>1
            <4>4. \A part \in Parts :
                    part \in {"platform_driver"} \union
                             {"instruction_register", "status_register", "data_buffer"}
                BY DEF Parts, DeviceFiles
            <4> QED
                BY <4>2, <4>3, <4>4
        <3>3. undo' = Ladder(Head(todo)) /\ todo' = <<>> /\ stage' = "failed"
              /\ UNCHANGED <<registered, opened>>
            BY <2>3 DEF RegisterFails
        <3>4. undo' \in Seq(Parts)
            BY <3>1, <3>2, <3>3
        <3> QED
            BY <3>3, <3>4
    <2>4. CASE Unload
        <3>1. ExitOrder \in Seq(Parts)
            BY DEF ExitOrder, Parts, DeviceFiles
        <3> QED
            BY <2>4, <3>1 DEF Unload
    <2>5. CASE Unregister
        <3>1. Tail(undo) \in Seq(Parts)
            BY <2>5 DEF Unregister
        <3> QED
            BY <2>5, <3>1 DEF Unregister
    <2>6. CASE Free
        BY <2>6 DEF Free
    <2>7. ASSUME NEW p \in Processes, Close(p) \/ \E f \in DeviceFiles : Open(p, f)
          PROVE  TypeOK'
        BY <2>7 DEF Close, Open
    <2>8. CASE UNCHANGED vars
        BY <2>8 DEF vars
    <2> QED
        BY <2>1, <2>2, <2>3, <2>4, <2>5, <2>6, <2>7, <2>8 DEF Next
<1> QED
    BY <1>1, <1>2, PTL DEF Spec
=============================================================================
