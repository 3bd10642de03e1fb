------------------------- MODULE FismosCore_proofs -------------------------
(***************************************************************************)
(* The firmware core is correct for every buffer size, every set of data   *)
(* values and control words, and every function its modes compute.         *)
(***************************************************************************)
EXTENDS FismosService, TLAPS

\* The length of what a mode reads fits the buffer and is not zero.
LEMMA InLenBounds ==
    ASSUME NEW m \in Modes
    PROVE  /\ InLen(m) \in 1 .. 2 * Half
           /\ OutLen(m) \in 1 .. 2 * Half
           /\ m # COMPARE => OutLen(m) <= InLen(m)
BY HalfAssumption DEF InLen, OutLen, Modes, AES, HMAC, COMPARE, RSA, KEYSTORAGE

\* An answer the firmware computes is a word of an output buffer.
LEMMA ComputeTyped ==
    ASSUME NEW m \in Modes, NEW x \in Inputs, NEW k \in Idx
    PROVE  Compute(m, x, k) \in Outputs
BY DEF Outputs, Results

\* The status words are words of the status register.
LEMMA StatusTyped ==
    /\ {PowerUp, Accepted, IrqReset} \subseteq StatusWords
    /\ \A m \in Modes : Working(m) \in StatusWords /\ Done(m) \in StatusWords
BY DEF StatusWords, DoneWords

-----------------------------------------------------------------------------
(* Ranges of the indices while a handler runs.  With them the type         *)
(* invariant is inductive.                                                 *)

IndexInRange ==
    /\ pc = "read" => i < InLen(mode)
    /\ pc = "write" => i < OutLen(mode)

TypeInv == TypeOK /\ IndexInRange

\* Power-up: every register and buffer word is in its type.
LEMMA TypeInit == Init => TypeInv
<1> SUFFICES ASSUME Init PROVE TypeInv
  OBVIOUS
<1>1. <<0, 0>> \in Word
  <2>1. 0 \in HalfWord
    BY DEF HalfWord
  <2>2. QED
    BY <2>1 DEF Word
<1>2. PowerUp \in StatusWords /\ AES \in Modes
  BY StatusTyped DEF Modes
<1>3. 0 \in 0 .. 2 * Half
  BY HalfAssumption
<1>4. [k \in Idx |-> Zero] \in Inputs /\ [k \in Idx |-> Zero] \in [Idx -> Outputs]
  BY DataAssumption DEF Inputs, Outputs
<1>5. seen \in [Idx -> SUBSET Data]
  BY DataAssumption DEF Init
<1>6. job \in [mode : Modes, input : Inputs]
  BY <1>2, <1>4 DEF Init
<1>7. QED
  BY <1>1, <1>2, <1>3, <1>4, <1>5, <1>6
  DEF Init, TypeInv, TypeOK, IndexInRange, PCs, NoneRun

\* No access of firmware or host, and no reset, leaves the types or moves a
\* handler's index past what its mode reads or writes.
LEMMA TypeStep == TypeInv /\ [Next]_vars => TypeInv'
<1> SUFFICES ASSUME TypeInv, [Next]_vars PROVE TypeInv'
  OBVIOUS
<1> USE DEF TypeInv, TypeOK, IndexInRange, PCs, shared, firmware, history
<1>1. CASE Boot
  BY <1>1 DEF Boot, NoneRun
<1>2. CASE PollZero
  BY <1>2 DEF PollZero, NoneRun
<1>3. CASE PollRequest
  BY <1>3 DEF PollRequest
<1>4. CASE Accept
  <2>1. [k \in Idx |-> {bram_in[k]}] \in [Idx -> SUBSET Data]
    BY DEF Inputs
  <2>2. QED
    BY <1>4, <2>1, StatusTyped DEF Accept
<1>5. CASE ClearIrq
  BY <1>5, StatusTyped DEF ClearIrq
<1>6. CASE StartWork
  <2>1. [k \in Idx |-> Zero] \in Inputs
    BY DataAssumption DEF Inputs
  <2>2. 0 \in 0 .. 2 * Half /\ 0 < InLen(mode)
    BY InLenBounds, HalfAssumption
  <2>3. QED
    BY <1>6, <2>1, <2>2, StatusTyped DEF StartWork
<1>7. CASE ReadWord
  <2>1. InLen(mode) \in 1 .. 2 * Half /\ i \in Nat /\ i < InLen(mode) /\ Half \in Nat
    BY <1>7, InLenBounds, HalfAssumption DEF ReadWord
  <2>2. i \in Idx /\ i + 1 \in 0 .. 2 * Half
    BY <2>1 DEF Idx
  <2>3. in' \in Inputs
    BY <1>7, <2>2 DEF ReadWord, Inputs
  <2>4. i + 1 # InLen(mode) => i + 1 < InLen(mode)
    BY <2>1
  <2>5. job' \in [mode : Modes, input : Inputs]
    <3>1. [mode |-> mode, input |-> in'] \in [mode : Modes, input : Inputs]
      BY <2>3
    <3>2. job' = [mode |-> mode, input |-> in'] \/ job' = job
      BY <1>7 DEF ReadWord
    <3>3. QED
      BY <3>1, <3>2
  <2>6. QED
    BY <1>7, <2>2, <2>3, <2>4, <2>5 DEF ReadWord
<1>8. CASE ComputeAccept
  <2>1. 0 \in 0 .. 2 * Half /\ 0 < OutLen(mode)
    BY InLenBounds, HalfAssumption
  <2>2. QED
    BY <1>8, <2>1 DEF ComputeAccept
<1>9. CASE ComputeReject
  BY <1>9 DEF ComputeReject
<1>10. CASE Refuse
  <2>1. bram_out' \in [Idx -> Outputs]
    BY <1>10 DEF Refuse, Outputs
  <2>2. QED
    BY <1>10, <2>1 DEF Refuse
<1>11. CASE LibraryError
  BY <1>11 DEF LibraryError
<1>12. CASE WriteWord
  <2>1. OutLen(mode) \in 1 .. 2 * Half /\ i \in Nat /\ i < OutLen(mode) /\ Half \in Nat
    BY <1>12, InLenBounds, HalfAssumption DEF WriteWord
  <2>2. i \in Idx /\ i + 1 \in 0 .. 2 * Half
    BY <2>1 DEF Idx
  <2>3. bram_out' \in [Idx -> Outputs]
    BY <1>12, <2>2, ComputeTyped DEF WriteWord
  <2>4. i + 1 # OutLen(mode) => i + 1 < OutLen(mode)
    BY <2>1
  <2>5. QED
    BY <1>12, <2>2, <2>3, <2>4 DEF WriteWord
<1>13. CASE Finish
  BY <1>13, StatusTyped DEF Finish
<1>14. ASSUME NEW c \in Commands, HostWriteControl(c) PROVE TypeInv'
  BY <1>14, CommandAssumption DEF HostWriteControl
<1>15. ASSUME NEW k \in Idx, NEW d \in Data, HostWriteInput(k, d) PROVE TypeInv'
  <2>1. bram_in' \in Inputs /\ seen' \in [Idx -> SUBSET Data]
    BY <1>15 DEF HostWriteInput, Inputs
  <2>2. QED
    BY <1>15, <2>1 DEF HostWriteInput
<1>16. CASE Reset
  BY <1>16 DEF Reset
<1>17. CASE UNCHANGED vars
  BY <1>17 DEF vars
<1>18. QED
  BY <1>1, <1>2, <1>3, <1>4, <1>5, <1>6, <1>7, <1>8, <1>9, <1>10, <1>11, <1>12,
     <1>13, <1>14, <1>15, <1>16, <1>17 DEF Next, Firmware, Handler, Host

\* Registers, buffers and firmware variables always hold values of their
\* type; in particular no handler leaves the exchange buffers.
THEOREM TypeCorrect == Spec => []TypeOK
<1>1. TypeInv => TypeOK
  BY DEF TypeInv
<1>2. QED
  BY <1>1, TypeInit, TypeStep, PTL DEF Spec

-----------------------------------------------------------------------------
(* The answer.  DoneMeansAnswered is not inductive: that the last word was *)
(* written says nothing of the others.  Its strengthening follows the      *)
(* firmware through the run: the status word tells the phase, the words    *)
(* below the index are written, and the job is the one being run.          *)

Running == {"read", "compute", "write", "finish", "refuse", "spin", "trap"}

StatusFollowsPc ==
    /\ pc = "clear" => status_register = Accepted
    /\ pc = "work" => status_register = IrqReset
    /\ pc \in Running => status_register = Working(mode)

JobIsCurrent ==
    pc \in {"compute", "write", "finish"} => job = [mode |-> mode, input |-> in]

WrittenSoFar ==
    /\ pc \in {"write", "finish"} => Accepts(mode, in)
    /\ pc = "write"  => \A k \in 0 .. i - 1 : bram_out[k] = Compute(mode, in, k)
    /\ pc = "finish" =>
           \A k \in 0 .. OutLen(mode) - 1 : bram_out[k] = Compute(mode, in, k)

AnswerInv == StatusFollowsPc /\ JobIsCurrent /\ WrittenSoFar /\ DoneMeansAnswered

\* The status words of the phases of a run are not "done" words.
LEMMA PhasesAreNotDone ==
    /\ PowerUp \notin DoneWords
    /\ Accepted \notin DoneWords
    /\ IrqReset \notin DoneWords
    /\ \A m \in Modes : Working(m) \notin DoneWords
BY DEF PowerUp, Accepted, IrqReset, Working, Done, DoneWords, StatusMode,
       Modes, AES, HMAC, COMPARE, RSA, KEYSTORAGE

\* Power-up: the status is not "done", so there is no answer to be wrong.
LEMMA AnswerInit == Init => AnswerInv
BY PhasesAreNotDone
DEF Init, AnswerInv, StatusFollowsPc, JobIsCurrent, WrittenSoFar,
    DoneMeansAnswered, Running

\* Each access of a run extends the answer or the status by what its phase
\* allows, and nothing the host writes takes part in an answer.
LEMMA AnswerStep == TypeInv /\ AnswerInv /\ [Next]_vars => AnswerInv'
<1> SUFFICES ASSUME TypeInv, AnswerInv, [Next]_vars PROVE AnswerInv'
  OBVIOUS
<1> USE DEF AnswerInv, StatusFollowsPc, JobIsCurrent, WrittenSoFar,
            DoneMeansAnswered, Running, shared, firmware, history
<1>t. mode \in Modes /\ Half \in Nat \ {0}
  BY HalfAssumption DEF TypeInv, TypeOK
<1>1. CASE Boot
  BY <1>1 DEF Boot
<1>2. CASE PollZero
  BY <1>2 DEF PollZero
<1>3. CASE PollRequest
  BY <1>3 DEF PollRequest
<1>4. CASE Accept
  BY <1>4, PhasesAreNotDone DEF Accept
<1>5. CASE ClearIrq
  BY <1>5, PhasesAreNotDone DEF ClearIrq
<1>6. CASE StartWork
  BY <1>6, <1>t, PhasesAreNotDone DEF StartWork
<1>7. CASE ReadWord
  <2>1. status_register' = Working(mode') /\ status_register' \notin DoneWords
    BY <1>7, <1>t, PhasesAreNotDone DEF ReadWord
  <2>2. pc' = "read" \/ (pc' = "compute" /\ job' = [mode |-> mode', input |-> in'])
    BY <1>7 DEF ReadWord
  <2>3. QED
    BY <2>1, <2>2
<1>8. CASE ComputeAccept
  <2>1. status_register' \notin DoneWords
    BY <1>8, <1>t, PhasesAreNotDone DEF ComputeAccept
  <2>2. 0 .. i' - 1 = {}
    BY <1>8 DEF ComputeAccept
  <2>3. QED
    BY <1>8, <2>1, <2>2 DEF ComputeAccept
<1>9. CASE ComputeReject
  BY <1>9 DEF ComputeReject
<1>10. CASE Refuse
  BY <1>10, <1>t, PhasesAreNotDone DEF Refuse
<1>11. CASE LibraryError
  BY <1>11 DEF LibraryError
<1>12. CASE WriteWord
  <2>1. status_register' \notin DoneWords
    BY <1>12, <1>t, PhasesAreNotDone DEF WriteWord
  <2>2. i \in Idx /\ i \in Nat
    <3>1. OutLen(mode) \in 1 .. 2 * Half /\ i \in 0 .. 2 * Half /\ i < OutLen(mode)
      BY <1>12, <1>t, InLenBounds DEF WriteWord, TypeInv, TypeOK, IndexInRange
    <3>2. QED
      BY <3>1, <1>t DEF Idx
  <2>3. \A k \in 0 .. i : bram_out'[k] = Compute(mode, in, k)
    <3>1. bram_out' = [bram_out EXCEPT ![i] = Compute(mode, in, i)]
      BY <1>12 DEF WriteWord
    <3>2. \A k \in 0 .. i - 1 : k \in Idx /\ k # i
      BY <2>2, <1>t DEF Idx
    <3>3. bram_out \in [Idx -> Outputs]
      BY DEF TypeInv, TypeOK
    <3>4. bram_out'[i] = Compute(mode, in, i)
      BY <3>1, <3>3, <2>2
    <3>5. \A k \in 0 .. i - 1 : bram_out'[k] = Compute(mode, in, k)
      BY <1>12, <3>1, <3>2, <3>3 DEF WriteWord
    <3>6. QED
      BY <3>4, <3>5, <2>2
  <2>4. pc' = "write" => i' - 1 = i
    BY <1>12, <2>2 DEF WriteWord
  <2>5. pc' = "finish" => OutLen(mode) - 1 = i
    BY <1>12, <2>2, <1>t, InLenBounds DEF WriteWord
  <2>6. mode' = mode /\ in' = in /\ job' = job /\ status_register' = status_register
        /\ pc = "write" /\ pc' \in {"write", "finish"}
    BY <1>12 DEF WriteWord
  <2>7. QED
    BY <2>1, <2>3, <2>4, <2>5, <2>6
<1>13. CASE Finish
  <2>1. status_register' = Done(mode) /\ pc' = "poll" /\ job' = job
        /\ bram_out' = bram_out /\ mode' = mode /\ in' = in
    BY <1>13 DEF Finish
  <2>2. job.mode = mode /\ job.input = in /\ Accepts(mode, in)
        /\ \A k \in 0 .. OutLen(mode) - 1 : bram_out[k] = Compute(mode, in, k)
    BY <1>13 DEF Finish
  <2>3. QED
    BY <2>1, <2>2
<1>14. ASSUME NEW c \in Commands, HostWriteControl(c) PROVE AnswerInv'
  BY <1>14 DEF HostWriteControl
<1>15. ASSUME NEW k \in Idx, NEW d \in Data, HostWriteInput(k, d) PROVE AnswerInv'
  BY <1>15 DEF HostWriteInput
<1>16. CASE Reset
  BY <1>16 DEF Reset
<1>17. CASE UNCHANGED vars
  BY <1>17 DEF vars
<1>18. QED
  BY <1>1, <1>2, <1>3, <1>4, <1>5, <1>6, <1>7, <1>8, <1>9, <1>10, <1>11, <1>12,
     <1>13, <1>14, <1>15, <1>16, <1>17 DEF Next, Firmware, Handler, Host

\* A "done" status always stands over the complete answer of one job.
THEOREM DoneAnswered == Spec => []DoneMeansAnswered
<1>1. AnswerInv => DoneMeansAnswered
  BY DEF AnswerInv
<1>2. QED
  BY <1>1, TypeInit, TypeStep, AnswerInit, AnswerStep, PTL DEF Spec

\* A softcore that failed leaves the "working" status of the failed mode.
THEOREM FailureSilent == Spec => []FailureIsSilent
<1>1. AnswerInv => FailureIsSilent
  BY DEF AnswerInv, StatusFollowsPc, Running, FailureIsSilent
<1>2. QED
  BY <1>1, TypeInit, TypeStep, AnswerInit, AnswerStep, PTL DEF Spec

\* An announced answer is withdrawn before it is overwritten.
THEOREM AnswerStays == Spec => AnswerStaysPut
<1>1. TypeInv /\ AnswerInv /\ [Next]_vars =>
        [/\ status_register \in DoneWords
         /\ status_register' = status_register
         => bram_out' = bram_out]_vars
  <2> SUFFICES ASSUME TypeInv, AnswerInv, [Next]_vars,
                      status_register \in DoneWords
               PROVE  bram_out' = bram_out
    OBVIOUS
  <2>1. pc \notin Running
    BY PhasesAreNotDone DEF AnswerInv, StatusFollowsPc, Running, TypeInv, TypeOK
  <2>2. QED
    BY <2>1 DEF Running, Next, Firmware, Handler, Host, Boot, PollZero, PollRequest,
       Accept, ClearIrq, StartWork, ReadWord, ComputeAccept, ComputeReject, Refuse,
       LibraryError, WriteWord, Finish, HostWriteControl, HostWriteInput, Reset,
       vars, shared
<1>2. QED
  BY <1>1, TypeInit, TypeStep, AnswerInit, AnswerStep, PTL DEF Spec, AnswerStaysPut

-----------------------------------------------------------------------------
(* The copy of the input                                                   *)

CurrentIsSeen == \A k \in Idx : bram_in[k] \in seen[k]

CopyInv == CurrentIsSeen /\ CopyIsRegular

\* Power-up: nothing is copied yet.
LEMMA CopyInit == Init => CopyInv
BY DEF Init, CopyInv, CurrentIsSeen, CopyIsRegular, Copied

\* A copied word is one the buffer holds at that moment, and the host only
\* adds to what the buffer has held.
LEMMA CopyStep == TypeInv /\ CopyInv /\ [Next]_vars => CopyInv'
<1> SUFFICES ASSUME TypeInv, CopyInv, [Next]_vars PROVE CopyInv'
  OBVIOUS
<1> USE DEF CopyInv, CurrentIsSeen, CopyIsRegular, Copied, shared, firmware, history
<1>t. /\ mode \in Modes /\ Half \in Nat \ {0} /\ i \in 0 .. 2 * Half
      /\ in \in [Idx -> Data] /\ seen \in [Idx -> SUBSET Data]
      /\ bram_in \in [Idx -> Data]
  BY HalfAssumption DEF TypeInv, TypeOK, Inputs
<1>1. CASE Boot
  BY <1>1 DEF Boot
<1>2. CASE PollZero
  BY <1>2 DEF PollZero
<1>3. CASE PollRequest
  BY <1>3 DEF PollRequest
<1>4. CASE Accept
  BY <1>4 DEF Accept
<1>5. CASE ClearIrq
  BY <1>5 DEF ClearIrq
<1>6. CASE StartWork
  BY <1>6 DEF StartWork
<1>7. CASE ReadWord
  <2>1. InLen(mode) \in 1 .. 2 * Half /\ i < InLen(mode)
    BY <1>7, <1>t, InLenBounds DEF ReadWord, TypeInv, IndexInRange
  <2>2. i \in Idx /\ i \in Nat /\ \A k \in 0 .. i : k \in Idx
    BY <2>1, <1>t DEF Idx
  <2>3. in' = [in EXCEPT ![i] = bram_in[i]] /\ seen' = seen /\ bram_in' = bram_in
    BY <1>7 DEF ReadWord
  <2>4. \A k \in 0 .. i : in'[k] \in seen'[k]
    <3>1. in'[i] \in seen'[i]
      BY <2>2, <2>3, <1>t
    <3>2. ASSUME NEW k \in 0 .. i - 1 PROVE in'[k] \in seen'[k]
      <4>1. k \in Idx /\ k # i
        BY <2>2
      <4>2. QED
        BY <4>1, <2>3, <1>t, <1>7 DEF ReadWord
    <3>3. QED
      BY <3>1, <3>2, <2>2
  <2>5. /\ pc' = "read" => i' - 1 = i
        /\ pc' # "read" => pc' = "compute" /\ InLen(mode') - 1 = i
    BY <1>7, <2>1, <2>2 DEF ReadWord
  <2>6. QED
    BY <2>3, <2>4, <2>5
<1>8. CASE ComputeAccept
  BY <1>8 DEF ComputeAccept
<1>9. CASE ComputeReject
  BY <1>9 DEF ComputeReject
<1>10. CASE Refuse
  BY <1>10 DEF Refuse
<1>11. CASE LibraryError
  BY <1>11 DEF LibraryError
<1>12. CASE WriteWord
  BY <1>12 DEF WriteWord
<1>13. CASE Finish
  BY <1>13 DEF Finish
<1>14. ASSUME NEW c \in Commands, HostWriteControl(c) PROVE CopyInv'
  BY <1>14 DEF HostWriteControl
<1>15. ASSUME NEW k \in Idx, NEW d \in Data, HostWriteInput(k, d) PROVE CopyInv'
  <2>1. \A j \in Idx : seen[j] \subseteq seen'[j] /\ bram_in'[j] \in seen'[j]
    BY <1>15, <1>t DEF HostWriteInput
  <2>2. \A j \in Copied : j \in Idx
    BY <1>t, InLenBounds DEF Idx, TypeInv, IndexInRange
  <2>3. Copied' = Copied /\ in' = in
    BY <1>15 DEF HostWriteInput
  <2>4. \A j \in Copied' : in'[j] \in seen'[j]
    BY <2>1, <2>2, <2>3
  <2>5. QED
    BY <2>1, <2>4
<1>16. CASE Reset
  BY <1>16 DEF Reset
<1>17. CASE UNCHANGED vars
  BY <1>17 DEF vars
<1>18. QED
  BY <1>1, <1>2, <1>3, <1>4, <1>5, <1>6, <1>7, <1>8, <1>9, <1>10, <1>11, <1>12,
     <1>13, <1>14, <1>15, <1>16, <1>17 DEF Next, Firmware, Handler, Host

\* Each copied word was in the input buffer after the acknowledgement.
THEOREM CopyRegular == Spec => []CopyIsRegular
<1>1. CopyInv => CopyIsRegular
  BY DEF CopyInv
<1>2. QED
  BY <1>1, TypeInit, TypeStep, CopyInit, CopyStep, PTL DEF Spec

-----------------------------------------------------------------------------
(* One run per request: the RUN flags cover the modes that completed under *)
(* a control word whose lower half has not been zero since.                *)

HeldInv ==
    /\ \A m \in held : run[m]
    /\ Low(control_register) = 0 => held = {}
    /\ pc = "reset" => held = {}

\* Power-up: no mode has completed.
LEMMA HeldInit == Init => HeldInv
BY DEF Init, HeldInv

\* The RUN flags cover the modes held back: the firmware clears them only
\* when it reads a zero, and a zero empties the held modes first.
LEMMA HeldStep == TypeInv /\ HeldInv /\ [Next]_vars => HeldInv'
<1> SUFFICES ASSUME TypeInv, HeldInv, [Next]_vars PROVE HeldInv'
  OBVIOUS
<1> USE DEF HeldInv, TypeInv, TypeOK, shared, firmware, history
<1>1. CASE Boot
  BY <1>1 DEF Boot
<1>2. CASE PollZero
  BY <1>2 DEF PollZero
<1>3. CASE PollRequest
  BY <1>3 DEF PollRequest
<1>4. CASE Accept \/ ClearIrq \/ StartWork
  BY <1>4 DEF Accept, ClearIrq, StartWork
<1>5. CASE ReadWord
  BY <1>5 DEF ReadWord
<1>6. CASE ComputeAccept \/ ComputeReject \/ Refuse \/ LibraryError \/ WriteWord
  BY <1>6 DEF ComputeAccept, ComputeReject, Refuse, LibraryError, WriteWord
<1>7. CASE Finish
  BY <1>7 DEF Finish
<1>8. ASSUME NEW c \in Commands, HostWriteControl(c) PROVE HeldInv'
  BY <1>8 DEF HostWriteControl
<1>9. ASSUME NEW k \in Idx, NEW d \in Data, HostWriteInput(k, d) PROVE HeldInv'
  BY <1>9 DEF HostWriteInput
<1>10. CASE Reset
  BY <1>10 DEF Reset
<1>11. CASE UNCHANGED vars
  BY <1>11 DEF vars
<1>12. QED
  BY <1>1, <1>2, <1>3, <1>4, <1>5, <1>6, <1>7, <1>8, <1>9, <1>10, <1>11
  DEF Next, Firmware, Handler, Host

\* A mode runs at most once for one request.
THEOREM RunsOncePerRequest == Spec => OncePerRequest
<1>1. TypeInv /\ HeldInv /\ [Next]_vars =>
        [pc = "poll" /\ pc' = "accept" => mode' \notin held]_vars
  <2> SUFFICES ASSUME HeldInv, [Next]_vars, pc = "poll", pc' = "accept"
               PROVE  mode' \notin held
    OBVIOUS
  <2>1. PollRequest
    BY DEF Next, Firmware, Handler, Host, Boot, PollZero, PollRequest,
       Accept, ClearIrq, StartWork, ReadWord, ComputeAccept, ComputeReject, Refuse,
       LibraryError, WriteWord, Finish, HostWriteControl, HostWriteInput, Reset,
       vars, firmware
  <2>2. QED
    BY <2>1 DEF PollRequest, HeldInv
<1>2. QED
  BY <1>1, TypeInit, TypeStep, HeldInit, HeldStep, PTL DEF Spec, OncePerRequest

-----------------------------------------------------------------------------
(* The firmware implements the command service: with these invariants each *)
(* of its steps is a step of CommandService, or changes nothing of it.     *)

\* The conventions of FismosRegisters mean the same in both modules.
LEMMA SameConventions ==
    /\ Service!AES = AES /\ Service!KEYSTORAGE = KEYSTORAGE
    /\ Service!Modes = Modes /\ Service!Idx = Idx
    /\ \A m : Service!InLen(m) = InLen(m) /\ Service!OutLen(m) = OutLen(m)
    /\ \A w : Service!Low(w) = Low(w)
BY DEF Service!AES, Service!HMAC, Service!COMPARE, Service!RSA, Service!KEYSTORAGE,
       AES, HMAC, COMPARE, RSA, KEYSTORAGE, Service!Modes, Modes, Service!Idx, Idx,
       Service!InLen, InLen, Service!OutLen, OutLen, Service!Low, Low

\* Power-up of the firmware maps to the service switched off.
LEMMA ServiceInit == Init => Service!Init
<1> SUFFICES ASSUME Init PROVE Service!Init
  OBVIOUS
<1>1. {m \in Modes : run[m]} = {}
  BY DEF Init, NoneRun
<1>2. VisibleAnswer = Service!NoAnswer
  BY PhasesAreNotDone DEF Init, VisibleAnswer, Service!NoAnswer
<1>3. PhaseOf(pc) = "off"
  BY DEF Init, PhaseOf
<1>4. QED
  BY <1>1, <1>2, <1>3, SameConventions DEF Init, Service!Init

\* Nothing is visible while a handler runs.
LEMMA NothingVisible ==
    ASSUME TypeInv, AnswerInv, pc \in {"clear", "work"} \union Running
    PROVE  status_register \notin DoneWords /\ VisibleAnswer = Service!NoAnswer
<1>1. status_register \notin DoneWords
  BY PhasesAreNotDone DEF TypeInv, TypeOK, AnswerInv, StatusFollowsPc, Running
<1>2. QED
  BY <1>1 DEF VisibleAnswer, Service!NoAnswer

\* The copied input is one the service may have read.
LEMMA CopyIsReadable ==
    ASSUME TypeInv, CopyInv, pc \in {"compute", "write", "finish"}
    PROVE  in \in Service!Readable(mode)
<1>1. in \in [Idx -> Data]
  BY DEF TypeInv, TypeOK, Inputs
<1>2. \A k \in 0 .. InLen(mode) - 1 : in[k] \in seen[k]
  BY DEF CopyInv, CopyIsRegular, Copied
<1>3. QED
  BY <1>1, <1>2, SameConventions DEF Service!Readable

\* Each step of the firmware is a step of the service or changes nothing of it.
LEMMA ServiceStep ==
    TypeInv /\ TypeInv' /\ AnswerInv /\ AnswerInv' /\ CopyInv /\ [Next]_vars
        => [Service!Next]_(Service!vars)
<1> SUFFICES ASSUME TypeInv, TypeInv', AnswerInv, AnswerInv', CopyInv, [Next]_vars
             PROVE  [Service!Next]_(Service!vars)
  OBVIOUS
<1> USE DEF shared, firmware, history, PhaseOf, Service!vars
<1>t. mode \in Modes /\ pc \in PCs /\ run \in [Modes -> BOOLEAN]
  BY DEF TypeInv, TypeOK
<1>1. CASE Boot
  <2>1. Service!SwitchOn
    BY <1>1 DEF Boot, Service!SwitchOn, NoneRun, VisibleAnswer
  <2>2. QED
    BY <2>1 DEF Service!Next
<1>2. CASE PollZero
  <2>1. Service!Forget
    BY <1>2, SameConventions DEF PollZero, Service!Forget, NoneRun, VisibleAnswer
  <2>2. QED
    BY <2>1 DEF Service!Next
<1>3. CASE PollRequest
  <2>1. PICK m \in Modes : Low(control_register) = m /\ ~run[m] /\ mode' = m
    BY <1>3 DEF PollRequest
  <2>2. Service!Take(m)
    BY <1>3, <2>1, SameConventions DEF PollRequest, Service!Take, VisibleAnswer
  <2>3. QED
    BY <2>2, SameConventions DEF Service!Next
<1>4. CASE Accept
  <2>1. VisibleAnswer' = Service!NoAnswer
    BY <1>4, PhasesAreNotDone DEF Accept, VisibleAnswer, Service!NoAnswer
  <2>2. Service!Withdraw
    BY <1>4, <2>1, SameConventions DEF Accept, Service!Withdraw
  <2>3. QED
    BY <2>2 DEF Service!Next
<1>5. CASE ClearIrq \/ StartWork
  <2>1. VisibleAnswer = <<>> /\ VisibleAnswer' = <<>>
    BY <1>5, <1>t, PhasesAreNotDone, NothingVisible
    DEF ClearIrq, StartWork, VisibleAnswer, Running, Service!NoAnswer
  <2>2. QED
    BY <1>5, <2>1 DEF ClearIrq, StartWork
<1>6. CASE ReadWord
  <2>1. VisibleAnswer = <<>> /\ VisibleAnswer' = <<>>
    BY <1>6, NothingVisible DEF ReadWord, VisibleAnswer, Running, Service!NoAnswer
  <2>2. QED
    BY <1>6, <2>1 DEF ReadWord
<1>7. CASE ComputeAccept
  BY <1>7 DEF ComputeAccept, VisibleAnswer
<1>8. CASE ComputeReject
  <2>1. mode \in {COMPARE, KEYSTORAGE} /\ ~Accepts(mode, in)
    BY <1>8, AcceptsAssumption DEF ComputeReject, TypeInv, TypeOK
  <2>2. CASE mode = COMPARE
    <3>1. Service!Fail
      BY <1>8, <2>2, SameConventions
      DEF ComputeReject, Service!Fail, VisibleAnswer, COMPARE, AES, KEYSTORAGE
    <3>2. QED
      BY <3>1 DEF Service!Next
  <2>3. CASE mode = KEYSTORAGE
    <3>1. in \in Service!Readable(mode)
      BY <1>8, CopyIsReadable DEF ComputeReject
    <3>2. Service!Fail
      BY <1>8, <2>1, <2>3, <3>1, SameConventions
      DEF ComputeReject, Service!Fail, VisibleAnswer, COMPARE, AES, KEYSTORAGE
    <3>3. QED
      BY <3>2 DEF Service!Next
  <2>4. QED
    BY <2>1, <2>2, <2>3
<1>9. CASE Refuse
  <2>1. VisibleAnswer = <<>> /\ VisibleAnswer' = <<>>
    BY <1>9, NothingVisible DEF Refuse, VisibleAnswer, Running, Service!NoAnswer
  <2>2. QED
    BY <1>9, <2>1 DEF Refuse
<1>10. CASE LibraryError
  <2>1. Service!Fail
    BY <1>10, SameConventions
    DEF LibraryError, Service!Fail, VisibleAnswer, COMPARE, AES, KEYSTORAGE, HMAC, RSA
  <2>2. QED
    BY <2>1 DEF Service!Next
<1>11. CASE WriteWord
  <2>1. VisibleAnswer = <<>> /\ VisibleAnswer' = <<>>
    BY <1>11, NothingVisible DEF WriteWord, VisibleAnswer, Running, Service!NoAnswer
  <2>2. QED
    BY <1>11, <2>1 DEF WriteWord
<1>12. CASE Finish
  <2>1. in \in Service!Readable(mode) /\ Accepts(mode, in)
    BY <1>12, CopyIsReadable DEF Finish, AnswerInv, WrittenSoFar
  <2>2. VisibleAnswer' = Service!Answer(mode, in)
    <3>1. status_register' \in DoneWords
      BY <1>12, <1>t DEF Finish, DoneWords
    <3>2. job' = [mode |-> mode, input |-> in] /\ bram_out' = bram_out
      BY <1>12 DEF Finish, AnswerInv, JobIsCurrent
    <3>3. \A k \in 0 .. OutLen(mode) - 1 : bram_out[k] = Compute(mode, in, k)
      BY <1>12 DEF Finish, AnswerInv, WrittenSoFar
    <3>4. QED
      BY <3>1, <3>2, <3>3, SameConventions DEF VisibleAnswer, Service!Answer
  <2>3. {m \in Modes : run[m]}' = {m \in Modes : run[m]} \union {mode}
    BY <1>12, <1>t DEF Finish
  <2>4. Service!Reply
    BY <1>12, <2>1, <2>2, <2>3 DEF Finish, Service!Reply
  <2>5. QED
    BY <2>4 DEF Service!Next
<1>13. ASSUME NEW c \in Commands, HostWriteControl(c)
       PROVE  [Service!Next]_(Service!vars)
  <2>1. Service!Ask(c)
    BY <1>13 DEF HostWriteControl, Service!Ask, VisibleAnswer
  <2>2. QED
    BY <2>1 DEF Service!Next
<1>14. ASSUME NEW k \in Idx, NEW d \in Data, HostWriteInput(k, d)
       PROVE  [Service!Next]_(Service!vars)
  <2>1. Service!Offer(k, d)
    BY <1>14 DEF HostWriteInput, Service!Offer, VisibleAnswer
  <2>2. QED
    BY <2>1, SameConventions DEF Service!Next
<1>15. CASE Reset
  <2>1. Service!SwitchOff
    BY <1>15 DEF Reset, Service!SwitchOff, VisibleAnswer
  <2>2. QED
    BY <2>1 DEF Service!Next
<1>16. CASE UNCHANGED vars
  BY <1>16 DEF vars, VisibleAnswer
<1>17. QED
  BY <1>1, <1>2, <1>3, <1>4, <1>5, <1>6, <1>7, <1>8, <1>9, <1>10, <1>11, <1>12,
     <1>13, <1>14, <1>15, <1>16 DEF Next, Firmware, Handler, Host

\* The firmware and its shared memory implement the atomic command service.
THEOREM ImplementsService == Spec => ServiceSpec
<1>1. TypeInv /\ TypeInv' /\ AnswerInv /\ AnswerInv' /\ CopyInv /\ [Next]_vars
        => [Service!Next]_(Service!vars)
  BY ServiceStep
<1>2. QED
  BY <1>1, ServiceInit, TypeInit, TypeStep, AnswerInit, AnswerStep, CopyInit, CopyStep,
     PTL DEF Spec, ServiceSpec, Service!Spec
=============================================================================
