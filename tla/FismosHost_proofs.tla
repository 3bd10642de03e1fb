-------------------------- MODULE FismosHost_proofs --------------------------
(***************************************************************************)
(* Proofs about FismosHost: a program that follows the protocol and        *)
(* requests each mode once fetches its own answers, for any modes that     *)
(* report themselves apart, any inputs, and any number of resets.          *)
(***************************************************************************)
EXTENDS FismosHost, FismosCore_proofs

\* The programs the theorems are about: no mode is requested twice, the
\* status awaited is the one the firmware writes, and no two of the modes
\* have it in common (as HMAC and the comparison do).
ProtocolKept ==
    /\ ~Repeats
    /\ HostModes \subseteq Modes
    /\ \A m \in HostModes : Expected(m) = Done(m)
    /\ \A m, n \in HostModes : Done(m) = Done(n) => m = n
    /\ <<0, 0>> \in Commands /\ \A m \in HostModes : Command(m) \in Commands

-----------------------------------------------------------------------------
(* The inductive invariant                                                 *)

\* The firmware has taken a request, for mode.
Active == pc \notin {"reset", "poll"}

HostTypes ==
    /\ hpc \in {"load", "wait", "fetch", "release", "stop"}
    /\ want \in HostModes /\ want \in asked
    /\ given \in Inputs /\ got \in [Idx -> Outputs]
    /\ at \in 0 .. 2 * Half
    /\ hpc = "load" => at <= Loads(want)
    /\ hpc = "wait" => at = 0
    /\ hpc = "fetch" => at <= Fetches(want)
    /\ asked \subseteq HostModes
    /\ round \in 1 .. Rounds + 1 /\ resets \in 0 .. MaxResets
    /\ hpc = "release" => round < Rounds

\* The firmware knows no modes but the program's.
OwnCommands ==
    /\ Low(control_register) \in HostModes \union {0}
    /\ Active => mode \in HostModes
    /\ status_register \in DoneWords => job.mode \in HostModes

\* Nothing tells of a mode before its command is given.
Untouched(m) ==
    /\ Low(control_register) # m
    /\ Active => mode # m
    /\ status_register # Done(m)

FreshModes ==
    \A m \in HostModes :
        m \notin asked \/ (m = want /\ hpc = "load") => Untouched(m)

Waiting == hpc \in {"wait", "fetch"}

\* From the command to the last word fetched, command and input stand.
CommandStands ==
    Waiting => /\ Low(control_register) = want
               /\ \A k \in Idx : IF k < Loads(want) THEN given[k] = bram_in[k]
                                                    ELSE given[k] = Zero

LoadedSoFar ==
    hpc = "load" => \A k \in Idx : IF k < at THEN given[k] = bram_in[k]
                                             ELSE given[k] = Zero

\* What the firmware copies for the command is the program's input, in each
\* run of it that a reset may cause.
CopiesGiven ==
    Waiting /\ Active /\ mode = want =>
        /\ pc = "read" => \A k \in Idx : IF k < i THEN in[k] = given[k]
                                                  ELSE in[k] = Zero
        /\ pc \in {"compute", "write", "finish", "refuse"} => in = given

RefusedInput == pc = "refuse" => ~Accepts(mode, in)

\* The status awaited speaks of the program's job, and the firmware then
\* runs no other.
DoneIsMine ==
    Waiting /\ status_register = Done(want) =>
        /\ job.mode = want /\ job.input = given
        /\ Active => mode = want

\* While the answer is fetched every word of it stands, also while a run
\* after a reset writes it again.
AnswerStands ==
    hpc = "fetch" =>
        /\ Accepts(want, given)
        /\ Active => mode = want
        /\ \A k \in 0 .. Fetches(want) - 1 : bram_out[k] = Compute(want, given, k)
        /\ \A k \in 0 .. at - 1 : got[k] = Compute(want, given, k)

HostInv ==
    /\ HostTypes /\ OwnCommands /\ FreshModes /\ CommandStands /\ LoadedSoFar
    /\ CopiesGiven /\ RefusedInput /\ DoneIsMine /\ AnswerStands /\ FetchedIsMine

-----------------------------------------------------------------------------
(* Each step of the composition is a step of FismosCore                    *)

LEMMA LoadsFetches ==
    ASSUME ProtocolKept, NEW m \in HostModes
    PROVE  /\ m \in Modes /\ m # 0
           /\ Loads(m) = InLen(m) /\ Loads(m) \in 1 .. 2 * Half
           /\ Fetches(m) = OutLen(m) /\ Fetches(m) \in 1 .. 2 * Half
BY InLenBounds, HostAssumption DEF ProtocolKept, Loads, Fetches

LEMMA StepIsCoreStep ==
    ASSUME ProtocolKept, HostTypes, [HNext]_hvars
    PROVE  [Next]_vars
<1>1. CASE LoadWord
  <2>1. at \in Idx
    BY <1>1, LoadsFetches, HalfAssumption DEF LoadWord, HostTypes, Idx
  <2> QED BY <1>1, <2>1 DEF LoadWord, Next, Host
<1>2. CASE GiveCommand
  BY <1>2 DEF GiveCommand, Next, Host, ProtocolKept, HostTypes
<1>3. CASE Release
  BY <1>3 DEF Release, Next, Host, ProtocolKept
<1>4. CASE SeeStatus \/ FetchWord \/ Fetched
  BY <1>4 DEF SeeStatus, FetchWord, Fetched
<1>5. CASE UNCHANGED hvars
  BY <1>5 DEF hvars
<1> QED BY <1>1, <1>2, <1>3, <1>4, <1>5 DEF HNext, Program, BoundedReset, Next

-----------------------------------------------------------------------------
(* The firmware's steps                                                    *)

LEMMA FirmwareTypes ==
    ASSUME HostTypes, UNCHANGED <<host, resets>>
    PROVE  HostTypes'
BY DEF HostTypes, host, Loads, Fetches

\* What the firmware leaves alone.
LEMMA FirmwareLeaves ==
    ASSUME Firmware \/ Reset
    PROVE  UNCHANGED <<control_register, bram_in>>
BY DEF Firmware, Handler, Boot, PollZero, PollRequest, Accept, ClearIrq, StartWork, ReadWord,
   ComputeAccept, ComputeReject, Refuse, LibraryError, WriteWord, Finish, Reset, shared

LEMMA HostPartsStand ==
    ASSUME CommandStands, LoadedSoFar, FetchedIsMine,
           UNCHANGED <<host, control_register, bram_in>>
    PROVE  CommandStands' /\ LoadedSoFar' /\ FetchedIsMine'
BY DEF CommandStands, LoadedSoFar, FetchedIsMine, Waiting, host, Loads, Fetches

\* A mode is taken up only from the control register, and reported done
\* only when it was taken up.
LEMMA FirmwareOwn ==
    ASSUME ProtocolKept, TypeInv, AnswerInv, OwnCommands, FreshModes,
           Firmware \/ Reset, UNCHANGED host
    PROVE  OwnCommands' /\ FreshModes'
<1> USE DEF OwnCommands, FreshModes, Untouched, Active, shared, history
<1>h. /\ UNCHANGED <<control_register, hpc, want, asked>>
      /\ HostModes \subseteq Modes
      /\ \A m, n \in HostModes : Done(m) = Done(n) => m = n
  BY FirmwareLeaves DEF host, ProtocolKept
<1>d. \A m \in HostModes : Done(m) \in DoneWords
  BY <1>h DEF DoneWords
<1>1. CASE Boot
  BY <1>h, <1>1 DEF Boot
<1>2. CASE PollZero
  BY <1>h, <1>2 DEF PollZero
<1>3. CASE PollRequest
  <2>1. mode' = Low(control_register) /\ mode' # 0
    BY <1>3 DEF PollRequest, Modes, AES, HMAC, COMPARE, RSA, KEYSTORAGE
  <2> QED BY <1>h, <1>3, <2>1 DEF PollRequest
<1>4. CASE Accept
  BY <1>h, <1>d, <1>4, PhasesAreNotDone DEF Accept
<1>5. CASE ClearIrq
  BY <1>h, <1>d, <1>5, PhasesAreNotDone DEF ClearIrq
<1>6. CASE StartWork
  <2>1. Working(mode) \notin DoneWords
    BY PhasesAreNotDone DEF TypeInv, TypeOK
  <2> QED BY <1>h, <1>d, <1>6, <2>1 DEF StartWork
<1>7. CASE ReadWord
  <2>1. status_register \notin DoneWords
    BY <1>7, PhasesAreNotDone DEF ReadWord, AnswerInv, StatusFollowsPc, Running, TypeInv, TypeOK
  <2> QED BY <1>h, <1>7, <2>1 DEF ReadWord
<1>8. CASE ComputeAccept \/ ComputeReject \/ LibraryError
  BY <1>h, <1>8 DEF ComputeAccept, ComputeReject, LibraryError
<1>9. CASE Refuse \/ WriteWord
  BY <1>h, <1>9 DEF Refuse, WriteWord
<1>10. CASE Finish
  <2>1. job.mode = mode
    BY <1>10 DEF Finish, AnswerInv, JobIsCurrent
  <2>2. pc' = "poll" /\ status_register' = Done(mode) /\ job' = job /\ mode \in HostModes
    BY <1>10 DEF Finish
  <2> QED BY <1>h, <2>1, <2>2, <1>10 DEF Finish
<1>11. CASE Reset
  BY <1>h, <1>11 DEF Reset
<1> QED BY <1>1, <1>2, <1>3, <1>4, <1>5, <1>6, <1>7, <1>8, <1>9, <1>10, <1>11
        DEF Firmware, Handler

\* While the program waits, the firmware copies what it was given.
LEMMA FirmwareCopies ==
    ASSUME ProtocolKept, TypeInv, HostTypes, CommandStands, CopiesGiven, RefusedInput,
           Firmware \/ Reset, UNCHANGED host
    PROVE  CopiesGiven' /\ RefusedInput'
<1> USE DEF CopiesGiven, RefusedInput, Waiting, Active, shared, history
<1>h. UNCHANGED <<bram_in, hpc, want, given>>
  BY FirmwareLeaves DEF host
<1>1. CASE Boot \/ PollZero \/ PollRequest
  BY <1>h, <1>1 DEF Boot, PollZero, PollRequest
<1>2. CASE Accept \/ ClearIrq
  BY <1>h, <1>2 DEF Accept, ClearIrq
<1>3. CASE StartWork
  BY <1>h, <1>3 DEF StartWork, Idx
<1>4. CASE ReadWord
  <2>1. /\ in \in [Idx -> Data] /\ given \in [Idx -> Data] /\ i \in Nat /\ i < InLen(mode)
        /\ mode \in Modes
    BY <1>4 DEF ReadWord, TypeInv, TypeOK, IndexInRange, HostTypes, Inputs
  <2>2. i \in Idx /\ InLen(mode) \in Nat
    BY <2>1, InLenBounds, HalfAssumption DEF Idx
  <2>3. /\ in' = [in EXCEPT ![i] = bram_in[i]] /\ i' = i + 1 /\ mode' = mode
        /\ pc' = (IF i + 1 = InLen(mode) THEN "compute" ELSE "read")
    BY <1>4 DEF ReadWord
  <2>4. ASSUME Waiting, mode = want
        PROVE  \A k \in Idx : IF k < i + 1 THEN in'[k] = given[k] ELSE in'[k] = Zero
    <3>1. \A k \in Idx : IF k < i THEN in[k] = given[k] ELSE in[k] = Zero
      BY <1>4, <2>4 DEF ReadWord
    <3>2. given[i] = bram_in[i]
      BY <2>1, <2>2, <2>4, LoadsFetches DEF CommandStands, HostTypes
    <3>3. in'[i] = given[i] /\ \A k \in Idx : k # i => in'[k] = in[k]
      BY <2>1, <2>2, <2>3, <3>2
    <3>4. \A k \in Idx : k \in Nat
      BY HalfAssumption DEF Idx
    <3> QED BY <2>1, <3>1, <3>3, <3>4
  <2>5. ASSUME Waiting, mode = want, i + 1 = InLen(mode)
        PROVE  in' = given
    <3>1. \A k \in Idx : in'[k] = given[k]
      BY <2>4, <2>5, LoadsFetches DEF CommandStands, HostTypes
    <3>2. in' \in [Idx -> Data]
      BY <2>1, <2>3 DEF TypeInv, TypeOK, Inputs
    <3> QED BY <2>1, <3>1, <3>2
  <2> QED BY <1>h, <2>3, <2>4, <2>5
<1>5. CASE ComputeAccept \/ ComputeReject \/ LibraryError
  BY <1>h, <1>5 DEF ComputeAccept, ComputeReject, LibraryError
<1>6. CASE Refuse
  BY <1>h, <1>6 DEF Refuse
<1>7. CASE WriteWord
  BY <1>h, <1>7 DEF WriteWord
<1>8. CASE Finish
  BY <1>h, <1>8 DEF Finish
<1>9. CASE Reset
  BY <1>h, <1>9 DEF Reset
<1> QED BY <1>1, <1>2, <1>3, <1>4, <1>5, <1>6, <1>7, <1>8, <1>9 DEF Firmware, Handler

\* The status awaited appears with the answer, and neither is touched but by
\* another run of the same command.
LEMMA FirmwareAnswers ==
    ASSUME ProtocolKept, TypeInv, AnswerInv, HostTypes, CommandStands, OwnCommands,
           CopiesGiven, RefusedInput, DoneIsMine, AnswerStands,
           Firmware \/ Reset, UNCHANGED host
    PROVE  DoneIsMine' /\ AnswerStands'
<1> USE DEF DoneIsMine, AnswerStands, Waiting, Active, shared, history
<1>h. /\ UNCHANGED <<control_register, hpc, want, given, got, at>>
      /\ Fetches(want)' = Fetches(want)
      /\ want \in HostModes
      /\ \A m, n \in HostModes : Done(m) = Done(n) => m = n
  BY FirmwareLeaves DEF host, ProtocolKept, HostTypes, Fetches
<1>d. Done(want) \in DoneWords
  BY <1>h DEF DoneWords, ProtocolKept
<1>r. pc \in Running => status_register # Done(want)
  BY <1>d, PhasesAreNotDone DEF AnswerInv, StatusFollowsPc, TypeInv, TypeOK
<1>1. CASE Boot \/ PollZero
  BY <1>h, <1>1 DEF Boot, PollZero
<1>2. CASE PollRequest
  <2>1. hpc \in {"wait", "fetch"} => mode' = want
    BY <1>2 DEF PollRequest, CommandStands
  <2> QED BY <1>h, <1>2, <2>1 DEF PollRequest
<1>3. CASE Accept
  BY <1>h, <1>d, <1>3, PhasesAreNotDone DEF Accept
<1>4. CASE ClearIrq
  BY <1>h, <1>d, <1>4, PhasesAreNotDone DEF ClearIrq
<1>5. CASE StartWork
  <2>1. Working(mode) \notin DoneWords
    BY PhasesAreNotDone DEF TypeInv, TypeOK
  <2> QED BY <1>h, <1>d, <1>5, <2>1 DEF StartWork
<1>6. CASE ReadWord
  <2>1. /\ status_register' # Done(want)
        /\ pc = "read" /\ mode' = mode /\ bram_out' = bram_out
    BY <1>h, <1>r, <1>6 DEF ReadWord, Running
  <2> QED BY <1>h, <2>1
<1>7. CASE ComputeAccept \/ ComputeReject \/ LibraryError
  <2>1. /\ status_register' # Done(want)
        /\ pc = "compute" /\ mode' = mode /\ bram_out' = bram_out
    BY <1>h, <1>r, <1>7 DEF ComputeAccept, ComputeReject, LibraryError, Running
  <2> QED BY <1>h, <2>1
<1>8. CASE Refuse
  <2>1. hpc # "fetch"
    BY <1>8 DEF Refuse, CopiesGiven, RefusedInput
  <2>2. status_register' # Done(want)
    BY <1>h, <1>r, <1>8 DEF Refuse, Running
  <2> QED BY <1>h, <2>1, <2>2
<1>9. CASE WriteWord
  <2>1. pc = "write" /\ mode' = mode /\ status_register' # Done(want)
    BY <1>h, <1>r, <1>9 DEF WriteWord, Running
  <2>2. ASSUME hpc = "fetch"
        PROVE  \A k \in 0 .. Fetches(want) - 1 : bram_out'[k] = Compute(want, given, k)
    <3>1. mode = want /\ in = given
      BY <2>1, <2>2 DEF CopiesGiven
    <3>2. bram_out' = [bram_out EXCEPT ![i] = Compute(want, given, i)]
      BY <1>9, <3>1 DEF WriteWord
    <3>3. bram_out \in [Idx -> Outputs] /\ Fetches(want) \in 1 .. 2 * Half
      BY <1>h, LoadsFetches DEF TypeInv, TypeOK
    <3>4. \A k \in 0 .. Fetches(want) - 1 : k \in Idx
      BY <3>3, HalfAssumption DEF Idx
    <3> QED BY <2>2, <3>2, <3>3, <3>4
  <2> QED BY <1>h, <2>1, <2>2
<1>10. CASE Finish
  <2>1. pc' = "poll" /\ status_register' = Done(mode) /\ bram_out' = bram_out /\ job' = job
    BY <1>10 DEF Finish
  <2>2. job.mode = mode /\ job.input = in
    BY <1>10 DEF Finish, AnswerInv, JobIsCurrent
  <2>3. Waiting /\ Done(mode) = Done(want) => mode = want /\ in = given
    BY <1>h, <1>10 DEF Finish, OwnCommands, CopiesGiven
  <2> QED BY <1>h, <2>1, <2>2, <2>3
<1>11. CASE Reset
  BY <1>h, <1>11 DEF Reset
<1> QED BY <1>1, <1>2, <1>3, <1>4, <1>5, <1>6, <1>7, <1>8, <1>9, <1>10, <1>11
        DEF Firmware, Handler

LEMMA FirmwareStep ==
    ASSUME ProtocolKept, TypeInv, AnswerInv, HostInv,
           Firmware \/ Reset, UNCHANGED host, resets' \in 0 .. MaxResets
    PROVE  HostInv'
<1>1. HostTypes'
  BY DEF HostInv, HostTypes, host, Loads, Fetches
<1>2. UNCHANGED <<control_register, bram_in>>
  BY FirmwareLeaves
<1> QED BY <1>1, <1>2, HostPartsStand, FirmwareOwn, FirmwareCopies, FirmwareAnswers DEF HostInv

-----------------------------------------------------------------------------
(* The program's steps                                                     *)

LEMMA LoadWordStep ==
    ASSUME ProtocolKept, TypeInv, HostInv, LoadWord
    PROVE  HostInv'
<1> USE DEF HostInv, firmware
<1>1. PICK d \in Data : HostWriteInput(at, d) /\ given' = [given EXCEPT ![at] = d]
  BY DEF LoadWord
<1>2. /\ hpc = "load" /\ at < Loads(want) /\ at' = at + 1
      /\ UNCHANGED <<hpc, want, got, asked, round, resets>>
      /\ UNCHANGED <<control_register, status_register, bram_out, job, pc, mode, i, in, run>>
      /\ bram_in' = [bram_in EXCEPT ![at] = d]
  BY <1>1 DEF LoadWord, HostWriteInput
<1>3. /\ want \in HostModes /\ at \in Nat /\ Loads(want) \in 1 .. 2 * Half
      /\ given \in [Idx -> Data] /\ bram_in \in [Idx -> Data]
  BY LoadsFetches DEF HostTypes, TypeInv, TypeOK, Inputs
<1>4. at \in Idx /\ at + 1 \in 0 .. 2 * Half /\ at + 1 <= Loads(want)
  BY <1>2, <1>3, HalfAssumption DEF Idx
<1>5. HostTypes'
  <2>1. given' \in Inputs
    BY <1>1, <1>3 DEF Inputs
  <2>2. Loads(want)' = Loads(want)
    BY <1>2 DEF Loads
  <2> QED BY <1>2, <1>4, <2>1, <2>2 DEF HostTypes
<1>6. LoadedSoFar'
  <2>1. \A k \in Idx : k \in Nat
    BY HalfAssumption DEF Idx
  <2>2. \A k \in Idx : k # at => given'[k] = given[k] /\ bram_in'[k] = bram_in[k]
    BY <1>1, <1>2, <1>3
  <2>3. given'[at] = bram_in'[at]
    BY <1>1, <1>2, <1>3, <1>4
  <2>4. \A k \in Idx : IF k < at + 1 THEN given'[k] = bram_in'[k] ELSE given'[k] = Zero
    BY <1>2, <1>3, <2>1, <2>2, <2>3 DEF LoadedSoFar
  <2> QED BY <1>2, <2>4 DEF LoadedSoFar
<1>7. OwnCommands' /\ FreshModes' /\ RefusedInput'
  BY <1>2 DEF OwnCommands, FreshModes, Untouched, RefusedInput, Active
<1>8. CommandStands' /\ CopiesGiven' /\ DoneIsMine' /\ AnswerStands' /\ FetchedIsMine'
  BY <1>2 DEF CommandStands, CopiesGiven, DoneIsMine, AnswerStands, FetchedIsMine, Waiting
<1> QED BY <1>5, <1>6, <1>7, <1>8

LEMMA GiveCommandStep ==
    ASSUME ProtocolKept, TypeInv, HostInv, GiveCommand
    PROVE  HostInv'
<1> USE DEF HostInv, firmware
<1>1. /\ hpc = "load" /\ hpc' = "wait" /\ at = Loads(want) /\ at' = 0
      /\ UNCHANGED <<want, given, got, asked, round, resets>>
      /\ UNCHANGED <<status_register, bram_in, bram_out, job, pc, mode, i, in, run>>
      /\ Low(control_register)' = want
  BY DEF GiveCommand, HostWriteControl, Command, Low
<1>2. want \in HostModes /\ want \in asked /\ Untouched(want)
  BY <1>1 DEF HostTypes, FreshModes
<1>3. HostTypes'
  BY <1>1, HalfAssumption DEF HostTypes
<1>4. OwnCommands' /\ FreshModes' /\ RefusedInput'
  BY <1>1, <1>2 DEF OwnCommands, FreshModes, Untouched, RefusedInput, Active
<1>5. CommandStands'
  BY <1>1 DEF CommandStands, LoadedSoFar, Waiting, Loads
<1>6. CopiesGiven' /\ DoneIsMine'
  BY <1>1, <1>2 DEF Untouched, CopiesGiven, DoneIsMine, Active
<1>7. LoadedSoFar' /\ AnswerStands' /\ FetchedIsMine'
  BY <1>1 DEF LoadedSoFar, AnswerStands, FetchedIsMine
<1> QED BY <1>3, <1>4, <1>5, <1>6, <1>7

LEMMA SeeStatusStep ==
    ASSUME ProtocolKept, TypeInv, AnswerInv, HostInv, SeeStatus
    PROVE  HostInv'
<1> USE DEF HostInv
<1>1. /\ hpc = "wait" /\ hpc' = "fetch" /\ want \in HostModes /\ at = 0
      /\ status_register = Done(want)
      /\ UNCHANGED <<vars, want, given, got, at, asked, round, resets>>
      /\ UNCHANGED <<control_register, status_register, bram_in, bram_out, job,
                     pc, mode, i, in, run>>
  BY DEF SeeStatus, HostTypes, ProtocolKept, vars, shared, firmware, history
<1>2. HostTypes'
  BY <1>1, LoadsFetches DEF HostTypes, Fetches
<1>3. job.mode = want /\ job.input = given /\ (Active => mode = want)
  BY <1>1 DEF DoneIsMine, Waiting
<1>4. /\ Accepts(want, given)
      /\ \A k \in 0 .. OutLen(want) - 1 : bram_out[k] = Compute(want, given, k)
  <2>1. Done(want) \in DoneWords
    BY <1>1 DEF DoneWords, ProtocolKept
  <2> QED BY <1>1, <1>3, <2>1 DEF AnswerInv, DoneMeansAnswered
<1>5. AnswerStands'
  <2>1. Fetches(want)' = OutLen(want)
    BY <1>1, LoadsFetches DEF Fetches
  <2> QED BY <1>1, <1>3, <1>4, <2>1 DEF AnswerStands, Active
<1>6. OwnCommands' /\ FreshModes' /\ RefusedInput'
  BY <1>1 DEF OwnCommands, FreshModes, Untouched, RefusedInput, Active
<1>7. CommandStands' /\ CopiesGiven' /\ DoneIsMine'
  BY <1>1 DEF CommandStands, CopiesGiven, DoneIsMine, Waiting, Active, Loads
<1>8. LoadedSoFar' /\ FetchedIsMine'
  BY <1>1 DEF LoadedSoFar, FetchedIsMine
<1> QED BY <1>2, <1>5, <1>6, <1>7, <1>8

LEMMA FetchWordStep ==
    ASSUME ProtocolKept, TypeInv, HostInv, FetchWord
    PROVE  HostInv'
<1> USE DEF HostInv
<1>1. /\ hpc = "fetch" /\ want \in HostModes /\ at \in Nat /\ at < Fetches(want)
      /\ got' = [got EXCEPT ![at] = bram_out[at]] /\ at' = at + 1
      /\ UNCHANGED <<hpc, want, given, asked, round, resets>>
      /\ UNCHANGED <<control_register, status_register, bram_in, bram_out, job,
                     pc, mode, i, in, run>>
  BY DEF FetchWord, HostTypes, vars, shared, firmware, history
<1>2. Fetches(want) \in 1 .. 2 * Half /\ Fetches(want)' = Fetches(want)
  BY <1>1, LoadsFetches DEF Fetches
<1>3. at \in Idx /\ at + 1 \in 0 .. 2 * Half /\ at + 1 <= Fetches(want)
  BY <1>1, <1>2, HalfAssumption DEF Idx
<1>4. got' \in [Idx -> Outputs]
  BY <1>1, <1>3 DEF HostTypes, TypeInv, TypeOK
<1>5. HostTypes'
  BY <1>1, <1>2, <1>3, <1>4 DEF HostTypes
<1>6. \A k \in 0 .. at : got'[k] = Compute(want, given, k)
  <2>1. got \in [Idx -> Outputs]
    BY DEF HostTypes
  <2>2. got'[at] = Compute(want, given, at)
    BY <1>1, <1>2, <1>3, <2>1 DEF AnswerStands
  <2>3. \A k \in 0 .. at - 1 : k \in Idx /\ k # at
    BY <1>1, <1>3, HalfAssumption DEF Idx
  <2>4. \A k \in 0 .. at - 1 : got'[k] = Compute(want, given, k)
    BY <1>1, <1>3, <2>1, <2>3 DEF AnswerStands
  <2>5. \A k \in 0 .. at : k = at \/ k \in 0 .. at - 1
    BY <1>1
  <2> QED BY <2>2, <2>4, <2>5
<1>7. AnswerStands'
  <2>1. at' - 1 = at
    BY <1>1
  <2> QED BY <1>1, <1>2, <1>6, <2>1 DEF AnswerStands, Active
<1>8. OwnCommands' /\ FreshModes' /\ RefusedInput'
  BY <1>1 DEF OwnCommands, FreshModes, Untouched, RefusedInput, Active
<1>9. CommandStands' /\ CopiesGiven' /\ DoneIsMine'
  BY <1>1 DEF CommandStands, CopiesGiven, DoneIsMine, Waiting, Active, Loads
<1>10. LoadedSoFar' /\ FetchedIsMine'
  BY <1>1 DEF LoadedSoFar, FetchedIsMine
<1> QED BY <1>5, <1>7, <1>8, <1>9, <1>10

LEMMA FetchedStep ==
    ASSUME ProtocolKept, TypeInv, HostInv, Fetched
    PROVE  HostInv'
<1> USE DEF HostInv
<1>1. /\ hpc = "fetch" /\ at = Fetches(want)
      /\ \/ hpc' = "release" /\ round < Rounds
         \/ hpc' = "stop"
      /\ UNCHANGED <<want, given, got, at, asked, round, resets>>
      /\ UNCHANGED <<control_register, status_register, bram_in, bram_out, job,
                     pc, mode, i, in, run>>
  BY DEF Fetched, vars, shared, firmware, history
<1>2. HostTypes'
  BY <1>1 DEF HostTypes
<1>3. FetchedIsMine'
  BY <1>1 DEF AnswerStands, FetchedIsMine, Fetches
<1>4. OwnCommands' /\ FreshModes' /\ RefusedInput'
  BY <1>1 DEF OwnCommands, FreshModes, Untouched, RefusedInput, Active
<1>5. CommandStands' /\ CopiesGiven' /\ DoneIsMine' /\ LoadedSoFar' /\ AnswerStands'
  BY <1>1 DEF CommandStands, CopiesGiven, DoneIsMine, LoadedSoFar, AnswerStands, Waiting
<1> QED BY <1>2, <1>3, <1>4, <1>5

LEMMA ReleaseStep ==
    ASSUME ProtocolKept, TypeInv, HostInv, Release
    PROVE  HostInv'
<1> USE DEF HostInv, firmware
<1>1. /\ hpc = "release" /\ at' = 0 /\ round' = round + 1 /\ resets' = resets
      /\ Low(control_register)' = 0
      /\ UNCHANGED <<status_register, bram_in, bram_out, job, pc, mode, i, in, run>>
      /\ round \in 1 .. Rounds + 1 /\ round < Rounds /\ Rounds \in Nat
  BY HostAssumption DEF Release, HostWriteControl, Low, HostTypes
<1>2. round' \in 1 .. Rounds + 1
  BY <1>1
<1>3. RefusedInput' /\ OwnCommands'
  BY <1>1 DEF RefusedInput, OwnCommands, Active
<1>4. CASE hpc' = "load"
  <2>1. PICK m \in HostModes :
            /\ m \notin asked /\ want' = m /\ asked' = asked \union {m}
            /\ given' = [k \in Idx |-> Zero] /\ got' = [k \in Idx |-> Zero]
    BY <1>4 DEF Release, ProtocolKept
  <2>2. given' \in Inputs /\ got' \in [Idx -> Outputs]
    BY <2>1, DataAssumption DEF Inputs, Outputs
  <2>3. Loads(m) \in 1 .. 2 * Half /\ m # 0 /\ 0 \in 0 .. 2 * Half
    BY LoadsFetches, HalfAssumption
  <2>4. Loads(want)' = Loads(m)
    BY <2>1 DEF Loads
  <2>5. HostTypes'
    BY <1>1, <1>2, <1>4, <2>1, <2>2, <2>3, <2>4 DEF HostTypes
  <2>6. \A n \in HostModes : n # 0
    BY LoadsFetches
  <2>7. FreshModes'
    BY <1>1, <2>1, <2>6 DEF FreshModes, Untouched, Active
  <2>8. \A k \in Idx : ~(k < 0)
    BY HalfAssumption DEF Idx
  <2>9. LoadedSoFar'
    BY <1>1, <2>1, <2>8 DEF LoadedSoFar
  <2>10. CommandStands' /\ CopiesGiven' /\ DoneIsMine' /\ AnswerStands' /\ FetchedIsMine'
    BY <1>4 DEF CommandStands, CopiesGiven, DoneIsMine, AnswerStands, FetchedIsMine, Waiting
  <2> QED BY <1>3, <2>5, <2>7, <2>9, <2>10
<1>5. CASE hpc' = "stop"
  <2>1. UNCHANGED <<want, asked, given, got>>
    BY <1>5 DEF Release
  <2>2. HostTypes'
    BY <1>1, <1>2, <1>5, <2>1, HalfAssumption DEF HostTypes
  <2>3. \A n \in HostModes : n # 0
    BY LoadsFetches
  <2>4. FreshModes'
    BY <1>1, <1>5, <2>1, <2>3 DEF FreshModes, Untouched, Active
  <2>5. FetchedIsMine'
    BY <1>1, <2>1 DEF FetchedIsMine, Fetches
  <2>6. CommandStands' /\ CopiesGiven' /\ DoneIsMine' /\ LoadedSoFar' /\ AnswerStands'
    BY <1>5 DEF CommandStands, CopiesGiven, DoneIsMine, LoadedSoFar, AnswerStands, Waiting
  <2> QED BY <1>3, <2>2, <2>4, <2>5, <2>6
<1> QED BY <1>4, <1>5 DEF Release

-----------------------------------------------------------------------------
(* The theorems                                                            *)

LEMMA HostInitially ==
    ASSUME ProtocolKept, HInit
    PROVE  HostInv
<1> USE DEF HInit, Init
<1>1. HostTypes
  <2>1. given \in Inputs /\ got \in [Idx -> Outputs]
    BY DataAssumption DEF Inputs, Outputs
  <2>2. 0 \in 0 .. 2 * Half /\ 0 <= Loads(want)
    BY LoadsFetches, HalfAssumption
  <2>3. 1 \in 1 .. Rounds + 1 /\ 0 \in 0 .. MaxResets
    BY HostAssumption
  <2> QED BY <2>1, <2>2, <2>3 DEF HostTypes
<1>2. \A m \in HostModes : m # 0 /\ Done(m) \in DoneWords
  BY LoadsFetches DEF DoneWords
<1>3. OwnCommands /\ FreshModes
  BY <1>2, PhasesAreNotDone DEF OwnCommands, FreshModes, Untouched, Active, Low
<1>4. LoadedSoFar
  BY HalfAssumption DEF LoadedSoFar, Idx
<1>5. CommandStands /\ CopiesGiven /\ RefusedInput /\ DoneIsMine /\ AnswerStands /\ FetchedIsMine
  BY DEF CommandStands, CopiesGiven, RefusedInput, DoneIsMine, AnswerStands, FetchedIsMine, Waiting
<1> QED BY <1>1, <1>3, <1>4, <1>5 DEF HostInv

LEMMA HostStutter ==
    ASSUME HostInv, UNCHANGED hvars
    PROVE  HostInv'
<1>1. /\ UNCHANGED <<hpc, want, given, got, at, asked, round, resets>>
      /\ UNCHANGED <<control_register, status_register, bram_in, bram_out, job,
                     pc, mode, i, in, run>>
  BY DEF hvars, host, vars, shared, firmware, history
<1>2. Loads(want)' = Loads(want) /\ Fetches(want)' = Fetches(want)
  BY <1>1 DEF Loads, Fetches
<1>3. HostTypes' /\ OwnCommands' /\ FreshModes'
  BY <1>1, <1>2 DEF HostInv, HostTypes, OwnCommands, FreshModes, Untouched, Active
<1>4. CommandStands' /\ LoadedSoFar' /\ FetchedIsMine'
  BY <1>1, <1>2 DEF HostInv, CommandStands, LoadedSoFar, FetchedIsMine, Waiting
<1>5. CopiesGiven' /\ RefusedInput' /\ DoneIsMine'
  BY <1>1 DEF HostInv, CopiesGiven, RefusedInput, DoneIsMine, Waiting, Active
<1>6. AnswerStands'
  BY <1>1, <1>2 DEF HostInv, AnswerStands, Active
<1> QED BY <1>3, <1>4, <1>5, <1>6 DEF HostInv

LEMMA HostStep ==
    ASSUME ProtocolKept, TypeInv, AnswerInv, HostInv, [HNext]_hvars
    PROVE  HostInv'
<1>1. CASE Firmware /\ UNCHANGED <<host, resets>>
  BY <1>1, FirmwareStep DEF HostInv, HostTypes
<1>2. CASE BoundedReset
  <2>1. resets' \in 0 .. MaxResets
    BY <1>2, HostAssumption DEF BoundedReset, HostInv, HostTypes
  <2> QED BY <1>2, <2>1, FirmwareStep DEF BoundedReset
<1>3. CASE Program
  BY <1>3, LoadWordStep, GiveCommandStep, SeeStatusStep, FetchWordStep, FetchedStep,
     ReleaseStep DEF Program
<1>4. CASE UNCHANGED hvars
  BY <1>4, HostStutter
<1> QED BY <1>1, <1>2, <1>3, <1>4 DEF HNext

LEMMA HostAlways ==
    ASSUME ProtocolKept
    PROVE  HSpec => [](TypeInv /\ AnswerInv /\ HostInv)
<1>1. HInit => TypeInv /\ AnswerInv /\ HostInv
  BY TypeInit, AnswerInit, HostInitially DEF HInit
<1>2. TypeInv /\ AnswerInv /\ HostInv /\ [HNext]_hvars
      => (TypeInv /\ AnswerInv /\ HostInv)'
  <2>1. HostInv /\ [HNext]_hvars => [Next]_vars
    BY StepIsCoreStep DEF HostInv
  <2> QED BY <2>1, TypeStep, AnswerStep, HostStep
<1> QED BY <1>1, <1>2, PTL DEF HSpec

\* Every variable of the program and of the firmware it drives keeps to its
\* type, for any number of commands and resets.
THEOREM HostTypeCorrect ==
    ASSUME ProtocolKept
    PROVE  HSpec => []HostTypeOK
<1>1. TypeInv /\ HostInv => HostTypeOK
  BY DEF TypeInv, HostInv, HostTypes, HostTypeOK
<1> QED BY <1>1, HostAlways, PTL

\* A program that polls for the status of the mode it requested, requests no
\* mode twice and no two that report themselves alike, has fetched the
\* answer to its own input, wherever the softcore was reset and began again.
THEOREM FetchesItsOwn ==
    ASSUME ProtocolKept
    PROVE  HSpec => []FetchedIsMine
<1>1. HostInv => FetchedIsMine
  BY DEF HostInv
<1> QED BY <1>1, HostAlways, PTL
=============================================================================
