----------------------------- MODULE FismosHost -----------------------------
(***************************************************************************)
(* The firmware driven by a program on the Linux side that follows the     *)
(* command protocol: load the input buffer, write the command, wait for    *)
(* the status of a finished mode, fetch the output buffer, write zero to   *)
(* the control register, and begin again, as test_baremetal.c does.        *)
(***************************************************************************)
EXTENDS FismosCore

CONSTANTS
    HostModes,      \* the modes the program requests
    Repeats,        \* whether it requests a mode more than once
    Expected(_),    \* the status word it waits for
    Rounds,         \* bound on the commands it gives
    MaxResets       \* bound on the resets of the softcore

ASSUME HostAssumption ==
    /\ HostModes \subseteq HalfWord \ {0}
    /\ Repeats \in BOOLEAN
    /\ Rounds \in Nat /\ MaxResets \in Nat

VARIABLES
    hpc,        \* "load", "command", "wait", "fetch", "release" or "stop"
    want,       \* the mode requested
    given,      \* the input it loads
    got,        \* the words it fetched
    at,         \* index into the buffers
    asked,      \* the modes requested so far
    round, resets

host  == <<hpc, want, given, got, at, asked, round>>
hvars == <<vars, host, resets>>

\* The words a program moves for a mode; one the firmware lacks moves none.
Loads(m)   == IF m \in Modes THEN InLen(m) ELSE 0
Fetches(m) == IF m \in Modes THEN OutLen(m) ELSE 0

Command(m) == <<65280, m>>      \* 0xFF00 in the upper half

HInit ==
    /\ Init
    /\ hpc = "load"
    /\ want \in HostModes
    /\ given = [k \in Idx |-> Zero]
    /\ got = [k \in Idx |-> Zero]
    /\ at = 0
    /\ asked = {want}
    /\ round = 1
    /\ resets = 0

LoadWord ==
    /\ hpc = "load"
    /\ at < Loads(want)
    /\ \E d \in Data :
        /\ HostWriteInput(at, d)
        /\ given' = [given EXCEPT ![at] = d]
    /\ at' = at + 1
    /\ UNCHANGED <<hpc, want, got, asked, round, resets>>

GiveCommand ==
    /\ hpc = "load"
    /\ at = Loads(want)
    /\ HostWriteControl(Command(want))
    /\ hpc' = "wait"
    /\ at' = 0
    /\ UNCHANGED <<want, given, got, asked, round, resets>>

\* do { ... } while (status != expected): only the last reading matters.
SeeStatus ==
    /\ hpc = "wait"
    /\ status_register = Expected(want)
    /\ hpc' = "fetch"
    /\ UNCHANGED <<vars, want, given, got, at, asked, round, resets>>

FetchWord ==
    /\ hpc = "fetch"
    /\ at < Fetches(want)
    /\ got' = [got EXCEPT ![at] = bram_out[at]]
    /\ at' = at + 1
    /\ UNCHANGED <<vars, hpc, want, given, asked, round, resets>>

Fetched ==
    /\ hpc = "fetch"
    /\ at = Fetches(want)
    /\ hpc' = IF round < Rounds THEN "release" ELSE "stop"
    /\ UNCHANGED <<vars, want, given, got, at, asked, round, resets>>

\* Write zero and turn to the next command, if there is one left.
Release ==
    /\ hpc = "release"
    /\ HostWriteControl(<<0, 0>>)
    /\ \/ \E m \in HostModes :
            /\ Repeats \/ m \notin asked
            /\ hpc' = "load" /\ want' = m /\ asked' = asked \union {m}
            /\ given' = [k \in Idx |-> Zero]
            /\ got' = [k \in Idx |-> Zero]
       \/ /\ ~Repeats /\ HostModes \subseteq asked
          /\ hpc' = "stop" /\ UNCHANGED <<want, asked, given, got>>
    /\ round' = round + 1
    /\ at' = 0
    /\ UNCHANGED resets

Program == LoadWord \/ GiveCommand \/ SeeStatus \/ FetchWord \/ Fetched \/ Release

BoundedReset ==
    /\ resets < MaxResets
    /\ Reset
    /\ resets' = resets + 1
    /\ UNCHANGED host

HNext ==
    \/ Firmware /\ UNCHANGED <<host, resets>>
    \/ Program
    \/ BoundedReset

(***************************************************************************)
(* The processor executes and the host's program is scheduled: both keep   *)
(* taking the steps they can.  Resets are under no obligation to occur.    *)
(***************************************************************************)
HSpec == HInit /\ [][HNext]_hvars
Fairness == WF_hvars(Firmware /\ UNCHANGED <<host, resets>>) /\ WF_hvars(Program)
FairHSpec == HSpec /\ Fairness

-----------------------------------------------------------------------------
(* Properties                                                              *)

HostTypeOK ==
    /\ TypeOK
    /\ hpc \in {"load", "wait", "fetch", "release", "stop"}
    /\ want \in HostModes
    /\ given \in Inputs /\ got \in [Idx -> Outputs]
    /\ at \in 0 .. 2 * Half
    /\ asked \subseteq HostModes
    /\ round \in 1 .. Rounds + 1 /\ resets \in 0 .. MaxResets

\* What the program has fetched when it is done with a command is the
\* answer to the input it loaded for that command: not the answer to an
\* earlier command, not half of one, not the power-up content - also when
\* the softcore is reset meanwhile and runs the command again.
FetchedIsMine ==
    hpc \in {"release", "stop"} /\ want \in Modes =>
        /\ Accepts(want, given)
        /\ \A k \in 0 .. Fetches(want) - 1 : got[k] = Compute(want, given, k)

\* A program that waits gets to see its command finished, unless the
\* firmware has failed for good (mode loop of main()).
EveryCommandAnswered ==
    (hpc = "wait") ~> (hpc # "wait" \/ pc \in {"spin", "trap"})

\* A zero in the control register makes the firmware ready for each mode
\* again: sooner or later no RUN flag is set.
ZeroResets == (control_register = <<0, 0>>) ~> (run = NoneRun)
=============================================================================
