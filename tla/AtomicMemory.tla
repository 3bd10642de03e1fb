---------------------------- MODULE AtomicMemory ----------------------------
(***************************************************************************)
(* What the bus promises to the firmware, without clock edges, slaves and  *)
(* ready lines: an access takes effect at one moment between its offer and *)
(* its answer, and the answer is what its place held at that moment.  Only *)
(* a reset cuts an access off, which then has taken effect or has not.     *)
(***************************************************************************)
CONSTANTS Value, Initial

\* The registers and memories, one word of each.
Words == {"control", "status", "bram_in", "bram_out", "ram", "out32bit"}

\* A load from the buffer finds what Linux wrote, a store goes to the other
\* direction.  Linux owns the control register: a store there is dropped.
LoadedFrom(p) == IF p = "buffer" THEN "bram_in" ELSE p
StoredTo(p)   == IF p = "buffer" THEN "bram_out" ELSE p

Places   == {"control", "status", "buffer", "ram", "out32bit"}
Accesses == {a \in [store : BOOLEAN, place : Places, data : Value] :
                a.place = "out32bit" => a.store}

VARIABLES
    words,      \* the contents of the memory
    phase,      \* "free", "offered" or "answered"
    access,     \* the latest access
    answer,     \* NoAnswer, or what the load returns
    resetting   \* the softcore is held in reset

vars == <<words, phase, access, answer, resetting>>

NoAnswer == <<>>

Effect(w) ==
    IF access.store /\ access.place # "control"
    THEN [w EXCEPT ![StoredTo(access.place)] = access.data]
    ELSE w

Init ==
    /\ words = [n \in Words |-> Initial]
    /\ phase = "free"
    /\ access = [store |-> FALSE, place |-> "ram", data |-> Initial]
    /\ answer = NoAnswer
    /\ resetting = TRUE

Offer ==
    /\ ~resetting
    /\ phase = "free"
    /\ phase' = "offered"
    /\ access' \in Accesses
    /\ UNCHANGED <<words, answer>>

Perform ==
    /\ ~resetting
    /\ phase = "offered"
    /\ phase' = "answered"
    /\ words' = Effect(words)
    /\ answer' = IF access.store THEN NoAnswer
                 ELSE <<words[LoadedFrom(access.place)]>>
    /\ UNCHANGED access

\* The answer to a load from RAM may be taken together with the offer of the
\* second word of an instruction.
Take ==
    /\ ~resetting
    /\ phase = "answered"
    /\ \/ phase' = "free"
       \/ phase' = "offered" /\ ~access.store /\ access.place = "ram"
    /\ answer' = NoAnswer
    /\ UNCHANGED <<words, access>>

\* A reset clears the output register and ends the access.
Reset ==
    /\ resetting
    /\ LET cleared == [words EXCEPT !["out32bit"] = Initial]
       IN  \/ words' = cleared
           \/ phase = "offered" /\ words' = Effect(cleared)
    /\ phase' = "free"
    /\ answer' = NoAnswer
    /\ UNCHANGED access

\* The reset line changes with a step of the softcore, or between two.
Softcore ==
    /\ resetting' \in BOOLEAN
    /\ \/ Offer \/ Perform \/ Take \/ Reset
       \/ ~resetting /\ UNCHANGED <<words, phase, access, answer>>

LinuxWrites ==
    /\ \E v \in Value, n \in {"control", "bram_in"} : words' = [words EXCEPT ![n] = v]
    /\ UNCHANGED <<phase, access, answer, resetting>>

Next == Softcore \/ LinuxWrites

Spec == Init /\ [][Next]_vars
=============================================================================
