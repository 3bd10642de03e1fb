--------------------------- MODULE CommandService ---------------------------
(***************************************************************************)
(* What the security module promises to a program on the Linux side,       *)
(* without the firmware's single steps: a request that stands in the       *)
(* control register is taken, the previous answer is withdrawn, and the    *)
(* whole new answer appears at once, computed from an input each word of   *)
(* which was offered since then - or the module falls silent until it is   *)
(* switched off.                                                           *)
(***************************************************************************)
EXTENDS FismosRegisters

CONSTANTS Data, Zero, Commands, Compute(_, _, _), Accepts(_, _)

VARIABLES
    request,    \* the control register
    input,      \* the input buffer
    offered,    \* for each word, its values since the answer was withdrawn
    phase,      \* "off", "idle", "taken", "busy" or "dead"
    current,    \* the mode last taken
    served,     \* the modes not to be taken again
    answer      \* NoAnswer, or the mode and the words of the answer

vars == <<request, input, offered, phase, current, served, answer>>

NoAnswer == <<>>
Answer(m, x) == <<m, [k \in 0 .. OutLen(m) - 1 |-> Compute(m, x, k)]>>

\* The inputs the module may have read, word by word.
Readable(m) ==
    {x \in [Idx -> Data] : \A k \in 0 .. InLen(m) - 1 : x[k] \in offered[k]}

Init ==
    /\ request = <<0, 0>>
    /\ input = [k \in Idx |-> Zero]
    /\ offered = [k \in Idx |-> {Zero}]
    /\ phase = "off"
    /\ current = AES
    /\ served = {}
    /\ answer = NoAnswer

SwitchOn ==
    /\ phase = "off"
    /\ phase' = "idle"
    /\ served' = {}
    /\ UNCHANGED <<request, input, offered, current, answer>>

\* An idle module that sees a zero is ready to serve every mode again.
Forget ==
    /\ phase = "idle"
    /\ Low(request) = 0
    /\ served' = {}
    /\ UNCHANGED <<request, input, offered, phase, current, answer>>

Take(m) ==
    /\ phase = "idle"
    /\ Low(request) = m
    /\ m \notin served
    /\ phase' = "taken"
    /\ current' = m
    /\ UNCHANGED <<request, input, offered, served, answer>>

Withdraw ==
    /\ phase = "taken"
    /\ phase' = "busy"
    /\ answer' = NoAnswer
    /\ offered' = [k \in Idx |-> {input[k]}]
    /\ UNCHANGED <<request, input, current, served>>

Reply ==
    /\ phase = "busy"
    /\ \E x \in Readable(current) :
        /\ Accepts(current, x)
        /\ answer' = Answer(current, x)
    /\ phase' = "idle"
    /\ served' = served \union {current}
    /\ UNCHANGED <<request, input, offered, current>>

\* Decryption never fails; the key is refused only for a wrong input.
Fail ==
    /\ phase = "busy"
    /\ current # AES
    /\ current = KEYSTORAGE => \E x \in Readable(current) : ~Accepts(current, x)
    /\ phase' = "dead"
    /\ UNCHANGED <<request, input, offered, current, served, answer>>

Ask(c) ==
    /\ request' = c
    /\ UNCHANGED <<input, offered, phase, current, served, answer>>

Offer(k, d) ==
    /\ input' = [input EXCEPT ![k] = d]
    /\ offered' = [offered EXCEPT ![k] = @ \union {d}]
    /\ UNCHANGED <<request, phase, current, served, answer>>

SwitchOff ==
    /\ phase' = "off"
    /\ UNCHANGED <<request, input, offered, current, served, answer>>

Next ==
    \/ SwitchOn \/ Forget \/ Withdraw \/ Reply \/ Fail \/ SwitchOff
    \/ \E m \in Modes : Take(m)
    \/ \E c \in Commands : Ask(c)
    \/ \E k \in Idx, d \in Data : Offer(k, d)

Spec == Init /\ [][Next]_vars
=============================================================================
