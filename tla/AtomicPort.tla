----------------------------- MODULE AtomicPort -----------------------------
(***************************************************************************)
(* What port A of the shared memory promises to Linux, without clock edges *)
(* and ready lines: a read and a write that are offered take effect one    *)
(* after the other, each at one moment; a write is acknowledged and a read *)
(* answered, once, with what its place held at that moment.  A reset drops *)
(* what is offered or waits to be taken.                                   *)
(***************************************************************************)
EXTENDS Naturals

CONSTANTS Writes,   \* [place, data, strobe]
          Reads,    \* the places that may be read
          Stored,   \* what the softcore may store
          Initial

VARIABLES
    words,      \* the contents of the registers and buffers
    write,      \* empty, or the write that waits
    read,       \* empty, or the place of the read that waits
    answer,     \* what the latest read found
    unanswered, \* acknowledgements and
    unread      \* answers that Linux has not taken

vars == <<words, write, read, answer, unanswered, unread>>

\* Linux writes one buffer and reads the other.
ReadFrom(p) == IF p = "buffer" THEN "bram_out" ELSE p

\* Of a word in the buffer only the strobed lanes change.  The status
\* register belongs to the softcore: a write is acknowledged and dropped.
Effect(x) ==
    CASE x.place = "control" -> [words EXCEPT !["control"] = x.data]
      [] x.place = "buffer"  ->
            [words EXCEPT !["bram_in"] =
                [lane \in 1 .. 2 |-> IF lane \in x.strobe THEN x.data[lane] ELSE @[lane]]]
      [] x.place = "status"  -> words

Init ==
    /\ words = [n \in {"control", "status", "bram_in", "bram_out"} |-> Initial]
    /\ write = {} /\ read = {}
    /\ answer = Initial
    /\ unanswered = 0 /\ unread = 0

Write(x) == words' = Effect(x) /\ UNCHANGED answer
Read(p)  == answer' = words[ReadFrom(p)] /\ UNCHANGED words

\* Nothing happens to what waits, except that it is taken; when nothing
\* waits, something may be offered.
WriteWaits ==
    /\ write' = write \/ (write = {} /\ \E x \in Writes : write' = {x})
    /\ unanswered' \in {0, unanswered}

ReadWaits ==
    /\ read' = read \/ (read = {} /\ \E p \in Reads : read' = {p})
    /\ unread' \in {0, unread}

\* The answer before is taken when the next one is given, or earlier.
Linux ==
    \/ \E x \in write : Write(x) /\ write' = {} /\ unanswered' = 1 /\ ReadWaits
    \/ \E p \in read : Read(p) /\ read' = {} /\ unread' = 1 /\ WriteWaits
    \/ UNCHANGED <<words, answer>> /\ WriteWaits /\ ReadWaits

Reset ==
    /\ \/ \E x \in write : Write(x)
       \/ \E p \in read : Read(p)
       \/ UNCHANGED <<words, answer>>
    /\ write' = {} /\ read' = {}
    /\ unanswered' = 0 /\ unread' = 0

SoftcoreStores ==
    /\ \E n \in {"status", "bram_out"}, v \in Stored : words' = [words EXCEPT ![n] = v]
    /\ UNCHANGED <<write, read, answer, unanswered, unread>>

Next == Linux \/ Reset \/ SoftcoreStores

Spec == Init /\ [][Next]_vars
=============================================================================
