------------------------------- MODULE LogFifo -------------------------------
(***************************************************************************)
(* What a log channel promises its writer and its reader: a bounded queue  *)
(* of bytes.  A record goes in whole or not at all, bytes come out in      *)
(* order, each of them once.                                               *)
(***************************************************************************)
EXTENDS Naturals, Sequences

CONSTANTS
    Records,    \* the records a writer may append: sequences of bytes
    Capacity    \* the bytes the channel holds

VARIABLES
    queue,      \* the bytes stored and not taken yet
    taken       \* the bytes the last read that found any returned

Init == queue = << >> /\ taken = << >>

\* A record that does not fit is dropped whole: a stuttering step.
Store ==
    \E r \in Records :
        /\ Len(queue) + Len(r) <= Capacity
        /\ queue' = queue \o r
        /\ UNCHANGED taken

Take ==
    \E n \in 1..Len(queue) :
        /\ taken' = SubSeq(queue, 1, n)
        /\ queue' = SubSeq(queue, n + 1, Len(queue))

Next == Store \/ Take

Spec == Init /\ [][Next]_<<queue, taken>>
=============================================================================
