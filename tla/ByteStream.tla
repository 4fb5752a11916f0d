------------------------------ MODULE ByteStream ------------------------------
(***************************************************************************)
(* What Message promises a microapp that polls it: the bytes of the        *)
(* messages it took, in the order they came in, each of them once.         *)
(***************************************************************************)
EXTENDS Naturals, Sequences

CONSTANTS
    Chunks,     \* messages that may come in: sequences of bytes
    Capacity    \* bytes that can wait to be read

VARIABLES
    waiting,    \* received, and not read yet
    read        \* what the last call to readBytes returned

vars == <<waiting, read>>

Init == waiting = <<>> /\ read = <<>>

Receive ==
    /\ \E c \in Chunks : Len(waiting) + Len(c) <= Capacity /\ waiting' = waiting \o c
    /\ UNCHANGED read

Read ==
    \E n \in 0 .. Len(waiting) :
        /\ read' = SubSeq(waiting, 1, n)
        /\ waiting' = SubSeq(waiting, n + 1, Len(waiting))

Next == Receive \/ Read

Spec == Init /\ [][Next]_vars
=============================================================================
