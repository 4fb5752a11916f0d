---------------------------- MODULE PrivateBuffers ----------------------------
(***************************************************************************)
(* What the context stack of microapp.c promises: although bluenet and the *)
(* microapp share one outgoing buffer, every level of user code (the main  *)
(* program, and each interrupt handler nested in another) behaves as if it *)
(* had an outgoing buffer of its own.  Only the innermost level writes or  *)
(* is served, a message is served once, and what the levels below it have  *)
(* in their buffers does not change until they run again.                  *)
(***************************************************************************)
EXTENDS Naturals

CONSTANTS
    Messages,   \* what user code may write
    None,       \* an untouched buffer
    Depth       \* how many interrupts can be nested

VARIABLES
    level,      \* interrupts being handled
    buffer      \* the outgoing buffer of each level

vars == <<level, buffer>>

Blank == [msg |-> None, served |-> 0]

Init ==
    /\ level = 0
    /\ buffer = [n \in 0 .. Depth |-> Blank]

Write ==
    /\ \E m \in Messages : buffer' = [buffer EXCEPT ![level] = [msg |-> m, served |-> 0]]
    /\ UNCHANGED level

Serve ==
    /\ buffer[level].msg # None
    /\ buffer[level].served = 0
    /\ buffer' = [buffer EXCEPT ![level].served = 1]
    /\ UNCHANGED level

(* A handler starts from whatever the interrupted level left behind.       *)
Enter ==
    /\ level < Depth
    /\ level' = level + 1
    /\ buffer' = [buffer EXCEPT ![level + 1] = buffer[level]]

Leave ==
    /\ level > 0
    /\ level' = level - 1
    /\ buffer' = [buffer EXCEPT ![level] = Blank]

Next == Write \/ Serve \/ Enter \/ Leave

Spec == Init /\ [][Next]_vars
=============================================================================
