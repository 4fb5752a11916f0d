----------------------------- MODULE MessageBuffer -----------------------------
(***************************************************************************)
(* The receive buffer of Message.cpp.  Messages come in by interrupt, at   *)
(* any moment user code waits in sendMessage; user code reads bytes in     *)
(* pieces of its own, or sets a handler.  The bytes that are not read yet  *)
(* are kept at the front of the buffer.                                    *)
(***************************************************************************)
EXTENDS Naturals, Sequences

CONSTANTS
    Bytes,
    Messages,       \* messages that may come in: non-empty sequences of bytes
    BufferSize,     \* MICROAPP_SDK_MESSAGE_RECEIVED_MSG_MAX_SIZE
    MaxRead         \* the most user code asks for

ASSUME BufferAssumption ==
    /\ BufferSize \in Nat \ {0}
    /\ MaxRead \in Nat
    /\ Messages \subseteq Seq(Bytes) \ {<<>>}
    /\ Bytes # {}

VARIABLES
    receiveBuffer,  \* _receiveBuffer
    available,      \* _available
    handler,        \* whether _handler is set
    data            \* what readBytes copied to the buffer of its caller

vars == <<receiveBuffer, available, handler, data>>

(* The buffer is not initialised: any content would do.                    *)
Init ==
    /\ \E b \in Bytes : receiveBuffer = [i \in 1 .. BufferSize |-> b]
    /\ available = 0
    /\ handler = FALSE
    /\ data = <<>>

(* handleInterrupt.  A message a handler takes, or one that does not fit,  *)
(* leaves the buffer alone.                                                *)
(* Mutant: the data is copied to the start of the buffer.                  *)
handleInterruptAtStart(message) ==
    /\ ~handler
    /\ available + Len(message) <= BufferSize
    /\ receiveBuffer' = [i \in 1 .. BufferSize |->
           IF i \in DOMAIN message THEN message[i] ELSE receiveBuffer[i]]
    /\ available' = available + Len(message)
    /\ UNCHANGED <<handler, data>>

handleInterrupt(message) ==
    /\ ~handler
    /\ available + Len(message) <= BufferSize
    /\ receiveBuffer' = [i \in 1 .. BufferSize |->
           IF i - available \in DOMAIN message THEN message[i - available] ELSE receiveBuffer[i]]
    /\ available' = available + Len(message)
    /\ UNCHANGED <<handler, data>>

(* readBytes(size): copy what there is of it, and shift the rest.          *)
readBytes(size) ==
    LET n == IF available < size THEN available ELSE size IN
    /\ data' = SubSeq(receiveBuffer, 1, n)
    /\ receiveBuffer' = [i \in 1 .. BufferSize |->
           IF i <= available - n THEN receiveBuffer[i + n] ELSE receiveBuffer[i]]
    /\ available' = available - n
    /\ UNCHANGED handler

setHandler ==
    /\ handler' \in BOOLEAN
    /\ UNCHANGED <<receiveBuffer, available, data>>

Next ==
    \/ \E message \in Messages : handleInterrupt(message)
    \/ \E size \in 0 .. MaxRead : readBytes(size)
    \/ setHandler

Spec == Init /\ [][Next]_vars

------------------------------------------------------------------------------
(* The buffer holds bytes, and no more than fit (Message.cpp:61-67).       *)
TypeOK ==
    /\ receiveBuffer \in [1 .. BufferSize -> Bytes]
    /\ available \in 0 .. BufferSize
    /\ handler \in BOOLEAN
    /\ data \in Seq(Bytes)

(* The bytes that wait are those at the front of the buffer.               *)
Stream == INSTANCE ByteStream WITH
    Chunks <- Messages, Capacity <- BufferSize,
    waiting <- SubSeq(receiveBuffer, 1, available), read <- data

(* They are a byte stream with the capacity of the buffer: nothing is      *)
(* lost, read twice or reordered, and a message is taken whole or not at   *)
(* all (Message.cpp:53-97).                                                *)
ImplementsByteStream == Stream!Spec
=============================================================================
