-------------------------- MODULE ReceiveBufferProofs --------------------------
(***************************************************************************)
(* Proofs about the two buffers that interrupts fill while user code       *)
(* waits.  MessageBuffer implements ByteStream, for every buffer size and  *)
(* every set of messages; MeshBuffer keeps every message once, for any     *)
(* length of the buffer and any number of messages.                        *)
(***************************************************************************)
EXTENDS MessageBuffer, MeshBuffer, SequenceTheorems, WellFoundedInduction, TLAPS

(* The first n places of the buffer, as a sequence.                        *)
LEMMA FrontProperties ==
    ASSUME NEW r \in [1 .. BufferSize -> Bytes], NEW n \in 0 .. BufferSize
    PROVE  /\ SubSeq(r, 1, n) \in Seq(Bytes)
           /\ Len(SubSeq(r, 1, n)) = n
           /\ \A i \in 1 .. n : SubSeq(r, 1, n)[i] = r[i]
<1>1. \A i \in 1 .. n : r[i] \in Bytes
  BY BufferAssumption
<1>2. /\ SubSeq(r, 1, n) \in Seq(Bytes)
      /\ Len(SubSeq(r, 1, n)) = IF 1 <= n THEN n - 1 + 1 ELSE 0
      /\ \A i \in 1 .. n - 1 + 1 : SubSeq(r, 1, n)[i] = r[1 + i - 1]
  BY <1>1, SubSeqProperties
<1>3. n - 1 + 1 = n /\ \A i \in 1 .. n : 1 + i - 1 = i
  OBVIOUS
<1>4. QED
  BY <1>2, <1>3

------------------------------------------------------------------------------
(* The buffer holds bytes, and never more of them than fit: no message is  *)
(* copied past its end (Message.cpp:61-67).                                *)
THEOREM TypeCorrect == Spec => []TypeOK
<1>1. Init => TypeOK
  <2> SUFFICES ASSUME Init PROVE TypeOK
    OBVIOUS
  <2>1. receiveBuffer \in [1 .. BufferSize -> Bytes]
    BY DEF Init
  <2>2. available \in 0 .. BufferSize /\ handler \in BOOLEAN
    <3>1. available = 0 /\ handler = FALSE
      BY DEF Init
    <3>2. BufferSize \in Nat
      BY BufferAssumption
    <3>3. available \in 0 .. BufferSize
      BY <3>1, <3>2
    <3>4. handler \in BOOLEAN
      BY <3>1
    <3>5. QED
      BY <3>3, <3>4
  <2>3. data \in Seq(Bytes)
    BY EmptySeq DEF Init
  <2>4. QED
    BY <2>1, <2>2, <2>3 DEF TypeOK
<1>2. TypeOK /\ [Next]_vars => TypeOK'
  <2> SUFFICES ASSUME TypeOK, [Next]_vars PROVE TypeOK'
    OBVIOUS
  <2>1. ASSUME NEW message \in Messages, handleInterrupt(message) PROVE TypeOK'
    <3>1. message \in Seq(Bytes) /\ Len(message) \in Nat /\ DOMAIN message = 1 .. Len(message)
      BY BufferAssumption, LenProperties
    <3>2. \A i \in DOMAIN message : message[i] \in Bytes
      BY <3>1, ElementOfSeq
    <3>3. receiveBuffer' \in [1 .. BufferSize -> Bytes]
      BY <2>1, <3>2 DEF handleInterrupt, TypeOK
    <3>4. available' \in 0 .. BufferSize
      BY <2>1, <3>1, BufferAssumption DEF handleInterrupt, TypeOK
    <3>5. QED
      BY <2>1, <3>3, <3>4 DEF handleInterrupt, TypeOK
  <2>2. ASSUME NEW size \in 0 .. MaxRead, readBytes(size) PROVE TypeOK'
    <3> DEFINE n == IF available < size THEN available ELSE size
    <3>1. n \in 0 .. available /\ available \in 0 .. BufferSize /\ n \in 0 .. BufferSize
      BY BufferAssumption DEF TypeOK
    <3>2. data' \in Seq(Bytes)
      BY <2>2, <3>1, FrontProperties DEF readBytes, TypeOK
    <3>3. \A i \in 1 .. BufferSize : i <= available - n => i + n \in 1 .. BufferSize
      BY <3>1, BufferAssumption
    <3>4. receiveBuffer' \in [1 .. BufferSize -> Bytes]
      BY <2>2, <3>3 DEF readBytes, TypeOK
    <3>5. available' \in 0 .. BufferSize
      BY <2>2, <3>1, BufferAssumption DEF readBytes
    <3>6. QED
      BY <2>2, <3>2, <3>4, <3>5 DEF readBytes, TypeOK
  <2>3. CASE setHandler
    BY <2>3 DEF setHandler, TypeOK
  <2>4. CASE UNCHANGED vars
    BY <2>4 DEF vars, TypeOK
  <2>5. QED
    BY <2>1, <2>2, <2>3, <2>4 DEF Next
<1>3. QED
  BY <1>1, <1>2, PTL DEF Spec

------------------------------------------------------------------------------
(* A message that fits is appended to the bytes that wait.                 *)
LEMMA InterruptReceives ==
    ASSUME TypeOK, TypeOK', NEW message \in Messages, handleInterrupt(message)
    PROVE  Stream!Receive
<1> DEFINE waiting == SubSeq(receiveBuffer, 1, available)
           after   == SubSeq(receiveBuffer', 1, available')
<1>1. /\ message \in Seq(Bytes)
      /\ Len(message) \in Nat
      /\ DOMAIN message = 1 .. Len(message)
  BY BufferAssumption, LenProperties
<1>2. available' = available + Len(message) /\ available \in Nat /\ available + Len(message) <= BufferSize
  BY DEF handleInterrupt, TypeOK
<1>3. waiting \in Seq(Bytes) /\ Len(waiting) = available
      /\ \A i \in 1 .. available : waiting[i] = receiveBuffer[i]
  BY FrontProperties DEF TypeOK
<1>4. after \in Seq(Bytes) /\ Len(after) = available'
      /\ \A i \in 1 .. available' : after[i] = receiveBuffer'[i]
  BY FrontProperties DEF TypeOK
<1>5. /\ waiting \o message \in Seq(Bytes)
      /\ Len(waiting \o message) = available + Len(message)
      /\ \A i \in 1 .. available + Len(message) :
            (waiting \o message)[i] =
                IF i <= available THEN waiting[i] ELSE message[i - available]
  <2> HIDE DEF waiting
  <2>1. QED
    BY <1>1, <1>3, ConcatProperties
<1>6. \A i \in 1 .. available + Len(message) : after[i] = (waiting \o message)[i]
  <2> SUFFICES ASSUME NEW i \in 1 .. available + Len(message)
               PROVE  after[i] = (waiting \o message)[i]
    OBVIOUS
  <2>1. i \in 1 .. BufferSize /\ i \in 1 .. available'
    BY <1>1, <1>2, BufferAssumption
  <2>2. after[i] = IF i - available \in DOMAIN message THEN message[i - available]
                   ELSE receiveBuffer[i]
    BY <1>4, <2>1 DEF handleInterrupt
  <2>3. i - available \in DOMAIN message <=> i > available
    BY <1>1, <1>2
  <2>4. i <= available => i \in 1 .. available
    BY <1>2
  <2>5. QED
    BY <1>2, <1>3, <1>5, <2>2, <2>3, <2>4
<1>7. after = waiting \o message
  <2> HIDE DEF waiting, after
  <2>1. QED
    BY <1>2, <1>4, <1>5, <1>6, SeqEqual
<1>8. data' = data
  BY DEF handleInterrupt
<1>9. QED
  BY <1>2, <1>3, <1>7, <1>8 DEF Stream!Receive

(* readBytes takes bytes from the front, and leaves the rest in order.     *)
LEMMA ReadReads ==
    ASSUME TypeOK, TypeOK', NEW size \in 0 .. MaxRead, readBytes(size)
    PROVE  Stream!Read
<1> DEFINE n       == IF available < size THEN available ELSE size
           waiting == SubSeq(receiveBuffer, 1, available)
           after   == SubSeq(receiveBuffer', 1, available')
<1>1. n \in 0 .. available /\ available \in 0 .. BufferSize /\ n \in 0 .. BufferSize
      /\ BufferSize \in Nat
  BY BufferAssumption DEF TypeOK
<1>2. /\ data' = SubSeq(receiveBuffer, 1, n)
      /\ available' = available - n
      /\ \A i \in 1 .. BufferSize : receiveBuffer'[i] =
            IF i <= available - n THEN receiveBuffer[i + n] ELSE receiveBuffer[i]
  BY DEF readBytes
<1>3. waiting \in Seq(Bytes) /\ Len(waiting) = available
      /\ \A i \in 1 .. available : waiting[i] = receiveBuffer[i] /\ waiting[i] \in Bytes
  <2>1. waiting \in Seq(Bytes) /\ Len(waiting) = available
        /\ \A i \in 1 .. available : waiting[i] = receiveBuffer[i]
    BY FrontProperties DEF TypeOK
  <2>2. \A i \in 1 .. available : receiveBuffer[i] \in Bytes
    BY <1>1 DEF TypeOK
  <2>3. QED
    BY <2>1, <2>2
<1>4. after \in Seq(Bytes) /\ Len(after) = available - n
      /\ \A i \in 1 .. available - n : after[i] = receiveBuffer'[i]
  BY <1>2, FrontProperties DEF TypeOK
<1>5. data' \in Seq(Bytes) /\ Len(data') = n
      /\ \A i \in 1 .. n : data'[i] = receiveBuffer[i]
  BY <1>1, <1>2, FrontProperties DEF TypeOK
<1> HIDE DEF n, waiting, after
<1>6. data' = SubSeq(waiting, 1, n)
  <2>1. \A i \in 1 .. n : waiting[i] \in Bytes /\ waiting[i] = receiveBuffer[i]
    BY <1>1, <1>3
  <2>2. /\ SubSeq(waiting, 1, n) \in Seq(Bytes)
        /\ Len(SubSeq(waiting, 1, n)) = IF 1 <= n THEN n - 1 + 1 ELSE 0
        /\ \A i \in 1 .. n - 1 + 1 : SubSeq(waiting, 1, n)[i] = waiting[1 + i - 1]
    BY <1>1, <2>1, SubSeqProperties
  <2>3. n - 1 + 1 = n /\ \A i \in 1 .. n : 1 + i - 1 = i
    BY <1>1
  <2>4. Len(SubSeq(waiting, 1, n)) = n /\ \A i \in 1 .. n : SubSeq(waiting, 1, n)[i] = data'[i]
    BY <1>1, <1>5, <2>1, <2>2, <2>3
  <2>5. QED
    BY <1>5, <2>2, <2>4, SeqEqual
<1>7. after = SubSeq(waiting, n + 1, available)
  <2>1. \A i \in n + 1 .. available : waiting[i] \in Bytes
    BY <1>1, <1>3
  <2>2. /\ SubSeq(waiting, n + 1, available) \in Seq(Bytes)
        /\ Len(SubSeq(waiting, n + 1, available)) =
              IF n + 1 <= available THEN available - (n + 1) + 1 ELSE 0
        /\ \A i \in 1 .. available - (n + 1) + 1 :
              SubSeq(waiting, n + 1, available)[i] = waiting[n + 1 + i - 1]
    BY <1>1, <2>1, SubSeqProperties
  <2>3. available - (n + 1) + 1 = available - n
    BY <1>1
  <2>4. Len(SubSeq(waiting, n + 1, available)) = available - n
    BY <1>1, <2>2
  <2>5. ASSUME NEW i \in 1 .. available - n
        PROVE  after[i] = SubSeq(waiting, n + 1, available)[i]
    <3>1. i \in 1 .. BufferSize /\ i <= available - n /\ i + n \in 1 .. available /\ n + 1 + i - 1 = i + n
      BY <1>1
    <3>2. after[i] = receiveBuffer[i + n]
      BY <1>2, <1>4, <3>1
    <3>3. SubSeq(waiting, n + 1, available)[i] = waiting[i + n]
      BY <2>2, <2>3, <3>1
    <3>4. QED
      BY <1>3, <3>1, <3>2, <3>3
  <2>6. QED
    BY <1>4, <2>2, <2>4, <2>5, SeqEqual
<1>8. QED
  BY <1>1, <1>3, <1>6, <1>7 DEF Stream!Read, waiting, after

(* No byte is lost, duplicated or reordered between handleInterrupt and    *)
(* readBytes, however big the buffer (Message.cpp:53-97).                  *)
THEOREM ByteStreamImplemented == Spec => ImplementsByteStream
<1>1. Init => Stream!Init
  <2> SUFFICES ASSUME Init PROVE Stream!Init
    OBVIOUS
  <2>1. available = 0 /\ data = <<>>
    BY DEF Init
  <2>2. SubSeq(receiveBuffer, 1, 0) = <<>>
    BY SubSeqEmpty
  <2>3. QED
    BY <2>1, <2>2 DEF Stream!Init
<1>2. TypeOK /\ TypeOK' /\ [Next]_vars => [Stream!Next]_(Stream!vars)
  <2> SUFFICES ASSUME TypeOK, TypeOK', [Next]_vars PROVE [Stream!Next]_(Stream!vars)
    OBVIOUS
  <2>1. ASSUME NEW message \in Messages, handleInterrupt(message) PROVE Stream!Next
    BY <2>1, InterruptReceives DEF Stream!Next
  <2>2. ASSUME NEW size \in 0 .. MaxRead, readBytes(size) PROVE Stream!Next
    BY <2>2, ReadReads DEF Stream!Next
  <2>3. CASE setHandler
    BY <2>3 DEF setHandler, Stream!vars
  <2>4. CASE UNCHANGED vars
    BY <2>4 DEF vars, Stream!vars
  <2>5. QED
    BY <2>1, <2>2, <2>3, <2>4 DEF Next
<1>3. QED
  BY <1>1, <1>2, TypeCorrect, PTL DEF Spec, ImplementsByteStream, Stream!Spec
------------------------------------------------------------------------------
(* Messages are numbered as they arrive, so the next one is new.  What     *)
(* user code saw is still there, as only user code empties entries, and    *)
(* what it read last was read.                                             *)
KeptIInv ==
    /\ KeptOnce
    /\ kept \subseteq 1 .. arrived
    /\ checked => filled # {}
    /\ popped \in reads \cup {0}

Last == CHOOSE i \in filled : \A j \in filled : i >= j
------------------------------------------------------------------------------
LEMMA LeastOf ==
    ASSUME NEW T \in SUBSET Nat, T # {}
    PROVE  \E x \in T : \A y \in T : x <= y
<1> DEFINE R == OpToRel(<, Nat)
<1>1. IsWellFoundedOn(R, Nat)
    BY NatLessThanWellFounded
<1>2. \A x, y \in Nat : <<y, x>> \in R <=> y < x
    BY DEF OpToRel
<1> HIDE DEF R
<1>3. PICK x \in T : \A y \in T : <<y, x>> \notin R
    BY <1>1, WFMin
<1>4. \A y \in T : ~(y < x)
    BY <1>2, <1>3
<1> QED
    BY <1>4

(* The two searches find an entry when there is one.                       *)
LEMMA FirstFreeIsFree ==
    ASSUME filled \subseteq Entries, filled # Entries
    PROVE  FirstFree \in Entries \ filled
<1>1. Entries \ filled \subseteq Nat
    BY LengthAssumption DEF Entries
<1>2. Entries \ filled # {}
    OBVIOUS
<1>3. \E i \in Entries \ filled : \A j \in Entries \ filled : i <= j
    BY <1>1, <1>2, LeastOf
<1> QED
    BY <1>3 DEF FirstFree

LEMMA LastIsFilled ==
    ASSUME filled \subseteq Entries, filled # {}
    PROVE  Last \in filled
<1> DEFINE top == MESH_MSG_BUFFER_LEN - 1
           below == {top - i : i \in filled}
<1>1. top \in Nat /\ \A i \in filled : i \in 0 .. top
    BY LengthAssumption DEF Entries
<1> HIDE DEF top
<1>2. below \subseteq Nat /\ below # {}
    BY <1>1
<1>3. PICK d \in below : \A e \in below : d <= e
    BY <1>2, LeastOf
<1>4. PICK i \in filled : d = top - i
    BY <1>3
<1>5. \A j \in filled : top - i <= top - j
    BY <1>3, <1>4
<1>6. \A j \in filled : i >= j
    BY <1>1, <1>5
<1> QED
    BY <1>6 DEF Last
------------------------------------------------------------------------------
LEMMA KeptInit == MeshInit => KeptIInv
<1> SUFFICES ASSUME MeshInit
             PROVE  KeptIInv
    OBVIOUS
<1>1. MeshTypeOK
    <2>1. buffer \in [Entries -> 0 .. MaxMessages]
        BY LengthAssumption DEF MeshInit
    <2>2. 0 \in 0 .. MaxMessages
        BY LengthAssumption
    <2> QED
        BY <2>1, <2>2 DEF MeshInit, MeshTypeOK
<1>2. kept = reads \cup {buffer[i] : i \in filled}
    BY DEF MeshInit
<1> QED
    BY <1>1, <1>2 DEF MeshInit, KeptIInv, KeptOnce

(* The new message is in an entry of its own, and was neither kept nor     *)
(* read before.                                                            *)
LEMMA ArrivalKeeps ==
    ASSUME KeptIInv, handleIncomingMeshMsg
    PROVE  KeptIInv'
<1>1. arrived' = arrived + 1 /\ arrived' \in 0 .. MaxMessages /\ arrived' \in 1 .. MaxMessages
    BY LengthAssumption DEF handleIncomingMeshMsg, KeptIInv, KeptOnce, MeshTypeOK
<1>2. UNCHANGED <<meshHandler, popped, reads, checked>>
    BY DEF handleIncomingMeshMsg
<1>3. CASE UNCHANGED <<buffer, filled, kept>>
    BY <1>1, <1>2, <1>3, LengthAssumption DEF KeptIInv, KeptOnce, MeshTypeOK
<1>4. CASE filled # Entries /\ buffer' = [buffer EXCEPT ![FirstFree] = arrived']
           /\ filled' = filled \cup {FirstFree} /\ kept' = kept \cup {arrived'}
    <2>1. FirstFree \in Entries /\ FirstFree \notin filled
        BY <1>4, FirstFreeIsFree DEF KeptIInv, KeptOnce, MeshTypeOK
    <2>2. arrived' \notin kept
        BY <1>1, LengthAssumption DEF KeptIInv, KeptOnce, MeshTypeOK
    <2>3. /\ buffer'[FirstFree] = arrived'
          /\ \A i \in filled : buffer'[i] = buffer[i] /\ buffer[i] \in kept
        BY <1>4, <2>1 DEF KeptIInv, KeptOnce, MeshTypeOK
    <2>4. reads \subseteq kept
        BY DEF KeptIInv, KeptOnce
    <2>5. MeshTypeOK'
        BY <1>1, <1>2, <1>4, <2>1 DEF KeptIInv, KeptOnce, MeshTypeOK
    <2>6. kept' = reads' \cup {buffer'[i] : i \in filled'}
        BY <1>2, <1>4, <2>3 DEF KeptIInv, KeptOnce
    <2>7. \A i \in filled' : buffer'[i] \notin reads'
        BY <1>2, <1>4, <2>2, <2>3, <2>4 DEF KeptIInv, KeptOnce
    <2>8. \A i, j \in filled' : buffer'[i] = buffer'[j] => i = j
        BY <1>4, <2>2, <2>3 DEF KeptIInv, KeptOnce
    <2>9. kept' \subseteq 1 .. arrived'
        BY <1>1, <1>4, LengthAssumption DEF KeptIInv, KeptOnce, MeshTypeOK
    <2> QED
        BY <1>2, <1>4, <2>5, <2>6, <2>7, <2>8, <2>9 DEF KeptIInv, KeptOnce
<1> QED
    BY <1>3, <1>4 DEF handleIncomingMeshMsg

(* A message that is read leaves its entry, and no other entry has it.     *)
LEMMA ReadTakes ==
    ASSUME KeptIInv, readMeshMsg
    PROVE  /\ KeptIInv'
           /\ popped' # popped /\ popped' \in kept
<1>1. filled # {} /\ filled \subseteq Entries
    BY DEF readMeshMsg, KeptIInv, KeptOnce, MeshTypeOK
<1>2. Last \in filled
    BY <1>1, LastIsFilled
<1>3. /\ popped' = buffer[Last] /\ reads' = reads \cup {buffer[Last]}
      /\ filled' = filled \ {Last} /\ checked' = FALSE
      /\ UNCHANGED <<buffer, meshHandler, arrived, kept>>
    BY <1>1 DEF readMeshMsg, Last
<1>4. buffer[Last] \in kept /\ buffer[Last] \notin reads /\ buffer[Last] \in 1 .. MaxMessages
    BY <1>2 DEF KeptIInv, KeptOnce, MeshTypeOK
<1>5. MeshTypeOK'
    BY <1>1, <1>3, <1>4, LengthAssumption DEF KeptIInv, KeptOnce, MeshTypeOK
<1>6. kept' = reads' \cup {buffer'[i] : i \in filled'}
    BY <1>2, <1>3 DEF KeptIInv, KeptOnce
<1>7. /\ \A i \in filled' : buffer'[i] \notin reads'
      /\ \A i, j \in filled' : buffer'[i] = buffer'[j] => i = j
    BY <1>2, <1>3 DEF KeptIInv, KeptOnce
<1>8. KeptIInv'
    BY <1>3, <1>5, <1>6, <1>7 DEF KeptIInv, KeptOnce
<1>9. popped' # popped
    BY <1>3, <1>4, LengthAssumption DEF KeptIInv
<1> QED
    BY <1>3, <1>4, <1>8, <1>9

LEMMA KeptStep == KeptIInv /\ [MeshNext]_meshVars => KeptIInv'
<1> SUFFICES ASSUME KeptIInv, [MeshNext]_meshVars
             PROVE  KeptIInv'
    OBVIOUS
<1>1. CASE handleIncomingMeshMsg
    BY <1>1, ArrivalKeeps
<1>2. CASE setIncomingMeshMsgHandler
    BY <1>2 DEF setIncomingMeshMsgHandler, KeptIInv, KeptOnce, MeshTypeOK
<1>3. CASE meshAvailable
    BY <1>3 DEF meshAvailable, KeptIInv, KeptOnce, MeshTypeOK
<1>4. CASE readMeshMsg
    BY <1>4, ReadTakes
<1>5. CASE UNCHANGED meshVars
    BY <1>5 DEF meshVars, KeptIInv, KeptOnce, MeshTypeOK
<1> QED
    BY <1>1, <1>2, <1>3, <1>4, <1>5 DEF MeshNext

LEMMA KeptIInvHolds == MeshSpec => []KeptIInv
<1>1. MeshInit => KeptIInv
    BY KeptInit
<1>2. KeptIInv /\ [MeshNext]_meshVars => KeptIInv'
    BY KeptStep
<1> QED
    BY <1>1, <1>2, PTL DEF MeshSpec
------------------------------------------------------------------------------
(* No message that was kept is lost, overwritten or read twice, for any    *)
(* length of the buffer and any number of messages.                        *)
THEOREM EachKeptOnce == MeshSpec => []KeptOnce
<1>1. KeptIInv => KeptOnce
    BY DEF KeptIInv
<1> QED
    BY <1>1, KeptIInvHolds, PTL

(* readMeshMsg after available() gives a message, and a new one.           *)
THEOREM ReadsGetMessages == MeshSpec => ReadGetsMessage
<1>1. KeptIInv /\ [MeshNext]_meshVars => [readMeshMsg => popped' # popped /\ popped' \in kept]_meshVars
    BY ReadTakes
<1> QED
    BY <1>1, KeptIInvHolds, PTL DEF MeshSpec, ReadGetsMessage
=============================================================================
