------------------------------ MODULE MeshBuffer ------------------------------
(***************************************************************************)
(* The buffer of incoming mesh messages of Mesh.cpp, for microapps that    *)
(* poll: available() and readMeshMsg().  Messages come in by interrupt, at *)
(* any moment user code waits in sendMessage, so also between available()  *)
(* and readMeshMsg().  Names that MessageBuffer has too are prefixed.      *)
(***************************************************************************)
EXTENDS Naturals

CONSTANTS
    MESH_MSG_BUFFER_LEN,
    MaxMessages             \* bound of the model: messages that come in

ASSUME LengthAssumption == MESH_MSG_BUFFER_LEN \in Nat \ {0} /\ MaxMessages \in Nat

VARIABLES
    buffer,         \* _incomingMeshMsgBuffer: the message in each entry
    filled,         \* which entries are filled
    meshHandler,    \* _registeredIncomingMeshMsgHandler is set
    arrived,        \* messages that came in so far: they are 1 .. arrived
    kept,           \* those bluenet was told are taken care of, by the buffer
    popped,         \* the message readMeshMsg gave to user code, or 0
    reads,          \* messages readMeshMsg gave so far
    checked         \* user code saw available() return true, and did not read yet

meshVars == <<buffer, filled, meshHandler, arrived, kept, popped, reads, checked>>

Entries == 0 .. MESH_MSG_BUFFER_LEN - 1

MeshInit ==
    /\ buffer = [i \in Entries |-> 0]
    /\ filled = {}
    /\ meshHandler = FALSE
    /\ arrived = 0
    /\ kept = {}
    /\ popped = 0
    /\ reads = {}
    /\ checked = FALSE

(* The first entry of the buffer that is not filled.                       *)
FirstFree == CHOOSE i \in Entries \ filled : \A j \in Entries \ filled : i <= j

(* handleIncomingMeshMsg: the message goes to the handler, or in the       *)
(* buffer, or it is discarded.                                             *)
(* Mutant: a full buffer loses what is in its last entry.                  *)
handleIncomingMeshMsgOverwriting ==
    /\ arrived < MaxMessages
    /\ arrived' = arrived + 1
    /\ IF meshHandler THEN UNCHANGED <<buffer, filled, kept>>
       ELSE LET i == IF filled = Entries THEN MESH_MSG_BUFFER_LEN - 1 ELSE FirstFree IN
            /\ buffer' = [buffer EXCEPT ![i] = arrived']
            /\ filled' = filled \cup {i}
            /\ kept' = kept \cup {arrived'}
    /\ UNCHANGED <<meshHandler, popped, reads, checked>>

handleIncomingMeshMsg ==
    /\ arrived < MaxMessages
    /\ arrived' = arrived + 1
    /\ IF meshHandler \/ filled = Entries THEN UNCHANGED <<buffer, filled, kept>>
       ELSE /\ buffer' = [buffer EXCEPT ![FirstFree] = arrived']
            /\ filled' = filled \cup {FirstFree}
            /\ kept' = kept \cup {arrived'}
    /\ UNCHANGED <<meshHandler, popped, reads, checked>>

setIncomingMeshMsgHandler ==
    /\ meshHandler' \in BOOLEAN
    /\ UNCHANGED <<buffer, filled, arrived, kept, popped, reads, checked>>

meshAvailable ==
    /\ ~checked
    /\ checked' = (filled # {})
    /\ UNCHANGED <<buffer, filled, meshHandler, arrived, kept, popped, reads>>

(* readMeshMsg takes the last entry that is filled.  When none is, it      *)
(* leaves the message of its caller as it was.                             *)
(* Mutants: the search skips entry 0; the entry is not freed.              *)
readMeshMsgSkippingFirst ==
    /\ checked
    /\ checked' = FALSE
    /\ IF filled \ {0} = {} THEN UNCHANGED <<filled, popped, reads>>
       ELSE LET i == CHOOSE i \in filled : \A j \in filled : i >= j IN
            /\ popped' = buffer[i]
            /\ reads' = reads \cup {buffer[i]}
            /\ filled' = filled \ {i}
    /\ UNCHANGED <<buffer, meshHandler, arrived, kept>>

readMeshMsgKeeping ==
    /\ checked
    /\ checked' = FALSE
    /\ IF filled = {} THEN UNCHANGED <<filled, popped, reads>>
       ELSE LET i == CHOOSE i \in filled : \A j \in filled : i >= j IN
            /\ popped' = buffer[i]
            /\ reads' = reads \cup {buffer[i]}
            /\ UNCHANGED filled
    /\ UNCHANGED <<buffer, meshHandler, arrived, kept>>

readMeshMsg ==
    /\ checked
    /\ checked' = FALSE
    /\ IF filled = {} THEN UNCHANGED <<filled, popped, reads>>
       ELSE LET i == CHOOSE i \in filled : \A j \in filled : i >= j IN
            /\ popped' = buffer[i]
            /\ reads' = reads \cup {buffer[i]}
            /\ filled' = filled \ {i}
    /\ UNCHANGED <<buffer, meshHandler, arrived, kept>>

MeshNext ==
    \/ handleIncomingMeshMsg
    \/ setIncomingMeshMsgHandler
    \/ meshAvailable
    \/ readMeshMsg

MeshSpec == MeshInit /\ [][MeshNext]_meshVars

(* User code polls.                                                        *)
MeshFairSpec == MeshSpec /\ WF_meshVars(meshAvailable) /\ WF_meshVars(readMeshMsg)

------------------------------------------------------------------------------
(* Entries are filled inside the buffer (Mesh.cpp:48-66).                  *)
MeshTypeOK ==
    /\ buffer \in [Entries -> 0 .. MaxMessages]
    /\ filled \subseteq Entries
    /\ meshHandler \in BOOLEAN
    /\ arrived \in 0 .. MaxMessages
    /\ kept \subseteq 1 .. MaxMessages
    /\ popped \in 0 .. MaxMessages
    /\ reads \subseteq 1 .. MaxMessages
    /\ checked \in BOOLEAN

(* Every message bluenet was told is taken care of is in one entry, or was *)
(* read, and never both: no message is lost, overwritten or read twice.    *)
KeptOnce ==
    /\ MeshTypeOK
    /\ kept = reads \cup {buffer[i] : i \in filled}
    /\ \A i \in filled : buffer[i] \notin reads
    /\ \A i, j \in filled : buffer[i] = buffer[j] => i = j

(* "Check if a new message is available to read": readMeshMsg then gives   *)
(* one, whatever came in since (Mesh.h).                                   *)
ReadGetsMessage == [][readMeshMsg => popped' # popped /\ popped' \in kept]_meshVars

(* A microapp that goes on polling reads every message that was kept, once *)
(* no more come in.  (While they do, the ones in the first entries wait:   *)
(* readMeshMsg starts from the last.)                                      *)
AllRead == <>[][~handleIncomingMeshMsg]_meshVars => []<>(kept = reads)
=============================================================================
