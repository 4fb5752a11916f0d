------------------------------- MODULE BleAsync -------------------------------
(***************************************************************************)
(* BLE operations of a microapp in the central role: connect, disconnect,  *)
(* discoverService, and reading, writing and subscribing to a              *)
(* characteristic of the peripheral (BleDevice.cpp, BleCharacteristic.cpp).*)
(*                                                                         *)
(* Bluenet answers such a request at once, or says it is in progress and   *)
(* reports the result later, by an interrupt that handleCentralEvent       *)
(* (ArduinoBLE.cpp) handles.  Meanwhile the operation polls _asyncResult   *)
(* of the device or of the characteristic, between delays.  The event says *)
(* what kind of operation it is about, not which call.                     *)
(*                                                                         *)
(* Bluenet is external.  It works on one operation at a time and refuses   *)
(* others meanwhile, it does not know of timeouts of the microapp, the     *)
(* link may go down at any time, and any interrupt may be dropped.         *)
(***************************************************************************)
EXTENDS Integers, Sequences

CONSTANTS
    Timeouts,       \* timeouts of the calls, in rounds of MICROAPP_LOOP_INTERVAL_MS
    TriesWidth,     \* bits of the number of tries: 16 in the code
    HandlerOps,     \* the operations that handlers call
    MaxNesting      \* bound of the model: handlers that run on top of a call

ASSUME TimeoutsAssumption ==
    Timeouts \subseteq Nat /\ TriesWidth \in Nat \ {0} /\ MaxNesting \in Nat

None == "none"

DeviceOps         == {"connect", "disconnect", "discoverService"}
CharacteristicOps == {"writeValue", "readValue", "subscribe", "unsubscribe"}
Ops               == DeviceOps \cup CharacteristicOps

(* The object whose _asyncResult an operation waits for.                   *)
Object(op) == IF op \in DeviceOps THEN "device" ELSE "characteristic"

BleAsyncResults == {"NotWaiting", "Waiting", "Success", "Failure"}

VARIABLES
    running,        \* user code runs; otherwise bluenet does
    calls,          \* calls that wait, the innermost last: see Call
    asyncResult,    \* _asyncResult of the device and of the characteristic
    connected,      \* _flags.connected of the device
    discoveryDone,  \* _flags.discoveryDone of the device
    listed,         \* the characteristic: "never" found, "listed", or "unlisted" again
    reader,         \* whose buffer _value points to: a place in calls, 0 for no
                    \* buffer, NoReader for the buffer of a call that returned
    bluenet,        \* the link, the operation in progress, and for which call
    returned,       \* the call that just returned, and how
    misread         \* a value was copied to the buffer of a call that returned

device == <<connected, discoveryDone>>
vars   == <<running, calls, asyncResult, device, listed, reader, bluenet, returned, misread>>

NoReader == -1

(* outcome is what became of the request at bluenet; told is after how     *)
(* many rounds of waiting its event came in.                               *)
Call == [op : Ops \cup {"delay"}, ack : {None, "SUCCESS", "IN_PROGRESS", "ERROR"},
         timeout : Timeouts \cup {0}, waited : Nat, polling : BOOLEAN,
         outcome : {None, "done", "failed"}, told : Nat \cup {-1}]

Answers == {"true", "false", "timeout"}

NothingReturned == [call |-> None]

Innermost == calls[Len(calls)]
Outer     == SubSeq(calls, 1, Len(calls) - 1)

------------------------------------------------------------------------------
Init ==
    /\ running = TRUE
    /\ calls = <<>>
    /\ asyncResult = [o \in {"device", "characteristic"} |-> "NotWaiting"]
    /\ connected = FALSE
    /\ discoveryDone = FALSE
    /\ listed = "never"
    /\ reader = 0
    /\ bluenet = [connected |-> FALSE, busy |-> None, owner |-> 0]
    /\ returned = NothingReturned
    /\ misread = FALSE

(* What bluenet answers to the request of the call at place k, and what    *)
(* became of it by then.                                                   *)
Answered(op, ack, k) ==
    \/ ack = "ERROR" /\ UNCHANGED bluenet
    \/ /\ ack = "SUCCESS"
       /\ op \in {"connect", "writeValue", "subscribe", "unsubscribe"} => bluenet.connected
       /\ op = "disconnect" => ~bluenet.connected
       /\ op \notin {"discoverService", "readValue"}
       /\ UNCHANGED bluenet
    \/ /\ ack = "IN_PROGRESS"
       /\ bluenet.busy = None
       /\ bluenet.connected = (op # "connect")
       /\ bluenet' = [bluenet EXCEPT !.busy = op, !.owner = k]

(* The request of a call on top of others.  _asyncResult is set before the *)
(* request is sent.                                                        *)
Send(op, timeout, below) ==
    /\ asyncResult' = [asyncResult EXCEPT ![Object(op)] = "Waiting"]
    /\ \E ack \in {"SUCCESS", "IN_PROGRESS", "ERROR"} :
          /\ Answered(op, ack, Len(below) + 1)
          /\ calls' = Append(below,
                [op |-> op, ack |-> ack, timeout |-> timeout, waited |-> 0, polling |-> FALSE,
                 outcome |-> CASE ack = "SUCCESS" -> "done" [] ack = "ERROR" -> "failed"
                               [] OTHER -> None,
                 told |-> -1])
    /\ running' = FALSE
    /\ returned' = NothingReturned
    /\ UNCHANGED <<device, listed, misread>>

MayCall(op) == running /\ (calls = <<>> \/ op \in HandlerOps)

(* User code calls an operation that sends its request at once.            *)
Request(op) == MayCall(op) /\ \E timeout \in Timeouts : Send(op, timeout, calls)

(* User code waits before or without a request of an operation.            *)
WaitFirst(op, timeout) ==
    /\ calls' = Append(calls,
          [op |-> op, ack |-> None, timeout |-> timeout, waited |-> 0, polling |-> FALSE,
           outcome |-> None, told |-> -1])
    /\ running' = FALSE
    /\ returned' = NothingReturned
    /\ UNCHANGED <<asyncResult, device, listed, reader, bluenet, misread>>

(* connect registers the interrupt of the central and discoverService its  *)
(* uuid before the request, where that has not been done or the uuid has   *)
(* not 16 bits; each waits for bluenet's answer.                           *)
Prepare(op) == MayCall(op) /\ \E timeout \in Timeouts : WaitFirst(op, timeout)

connect ==
    /\ ~connected
    /\ Request("connect") \/ Prepare("connect")
    /\ UNCHANGED reader

discoverService ==
    /\ ~discoveryDone
    /\ Request("discoverService") \/ Prepare("discoverService")
    /\ UNCHANGED reader

disconnect == connected /\ Request("disconnect") /\ UNCHANGED reader

(* A characteristic that was found once can be used ever after.            *)
writeValue  == listed # "never" /\ Request("writeValue") /\ UNCHANGED reader
subscribe   == listed # "never" /\ Request("subscribe") /\ UNCHANGED reader
unsubscribe == listed # "never" /\ Request("unsubscribe") /\ UNCHANGED reader

(* readValue leaves its caller's buffer in _value.                         *)
readValue == listed # "never" /\ Request("readValue") /\ reader' = Len(calls) + 1

(* User code waits for something else.                                     *)
delay == running /\ WaitFirst("delay", 0)

------------------------------------------------------------------------------
(* Bluenet gives control back to the innermost call.                       *)

Resumes == ~running /\ calls # <<>>

Return(answer) ==
    /\ calls' = Outer
    /\ running' = TRUE
    /\ returned' = [call |-> Innermost, answer |-> answer]
    /\ bluenet' = IF bluenet.owner = Len(calls) THEN [bluenet EXCEPT !.owner = 0] ELSE bluenet
    /\ reader' = IF reader = Len(calls) THEN NoReader ELSE reader

(* int16_t tries = timeout / MICROAPP_LOOP_INTERVAL_MS                     *)
Tries(timeout) ==
    LET n == timeout % 2 ^ TriesWidth IN
    IF n < 2 ^ (TriesWidth - 1) THEN n ELSE n - 2 ^ TriesWidth

(* The head of the loop of waitForAsyncResult, after waited delays.        *)
Poll(waited) ==
    LET o == Object(Innermost.op) IN
    IF asyncResult[o] = "Waiting"
    THEN /\ calls' = [calls EXCEPT ![Len(calls)] = [@ EXCEPT !.polling = TRUE, !.waited = waited]]
         /\ UNCHANGED <<running, asyncResult, reader, bluenet, returned>>
    ELSE /\ asyncResult' = [asyncResult EXCEPT ![o] = "NotWaiting"]
         /\ Return(IF asyncResult[o] = "Failure" THEN "false" ELSE "true")

(* The request has been answered.                                          *)
(* Mutant: _asyncResult is set after the request was sent.                 *)
RequestReturnsWaiting ==
    /\ Resumes
    /\ Innermost.ack # None
    /\ ~Innermost.polling
    /\ IF Innermost.ack = "IN_PROGRESS"
       THEN /\ asyncResult' = [asyncResult EXCEPT ![Object(Innermost.op)] = "Waiting"]
            /\ calls' = [calls EXCEPT ![Len(calls)].polling = TRUE]
            /\ UNCHANGED <<running, reader, bluenet, returned>>
       ELSE /\ asyncResult' = [asyncResult EXCEPT ![Object(Innermost.op)] = "NotWaiting"]
            /\ Return(IF Innermost.ack = "SUCCESS" THEN "true" ELSE "false")
    /\ UNCHANGED <<device, listed, misread>>

RequestReturns ==
    /\ Resumes
    /\ Innermost.ack # None
    /\ ~Innermost.polling
    /\ IF Innermost.ack = "IN_PROGRESS"
       THEN Poll(0)
       ELSE /\ asyncResult' = [asyncResult EXCEPT ![Object(Innermost.op)] = "NotWaiting"]
            /\ Return(IF Innermost.ack = "SUCCESS" THEN "true" ELSE "false")
    /\ UNCHANGED <<device, listed, misread>>

(* A delay of waitForAsyncResult is over: no tries left is a timeout, and  *)
(* leaves _asyncResult as it is.                                           *)
(* Mutants: tries are not counted; one too few.                            *)
RoundReturnsUncounted ==
    /\ Resumes
    /\ Innermost.polling
    /\ Poll(Innermost.waited)
    /\ UNCHANGED <<device, listed, misread>>

RoundReturnsEarly ==
    /\ Resumes
    /\ Innermost.polling
    /\ IF Tries(Innermost.timeout) - (Innermost.waited + 1) <= 1
       THEN Return("timeout") /\ UNCHANGED asyncResult
       ELSE Poll(Innermost.waited + 1)
    /\ UNCHANGED <<device, listed, misread>>

RoundReturns ==
    /\ Resumes
    /\ Innermost.polling
    /\ IF Tries(Innermost.timeout) - (Innermost.waited + 1) <= 0
       THEN Return("timeout") /\ UNCHANGED asyncResult
       ELSE Poll(Innermost.waited + 1)
    /\ UNCHANGED <<device, listed, misread>>

(* What connect or discoverService waited for before its request was       *)
(* refused, or the request is sent now: whether the device is connected or *)
(* discovered is not looked at again.                                      *)
Prepared ==
    /\ Resumes
    /\ Innermost.op # "delay"
    /\ Innermost.ack = None
    /\ \/ /\ Return("false")
          /\ UNCHANGED <<asyncResult, device, listed, misread>>
       \/ /\ Send(Innermost.op, Innermost.timeout, Outer)
          /\ UNCHANGED reader

delayReturns ==
    /\ Resumes
    /\ Innermost.op = "delay"
    /\ calls' = Outer
    /\ running' = TRUE
    /\ UNCHANGED <<asyncResult, device, listed, reader, bluenet, returned, misread>>

------------------------------------------------------------------------------
(* Interrupts, while a call waits.                                         *)

Interrupted == ~running /\ calls # <<>> /\ UNCHANGED <<running, returned>>

(* The operation in progress came to an end, and the event about it is     *)
(* handled, or lost on the way.                                            *)
Ends(outcome, link, delivered) ==
    /\ bluenet' = [connected |-> link, busy |-> None, owner |-> 0]
    /\ calls' = IF bluenet.owner = 0 THEN calls
                ELSE LET c == calls[bluenet.owner] IN
                     [calls EXCEPT ![bluenet.owner] =
                         [c EXCEPT !.outcome = outcome, !.told = IF delivered THEN c.waited ELSE -1]]

SetResult(object, r) == asyncResult' = [asyncResult EXCEPT ![object] = r]

Lost == UNCHANGED <<asyncResult, device, listed, reader, misread>>

(* Mutant: a result of failure is not looked at.                           *)
onConnectUnchecked ==
    /\ Interrupted
    /\ bluenet.busy = "connect"
    /\ \/ \E outcome \in {"done", "failed"} :
             /\ Ends(outcome, outcome = "done", TRUE)
             /\ connected' = TRUE
             /\ SetResult("device", "Success")
             /\ UNCHANGED <<discoveryDone, listed, reader, misread>>
       \/ Ends("done", TRUE, FALSE) /\ Lost
       \/ Ends("failed", FALSE, FALSE) /\ Lost

onConnect ==
    /\ Interrupted
    /\ bluenet.busy = "connect"
    /\ \/ /\ Ends("done", TRUE, TRUE)
          /\ connected' = TRUE
          /\ SetResult("device", "Success")
          /\ UNCHANGED <<discoveryDone, listed, reader, misread>>
       \/ /\ Ends("failed", FALSE, TRUE)
          /\ SetResult("device", "Failure")
          /\ UNCHANGED <<device, listed, reader, misread>>
       \/ Ends("done", TRUE, FALSE) /\ Lost
       \/ Ends("failed", FALSE, FALSE) /\ Lost

(* BleDevice::onDisconnect and the tables of Ble.                          *)
Disconnected ==
    /\ connected' = FALSE
    /\ discoveryDone' = FALSE
    /\ listed' = IF listed = "listed" THEN "unlisted" ELSE listed
    /\ SetResult("device", "Success")
    /\ UNCHANGED <<reader, misread>>

(* The link goes down as asked, or by itself, and ends no other operation. *)
onDisconnect ==
    /\ Interrupted
    /\ bluenet.connected
    /\ \/ bluenet.busy = "disconnect" /\ Ends("done", FALSE, TRUE) /\ Disconnected
       \/ bluenet.busy = "disconnect" /\ Ends("done", FALSE, FALSE) /\ Lost
       \/ /\ bluenet.busy # "disconnect"
          /\ bluenet' = [bluenet EXCEPT !.connected = FALSE]
          /\ UNCHANGED calls
          /\ Disconnected \/ Lost

(* EVENT_DISCOVER: the characteristic is written in the tables anew.       *)
onDiscover ==
    /\ Interrupted
    /\ bluenet.busy = "discoverService"
    /\ bluenet.connected
    /\ listed # "listed"
    /\ listed' = "listed"
    /\ SetResult("characteristic", "NotWaiting")
    /\ reader' = 0
    /\ UNCHANGED <<calls, bluenet, device, misread>>

onDiscoverDone ==
    /\ Interrupted
    /\ bluenet.busy = "discoverService"
    /\ \/ /\ bluenet.connected
          /\ Ends("done", TRUE, TRUE)
          /\ discoveryDone' = TRUE
          /\ SetResult("device", "Success")
          /\ UNCHANGED <<connected, listed, reader, misread>>
       \/ /\ Ends("failed", bluenet.connected, TRUE)
          /\ SetResult("device", "Failure")
          /\ UNCHANGED <<device, listed, reader, misread>>
       \/ bluenet.connected /\ Ends("done", TRUE, FALSE) /\ Lost
       \/ Ends("failed", bluenet.connected, FALSE) /\ Lost

(* EVENT_WRITE and EVENT_READ: getCharacteristic must find the             *)
(* characteristic; otherwise the event has no effect.  A value that was    *)
(* read is copied to the buffer in _value.                                 *)
(* Mutant: a result of failure is not looked at.                           *)
onCharacteristicEventUnchecked ==
    /\ Interrupted
    /\ bluenet.busy \in CharacteristicOps
    /\ \/ /\ listed = "listed"
          /\ \E outcome \in {"done", "failed"} :
                /\ outcome = "done" => bluenet.connected
                /\ Ends(outcome, bluenet.connected, TRUE)
          /\ SetResult("characteristic", "Success")
          /\ misread' = (misread \/ (bluenet.busy = "readValue" /\ reader = NoReader))
          /\ UNCHANGED <<device, listed, reader>>
       \/ \E outcome \in {"done", "failed"} :
             /\ outcome = "done" => bluenet.connected
             /\ Ends(outcome, bluenet.connected, FALSE)
             /\ Lost

onCharacteristicEvent ==
    /\ Interrupted
    /\ bluenet.busy \in CharacteristicOps
    /\ \/ /\ listed = "listed"
          /\ bluenet.connected
          /\ Ends("done", TRUE, TRUE)
          /\ SetResult("characteristic", "Success")
          /\ misread' = (misread \/ (bluenet.busy = "readValue" /\ reader = NoReader))
          /\ UNCHANGED <<device, listed, reader>>
       \/ /\ listed = "listed"
          /\ Ends("failed", bluenet.connected, TRUE)
          /\ SetResult("characteristic", "Failure")
          /\ UNCHANGED <<device, listed, reader, misread>>
       \/ bluenet.connected /\ Ends("done", TRUE, FALSE) /\ Lost
       \/ Ends("failed", bluenet.connected, FALSE) /\ Lost

(* Any interrupt whose handler is user code; also that of the events above *)
(* after the library has handled them.                                     *)
Handler ==
    /\ ~running
    /\ calls # <<>>
    /\ Len(calls) <= MaxNesting
    /\ running' = TRUE
    /\ UNCHANGED <<calls, asyncResult, device, listed, reader, bluenet, returned, misread>>

HandlerReturns ==
    /\ running
    /\ calls # <<>>
    /\ running' = FALSE
    /\ returned' = NothingReturned
    /\ UNCHANGED <<calls, asyncResult, device, listed, reader, bluenet, misread>>

------------------------------------------------------------------------------
Operation ==
    \/ connect
    \/ disconnect
    \/ discoverService
    \/ writeValue
    \/ readValue
    \/ subscribe
    \/ unsubscribe

Resume == RequestReturns \/ RoundReturns \/ delayReturns \/ Prepared

Event == onConnect \/ onDisconnect \/ onDiscover \/ onDiscoverDone \/ onCharacteristicEvent

Next ==
    \/ Operation
    \/ delay
    \/ Resume
    \/ Event
    \/ Handler
    \/ HandlerReturns

Spec == Init /\ [][Next]_vars

(* Bluenet ticks, and a tick resumes the microapp.  A handler that gets    *)
(* the processor again and again returns.                                  *)
FairSpec == Spec /\ WF_vars(Resume) /\ SF_vars(HandlerReturns)
------------------------------------------------------------------------------
(* Properties.                                                             *)

(* _value refers to a call that is there.                                  *)
TypeOK ==
    /\ running \in BOOLEAN
    /\ calls \in Seq(Call)
    /\ asyncResult \in [{"device", "characteristic"} -> BleAsyncResults]
    /\ connected \in BOOLEAN
    /\ discoveryDone \in BOOLEAN
    /\ listed \in {"never", "listed", "unlisted"}
    /\ reader \in {NoReader} \cup 0 .. Len(calls)
    /\ bluenet \in [connected : BOOLEAN, busy : Ops \cup {None}, owner : 0 .. Len(calls)]
    /\ returned # NothingReturned => returned \in [call : Call, answer : Answers]
    /\ misread \in BOOLEAN

(* A call of one of these operations that returned true was carried out.   *)
TrueMeansDone(ops) ==
    returned # NothingReturned /\ returned.call.op \in ops /\ returned.answer = "true"
        => returned.call.outcome = "done"

(* connect and disconnect: although a result may belong to an earlier call *)
(* that timed out, and the link goes down by itself, what they return is   *)
(* so (BleDevice.h).                                                       *)
ConnectionResultTrue == TrueMeansDone({"connect", "disconnect"})

(* discoverService: "@return true if successful" (BleDevice.h).            *)
DiscoveryResultTrue == TrueMeansDone({"discoverService"})

(* Characteristics: success is returned "if event was received with        *)
(* success" (BleCharacteristic.h), although four operations wait for one   *)
(* variable.                                                               *)
CharacteristicResultTrue == TrueMeansDone(CharacteristicOps)

(* An event that comes in while its call waits is noticed, also when it    *)
(* comes before sendMessage returned; only during the last delay of a call *)
(* it may come too late (waitForAsyncResult).                              *)
EarlyResultNoticed ==
    returned # NothingReturned /\ returned.answer = "timeout" /\ returned.call.told >= 0
        => returned.call.told = returned.call.waited

(* A call waits for its timeout, no longer and no shorter: one that waits  *)
(* has not used it up, and one that timed out has, with the delays it      *)
(* counted and the last one (waitForAsyncResult).                          *)
TimeoutKept ==
    /\ TypeOK
    /\ \A i \in DOMAIN calls : calls[i].waited < calls[i].timeout \/ calls[i].waited = 0
    /\ returned # NothingReturned /\ returned.answer = "timeout"
           => returned.call.waited + 1 >= returned.call.timeout

(* A value that was read is not written where a call that gave up had its  *)
(* buffer ("Reads value from a remote characteristic [...] and waits for   *)
(* READ event back", BleCharacteristic.h).                                 *)
ReadsIntoOwnBuffer == ~misread

(* Every call returns, whatever becomes of its event, once no more         *)
(* handlers run on top of it (waitForAsyncResult).                         *)
CallsReturn == <>[][~Handler]_vars => []<>(calls = <<>>)
=============================================================================
