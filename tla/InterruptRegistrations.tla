------------------------ MODULE InterruptRegistrations ------------------------
(***************************************************************************)
(* Who is called when bluenet interrupts the microapp.                     *)
(*                                                                         *)
(*   microapp.c           the table of local registrations                 *)
(*   Arduino.c            attachInterrupt                                  *)
(*   Mesh.cpp             listen                                           *)
(*   Message.cpp          begin                                            *)
(*   BluenetInternal.cpp  setEventHandler, subscribe                       *)
(*   ArduinoBLE.cpp       begin, end, setEventHandler, scan, scanFor...,   *)
(*                        stopScan, addService and the registrations       *)
(*   BleDevice.cpp        connect                                          *)
(*   BleCharacteristic.cpp                                                 *)
(*                        setEventHandler                                  *)
(*                                                                         *)
(* What connect and addService do once the interrupt is registered is in   *)
(* BleAsync and LocalServices; here it is one more request.                *)
(*                                                                         *)
(* Each of these reads a flag or a table, sends bluenet a request, and     *)
(* writes the flag or the table when it gets control back.  While it waits *)
(* an interrupt may come in, whose handler may call any of them again.     *)
(* MicroappIpc says how that nesting works; here it is a stack of calls    *)
(* that wait in sendMessage, each with the answer bluenet already gave it. *)
(***************************************************************************)
EXTENDS Naturals, Sequences, FiniteSets

CONSTANTS
    Pins,                                \* pins to attach an interrupt to
    BluenetTypes,                        \* bluenet events to subscribe to
    EventTypes,                          \* BLE events that may have a handler
    UserCalls,                           \* the calls user code makes
    Careful,                             \* see subscribe, BleEnd, stopScan
    MAX_INTERRUPT_REGISTRATIONS,
    MAX_SUBSCRIPTIONS,
    MAX_BLE_EVENT_HANDLER_REGISTRATIONS,
    MaxNesting                           \* interrupts that may be nested

BleTypes   == {"BLE_SCAN", "BLE_CENTRAL", "BLE_PERIPHERAL"}
OtherTypes == {"MESH_READ", "MSG_EVENT", "BLUENET_EVENT"}
Keys       == Pins \cup OtherTypes \cup BleTypes

(* The handlers for events of Ble, and of local and remote characteristics. *)
DeviceEvents == {"BLEDeviceScanned", "BLEConnected", "BLEDisconnected"}
LocalEvents  == {"BLESubscribed", "BLEUnsubscribed", "BLEWritten"}
RemoteEvents == {"BLENotification"}

None == "none"

ASSUME SizesAssumption ==
    /\ MAX_INTERRUPT_REGISTRATIONS \in Nat \ {0}
    /\ MAX_SUBSCRIPTIONS \in Nat \ {0}
    /\ MAX_BLE_EVENT_HANDLER_REGISTRATIONS \in Nat \ {0}
    /\ MaxNesting \in Nat

ASSUME NamesAssumption ==
    /\ None \notin Pins \cup BluenetTypes
    /\ Pins \cap (OtherTypes \cup BleTypes) = {}
    /\ EventTypes \subseteq DeviceEvents \cup LocalEvents \cup RemoteEvents
    /\ Careful \in BOOLEAN

VARIABLES
    linked,         \* checkRamData succeeds
    running,        \* user code runs; otherwise bluenet does
    calls,          \* calls that wait in sendMessage, the innermost last
    table,          \* interruptRegistrations: the key of each slot, or None
    flags,          \* _registeredInterrupt, registered...Interrupts, by key
    handlers,       \* _bleEventHandlerRegistration: the type of each slot
    subscribed,     \* _subscribedTypes
    initialized,    \* Ble._flags.initialized
    isScanning,     \* Ble._flags.isScanning
    bluenet         \* what bluenet has agreed to

local == <<table, flags, handlers, subscribed, initialized, isScanning>>
vars  == <<linked, running, calls, local, bluenet>>

Slots == 1 .. MAX_INTERRUPT_REGISTRATIONS

(* A request bluenet has seen: on behalf of which call, for which key or   *)
(* event type, the event type setEventHandler is busy with, the slot       *)
(* subscribe has chosen, and header.ack.  An "other" request, of yield,    *)
(* connect or addService, changes nothing here.                            *)
Requests == {"attachInterrupt", "listen", "Message.begin", "subscribe", "registerBle",
             "BLE.begin", "filter", "start", "stop", "other"}

Pending == [request : Requests, arg : Keys \cup BluenetTypes \cup {None},
            event : EventTypes \cup {None}, slot : 0 .. MAX_SUBSCRIPTIONS,
            ack : {"SUCCESS", "ERROR"}]

------------------------------------------------------------------------------
(* Tables, whose slots are searched from the first.                        *)

First(S) == CHOOSE i \in S : \A j \in S : i <= j

Holding(t, x) == {i \in DOMAIN t : t[i] = x}

registerInterrupt(k) == [table EXCEPT ![First(Holding(table, None))] = k]

HasRoom == Holding(table, None) # {}

(* Mutants: every registration of the key is removed; none is.             *)
removeAllRegistrations(t, k) == [i \in DOMAIN t |-> IF t[i] = k THEN None ELSE t[i]]
removeNoRegistration(t, k) == t

removeInterruptRegistration(t, k) ==
    IF k = None \/ Holding(t, k) = {} THEN t ELSE [t EXCEPT ![First(Holding(t, k))] = None]

registerBleEventHandler(e) == [handlers EXCEPT ![First(Holding(handlers, None))] = e]

(* Mutant: nothing is removed.                                             *)
keepBleEventHandlerRegistration(h, e) == h

removeBleEventHandlerRegistration(h, e) == removeInterruptRegistration(h, e)

------------------------------------------------------------------------------
(* sendMessage.                                                            *)

Innermost == calls[Len(calls)]
Outer     == SubSeq(calls, 1, Len(calls) - 1)

(* What bluenet has agreed to once it answered a request with success.     *)
Agreed(request, arg) ==
    CASE request \in {"attachInterrupt", "listen", "Message.begin", "registerBle"} ->
            [bluenet EXCEPT !.registered = @ \cup {arg}]
      [] request = "subscribe" -> [bluenet EXCEPT !.subscribed = @ \cup {arg}]
      [] request = "start" -> [bluenet EXCEPT !.scanning = TRUE]
      [] request = "stop" -> [bluenet EXCEPT !.scanning = FALSE]
      [] OTHER -> bluenet

(* The request is answered, and the call waits on top of the outer ones.   *)
Send(outer, request, arg, event, slot) ==
    /\ linked
    /\ running' = FALSE
    /\ \E ack \in {"SUCCESS", "ERROR"} :
          /\ calls' = Append(outer, [request |-> request, arg |-> arg, event |-> event,
                                     slot |-> slot, ack |-> ack])
          /\ bluenet' = IF ack = "SUCCESS" THEN Agreed(request, arg) ELSE bluenet

(* sendMessage fails at once, and the call it was made for returns.        *)
SendFails(outer) == ~linked /\ running' = TRUE /\ calls' = outer /\ UNCHANGED bluenet

(* The call returns to user code without sending anything (more).          *)
Returns(outer) == running' = TRUE /\ calls' = outer /\ UNCHANGED bluenet

UserCall(name) == running /\ name \in UserCalls /\ UNCHANGED linked

Waiting(request) == {i \in 1 .. Len(calls) : calls[i].request = request}

(* Control comes back to the innermost call.                               *)
Resumes(request) ==
    /\ ~running
    /\ calls # <<>>
    /\ Innermost.request = request
    /\ UNCHANGED linked

------------------------------------------------------------------------------
Init ==
    /\ linked \in BOOLEAN
    /\ running = TRUE
    /\ calls = <<>>
    /\ table = [i \in Slots |-> None]
    /\ flags = {}
    /\ handlers = [i \in 1 .. MAX_BLE_EVENT_HANDLER_REGISTRATIONS |-> None]
    /\ subscribed = [i \in 1 .. MAX_SUBSCRIPTIONS |-> None]
    /\ initialized = FALSE
    /\ isScanning = FALSE
    /\ bluenet = [registered |-> {}, subscribed |-> {}, scanning |-> FALSE]

(* attachInterrupt looks at what sendMessage returns, not at header.ack:   *)
(* it only notices that nothing was sent.                                  *)
attachInterrupt(p) ==
    /\ UserCall("attachInterrupt")
    /\ HasRoom
    /\ \/ Send(calls, "attachInterrupt", p, None, 0) /\ table' = registerInterrupt(p)
       \/ SendFails(calls) /\ table' = removeInterruptRegistration(registerInterrupt(p), p)
    /\ UNCHANGED <<flags, handlers, subscribed, initialized, isScanning>>

attachInterruptResumes ==
    /\ Resumes("attachInterrupt")
    /\ Returns(Outer)
    /\ UNCHANGED local

(* Mesh.listen registers again each time, and leaves its registration when *)
(* bluenet refuses.                                                        *)
listen ==
    /\ UserCall("listen")
    /\ HasRoom
    /\ Send(calls, "listen", "MESH_READ", None, 0) \/ SendFails(calls)
    /\ table' = registerInterrupt("MESH_READ")
    /\ UNCHANGED <<flags, handlers, subscribed, initialized, isScanning>>

listenResumes ==
    /\ Resumes("listen")
    /\ Returns(Outer)
    /\ UNCHANGED local

(* Message.begin: once, unless the message cannot be sent.                 *)
MessageBegin ==
    /\ UserCall("Message.begin")
    /\ "MSG_EVENT" \notin flags
    /\ HasRoom
    /\ Send(calls, "Message.begin", "MSG_EVENT", None, 0) \/ SendFails(calls)
    /\ table' = registerInterrupt("MSG_EVENT")
    /\ UNCHANGED <<flags, handlers, subscribed, initialized, isScanning>>

MessageBeginResumes ==
    /\ Resumes("Message.begin")
    /\ flags' = flags \cup {"MSG_EVENT"}
    /\ Returns(Outer)
    /\ UNCHANGED <<table, handlers, subscribed, initialized, isScanning>>

(* BluenetInternal.setEventHandler sends nothing.                          *)
setBluenetEventHandler ==
    /\ UserCall("setBluenetEventHandler")
    /\ "BLUENET_EVENT" \notin flags
    /\ HasRoom
    /\ table' = registerInterrupt("BLUENET_EVENT")
    /\ flags' = flags \cup {"BLUENET_EVENT"}
    /\ Returns(calls)
    /\ UNCHANGED <<handlers, subscribed, initialized, isScanning>>

(* Mutant: when no slot is empty the last one is taken.                    *)
subscribeWhenFull(type) ==
    /\ UserCall("subscribe")
    /\ Careful => Waiting("subscribe") = {}
    /\ Holding(subscribed, type) = {}
    /\ LET slots == Holding(subscribed, None) \cup {MAX_SUBSCRIPTIONS} IN
       Send(calls, "subscribe", type, None, First(slots)) \/ SendFails(calls)
    /\ UNCHANGED local

(* BluenetInternal.subscribe chooses an empty slot, and writes in it after *)
(* sendMessage.  A handler of a careful user does not subscribe while a    *)
(* subscribe waits.                                                        *)
subscribe(type) ==
    /\ UserCall("subscribe")
    /\ Careful => Waiting("subscribe") = {}
    /\ Holding(subscribed, type) = {}
    /\ Holding(subscribed, None) # {}
    /\ \/ Send(calls, "subscribe", type, None, First(Holding(subscribed, None)))
       \/ SendFails(calls)
    /\ UNCHANGED local

subscribeResumes ==
    /\ Resumes("subscribe")
    /\ subscribed' = [subscribed EXCEPT ![Innermost.slot] = Innermost.arg]
    /\ Returns(Outer)
    /\ UNCHANGED <<table, flags, handlers, initialized, isScanning>>

------------------------------------------------------------------------------
(* ArduinoBLE.cpp.  Nothing is sent before begin() succeeded but the       *)
(* registrations of setEventHandler.                                       *)

BleBegin ==
    /\ UserCall("BLE.begin")
    /\ Send(calls, "BLE.begin", None, None, 0) \/ SendFails(calls)
    /\ UNCHANGED local

BleBeginResumes ==
    /\ Resumes("BLE.begin")
    /\ initialized' = (initialized \/ Innermost.ack = "SUCCESS")
    /\ Returns(Outer)
    /\ UNCHANGED <<table, flags, handlers, subscribed, isScanning>>

(* The registrations stay, here and at bluenet, and so does a scan at      *)
(* bluenet.  A careful user stops the scan first.                          *)
BleEnd ==
    /\ UserCall("BLE.end")
    /\ Careful => ~isScanning
    /\ initialized' = FALSE
    /\ isScanning' = FALSE
    /\ flags' = flags \ BleTypes
    /\ Returns(calls)
    /\ UNCHANGED <<table, handlers, subscribed>>

(* registerBleInterrupt up to sendMessage, for setEventHandler(event) or,  *)
(* with event None, for scan, connect or addService; h is the table of     *)
(* event handlers by then.  When it fails, setEventHandler takes its       *)
(* handler back.                                                           *)
registerBleInterrupt(outer, type, event, h) ==
    \/ /\ HasRoom
       /\ Send(outer, "registerBle", type, event, 0)
       /\ table' = registerInterrupt(type)
       /\ handlers' = h
    \/ /\ IF HasRoom
          THEN /\ SendFails(outer)
               /\ table' = removeInterruptRegistration(registerInterrupt(type), type)
          ELSE Returns(outer) /\ UNCHANGED table
       /\ handlers' = removeBleEventHandlerRegistration(h, event)

BleTypesFor(event) ==
    CASE event = "BLEDeviceScanned" -> <<"BLE_SCAN">>
      [] event \in {"BLEConnected", "BLEDisconnected"} -> <<"BLE_CENTRAL", "BLE_PERIPHERAL">>
      [] event \in LocalEvents -> <<"BLE_PERIPHERAL">>
      [] event \in RemoteEvents -> <<"BLE_CENTRAL">>

TypesAfter(type, event) ==
    IF type = "BLE_CENTRAL" /\ event \in DeviceEvents THEN <<"BLE_PERIPHERAL">> ELSE <<>>

(* setEventHandler registers the first of these types that has no flag.    *)
RegisterMissing(outer, types, event, h) ==
    LET missing == {i \in DOMAIN types : types[i] \notin flags} IN
    IF missing = {}
    THEN Returns(outer) /\ handlers' = h /\ UNCHANGED table
    ELSE registerBleInterrupt(outer, types[First(missing)], event, h)

AddEventHandler(e) ==
    /\ Holding(handlers, e) = {}
    /\ Holding(handlers, None) # {}
    /\ RegisterMissing(calls, BleTypesFor(e), e, registerBleEventHandler(e))
    /\ UNCHANGED <<flags, subscribed, initialized, isScanning>>

setEventHandler(e) ==
    /\ UserCall("setEventHandler")
    /\ e \in DeviceEvents
    /\ AddEventHandler(e)

(* BleCharacteristic::setEventHandler.  A remote characteristic was found  *)
(* on a link, for which connect registered the central type.               *)
setCharacteristicEventHandler(e) ==
    /\ UserCall("setCharacteristicEventHandler")
    /\ \/ e \in LocalEvents
       \/ e \in RemoteEvents /\ "BLE_CENTRAL" \in bluenet.registered
    /\ AddEventHandler(e)

(* BleDevice::connect and Ble::addService: with the interrupt registered,  *)
(* they go on.  A device to connect to comes from a scan.                  *)
RegisterAndGoOn(type) ==
    /\ IF type \in flags
       THEN Send(calls, "other", None, None, 0) /\ UNCHANGED <<table, handlers>>
       ELSE registerBleInterrupt(calls, type, None, handlers)
    /\ UNCHANGED <<flags, subscribed, initialized, isScanning>>

connect ==
    /\ UserCall("connect")
    /\ "BLE_SCAN" \in bluenet.registered
    /\ RegisterAndGoOn("BLE_CENTRAL")

addService ==
    /\ UserCall("addService")
    /\ initialized
    /\ RegisterAndGoOn("BLE_PERIPHERAL")

(* scan, for itself or after a filter was set.                             *)
Scan(outer) ==
    IF ~initialized \/ isScanning THEN Returns(outer) /\ UNCHANGED <<table, handlers>>
    ELSE IF "BLE_SCAN" \in flags
    THEN Send(outer, "start", None, None, 0) /\ UNCHANGED <<table, handlers>>
    ELSE registerBleInterrupt(outer, "BLE_SCAN", None, handlers)

scan ==
    /\ UserCall("scan")
    /\ Scan(calls)
    /\ UNCHANGED <<flags, subscribed, initialized, isScanning>>

(* scanForName, scanForAddress and scanForUuid.                            *)
scanFor ==
    /\ UserCall("scanFor")
    /\ initialized
    /\ Send(calls, "filter", None, None, 0)
    /\ UNCHANGED local

filterResumes ==
    /\ Resumes("filter")
    /\ Scan(Outer)
    /\ UNCHANGED <<flags, subscribed, initialized, isScanning>>

(* registerBleInterrupt after sendMessage, and what comes after it: the    *)
(* peripheral type after the central one, or the request of scan, connect  *)
(* or addService.                                                          *)
GoesOn(type) ==
    /\ Send(Outer, IF type = "BLE_SCAN" THEN "start" ELSE "other", None, None, 0)
    /\ UNCHANGED <<table, handlers>>

registerBleResumes ==
    /\ Resumes("registerBle")
    /\ LET c == Innermost IN
       IF c.ack = "ERROR"
       THEN /\ table' = removeInterruptRegistration(table, c.arg)
            /\ handlers' = removeBleEventHandlerRegistration(handlers, c.event)
            /\ Returns(Outer)
            /\ UNCHANGED flags
       ELSE /\ flags' = flags \cup {c.arg}
            /\ IF c.event = None
               THEN GoesOn(c.arg)
               ELSE RegisterMissing(Outer, TypesAfter(c.arg, c.event), c.event, handlers)
    /\ UNCHANGED <<subscribed, initialized, isScanning>>

(* Mutant: what bluenet answers is not looked at.                          *)
startResumesAnyway ==
    /\ Resumes("start")
    /\ isScanning' = TRUE
    /\ Returns(Outer)
    /\ UNCHANGED <<table, flags, handlers, subscribed, initialized>>

startResumes ==
    /\ Resumes("start")
    /\ isScanning' = (isScanning \/ Innermost.ack = "SUCCESS")
    /\ Returns(Outer)
    /\ UNCHANGED <<table, flags, handlers, subscribed, initialized>>

(* A handler of a careful user does not stop a scan that is being started  *)
(* or stopped.                                                             *)
stopScan ==
    /\ UserCall("stopScan")
    /\ Careful => Waiting("start") \cup Waiting("stop") = {}
    /\ initialized
    /\ isScanning
    /\ Send(calls, "stop", None, None, 0)
    /\ UNCHANGED local

stopResumes ==
    /\ Resumes("stop")
    /\ isScanning' = (isScanning /\ Innermost.ack # "SUCCESS")
    /\ Returns(Outer)
    /\ UNCHANGED <<table, flags, handlers, subscribed, initialized>>

------------------------------------------------------------------------------
(* Yields, interrupts and the rest of user code.                           *)

yield ==
    /\ UserCall("yield")
    /\ Send(calls, "other", None, None, 0)
    /\ UNCHANGED local

otherResumes ==
    /\ Resumes("other")
    /\ Returns(Outer)
    /\ UNCHANGED local

(* Interrupts bluenet may generate, and those that end up in user code:    *)
(* callInterrupt finds the registration, and the library's own handler a   *)
(* handler of the user.                                                    *)
Generated ==
    bluenet.registered \cup (IF bluenet.subscribed = {} THEN {} ELSE {"BLUENET_EVENT"})

callInterrupt(k) ==
    /\ Holding(table, k) # {}
    /\ k = "BLE_SCAN" => isScanning /\ Holding(handlers, "BLEDeviceScanned") # {}
    /\ k \in {"BLE_CENTRAL", "BLE_PERIPHERAL"} =>
          \E e \in EventTypes \ {"BLEDeviceScanned"} :
              /\ Holding(handlers, e) # {}
              /\ \E i \in DOMAIN BleTypesFor(e) : BleTypesFor(e)[i] = k

Interrupt ==
    /\ ~running
    /\ Len(calls) <= MaxNesting
    /\ \E k \in Generated : callInterrupt(k)
    /\ running' = TRUE
    /\ UNCHANGED <<linked, calls, local, bluenet>>

HandlerReturns ==
    /\ running
    /\ calls # <<>>
    /\ running' = FALSE
    /\ UNCHANGED <<linked, calls, local, bluenet>>

------------------------------------------------------------------------------
Calls ==
    \/ \E p \in Pins : attachInterrupt(p)
    \/ listen
    \/ MessageBegin
    \/ setBluenetEventHandler
    \/ \E type \in BluenetTypes : subscribe(type)
    \/ BleBegin
    \/ BleEnd
    \/ \E e \in EventTypes : setEventHandler(e) \/ setCharacteristicEventHandler(e)
    \/ connect
    \/ addService
    \/ scan
    \/ scanFor
    \/ stopScan
    \/ yield

Resumptions ==
    \/ attachInterruptResumes
    \/ listenResumes
    \/ MessageBeginResumes
    \/ subscribeResumes
    \/ BleBeginResumes
    \/ registerBleResumes
    \/ filterResumes
    \/ startResumes
    \/ stopResumes
    \/ otherResumes

Next == Calls \/ Resumptions \/ Interrupt \/ HandlerReturns

Spec == Init /\ [][Next]_vars

------------------------------------------------------------------------------
(* Properties.                                                             *)

(* Tables hold keys, and a call that waits names a slot there is.          *)
TypeOK ==
    /\ linked \in BOOLEAN
    /\ running \in BOOLEAN
    /\ calls \in Seq(Pending)
    /\ table \in [Slots -> Keys \cup {None}]
    /\ flags \subseteq Keys
    /\ handlers \in [1 .. MAX_BLE_EVENT_HANDLER_REGISTRATIONS -> EventTypes \cup {None}]
    /\ subscribed \in [1 .. MAX_SUBSCRIPTIONS -> BluenetTypes \cup {None}]
    /\ initialized \in BOOLEAN
    /\ isScanning \in BOOLEAN
    /\ bluenet \in [registered : SUBSET Keys, subscribed : SUBSET BluenetTypes, scanning : BOOLEAN]

(* Whatever bluenet was asked to interrupt for finds a registration, also  *)
(* when a nested call for the same key was refused, and removed one        *)
(* (ArduinoBLE.cpp:747-755, microapp.c:270-281).                           *)
InterruptsFindHandler ==
    \A k \in bluenet.registered : Holding(table, k) # {}

(* A BLE registration that bluenet refused takes no slot once its call has *)
(* returned, however many calls for the same type were nested in it.       *)
RefusedLeavesNothing ==
    \A t \in BleTypes :
        Holding(table, t) # {} =>
            \/ t \in bluenet.registered
            \/ \E i \in Waiting("registerBle") : calls[i].arg = t

(* A BLE event has one handler at most ("no event is registered more than  *)
(* once", ArduinoBLE.cpp:692), and one only if bluenet interrupts for all  *)
(* the types it needs, or while the one setEventHandler that made it still *)
(* waits, and takes back its own when it fails.                            *)
EventHandlersBacked ==
    \A e \in EventTypes :
        LET made == {i \in Waiting("registerBle") : calls[i].event = e} IN
        /\ Cardinality(made) <= Cardinality(Holding(handlers, e))
        /\ Cardinality(Holding(handlers, e)) <= 1
        /\ Holding(handlers, e) # {} /\ made = {} =>
               \A i \in DOMAIN BleTypesFor(e) : BleTypesFor(e)[i] \in bluenet.registered

(* A BLE type takes one slot of the table, whatever was refused and tried  *)
(* again.  (With nested calls, or after BLE.end, it may take more.)        *)
OneSlotPerBleType ==
    TypeOK /\ \A t \in BleTypes : Cardinality(Holding(table, t)) <= 1

(* Between calls the microapp and bluenet agree on whether it scans.       *)
ScanFlagHonest ==
    initialized /\ Waiting("start") \cup Waiting("stop") = {} => isScanning = bluenet.scanning

(* _subscribedTypes "keeps up the types we are subscribed to"              *)
(* (BluenetInternal.h).                                                    *)
SubscriptionsKept ==
    \A type \in bluenet.subscribed :
        \/ Holding(subscribed, type) # {}
        \/ \E i \in Waiting("subscribe") : calls[i].arg = type
=============================================================================
