-------------------------- MODULE BleConnections --------------------------
(***************************************************************************)
(* The devices of Ble (ArduinoBLE.cpp, BleDevice.cpp): the one last        *)
(* scanned, the peripheral that the microapp connects to, and the central  *)
(* that connects to the microapp; the tables of services and               *)
(* characteristics found at the peripheral, and their notifications.       *)
(* What the microapp offers to a central is in LocalServices.              *)
(*                                                                         *)
(* The peripheral's services are references to entries of a table of Ble,  *)
(* as its services' characteristics are: entries counted by one object are *)
(* forgotten by another.  Scanning, connecting, finding services and using *)
(* them are calls of the user, events come in between, and an operation    *)
(* that timed out goes on at bluenet.  How the calls wait is in BleAsync.  *)
(*                                                                         *)
(* Bluenet is external: it keeps one connection, works on one operation of *)
(* a microapp at a time, and may refuse each; any interrupt may be dropped.*)
(***************************************************************************)
EXTENDS Integers, Sequences, SequencesExt

CONSTANTS
    Peripherals,            \* addresses of devices to connect to
    Centrals,               \* addresses of devices that connect to the microapp
    Uuids,                  \* the services that the user looks for
    Offered,                \* of each peripheral: the services it has
    CharacteristicsOf,      \* of each service: the sequence of its characteristics
    MAX_REMOTE_SERVICES,                \* 2 in the code
    MAX_CHARACTERISTICS_PER_SERVICE,    \* 6 in the code
    CharacteristicOps,      \* writeValue, readValue, subscribe, unsubscribe
    Careful,                \* the user does as the examples and the comments assume
    MaxLinks                \* bound of the model: connections

ASSUME BleConnectionsAssumption ==
    /\ {MAX_REMOTE_SERVICES, MAX_CHARACTERISTICS_PER_SERVICE} \subseteq Nat \ {0}
    /\ MaxLinks \in Nat
    /\ Offered \in [Peripherals -> SUBSET Uuids]
    /\ \A u \in Uuids : CharacteristicsOf[u] \in Seq(ToSet(CharacteristicsOf[u]))
    /\ CharacteristicOps \subseteq {"writeValue", "readValue", "subscribe", "unsubscribe"}
    /\ Careful \in BOOLEAN

MAX_REMOTE_CHARACTERISTICS == MAX_REMOTE_SERVICES * MAX_CHARACTERISTICS_PER_SERVICE

None == "none"

VARIABLES
    initialized,            \* Ble: whether begin() has been called
    isScanning,             \* Ble: whether advertisements are handled
    scanDevice,             \* Ble: the device last scanned
    peripheral,             \* Ble: the device that the user connects to
    central,                \* Ble: the device that connected to the microapp
    remoteServices,         \* Ble: the services found, and
    remoteCharacteristics,  \* Ble: the characteristics found; a table keeps what is in it
    remoteServiceCount,     \* when its count goes back
    remoteCharacteristicCount,
    call,                   \* the call that waits, the device or characteristic it is of,
                            \* and the _asyncResult of that: nobody looks at another one
    bluenet,                \* the link, the operation in progress, the subscriptions
    lost                    \* whether an event of a link has been dropped

tables == <<remoteServices, remoteCharacteristics, remoteServiceCount, remoteCharacteristicCount>>
devices == <<scanDevice, peripheral, central>>
vars == <<initialized, isScanning, devices, tables, call, bluenet, lost>>

(* services refers to remoteServices, characteristics to                   *)
(* remoteCharacteristics.  here: found on the link there is now.           *)
(* news: a notification came in that no value read is newer than, other    *)
(* than between the event with a value and the return of its readValue.    *)
Device ==
    [role : {None, "peripheral", "central"}, address : Peripherals \cup Centrals \cup {None},
     connected : BOOLEAN, discoveryDone : BOOLEAN, services : Seq(1 .. MAX_REMOTE_SERVICES)]

RemoteService ==
    [uuid : Uuids, characteristics : Seq(1 .. MAX_REMOTE_CHARACTERISTICS), here : BOOLEAN]

RemoteCharacteristic ==
    [uuid : UNION {ToSet(CharacteristicsOf[u]) : u \in Uuids}, here : BOOLEAN,
     remoteValueUpdated : BOOLEAN, news : BOOLEAN]

NewDevice(role, address) ==
    [role |-> role, address |-> address, connected |-> FALSE, discoveryDone |-> FALSE,
     services |-> <<>>]

NoDevice == NewDevice(None, None)
NoCall   == [op |-> None, of |-> None, index |-> 0, asyncResult |-> "NotWaiting"]
Idle     == [op |-> None]
NoLink   == [role |-> None, peer |-> None]

Init ==
    /\ initialized = FALSE
    /\ isScanning = FALSE
    /\ scanDevice = NoDevice
    /\ peripheral = NoDevice
    /\ central = NoDevice
    /\ remoteServices = <<>>
    /\ remoteCharacteristics = <<>>
    /\ remoteServiceCount = 0
    /\ remoteCharacteristicCount = 0
    /\ call = NoCall
    /\ bluenet = [link |-> NoLink, links |-> 0, busy |-> Idle, subscribed |-> {}]
    /\ lost = FALSE

------------------------------------------------------------------------------
(* The user may do this: Careful is what the examples rely on without      *)
(* looking.                                                                *)

(* No connection is being made or used.                                    *)
NothingUnderWay ==
    /\ bluenet.busy = Idle
    /\ ~central.connected
    /\ ~peripheral.connected
    /\ call = NoCall

When(condition) == Careful => condition

(* _asyncResult of this object is set: the call that waits on it, if any,  *)
(* sees that.                                                              *)
Gets(object, i, result) ==
    IF call.of = object /\ call.index = i THEN [call EXCEPT !.asyncResult = result] ELSE call

begin ==
    /\ initialized' = TRUE
    /\ UNCHANGED <<isScanning, devices, tables, call, bluenet, lost>>

(* The tables are not emptied, and bluenet is not told.                    *)
end ==
    /\ initialized
    /\ When(NothingUnderWay /\ bluenet.link = NoLink)
    /\ initialized' = FALSE
    /\ isScanning' = FALSE
    /\ scanDevice' = NoDevice
    /\ peripheral' = NoDevice
    /\ central' = NoDevice
    /\ call' = IF call.of = "central" THEN Gets("central", 0, "NotWaiting")
               ELSE Gets("peripheral", 0, "NotWaiting")
    /\ UNCHANGED <<tables, bluenet, lost>>

(* With a filter or without: the device scanned last is forgotten, also    *)
(* when bluenet refuses.                                                   *)
scan ==
    /\ initialized
    /\ scanDevice' = NoDevice
    /\ isScanning' \in {isScanning, TRUE}
    /\ UNCHANGED <<initialized, peripheral, central, tables, call, bluenet, lost>>

(* So does stopScan, before it asks bluenet: an advertisement may come in. *)
stopScan ==
    /\ initialized
    /\ isScanning
    /\ scanDevice' \in {NoDevice} \cup {NewDevice("peripheral", a) : a \in Peripherals}
    /\ isScanning' \in BOOLEAN
    /\ UNCHANGED <<initialized, peripheral, central, tables, call, bluenet, lost>>

handleScanEvent(a) ==
    /\ isScanning
    /\ scanDevice' = NewDevice("peripheral", a)
    /\ UNCHANGED <<initialized, isScanning, peripheral, central, tables, call, bluenet, lost>>

(* The device scanned last becomes the peripheral.  Otherwise there is     *)
(* none any more, connected or not.                                        *)
available ==
    /\ When(NothingUnderWay)
    /\ IF initialized /\ isScanning /\ scanDevice.role = "peripheral"
       THEN peripheral' = scanDevice /\ scanDevice' = NoDevice
       ELSE peripheral' = NoDevice /\ UNCHANGED scanDevice
    /\ call' = Gets("peripheral", 0, "NotWaiting")
    /\ UNCHANGED <<initialized, isScanning, central, tables, bluenet, lost>>

(* BLE.central() forgets a central that is not connected.                  *)
getCentral ==
    /\ When(initialized)
    /\ ~(initialized /\ central.connected)
    /\ central' = NoDevice
    /\ call' = Gets("central", 0, "NotWaiting")
    /\ UNCHANGED <<initialized, isScanning, scanDevice, peripheral, tables, bluenet, lost>>

------------------------------------------------------------------------------
(* Calls that wait.                                                        *)

(* Bluenet is busy with the request now, or answered it at once.           *)
InProgress(op, object, i) ==
    /\ bluenet.busy = Idle
    /\ bluenet' = [bluenet EXCEPT !.busy = op]
    /\ call' = [op |-> op.op, of |-> object, index |-> i, asyncResult |-> "Waiting"]

(* Only an answer at once that changes nothing is left out here.           *)
connect ==
    /\ call = NoCall
    /\ peripheral.role = "peripheral"
    /\ ~peripheral.connected
    /\ bluenet.link = NoLink
    /\ bluenet.links < MaxLinks
    /\ InProgress([op |-> "connect", peer |-> peripheral.address], "peripheral", 0)
    /\ UNCHANGED <<initialized, isScanning, devices, tables, lost>>

(* Of either device, or of Ble, which takes the central if it is connected *)
(* and else the peripheral.  The link that bluenet has is to go down.      *)
disconnect ==
    /\ call = NoCall
    /\ bluenet.link # NoLink
    /\ \/ central.connected /\ InProgress([op |-> "disconnect"], "central", 0)
       \/ peripheral.connected /\ InProgress([op |-> "disconnect"], "peripheral", 0)
    /\ UNCHANGED <<initialized, isScanning, devices, tables, lost>>

(* What bluenet finds at the peripheral for a service: the service, then   *)
(* its characteristics.                                                    *)
Found(u, peer) ==
    IF u \notin Offered[peer] THEN <<>>
    ELSE <<[service |-> u, characteristic |-> None]>> \o
         [i \in DOMAIN CharacteristicsOf[u] |->
            [service |-> u, characteristic |-> CharacteristicsOf[u][i]]]

discoverService(u) ==
    /\ call = NoCall
    /\ peripheral.role = "peripheral"
    /\ When(peripheral.connected)
    /\ ~peripheral.discoveryDone
    /\ bluenet.link.role = "central"
    /\ InProgress([op |-> "discoverService", todo |-> Found(u, bluenet.link.peer)], "peripheral", 0)
    /\ UNCHANGED <<initialized, isScanning, devices, tables, lost>>

(* Any characteristic that was ever handed out can be used.                *)
CharacteristicCall(op, i) ==
    /\ call = NoCall
    /\ bluenet.link.role = "central"
    /\ InProgress([op |-> op, uuid |-> remoteCharacteristics[i].uuid], "characteristic", i)
    /\ UNCHANGED <<initialized, isScanning, devices, tables, lost>>

(* waitForAsyncResult gives up; the operation goes on at bluenet.          *)
CallTimesOut ==
    /\ call # NoCall
    /\ call' = NoCall
    /\ UNCHANGED <<initialized, isScanning, devices, tables, bluenet, lost>>

(* readValue that was successful clears remoteValueUpdated.                *)
(* Mutant: readValue does so whatever its result.                          *)
CallReturnsClears ==
    /\ call # NoCall
    /\ call.asyncResult # "Waiting"
    /\ call' = NoCall
    /\ remoteCharacteristics' =
          IF call.op = "readValue"
          THEN [remoteCharacteristics EXCEPT ![call.index].remoteValueUpdated = FALSE]
          ELSE remoteCharacteristics
    /\ UNCHANGED <<initialized, isScanning, devices, remoteServices,
                   remoteServiceCount, remoteCharacteristicCount, bluenet, lost>>

CallReturns ==
    /\ call # NoCall
    /\ call.asyncResult # "Waiting"
    /\ call' = NoCall
    /\ remoteCharacteristics' =
          IF call.op = "readValue" /\ call.asyncResult # "Failure"
          THEN [remoteCharacteristics EXCEPT ![call.index].remoteValueUpdated = FALSE]
          ELSE remoteCharacteristics
    /\ UNCHANGED <<initialized, isScanning, devices, remoteServices,
                   remoteServiceCount, remoteCharacteristicCount, bluenet, lost>>

------------------------------------------------------------------------------
(* Events of the link to a peripheral (handleCentralEvent).                *)

Accepted == peripheral.role = "peripheral"

(* Bluenet has come to the end of the operation it worked on.              *)
Done == [bluenet EXCEPT !.busy = Idle]

DeviceGets(result) == call' = Gets("peripheral", 0, result)

onConnect(device) == [device EXCEPT !.connected = TRUE]

LinkTo(role, address) ==
    [bluenet EXCEPT !.busy = IF @.op = "connect" THEN Idle ELSE @,
                    !.link = [role |-> role, peer |-> address], !.links = @ + 1]

CentralEventConnect ==
    /\ bluenet.busy.op = "connect"
    /\ \/ /\ bluenet' = LinkTo("central", bluenet.busy.peer)
          /\ \/ /\ Accepted
                /\ peripheral' = onConnect(peripheral)
                /\ DeviceGets("Success")
                /\ UNCHANGED lost
             \/ lost' = TRUE /\ UNCHANGED <<peripheral, call>>
       \/ /\ bluenet' = Done
          /\ \/ Accepted /\ DeviceGets("Failure")
             \/ UNCHANGED call
          /\ UNCHANGED <<peripheral, lost>>
    /\ UNCHANGED <<initialized, isScanning, scanDevice, central, tables>>

(* The link goes down by itself, or because somebody asked for it.         *)
LinkDown == [bluenet EXCEPT !.link = NoLink, !.subscribed = {},
                            !.busy = IF @.op = "disconnect" THEN Idle ELSE @]

(* What was found on the link that went down was not found on the next.    *)
Elsewhere(table) == [i \in DOMAIN table |-> [table[i] EXCEPT !.here = FALSE]]

(* What a device forgets when its connection ends.                         *)
(* Mutant: the device keeps its services.                                  *)
onDisconnectKeepsServices(device) ==
    [device EXCEPT !.connected = FALSE, !.discoveryDone = FALSE]

(* Mutant: the device stays connected.                                     *)
onDisconnectStaysConnected(device) ==
    [device EXCEPT !.services = <<>>, !.discoveryDone = FALSE]

onDisconnect(device) ==
    [device EXCEPT !.services = <<>>, !.connected = FALSE, !.discoveryDone = FALSE]

(* Mutant: the tables keep their counts.                                   *)
CentralEventDisconnectKeepsCounts ==
    /\ bluenet.link.role = "central"
    /\ bluenet' = LinkDown
    /\ remoteServices' = Elsewhere(remoteServices)
    /\ remoteCharacteristics' = Elsewhere(remoteCharacteristics)
    /\ \/ /\ Accepted
          /\ peripheral' = onDisconnect(peripheral)
          /\ DeviceGets("Success")
          /\ UNCHANGED lost
       \/ lost' = TRUE /\ UNCHANGED <<peripheral, call>>
    /\ UNCHANGED <<initialized, isScanning, scanDevice, central,
                   remoteServiceCount, remoteCharacteristicCount>>

CentralEventDisconnect ==
    /\ bluenet.link.role = "central"
    /\ bluenet' = LinkDown
    /\ remoteServices' = Elsewhere(remoteServices)
    /\ remoteCharacteristics' = Elsewhere(remoteCharacteristics)
    /\ \/ /\ Accepted
          /\ peripheral' = onDisconnect(peripheral)
          /\ DeviceGets("Success")
          /\ remoteServiceCount' = 0
          /\ remoteCharacteristicCount' = 0
          /\ UNCHANGED lost
       \/ /\ lost' = TRUE
          /\ UNCHANGED <<peripheral, call, remoteServiceCount, remoteCharacteristicCount>>
    /\ UNCHANGED <<initialized, isScanning, scanDevice, central>>

------------------------------------------------------------------------------
(* Events of finding services: each fills the next entry of its table, and *)
(* counts it when the object it belongs to has room for it.                *)

Put(table, n, entry) ==
    IF n <= Len(table) THEN [table EXCEPT ![n] = entry] ELSE Append(table, entry)

(* Mutant: the entry keeps the characteristics it had.                     *)
addDiscoveredServiceKeepsEntry(u) ==
    LET n == remoteServiceCount + 1 IN
    /\ n <= MAX_REMOTE_SERVICES
    /\ remoteServices' = Put(remoteServices, n,
          [uuid |-> u, here |-> TRUE,
           characteristics |-> IF n \in DOMAIN remoteServices
                               THEN remoteServices[n].characteristics ELSE <<>>])
    /\ IF Len(peripheral.services) < MAX_REMOTE_SERVICES
       THEN /\ peripheral' = [peripheral EXCEPT !.services = Append(@, n)]
            /\ remoteServiceCount' = n
       ELSE UNCHANGED <<peripheral, remoteServiceCount>>
    /\ UNCHANGED <<remoteCharacteristics, remoteCharacteristicCount>>

addDiscoveredService(u) ==
    LET n == remoteServiceCount + 1 IN
    /\ n <= MAX_REMOTE_SERVICES
    /\ remoteServices' = Put(remoteServices, n,
          [uuid |-> u, characteristics |-> <<>>, here |-> TRUE])
    /\ IF Len(peripheral.services) < MAX_REMOTE_SERVICES
       THEN /\ peripheral' = [peripheral EXCEPT !.services = Append(@, n)]
            /\ remoteServiceCount' = n
       ELSE UNCHANGED <<peripheral, remoteServiceCount>>
    /\ UNCHANGED <<remoteCharacteristics, remoteCharacteristicCount>>

(* Where the device has a service with this uuid; the first is taken.      *)
ServicesWith(u) ==
    {k \in DOMAIN peripheral.services : remoteServices[peripheral.services[k]].uuid = u}

FirstWith(u) == peripheral.services[Min(ServicesWith(u))]

HasRoom(s) == Len(remoteServices[s].characteristics) < MAX_CHARACTERISTICS_PER_SERVICE

addDiscoveredCharacteristic(u, c) ==
    LET n == remoteCharacteristicCount + 1 IN
    /\ n <= MAX_REMOTE_CHARACTERISTICS
    /\ remoteCharacteristics' = Put(remoteCharacteristics, n,
          [uuid |-> c, here |-> TRUE, remoteValueUpdated |-> FALSE, news |-> FALSE])
    /\ IF ServicesWith(u) # {} /\ HasRoom(FirstWith(u))
       THEN /\ remoteServices' =
                  [remoteServices EXCEPT ![FirstWith(u)].characteristics = Append(@, n)]
            /\ remoteCharacteristicCount' = n
       ELSE UNCHANGED <<remoteServices, remoteCharacteristicCount>>
    /\ UNCHANGED <<peripheral, remoteServiceCount>>

CentralEventDiscover ==
    /\ bluenet.busy.op = "discoverService"
    /\ bluenet.busy.todo # <<>>
    /\ bluenet.link.role = "central"
    /\ bluenet' = [bluenet EXCEPT !.busy.todo = Tail(@)]
    /\ LET next == Head(bluenet.busy.todo) IN
       \/ /\ Accepted
          /\ next.characteristic = None
          /\ addDiscoveredService(next.service)
       \/ /\ Accepted
          /\ next.characteristic # None
          /\ addDiscoveredCharacteristic(next.service, next.characteristic)
       \/ UNCHANGED <<peripheral, tables>>     \* the table is full, or the event is lost
    /\ UNCHANGED <<initialized, isScanning, scanDevice, central, call, lost>>

onDiscoverDone(device) == [device EXCEPT !.discoveryDone = TRUE]

CentralEventDiscoverDone ==
    /\ bluenet.busy.op = "discoverService"
    /\ bluenet' = Done
    /\ \/ /\ Accepted
          /\ bluenet.busy.todo = <<>> /\ bluenet.link.role = "central"
          /\ peripheral' = onDiscoverDone(peripheral)
          /\ DeviceGets("Success")
       \/ Accepted /\ DeviceGets("Failure") /\ UNCHANGED peripheral
       \/ UNCHANGED <<peripheral, call>>
    /\ UNCHANGED <<initialized, isScanning, scanDevice, central, tables, lost>>

------------------------------------------------------------------------------
(* Events of characteristics.                                              *)

(* The characteristics of the peripheral with this handle, of which the    *)
(* first is taken.                                                         *)
WithHandle(uuid) ==
    SelectSeq(FlattenSeq([k \in DOMAIN peripheral.services |->
                             remoteServices[peripheral.services[k]].characteristics]),
              LAMBDA i : remoteCharacteristics[i].uuid = uuid)

getCharacteristic(uuid) == Head(WithHandle(uuid))

Reaches(uuid) == Accepted /\ WithHandle(uuid) # <<>>

Subscriptions ==
    CASE bluenet.busy.op = "subscribe"   -> bluenet.subscribed \cup {bluenet.busy.uuid}
      [] bluenet.busy.op = "unsubscribe" -> bluenet.subscribed \ {bluenet.busy.uuid}
      [] OTHER                           -> bluenet.subscribed

(* EVENT_WRITE, for a value or a subscription, and EVENT_READ: the value   *)
(* that was read is newer than what was notified before.                   *)
onRemoteDone(i) ==
    /\ call' = Gets("characteristic", i, "Success")
    /\ remoteCharacteristics' =
          [remoteCharacteristics EXCEPT ![i].news = (@ /\ bluenet.busy.op # "readValue")]

CentralEventCharacteristic ==
    /\ bluenet.busy.op \in CharacteristicOps
    /\ LET uuid == bluenet.busy.uuid IN
       \/ /\ bluenet.link.role = "central"
          /\ bluenet' = [Done EXCEPT !.subscribed = Subscriptions]
          /\ \/ Reaches(uuid) /\ onRemoteDone(getCharacteristic(uuid))
             \/ UNCHANGED <<remoteCharacteristics, call>>
       \/ /\ bluenet' = Done
          /\ \/ Reaches(uuid) /\ call' = Gets("characteristic", getCharacteristic(uuid), "Failure")
             \/ UNCHANGED call
          /\ UNCHANGED remoteCharacteristics
    /\ UNCHANGED <<initialized, isScanning, devices, remoteServices,
                   remoteServiceCount, remoteCharacteristicCount, lost>>

(* The value has come in, and the readValue that waits for it has not gone *)
(* on yet.                                                                 *)
JustRead(i) == call.op = "readValue" /\ call.index = i /\ call.asyncResult = "Success"

onRemoteNotification(i) ==
    [remoteCharacteristics[i] EXCEPT !.remoteValueUpdated = TRUE, !.news = (@ \/ ~JustRead(i))]

CentralEventNotification ==
    /\ bluenet.link.role = "central"
    /\ \E uuid \in bluenet.subscribed :
          /\ Reaches(uuid)
          /\ LET i == getCharacteristic(uuid) IN
             remoteCharacteristics' = [remoteCharacteristics EXCEPT ![i] = onRemoteNotification(i)]
    /\ UNCHANGED <<initialized, isScanning, devices, remoteServices,
                   remoteServiceCount, remoteCharacteristicCount, call, bluenet, lost>>

------------------------------------------------------------------------------
(* Events of the link from a central (handlePeripheralEvent).              *)

PeripheralEventConnect(a) ==
    /\ bluenet.link = NoLink
    /\ bluenet.busy.op # "connect"
    /\ bluenet.links < MaxLinks
    /\ bluenet' = LinkTo("peripheral", a)
    /\ \/ central' = onConnect(NewDevice("central", a)) /\ UNCHANGED lost
       \/ lost' = TRUE /\ UNCHANGED central
    /\ UNCHANGED <<initialized, isScanning, scanDevice, peripheral, tables, call>>

PeripheralEventDisconnect ==
    /\ bluenet.link.role = "peripheral"
    /\ bluenet' = LinkDown
    /\ \/ central' = onDisconnect(central) /\ UNCHANGED lost
       \/ lost' = TRUE /\ UNCHANGED central
    /\ UNCHANGED <<initialized, isScanning, scanDevice, peripheral, tables, call>>

------------------------------------------------------------------------------
UserCall ==
    \/ begin
    \/ end
    \/ scan
    \/ stopScan
    \/ available
    \/ getCentral
    \/ connect
    \/ disconnect
    \/ \E u \in Uuids : discoverService(u)
    \/ \E op \in CharacteristicOps, i \in DOMAIN remoteCharacteristics : CharacteristicCall(op, i)

handleCentralEvent ==
    \/ CentralEventConnect
    \/ CentralEventDisconnect
    \/ CentralEventDiscover
    \/ CentralEventDiscoverDone
    \/ CentralEventCharacteristic
    \/ CentralEventNotification

handlePeripheralEvent ==
    \/ \E a \in Centrals : PeripheralEventConnect(a)
    \/ PeripheralEventDisconnect

handleEvent ==
    \/ \E a \in Peripherals : handleScanEvent(a)
    \/ handleCentralEvent
    \/ handlePeripheralEvent

Next == UserCall \/ CallTimesOut \/ CallReturns \/ handleEvent

Spec == Init /\ [][Next]_vars
------------------------------------------------------------------------------
(* Properties.                                                             *)

TypeOK ==
    /\ {initialized, isScanning, lost} \subseteq BOOLEAN
    /\ {scanDevice, peripheral, central} \subseteq Device
    /\ remoteServices \in Seq(RemoteService)
    /\ remoteCharacteristics \in Seq(RemoteCharacteristic)
    /\ remoteServiceCount \in 0 .. Len(remoteServices)
    /\ remoteCharacteristicCount \in 0 .. Len(remoteCharacteristics)
    /\ Len(remoteServices) <= MAX_REMOTE_SERVICES
    /\ Len(remoteCharacteristics) <= MAX_REMOTE_CHARACTERISTICS
    /\ bluenet.links \in 0 .. MaxLinks

(* Without lost events, connected() of the two devices, and so of Ble,     *)
(* says what link there is: "It's only possible for one device to be       *)
(* connected at a time, either central or peripheral" (ArduinoBLE.cpp).    *)
ConnectedMeansLink ==
    ~lost => /\ peripheral.connected <=> bluenet.link.role = "central"
             /\ central.connected <=> bluenet.link.role = "peripheral"

(* A peripheral that is said to be connected is the one at the other end,  *)
(* also after calls that timed out and events that were lost: "Query if a  *)
(* BLE device is connected" (BleDevice.h).  This much of LinkImplemented   *)
(* is stated for itself, as it is what a careless user loses first.        *)
ConnectedIsPeer ==
    peripheral.connected /\ bluenet.link.role = "central"
        => peripheral.address = bluenet.link.peer

Counted(i) == \E k \in DOMAIN peripheral.services :
                 i \in ToSet(remoteServices[peripheral.services[k]].characteristics)

(* What the tables count is what the peripheral has: each entry belongs to *)
(* it once, none of them is left over from another connection, so that the *)
(* next one finds the tables empty (handleCentralEvent, onDisconnect).     *)
TablesAccounted ==
    /\ TypeOK
    /\ peripheral.services = [k \in 1 .. remoteServiceCount |-> k]
    /\ \A i \in DOMAIN remoteCharacteristics : Counted(i) <=> i <= remoteCharacteristicCount

(* While there is a link to a peripheral, what it is said to offer was     *)
(* found on that link (serviceCount, hasService, characteristic).          *)
AttributesOfThisLink ==
    bluenet.link.role = "central" =>
        /\ \A s \in ToSet(peripheral.services) : remoteServices[s].here
        /\ \A i \in DOMAIN remoteCharacteristics :
              Counted(i) => remoteCharacteristics[i].here

(* A notification that no value read is newer than is not forgotten        *)
(* (valueUpdated): readValue forgets it only where it came in after the    *)
(* value did and before readValue went on.                                 *)
NotificationKept ==
    \A i \in DOMAIN remoteCharacteristics :
        remoteCharacteristics[i].news => remoteCharacteristics[i].remoteValueUpdated

------------------------------------------------------------------------------
(* Refinement: what the tables hold for the peripheral.                    *)

LinkedPeripheral == IF bluenet.link.role = "central" THEN {bluenet.link.peer} ELSE {}

ConnectedDevice == IF peripheral.connected THEN {peripheral.address} ELSE {}

FoundServices == {remoteServices[s].uuid : s \in ToSet(peripheral.services)}

FoundCharacteristics ==
    UNION {{<<remoteServices[s].uuid, remoteCharacteristics[i].uuid>> :
               i \in ToSet(remoteServices[s].characteristics)} : s \in ToSet(peripheral.services)}

Link == INSTANCE PeripheralLink WITH
            CharacteristicsIn <- [u \in Uuids |-> ToSet(CharacteristicsOf[u])],
            link <- LinkedPeripheral,
            device <- ConnectedDevice,
            services <- FoundServices,
            characteristics <- FoundCharacteristics

(* Through lost events, calls that time out and tables that are used again *)
(* the microapp sees one link after the other, each with attributes of its *)
(* own peripheral only, each found in its service, and forgotten with it   *)
(* (handleCentralEvent, available, onDisconnect).                          *)
LinkImplemented == Link!Spec
=============================================================================
