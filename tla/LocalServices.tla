--------------------------- MODULE LocalServices ---------------------------
(***************************************************************************)
(* The services that a microapp offers to others: BleService and           *)
(* BleCharacteristic as local objects (BleService.cpp,                     *)
(* BleCharacteristic.cpp), the table of Ble with the services in use, and  *)
(* the events about them (handlePeripheralEvent in ArduinoBLE.cpp).        *)
(*                                                                         *)
(* The objects belong to the user.  Bluenet makes a characteristic of its  *)
(* own for each one it accepts, which shares the buffer with the value and *)
(* is known by its handle.  A service goes to bluenet in one request, and  *)
(* each of its characteristics in another; in between events come in,      *)
(* whose handlers may add services too.                                    *)
(*                                                                         *)
(* Bluenet is external: it may refuse any request, and an interrupt may be *)
(* dropped.  Connections come and go, and change nothing here; the device  *)
(* at the other end is in BleConnections.                                  *)
(***************************************************************************)
EXTENDS Integers, Sequences, SequencesExt, FiniteSets

CONSTANTS
    Services,                           \* the service objects of the user
    LocalCharacteristics,               \* the characteristic objects of the user
    MAX_LOCAL_SERVICES,                 \* 1 in the code
    MAX_CHARACTERISTICS_PER_SERVICE,    \* 6 in the code
    ValueSize,                          \* the longest value, in bytes
    Careful,                            \* see addCharacteristic and Alone
    MaxAdding,                          \* bounds of the model: calls of addService
                                        \* at work, one in a handler of another,
    MaxHandles                          \* and what bluenet accepts

ASSUME LocalServicesAssumption ==
    /\ {MAX_LOCAL_SERVICES, MAX_CHARACTERISTICS_PER_SERVICE, ValueSize} \subseteq Nat \ {0}
    /\ Careful \in BOOLEAN
    /\ MaxAdding \in Nat \ {0}
    /\ MaxHandles \in Nat

None    == "none"
Unknown == -1
Lengths == 0 .. ValueSize

VARIABLES
    initialized,        \* Ble: between begin() and end()
    service,            \* of each service object: its characteristics and its handle
    characteristic,     \* of each characteristic object: see LocalCharacteristic
    localServices,      \* Ble: the services in use, in order
    adding,             \* the calls of addService at work, the innermost last
    gatt,               \* the characteristics at bluenet, by handle
    handles             \* the handles bluenet gave to services so far

vars == <<initialized, service, characteristic, localServices, adding, gatt, handles>>

(* The service, and how many characteristics bluenet accepted of it;       *)
(* Unknown before bluenet accepted the service itself.                     *)
Adding == [service : Services, sent : Nat \cup {Unknown}]

(* handle is 0 until bluenet gave one.                                     *)
LocalCharacteristic ==
    [handle : 0 .. MaxHandles, length : Lengths, written : BOOLEAN, subscribed : BOOLEAN]

(* A characteristic at bluenet: the object it stands for and the handle of *)
(* its service; and what the other device did last, that the microapp has  *)
(* been told of since the service is in use: the length it wrote, and      *)
(* whether it subscribed.                                                  *)
Attribute ==
    [of : LocalCharacteristics, service : 1 .. MaxHandles,
     wrote : Lengths \cup {Unknown}, subscribed : {"yes", "no", None}]

Init ==
    /\ initialized = FALSE
    /\ service = [s \in Services |-> [characteristics |-> <<>>, handle |-> 0]]
    /\ characteristic = [c \in LocalCharacteristics |->
          [handle |-> 0, length |-> ValueSize, written |-> FALSE, subscribed |-> FALSE]]
    /\ localServices = <<>>
    /\ adding = <<>>
    /\ gatt = <<>>
    /\ handles = 0

------------------------------------------------------------------------------
(* User code makes its services and gives them to Ble.                     *)

(* A careful user has a characteristic in one service, once.               *)
addCharacteristic(s, c) ==
    /\ Len(service[s].characteristics) < MAX_CHARACTERISTICS_PER_SERVICE
    /\ Careful => \A t \in Services : c \notin ToSet(service[t].characteristics)
    /\ service' = [service EXCEPT ![s].characteristics = Append(@, c)]
    /\ UNCHANGED <<initialized, characteristic, localServices, adding, gatt, handles>>

(* A careful user does not add a service while it is being added.          *)
Alone(s) == \A i \in DOMAIN adding : adding[i].service # s

Innermost == adding[Len(adding)]
Outer     == SubSeq(adding, 1, Len(adding) - 1)

(* The innermost call goes on, after this many characteristics.            *)
Sent(n) == adding' = Append(Outer, [service |-> Innermost.service, sent |-> n])

(* The call asks bluenet for the interrupts and the uuid it needs, unless  *)
(* it has them, and then to add the service; meanwhile handlers may run.   *)
addService(s) ==
    /\ initialized
    /\ Len(localServices) < MAX_LOCAL_SERVICES
    /\ Len(adding) < MaxAdding
    /\ Careful => Alone(s)
    /\ adding' = Append(adding, [service |-> s, sent |-> Unknown])
    /\ UNCHANGED <<initialized, service, characteristic, localServices, gatt, handles>>

(* Without a handle from bluenet the call returns.                         *)
addLocalService ==
    /\ adding # <<>>
    /\ Innermost.sent = Unknown
    /\ \/ /\ handles < MaxHandles
          /\ handles' = handles + 1
          /\ service' = [service EXCEPT ![Innermost.service].handle = handles + 1]
          /\ Sent(0)
       \/ adding' = Outer /\ UNCHANGED <<service, handles>>
    /\ UNCHANGED <<initialized, characteristic, localServices, gatt>>

Sending   == adding # <<>> /\ Innermost.sent # Unknown
MoreToAdd == Sending /\ Innermost.sent < Len(service[Innermost.service].characteristics)
NextToAdd == service[Innermost.service].characteristics[Innermost.sent + 1]

(* Bluenet accepts the next characteristic, and its object has handle h    *)
(* then; or refuses it: the service is not used, and what bluenet accepted *)
(* of it stays there.                                                      *)
Accepted(c, h) ==
    /\ Len(gatt) < MaxHandles
    /\ gatt' = Append(gatt, [of |-> c, service |-> service[Innermost.service].handle,
                             wrote |-> Unknown, subscribed |-> None])
    /\ characteristic' = [characteristic EXCEPT ![c].handle = h]
    /\ Sent(Innermost.sent + 1)

Refused == adding' = Outer /\ UNCHANGED <<characteristic, gatt>>

(* Mutant: the handle is kept from an earlier attempt.                     *)
addLocalCharacteristicKeepsHandle ==
    /\ MoreToAdd
    /\ \/ Accepted(NextToAdd, IF characteristic[NextToAdd].handle # 0
                              THEN characteristic[NextToAdd].handle ELSE Len(gatt) + 1)
       \/ Refused
    /\ UNCHANGED <<initialized, service, localServices, handles>>

addLocalCharacteristic ==
    /\ MoreToAdd
    /\ Accepted(NextToAdd, Len(gatt) + 1) \/ Refused
    /\ UNCHANGED <<initialized, service, localServices, handles>>

(* The table is not looked at again: it is written past its end if a       *)
(* handler filled it meanwhile.  What that destroys is not modelled.       *)
addServiceReturns ==
    /\ Sending
    /\ ~MoreToAdd
    /\ localServices' = Append(localServices, Innermost.service)
    /\ adding' = Outer
    /\ UNCHANGED <<initialized, service, characteristic, gatt, handles>>

------------------------------------------------------------------------------
(* User code uses its characteristics.                                     *)

(* The value is in the buffer, and its length is set, before bluenet is    *)
(* asked to use it; bluenet may refuse.                                    *)
writeValueLocal(c, n) ==
    /\ characteristic' = [characteristic EXCEPT ![c].length = n]
    /\ gatt' = [h \in DOMAIN gatt |->
                  IF gatt[h].of = c THEN [gatt[h] EXCEPT !.wrote = Unknown] ELSE gatt[h]]
    /\ UNCHANGED <<initialized, service, localServices, adding, handles>>

written(c) ==
    /\ characteristic[c].written
    /\ characteristic' = [characteristic EXCEPT ![c].written = FALSE]
    /\ UNCHANGED <<initialized, service, localServices, adding, gatt, handles>>

------------------------------------------------------------------------------
(* Events.                                                                 *)

InUse(h) == \E s \in ToSet(localServices) : service[s].handle = gatt[h].service

(* The objects with this handle: getCharacteristic of each service in use. *)
getLocalCharacteristic(h) ==
    IF ~initialized THEN {}
    ELSE {c \in UNION {ToSet(service[s].characteristics) : s \in ToSet(localServices)} :
             characteristic[c].handle = h}

(* The event finds its object, which changes to what is said of it.        *)
Handled(h, changed) ==
    characteristic' = [c \in LocalCharacteristics |->
        IF c \in getLocalCharacteristic(h) THEN changed[c] ELSE characteristic[c]]

(* The other device does something to a characteristic, which the microapp *)
(* is told of, or is not.                                                  *)
Told == initialized

onLocalWritten(h, n) ==
    /\ \/ /\ gatt' = [gatt EXCEPT ![h].wrote = IF InUse(h) /\ Told THEN n ELSE Unknown]
          /\ Handled(h, [c \in LocalCharacteristics |->
                           [characteristic[c] EXCEPT !.length = n, !.written = TRUE]])
       \/ /\ gatt' = [gatt EXCEPT ![h].wrote = Unknown]
          /\ UNCHANGED characteristic
    /\ UNCHANGED <<initialized, service, localServices, adding, handles>>

Subscribes(h, b) ==
    /\ \/ /\ gatt' = [gatt EXCEPT ![h].subscribed = IF InUse(h) /\ Told THEN b ELSE None]
          /\ Handled(h, [c \in LocalCharacteristics |->
                           [characteristic[c] EXCEPT !.subscribed = (b = "yes")]])
       \/ /\ gatt' = [gatt EXCEPT ![h].subscribed = None]
          /\ UNCHANGED characteristic
    /\ UNCHANGED <<initialized, service, localServices, adding, handles>>

onLocalSubscribed(h)   == Subscribes(h, "yes")
onLocalUnsubscribed(h) == Subscribes(h, "no")

------------------------------------------------------------------------------
begin == initialized' = TRUE /\ UNCHANGED <<service, characteristic, localServices, adding, gatt, handles>>

(* Neither the services nor what bluenet has of them is taken back.        *)
end ==
    /\ initialized' = FALSE
    /\ UNCHANGED <<service, characteristic, localServices, adding, gatt, handles>>

UserCall ==
    \/ begin
    \/ end
    \/ \E s \in Services, c \in LocalCharacteristics : addCharacteristic(s, c)
    \/ \E s \in Services : addService(s)
    \/ addLocalService
    \/ addLocalCharacteristic
    \/ addServiceReturns
    \/ \E c \in LocalCharacteristics, n \in Lengths : writeValueLocal(c, n)
    \/ \E c \in LocalCharacteristics : written(c)

handlePeripheralEvent ==
    \E h \in DOMAIN gatt :
        \/ \E n \in Lengths : onLocalWritten(h, n)
        \/ onLocalSubscribed(h)
        \/ onLocalUnsubscribed(h)

Next == UserCall \/ handlePeripheralEvent

Spec == Init /\ [][Next]_vars
------------------------------------------------------------------------------
(* Properties.                                                             *)

(* The table holds as many services more than it has places for as calls   *)
(* of addService were nested in another: none when handlers add none.      *)
TypeOK ==
    /\ initialized \in BOOLEAN
    /\ service \in [Services -> [characteristics : Seq(LocalCharacteristics), handle : 0 .. MaxHandles]]
    /\ \A s \in Services :
          Len(service[s].characteristics) <= MAX_CHARACTERISTICS_PER_SERVICE
    /\ characteristic \in [LocalCharacteristics -> LocalCharacteristic]
    /\ localServices \in Seq(Services) /\ Len(localServices) < MAX_LOCAL_SERVICES + MaxAdding
    /\ adding \in Seq(Adding) /\ Len(adding) <= MaxAdding
    /\ gatt \in Seq(Attribute) /\ Len(gatt) <= MaxHandles
    /\ handles \in 0 .. MaxHandles

(* "Pointers to local services are stored here (for peripheral role)" and  *)
(* "validity should be checked via _localServiceCount" (ArduinoBLE.h): the *)
(* table has a place for each service it counts.  Two calls of addService, *)
(* one in a handler of the other, both find the last place free.           *)
ServicesInTable == Len(localServices) <= MAX_LOCAL_SERVICES

(* What the other device did to a characteristic of a service in use, and  *)
(* the microapp was told of, is what the object says: the length that      *)
(* readValue goes by, and subscribed().  The events name handles, which    *)
(* the object may have got in an earlier attempt, or another object has    *)
(* (getLocalCharacteristic, addLocalService).  Nothing is said once the    *)
(* table was written past its end.                                         *)
RemoteUseNoticed ==
    /\ TypeOK
    /\ ServicesInTable =>
          \A h \in DOMAIN gatt :
              LET c == characteristic[gatt[h].of] IN
              InUse(h) => /\ gatt[h].wrote \in {Unknown, c.length}
                          /\ gatt[h].subscribed \in {None, IF c.subscribed THEN "yes" ELSE "no"}
=============================================================================
