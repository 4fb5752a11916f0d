-------------------------- MODULE BleConnectionsProofs --------------------------
(***************************************************************************)
(* Proofs about BleConnections, for any devices, services and sizes of the *)
(* tables.                                                                 *)
(***************************************************************************)
EXTENDS BleConnections, WellFoundedInduction, TLAPS

Addresses   == Peripherals \cup Centrals \cup {None}
RemoteUuids == UNION {ToSet(CharacteristicsOf[u]) : u \in Uuids}
Finding     == [service : Uuids, characteristic : RemoteUuids \cup {None}]

Operation ==
    {Idle} \cup [op : {"connect"}, peer : Addresses] \cup [op : {"disconnect"}]
    \cup [op : {"discoverService"}, todo : Seq(Finding)]
    \cup [op : CharacteristicOps, uuid : RemoteUuids]

Bluenet ==
    [link : [role : {None, "peripheral", "central"}, peer : Addresses], links : 0 .. MaxLinks,
     busy : Operation, subscribed : SUBSET RemoteUuids]

Call ==
    [op : {None, "connect", "disconnect", "discoverService"} \cup CharacteristicOps,
     of : {None, "peripheral", "central", "characteristic"}, index : Nat,
     asyncResult : {"NotWaiting", "Waiting", "Success", "Failure"}]

DevicesTyped == {scanDevice, peripheral, central} \subseteq Device

TablesTyped ==
    /\ remoteServices \in Seq(RemoteService)
    /\ remoteCharacteristics \in Seq(RemoteCharacteristic)
    /\ remoteServiceCount \in 0 .. Len(remoteServices)
    /\ remoteCharacteristicCount \in 0 .. Len(remoteCharacteristics)
    /\ Len(remoteServices) <= MAX_REMOTE_SERVICES
    /\ Len(remoteCharacteristics) <= MAX_REMOTE_CHARACTERISTICS

(* A connection that is being made has room.                               *)
BluenetTyped ==
    /\ bluenet \in Bluenet
    /\ bluenet.busy.op = "connect" => bluenet.links < MaxLinks

Typed ==
    /\ {initialized, isScanning, lost} \subseteq BOOLEAN
    /\ DevicesTyped
    /\ TablesTyped
    /\ BluenetTyped
    /\ call \in Call

(* One connection is made at a time, and services are found at the         *)
(* peripheral that the user has.                                           *)
Linked ==
    /\ ConnectedMeansLink
    /\ ConnectedIsPeer
    /\ ~scanDevice.connected
    /\ scanDevice.services = <<>>
    /\ bluenet.busy.op = "connect" =>
          /\ bluenet.link = NoLink
          /\ ~peripheral.connected
          /\ bluenet.busy.peer = peripheral.address
    /\ bluenet.busy.op = "discoverService" /\ bluenet.link.role = "central"
          => peripheral.connected

(* The n services and the m characteristics are accounted for.             *)
Accounted(services, found, n, m) ==
    /\ services = [k \in 1 .. n |-> k]
    /\ \A k \in 1 .. n : \A i \in ToSet(found[k].characteristics) : i <= m
    /\ \A i \in 1 .. m : \E k \in 1 .. n : i \in ToSet(found[k].characteristics)

AllHere(table, n) == \A k \in 1 .. n : table[k].here

Tabled ==
    /\ Accounted(peripheral.services, remoteServices, remoteServiceCount,
                 remoteCharacteristicCount)
    /\ ~peripheral.connected => remoteServiceCount = 0 /\ remoteCharacteristicCount = 0
    /\ bluenet.link.role = "central" =>
          /\ AllHere(remoteServices, remoteServiceCount)
          /\ AllHere(remoteCharacteristics, remoteCharacteristicCount)

(* Of the characteristic that is being read there is no news once it has   *)
(* been read, and nothing else is worked on.                               *)
Noted ==
    /\ NotificationKept
    /\ call.op = "readValue" =>
          /\ bluenet.busy.op \in {None, "readValue"}
          /\ call.of = "characteristic"
          /\ call.asyncResult \in {"Waiting", "Success", "Failure"}
          /\ call.asyncResult = "Success" =>
                \A i \in DOMAIN remoteCharacteristics :
                   i = call.index => ~remoteCharacteristics[i].news

------------------------------------------------------------------------------
(* Sequences and sets of numbers.                                          *)

LEMMA AppendTo ==
    ASSUME NEW T, NEW s \in Seq(T), NEW e \in T
    PROVE  /\ Append(s, e) \in Seq(T)
           /\ Len(Append(s, e)) = Len(s) + 1
           /\ \A i \in 1 .. Len(s) : Append(s, e)[i] = s[i]
           /\ Append(s, e)[Len(s) + 1] = e
OBVIOUS

LEMMA ReplaceIn ==
    ASSUME NEW T, NEW s \in Seq(T), NEW k, NEW e, k \in 1 .. Len(s) => e \in T
    PROVE  /\ [s EXCEPT ![k] = e] \in Seq(T)
           /\ Len([s EXCEPT ![k] = e]) = Len(s)
           /\ \A i \in 1 .. Len(s) : [s EXCEPT ![k] = e][i] = IF i = k THEN e ELSE s[i]
<1>1. CASE k \in 1 .. Len(s)
    BY <1>1
<1>2. CASE k \notin 1 .. Len(s)
    <2>1. [s EXCEPT ![k] = e] = s
        BY <1>2
    <2> QED
        BY <1>2, <2>1
<1> QED
    BY <1>1, <1>2

LEMMA PutIn ==
    ASSUME NEW T, NEW s \in Seq(T), NEW n \in 1 .. Len(s) + 1, NEW e \in T
    PROVE  /\ Put(s, n, e) \in Seq(T)
           /\ Len(Put(s, n, e)) = IF n <= Len(s) THEN Len(s) ELSE n
           /\ \A i \in 1 .. Len(s) : i # n => Put(s, n, e)[i] = s[i]
           /\ Put(s, n, e)[n] = e
<1>1. CASE n <= Len(s)
    BY <1>1, ReplaceIn DEF Put
<1>2. CASE ~ n <= Len(s)
    <2>1. n = Len(s) + 1
        BY <1>2
    <2> QED
        BY <1>2, <2>1, AppendTo DEF Put
<1> QED
    BY <1>1, <1>2

LEMMA AppendedMember ==
    ASSUME NEW T, NEW s \in Seq(T), NEW e \in T
    PROVE  ToSet(Append(s, e)) = ToSet(s) \cup {e}
<1>1. \A f : f \in ToSet(Append(s, e)) <=> \E i \in 1 .. Len(s) + 1 : f = Append(s, e)[i]
    BY AppendTo DEF ToSet
<1>2. \A f : f \in ToSet(s) <=> \E i \in 1 .. Len(s) : f = s[i]
    BY DEF ToSet
<1>3. \A i \in 1 .. Len(s) + 1 : i \in 1 .. Len(s) \/ i = Len(s) + 1
    OBVIOUS
<1> QED
    BY <1>1, <1>2, <1>3, AppendTo

LEMMA MinIn ==
    ASSUME NEW S \in SUBSET Nat, S # {}
    PROVE  Min(S) \in S
<1> DEFINE R == OpToRel(<, Nat)
<1>1. IsWellFoundedOn(R, Nat)
    BY NatLessThanWellFounded
<1>2. \A x, y \in Nat : <<y, x>> \in R <=> y < x
    BY DEF OpToRel
<1> HIDE DEF R
<1>3. PICK x \in S : \A y \in S : <<y, x>> \notin R
    BY <1>1, WFMin
<1>4. \A y \in S : x <= y
    <2>1. \A y \in S : ~(y < x)
        BY <1>2, <1>3
    <2> QED
        BY <2>1
<1>5. \E i \in S : \A y \in S : i <= y
    BY <1>4
<1> QED
    BY <1>5 DEF Min

------------------------------------------------------------------------------
(* The devices, the call and bluenet.                                      *)

LEMMA NewDeviceIs ==
    /\ NoDevice \in Device /\ ~NoDevice.connected /\ NoDevice.services = <<>>
    /\ NoDevice.role = None
    /\ \A role \in {"peripheral", "central"}, a \in Peripherals \cup Centrals :
          /\ NewDevice(role, a) \in Device
          /\ ~NewDevice(role, a).connected
          /\ NewDevice(role, a).services = <<>>
          /\ NewDevice(role, a).address = a
          /\ NewDevice(role, a).role = role
<1>1. <<>> \in Seq(1 .. MAX_REMOTE_SERVICES)
    OBVIOUS
<1> QED
    BY <1>1 DEF NoDevice, NewDevice, Device, None

LEMMA DeviceEvents ==
    ASSUME NEW d \in Device
    PROVE  /\ onConnect(d) \in Device /\ onConnect(d).connected = TRUE
           /\ onConnect(d).services = d.services /\ onConnect(d).address = d.address
           /\ onDisconnect(d) \in Device /\ onDisconnect(d).connected = FALSE
           /\ onDisconnect(d).services = <<>>
           /\ onDisconnect(d).address = d.address
           /\ onDiscoverDone(d) \in Device /\ onDiscoverDone(d).connected = d.connected
           /\ onDiscoverDone(d).services = d.services
           /\ onDiscoverDone(d).address = d.address
<1>1. <<>> \in Seq(1 .. MAX_REMOTE_SERVICES)
    OBVIOUS
<1>2. /\ onConnect(d) \in Device /\ onConnect(d).connected = TRUE
      /\ onConnect(d).services = d.services /\ onConnect(d).address = d.address
    BY DEF onConnect, Device
<1>3. /\ onDisconnect(d) \in Device /\ onDisconnect(d).connected = FALSE
      /\ onDisconnect(d).services = <<>>
      /\ onDisconnect(d).address = d.address
    BY <1>1 DEF onDisconnect, Device
<1>4. /\ onDiscoverDone(d) \in Device /\ onDiscoverDone(d).connected = d.connected
      /\ onDiscoverDone(d).services = d.services
      /\ onDiscoverDone(d).address = d.address
    BY DEF onDiscoverDone, Device
<1> QED
    BY <1>2, <1>3, <1>4

LEMMA GetsIs ==
    ASSUME call \in Call, NEW object, NEW i,
           NEW result \in {"NotWaiting", "Waiting", "Success", "Failure"}
    PROVE  /\ Gets(object, i, result) \in Call
           /\ Gets(object, i, result).op = call.op
           /\ Gets(object, i, result).of = call.of
           /\ Gets(object, i, result).index = call.index
           /\ Gets(object, i, result).asyncResult
                 = IF call.of = object /\ call.index = i THEN result ELSE call.asyncResult
BY DEF Gets, Call

LEMMA NoCallIs == NoCall \in Call /\ NoCall.op = None
BY DEF NoCall, Call, None

(* Operations of one kind have the fields of that kind.                    *)
LEMMA OperationIs ==
    ASSUME NEW b \in Operation
    PROVE  /\ b.op = "connect" => b \in [op : {"connect"}, peer : Addresses]
           /\ b.op = "discoverService" => b \in [op : {"discoverService"}, todo : Seq(Finding)]
           /\ b.op \in CharacteristicOps => b \in [op : CharacteristicOps, uuid : RemoteUuids]
BY BleConnectionsAssumption DEF Operation, Idle, None

LEMMA LinkToIs ==
    ASSUME bluenet \in Bluenet, NEW role \in {"peripheral", "central"},
           NEW a \in Addresses, bluenet.links < MaxLinks
    PROVE  /\ LinkTo(role, a) \in Bluenet
           /\ LinkTo(role, a).link.role = role
           /\ LinkTo(role, a).link.peer = a
           /\ LinkTo(role, a).busy = IF bluenet.busy.op = "connect" THEN Idle ELSE bluenet.busy
<1>1. Idle \in Operation
    BY DEF Operation
<1>2. bluenet.links + 1 \in 0 .. MaxLinks
    BY BleConnectionsAssumption DEF Bluenet
<1> QED
    BY <1>1, <1>2 DEF LinkTo, Bluenet

LEMMA LinkDownIs ==
    ASSUME bluenet \in Bluenet
    PROVE  /\ LinkDown \in Bluenet
           /\ LinkDown.link = NoLink
           /\ LinkDown.busy = IF bluenet.busy.op = "disconnect" THEN Idle ELSE bluenet.busy
           /\ LinkDown.links = bluenet.links
<1>1. Idle \in Operation
    BY DEF Operation
<1>2. NoLink \in [role : {None, "peripheral", "central"}, peer : Addresses]
    BY DEF NoLink, Addresses
<1> QED
    BY <1>1, <1>2 DEF LinkDown, Bluenet

LEMMA DoneIs ==
    ASSUME bluenet \in Bluenet
    PROVE  /\ Done \in Bluenet
           /\ Done.busy = Idle
           /\ Done.link = bluenet.link
<1>1. Idle \in Operation
    BY DEF Operation
<1> QED
    BY <1>1 DEF Done, Bluenet

(* A request is worked on: links is what it was.                           *)
LEMMA InProgressIs ==
    ASSUME bluenet \in Bluenet, NEW op \in Operation,
           op.op \in {"connect", "disconnect", "discoverService"} \cup CharacteristicOps,
           NEW object \in {"peripheral", "central", "characteristic"}, NEW i \in Nat,
           InProgress(op, object, i)
    PROVE  /\ bluenet.busy = Idle
           /\ bluenet' \in Bluenet
           /\ bluenet'.busy = op
           /\ bluenet'.link = bluenet.link
           /\ bluenet'.links = bluenet.links
           /\ call' \in Call
           /\ call'.op = op.op /\ call'.of = object /\ call'.index = i
           /\ call'.asyncResult = "Waiting"
<1>1. bluenet.busy = Idle /\ bluenet' = [bluenet EXCEPT !.busy = op]
    BY DEF InProgress
<1>2. call' = [op |-> op.op, of |-> object, index |-> i, asyncResult |-> "Waiting"]
    BY DEF InProgress
<1>3. /\ bluenet' \in Bluenet /\ bluenet'.busy = op /\ bluenet'.link = bluenet.link
      /\ bluenet'.links = bluenet.links
    BY <1>1 DEF Bluenet
<1> QED
    BY <1>1, <1>2, <1>3 DEF Call

------------------------------------------------------------------------------
(* The tables.                                                             *)

LEMMA SizesAreNatural ==
    /\ MAX_REMOTE_SERVICES \in Nat
    /\ MAX_CHARACTERISTICS_PER_SERVICE \in Nat
    /\ MAX_REMOTE_CHARACTERISTICS \in Nat
<1>1. MAX_REMOTE_SERVICES \in Nat /\ MAX_CHARACTERISTICS_PER_SERVICE \in Nat
    BY BleConnectionsAssumption
<1> QED
    BY <1>1 DEF MAX_REMOTE_CHARACTERISTICS

LEMMA NewEntries ==
    /\ \A u \in Uuids :
          [uuid |-> u, characteristics |-> <<>>, here |-> TRUE] \in RemoteService
    /\ \A c \in RemoteUuids :
          [uuid |-> c, here |-> TRUE, remoteValueUpdated |-> FALSE, news |-> FALSE]
             \in RemoteCharacteristic
<1>1. <<>> \in Seq(1 .. MAX_REMOTE_CHARACTERISTICS)
    OBVIOUS
<1> QED
    BY <1>1 DEF RemoteService, RemoteCharacteristic, RemoteUuids

(* The service is put in its place, and counted or not.                    *)
LEMMA ServiceAdded ==
    ASSUME TablesTyped, peripheral \in Device, NEW u \in Uuids, addDiscoveredService(u),
           NEW n, n = remoteServiceCount + 1
    PROVE  /\ peripheral' \in Device
           /\ TablesTyped'
           /\ n <= MAX_REMOTE_SERVICES
           /\ UNCHANGED <<remoteCharacteristics, remoteCharacteristicCount>>
           /\ \A k \in 1 .. remoteServiceCount : remoteServices'[k] = remoteServices[k]
           /\ remoteServices'[n].characteristics = <<>>
           /\ remoteServices'[n].here
           /\ remoteServices'[n].uuid = u
           /\ peripheral'.connected = peripheral.connected
           /\ peripheral'.role = peripheral.role
           /\ peripheral'.address = peripheral.address
           /\ Len(peripheral.services) < MAX_REMOTE_SERVICES =>
                 /\ remoteServiceCount' = n
                 /\ peripheral'.services = Append(peripheral.services, n)
           /\ ~ Len(peripheral.services) < MAX_REMOTE_SERVICES =>
                 UNCHANGED <<peripheral, remoteServiceCount>>
<1> DEFINE e == [uuid |-> u, characteristics |-> <<>>, here |-> TRUE]
<1> DEFINE p == [peripheral EXCEPT !.services = Append(@, n)]
<1>1. /\ remoteServiceCount \in Nat /\ remoteServiceCount <= Len(remoteServices)
      /\ Len(remoteServices) \in Nat
      /\ n \in 1 .. Len(remoteServices) + 1
    BY DEF TablesTyped
<1>2. /\ n <= MAX_REMOTE_SERVICES
      /\ remoteServices' = Put(remoteServices, n, e)
      /\ UNCHANGED <<remoteCharacteristics, remoteCharacteristicCount>>
      /\ Len(peripheral.services) < MAX_REMOTE_SERVICES =>
            peripheral' = p /\ remoteServiceCount' = n
      /\ ~ Len(peripheral.services) < MAX_REMOTE_SERVICES =>
            UNCHANGED <<peripheral, remoteServiceCount>>
    BY DEF addDiscoveredService
<1>3. e \in RemoteService /\ e.characteristics = <<>> /\ e.here /\ e.uuid = u
    BY NewEntries
<1>4. n \in 1 .. MAX_REMOTE_SERVICES
    BY <1>1, <1>2, SizesAreNatural
<1>5. /\ p \in Device
      /\ p.connected = peripheral.connected /\ p.address = peripheral.address
      /\ p.role = peripheral.role
      /\ p.services = Append(peripheral.services, n)
    <2>1. peripheral.services \in Seq(1 .. MAX_REMOTE_SERVICES)
        BY DEF Device
    <2>2. Append(peripheral.services, n) \in Seq(1 .. MAX_REMOTE_SERVICES)
        BY <1>4, <2>1, AppendTo
    <2> QED
        BY <2>2 DEF Device
<1> HIDE DEF e, p
<1>6. /\ remoteServices' \in Seq(RemoteService)
      /\ Len(remoteServices') = IF n <= Len(remoteServices) THEN Len(remoteServices) ELSE n
      /\ \A i \in 1 .. Len(remoteServices) : i # n => remoteServices'[i] = remoteServices[i]
      /\ remoteServices'[n] = e
    <2>1. remoteServices \in Seq(RemoteService) /\ e \in RemoteService
        BY <1>3 DEF TablesTyped
    <2>2. n \in 1 .. Len(remoteServices) + 1
        BY <1>1
    <2> DEFINE t == Put(remoteServices, n, e)
    <2>3. t \in Seq(RemoteService) /\ t[n] = e
        BY <2>1, <2>2, PutIn
    <2>5. Len(t) = IF n <= Len(remoteServices) THEN Len(remoteServices) ELSE n
        BY <2>1, <2>2, PutIn
    <2>6. \A i \in 1 .. Len(remoteServices) : i # n => t[i] = remoteServices[i]
        BY <2>1, <2>2, PutIn
    <2>4. remoteServices' = t
        BY <1>2
    <2> HIDE DEF t
    <2> QED
        BY <2>3, <2>4, <2>5, <2>6
<1>7. /\ n <= Len(remoteServices') /\ Len(remoteServices) <= Len(remoteServices')
      /\ Len(remoteServices') <= MAX_REMOTE_SERVICES
    BY <1>1, <1>2, <1>6, SizesAreNatural DEF TablesTyped
<1>8. TablesTyped'
    BY <1>1, <1>2, <1>6, <1>7 DEF TablesTyped
<1>9. \A k \in 1 .. remoteServiceCount : remoteServices'[k] = remoteServices[k]
    BY <1>1, <1>6
<1> QED
    BY <1>2, <1>3, <1>5, <1>6, <1>8, <1>9

LEMMA FirstWithIs ==
    ASSUME peripheral \in Device, NEW u, ServicesWith(u) # {}
    PROVE  /\ FirstWith(u) \in ToSet(peripheral.services)
           /\ remoteServices[FirstWith(u)].uuid = u
<1>1. DOMAIN peripheral.services \subseteq Nat
    BY DEF Device
<1>2. ServicesWith(u) \in SUBSET Nat /\ ServicesWith(u) \subseteq DOMAIN peripheral.services
    BY <1>1 DEF ServicesWith
<1>3. Min(ServicesWith(u)) \in ServicesWith(u)
    BY <1>2, MinIn
<1> QED
    BY <1>2, <1>3 DEF FirstWith, ServicesWith, ToSet

(* A service with one characteristic more.                                 *)
Grown(found, s, n) == [found EXCEPT ![s].characteristics = Append(@, n)]

LEMMA WithOneMore ==
    ASSUME NEW found \in Seq(RemoteService), NEW s, NEW n \in 1 .. MAX_REMOTE_CHARACTERISTICS
    PROVE  /\ Grown(found, s, n) \in Seq(RemoteService)
           /\ Len(Grown(found, s, n)) = Len(found)
           /\ \A k \in 1 .. Len(found) :
                 /\ Grown(found, s, n)[k].here = found[k].here
                 /\ Grown(found, s, n)[k].uuid = found[k].uuid
                 /\ k # s => Grown(found, s, n)[k] = found[k]
                 /\ k = s => ToSet(Grown(found, s, n)[k].characteristics)
                                = ToSet(found[k].characteristics) \cup {n}
<1> DEFINE grown == Grown(found, s, n)
<1> DEFINE e == [found[s] EXCEPT !.characteristics = Append(@, n)]
<1>1. CASE s \in 1 .. Len(found)
    <2>1. found[s] \in RemoteService
        BY <1>1
    <2>2. found[s].characteristics \in Seq(1 .. MAX_REMOTE_CHARACTERISTICS)
        BY <2>1 DEF RemoteService
    <2>3. Append(found[s].characteristics, n) \in Seq(1 .. MAX_REMOTE_CHARACTERISTICS)
        BY <2>2, AppendTo
    <2>4. /\ e \in RemoteService
          /\ e.here = found[s].here /\ e.uuid = found[s].uuid
          /\ e.characteristics = Append(found[s].characteristics, n)
        BY <2>1, <2>3 DEF RemoteService
    <2>5. grown = [found EXCEPT ![s] = e]
        BY <2>4 DEF Grown
    <2>6. ToSet(e.characteristics) = ToSet(found[s].characteristics) \cup {n}
        <3>1. ToSet(Append(found[s].characteristics, n))
                 = ToSet(found[s].characteristics) \cup {n}
            <4> DEFINE P == 1 .. MAX_REMOTE_CHARACTERISTICS
            <4>1. found[s].characteristics \in Seq(P) /\ n \in P
                BY <2>2
            <4> HIDE DEF P
            <4> QED
                BY <4>1, AppendedMember
        <3> QED
            BY <2>4, <3>1
    <2> HIDE DEF e, grown
    <2>7. /\ grown \in Seq(RemoteService)
          /\ Len(grown) = Len(found)
          /\ \A i \in 1 .. Len(found) : grown[i] = IF i = s THEN e ELSE found[i]
        <3>1. e \in RemoteService
            BY <2>4
        <3>2. [found EXCEPT ![s] = e] \in Seq(RemoteService)
            BY <3>1, ReplaceIn
        <3>3. Len([found EXCEPT ![s] = e]) = Len(found)
            BY <3>1, ReplaceIn
        <3>4. \A i \in 1 .. Len(found) :
                 [found EXCEPT ![s] = e][i] = IF i = s THEN e ELSE found[i]
            BY <3>1, ReplaceIn
        <3> QED
            BY <2>5, <3>2, <3>3, <3>4
    <2> QED
        BY <2>4, <2>6, <2>7 DEF grown
<1>2. CASE s \notin 1 .. Len(found)
    <2>1. grown = found
        BY <1>2 DEF Grown
    <2> QED
        BY <1>2, <2>1
<1> QED
    BY <1>1, <1>2

(* A service u of the peripheral gets the characteristic of entry n.       *)
GetsEntry(u, n) ==
    /\ remoteCharacteristicCount' = n
    /\ \E s \in ToSet(peripheral.services) :
          /\ remoteServices[s].uuid = u
          /\ \A k \in 1 .. Len(remoteServices) :
                /\ k # s => remoteServices'[k] = remoteServices[k]
                /\ k = s => ToSet(remoteServices'[k].characteristics)
                               = ToSet(remoteServices[k].characteristics) \cup {n}

(* The characteristic is put in its place, and counted or not.             *)
LEMMA CharacteristicAdded ==
    ASSUME TablesTyped, peripheral \in Device, NEW u, NEW c \in RemoteUuids,
           addDiscoveredCharacteristic(u, c),
           NEW n, n = remoteCharacteristicCount + 1
    PROVE  /\ TablesTyped'
           /\ n \in 1 .. Len(remoteCharacteristics')
           /\ Len(remoteServices') = Len(remoteServices)
           /\ UNCHANGED <<peripheral, remoteServiceCount>>
           /\ \A i \in 1 .. Len(remoteCharacteristics) :
                 i # n => remoteCharacteristics'[i] = remoteCharacteristics[i]
           /\ \A i \in 1 .. Len(remoteCharacteristics') :
                 i \in 1 .. Len(remoteCharacteristics) \/ i = n
           /\ remoteCharacteristics'[n].here
           /\ ~remoteCharacteristics'[n].news
           /\ remoteCharacteristics'[n].uuid = c
           /\ \A k \in 1 .. Len(remoteServices) :
                 /\ remoteServices'[k].here = remoteServices[k].here
                 /\ remoteServices'[k].uuid = remoteServices[k].uuid
           /\ \/ GetsEntry(u, n)
              \/ UNCHANGED <<remoteServices, remoteCharacteristicCount>>
<1> DEFINE e == [uuid |-> c, here |-> TRUE, remoteValueUpdated |-> FALSE, news |-> FALSE]
<1> DEFINE t == Put(remoteCharacteristics, n, e)
<1>1. /\ remoteCharacteristicCount \in Nat
      /\ remoteCharacteristicCount <= Len(remoteCharacteristics)
      /\ Len(remoteCharacteristics) \in Nat
    BY DEF TablesTyped
<1>2. n \in 1 .. Len(remoteCharacteristics) + 1
    BY <1>1
<1>3. /\ n <= MAX_REMOTE_CHARACTERISTICS
      /\ remoteCharacteristics' = t
      /\ UNCHANGED <<peripheral, remoteServiceCount>>
    BY DEF addDiscoveredCharacteristic
<1>4. e \in RemoteCharacteristic /\ e.here /\ ~e.news /\ e.uuid = c
    BY NewEntries
<1> HIDE DEF e
<1>5. remoteCharacteristics \in Seq(RemoteCharacteristic)
    BY DEF TablesTyped
<1>6. t \in Seq(RemoteCharacteristic) /\ t[n] = e
    BY <1>2, <1>4, <1>5, PutIn
<1>7. Len(t) = IF n <= Len(remoteCharacteristics) THEN Len(remoteCharacteristics) ELSE n
    BY <1>2, <1>4, <1>5, PutIn
<1>8. \A i \in 1 .. Len(remoteCharacteristics) : i # n => t[i] = remoteCharacteristics[i]
    BY <1>2, <1>4, <1>5, PutIn
<1> HIDE DEF t
<1>9. /\ n <= Len(t) /\ Len(remoteCharacteristics) <= Len(t)
      /\ Len(t) <= MAX_REMOTE_CHARACTERISTICS
      /\ Len(t) \in Nat
    BY <1>1, <1>2, <1>3, <1>7, SizesAreNatural DEF TablesTyped
<1>10. \A i \in 1 .. Len(t) : i \in 1 .. Len(remoteCharacteristics) \/ i = n
    BY <1>1, <1>2, <1>7
<1>11. n \in 1 .. MAX_REMOTE_CHARACTERISTICS
    BY <1>2, <1>3, SizesAreNatural
<1> DEFINE Outcome ==
       /\ TablesTyped'
       /\ Len(remoteServices') = Len(remoteServices)
       /\ \A k \in 1 .. Len(remoteServices) :
             /\ remoteServices'[k].here = remoteServices[k].here
             /\ remoteServices'[k].uuid = remoteServices[k].uuid
       /\ \/ GetsEntry(u, n)
          \/ UNCHANGED <<remoteServices, remoteCharacteristicCount>>
<1>12. ASSUME ServicesWith(u) # {}, HasRoom(FirstWith(u))
       PROVE  Outcome
    <2> DEFINE s == FirstWith(u)
    <2>1. /\ remoteServices' = Grown(remoteServices, s, n)
          /\ remoteCharacteristicCount' = n
        BY <1>12 DEF addDiscoveredCharacteristic, Grown
    <2>2. s \in ToSet(peripheral.services) /\ remoteServices[s].uuid = u
        BY <1>12, FirstWithIs
    <2> HIDE DEF s
    <2>3. remoteServices \in Seq(RemoteService)
        BY DEF TablesTyped
    <2>4. /\ remoteServices' \in Seq(RemoteService)
          /\ Len(remoteServices') = Len(remoteServices)
          /\ \A k \in 1 .. Len(remoteServices) :
                 /\ remoteServices'[k].here = remoteServices[k].here
                 /\ remoteServices'[k].uuid = remoteServices[k].uuid
                 /\ k # s => remoteServices'[k] = remoteServices[k]
                 /\ k = s => ToSet(remoteServices'[k].characteristics)
                                = ToSet(remoteServices[k].characteristics) \cup {n}
        BY <1>11, <2>1, <2>3, WithOneMore
    <2>5. TablesTyped'
        BY <1>2, <1>3, <1>6, <1>9, <2>1, <2>4 DEF TablesTyped
    <2> QED
        BY <2>1, <2>2, <2>4, <2>5 DEF GetsEntry
<1>13. ASSUME ~ (ServicesWith(u) # {} /\ HasRoom(FirstWith(u)))
       PROVE  Outcome
    <2>1. UNCHANGED <<remoteServices, remoteCharacteristicCount>>
        BY <1>13 DEF addDiscoveredCharacteristic
    <2>2. TablesTyped'
        BY <1>1, <1>3, <1>6, <1>9, <2>1 DEF TablesTyped
    <2> QED
        BY <2>1, <2>2
<1>14. n \in 1 .. Len(t)
    BY <1>2, <1>9
<1> QED
    BY <1>3, <1>4, <1>6, <1>8, <1>10, <1>12, <1>13, <1>14

(* What was found is kept, only not on the next link.                      *)
LEMMA ServicesElsewhere ==
    ASSUME NEW found \in Seq(RemoteService)
    PROVE  /\ Elsewhere(found) \in Seq(RemoteService)
           /\ Len(Elsewhere(found)) = Len(found)
           /\ \A k \in 1 .. Len(found) :
                 /\ Elsewhere(found)[k].characteristics = found[k].characteristics
                 /\ Elsewhere(found)[k].uuid = found[k].uuid
<1> DEFINE e(i) == [found[i] EXCEPT !.here = FALSE]
<1>1. ASSUME NEW i \in 1 .. Len(found)
      PROVE  /\ e(i) \in RemoteService
             /\ e(i).characteristics = found[i].characteristics
             /\ e(i).uuid = found[i].uuid
    <2>1. found[i] \in RemoteService
        OBVIOUS
    <2> QED
        BY <2>1 DEF RemoteService
<1>2. DOMAIN found = 1 .. Len(found) /\ Len(found) \in Nat
    OBVIOUS
<1>3. Elsewhere(found) = [i \in 1 .. Len(found) |-> e(i)]
    BY <1>2 DEF Elsewhere
<1> HIDE DEF e
<1>4. Elsewhere(found) \in Seq(RemoteService) /\ Len(Elsewhere(found)) = Len(found)
    BY <1>1, <1>2, <1>3
<1> QED
    BY <1>1, <1>3, <1>4

LEMMA CharacteristicsElsewhere ==
    ASSUME NEW found \in Seq(RemoteCharacteristic)
    PROVE  /\ Elsewhere(found) \in Seq(RemoteCharacteristic)
           /\ Len(Elsewhere(found)) = Len(found)
           /\ \A k \in 1 .. Len(found) :
                 /\ Elsewhere(found)[k].news = found[k].news
                 /\ Elsewhere(found)[k].remoteValueUpdated = found[k].remoteValueUpdated
                 /\ Elsewhere(found)[k].uuid = found[k].uuid
<1> DEFINE e(i) == [found[i] EXCEPT !.here = FALSE]
<1>1. ASSUME NEW i \in 1 .. Len(found)
      PROVE  /\ e(i) \in RemoteCharacteristic
             /\ e(i).news = found[i].news
             /\ e(i).remoteValueUpdated = found[i].remoteValueUpdated
             /\ e(i).uuid = found[i].uuid
    <2>1. found[i] \in RemoteCharacteristic
        OBVIOUS
    <2> QED
        BY <2>1 DEF RemoteCharacteristic
<1>2. DOMAIN found = 1 .. Len(found) /\ Len(found) \in Nat
    OBVIOUS
<1>3. Elsewhere(found) = [i \in 1 .. Len(found) |-> e(i)]
    BY <1>2 DEF Elsewhere
<1> HIDE DEF e
<1>4. Elsewhere(found) \in Seq(RemoteCharacteristic) /\ Len(Elsewhere(found)) = Len(found)
    BY <1>1, <1>2, <1>3
<1> QED
    BY <1>1, <1>3, <1>4

(* One characteristic is marked.                                           *)
Marked(table, i, news, updated) ==
    [table EXCEPT ![i] = [@ EXCEPT !.news = news, !.remoteValueUpdated = updated]]

LEMMA MarkedIs ==
    ASSUME NEW table \in Seq(RemoteCharacteristic), NEW i, NEW news, NEW updated,
           i \in 1 .. Len(table) => news \in BOOLEAN /\ updated \in BOOLEAN
    PROVE  /\ Marked(table, i, news, updated) \in Seq(RemoteCharacteristic)
           /\ Len(Marked(table, i, news, updated)) = Len(table)
           /\ \A k \in 1 .. Len(table) :
                 /\ Marked(table, i, news, updated)[k].here = table[k].here
                 /\ k # i => Marked(table, i, news, updated)[k] = table[k]
                 /\ k = i => /\ Marked(table, i, news, updated)[k].news = news
                             /\ Marked(table, i, news, updated)[k].remoteValueUpdated = updated
<1> DEFINE marked == Marked(table, i, news, updated)
<1> DEFINE e == [table[i] EXCEPT !.news = news, !.remoteValueUpdated = updated]
<1>1. i \in 1 .. Len(table) =>
         /\ e \in RemoteCharacteristic
         /\ e.here = table[i].here /\ e.news = news /\ e.remoteValueUpdated = updated
    <2>1. i \in 1 .. Len(table) => table[i] \in RemoteCharacteristic
        OBVIOUS
    <2> QED
        BY <2>1 DEF RemoteCharacteristic
<1>2. marked = [table EXCEPT ![i] = e]
    BY DEF Marked
<1> HIDE DEF e
<1>3. /\ [table EXCEPT ![i] = e] \in Seq(RemoteCharacteristic)
      /\ Len([table EXCEPT ![i] = e]) = Len(table)
      /\ \A k \in 1 .. Len(table) : [table EXCEPT ![i] = e][k] = IF k = i THEN e ELSE table[k]
    <2>1. i \in 1 .. Len(table) => e \in RemoteCharacteristic
        BY <1>1
    <2>2. [table EXCEPT ![i] = e] \in Seq(RemoteCharacteristic)
        BY <2>1, ReplaceIn
    <2>3. Len([table EXCEPT ![i] = e]) = Len(table)
        BY <2>1, ReplaceIn
    <2>4. \A k \in 1 .. Len(table) : [table EXCEPT ![i] = e][k] = IF k = i THEN e ELSE table[k]
        BY <2>1, ReplaceIn
    <2> QED
        BY <2>2, <2>3, <2>4
<1> QED
    BY <1>1, <1>2, <1>3

(* The reading call, the event and the notification only mark.             *)
LEMMA MarksAre ==
    ASSUME NEW table \in Seq(RemoteCharacteristic), NEW i
    PROVE  /\ [table EXCEPT ![i].remoteValueUpdated = FALSE]
                 = Marked(table, i, table[i].news, FALSE)
           /\ \A news : [table EXCEPT ![i].news = news]
                 = Marked(table, i, news, table[i].remoteValueUpdated)
           /\ \A news : [table EXCEPT ![i] = [table[i] EXCEPT !.remoteValueUpdated = TRUE,
                                                              !.news = news]]
                 = Marked(table, i, news, TRUE)
<1>1. CASE i \in 1 .. Len(table)
    <2>1. table[i] \in RemoteCharacteristic
        BY <1>1
    <2>2. [table EXCEPT ![i].remoteValueUpdated = FALSE]
              = Marked(table, i, table[i].news, FALSE)
        <3>1. [table[i] EXCEPT !.remoteValueUpdated = FALSE]
                = [table[i] EXCEPT !.news = table[i].news, !.remoteValueUpdated = FALSE]
            BY <2>1 DEF RemoteCharacteristic
        <3> QED
            BY <3>1 DEF Marked
    <2>3. \A news : [table EXCEPT ![i].news = news]
              = Marked(table, i, news, table[i].remoteValueUpdated)
        <3>1. \A news : [table[i] EXCEPT !.news = news]
                = [table[i] EXCEPT !.news = news,
                                   !.remoteValueUpdated = table[i].remoteValueUpdated]
            BY <2>1 DEF RemoteCharacteristic
        <3> QED
            BY <3>1 DEF Marked
    <2>4. \A news : [table EXCEPT ![i] = [table[i] EXCEPT !.remoteValueUpdated = TRUE,
                                                          !.news = news]]
              = Marked(table, i, news, TRUE)
        <3>1. \A news : [table[i] EXCEPT !.remoteValueUpdated = TRUE, !.news = news]
                = [table[i] EXCEPT !.news = news, !.remoteValueUpdated = TRUE]
            BY <2>1 DEF RemoteCharacteristic
        <3> QED
            BY <3>1 DEF Marked
    <2> QED
        BY <2>2, <2>3, <2>4
<1>2. CASE i \notin 1 .. Len(table)
    BY <1>2 DEF Marked
<1> QED
    BY <1>1, <1>2

LEMMA ScannedIs ==
    ASSUME NEW d \in {NoDevice} \cup {NewDevice("peripheral", a) : a \in Peripherals}
    PROVE  d \in Device /\ ~d.connected /\ d.services = <<>>
<1>1. CASE d = NoDevice
    BY <1>1, NewDeviceIs
<1>2. ASSUME NEW a \in Peripherals, d = NewDevice("peripheral", a)
      PROVE  d \in Device /\ ~d.connected /\ d.services = <<>>
    <2>1. a \in Peripherals \cup Centrals /\ "peripheral" \in {"peripheral", "central"}
        OBVIOUS
    <2> QED
        BY <1>2, <2>1, NewDeviceIs
<1> QED
    BY <1>1, <1>2

(* What bluenet finds for a service.                                       *)
LEMMA FoundIs ==
    ASSUME NEW u \in Uuids, NEW peer
    PROVE  Found(u, peer) \in Seq(Finding)
<1> DEFINE cs == CharacteristicsOf[u]
<1> DEFINE s == [service |-> u, characteristic |-> None]
<1> DEFINE cf == [i \in DOMAIN cs |-> [service |-> u, characteristic |-> cs[i]]]
<1>1. cs \in Seq(ToSet(cs)) /\ ToSet(cs) \subseteq RemoteUuids
    BY BleConnectionsAssumption DEF RemoteUuids
<1>2. DOMAIN cs = 1 .. Len(cs) /\ Len(cs) \in Nat
    BY <1>1
<1>3. \A i \in 1 .. Len(cs) : cs[i] \in RemoteUuids
    BY <1>1
<1> HIDE DEF cs
<1>4. \A i \in 1 .. Len(cs) : [service |-> u, characteristic |-> cs[i]] \in Finding
    BY <1>3 DEF Finding
<1>5. cf \in Seq(Finding)
    BY <1>2, <1>4
<1>6. s \in Finding
    BY DEF Finding
<1>7. <<s>> \o cf \in Seq(Finding)
    <2> HIDE DEF s, cf
    <2> QED
        BY <1>5, <1>6
<1>8. Found(u, peer) = IF u \notin Offered[peer] THEN <<>> ELSE <<s>> \o cf
    BY DEF Found, cs
<1> HIDE DEF s, cf
<1> QED
    BY <1>7, <1>8

------------------------------------------------------------------------------
(* The types are kept.                                                     *)

LEMMA InitTyped == Init => Typed
<1> SUFFICES ASSUME Init PROVE Typed
    OBVIOUS
<1>1. DevicesTyped
    BY NewDeviceIs DEF Init, DevicesTyped
<1>2. TablesTyped
    BY SizesAreNatural DEF Init, TablesTyped
<1>3. BluenetTyped
    BY BleConnectionsAssumption
       DEF Init, BluenetTyped, Bluenet, NoLink, Addresses, Operation, Idle, None
<1> QED
    BY <1>1, <1>2, <1>3, NoCallIs DEF Init, Typed

LEMMA UserCallTyped ==
    ASSUME Typed, UserCall
    PROVE  Typed'
<1> USE DEF Typed
<1>1. CASE begin \/ scan \/ stopScan
    <2>1. initialized' \in BOOLEAN /\ isScanning' \in BOOLEAN
        BY <1>1 DEF begin, scan, stopScan
    <2>2. scanDevice' \in Device
        BY <1>1, ScannedIs DEF begin, scan, stopScan, devices, DevicesTyped
    <2>3. UNCHANGED <<peripheral, central, tables, call, bluenet, lost>>
        BY <1>1 DEF begin, scan, stopScan, devices
    <2> QED
        BY <2>1, <2>2, <2>3 DEF tables, DevicesTyped, TablesTyped, BluenetTyped
<1>2. CASE end
    <2>1. call' \in Call
        BY <1>2, GetsIs DEF end
    <2> QED
        BY <1>2, <2>1, NewDeviceIs DEF end, tables, DevicesTyped, TablesTyped, BluenetTyped
<1>3. CASE available
    <2>1. call' \in Call
        BY <1>3, GetsIs DEF available
    <2> QED
        BY <1>3, <2>1, NewDeviceIs DEF available, tables, DevicesTyped, TablesTyped, BluenetTyped
<1>4. CASE getCentral
    <2>1. call' \in Call
        BY <1>4, GetsIs DEF getCentral
    <2> QED
        BY <1>4, <2>1, NewDeviceIs
           DEF getCentral, tables, DevicesTyped, TablesTyped, BluenetTyped
<1>5. ASSUME NEW op \in Operation,
             op.op \in {"connect", "disconnect", "discoverService"} \cup CharacteristicOps,
             NEW object \in {"peripheral", "central", "characteristic"}, NEW i \in Nat,
             InProgress(op, object, i),
             op.op = "connect" => bluenet.links < MaxLinks,
             UNCHANGED <<initialized, isScanning, devices, tables, lost>>
      PROVE  Typed'
    <2>1. call' \in Call /\ BluenetTyped'
        BY <1>5, InProgressIs DEF BluenetTyped
    <2> QED
        BY <1>5, <2>1 DEF devices, tables, DevicesTyped, TablesTyped
<1>6. CASE connect
    <2> DEFINE op == [op |-> "connect", peer |-> peripheral.address]
    <2>1. op \in Operation /\ op.op = "connect"
        BY DEF DevicesTyped, Device, Operation, Addresses
    <2>2. InProgress(op, "peripheral", 0) /\ bluenet.links < MaxLinks
          /\ UNCHANGED <<initialized, isScanning, devices, tables, lost>>
        BY <1>6 DEF connect
    <2> HIDE DEF op
    <2> QED
        BY <1>5, <2>1, <2>2
<1>7. CASE disconnect
    <2> DEFINE op == [op |-> "disconnect"]
    <2>1. op \in Operation /\ op.op = "disconnect"
        BY DEF Operation
    <2>2. /\ InProgress(op, "peripheral", 0) \/ InProgress(op, "central", 0)
          /\ UNCHANGED <<initialized, isScanning, devices, tables, lost>>
        BY <1>7 DEF disconnect
    <2> HIDE DEF op
    <2> QED
        BY <1>5, <2>1, <2>2
<1>8. ASSUME NEW u \in Uuids, discoverService(u)
      PROVE  Typed'
    <2> DEFINE op == [op |-> "discoverService", todo |-> Found(u, bluenet.link.peer)]
    <2>1. Found(u, bluenet.link.peer) \in Seq(Finding)
        BY FoundIs
    <2>2. op \in Operation /\ op.op = "discoverService"
        BY <2>1 DEF Operation
    <2>3. InProgress(op, "peripheral", 0)
          /\ UNCHANGED <<initialized, isScanning, devices, tables, lost>>
        BY <1>8 DEF discoverService
    <2> HIDE DEF op
    <2> QED
        BY <1>5, <2>2, <2>3
<1>9. ASSUME NEW o \in CharacteristicOps, NEW i \in DOMAIN remoteCharacteristics,
             CharacteristicCall(o, i)
      PROVE  Typed'
    <2> DEFINE op == [op |-> o, uuid |-> remoteCharacteristics[i].uuid]
    <2>1. remoteCharacteristics[i] \in RemoteCharacteristic /\ i \in Nat
        BY DEF TablesTyped
    <2>2. op \in Operation /\ op.op = o /\ o # "connect"
        BY <2>1, BleConnectionsAssumption DEF Operation, RemoteCharacteristic, RemoteUuids
    <2>3. InProgress(op, "characteristic", i)
          /\ UNCHANGED <<initialized, isScanning, devices, tables, lost>>
        BY <1>9 DEF CharacteristicCall
    <2> HIDE DEF op
    <2> QED
        BY <1>5, <2>1, <2>2, <2>3
<1> QED
    BY <1>1, <1>2, <1>3, <1>4, <1>6, <1>7, <1>8, <1>9 DEF UserCall

LEMMA HeadAndTail ==
    ASSUME NEW T, NEW s \in Seq(T), s # <<>>
    PROVE  Head(s) \in T /\ Tail(s) \in Seq(T)
OBVIOUS

(* The events of characteristics mark one of them at most.                 *)
LEMMA MarkedTyped ==
    ASSUME TablesTyped, NEW i, NEW news, NEW updated,
           i \in 1 .. Len(remoteCharacteristics) => news \in BOOLEAN /\ updated \in BOOLEAN,
           remoteCharacteristics' = Marked(remoteCharacteristics, i, news, updated),
           UNCHANGED <<remoteServices, remoteServiceCount, remoteCharacteristicCount>>
    PROVE  TablesTyped'
<1>1. remoteCharacteristics \in Seq(RemoteCharacteristic)
    BY DEF TablesTyped
<1>2. /\ remoteCharacteristics' \in Seq(RemoteCharacteristic)
      /\ Len(remoteCharacteristics') = Len(remoteCharacteristics)
    BY <1>1, MarkedIs
<1> QED
    BY <1>2 DEF TablesTyped

LEMMA MarksAreBoolean ==
    ASSUME TablesTyped, NEW i \in 1 .. Len(remoteCharacteristics)
    PROVE  /\ remoteCharacteristics[i].news \in BOOLEAN
           /\ remoteCharacteristics[i].remoteValueUpdated \in BOOLEAN
<1>1. remoteCharacteristics[i] \in RemoteCharacteristic
    BY DEF TablesTyped
<1> QED
    BY <1>1 DEF RemoteCharacteristic

LEMMA CallEndsTyped ==
    ASSUME Typed, CallTimesOut \/ CallReturns
    PROVE  Typed'
<1> USE DEF Typed
<1>1. CASE CallTimesOut
    BY <1>1, NoCallIs DEF CallTimesOut, devices, tables, DevicesTyped, TablesTyped, BluenetTyped
<1>2. CASE CallReturns
    <2> DEFINE i == call.index
    <2>1. /\ call' = NoCall
          /\ UNCHANGED <<initialized, isScanning, devices, remoteServices,
                         remoteServiceCount, remoteCharacteristicCount, bluenet, lost>>
          /\ \/ remoteCharacteristics' = remoteCharacteristics
             \/ remoteCharacteristics'
                   = [remoteCharacteristics EXCEPT ![i].remoteValueUpdated = FALSE]
        BY <1>2 DEF CallReturns
    <2> HIDE DEF i
    <2>2. TablesTyped'
        <3>1. CASE remoteCharacteristics' = remoteCharacteristics
            BY <2>1, <3>1 DEF TablesTyped
        <3>2. CASE remoteCharacteristics'
                      = [remoteCharacteristics EXCEPT ![i].remoteValueUpdated = FALSE]
            <4>1. remoteCharacteristics \in Seq(RemoteCharacteristic)
                BY DEF TablesTyped
            <4>2. remoteCharacteristics' = Marked(remoteCharacteristics, i,
                                                  remoteCharacteristics[i].news, FALSE)
                BY <3>2, <4>1, MarksAre
            <4>3. i \in 1 .. Len(remoteCharacteristics)
                     => remoteCharacteristics[i].news \in BOOLEAN /\ FALSE \in BOOLEAN
                BY MarksAreBoolean
            <4> QED
                BY <2>1, <4>2, <4>3, MarkedTyped
        <3> QED
            BY <2>1, <3>1, <3>2
    <2> QED
        BY <2>1, <2>2, NoCallIs DEF devices, DevicesTyped, BluenetTyped
<1> QED
    BY <1>1, <1>2

LEMMA ConnectionEventTyped ==
    ASSUME Typed,
           \/ CentralEventConnect \/ CentralEventDisconnect
           \/ \E a \in Centrals : PeripheralEventConnect(a)
           \/ PeripheralEventDisconnect
    PROVE  Typed'
<1> USE DEF Typed
<1>1. CASE CentralEventConnect
    <2>1. bluenet.busy \in Operation /\ bluenet.busy.op = "connect"
        BY <1>1 DEF CentralEventConnect, BluenetTyped, Bluenet
    <2>2. bluenet.busy.peer \in Addresses
        BY <2>1, OperationIs
    <2>3. BluenetTyped'
        <3>1. CASE bluenet' = LinkTo("central", bluenet.busy.peer)
            <4>1. LinkTo("central", bluenet.busy.peer) \in Bluenet
                BY <2>1, <2>2, LinkToIs DEF BluenetTyped
            <4>2. LinkTo("central", bluenet.busy.peer).busy = Idle
                BY <2>1, <2>2, LinkToIs DEF BluenetTyped
            <4> QED
                BY <3>1, <4>1, <4>2 DEF BluenetTyped, Idle, None
        <3>2. CASE bluenet' = Done
            BY <3>2, DoneIs DEF BluenetTyped, Idle, None
        <3> QED
            BY <1>1, <3>1, <3>2 DEF CentralEventConnect
    <2>4. peripheral' \in Device /\ call' \in Call /\ lost' \in BOOLEAN
        <3>1. peripheral \in Device
            BY DEF DevicesTyped
        <3>2. onConnect(peripheral) \in Device
            BY <3>1, DeviceEvents
        <3>3. \A r \in {"Success", "Failure"} : Gets("peripheral", 0, r) \in Call
            BY GetsIs
        <3> QED
            BY <1>1, <3>1, <3>2, <3>3 DEF CentralEventConnect, DeviceGets
    <2>5. UNCHANGED <<initialized, isScanning, scanDevice, central, tables>>
        BY <1>1 DEF CentralEventConnect
    <2> QED
        BY <2>3, <2>4, <2>5 DEF tables, DevicesTyped, TablesTyped
<1>2. CASE CentralEventDisconnect
    <2>1. BluenetTyped'
        BY <1>2, LinkDownIs DEF CentralEventDisconnect, BluenetTyped, Idle, None
    <2>2. peripheral' \in Device /\ call' \in Call /\ lost' \in BOOLEAN
        <3>1. peripheral \in Device
            BY DEF DevicesTyped
        <3>2. onDisconnect(peripheral) \in Device
            BY <3>1, DeviceEvents
        <3>3. \A r \in {"Success", "Failure"} : Gets("peripheral", 0, r) \in Call
            BY GetsIs
        <3> QED
            BY <1>2, <3>1, <3>2, <3>3 DEF CentralEventDisconnect, DeviceGets
    <2>3. /\ UNCHANGED <<initialized, isScanning, scanDevice, central>>
          /\ remoteServices' = Elsewhere(remoteServices)
          /\ remoteCharacteristics' = Elsewhere(remoteCharacteristics)
          /\ \/ remoteServiceCount' = 0 /\ remoteCharacteristicCount' = 0
             \/ UNCHANGED <<remoteServiceCount, remoteCharacteristicCount>>
        BY <1>2 DEF CentralEventDisconnect
    <2>4. /\ remoteServices' \in Seq(RemoteService)
          /\ remoteCharacteristics' \in Seq(RemoteCharacteristic)
          /\ Len(remoteServices') = Len(remoteServices)
          /\ Len(remoteCharacteristics') = Len(remoteCharacteristics)
        BY <2>3, ServicesElsewhere, CharacteristicsElsewhere DEF TablesTyped
    <2>5. Len(remoteServices) \in Nat /\ Len(remoteCharacteristics) \in Nat
        BY DEF TablesTyped
    <2>6. TablesTyped'
        BY <2>3, <2>4, <2>5 DEF TablesTyped
    <2> QED
        BY <2>1, <2>2, <2>3, <2>6 DEF DevicesTyped
<1>3. ASSUME NEW a \in Centrals, PeripheralEventConnect(a)
      PROVE  Typed'
    <2>1. /\ bluenet.busy.op # "connect" /\ bluenet.links < MaxLinks
          /\ bluenet' = LinkTo("peripheral", a)
          /\ UNCHANGED <<initialized, isScanning, scanDevice, peripheral, tables, call>>
          /\ \/ central' = onConnect(NewDevice("central", a)) /\ UNCHANGED lost
             \/ lost' = TRUE /\ UNCHANGED central
        BY <1>3 DEF PeripheralEventConnect
    <2>2. a \in Addresses /\ a \in Peripherals \cup Centrals
        BY DEF Addresses
    <2>3. BluenetTyped'
        <3>1. LinkTo("peripheral", a) \in Bluenet
            BY <2>1, <2>2, LinkToIs DEF BluenetTyped
        <3>2. LinkTo("peripheral", a).busy = bluenet.busy
            BY <2>1, <2>2, LinkToIs DEF BluenetTyped
        <3> QED
            BY <2>1, <3>1, <3>2 DEF BluenetTyped
    <2>4. onConnect(NewDevice("central", a)) \in Device
        <3>1. NewDevice("central", a) \in Device
            BY <2>2, NewDeviceIs
        <3> QED
            BY <3>1, DeviceEvents
    <2> QED
        BY <2>1, <2>3, <2>4 DEF tables, DevicesTyped, TablesTyped
<1>4. CASE PeripheralEventDisconnect
    <2>1. BluenetTyped'
        BY <1>4, LinkDownIs DEF PeripheralEventDisconnect, BluenetTyped, Idle, None
    <2>2. central \in Device
        BY DEF DevicesTyped
    <2>3. onDisconnect(central) \in Device
        BY <2>2, DeviceEvents
    <2> QED
        BY <1>4, <2>1, <2>3 DEF PeripheralEventDisconnect, tables, DevicesTyped, TablesTyped
<1> QED
    BY <1>1, <1>2, <1>3, <1>4

LEMMA AttributeEventTyped ==
    ASSUME Typed,
           \/ CentralEventDiscover \/ CentralEventDiscoverDone
           \/ CentralEventCharacteristic \/ CentralEventNotification
    PROVE  Typed'
<1> USE DEF Typed
<1>1. CASE CentralEventDiscover
    <2> DEFINE todo == bluenet.busy.todo
    <2> DEFINE next == Head(todo)
    <2>1. bluenet \in Bluenet /\ bluenet.busy \in Operation
          /\ bluenet.busy.op = "discoverService" /\ todo # <<>>
        BY <1>1 DEF CentralEventDiscover, BluenetTyped, Bluenet
    <2>2. bluenet.busy \in [op : {"discoverService"}, todo : Seq(Finding)]
        BY <2>1, OperationIs
    <2>3. todo \in Seq(Finding)
        BY <2>2
    <2>4. next \in Finding /\ Tail(todo) \in Seq(Finding)
        BY <2>1, <2>3, HeadAndTail
    <2>5. BluenetTyped'
        <3> DEFINE b == [bluenet.busy EXCEPT !.todo = Tail(@)]
        <3>1. b \in [op : {"discoverService"}, todo : Seq(Finding)]
            BY <2>2, <2>4
        <3>2. b \in Operation /\ b.op = "discoverService"
            BY <3>1 DEF Operation
        <3>3. bluenet' = [bluenet EXCEPT !.busy = b]
            BY <1>1 DEF CentralEventDiscover
        <3> HIDE DEF b
        <3>4. bluenet' \in Bluenet /\ bluenet'.busy = b
            BY <2>1, <3>2, <3>3 DEF Bluenet
        <3> QED
            BY <3>2, <3>4 DEF BluenetTyped
    <2>6. peripheral \in Device /\ next.service \in Uuids
          /\ (next.characteristic # None => next.characteristic \in RemoteUuids)
        BY <2>4 DEF DevicesTyped, Finding
    <2>7. \/ addDiscoveredService(next.service)
          \/ /\ next.characteristic # None
             /\ addDiscoveredCharacteristic(next.service, next.characteristic)
          \/ UNCHANGED <<peripheral, tables>>
        BY <1>1 DEF CentralEventDiscover
    <2>8. UNCHANGED <<initialized, isScanning, scanDevice, central, call, lost>>
        BY <1>1 DEF CentralEventDiscover
    <2> HIDE DEF next
    <2>9. peripheral' \in Device /\ TablesTyped'
        <3>1. CASE addDiscoveredService(next.service)
            BY <2>6, <3>1, ServiceAdded
        <3>2. CASE /\ next.characteristic # None
                   /\ addDiscoveredCharacteristic(next.service, next.characteristic)
            <4>1. TablesTyped' /\ UNCHANGED peripheral
                BY <2>6, <3>2, CharacteristicAdded
            <4> QED
                BY <2>6, <4>1
        <3>3. CASE UNCHANGED <<peripheral, tables>>
            BY <2>6, <3>3 DEF tables, TablesTyped
        <3> QED
            BY <2>7, <3>1, <3>2, <3>3
    <2> QED
        BY <2>5, <2>8, <2>9 DEF DevicesTyped
<1>2. CASE CentralEventDiscoverDone
    <2>1. BluenetTyped'
        BY <1>2, DoneIs DEF CentralEventDiscoverDone, BluenetTyped, Idle, None
    <2>2. peripheral' \in Device /\ call' \in Call
        <3>1. peripheral \in Device
            BY DEF DevicesTyped
        <3>2. onDiscoverDone(peripheral) \in Device
            BY <3>1, DeviceEvents
        <3>3. \A r \in {"Success", "Failure"} : Gets("peripheral", 0, r) \in Call
            BY GetsIs
        <3> QED
            BY <1>2, <3>1, <3>2, <3>3 DEF CentralEventDiscoverDone, DeviceGets
    <2> QED
        BY <1>2, <2>1, <2>2 DEF CentralEventDiscoverDone, tables, DevicesTyped, TablesTyped
<1>3. CASE CentralEventCharacteristic
    <2> DEFINE i == getCharacteristic(bluenet.busy.uuid)
    <2>1. /\ bluenet.busy.op \in CharacteristicOps
          /\ bluenet' \in {Done, [Done EXCEPT !.subscribed = Subscriptions]}
          /\ UNCHANGED <<initialized, isScanning, devices, remoteServices,
                         remoteServiceCount, remoteCharacteristicCount, lost>>
          /\ \/ onRemoteDone(i)
             \/ UNCHANGED remoteCharacteristics
                /\ call' \in {call, Gets("characteristic", i, "Failure")}
        BY <1>3 DEF CentralEventCharacteristic
    <2> HIDE DEF i
    <2>2. BluenetTyped'
        <3>1. bluenet.busy \in Operation /\ bluenet \in Bluenet
            BY DEF BluenetTyped, Bluenet
        <3>2. bluenet.busy.uuid \in RemoteUuids
            BY <2>1, <3>1, OperationIs
        <3>3. Subscriptions \in SUBSET RemoteUuids
            BY <3>1, <3>2 DEF Subscriptions, Bluenet
        <3>4. [Done EXCEPT !.subscribed = Subscriptions] \in Bluenet
              /\ [Done EXCEPT !.subscribed = Subscriptions].busy = Idle
            BY <3>1, <3>3, DoneIs DEF Bluenet
        <3>5. Done \in Bluenet /\ Done.busy = Idle
            BY <3>1, DoneIs
        <3>6. bluenet' \in Bluenet /\ bluenet'.busy = Idle
            BY <2>1, <3>4, <3>5
        <3> QED
            BY <3>6 DEF BluenetTyped, Idle, None
    <2>3. call' \in Call /\ TablesTyped'
        <3>1. CASE onRemoteDone(i)
            <4> DEFINE news == remoteCharacteristics[i].news /\ bluenet.busy.op # "readValue"
            <4>1. remoteCharacteristics' = [remoteCharacteristics EXCEPT ![i].news = news]
                BY <3>1 DEF onRemoteDone
            <4>2. news \in BOOLEAN
                OBVIOUS
            <4> HIDE DEF news
            <4>3. remoteCharacteristics \in Seq(RemoteCharacteristic)
                BY DEF TablesTyped
            <4>4. remoteCharacteristics' = Marked(remoteCharacteristics, i, news,
                                              remoteCharacteristics[i].remoteValueUpdated)
                BY <4>1, <4>3, MarksAre
            <4>5. TablesTyped'
                BY <2>1, <4>2, <4>4, MarksAreBoolean, MarkedTyped
            <4> QED
                BY <3>1, <4>5, GetsIs DEF onRemoteDone
        <3>2. CASE UNCHANGED remoteCharacteristics
                   /\ call' \in {call, Gets("characteristic", i, "Failure")}
            BY <2>1, <3>2, GetsIs DEF TablesTyped
        <3> QED
            BY <2>1, <3>1, <3>2
    <2> QED
        BY <2>1, <2>2, <2>3 DEF devices, DevicesTyped
<1>4. CASE CentralEventNotification
    <2>1. PICK i : remoteCharacteristics'
                     = [remoteCharacteristics EXCEPT ![i] = onRemoteNotification(i)]
        BY <1>4 DEF CentralEventNotification
    <2> DEFINE news == remoteCharacteristics[i].news \/ ~JustRead(i)
    <2>2. UNCHANGED <<initialized, isScanning, devices, remoteServices,
                      remoteServiceCount, remoteCharacteristicCount, call, bluenet, lost>>
        BY <1>4 DEF CentralEventNotification
    <2>3. onRemoteNotification(i)
             = [remoteCharacteristics[i] EXCEPT !.remoteValueUpdated = TRUE, !.news = news]
        BY DEF onRemoteNotification
    <2>4. news \in BOOLEAN
        OBVIOUS
    <2> HIDE DEF news
    <2>5. remoteCharacteristics \in Seq(RemoteCharacteristic)
        BY DEF TablesTyped
    <2>6. remoteCharacteristics' = Marked(remoteCharacteristics, i, news, TRUE)
        <3>1. [remoteCharacteristics EXCEPT ![i] =
                 [remoteCharacteristics[i] EXCEPT !.remoteValueUpdated = TRUE, !.news = news]]
              = Marked(remoteCharacteristics, i, news, TRUE)
            BY <2>5, MarksAre
        <3> QED
            BY <2>1, <2>3, <3>1
    <2>7. TablesTyped'
        BY <2>2, <2>4, <2>6, MarkedTyped
    <2> QED
        BY <2>2, <2>7 DEF devices, DevicesTyped, BluenetTyped
<1> QED
    BY <1>1, <1>2, <1>3, <1>4

LEMMA StepTyped ==
    ASSUME Typed, [Next]_vars
    PROVE  Typed'
<1>1. ASSUME NEW a \in Peripherals, handleScanEvent(a)
      PROVE  Typed'
    <2>1. scanDevice' \in Device
        BY <1>1, ScannedIs DEF handleScanEvent
    <2> QED
        BY <1>1, <2>1
           DEF handleScanEvent, tables, Typed, DevicesTyped, TablesTyped, BluenetTyped
<1>2. CASE UNCHANGED vars
    BY <1>2 DEF vars, devices, tables, Typed, DevicesTyped, TablesTyped, BluenetTyped
<1>3. \/ UserCall \/ CallTimesOut \/ CallReturns
      \/ \E a \in Peripherals : handleScanEvent(a)
      \/ CentralEventConnect \/ CentralEventDisconnect
      \/ \E a \in Centrals : PeripheralEventConnect(a)
      \/ PeripheralEventDisconnect
      \/ CentralEventDiscover \/ CentralEventDiscoverDone
      \/ CentralEventCharacteristic \/ CentralEventNotification
      \/ UNCHANGED vars
    BY DEF Next, handleEvent, handleCentralEvent, handlePeripheralEvent
<1> QED
    BY <1>1, <1>2, <1>3, UserCallTyped, CallEndsTyped, ConnectionEventTyped, AttributeEventTyped

LEMMA TypedMeansTypes == Typed => TypeOK
<1> SUFFICES ASSUME Typed PROVE TypeOK
    OBVIOUS
<1>1. bluenet.links \in 0 .. MaxLinks
    BY DEF Typed, BluenetTyped, Bluenet
<1> QED
    BY <1>1 DEF Typed, TypeOK, DevicesTyped, TablesTyped

LEMMA SpecTyped == Spec => []Typed
    BY InitTyped, StepTyped, PTL DEF Spec

(* The devices, the tables and their counts, which refer to their entries  *)
(* by number (TypeOK).                                                     *)
THEOREM TypesHold == Spec => []TypeOK
    BY SpecTyped, TypedMeansTypes, PTL

------------------------------------------------------------------------------
(* Notifications.                                                          *)

LEMMA MarkedNext ==
    ASSUME TablesTyped, NEW i, NEW news, NEW updated,
           i \in 1 .. Len(remoteCharacteristics) => news \in BOOLEAN /\ updated \in BOOLEAN,
           remoteCharacteristics' = Marked(remoteCharacteristics, i, news, updated)
    PROVE  /\ DOMAIN remoteCharacteristics' = DOMAIN remoteCharacteristics
           /\ \A k \in DOMAIN remoteCharacteristics :
                 /\ remoteCharacteristics'[k].here = remoteCharacteristics[k].here
                 /\ k # i => remoteCharacteristics'[k] = remoteCharacteristics[k]
                 /\ k = i => /\ remoteCharacteristics'[k].news = news
                             /\ remoteCharacteristics'[k].remoteValueUpdated = updated
<1> DEFINE marked == Marked(remoteCharacteristics, i, news, updated)
<1>1. remoteCharacteristics \in Seq(RemoteCharacteristic)
    BY DEF TablesTyped
<1>2. marked \in Seq(RemoteCharacteristic) /\ Len(marked) = Len(remoteCharacteristics)
    BY <1>1, MarkedIs
<1>3. \A k \in 1 .. Len(remoteCharacteristics) :
          /\ marked[k].here = remoteCharacteristics[k].here
          /\ k # i => marked[k] = remoteCharacteristics[k]
          /\ k = i => marked[k].news = news /\ marked[k].remoteValueUpdated = updated
    BY <1>1, MarkedIs
<1>4. remoteCharacteristics' = marked
    OBVIOUS
<1> HIDE DEF marked
<1> QED
    BY <1>1, <1>2, <1>3, <1>4

LEMMA InitNoted == Init => Noted
    BY DEF Init, Noted, NotificationKept, NoCall, None

(* The steps that neither read, nor bring news.                            *)
CallNoted ==
    \/ call'.op # "readValue"
    \/ /\ call'.op = call.op /\ call'.of = call.of /\ call'.index = call.index
       /\ call.of = "characteristic" => call'.asyncResult = call.asyncResult

NoNews ==
    \A i \in DOMAIN remoteCharacteristics' :
       \/ /\ i \in DOMAIN remoteCharacteristics
          /\ remoteCharacteristics'[i].news = remoteCharacteristics[i].news
          /\ remoteCharacteristics'[i].remoteValueUpdated
                = remoteCharacteristics[i].remoteValueUpdated
       \/ ~remoteCharacteristics'[i].news

LEMMA QuietStep ==
    ASSUME Noted, CallNoted, NoNews, bluenet'.busy.op \in {None, bluenet.busy.op}
    PROVE  Noted'
<1>1. NotificationKept'
    BY DEF Noted, NoNews, NotificationKept
<1>2. ASSUME call'.op = "readValue"
      PROVE  /\ call.op = "readValue" /\ call'.of = call.of /\ call'.index = call.index
             /\ call'.of = "characteristic"
             /\ call'.asyncResult = call.asyncResult
    BY <1>2 DEF CallNoted, Noted
<1>3. ASSUME call'.op = "readValue", call'.asyncResult = "Success",
             NEW i \in DOMAIN remoteCharacteristics', i = call'.index
      PROVE  ~remoteCharacteristics'[i].news
    BY <1>2, <1>3 DEF Noted, NoNews
<1>4. call'.op = "readValue" =>
          /\ bluenet'.busy.op \in {None, "readValue"}
          /\ call'.asyncResult \in {"Waiting", "Success", "Failure"}
    BY <1>2 DEF Noted
<1> QED
    BY <1>1, <1>2, <1>3, <1>4 DEF Noted

(* A call that begins is what bluenet works on.                            *)
LEMMA RequestNoted ==
    ASSUME Noted, UNCHANGED remoteCharacteristics, call'.op = bluenet'.busy.op,
           call'.asyncResult = "Waiting",
           call'.op = "readValue" => call'.of = "characteristic"
    PROVE  Noted'
BY DEF Noted, NotificationKept

LEMMA UserCallNoted ==
    ASSUME Typed, Noted, UserCall
    PROVE  Noted'
<1>1. call \in Call /\ bluenet \in Bluenet
    BY DEF Typed, BluenetTyped
<1>2. CASE begin \/ end \/ scan \/ stopScan \/ available \/ getCentral
    <2>1. UNCHANGED <<tables, bluenet>>
        BY <1>2 DEF begin, end, scan, stopScan, available, getCentral
    <2>2. call' \in {call, Gets("central", 0, "NotWaiting"), Gets("peripheral", 0, "NotWaiting")}
        BY <1>2 DEF begin, end, scan, stopScan, available, getCentral
    <2>3. CallNoted
        BY <1>1, <2>2, GetsIs DEF CallNoted
    <2>4. NoNews
        BY <2>1 DEF NoNews, tables
    <2> QED
        BY <2>1, <2>3, <2>4, QuietStep
<1>3. ASSUME NEW op \in Operation,
             op.op \in {"connect", "disconnect", "discoverService"} \cup CharacteristicOps,
             NEW object \in {"peripheral", "central", "characteristic"}, NEW i \in Nat,
             InProgress(op, object, i), op.op = "readValue" => object = "characteristic",
             UNCHANGED tables
      PROVE  Noted'
    BY <1>1, <1>3, InProgressIs, RequestNoted DEF tables
<1>4. CASE connect
    <2> DEFINE op == [op |-> "connect", peer |-> peripheral.address]
    <2>1. op \in Operation /\ op.op = "connect"
        BY DEF Typed, DevicesTyped, Device, Operation, Addresses
    <2>2. InProgress(op, "peripheral", 0) /\ UNCHANGED tables
        BY <1>4 DEF connect
    <2> HIDE DEF op
    <2> QED
        BY <1>3, <2>1, <2>2
<1>5. CASE disconnect
    <2> DEFINE op == [op |-> "disconnect"]
    <2>1. op \in Operation /\ op.op = "disconnect"
        BY DEF Operation
    <2>2. /\ InProgress(op, "peripheral", 0) \/ InProgress(op, "central", 0)
          /\ UNCHANGED tables
        BY <1>5 DEF disconnect
    <2> HIDE DEF op
    <2> QED
        BY <1>3, <2>1, <2>2
<1>6. ASSUME NEW u \in Uuids, discoverService(u)
      PROVE  Noted'
    <2> DEFINE op == [op |-> "discoverService", todo |-> Found(u, bluenet.link.peer)]
    <2>1. Found(u, bluenet.link.peer) \in Seq(Finding)
        BY FoundIs
    <2>2. op \in Operation /\ op.op = "discoverService"
        BY <2>1 DEF Operation
    <2>3. InProgress(op, "peripheral", 0) /\ UNCHANGED tables
        BY <1>6 DEF discoverService
    <2> HIDE DEF op
    <2> QED
        BY <1>3, <2>2, <2>3
<1>7. ASSUME NEW o \in CharacteristicOps, NEW i \in DOMAIN remoteCharacteristics,
             CharacteristicCall(o, i)
      PROVE  Noted'
    <2> DEFINE op == [op |-> o, uuid |-> remoteCharacteristics[i].uuid]
    <2>1. remoteCharacteristics[i] \in RemoteCharacteristic /\ i \in Nat
        BY DEF Typed, TablesTyped
    <2>2. op \in Operation /\ op.op = o
        BY <2>1 DEF Operation, RemoteCharacteristic, RemoteUuids
    <2>3. InProgress(op, "characteristic", i) /\ UNCHANGED tables
        BY <1>7 DEF CharacteristicCall
    <2> HIDE DEF op
    <2> QED
        BY <1>3, <2>1, <2>2, <2>3
<1> QED
    BY <1>2, <1>4, <1>5, <1>6, <1>7 DEF UserCall

(* Only the value of a characteristic without news is cleared.             *)
LEMMA CallEndsNoted ==
    ASSUME Typed, Noted, CallTimesOut \/ CallReturns
    PROVE  Noted'
<1>1. call' = NoCall /\ UNCHANGED bluenet
    BY DEF CallTimesOut, CallReturns
<1>2. call'.op # "readValue"
    BY <1>1 DEF NoCall, None
<1>3. CASE UNCHANGED remoteCharacteristics
    BY <1>1, <1>2, <1>3, QuietStep DEF CallNoted, NoNews
<1>4. CASE ~UNCHANGED remoteCharacteristics
    <2> DEFINE i == call.index
    <2>1. /\ call.op = "readValue" /\ call.asyncResult \notin {"Waiting", "Failure"}
          /\ remoteCharacteristics'
                = [remoteCharacteristics EXCEPT ![i].remoteValueUpdated = FALSE]
        BY <1>4 DEF CallTimesOut, CallReturns, tables
    <2>2. i \in DOMAIN remoteCharacteristics => ~remoteCharacteristics[i].news
        BY <2>1 DEF Noted
    <2> HIDE DEF i
    <2>3. remoteCharacteristics \in Seq(RemoteCharacteristic)
        BY DEF Typed, TablesTyped
    <2> DEFINE news == remoteCharacteristics[i].news
    <2>4. remoteCharacteristics' = Marked(remoteCharacteristics, i, news, FALSE)
        BY <2>1, <2>3, MarksAre
    <2>5. i \in 1 .. Len(remoteCharacteristics) => news \in BOOLEAN /\ FALSE \in BOOLEAN
        BY MarksAreBoolean DEF Typed
    <2> HIDE DEF news
    <2>6. /\ DOMAIN remoteCharacteristics' = DOMAIN remoteCharacteristics
          /\ \A k \in DOMAIN remoteCharacteristics :
                /\ k # i => remoteCharacteristics'[k] = remoteCharacteristics[k]
                /\ k = i => remoteCharacteristics'[k].news = news
        <3>1. TablesTyped
            BY DEF Typed
        <3> QED
            <4>1. ASSUME NEW n, NEW u,
                         i \in 1 .. Len(remoteCharacteristics)
                            => n \in BOOLEAN /\ u \in BOOLEAN,
                         remoteCharacteristics' = Marked(remoteCharacteristics, i, n, u)
                  PROVE  /\ DOMAIN remoteCharacteristics' = DOMAIN remoteCharacteristics
                         /\ \A k \in DOMAIN remoteCharacteristics :
                               /\ k # i => remoteCharacteristics'[k] = remoteCharacteristics[k]
                               /\ k = i => remoteCharacteristics'[k].news = n
                BY <3>1, <4>1, MarkedNext
            <4> QED
                BY <2>4, <2>5, <4>1
    <2>7. NoNews
        BY <2>2, <2>3, <2>6 DEF NoNews, news
    <2> QED
        BY <1>1, <1>2, <2>7, QuietStep DEF CallNoted
<1> QED
    BY <1>3, <1>4

LEMMA ConnectionEventNoted ==
    ASSUME Typed, Noted,
           \/ CentralEventConnect \/ CentralEventDisconnect
           \/ \E a \in Centrals : PeripheralEventConnect(a)
           \/ PeripheralEventDisconnect
    PROVE  Noted'
<1>1. call \in Call /\ bluenet \in Bluenet
    BY DEF Typed, BluenetTyped
<1>2. call' \in {call, Gets("peripheral", 0, "Success"), Gets("peripheral", 0, "Failure")}
    BY DEF CentralEventConnect, CentralEventDisconnect, PeripheralEventConnect,
           PeripheralEventDisconnect, DeviceGets
<1>3. CallNoted
    BY <1>1, <1>2, GetsIs DEF CallNoted
<1>4. bluenet'.busy \in {Idle, bluenet.busy}
    <2>1. bluenet' \in {Done, LinkDown} => bluenet'.busy \in {Idle, bluenet.busy}
        BY <1>1, DoneIs, LinkDownIs
    <2>2. ASSUME NEW role, NEW a, bluenet' = LinkTo(role, a)
          PROVE  bluenet'.busy \in {Idle, bluenet.busy}
        BY <1>1, <2>2 DEF LinkTo, Bluenet
    <2> QED
        BY <2>1, <2>2 DEF CentralEventConnect, CentralEventDisconnect, PeripheralEventConnect,
                          PeripheralEventDisconnect
<1>5. NoNews
    <2>1. CASE UNCHANGED remoteCharacteristics
        BY <2>1 DEF NoNews
    <2>2. CASE remoteCharacteristics' = Elsewhere(remoteCharacteristics)
        <3>1. remoteCharacteristics \in Seq(RemoteCharacteristic)
            BY DEF Typed, TablesTyped
        <3>2. /\ Elsewhere(remoteCharacteristics) \in Seq(RemoteCharacteristic)
              /\ Len(Elsewhere(remoteCharacteristics)) = Len(remoteCharacteristics)
              /\ \A k \in 1 .. Len(remoteCharacteristics) :
                    /\ Elsewhere(remoteCharacteristics)[k].news = remoteCharacteristics[k].news
                    /\ Elsewhere(remoteCharacteristics)[k].remoteValueUpdated
                          = remoteCharacteristics[k].remoteValueUpdated
            BY <3>1, CharacteristicsElsewhere
        <3> QED
            BY <2>2, <3>1, <3>2 DEF NoNews
    <2> QED
        BY <2>1, <2>2 DEF CentralEventConnect, CentralEventDisconnect, PeripheralEventConnect,
                          PeripheralEventDisconnect, tables
<1> QED
    BY <1>3, <1>4, <1>5, QuietStep DEF Idle

LEMMA DiscoverNoted ==
    ASSUME Typed, Noted, CentralEventDiscover \/ CentralEventDiscoverDone
    PROVE  Noted'
<1>1. call \in Call /\ bluenet \in Bluenet
    BY DEF Typed, BluenetTyped
<1>2. call' \in {call, Gets("peripheral", 0, "Success"), Gets("peripheral", 0, "Failure")}
    BY DEF CentralEventDiscover, CentralEventDiscoverDone, DeviceGets
<1>3. CallNoted
    BY <1>1, <1>2, GetsIs DEF CallNoted
<1>4. CASE CentralEventDiscoverDone
    <2>1. bluenet'.busy = Idle /\ UNCHANGED tables
        BY <1>1, <1>4, DoneIs DEF CentralEventDiscoverDone
    <2>2. NoNews
        BY <2>1 DEF NoNews, tables
    <2> QED
        BY <1>3, <2>1, <2>2, QuietStep DEF Idle
<1>5. CASE CentralEventDiscover
    <2> DEFINE todo == bluenet.busy.todo
    <2> DEFINE next == Head(todo)
    <2>1. /\ bluenet.busy.op = "discoverService" /\ todo # <<>>
          /\ bluenet' = [bluenet EXCEPT !.busy.todo = Tail(@)]
        BY <1>5 DEF CentralEventDiscover
    <2>2. bluenet.busy \in [op : {"discoverService"}, todo : Seq(Finding)]
        BY <1>1, <2>1, OperationIs DEF Bluenet
    <2>3. bluenet'.busy.op = bluenet.busy.op
        BY <1>1, <2>1, <2>2 DEF Bluenet
    <2>4. next \in Finding
        BY <2>1, <2>2, HeadAndTail
    <2>5. peripheral \in Device /\ next.service \in Uuids
          /\ (next.characteristic # None => next.characteristic \in RemoteUuids)
        BY <2>4 DEF Typed, DevicesTyped, Finding
    <2>6. \/ addDiscoveredService(next.service)
          \/ /\ next.characteristic # None
             /\ addDiscoveredCharacteristic(next.service, next.characteristic)
          \/ UNCHANGED <<peripheral, tables>>
        BY <1>5 DEF CentralEventDiscover
    <2> HIDE DEF next
    <2>7. NoNews
        <3>1. CASE UNCHANGED remoteCharacteristics
            BY <3>1 DEF NoNews
        <3>2. CASE /\ next.characteristic # None
                   /\ addDiscoveredCharacteristic(next.service, next.characteristic)
            <4> DEFINE n == remoteCharacteristicCount + 1
            <4>1. TablesTyped
                BY DEF Typed
            <4>2. /\ TablesTyped'
                  /\ \A i \in 1 .. Len(remoteCharacteristics) :
                        i # n => remoteCharacteristics'[i] = remoteCharacteristics[i]
                  /\ \A i \in 1 .. Len(remoteCharacteristics') :
                        i \in 1 .. Len(remoteCharacteristics) \/ i = n
                  /\ ~remoteCharacteristics'[n].news
                BY <2>5, <3>2, <4>1, CharacteristicAdded
            <4>3. /\ DOMAIN remoteCharacteristics = 1 .. Len(remoteCharacteristics)
                  /\ DOMAIN remoteCharacteristics' = 1 .. Len(remoteCharacteristics')
                BY <4>1, <4>2 DEF TablesTyped
            <4> HIDE DEF n
            <4> QED
                BY <4>2, <4>3 DEF NoNews
        <3> QED
            BY <2>6, <3>1, <3>2 DEF addDiscoveredService, tables
    <2> QED
        BY <1>3, <2>3, <2>7, QuietStep
<1> QED
    BY <1>4, <1>5

(* The value that was read is newer than what was notified before, and     *)
(* nothing else can make the call that reads successful.                   *)
LEMMA CharacteristicEventNoted ==
    ASSUME Typed, Noted, CentralEventCharacteristic
    PROVE  Noted'
<1> DEFINE i == getCharacteristic(bluenet.busy.uuid)
<1>1. call \in Call /\ bluenet \in Bluenet /\ TablesTyped
    BY DEF Typed, BluenetTyped
<1>2. /\ bluenet.busy.op \in CharacteristicOps
      /\ bluenet' \in {Done, [Done EXCEPT !.subscribed = Subscriptions]}
      /\ \/ onRemoteDone(i)
         \/ UNCHANGED remoteCharacteristics
            /\ call' \in {call, Gets("characteristic", i, "Failure")}
    BY DEF CentralEventCharacteristic
<1> HIDE DEF i
<1>3. bluenet'.busy = Idle
    <2>1. Done \in Bluenet /\ Done.busy = Idle
        BY <1>1, DoneIs
    <2>2. [Done EXCEPT !.subscribed = Subscriptions].busy = Idle
        BY <2>1 DEF Bluenet
    <2> QED
        BY <1>2, <2>1, <2>2
<1>4. CASE UNCHANGED remoteCharacteristics
           /\ call' \in {call, Gets("characteristic", i, "Failure")}
    <2>1. /\ call'.op = call.op /\ call'.of = call.of /\ call'.index = call.index
          /\ call'.asyncResult \in {call.asyncResult, "Failure"}
        BY <1>1, <1>4, GetsIs
    <2> QED
        BY <1>3, <1>4, <2>1 DEF Noted, NotificationKept, Idle
<1>5. CASE onRemoteDone(i)
    <2> DEFINE news == remoteCharacteristics[i].news /\ bluenet.busy.op # "readValue"
    <2> DEFINE updated == remoteCharacteristics[i].remoteValueUpdated
    <2>1. call' = Gets("characteristic", i, "Success")
        BY <1>5 DEF onRemoteDone
    <2>2. remoteCharacteristics' = [remoteCharacteristics EXCEPT ![i].news = news]
        BY <1>5 DEF onRemoteDone
    <2>3. remoteCharacteristics \in Seq(RemoteCharacteristic)
        BY <1>1 DEF TablesTyped
    <2>4. news \in BOOLEAN
        OBVIOUS
    <2>5. i \in DOMAIN remoteCharacteristics => updated \in BOOLEAN
        BY <1>1, <2>3, MarksAreBoolean
    <2>6. bluenet.busy.op = "readValue" => ~news
        OBVIOUS
    <2>7. i \in DOMAIN remoteCharacteristics /\ news => updated
        BY DEF Noted, NotificationKept
    <2> HIDE DEF news
    <2>8. remoteCharacteristics' = Marked(remoteCharacteristics, i, news, updated)
        BY <2>2, <2>3, MarksAre
    <2> HIDE DEF updated
    <2>9. i \in 1 .. Len(remoteCharacteristics) => news \in BOOLEAN /\ updated \in BOOLEAN
        BY <2>3, <2>4, <2>5
    <2>10. /\ DOMAIN remoteCharacteristics' = DOMAIN remoteCharacteristics
           /\ \A k \in DOMAIN remoteCharacteristics :
                 /\ k # i => remoteCharacteristics'[k] = remoteCharacteristics[k]
                 /\ k = i => /\ remoteCharacteristics'[k].news = news
                             /\ remoteCharacteristics'[k].remoteValueUpdated = updated
        BY <1>1, <2>8, <2>9, MarkedNext
    <2>11. NotificationKept'
        BY <2>7, <2>10 DEF Noted, NotificationKept
    <2>12. /\ call'.op = call.op /\ call'.of = call.of /\ call'.index = call.index
           /\ call'.asyncResult \in {call.asyncResult, "Success"}
           /\ call'.asyncResult # call.asyncResult => call.index = i
        BY <1>1, <2>1, GetsIs
    <2>13. ASSUME call'.op = "readValue"
           PROVE  /\ call'.of = "characteristic"
                  /\ call'.asyncResult \in {"Waiting", "Success", "Failure"}
                  /\ bluenet.busy.op = "readValue"
        <3>1. call.op = "readValue" /\ bluenet.busy.op \in {None, "readValue"}
            BY <2>12, <2>13 DEF Noted
        <3>2. bluenet.busy.op # None
            BY <1>2, BleConnectionsAssumption DEF None
        <3> QED
            BY <2>12, <3>1, <3>2 DEF Noted
    <2>14. ASSUME call'.op = "readValue", call'.asyncResult = "Success",
                  NEW k \in DOMAIN remoteCharacteristics', k = call'.index
           PROVE  ~remoteCharacteristics'[k].news
        <3>1. CASE k = i
            BY <2>6, <2>10, <2>13, <2>14, <3>1
        <3>2. CASE k # i
            BY <2>10, <2>12, <2>14, <3>2 DEF Noted
        <3> QED
            BY <3>1, <3>2
    <2> QED
        BY <1>3, <2>11, <2>13, <2>14 DEF Noted, Idle
<1> QED
    BY <1>2, <1>4, <1>5

LEMMA NotificationNoted ==
    ASSUME Typed, Noted, CentralEventNotification
    PROVE  Noted'
<1>1. TablesTyped /\ UNCHANGED <<call, bluenet>>
    BY DEF Typed, CentralEventNotification
<1>2. PICK i : remoteCharacteristics'
                 = [remoteCharacteristics EXCEPT ![i] = onRemoteNotification(i)]
    BY DEF CentralEventNotification
<1> DEFINE news == remoteCharacteristics[i].news \/ ~JustRead(i)
<1>3. onRemoteNotification(i)
         = [remoteCharacteristics[i] EXCEPT !.remoteValueUpdated = TRUE, !.news = news]
    BY DEF onRemoteNotification
<1>4. news \in BOOLEAN
    OBVIOUS
<1>6. remoteCharacteristics \in Seq(RemoteCharacteristic)
    BY <1>1 DEF TablesTyped
<1>7. i \in DOMAIN remoteCharacteristics /\ call.op = "readValue" /\ call.index = i
         /\ call.asyncResult = "Success" => ~news
    BY DEF Noted, JustRead
<1> HIDE DEF news
<1>8. remoteCharacteristics' = Marked(remoteCharacteristics, i, news, TRUE)
    <2>1. [remoteCharacteristics EXCEPT ![i] =
             [remoteCharacteristics[i] EXCEPT !.remoteValueUpdated = TRUE, !.news = news]]
          = Marked(remoteCharacteristics, i, news, TRUE)
        BY <1>6, MarksAre
    <2> QED
        BY <1>2, <1>3, <2>1
<1> DEFINE updated == TRUE
<1>9. remoteCharacteristics' = Marked(remoteCharacteristics, i, news, updated)
      /\ (i \in 1 .. Len(remoteCharacteristics) => news \in BOOLEAN /\ updated \in BOOLEAN)
    BY <1>4, <1>8
<1>10. updated
    OBVIOUS
<1> HIDE DEF updated
<1>11. /\ DOMAIN remoteCharacteristics' = DOMAIN remoteCharacteristics
       /\ \A k \in DOMAIN remoteCharacteristics :
             /\ k # i => remoteCharacteristics'[k] = remoteCharacteristics[k]
             /\ k = i => /\ remoteCharacteristics'[k].news = news
                         /\ remoteCharacteristics'[k].remoteValueUpdated = updated
    BY <1>1, <1>9, MarkedNext
<1>12. NotificationKept'
    BY <1>10, <1>11 DEF Noted, NotificationKept
<1>13. ASSUME call.op = "readValue", call.asyncResult = "Success",
              NEW k \in DOMAIN remoteCharacteristics', k = call.index
       PROVE  ~remoteCharacteristics'[k].news
    <2>1. CASE k = i
        BY <1>7, <1>11, <1>13, <2>1
    <2>2. CASE k # i
        BY <1>11, <1>13, <2>2 DEF Noted
    <2> QED
        BY <2>1, <2>2
<1> QED
    BY <1>1, <1>12, <1>13 DEF Noted

LEMMA StepNoted ==
    ASSUME Typed, Noted, [Next]_vars
    PROVE  Noted'
<1>1. CASE (\E a \in Peripherals : handleScanEvent(a)) \/ UNCHANGED vars
    <2>1. UNCHANGED <<call, bluenet, remoteCharacteristics>>
        BY <1>1 DEF handleScanEvent, vars, tables
    <2> QED
        BY <2>1, QuietStep DEF CallNoted, NoNews
<1> QED
    BY <1>1, UserCallNoted, CallEndsNoted, ConnectionEventNoted, DiscoverNoted,
       CharacteristicEventNoted, NotificationNoted
       DEF Next, handleEvent, handleCentralEvent, handlePeripheralEvent

(* The user can tell that there was a notification, and that it came after *)
(* the value he read (NotificationKept), whatever he does.                 *)
THEOREM NotificationsKept == Spec => []NotificationKept
<1>1. Typed /\ Noted /\ [Next]_vars => Noted'
    BY StepNoted
<1>2. Noted => NotificationKept
    BY DEF Noted
<1> QED
    BY <1>1, <1>2, InitNoted, SpecTyped, PTL DEF Spec

------------------------------------------------------------------------------
(* The connections, of a careful user.                                     *)

LEMMA InitLinked == Init => Linked
    BY NewDeviceIs DEF Init, Linked, ConnectedMeansLink, ConnectedIsPeer, NoLink, Idle, None

(* Nothing of the connection changes, and no operation begins.             *)
ConnectionStays ==
    /\ peripheral'.connected = peripheral.connected
    /\ peripheral'.connected => peripheral'.address = peripheral.address
    /\ central'.connected = central.connected
    /\ ~scanDevice'.connected /\ scanDevice'.services = <<>>
    /\ bluenet'.link = bluenet.link
    /\ UNCHANGED lost

LEMMA ConnectionStaysLinked ==
    ASSUME Linked, ConnectionStays,
           \/ bluenet'.busy = Idle
           \/ /\ bluenet.busy = Idle
              /\ bluenet'.busy.op \notin {"connect", "discoverService"}
           \/ bluenet'.busy.op = bluenet.busy.op /\ bluenet.busy.op # "connect"
           \/ bluenet'.busy = bluenet.busy /\ UNCHANGED peripheral
    PROVE  Linked'
<1>1. ConnectedMeansLink'
    BY DEF Linked, ConnectedMeansLink, ConnectionStays
<1>2. ConnectedIsPeer'
    BY DEF Linked, ConnectedIsPeer, ConnectionStays
<1>3. bluenet'.busy.op = "connect" =>
          /\ bluenet'.link = NoLink
          /\ ~peripheral'.connected
          /\ bluenet'.busy.peer = peripheral'.address
    BY DEF Linked, ConnectionStays, Idle, None
<1>4. bluenet'.busy.op = "discoverService" /\ bluenet'.link.role = "central"
          => peripheral'.connected
    BY DEF Linked, ConnectionStays, Idle, None
<1> QED
    BY <1>1, <1>2, <1>3, <1>4 DEF Linked, ConnectionStays

LEMMA UserCallLinked ==
    ASSUME Careful, Typed, Linked, UserCall
    PROVE  Linked'
<1>1. bluenet \in Bluenet /\ peripheral \in Device /\ scanDevice \in Device
    BY DEF Typed, BluenetTyped, DevicesTyped
<1>2. CASE begin \/ scan \/ stopScan
    <2>1. scanDevice' = scanDevice
          \/ scanDevice' \in {NoDevice} \cup {NewDevice("peripheral", a) : a \in Peripherals}
        BY <1>2 DEF begin, scan, stopScan, devices
    <2>2. ~scanDevice'.connected /\ scanDevice'.services = <<>>
        BY <2>1, ScannedIs DEF Linked
    <2>3. UNCHANGED <<peripheral, central, bluenet, lost>>
        BY <1>2 DEF begin, scan, stopScan, devices
    <2> QED
        BY <2>2, <2>3, ConnectionStaysLinked DEF ConnectionStays
<1>3. CASE end
    <2>1. NothingUnderWay /\ bluenet.link = NoLink
        BY <1>3 DEF end, When
    <2>2. /\ peripheral' = NoDevice /\ central' = NoDevice /\ scanDevice' = NoDevice
          /\ UNCHANGED <<bluenet, lost>>
        BY <1>3 DEF end
    <2>3. peripheral.connected = FALSE /\ central.connected = FALSE
        BY <2>1 DEF NothingUnderWay, Typed, DevicesTyped, Device
    <2>4. NoDevice.connected = FALSE /\ NoDevice.services = <<>>
        BY DEF NoDevice, NewDevice
    <2>5. ConnectionStays
        BY <2>2, <2>3, <2>4 DEF ConnectionStays
    <2>6. bluenet'.busy = Idle
        BY <2>1, <2>2 DEF NothingUnderWay
    <2> QED
        BY <2>5, <2>6, ConnectionStaysLinked
<1>4. CASE available
    <2>1. bluenet.busy = Idle /\ ~peripheral.connected
        BY <1>4 DEF available, NothingUnderWay, When
    <2>2. UNCHANGED <<central, bluenet, lost>>
        BY <1>4 DEF available
    <2>3. /\ peripheral' \in {scanDevice, NoDevice}
          /\ scanDevice' \in {scanDevice, NoDevice}
        BY <1>4 DEF available
    <2>4. ConnectionStays
        BY <1>1, <2>1, <2>2, <2>3, NewDeviceIs DEF Linked, ConnectionStays, Device
    <2> QED
        BY <2>1, <2>2, <2>4, ConnectionStaysLinked
<1>5. CASE getCentral
    <2>1. ~central.connected
        BY <1>5 DEF getCentral, When
    <2>2. central'.connected = central.connected
        <3>1. central.connected \in BOOLEAN
            BY DEF Typed, DevicesTyped, Device
        <3> QED
            BY <1>5, <2>1, <3>1 DEF getCentral, NoDevice, NewDevice
    <2> QED
        BY <1>5, <2>2, ConnectionStaysLinked DEF getCentral, ConnectionStays, Linked
<1>6. CASE connect
    <2> DEFINE op == [op |-> "connect", peer |-> peripheral.address]
    <2>1. op \in Operation /\ op.op = "connect" /\ op.peer = peripheral.address
        BY <1>1 DEF Device, Operation, Addresses
    <2>2. /\ InProgress(op, "peripheral", 0) /\ bluenet.link = NoLink
          /\ ~peripheral.connected
          /\ UNCHANGED <<devices, lost>>
        BY <1>6 DEF connect
    <2> HIDE DEF op
    <2>3. bluenet'.busy = op /\ bluenet'.link = bluenet.link
        BY <1>1, <2>1, <2>2, InProgressIs
    <2> QED
        BY <2>1, <2>2, <2>3 DEF Linked, ConnectedMeansLink, ConnectedIsPeer, devices
<1>7. ASSUME NEW op \in Operation,
             op.op \in {"disconnect"} \cup CharacteristicOps,
             NEW object \in {"peripheral", "central", "characteristic"}, NEW i \in Nat,
             InProgress(op, object, i), UNCHANGED <<devices, lost>>
      PROVE  Linked'
    <2>1. /\ bluenet.busy = Idle /\ bluenet'.busy = op /\ bluenet'.link = bluenet.link
        BY <1>1, <1>7, InProgressIs
    <2>2. op.op \notin {"connect", "discoverService"}
        BY <1>7, BleConnectionsAssumption
    <2> QED
        BY <1>7, <2>1, <2>2, ConnectionStaysLinked DEF ConnectionStays, devices, Linked
<1>8. CASE disconnect
    <2> DEFINE op == [op |-> "disconnect"]
    <2>1. op \in Operation /\ op.op = "disconnect"
        BY DEF Operation
    <2>2. /\ InProgress(op, "peripheral", 0) \/ InProgress(op, "central", 0)
          /\ UNCHANGED <<devices, lost>>
        BY <1>8 DEF disconnect
    <2> HIDE DEF op
    <2> QED
        BY <1>7, <2>1, <2>2
<1>9. ASSUME NEW u \in Uuids, discoverService(u)
      PROVE  Linked'
    <2> DEFINE op == [op |-> "discoverService", todo |-> Found(u, bluenet.link.peer)]
    <2>1. Found(u, bluenet.link.peer) \in Seq(Finding)
        BY FoundIs
    <2>2. op \in Operation /\ op.op = "discoverService"
        BY <2>1 DEF Operation
    <2>3. /\ InProgress(op, "peripheral", 0) /\ peripheral.connected
          /\ UNCHANGED <<devices, lost>>
        BY <1>9 DEF discoverService, When
    <2> HIDE DEF op
    <2>4. bluenet'.busy = op /\ bluenet'.link = bluenet.link
        BY <1>1, <2>2, <2>3, InProgressIs
    <2> QED
        BY <2>2, <2>3, <2>4 DEF Linked, ConnectedMeansLink, ConnectedIsPeer, devices
<1>10. ASSUME NEW o \in CharacteristicOps, NEW i \in DOMAIN remoteCharacteristics,
              CharacteristicCall(o, i)
       PROVE  Linked'
    <2> DEFINE op == [op |-> o, uuid |-> remoteCharacteristics[i].uuid]
    <2>1. remoteCharacteristics[i] \in RemoteCharacteristic /\ i \in Nat
        BY DEF Typed, TablesTyped
    <2>2. op \in Operation /\ op.op = o
        BY <2>1 DEF Operation, RemoteCharacteristic, RemoteUuids
    <2>3. InProgress(op, "characteristic", i) /\ UNCHANGED <<devices, lost>>
        BY <1>10 DEF CharacteristicCall
    <2> HIDE DEF op
    <2> QED
        BY <1>7, <2>1, <2>2, <2>3
<1> QED
    BY <1>2, <1>3, <1>4, <1>5, <1>6, <1>8, <1>9, <1>10 DEF UserCall

LEMMA ConnectionEventLinked ==
    ASSUME Typed, Linked,
           \/ CentralEventConnect \/ CentralEventDisconnect
           \/ \E a \in Centrals : PeripheralEventConnect(a)
           \/ PeripheralEventDisconnect
    PROVE  Linked'
<1>1. /\ bluenet \in Bluenet /\ bluenet.busy \in Operation
      /\ peripheral \in Device /\ central \in Device
    BY DEF Typed, BluenetTyped, DevicesTyped, Bluenet
<1>2. ~scanDevice'.connected /\ scanDevice'.services = <<>>
    BY DEF Linked, CentralEventConnect, CentralEventDisconnect, PeripheralEventConnect,
           PeripheralEventDisconnect
<1>3. CASE CentralEventConnect
    <2> DEFINE peer == bluenet.busy.peer
    <2>1. /\ bluenet.busy.op = "connect"
          /\ bluenet.link = NoLink /\ ~peripheral.connected /\ peer = peripheral.address
        BY <1>3 DEF CentralEventConnect, Linked
    <2>2. peer \in Addresses /\ bluenet.links < MaxLinks
        BY <1>1, <2>1, OperationIs DEF Typed, BluenetTyped
    <2> HIDE DEF peer
    <2>3. /\ LinkTo("central", peer).link.role = "central"
          /\ LinkTo("central", peer).link.peer = peer
          /\ LinkTo("central", peer).busy = Idle
        BY <1>1, <2>1, <2>2, LinkToIs
    <2>4. UNCHANGED <<central, scanDevice>>
        BY <1>3 DEF CentralEventConnect
    <2>5. ~lost => ~central.connected
        BY <2>1 DEF Linked, ConnectedMeansLink, NoLink, None
    <2>6. CASE /\ bluenet' = LinkTo("central", peer)
               /\ peripheral' = onConnect(peripheral) /\ UNCHANGED lost
        <3>1. peripheral'.connected = TRUE /\ peripheral'.address = peripheral.address
            BY <1>1, <2>6, DeviceEvents
        <3> QED
            BY <1>2, <2>1, <2>3, <2>4, <2>5, <2>6, <3>1
               DEF Linked, ConnectedMeansLink, ConnectedIsPeer, Idle, None
    <2>7. CASE /\ bluenet' = LinkTo("central", peer)
               /\ lost' = TRUE /\ UNCHANGED peripheral
        BY <1>2, <2>1, <2>3, <2>7 DEF Linked, ConnectedMeansLink, ConnectedIsPeer, Idle, None
    <2>8. CASE bluenet' = Done /\ UNCHANGED <<peripheral, lost>>
        <3>1. bluenet'.busy = Idle /\ bluenet'.link = bluenet.link
            BY <1>1, <2>8, DoneIs
        <3> QED
            BY <1>2, <2>4, <2>8, <3>1, ConnectionStaysLinked DEF ConnectionStays
    <2> QED
        BY <1>3, <2>6, <2>7, <2>8 DEF CentralEventConnect, peer
<1>4. CASE CentralEventDisconnect
    <2>1. bluenet.link.role = "central" /\ bluenet' = LinkDown
        BY <1>4 DEF CentralEventDisconnect
    <2>2. bluenet'.link = NoLink /\ bluenet'.busy \in {Idle, bluenet.busy}
        BY <1>1, <2>1, LinkDownIs
    <2>3. bluenet'.busy.op # "connect"
        BY <2>1, <2>2 DEF Linked, NoLink, Idle, None
    <2>4. bluenet'.link.role = None /\ None \notin {"central", "peripheral"}
        BY <2>2 DEF NoLink, None
    <2>5. ConnectedMeansLink'
        <3>1. CASE lost' = TRUE
            BY <3>1 DEF ConnectedMeansLink
        <3>2. CASE peripheral' = onDisconnect(peripheral) /\ UNCHANGED <<lost, central>>
            <4>1. peripheral'.connected = FALSE
                BY <1>1, <3>2, DeviceEvents
            <4>2. ~lost => ~central.connected
                BY <2>1 DEF Linked, ConnectedMeansLink
            <4> QED
                BY <2>4, <3>2, <4>1, <4>2 DEF ConnectedMeansLink
        <3> QED
            BY <1>4, <3>1, <3>2 DEF CentralEventDisconnect
    <2> QED
        BY <1>2, <2>3, <2>4, <2>5 DEF Linked, ConnectedIsPeer
<1>5. ASSUME NEW a \in Centrals, PeripheralEventConnect(a)
      PROVE  Linked'
    <2>1. /\ bluenet.busy.op # "connect" /\ bluenet.links < MaxLinks
          /\ bluenet.link = NoLink
          /\ bluenet' = LinkTo("peripheral", a)
          /\ UNCHANGED peripheral
          /\ \/ central' = onConnect(NewDevice("central", a)) /\ UNCHANGED lost
             \/ lost' = TRUE /\ UNCHANGED central
        BY <1>5 DEF PeripheralEventConnect
    <2>2. a \in Addresses /\ a \in Peripherals \cup Centrals
        BY DEF Addresses
    <2>3. bluenet'.busy = bluenet.busy /\ bluenet'.link.role = "peripheral"
        BY <1>1, <2>1, <2>2, LinkToIs
    <2>4. ConnectedMeansLink'
        <3>1. CASE lost' = TRUE
            BY <3>1 DEF ConnectedMeansLink
        <3>2. CASE central' = onConnect(NewDevice("central", a)) /\ UNCHANGED lost
            <4>1. NewDevice("central", a) \in Device
                BY <2>2, NewDeviceIs
            <4>2. central'.connected = TRUE
                BY <3>2, <4>1, DeviceEvents
            <4>3. ~lost => ~peripheral.connected
                BY <2>1 DEF Linked, ConnectedMeansLink, NoLink, None
            <4> QED
                BY <2>1, <2>3, <3>2, <4>2, <4>3 DEF ConnectedMeansLink
        <3> QED
            BY <2>1, <3>1, <3>2
    <2> QED
        BY <1>2, <2>1, <2>3, <2>4 DEF Linked, ConnectedIsPeer
<1>6. CASE PeripheralEventDisconnect
    <2>1. bluenet.link.role = "peripheral" /\ bluenet' = LinkDown /\ UNCHANGED peripheral
        BY <1>6 DEF PeripheralEventDisconnect
    <2>2. bluenet'.link = NoLink /\ bluenet'.busy \in {Idle, bluenet.busy}
        BY <1>1, <2>1, LinkDownIs
    <2>3. bluenet'.busy.op # "connect"
        BY <2>1, <2>2 DEF Linked, NoLink, Idle, None
    <2>4. bluenet'.link.role = None /\ None \notin {"central", "peripheral"}
        BY <2>2 DEF NoLink, None
    <2>5. ConnectedMeansLink'
        <3>1. CASE lost' = TRUE
            BY <3>1 DEF ConnectedMeansLink
        <3>2. CASE central' = onDisconnect(central) /\ UNCHANGED lost
            <4>1. central'.connected = FALSE
                BY <1>1, <3>2, DeviceEvents
            <4>2. ~lost => ~peripheral.connected
                BY <2>1 DEF Linked, ConnectedMeansLink
            <4> QED
                BY <2>1, <2>4, <3>2, <4>1, <4>2 DEF ConnectedMeansLink
        <3> QED
            BY <1>6, <3>1, <3>2 DEF PeripheralEventDisconnect
    <2> QED
        BY <1>2, <2>3, <2>4, <2>5 DEF Linked, ConnectedIsPeer
<1> QED
    BY <1>3, <1>4, <1>5, <1>6

LEMMA AttributeEventLinked ==
    ASSUME Typed, Linked,
           \/ CentralEventDiscover \/ CentralEventDiscoverDone
           \/ CentralEventCharacteristic \/ CentralEventNotification
    PROVE  Linked'
<1>1. bluenet \in Bluenet /\ peripheral \in Device
    BY DEF Typed, BluenetTyped, DevicesTyped
<1>2. UNCHANGED <<scanDevice, central, lost>>
    BY DEF CentralEventDiscover, CentralEventDiscoverDone, CentralEventCharacteristic,
           CentralEventNotification, devices
<1>3. /\ peripheral'.connected = peripheral.connected
      /\ peripheral'.address = peripheral.address
    <2>1. CASE peripheral' = onDiscoverDone(peripheral)
        BY <1>1, <2>1, DeviceEvents
    <2>2. ASSUME NEW s, addDiscoveredService(s)
          PROVE  /\ peripheral'.connected = peripheral.connected
                 /\ peripheral'.address = peripheral.address
        BY <1>1, <2>2 DEF addDiscoveredService, Device
    <2>3. CASE UNCHANGED peripheral
        BY <2>3
    <2> QED
        BY <2>1, <2>2, <2>3
           DEF CentralEventDiscover, CentralEventDiscoverDone, CentralEventCharacteristic,
               CentralEventNotification, devices, addDiscoveredCharacteristic
<1>4. /\ bluenet'.link = bluenet.link
      /\ \/ bluenet'.busy = Idle
         \/ bluenet'.busy.op = bluenet.busy.op /\ bluenet.busy.op # "connect"
         \/ bluenet'.busy = bluenet.busy /\ UNCHANGED peripheral
    <2>1. Done \in Bluenet /\ Done.busy = Idle /\ Done.link = bluenet.link
        BY <1>1, DoneIs
    <2>2. /\ [Done EXCEPT !.subscribed = Subscriptions].busy = Idle
          /\ [Done EXCEPT !.subscribed = Subscriptions].link = bluenet.link
        BY <2>1 DEF Bluenet
    <2>3. CASE CentralEventDiscover
        <3>1. /\ bluenet.busy.op = "discoverService"
              /\ bluenet' = [bluenet EXCEPT !.busy.todo = Tail(@)]
            BY <2>3 DEF CentralEventDiscover
        <3>2. bluenet.busy \in [op : {"discoverService"}, todo : Seq(Finding)]
            BY <1>1, <3>1, OperationIs DEF Bluenet
        <3>3. bluenet'.busy.op = bluenet.busy.op /\ bluenet'.link = bluenet.link
            BY <1>1, <3>1, <3>2 DEF Bluenet
        <3> QED
            BY <3>1, <3>3
    <2>4. CASE CentralEventDiscoverDone
        BY <2>1, <2>4 DEF CentralEventDiscoverDone
    <2>5. CASE CentralEventCharacteristic
        BY <2>1, <2>2, <2>5 DEF CentralEventCharacteristic
    <2>6. CASE CentralEventNotification
        BY <2>6 DEF CentralEventNotification, devices
    <2> QED
        BY <2>3, <2>4, <2>5, <2>6
<1>5. ConnectionStays
    BY <1>2, <1>3, <1>4 DEF ConnectionStays, Linked
<1> QED
    BY <1>4, <1>5, ConnectionStaysLinked

LEMMA StepLinked ==
    ASSUME Careful, Typed, Linked, [Next]_vars
    PROVE  Linked'
<1>1. CASE CallTimesOut \/ CallReturns \/ UNCHANGED vars
    <2>1. UNCHANGED <<devices, bluenet, lost>>
        BY <1>1 DEF CallTimesOut, CallReturns, vars
    <2> QED
        BY <2>1, ConnectionStaysLinked DEF ConnectionStays, devices, Linked
<1>2. ASSUME NEW a \in Peripherals, handleScanEvent(a)
      PROVE  Linked'
    <2>1. ~scanDevice'.connected /\ scanDevice'.services = <<>>
        BY <1>2, ScannedIs DEF handleScanEvent
    <2> QED
        BY <1>2, <2>1, ConnectionStaysLinked DEF handleScanEvent, ConnectionStays
<1> QED
    BY <1>1, <1>2, UserCallLinked, ConnectionEventLinked, AttributeEventLinked
       DEF Next, handleEvent, handleCentralEvent, handlePeripheralEvent

------------------------------------------------------------------------------
(* The tables, of a careful user.                                          *)

LEMMA CountingTo ==
    /\ [k \in 1 .. 0 |-> k] = <<>>
    /\ \A n \in Nat : /\ [k \in 1 .. n |-> k] \in Seq(Nat)
                      /\ Len([k \in 1 .. n |-> k]) = n
                      /\ Append([k \in 1 .. n |-> k], n + 1) = [k \in 1 .. n + 1 |-> k]
<1>1. [k \in 1 .. 0 |-> k] = <<>>
    OBVIOUS
<1>2. ASSUME NEW n \in Nat
      PROVE  /\ [k \in 1 .. n |-> k] \in Seq(Nat)
             /\ Len([k \in 1 .. n |-> k]) = n
             /\ Append([k \in 1 .. n |-> k], n + 1) = [k \in 1 .. n + 1 |-> k]
    <2> DEFINE s == [k \in 1 .. n |-> k]
    <2> DEFINE t == [k \in 1 .. n + 1 |-> k]
    <2>1. s \in Seq(Nat) /\ Len(s) = n /\ \A k \in 1 .. n : s[k] = k
        OBVIOUS
    <2>2. t \in Seq(Nat) /\ Len(t) = n + 1 /\ \A k \in 1 .. n + 1 : t[k] = k
        OBVIOUS
    <2> HIDE DEF s, t
    <2>3. /\ Append(s, n + 1) \in Seq(Nat) /\ Len(Append(s, n + 1)) = n + 1
          /\ \A k \in 1 .. n : Append(s, n + 1)[k] = s[k]
          /\ Append(s, n + 1)[n + 1] = n + 1
        BY <2>1, AppendTo
    <2>4. \A k \in 1 .. n + 1 : Append(s, n + 1)[k] = t[k]
        BY <2>1, <2>2, <2>3
    <2>5. Append(s, n + 1) = t
        BY <2>2, <2>3, <2>4
    <2> QED
        BY <2>1, <2>5 DEF s, t
<1> QED
    BY <1>1, <1>2

(* A device without services.                                              *)
LEMMA EmptyTabled ==
    ASSUME peripheral'.services = <<>>, remoteServiceCount' = 0, remoteCharacteristicCount' = 0
    PROVE  Tabled'
BY CountingTo DEF Tabled, Accounted, AllHere

LEMMA InitTabled == Init => Tabled
<1> SUFFICES ASSUME Init PROVE Tabled
    OBVIOUS
<1> QED
    BY NewDeviceIs, CountingTo DEF Init, Tabled, Accounted, AllHere

(* Nothing that is counted changes, and no link begins.                    *)
TablesStay ==
    /\ peripheral'.services = peripheral.services
    /\ peripheral'.connected = peripheral.connected
    /\ UNCHANGED <<remoteServiceCount, remoteCharacteristicCount>>
    /\ \A k \in 1 .. remoteServiceCount :
          /\ remoteServices'[k].characteristics = remoteServices[k].characteristics
          /\ bluenet'.link.role = "central" => remoteServices'[k].here = remoteServices[k].here
    /\ \A i \in 1 .. remoteCharacteristicCount :
          bluenet'.link.role = "central"
             => remoteCharacteristics'[i].here = remoteCharacteristics[i].here
    /\ bluenet'.link.role = "central" => bluenet.link.role = "central"

LEMMA TablesStayTabled ==
    ASSUME Tabled, TablesStay
    PROVE  Tabled'
<1>1. Accounted(peripheral.services, remoteServices, remoteServiceCount,
                remoteCharacteristicCount)'
    BY DEF Tabled, TablesStay, Accounted
<1> QED
    BY <1>1 DEF Tabled, TablesStay, AllHere

(* A device that is not connected has none.                                *)
LEMMA UnconnectedIsEmpty ==
    ASSUME Tabled, ~peripheral.connected
    PROVE  /\ peripheral.services = <<>>
           /\ remoteServiceCount = 0 /\ remoteCharacteristicCount = 0
BY CountingTo DEF Tabled, Accounted

LEMMA UserCallTabled ==
    ASSUME Careful, Typed, Linked, Tabled, UserCall \/ CallTimesOut \/ CallReturns
    PROVE  Tabled'
<1>1. bluenet \in Bluenet /\ TablesTyped
    BY DEF Typed, BluenetTyped
<1>2. CASE end \/ available
    <2>1. ~peripheral.connected
        BY <1>2 DEF end, available, NothingUnderWay, When
    <2>2. peripheral' \in {NoDevice, scanDevice} /\ UNCHANGED tables
        BY <1>2 DEF end, available
    <2>3. peripheral'.services = <<>>
        BY <2>2, NewDeviceIs DEF Linked
    <2> QED
        BY <2>1, <2>2, <2>3, UnconnectedIsEmpty, EmptyTabled DEF tables
<1>3. CASE begin \/ scan \/ stopScan \/ getCentral \/ CallTimesOut
    <2>1. UNCHANGED <<peripheral, tables, bluenet>>
        BY <1>3 DEF begin, scan, stopScan, getCentral, CallTimesOut, devices
    <2> QED
        BY <2>1, TablesStayTabled DEF tables, TablesStay
<1>4. ASSUME UNCHANGED <<devices, tables>>,
             NEW op, NEW object, NEW i, InProgress(op, object, i)
      PROVE  Tabled'
    <2>1. bluenet'.link = bluenet.link
        BY <1>1, <1>4 DEF InProgress, Bluenet
    <2> QED
        BY <1>4, <2>1, TablesStayTabled DEF devices, tables, TablesStay
<1>5. CASE connect \/ disconnect \/ \E u \in Uuids : discoverService(u)
    BY <1>4, <1>5 DEF connect, disconnect, discoverService
<1>6. CASE \E op \in CharacteristicOps, i \in DOMAIN remoteCharacteristics :
              CharacteristicCall(op, i)
    BY <1>4, <1>6 DEF CharacteristicCall
<1>7. CASE CallReturns
    <2> DEFINE i == call.index
    <2>1. /\ UNCHANGED <<devices, remoteServices,
                         remoteServiceCount, remoteCharacteristicCount, bluenet>>
          /\ \/ remoteCharacteristics' = remoteCharacteristics
             \/ remoteCharacteristics'
                   = [remoteCharacteristics EXCEPT ![i].remoteValueUpdated = FALSE]
        BY <1>7 DEF CallReturns
    <2> HIDE DEF i
    <2>2. \A k \in DOMAIN remoteCharacteristics :
             remoteCharacteristics'[k].here = remoteCharacteristics[k].here
        <3>1. remoteCharacteristics \in Seq(RemoteCharacteristic)
            BY <1>1 DEF TablesTyped
        <3>2. \A k \in DOMAIN remoteCharacteristics :
                 remoteCharacteristics[k] \in RemoteCharacteristic
            BY <3>1
        <3> QED
            BY <2>1, <3>1, <3>2 DEF RemoteCharacteristic
    <2>3. \A k \in 1 .. remoteCharacteristicCount : k \in DOMAIN remoteCharacteristics
        BY <1>1 DEF TablesTyped
    <2> QED
        BY <2>1, <2>2, <2>3, TablesStayTabled DEF devices, TablesStay
<1> QED
    BY <1>2, <1>3, <1>5, <1>6, <1>7 DEF UserCall

LEMMA ConnectionEventTabled ==
    ASSUME Typed, Linked, Tabled,
           \/ CentralEventConnect \/ CentralEventDisconnect
           \/ \E a \in Centrals : PeripheralEventConnect(a)
           \/ PeripheralEventDisconnect
    PROVE  Tabled'
<1>1. /\ bluenet \in Bluenet /\ bluenet.busy \in Operation /\ peripheral \in Device
      /\ TablesTyped
    BY DEF Typed, BluenetTyped, DevicesTyped, Bluenet
<1>2. CASE CentralEventConnect
    <2>1. ~peripheral.connected
        BY <1>2 DEF CentralEventConnect, Linked
    <2>2. peripheral' \in {peripheral, onConnect(peripheral)} /\ UNCHANGED tables
        BY <1>2 DEF CentralEventConnect
    <2>3. onConnect(peripheral).services = peripheral.services
        BY <1>1, DeviceEvents
    <2> QED
        BY <2>1, <2>2, <2>3, UnconnectedIsEmpty, EmptyTabled DEF tables
<1>3. CASE CentralEventDisconnect
    <2>1. CASE /\ peripheral' = onDisconnect(peripheral)
               /\ remoteServiceCount' = 0 /\ remoteCharacteristicCount' = 0
        <3>1. peripheral'.services = <<>>
            BY <1>1, <2>1, DeviceEvents
        <3> QED
            BY <2>1, <3>1, EmptyTabled
    <2>2. CASE UNCHANGED <<peripheral, remoteServiceCount, remoteCharacteristicCount>>
        <3>1. remoteServices \in Seq(RemoteService) /\ remoteServices' = Elsewhere(remoteServices)
            BY <1>1, <1>3 DEF CentralEventDisconnect, TablesTyped
        <3>2. \A k \in 1 .. Len(remoteServices) :
                 remoteServices'[k].characteristics = remoteServices[k].characteristics
            BY <3>1, ServicesElsewhere
        <3>3. \A k \in 1 .. remoteServiceCount : k \in 1 .. Len(remoteServices)
            BY <1>1 DEF TablesTyped
        <3>4. bluenet'.link.role # "central"
            BY <1>1, <1>3, LinkDownIs DEF CentralEventDisconnect, NoLink, None
        <3> QED
            BY <2>2, <3>2, <3>3, <3>4, TablesStayTabled DEF TablesStay
    <2> QED
        BY <1>3, <2>1, <2>2 DEF CentralEventDisconnect
<1>4. ASSUME NEW a \in Centrals, PeripheralEventConnect(a)
      PROVE  Tabled'
    <2>1. /\ bluenet.busy.op # "connect" /\ bluenet.links < MaxLinks
          /\ bluenet' = LinkTo("peripheral", a) /\ UNCHANGED <<peripheral, tables>>
        BY <1>4 DEF PeripheralEventConnect
    <2>2. a \in Addresses
        BY DEF Addresses
    <2>3. bluenet'.link.role = "peripheral"
        BY <1>1, <2>1, <2>2, LinkToIs
    <2> QED
        BY <2>1, <2>3, TablesStayTabled DEF tables, TablesStay
<1>5. CASE PeripheralEventDisconnect
    <2>1. bluenet' = LinkDown /\ UNCHANGED <<peripheral, tables>>
        BY <1>5 DEF PeripheralEventDisconnect
    <2>2. bluenet'.link.role # "central"
        BY <1>1, <2>1, LinkDownIs DEF NoLink, None
    <2> QED
        BY <2>1, <2>2, TablesStayTabled DEF tables, TablesStay
<1> QED
    BY <1>2, <1>3, <1>4, <1>5

(* The service that is found is counted, for the device has room when the  *)
(* table has.                                                              *)
LEMMA ServiceTabled ==
    ASSUME Typed, Tabled, peripheral.connected, NEW u \in Uuids, addDiscoveredService(u),
           bluenet'.link = bluenet.link
    PROVE  Tabled'
<1> DEFINE n == remoteServiceCount + 1
<1> DEFINE m == remoteCharacteristicCount
<1>1. TablesTyped /\ peripheral \in Device
    BY DEF Typed, DevicesTyped
<1>2. /\ n \in Nat /\ remoteServiceCount \in Nat /\ m \in Nat
      /\ \A k \in 1 .. n : k \in 1 .. remoteServiceCount \/ k = n
      /\ \A k \in 1 .. remoteServiceCount : k \in 1 .. n
      /\ n \in 1 .. n
    BY <1>1 DEF TablesTyped
<1>3. /\ n <= MAX_REMOTE_SERVICES
      /\ UNCHANGED <<remoteCharacteristics, remoteCharacteristicCount>>
      /\ \A k \in 1 .. remoteServiceCount : remoteServices'[k] = remoteServices[k]
      /\ remoteServices'[n].characteristics = <<>>
      /\ remoteServices'[n].here
      /\ peripheral'.connected = peripheral.connected
      /\ Len(peripheral.services) < MAX_REMOTE_SERVICES =>
            /\ remoteServiceCount' = n
            /\ peripheral'.services = Append(peripheral.services, n)
    BY <1>1, ServiceAdded
<1>4. peripheral.services = [k \in 1 .. remoteServiceCount |-> k]
    BY DEF Tabled, Accounted
<1>5. Len(peripheral.services) < MAX_REMOTE_SERVICES
    <2>1. Len(peripheral.services) = remoteServiceCount
        BY <1>2, <1>4, CountingTo
    <2> QED
        BY <1>2, <1>3, <2>1, SizesAreNatural
<1>6. peripheral'.services = [k \in 1 .. n |-> k]
    BY <1>2, <1>3, <1>4, <1>5, CountingTo
<1>7. ToSet(remoteServices'[n].characteristics) = {}
    BY <1>3 DEF ToSet
<1> HIDE DEF n, m
<1>8. Accounted(peripheral'.services, remoteServices', n, m)
    <2>1. \A k \in 1 .. n : \A i \in ToSet(remoteServices'[k].characteristics) : i <= m
        BY <1>2, <1>3, <1>7 DEF Tabled, Accounted, m
    <2>2. \A i \in 1 .. m : \E k \in 1 .. n : i \in ToSet(remoteServices'[k].characteristics)
        BY <1>2, <1>3 DEF Tabled, Accounted, m
    <2> QED
        BY <1>6, <2>1, <2>2 DEF Accounted
<1>9. AllHere(remoteServices, remoteServiceCount) => AllHere(remoteServices', n)
    BY <1>2, <1>3 DEF AllHere
<1> QED
    BY <1>3, <1>5, <1>8, <1>9 DEF Tabled, m

LEMMA CharacteristicTabled ==
    ASSUME Typed, Tabled, peripheral.connected, NEW u, NEW c \in RemoteUuids,
           addDiscoveredCharacteristic(u, c), bluenet'.link = bluenet.link
    PROVE  Tabled'
<1> DEFINE n == remoteCharacteristicCount + 1
<1>1. TablesTyped /\ peripheral \in Device
    BY DEF Typed, DevicesTyped
<1>2. /\ n \in Nat /\ remoteCharacteristicCount \in Nat
      /\ \A i \in 1 .. n : i \in 1 .. remoteCharacteristicCount \/ i = n
      /\ \A i \in 1 .. remoteCharacteristicCount :
            i # n /\ i \in 1 .. Len(remoteCharacteristics)
      /\ remoteCharacteristicCount < n
    BY <1>1 DEF TablesTyped
<1>3. \A k \in 1 .. remoteServiceCount : k \in 1 .. Len(remoteServices)
    BY <1>1 DEF TablesTyped
<1>4. /\ UNCHANGED <<peripheral, remoteServiceCount>>
      /\ \A i \in 1 .. Len(remoteCharacteristics) :
            i # n => remoteCharacteristics'[i] = remoteCharacteristics[i]
      /\ remoteCharacteristics'[n].here
      /\ \A k \in 1 .. Len(remoteServices) :
            remoteServices'[k].here = remoteServices[k].here
    BY <1>1, CharacteristicAdded
<1>5. \/ GetsEntry(u, n)
      \/ UNCHANGED <<remoteServices, remoteCharacteristicCount>>
    BY <1>1, CharacteristicAdded
<1> HIDE DEF n
<1>6. CASE UNCHANGED <<remoteServices, remoteCharacteristicCount>>
    BY <1>2, <1>4, <1>6, TablesStayTabled DEF TablesStay
<1>7. ASSUME remoteCharacteristicCount' = n,
             NEW s \in ToSet(peripheral.services),
             \A k \in 1 .. Len(remoteServices) :
                /\ k # s => remoteServices'[k] = remoteServices[k]
                /\ k = s => ToSet(remoteServices'[k].characteristics)
                               = ToSet(remoteServices[k].characteristics) \cup {n}
      PROVE  Tabled'
    <2> DEFINE had(k) == ToSet(remoteServices[k].characteristics)
    <2> DEFINE has(k) == ToSet(remoteServices'[k].characteristics)
    <2>1. s \in 1 .. remoteServiceCount
        BY <1>7 DEF Tabled, Accounted, ToSet
    <2>2. \A k \in 1 .. remoteServiceCount : k # s => has(k) = had(k)
        BY <1>3, <1>7
    <2>3. has(s) = had(s) \cup {n}
        BY <1>3, <1>7, <2>1
    <2>4. /\ peripheral.services = [k \in 1 .. remoteServiceCount |-> k]
          /\ \A k \in 1 .. remoteServiceCount :
                \A i \in had(k) : i <= remoteCharacteristicCount
          /\ \A i \in 1 .. remoteCharacteristicCount :
                \E k \in 1 .. remoteServiceCount : i \in had(k)
        BY DEF Tabled, Accounted
    <2>5. ASSUME NEW k \in 1 .. remoteServiceCount
          PROVE  \A i \in had(k) : i \in Nat /\ i <= n
        <3>1. remoteServices[k] \in RemoteService
            BY <1>1, <1>3 DEF TablesTyped
        <3>2. \A i \in had(k) : i \in Nat
            <4>1. remoteServices[k].characteristics \in Seq(1 .. MAX_REMOTE_CHARACTERISTICS)
                BY <3>1 DEF RemoteService
            <4>2. \A j \in DOMAIN remoteServices[k].characteristics :
                     remoteServices[k].characteristics[j] \in Nat
                BY <4>1, SizesAreNatural
            <4> QED
                BY <4>2 DEF ToSet
        <3>3. \A i \in had(k) : i <= remoteCharacteristicCount
            BY <2>4
        <3> HIDE DEF had
        <3> QED
            BY <1>2, <3>2, <3>3
    <2>6. \A k \in 1 .. remoteServiceCount : \A i \in has(k) : i <= n
        BY <1>2, <2>2, <2>3, <2>5
    <2>7. \A i \in 1 .. n : \E k \in 1 .. remoteServiceCount : i \in has(k)
        <3>1. \A k \in 1 .. remoteServiceCount : had(k) \subseteq has(k)
            BY <2>2, <2>3
        <3>2. n \in has(s)
            BY <2>3
        <3> HIDE DEF had, has
        <3> QED
            BY <1>2, <2>1, <2>4, <3>1, <3>2
    <2>8. Accounted(peripheral'.services, remoteServices', remoteServiceCount', n)
        BY <1>4, <2>4, <2>6, <2>7 DEF Accounted
    <2>9. /\ AllHere(remoteServices, remoteServiceCount)
                => AllHere(remoteServices', remoteServiceCount')
          /\ AllHere(remoteCharacteristics, remoteCharacteristicCount)
                => AllHere(remoteCharacteristics', n)
        BY <1>2, <1>3, <1>4 DEF AllHere
    <2> QED
        BY <1>4, <1>7, <2>8, <2>9 DEF Tabled
<1> QED
    BY <1>5, <1>6, <1>7 DEF GetsEntry

LEMMA AttributeEventTabled ==
    ASSUME Typed, Linked, Tabled,
           \/ CentralEventDiscover \/ CentralEventDiscoverDone
           \/ CentralEventCharacteristic \/ CentralEventNotification
    PROVE  Tabled'
<1>1. bluenet \in Bluenet /\ bluenet.busy \in Operation /\ peripheral \in Device /\ TablesTyped
    BY DEF Typed, BluenetTyped, DevicesTyped, Bluenet
<1>2. Done \in Bluenet /\ Done.link = bluenet.link
    BY <1>1, DoneIs
<1>3. CASE CentralEventDiscover
    <2> DEFINE todo == bluenet.busy.todo
    <2> DEFINE next == Head(todo)
    <2>1. /\ bluenet.busy.op = "discoverService" /\ todo # <<>>
          /\ bluenet.link.role = "central"
          /\ bluenet' = [bluenet EXCEPT !.busy.todo = Tail(@)]
        BY <1>3 DEF CentralEventDiscover
    <2>2. todo \in Seq(Finding)
        BY <1>1, <2>1, OperationIs
    <2>3. next \in Finding
        BY <2>1, <2>2, HeadAndTail
    <2>4. next.service \in Uuids
          /\ (next.characteristic # None => next.characteristic \in RemoteUuids)
        BY <2>3 DEF Finding
    <2>5. \/ addDiscoveredService(next.service)
          \/ /\ next.characteristic # None
             /\ addDiscoveredCharacteristic(next.service, next.characteristic)
          \/ UNCHANGED <<peripheral, tables>>
        BY <1>3 DEF CentralEventDiscover
    <2> HIDE DEF next
    <2>6. bluenet'.link = bluenet.link
        BY <1>1, <2>1 DEF Bluenet
    <2>7. peripheral.connected
        BY <2>1 DEF Linked
    <2>8. CASE UNCHANGED <<peripheral, tables>>
        BY <2>6, <2>8, TablesStayTabled DEF tables, TablesStay
    <2> QED
        BY <2>4, <2>5, <2>6, <2>7, <2>8, ServiceTabled, CharacteristicTabled
<1>4. CASE CentralEventDiscoverDone
    <2>1. /\ bluenet'.link = bluenet.link /\ UNCHANGED tables
          /\ peripheral' \in {peripheral, onDiscoverDone(peripheral)}
        BY <1>2, <1>4 DEF CentralEventDiscoverDone
    <2>2. peripheral'.services = peripheral.services
          /\ peripheral'.connected = peripheral.connected
        BY <1>1, <2>1, DeviceEvents
    <2> QED
        BY <2>1, <2>2, TablesStayTabled DEF tables, TablesStay
<1>5. ASSUME NEW i, NEW new,
             \/ UNCHANGED remoteCharacteristics
             \/ remoteCharacteristics' = [remoteCharacteristics EXCEPT ![i] = new]
                /\ (i \in DOMAIN remoteCharacteristics =>
                       new.here = remoteCharacteristics[i].here),
             UNCHANGED <<devices, remoteServices, remoteServiceCount, remoteCharacteristicCount>>,
             bluenet'.link = bluenet.link
      PROVE  Tabled'
    <2>1. \A k \in 1 .. remoteCharacteristicCount : k \in DOMAIN remoteCharacteristics
        BY <1>1 DEF TablesTyped
    <2>2. \A k \in DOMAIN remoteCharacteristics :
             remoteCharacteristics'[k].here = remoteCharacteristics[k].here
        BY <1>5
    <2> QED
        BY <1>5, <2>1, <2>2, TablesStayTabled DEF devices, TablesStay
<1>6. \A k \in DOMAIN remoteCharacteristics : remoteCharacteristics[k] \in RemoteCharacteristic
    BY <1>1 DEF TablesTyped
<1>7. CASE CentralEventCharacteristic
    <2> DEFINE i == getCharacteristic(bluenet.busy.uuid)
    <2> DEFINE new ==
           [remoteCharacteristics[i] EXCEPT !.news = (@ /\ bluenet.busy.op # "readValue")]
    <2>1. /\ bluenet' \in {Done, [Done EXCEPT !.subscribed = Subscriptions]}
          /\ UNCHANGED <<devices, remoteServices, remoteServiceCount, remoteCharacteristicCount>>
          /\ onRemoteDone(i) \/ UNCHANGED remoteCharacteristics
        BY <1>7 DEF CentralEventCharacteristic
    <2>2. [Done EXCEPT !.subscribed = Subscriptions].link = bluenet.link
        BY <1>2 DEF Bluenet
    <2>3. bluenet'.link = bluenet.link
        BY <1>2, <2>1, <2>2
    <2>4. \/ UNCHANGED remoteCharacteristics
          \/ remoteCharacteristics' = [remoteCharacteristics EXCEPT ![i] = new]
        BY <2>1 DEF onRemoteDone
    <2>5. i \in DOMAIN remoteCharacteristics => new.here = remoteCharacteristics[i].here
        BY <1>6 DEF RemoteCharacteristic
    <2> HIDE DEF i, new
    <2> QED
        BY <1>5, <2>1, <2>3, <2>4, <2>5
<1>8. CASE CentralEventNotification
    <2>1. PICK i : remoteCharacteristics'
                     = [remoteCharacteristics EXCEPT ![i] = onRemoteNotification(i)]
        BY <1>8 DEF CentralEventNotification
    <2>2. /\ bluenet'.link = bluenet.link
          /\ UNCHANGED <<devices, remoteServices, remoteServiceCount, remoteCharacteristicCount>>
        BY <1>8 DEF CentralEventNotification
    <2>3. i \in DOMAIN remoteCharacteristics =>
             onRemoteNotification(i).here = remoteCharacteristics[i].here
        BY <1>6 DEF onRemoteNotification, RemoteCharacteristic
    <2> QED
        BY <1>5, <2>1, <2>2, <2>3
<1> QED
    BY <1>3, <1>4, <1>7, <1>8

LEMMA StepTabled ==
    ASSUME Careful, Typed, Linked, Tabled, [Next]_vars
    PROVE  Tabled'
<1>1. CASE (\E a \in Peripherals : handleScanEvent(a)) \/ UNCHANGED vars
    <2>1. UNCHANGED <<peripheral, tables, bluenet>>
        BY <1>1 DEF handleScanEvent, vars, devices
    <2> QED
        BY <2>1, TablesStayTabled DEF tables, TablesStay
<1> QED
    BY <1>1, UserCallTabled, ConnectionEventTabled, AttributeEventTabled
       DEF Next, handleEvent, handleCentralEvent, handlePeripheralEvent

(* What the services have is counted, and no more.                         *)
LEMMA TabledMeansAccounted ==
    ASSUME Typed, Tabled
    PROVE  TablesAccounted /\ AttributesOfThisLink
<1>1. /\ peripheral.services = [k \in 1 .. remoteServiceCount |-> k]
      /\ \A k \in 1 .. remoteServiceCount :
            \A i \in ToSet(remoteServices[k].characteristics) : i <= remoteCharacteristicCount
      /\ \A i \in 1 .. remoteCharacteristicCount :
            \E k \in 1 .. remoteServiceCount : i \in ToSet(remoteServices[k].characteristics)
    BY DEF Tabled, Accounted
<1>2. ASSUME NEW i
      PROVE  Counted(i) <=> \E k \in 1 .. remoteServiceCount :
                               i \in ToSet(remoteServices[k].characteristics)
    BY <1>1 DEF Counted
<1>3. \A i \in DOMAIN remoteCharacteristics : i \in Nat /\ 1 <= i
    BY DEF Typed, TablesTyped
<1>4. remoteCharacteristicCount \in Nat
    BY DEF Typed, TablesTyped
<1>5. \A i \in DOMAIN remoteCharacteristics : Counted(i) <=> i <= remoteCharacteristicCount
    <2>1. ASSUME NEW i \in DOMAIN remoteCharacteristics, Counted(i)
          PROVE  i <= remoteCharacteristicCount
        BY <1>1, <1>2, <2>1
    <2>2. ASSUME NEW i \in DOMAIN remoteCharacteristics, i <= remoteCharacteristicCount
          PROVE  Counted(i)
        <3>1. i \in 1 .. remoteCharacteristicCount
            BY <1>3, <1>4, <2>2
        <3> QED
            BY <1>1, <1>2, <3>1
    <2> QED
        BY <2>1, <2>2
<1>6. TablesAccounted
    BY <1>1, <1>5, TypedMeansTypes DEF TablesAccounted
<1>7. ASSUME bluenet.link.role = "central"
      PROVE  /\ \A s \in ToSet(peripheral.services) : remoteServices[s].here
             /\ \A i \in DOMAIN remoteCharacteristics :
                   Counted(i) => remoteCharacteristics[i].here
    <2>1. /\ AllHere(remoteServices, remoteServiceCount)
          /\ AllHere(remoteCharacteristics, remoteCharacteristicCount)
        BY <1>7 DEF Tabled
    <2>2. \A s \in ToSet(peripheral.services) : s \in 1 .. remoteServiceCount
        BY <1>1 DEF ToSet
    <2>3. \A i \in DOMAIN remoteCharacteristics :
             Counted(i) => i \in 1 .. remoteCharacteristicCount
        BY <1>3, <1>4, <1>5
    <2> QED
        BY <2>1, <2>2, <2>3 DEF AllHere
<1> QED
    BY <1>6, <1>7 DEF AttributesOfThisLink

LEMMA CarefulSpec ==
    ASSUME Careful
    PROVE  Spec => [](Linked /\ Tabled)
<1>1. Typed /\ Linked /\ Tabled /\ [Next]_vars => Linked' /\ Tabled'
    BY StepLinked, StepTabled
<1> QED
    BY <1>1, InitLinked, InitTabled, SpecTyped, PTL DEF Spec

(* connected() of the two devices says what link there is, as long as no   *)
(* event of a link was dropped, however the calls end (ConnectedMeansLink).*)
THEOREM ConnectedTellsTheLink ==
    ASSUME Careful
    PROVE  Spec => []ConnectedMeansLink
<1>1. Linked => ConnectedMeansLink
    BY DEF Linked
<1> QED
    BY <1>1, CarefulSpec, PTL

(* A peripheral that is said to be connected is the one at the other end,  *)
(* also after dropped events (ConnectedIsPeer).                            *)
THEOREM ConnectedToThePeer ==
    ASSUME Careful
    PROVE  Spec => []ConnectedIsPeer
<1>1. Linked => ConnectedIsPeer
    BY DEF Linked
<1> QED
    BY <1>1, CarefulSpec, PTL

(* The tables count what the peripheral has, each entry once, and nothing  *)
(* of an earlier connection, also after dropped events (TablesAccounted).  *)
THEOREM TablesCountThePeripheral ==
    ASSUME Careful
    PROVE  Spec => []TablesAccounted
    BY TabledMeansAccounted, CarefulSpec, SpecTyped, PTL

(* What the peripheral is said to offer was found on the link there is     *)
(* (AttributesOfThisLink).                                                 *)
THEOREM AttributesWereFoundHere ==
    ASSUME Careful
    PROVE  Spec => []AttributesOfThisLink
    BY TabledMeansAccounted, CarefulSpec, SpecTyped, PTL

------------------------------------------------------------------------------
(* The refinement.  One thing is missing from the invariants: bluenet      *)
(* connects to peripherals, and what it is about to tell of the peripheral *)
(* there is a link to is what that offers.                                 *)

OfferedBy(p) ==
    {f \in Finding :
        /\ f.service \in Offered[p]
        /\ f.characteristic # None => f.characteristic \in ToSet(CharacteristicsOf[f.service])}

DevicesPeered ==
    \A d \in {scanDevice, peripheral} : d.role = "peripheral" => d.address \in Peripherals

BluenetPeered ==
    /\ bluenet.busy.op = "connect" => bluenet.busy.peer \in Peripherals
    /\ bluenet.link.role = "central" => bluenet.link.peer \in Peripherals
    /\ bluenet.link.role = "central" /\ bluenet.busy.op = "discoverService"
          => bluenet.busy.todo \in Seq(OfferedBy(bluenet.link.peer))

Peered == DevicesPeered /\ BluenetPeered

LEMMA InitPeered == Init => Peered
BY NewDeviceIs DEF Init, Peered, DevicesPeered, BluenetPeered, NoLink, Idle, None

LEMMA FoundIsOffered ==
    ASSUME NEW u \in Uuids, NEW peer
    PROVE  Found(u, peer) \in Seq(OfferedBy(peer))
<1> DEFINE cs == CharacteristicsOf[u]
<1> DEFINE s == [service |-> u, characteristic |-> None]
<1> DEFINE cf == [i \in DOMAIN cs |-> [service |-> u, characteristic |-> cs[i]]]
<1> DEFINE O == OfferedBy(peer)
<1>1. Found(u, peer) = IF u \notin Offered[peer] THEN <<>> ELSE <<s>> \o cf
    BY DEF Found
<1>2. CASE u \in Offered[peer]
    <2>1. cs \in Seq(ToSet(cs)) /\ ToSet(cs) \subseteq RemoteUuids
        BY BleConnectionsAssumption DEF RemoteUuids
    <2>2. s \in O
        BY <1>2 DEF OfferedBy, Finding
    <2>3. \A i \in DOMAIN cs : [service |-> u, characteristic |-> cs[i]] \in O
        BY <1>2, <2>1 DEF OfferedBy, Finding
    <2>4. cf \in Seq(O)
        <3>1. DOMAIN cs = 1 .. Len(cs) /\ Len(cs) \in Nat
            BY <2>1
        <3> HIDE DEF cs, O
        <3> QED
            BY <2>3, <3>1
    <2>5. <<s>> \o cf \in Seq(O)
        <3> HIDE DEF s, cf, O
        <3> QED
            BY <2>2, <2>4
    <2> QED
        BY <1>1, <1>2, <2>5
<1>3. CASE u \notin Offered[peer]
    BY <1>1, <1>3
<1> QED
    BY <1>2, <1>3

LEMMA StepDevicesPeered ==
    ASSUME Typed, DevicesPeered, [Next]_vars
    PROVE  DevicesPeered'
<1> DEFINE new == {NoDevice} \cup {NewDevice("peripheral", a) : a \in Peripherals}
<1> DEFINE same(d, e) == d.role = e.role /\ d.address = e.address
<1>1. \A d \in new : d.role = "peripheral" => d.address \in Peripherals
    BY NewDeviceIs DEF None
<1>2. scanDevice' \in {scanDevice} \cup new
    BY DEF Next, UserCall, begin, end, scan, stopScan, available, getCentral, connect, disconnect,
           discoverService, CharacteristicCall, CallTimesOut, CallReturns, handleEvent,
           handleScanEvent, handleCentralEvent, handlePeripheralEvent, CentralEventConnect,
           CentralEventDisconnect, CentralEventDiscover, CentralEventDiscoverDone,
           CentralEventCharacteristic, CentralEventNotification, PeripheralEventConnect,
           PeripheralEventDisconnect, devices, vars
<1>3. peripheral \in Device
    BY DEF Typed, DevicesTyped
<1>4. \/ peripheral' \in {scanDevice, NoDevice}
      \/ same(peripheral', peripheral)
    <2>1. CASE peripheral' \in {scanDevice, NoDevice, peripheral}
        BY <2>1
    <2>2. CASE peripheral' \in {onConnect(peripheral), onDisconnect(peripheral),
                                onDiscoverDone(peripheral)}
        BY <1>3, <2>2 DEF onConnect, onDisconnect, onDiscoverDone, Device
    <2>3. CASE \E n : peripheral' = [peripheral EXCEPT !.services = Append(@, n)]
        BY <1>3, <2>3 DEF Device
    <2>4. \/ peripheral' \in {scanDevice, NoDevice, peripheral}
          \/ peripheral' \in {onConnect(peripheral), onDisconnect(peripheral),
                              onDiscoverDone(peripheral)}
          \/ \E n : peripheral' = [peripheral EXCEPT !.services = Append(@, n)]
        <3>1. CASE UserCall
            BY <3>1 DEF UserCall, begin, end, scan, stopScan, available, getCentral, connect,
                        disconnect, discoverService, CharacteristicCall, devices
        <3>2. CASE handleCentralEvent
            BY <3>2 DEF handleCentralEvent, CentralEventConnect, CentralEventDisconnect,
                        CentralEventDiscover, CentralEventDiscoverDone,
                        CentralEventCharacteristic, CentralEventNotification,
                        addDiscoveredService, addDiscoveredCharacteristic, devices
        <3>3. CASE CallTimesOut \/ CallReturns \/ UNCHANGED vars \/ handlePeripheralEvent
                   \/ \E a \in Peripherals : handleScanEvent(a)
            BY <3>3 DEF CallTimesOut, CallReturns, handlePeripheralEvent, PeripheralEventConnect,
                        PeripheralEventDisconnect, handleScanEvent, devices, vars
        <3> QED
            BY <3>1, <3>2, <3>3 DEF Next, handleEvent
    <2> QED
        BY <2>1, <2>2, <2>3, <2>4
<1> QED
    BY <1>1, <1>2, <1>4, NewDeviceIs DEF DevicesPeered, None

LEMMA PeersStay ==
    ASSUME BluenetPeered, bluenet'.link = bluenet.link \/ bluenet'.link.role # "central",
           \/ bluenet'.busy = bluenet.busy
           \/ bluenet'.busy.op \notin {"connect", "discoverService"}
    PROVE  BluenetPeered'
BY DEF BluenetPeered

LEMMA UserCallPeered ==
    ASSUME Typed, Peered, UserCall \/ CallTimesOut \/ CallReturns
    PROVE  BluenetPeered'
<1>1. bluenet \in Bluenet /\ peripheral \in Device
    BY DEF Typed, BluenetTyped, DevicesTyped
<1>2. CASE begin \/ end \/ scan \/ stopScan \/ available \/ getCentral \/ CallTimesOut \/ CallReturns
    <2>1. UNCHANGED bluenet
        BY <1>2 DEF begin, end, scan, stopScan, available, getCentral, CallTimesOut, CallReturns
    <2> QED
        BY <2>1, PeersStay DEF Peered
<1>3. CASE connect
    <2> DEFINE op == [op |-> "connect", peer |-> peripheral.address]
    <2>1. op \in Operation /\ op.op = "connect" /\ op.peer = peripheral.address
        BY <1>1 DEF Device, Operation, Addresses
    <2>2. InProgress(op, "peripheral", 0) /\ peripheral.role = "peripheral"
        BY <1>3 DEF connect
    <2> HIDE DEF op
    <2>3. bluenet'.busy = op /\ bluenet'.link = bluenet.link
        BY <1>1, <2>1, <2>2, InProgressIs
    <2> QED
        BY <2>1, <2>2, <2>3 DEF Peered, DevicesPeered, BluenetPeered
<1>4. ASSUME NEW op \in Operation, op.op \in {"disconnect"} \cup CharacteristicOps,
             NEW object \in {"peripheral", "central", "characteristic"}, NEW i \in Nat,
             InProgress(op, object, i)
      PROVE  BluenetPeered'
    <2>1. bluenet'.busy = op /\ bluenet'.link = bluenet.link
        BY <1>1, <1>4, InProgressIs
    <2>2. op.op \notin {"connect", "discoverService"}
        BY <1>4, BleConnectionsAssumption
    <2> QED
        BY <2>1, <2>2, PeersStay DEF Peered
<1>5. CASE disconnect
    <2> DEFINE op == [op |-> "disconnect"]
    <2>1. op \in Operation /\ op.op = "disconnect"
        BY DEF Operation
    <2>2. InProgress(op, "peripheral", 0) \/ InProgress(op, "central", 0)
        BY <1>5 DEF disconnect
    <2> HIDE DEF op
    <2> QED
        BY <1>4, <2>1, <2>2
<1>6. ASSUME NEW u \in Uuids, discoverService(u)
      PROVE  BluenetPeered'
    <2> DEFINE op == [op |-> "discoverService", todo |-> Found(u, bluenet.link.peer)]
    <2>1. op \in Operation /\ op.op = "discoverService"
          /\ op.todo = Found(u, bluenet.link.peer)
        BY FoundIs DEF Operation
    <2>2. InProgress(op, "peripheral", 0)
        BY <1>6 DEF discoverService
    <2> HIDE DEF op
    <2>3. bluenet'.busy = op /\ bluenet'.link = bluenet.link
        BY <1>1, <2>1, <2>2, InProgressIs
    <2>4. op.todo \in Seq(OfferedBy(bluenet.link.peer))
        BY <2>1, FoundIsOffered
    <2> QED
        BY <2>1, <2>3, <2>4 DEF Peered, BluenetPeered
<1>7. ASSUME NEW o \in CharacteristicOps, NEW i \in DOMAIN remoteCharacteristics,
             CharacteristicCall(o, i)
      PROVE  BluenetPeered'
    <2> DEFINE op == [op |-> o, uuid |-> remoteCharacteristics[i].uuid]
    <2>1. remoteCharacteristics[i] \in RemoteCharacteristic /\ i \in Nat
        BY DEF Typed, TablesTyped
    <2>2. op \in Operation /\ op.op = o
        BY <2>1 DEF Operation, RemoteCharacteristic, RemoteUuids
    <2>3. InProgress(op, "characteristic", i)
        BY <1>7 DEF CharacteristicCall
    <2> HIDE DEF op
    <2> QED
        BY <1>4, <2>1, <2>2, <2>3
<1> QED
    BY <1>2, <1>3, <1>5, <1>6, <1>7 DEF UserCall

LEMMA EventPeered ==
    ASSUME Typed, Peered, handleEvent
    PROVE  BluenetPeered'
<1>1. bluenet \in Bluenet /\ bluenet.busy \in Operation
    BY DEF Typed, BluenetTyped, Bluenet
<1>2. /\ Done \in Bluenet /\ Done.busy = Idle /\ Done.link = bluenet.link
      /\ Idle.op \notin {"connect", "discoverService"}
    BY <1>1, DoneIs DEF Idle, None
<1>3. CASE bluenet' = bluenet
    BY <1>3, PeersStay DEF Peered
<1>4. CASE CentralEventConnect
    <2>1. /\ bluenet.busy.op = "connect" /\ bluenet.links < MaxLinks
          /\ bluenet' \in {LinkTo("central", bluenet.busy.peer), Done}
        BY <1>4 DEF CentralEventConnect, Typed, BluenetTyped
    <2>2. bluenet.busy.peer \in Addresses
        BY <1>1, <2>1, OperationIs
    <2>3. /\ LinkTo("central", bluenet.busy.peer).link.peer = bluenet.busy.peer
          /\ LinkTo("central", bluenet.busy.peer).busy = Idle
        BY <1>1, <2>1, <2>2, LinkToIs
    <2> QED
        BY <1>2, <2>1, <2>3 DEF Peered, BluenetPeered
<1>5. CASE CentralEventDisconnect \/ PeripheralEventDisconnect
    <2>1. bluenet' = LinkDown
        BY <1>5 DEF CentralEventDisconnect, PeripheralEventDisconnect
    <2>2. bluenet'.link = NoLink /\ bluenet'.busy \in {Idle, bluenet.busy}
        BY <1>1, <2>1, LinkDownIs
    <2>3. bluenet'.link.role # "central"
        BY <2>2 DEF NoLink, None
    <2> QED
        BY <1>2, <2>2, <2>3, PeersStay DEF Peered
<1>6. CASE CentralEventDiscover
    <2> DEFINE todo == bluenet.busy.todo
    <2>1. /\ bluenet.busy.op = "discoverService" /\ todo # <<>>
          /\ bluenet.link.role = "central"
          /\ bluenet' = [bluenet EXCEPT !.busy.todo = Tail(@)]
        BY <1>6 DEF CentralEventDiscover
    <2>2. bluenet.busy \in [op : {"discoverService"}, todo : Seq(Finding)]
        BY <1>1, <2>1, OperationIs
    <2>3. /\ bluenet'.link = bluenet.link /\ bluenet'.busy.op = "discoverService"
          /\ bluenet'.busy.todo = Tail(todo)
        BY <1>1, <2>1, <2>2 DEF Bluenet
    <2>4. todo \in Seq(OfferedBy(bluenet.link.peer))
        BY <2>1 DEF Peered, BluenetPeered
    <2> HIDE DEF todo
    <2>5. Tail(todo) \in Seq(OfferedBy(bluenet.link.peer))
        BY <2>1, <2>4, HeadAndTail
    <2> QED
        BY <2>3, <2>5 DEF Peered, BluenetPeered
<1>7. CASE CentralEventDiscoverDone \/ CentralEventCharacteristic
    <2>1. bluenet' \in {Done, [Done EXCEPT !.subscribed = Subscriptions]}
        BY <1>7 DEF CentralEventDiscoverDone, CentralEventCharacteristic
    <2>2. /\ [Done EXCEPT !.subscribed = Subscriptions].busy = Idle
          /\ [Done EXCEPT !.subscribed = Subscriptions].link = bluenet.link
        BY <1>2 DEF Bluenet
    <2> QED
        BY <1>2, <2>1, <2>2, PeersStay DEF Peered
<1>8. ASSUME NEW a \in Centrals, PeripheralEventConnect(a)
      PROVE  BluenetPeered'
    <2>1. /\ bluenet.busy.op # "connect" /\ bluenet.links < MaxLinks
          /\ bluenet' = LinkTo("peripheral", a)
        BY <1>8 DEF PeripheralEventConnect
    <2>2. a \in Addresses
        BY DEF Addresses
    <2>3. bluenet'.busy = bluenet.busy /\ bluenet'.link.role = "peripheral"
        BY <1>1, <2>1, <2>2, LinkToIs
    <2> QED
        BY <2>3, PeersStay DEF Peered
<1>9. CASE CentralEventNotification \/ \E a \in Peripherals : handleScanEvent(a)
    <2>1. UNCHANGED bluenet
        BY <1>9 DEF CentralEventNotification, handleScanEvent
    <2> QED
        BY <1>3, <2>1
<1> QED
    BY <1>4, <1>5, <1>6, <1>7, <1>8, <1>9 DEF handleEvent, handleCentralEvent, handlePeripheralEvent

LEMMA SpecPeered == Spec => []Peered
<1>1. UNCHANGED vars /\ Peered => BluenetPeered'
    BY PeersStay DEF vars, Peered
<1>2. Typed /\ Peered /\ [Next]_vars => Peered'
    BY <1>1, StepDevicesPeered, UserCallPeered, EventPeered DEF Peered, Next
<1> QED
    BY <1>2, InitPeered, SpecTyped, PTL DEF Spec

(* What is counted is in the tables.                                       *)
LEMMA CountedEntries ==
    ASSUME Typed, Tabled
    PROVE  /\ ToSet(peripheral.services) = 1 .. remoteServiceCount
           /\ \A k \in 1 .. remoteServiceCount :
                 /\ k \in 1 .. Len(remoteServices)
                 /\ \A i \in ToSet(remoteServices[k].characteristics) :
                       /\ i \in 1 .. remoteCharacteristicCount
                       /\ i \in 1 .. Len(remoteCharacteristics)
<1>1. TablesTyped
    BY DEF Typed
<1>2. peripheral.services = [k \in 1 .. remoteServiceCount |-> k]
    BY DEF Tabled, Accounted
<1>3. ToSet(peripheral.services) = 1 .. remoteServiceCount
    BY <1>2 DEF ToSet
<1>4. ASSUME NEW k \in 1 .. remoteServiceCount
      PROVE  /\ k \in 1 .. Len(remoteServices)
             /\ \A i \in ToSet(remoteServices[k].characteristics) :
                   /\ i \in 1 .. remoteCharacteristicCount
                   /\ i \in 1 .. Len(remoteCharacteristics)
    <2>1. k \in 1 .. Len(remoteServices)
        BY <1>1 DEF TablesTyped
    <2>2. remoteServices[k] \in RemoteService
        BY <1>1, <2>1 DEF TablesTyped
    <2>3. remoteServices[k].characteristics \in Seq(1 .. MAX_REMOTE_CHARACTERISTICS)
        BY <2>2 DEF RemoteService
    <2>4. \A j \in DOMAIN remoteServices[k].characteristics :
             remoteServices[k].characteristics[j] \in 1 .. MAX_REMOTE_CHARACTERISTICS
        <3> DEFINE P == 1 .. MAX_REMOTE_CHARACTERISTICS
        <3>1. remoteServices[k].characteristics \in Seq(P)
            BY <2>3
        <3> HIDE DEF P
        <3>2. \A j \in DOMAIN remoteServices[k].characteristics :
                 remoteServices[k].characteristics[j] \in P
            BY <3>1
        <3> QED
            BY <3>2 DEF P
    <2>5. \A i \in ToSet(remoteServices[k].characteristics) : i \in Nat /\ 1 <= i
        BY <2>4, SizesAreNatural DEF ToSet
    <2>6. \A i \in ToSet(remoteServices[k].characteristics) : i <= remoteCharacteristicCount
        BY DEF Tabled, Accounted
    <2> QED
        BY <1>1, <2>1, <2>5, <2>6 DEF TablesTyped
<1> QED
    BY <1>3, <1>4

(* What was found is found still.                                          *)
AttributesStay ==
    /\ peripheral'.services = peripheral.services
    /\ \A k \in 1 .. remoteServiceCount :
          /\ remoteServices'[k].uuid = remoteServices[k].uuid
          /\ remoteServices'[k].characteristics = remoteServices[k].characteristics
    /\ \A i \in 1 .. remoteCharacteristicCount :
          remoteCharacteristics'[i].uuid = remoteCharacteristics[i].uuid

LEMMA FoundStays ==
    ASSUME Typed, Tabled, AttributesStay
    PROVE  UNCHANGED <<FoundServices, FoundCharacteristics>>
<1> DEFINE S == ToSet(peripheral.services)
<1> DEFINE found(s) == {<<remoteServices[s].uuid, remoteCharacteristics[i].uuid>> :
                           i \in ToSet(remoteServices[s].characteristics)}
<1> DEFINE finds(s) == {<<remoteServices'[s].uuid, remoteCharacteristics'[i].uuid>> :
                           i \in ToSet(remoteServices'[s].characteristics)}
<1>1. ASSUME NEW s \in S
      PROVE  /\ remoteServices'[s].uuid = remoteServices[s].uuid
             /\ remoteServices'[s].characteristics = remoteServices[s].characteristics
             /\ \A i \in ToSet(remoteServices[s].characteristics) :
                   remoteCharacteristics'[i].uuid = remoteCharacteristics[i].uuid
    BY CountedEntries DEF AttributesStay
<1>2. \A s \in S : finds(s) = found(s)
    BY <1>1
<1>3. peripheral'.services = peripheral.services
    BY DEF AttributesStay
<1>4. /\ FoundServices = {remoteServices[s].uuid : s \in S}
      /\ FoundServices' = {remoteServices'[s].uuid : s \in S}
    BY <1>3 DEF FoundServices
<1>5. /\ FoundCharacteristics = UNION {found(s) : s \in S}
      /\ FoundCharacteristics' = UNION {finds(s) : s \in S}
    BY <1>3 DEF FoundCharacteristics
<1> HIDE DEF S, found, finds
<1>6. {remoteServices[s].uuid : s \in S} = {remoteServices'[s].uuid : s \in S}
    BY <1>1
<1>7. {found(s) : s \in S} = {finds(s) : s \in S}
    BY <1>2
<1> QED
    BY <1>4, <1>5, <1>6, <1>7

LEMMA NothingFound ==
    ASSUME peripheral.services = <<>>
    PROVE  FoundServices = {} /\ FoundCharacteristics = {}
<1>1. ToSet(peripheral.services) = {}
    BY DEF ToSet
<1> QED
    BY <1>1 DEF FoundServices, FoundCharacteristics

LEMMA ServiceFound ==
    ASSUME Typed, Tabled, NEW u \in Uuids, addDiscoveredService(u)
    PROVE  \/ UNCHANGED <<FoundServices, FoundCharacteristics>>
           \/ FoundServices' = FoundServices \cup {u} /\ UNCHANGED FoundCharacteristics
<1> DEFINE n == remoteServiceCount + 1
<1> DEFINE S == ToSet(peripheral.services)
<1> DEFINE found(s) == {<<remoteServices[s].uuid, remoteCharacteristics[i].uuid>> :
                           i \in ToSet(remoteServices[s].characteristics)}
<1> DEFINE finds(s) == {<<remoteServices'[s].uuid, remoteCharacteristics'[i].uuid>> :
                           i \in ToSet(remoteServices'[s].characteristics)}
<1>1. TablesTyped /\ peripheral \in Device
    BY DEF Typed, DevicesTyped
<1>2. /\ UNCHANGED <<remoteCharacteristics, remoteCharacteristicCount>>
      /\ \A k \in 1 .. remoteServiceCount : remoteServices'[k] = remoteServices[k]
      /\ remoteServices'[n].characteristics = <<>>
      /\ remoteServices'[n].uuid = u
      /\ n <= MAX_REMOTE_SERVICES
      /\ Len(peripheral.services) < MAX_REMOTE_SERVICES =>
            peripheral'.services = Append(peripheral.services, n)
      /\ ~ Len(peripheral.services) < MAX_REMOTE_SERVICES =>
            UNCHANGED peripheral
    BY <1>1, ServiceAdded
<1>3. CASE ~ Len(peripheral.services) < MAX_REMOTE_SERVICES
    BY <1>2, <1>3, FoundStays DEF AttributesStay
<1>4. CASE Len(peripheral.services) < MAX_REMOTE_SERVICES
    <2>1. S = 1 .. remoteServiceCount
        BY CountedEntries
    <2>2. \A s \in S : remoteServices'[s].uuid = remoteServices[s].uuid /\ finds(s) = found(s)
        BY <1>2, <2>1
    <2>3. ToSet(peripheral'.services) = S \cup {n}
        <3> DEFINE T == 1 .. MAX_REMOTE_SERVICES
        <3>1. peripheral.services \in Seq(T) /\ n \in T
            BY <1>1, <1>2, SizesAreNatural DEF Device, TablesTyped
        <3>2. peripheral'.services = Append(peripheral.services, n)
            BY <1>2, <1>4
        <3> HIDE DEF T, n
        <3> QED
            BY <3>1, <3>2, AppendedMember
    <2>4. finds(n) = {}
        <3>1. ToSet(remoteServices'[n].characteristics) = {}
            BY <1>2 DEF ToSet
        <3> QED
            BY <3>1
    <2>5. /\ FoundServices = {remoteServices[s].uuid : s \in S}
          /\ FoundServices' = {remoteServices'[s].uuid : s \in S \cup {n}}
          /\ FoundCharacteristics = UNION {found(s) : s \in S}
          /\ FoundCharacteristics' = UNION {finds(s) : s \in S \cup {n}}
        BY <2>3 DEF FoundServices, FoundCharacteristics
    <2>6. remoteServices'[n].uuid = u
        BY <1>2
    <2> HIDE DEF S, n, found, finds
    <2>7. {remoteServices'[s].uuid : s \in S \cup {n}} = {remoteServices[s].uuid : s \in S} \cup {u}
        BY <2>2, <2>6
    <2>8. UNION {finds(s) : s \in S \cup {n}} = UNION {found(s) : s \in S}
        BY <2>2, <2>4
    <2> QED
        BY <2>5, <2>7, <2>8
<1> QED
    BY <1>3, <1>4

LEMMA CharacteristicFound ==
    ASSUME Typed, Tabled, NEW u, NEW c \in RemoteUuids, addDiscoveredCharacteristic(u, c)
    PROVE  \/ UNCHANGED <<FoundServices, FoundCharacteristics>>
           \/ /\ u \in FoundServices
              /\ UNCHANGED FoundServices
              /\ FoundCharacteristics' = FoundCharacteristics \cup {<<u, c>>}
<1> DEFINE n == remoteCharacteristicCount + 1
<1> DEFINE S == ToSet(peripheral.services)
<1> DEFINE had(s) == ToSet(remoteServices[s].characteristics)
<1> DEFINE has(s) == ToSet(remoteServices'[s].characteristics)
<1> DEFINE found(s) == {<<remoteServices[s].uuid, remoteCharacteristics[i].uuid>> : i \in had(s)}
<1> DEFINE finds(s) == {<<remoteServices'[s].uuid, remoteCharacteristics'[i].uuid>> : i \in has(s)}
<1>1. TablesTyped /\ peripheral \in Device /\ remoteCharacteristicCount \in Nat
    BY DEF Typed, DevicesTyped, TablesTyped
<1>2. /\ UNCHANGED <<peripheral, remoteServiceCount>>
      /\ \A i \in 1 .. Len(remoteCharacteristics) :
            i # n => remoteCharacteristics'[i] = remoteCharacteristics[i]
      /\ remoteCharacteristics'[n].uuid = c
      /\ \A k \in 1 .. Len(remoteServices) : remoteServices'[k].uuid = remoteServices[k].uuid
      /\ GetsEntry(u, n) \/ UNCHANGED <<remoteServices, remoteCharacteristicCount>>
    BY <1>1, CharacteristicAdded
<1>3. S = 1 .. remoteServiceCount
    BY CountedEntries
<1>4. \A k \in S : /\ k \in 1 .. Len(remoteServices)
                   /\ \A i \in had(k) : i \in 1 .. Len(remoteCharacteristics) /\ i # n
    <2>1. \A i \in 1 .. remoteCharacteristicCount : i # n
        BY <1>1
    <2> QED
        BY <1>3, <2>1, CountedEntries
<1>5. CASE UNCHANGED <<remoteServices, remoteCharacteristicCount>>
    <2>1. \A i \in 1 .. remoteCharacteristicCount :
             i \in 1 .. Len(remoteCharacteristics) /\ i # n
        BY <1>1 DEF TablesTyped
    <2> QED
        BY <1>2, <1>5, <2>1, FoundStays DEF AttributesStay
<1>6. CASE GetsEntry(u, n)
    <2>1. PICK t \in S : /\ remoteServices[t].uuid = u
                         /\ \A k \in 1 .. Len(remoteServices) :
                               /\ k # t => remoteServices'[k] = remoteServices[k]
                               /\ k = t => has(k) = had(k) \cup {n}
        BY <1>6 DEF GetsEntry
    <2>2. \A s \in S : /\ remoteServices'[s].uuid = remoteServices[s].uuid
                       /\ s # t => has(s) = had(s)
        BY <1>2, <1>4, <2>1
    <2>3. has(t) = had(t) \cup {n}
        BY <1>4, <2>1
    <2>4. \A s \in S : \A i \in had(s) : remoteCharacteristics'[i] = remoteCharacteristics[i]
        BY <1>2, <1>4
    <2>5. remoteCharacteristics'[n].uuid = c
        BY <1>2
    <2>6. /\ FoundServices = {remoteServices[s].uuid : s \in S}
          /\ FoundServices' = {remoteServices'[s].uuid : s \in S}
          /\ FoundCharacteristics = UNION {found(s) : s \in S}
          /\ FoundCharacteristics' = UNION {finds(s) : s \in S}
        BY <1>2 DEF FoundServices, FoundCharacteristics
    <2> HIDE DEF S, n, had, has
    <2>7. {remoteServices'[s].uuid : s \in S} = {remoteServices[s].uuid : s \in S}
        BY <2>2
    <2>8. \A s \in S : s # t => finds(s) = found(s)
        BY <2>2, <2>4
    <2>9. finds(t) = found(t) \cup {<<u, c>>}
        BY <2>1, <2>2, <2>3, <2>4, <2>5
    <2> HIDE DEF found, finds
    <2>10. UNION {finds(s) : s \in S} = (UNION {found(s) : s \in S}) \cup {<<u, c>>}
        <3>1. \A x : x \in UNION {finds(s) : s \in S} <=> \E s \in S : x \in finds(s)
            OBVIOUS
        <3>2. \A x : x \in UNION {found(s) : s \in S} <=> \E s \in S : x \in found(s)
            OBVIOUS
        <3>3. \A x : (\E s \in S : x \in finds(s)) <=> (\E s \in S : x \in found(s)) \/ x = <<u, c>>
            <4>1. \A x : x \in finds(t) <=> x \in found(t) \/ x = <<u, c>>
                BY <2>9
            <4>2. \A s \in S : s # t => \A x : x \in finds(s) <=> x \in found(s)
                BY <2>8
            <4> QED
                BY <2>1, <4>1, <4>2
        <3> QED
            BY <3>1, <3>2, <3>3
    <2>11. u \in {remoteServices[s].uuid : s \in S}
        BY <2>1
    <2>12. u \in FoundServices /\ FoundServices' = FoundServices
        BY <2>6, <2>7, <2>11
    <2>13. FoundCharacteristics' = FoundCharacteristics \cup {<<u, c>>}
        BY <2>6, <2>10
    <2> QED
        BY <2>12, <2>13
<1> QED
    BY <1>2, <1>5, <1>6

(* A step that changes no attribute, no connection and no link is none of  *)
(* the abstract specification.                                             *)
LEMMA QuietIs ==
    ASSUME Typed, Tabled, AttributesStay,
           peripheral'.connected = peripheral.connected,
           peripheral'.address = peripheral.address,
           \/ bluenet'.link = bluenet.link
           \/ bluenet'.link.role # "central" /\ bluenet.link.role # "central"
    PROVE  UNCHANGED Link!vars
<1>1. LinkedPeripheral' = LinkedPeripheral /\ ConnectedDevice' = ConnectedDevice
    BY DEF LinkedPeripheral, ConnectedDevice
<1> QED
    BY <1>1, FoundStays DEF Link!vars

LEMMA UserCallQuiet ==
    ASSUME Careful, Typed, Linked, Tabled, UserCall \/ CallTimesOut \/ CallReturns
    PROVE  UNCHANGED Link!vars
<1>1. bluenet \in Bluenet /\ TablesTyped
    BY DEF Typed, BluenetTyped
<1>2. CASE end \/ available
    <2>1. ~peripheral.connected
        BY <1>2 DEF end, available, NothingUnderWay, When
    <2>2. peripheral' \in {NoDevice, scanDevice} /\ UNCHANGED bluenet
        BY <1>2 DEF end, available
    <2>3. peripheral'.services = <<>> /\ ~peripheral'.connected
        BY <2>2, NewDeviceIs DEF Linked
    <2>4. peripheral.services = <<>>
        BY <2>1, UnconnectedIsEmpty
    <2>5. UNCHANGED <<FoundServices, FoundCharacteristics>>
        <3>1. ToSet(peripheral.services) = {} /\ ToSet(peripheral'.services) = {}
            BY <2>3, <2>4 DEF ToSet
        <3> QED
            BY <3>1 DEF FoundServices, FoundCharacteristics
    <2> QED
        BY <2>1, <2>2, <2>3, <2>5 DEF Link!vars, LinkedPeripheral, ConnectedDevice
<1>3. CASE begin \/ scan \/ stopScan \/ getCentral \/ CallTimesOut
    <2>1. UNCHANGED <<peripheral, tables, bluenet>>
        BY <1>3 DEF begin, scan, stopScan, getCentral, CallTimesOut, devices
    <2> QED
        BY <2>1, QuietIs DEF tables, AttributesStay
<1>4. ASSUME UNCHANGED <<devices, tables>>,
             NEW op, NEW object, NEW i, InProgress(op, object, i)
      PROVE  UNCHANGED Link!vars
    <2>1. bluenet'.link = bluenet.link
        BY <1>1, <1>4 DEF InProgress, Bluenet
    <2> QED
        BY <1>4, <2>1, QuietIs DEF devices, tables, AttributesStay
<1>5. CASE connect \/ disconnect \/ \E u \in Uuids : discoverService(u)
    BY <1>4, <1>5 DEF connect, disconnect, discoverService
<1>6. CASE \E op \in CharacteristicOps, i \in DOMAIN remoteCharacteristics :
              CharacteristicCall(op, i)
    BY <1>4, <1>6 DEF CharacteristicCall
<1>7. CASE CallReturns
    <2> DEFINE i == call.index
    <2>1. /\ UNCHANGED <<devices, remoteServices,
                         remoteServiceCount, remoteCharacteristicCount, bluenet>>
          /\ \/ remoteCharacteristics' = remoteCharacteristics
             \/ remoteCharacteristics'
                   = [remoteCharacteristics EXCEPT ![i].remoteValueUpdated = FALSE]
        BY <1>7 DEF CallReturns
    <2> HIDE DEF i
    <2>2. \A k \in DOMAIN remoteCharacteristics :
             remoteCharacteristics'[k].uuid = remoteCharacteristics[k].uuid
        <3>1. remoteCharacteristics \in Seq(RemoteCharacteristic)
            BY <1>1 DEF TablesTyped
        <3>2. \A k \in DOMAIN remoteCharacteristics :
                 remoteCharacteristics[k] \in RemoteCharacteristic
            BY <3>1
        <3> QED
            BY <2>1, <3>1, <3>2 DEF RemoteCharacteristic
    <2>3. \A k \in 1 .. remoteCharacteristicCount : k \in DOMAIN remoteCharacteristics
        BY <1>1 DEF TablesTyped
    <2> QED
        BY <2>1, <2>2, <2>3, QuietIs DEF devices, AttributesStay
<1> QED
    BY <1>2, <1>3, <1>5, <1>6, <1>7 DEF UserCall

LEMMA EventQuiet ==
    ASSUME Typed, Tabled,
           \/ \E a \in Peripherals : handleScanEvent(a)
           \/ CentralEventDiscoverDone \/ CentralEventCharacteristic \/ CentralEventNotification
           \/ handlePeripheralEvent
           \/ UNCHANGED vars
    PROVE  UNCHANGED Link!vars
<1>1. bluenet \in Bluenet /\ bluenet.busy \in Operation /\ peripheral \in Device /\ TablesTyped
    BY DEF Typed, BluenetTyped, DevicesTyped, Bluenet
<1>2. Done \in Bluenet /\ Done.link = bluenet.link
    BY <1>1, DoneIs
<1>3. CASE UNCHANGED vars \/ \E a \in Peripherals : handleScanEvent(a)
    <2>1. UNCHANGED <<peripheral, tables, bluenet>>
        BY <1>3 DEF handleScanEvent, vars, devices
    <2> QED
        BY <2>1, QuietIs DEF tables, AttributesStay
<1>4. CASE CentralEventDiscoverDone
    <2>1. /\ bluenet'.link = bluenet.link /\ UNCHANGED tables
          /\ peripheral' \in {peripheral, onDiscoverDone(peripheral)}
        BY <1>2, <1>4 DEF CentralEventDiscoverDone
    <2>2. /\ peripheral'.services = peripheral.services
          /\ peripheral'.connected = peripheral.connected
          /\ peripheral'.address = peripheral.address
        BY <1>1, <2>1, DeviceEvents
    <2> QED
        BY <2>1, <2>2, QuietIs DEF tables, AttributesStay
<1>5. ASSUME NEW i, NEW new,
             \/ UNCHANGED remoteCharacteristics
             \/ remoteCharacteristics' = [remoteCharacteristics EXCEPT ![i] = new]
                /\ (i \in DOMAIN remoteCharacteristics =>
                       new.uuid = remoteCharacteristics[i].uuid),
             UNCHANGED <<devices, remoteServices, remoteServiceCount, remoteCharacteristicCount>>,
             bluenet'.link = bluenet.link
      PROVE  UNCHANGED Link!vars
    <2>1. \A k \in 1 .. remoteCharacteristicCount : k \in DOMAIN remoteCharacteristics
        BY <1>1 DEF TablesTyped
    <2>2. \A k \in DOMAIN remoteCharacteristics :
             remoteCharacteristics'[k].uuid = remoteCharacteristics[k].uuid
        BY <1>5
    <2> QED
        BY <1>5, <2>1, <2>2, QuietIs DEF devices, AttributesStay
<1>6. \A k \in DOMAIN remoteCharacteristics : remoteCharacteristics[k] \in RemoteCharacteristic
    BY <1>1 DEF TablesTyped
<1>7. CASE CentralEventCharacteristic
    <2> DEFINE i == getCharacteristic(bluenet.busy.uuid)
    <2> DEFINE new ==
           [remoteCharacteristics[i] EXCEPT !.news = (@ /\ bluenet.busy.op # "readValue")]
    <2>1. /\ bluenet' \in {Done, [Done EXCEPT !.subscribed = Subscriptions]}
          /\ UNCHANGED <<devices, remoteServices, remoteServiceCount, remoteCharacteristicCount>>
          /\ onRemoteDone(i) \/ UNCHANGED remoteCharacteristics
        BY <1>7 DEF CentralEventCharacteristic
    <2>2. [Done EXCEPT !.subscribed = Subscriptions].link = bluenet.link
        BY <1>2 DEF Bluenet
    <2>3. bluenet'.link = bluenet.link
        BY <1>2, <2>1, <2>2
    <2>4. \/ UNCHANGED remoteCharacteristics
          \/ remoteCharacteristics' = [remoteCharacteristics EXCEPT ![i] = new]
        BY <2>1 DEF onRemoteDone
    <2>5. i \in DOMAIN remoteCharacteristics => new.uuid = remoteCharacteristics[i].uuid
        BY <1>6 DEF RemoteCharacteristic
    <2> HIDE DEF i, new
    <2> QED
        BY <1>5, <2>1, <2>3, <2>4, <2>5
<1>8. CASE CentralEventNotification
    <2>1. PICK i : remoteCharacteristics'
                     = [remoteCharacteristics EXCEPT ![i] = onRemoteNotification(i)]
        BY <1>8 DEF CentralEventNotification
    <2>2. /\ bluenet'.link = bluenet.link
          /\ UNCHANGED <<devices, remoteServices, remoteServiceCount, remoteCharacteristicCount>>
        BY <1>8 DEF CentralEventNotification
    <2>3. i \in DOMAIN remoteCharacteristics =>
             onRemoteNotification(i).uuid = remoteCharacteristics[i].uuid
        BY <1>6 DEF onRemoteNotification, RemoteCharacteristic
    <2> QED
        BY <1>5, <2>1, <2>2, <2>3
<1>9. CASE handlePeripheralEvent
    <2>1. UNCHANGED <<peripheral, tables>>
        BY <1>9 DEF handlePeripheralEvent, PeripheralEventConnect, PeripheralEventDisconnect
    <2>2. CASE PeripheralEventDisconnect
        <3>1. bluenet.link.role = "peripheral" /\ bluenet'.link = NoLink
            BY <1>1, <2>2, LinkDownIs DEF PeripheralEventDisconnect
        <3> QED
            BY <2>1, <3>1, QuietIs DEF tables, AttributesStay, NoLink, None
    <2>3. ASSUME NEW a \in Centrals, PeripheralEventConnect(a)
          PROVE  UNCHANGED Link!vars
        <3>1. /\ bluenet.link = NoLink /\ bluenet.links < MaxLinks
              /\ bluenet' = LinkTo("peripheral", a)
            BY <2>3 DEF PeripheralEventConnect
        <3>2. a \in Addresses
            BY DEF Addresses
        <3>3. bluenet'.link.role = "peripheral"
            BY <1>1, <3>1, <3>2, LinkToIs
        <3> QED
            BY <2>1, <3>1, <3>3, QuietIs DEF tables, AttributesStay, NoLink, None
    <2> QED
        BY <1>9, <2>2, <2>3 DEF handlePeripheralEvent
<1> QED
    BY <1>3, <1>4, <1>7, <1>8, <1>9

(* What the actions of the abstract specification say here.                *)
LEMMA ConnectStep ==
    ASSUME Typed, Linked, Tabled, Peered, CentralEventConnect
    PROVE  [Link!Next]_(Link!vars)
<1> DEFINE peer == bluenet.busy.peer
<1>1. /\ bluenet \in Bluenet /\ bluenet.busy \in Operation /\ peripheral \in Device
    BY DEF Typed, BluenetTyped, DevicesTyped, Bluenet
<1>2. /\ bluenet.busy.op = "connect" /\ bluenet.links < MaxLinks
      /\ bluenet.link = NoLink /\ ~peripheral.connected /\ peer = peripheral.address
      /\ peer \in Peripherals /\ peer \in Addresses
    BY <1>1, OperationIs
       DEF CentralEventConnect, Typed, BluenetTyped, Linked, Peered, BluenetPeered
<1>3. /\ LinkedPeripheral = {} /\ ConnectedDevice = {}
      /\ FoundServices = {} /\ FoundCharacteristics = {}
    <2>1. peripheral.services = <<>>
        BY <1>2, UnconnectedIsEmpty
    <2> QED
        BY <1>2, <2>1, NothingFound DEF LinkedPeripheral, ConnectedDevice, NoLink, None
<1>4. UNCHANGED tables
    BY DEF CentralEventConnect
<1> HIDE DEF peer
<1>5. /\ LinkTo("central", peer).link.role = "central"
      /\ LinkTo("central", peer).link.peer = peer
    BY <1>1, <1>2, LinkToIs
<1>6. CASE bluenet' = LinkTo("central", peer)
    <2>1. LinkedPeripheral' = {peer}
        BY <1>5, <1>6 DEF LinkedPeripheral
    <2>2. peripheral' \in {peripheral, onConnect(peripheral)}
        BY <1>6 DEF CentralEventConnect
    <2>3. /\ peripheral'.services = peripheral.services
          /\ peripheral'.address = peripheral.address
        BY <1>1, <2>2, DeviceEvents
    <2>4. ConnectedDevice' \in {{peer}, {}}
        BY <1>2, <2>3 DEF ConnectedDevice
    <2>5. UNCHANGED <<FoundServices, FoundCharacteristics>>
        BY <1>4, <2>3, FoundStays DEF tables, AttributesStay
    <2> QED
        BY <1>2, <1>3, <2>1, <2>4, <2>5 DEF Link!Next, Link!Connect
<1>7. CASE bluenet' = Done
    <2>1. bluenet'.link = bluenet.link
        BY <1>1, <1>7, DoneIs
    <2>2. UNCHANGED peripheral
        <3>1. bluenet'.link.role # "central"
            BY <1>2, <2>1 DEF NoLink, None
        <3> QED
            BY <1>5, <3>1 DEF CentralEventConnect, peer
    <2> QED
        BY <1>4, <2>1, <2>2, QuietIs DEF tables, AttributesStay
<1> QED
    BY <1>6, <1>7 DEF CentralEventConnect, peer

LEMMA DisconnectStep ==
    ASSUME Typed, Tabled, CentralEventDisconnect
    PROVE  Link!Disconnect
<1>1. bluenet \in Bluenet /\ peripheral \in Device /\ TablesTyped
    BY DEF Typed, BluenetTyped, DevicesTyped
<1>2. bluenet.link.role = "central" /\ bluenet'.link = NoLink
    BY <1>1, LinkDownIs DEF CentralEventDisconnect
<1>3. LinkedPeripheral # {} /\ LinkedPeripheral' = {}
    BY <1>2 DEF LinkedPeripheral, NoLink, None
<1>4. CASE peripheral' = onDisconnect(peripheral)
    <2>1. peripheral'.services = <<>> /\ ~peripheral'.connected
        BY <1>1, <1>4, DeviceEvents
    <2>2. FoundServices' = {} /\ FoundCharacteristics' = {}
        <3>1. ToSet(peripheral'.services) = {}
            BY <2>1 DEF ToSet
        <3> QED
            BY <3>1 DEF FoundServices, FoundCharacteristics
    <2> QED
        BY <1>3, <2>1, <2>2 DEF Link!Disconnect, ConnectedDevice
<1>5. CASE UNCHANGED <<peripheral, remoteServiceCount, remoteCharacteristicCount>>
    <2>1. /\ remoteServices \in Seq(RemoteService)
          /\ remoteCharacteristics \in Seq(RemoteCharacteristic)
          /\ remoteServices' = Elsewhere(remoteServices)
          /\ remoteCharacteristics' = Elsewhere(remoteCharacteristics)
        BY <1>1 DEF CentralEventDisconnect, TablesTyped
    <2>2. \A k \in 1 .. Len(remoteServices) :
             /\ remoteServices'[k].uuid = remoteServices[k].uuid
             /\ remoteServices'[k].characteristics = remoteServices[k].characteristics
        BY <2>1, ServicesElsewhere
    <2>3. \A i \in 1 .. Len(remoteCharacteristics) :
             remoteCharacteristics'[i].uuid = remoteCharacteristics[i].uuid
        BY <2>1, CharacteristicsElsewhere
    <2>4. /\ \A k \in 1 .. remoteServiceCount : k \in 1 .. Len(remoteServices)
          /\ \A i \in 1 .. remoteCharacteristicCount : i \in 1 .. Len(remoteCharacteristics)
        BY <1>1 DEF TablesTyped
    <2>5. AttributesStay
        BY <1>5, <2>2, <2>3, <2>4 DEF AttributesStay
    <2>6. UNCHANGED <<FoundServices, FoundCharacteristics>>
        BY <2>5, FoundStays
    <2> QED
        BY <1>3, <1>5, <2>6 DEF Link!Disconnect, ConnectedDevice
<1> QED
    BY <1>4, <1>5 DEF CentralEventDisconnect

LEMMA DiscoverStep ==
    ASSUME Typed, Linked, Tabled, Peered, CentralEventDiscover
    PROVE  [Link!Next]_(Link!vars)
<1> DEFINE todo == bluenet.busy.todo
<1> DEFINE next == Head(todo)
<1> DEFINE peer == bluenet.link.peer
<1>1. bluenet \in Bluenet /\ bluenet.busy \in Operation /\ peripheral \in Device
    BY DEF Typed, BluenetTyped, DevicesTyped, Bluenet
<1>2. /\ bluenet.busy.op = "discoverService" /\ todo # <<>>
      /\ bluenet.link.role = "central"
      /\ bluenet' = [bluenet EXCEPT !.busy.todo = Tail(@)]
    BY DEF CentralEventDiscover
<1>3. next \in OfferedBy(peer)
    <2>1. todo \in Seq(OfferedBy(peer))
        BY <1>2 DEF Peered, BluenetPeered
    <2> QED
        BY <1>2, <2>1, HeadAndTail
<1>4. bluenet'.link = bluenet.link
    BY <1>1, <1>2 DEF Bluenet
<1>5. LinkedPeripheral = {peer} /\ ConnectedDevice = {peer}
    BY <1>2 DEF Linked, ConnectedIsPeer, LinkedPeripheral, ConnectedDevice
<1>6. \/ addDiscoveredService(next.service)
      \/ /\ next.characteristic # None
         /\ addDiscoveredCharacteristic(next.service, next.characteristic)
      \/ UNCHANGED <<peripheral, tables>>
    BY DEF CentralEventDiscover
<1>7. /\ next.service \in Uuids /\ next.service \in Offered[peer]
      /\ next.characteristic # None =>
            /\ next.characteristic \in RemoteUuids
            /\ next.characteristic \in ToSet(CharacteristicsOf[next.service])
    BY <1>3 DEF OfferedBy, Finding
<1>8. LinkedPeripheral' = LinkedPeripheral
    BY <1>4 DEF LinkedPeripheral
<1> HIDE DEF next, peer
<1>9. CASE addDiscoveredService(next.service)
    <2>1. ConnectedDevice' = ConnectedDevice
        <3>1. /\ peripheral'.connected = peripheral.connected
              /\ peripheral'.address = peripheral.address
            BY <1>1, <1>7, <1>9, ServiceAdded DEF Typed
        <3> QED
            BY <3>1 DEF ConnectedDevice
    <2>2. \/ UNCHANGED <<FoundServices, FoundCharacteristics>>
          \/ /\ FoundServices' = FoundServices \cup {next.service}
             /\ UNCHANGED FoundCharacteristics
        BY <1>7, <1>9, ServiceFound
    <2>3. CASE UNCHANGED <<FoundServices, FoundCharacteristics>>
        BY <1>8, <2>1, <2>3 DEF Link!vars
    <2>4. CASE /\ FoundServices' = FoundServices \cup {next.service}
               /\ UNCHANGED FoundCharacteristics
        BY <1>5, <1>7, <1>8, <2>1, <2>4 DEF Link!Next, Link!FindService
    <2> QED
        BY <2>2, <2>3, <2>4
<1>10. CASE /\ next.characteristic # None
            /\ addDiscoveredCharacteristic(next.service, next.characteristic)
    <2>1. ConnectedDevice' = ConnectedDevice
        BY <1>10 DEF addDiscoveredCharacteristic, ConnectedDevice
    <2>2. \/ UNCHANGED <<FoundServices, FoundCharacteristics>>
          \/ /\ next.service \in FoundServices
             /\ UNCHANGED FoundServices
             /\ FoundCharacteristics'
                   = FoundCharacteristics \cup {<<next.service, next.characteristic>>}
        BY <1>7, <1>10, CharacteristicFound
    <2>3. CASE UNCHANGED <<FoundServices, FoundCharacteristics>>
        BY <1>8, <2>1, <2>3 DEF Link!vars
    <2>4. CASE /\ next.service \in FoundServices
               /\ UNCHANGED FoundServices
               /\ FoundCharacteristics'
                     = FoundCharacteristics \cup {<<next.service, next.characteristic>>}
        BY <1>5, <1>7, <1>8, <1>10, <2>1, <2>4 DEF Link!Next, Link!FindCharacteristic
    <2> QED
        BY <2>2, <2>3, <2>4
<1>11. CASE UNCHANGED <<peripheral, tables>>
    BY <1>4, <1>11, QuietIs DEF tables, AttributesStay
<1> QED
    BY <1>6, <1>9, <1>10, <1>11

LEMMA StepImplemented ==
    ASSUME Careful, Typed, Linked, Tabled, Peered, [Next]_vars
    PROVE  [Link!Next]_(Link!vars)
<1>1. CASE CentralEventConnect
    BY <1>1, ConnectStep
<1>2. CASE CentralEventDisconnect
    BY <1>2, DisconnectStep DEF Link!Next
<1>3. CASE CentralEventDiscover
    BY <1>3, DiscoverStep
<1>4. CASE UserCall \/ CallTimesOut \/ CallReturns
    BY <1>4, UserCallQuiet
<1>5. CASE \/ \E a \in Peripherals : handleScanEvent(a)
           \/ CentralEventDiscoverDone \/ CentralEventCharacteristic \/ CentralEventNotification
           \/ handlePeripheralEvent
           \/ UNCHANGED vars
    BY <1>5, EventQuiet
<1> QED
    BY <1>1, <1>2, <1>3, <1>4, <1>5 DEF Next, handleEvent, handleCentralEvent

(* To a careful user the peripherals are what PeripheralLink says, one     *)
(* after the other, each with attributes of its own (LinkImplemented).     *)
THEOREM LinksArePeripherals ==
    ASSUME Careful
    PROVE  Spec => LinkImplemented
<1>1. Init => Link!Init
    <2> SUFFICES ASSUME Init PROVE Link!Init
        OBVIOUS
    <2>1. peripheral.services = <<>> /\ ~peripheral.connected
        BY NewDeviceIs DEF Init
    <2> QED
        BY <2>1, NothingFound
           DEF Init, Link!Init, LinkedPeripheral, ConnectedDevice, NoLink, None
<1>2. Typed /\ Linked /\ Tabled /\ Peered /\ [Next]_vars => [Link!Next]_(Link!vars)
    BY StepImplemented
<1> QED
    BY <1>1, <1>2, SpecTyped, SpecPeered, CarefulSpec, PTL DEF Spec, LinkImplemented, Link!Spec
==============================================================================
