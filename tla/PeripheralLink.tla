---------------------------- MODULE PeripheralLink ----------------------------
(***************************************************************************)
(* What the devices, tables and counts of BLE promise to a user who works  *)
(* with one peripheral after the other: there is one link at most, and the *)
(* microapp knows of it or has missed it; what the peripheral is said to   *)
(* offer, it offers, and a characteristic belongs to a service that was    *)
(* found first; all of it is forgotten together with the connection, and   *)
(* the next one begins with nothing.                                       *)
(***************************************************************************)
CONSTANTS
    Peripherals,        \* devices to connect to
    Offered,            \* of each: the services it has
    CharacteristicsIn   \* of each service: the characteristics in it

VARIABLES
    link,               \* the peripheral at the other end, if any: one or none,
    device,             \* and the one the microapp believes to be connected to
    services,           \* what it found there: services, and
    characteristics     \* characteristics, each with the service it is in

vars == <<link, device, services, characteristics>>

Init ==
    /\ link = {}
    /\ device = {}
    /\ services = {}
    /\ characteristics = {}

(* The microapp hears of it or not.                                        *)
Connect ==
    /\ link = {} /\ device = {} /\ services = {} /\ characteristics = {}
    /\ \E p \in Peripherals : link' = {p} /\ device' \in {{p}, {}}
    /\ UNCHANGED <<services, characteristics>>

Disconnect ==
    /\ link # {}
    /\ link' = {}
    /\ \/ device' = {} /\ services' = {} /\ characteristics' = {}
       \/ UNCHANGED <<device, services, characteristics>>

FindService ==
    /\ device = link
    /\ \E p \in link : \E u \in Offered[p] : services' = services \cup {u}
    /\ UNCHANGED <<link, device, characteristics>>

FindCharacteristic ==
    /\ device = link
    /\ link # {}
    /\ \E u \in services : \E c \in CharacteristicsIn[u] :
          characteristics' = characteristics \cup {<<u, c>>}
    /\ UNCHANGED <<link, device, services>>

Next == Connect \/ Disconnect \/ FindService \/ FindCharacteristic

Spec == Init /\ [][Next]_vars
=============================================================================
