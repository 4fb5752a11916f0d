---------------------------- MODULE Conversions ----------------------------
(***************************************************************************)
(* The pure algorithms of the library on bounded inputs: Advertisements,   *)
(* Identifiers and Presence, against what their results mean.  The state   *)
(* is one input; an advertisement grows by a field in each step.           *)
(***************************************************************************)
EXTENDS Advertisements, Identifiers, Presence

CONSTANTS
    Payloads,       \* the data of the fields
    MaxFields,      \* bounds of the model: fields of an advertisement,
    MaxCut,         \* and bytes of it that were not received
    AddressBytes,   \* the bytes of the addresses,
    LongUuids,      \* the uuids of 16 bytes,
    ShortBytes      \* and the bytes of the short ones

ASSUME ConversionsAssumption ==
    /\ Payloads \subseteq Seq(Byte)
    /\ MaxFields \in Nat /\ MaxCut \in Nat
    /\ AddressBytes \subseteq Byte
    /\ LongUuids \subseteq [1 .. UUID_128BIT_BYTE_LENGTH -> Byte]
    /\ ShortBytes \subseteq Byte

VARIABLE input

AdvTypes == ToSet(serviceUuidListTypes) \cup {ShortenedLocalName, CompleteLocalName}

(* A field without its length: a type and data.  An empty one ends an      *)
(* advertisement.                                                          *)
Fields == {<<>>} \cup {<<type>> \o data : type \in AdvTypes, data \in Payloads}

Custom128  == {Uuid(bytes, UUID_128BIT_BYTE_LENGTH, "none") : bytes \in LongUuids}
Standard16 == {UuidFrom(low, high, "standard") : low, high \in ShortBytes}

Init ==
    \/ \E cut \in 0 .. MaxCut : input = [kind |-> "advertisement", fields |-> <<>>, cut |-> cut]
    \/ \E bytes \in [1 .. MAC_ADDRESS_LENGTH -> AddressBytes] : input = [kind |-> "mac", bytes |-> bytes]
    \/ \E u \in Custom128 \cup Standard16 : input = [kind |-> "uuid", uuid |-> u]
    \/ \E rooms \in SUBSET Room : input = [kind |-> "presence", rooms |-> rooms]

AddField ==
    /\ input.kind = "advertisement"
    /\ Len(input.fields) < MaxFields
    /\ \E field \in Fields : input' = [input EXCEPT !.fields = Append(@, field)]

Next == AddField

Spec == Init /\ [][Next]_input

------------------------------------------------------------------------------

Encoded(fields) == FlattenSeq([k \in DOMAIN fields |-> <<Len(fields[k])>> \o fields[k]])

(* The bytes of the advertisement that were received, in a buffer that has *)
(* a byte more.                                                            *)
Scan ==
    LET bytes == Encoded(input.fields)
        size  == IF Len(bytes) > input.cut THEN Len(bytes) - input.cut ELSE 0
    IN [buffer |-> Append(SubSeq(bytes, 1, size), 0), size |-> size]

(* The fields that count: received whole, and no empty one before them.    *)
Whole ==
    {k \in DOMAIN input.fields :
        /\ Len(Encoded(SubSeq(input.fields, 1, k))) <= Scan.size
        /\ \A j \in 1 .. k : input.fields[j] # <<>>}
OfType(type) == {k \in Whole : input.fields[k][1] = type}
First(type)  == input.fields[CHOOSE k \in OfType(type) : \A j \in OfType(type) : k <= j]

DataOf(ad) == SubSeq(Scan.buffer, ad.data + 1, ad.data + ad.len)

(* What the search finds is the data of the first field of that type among *)
(* those that were received whole, and it finds nothing only when there is *)
(* no such field: a field cut short, a data byte that looks like a type    *)
(* and what lies beyond an empty field are never taken for one             *)
(* (BleScan::findAdvertisementDataType).                                   *)
FindsFirst ==
    input.kind = "advertisement" =>
        \A type \in AdvTypes :
            LET ad == findAdvertisementDataType(Scan, type) IN
            IF OfType(type) = {} THEN ad = NoAd
            ELSE ad # NoAd /\ DataOf(ad) = Tail(First(type))

(* Three functions read the lists of uuids, each with a loop of its own:   *)
(* a uuid is had exactly when it is among the counted ones, and there is   *)
(* any exactly when the count is not 0.  Only for lists of whole uuids: of *)
(* an odd number of bytes the functions make different things.             *)
UuidsAgree ==
    LET ads     == {findAdvertisementDataType(Scan, type) : type \in ToSet(serviceUuidListTypes)}
        counted == {serviceUuid(Scan, i) : i \in 0 .. serviceUuidCount(Scan) - 1}
        some    == {256 * high + low : low, high \in UNION {ToSet(data) : data \in Payloads}}
    IN input.kind = "advertisement" /\ (\A ad \in ads : ad.len % 2 = 0) =>
           /\ \A uuid \in some \ {0} : hasServiceUuid(Scan, uuid) <=> uuid \in counted
           /\ hasServiceUuid(Scan, 0) <=> serviceUuidCount(Scan) > 0
           /\ serviceUuid(Scan, serviceUuidCount(Scan)) = 0

Lower(s) ==
    [i \in DOMAIN s |-> IF s[i] \in {"A", "B", "C", "D", "E", "F"} THEN Letters[Hex(s[i]) - 9]
                        ELSE s[i]]

(* The string of an address is read back as that address, in lower case    *)
(* too, and not when one of its digits is none: MacAddress(string) and     *)
(* string() turn the bytes around alike, so that scanForAddress asks for   *)
(* the address that was printed.  So is the string of a uuid, short or     *)
(* long, where a hyphen left out at its place and put in at the end makes  *)
(* no difference.                                                          *)
StringsRoundTrip ==
    /\ input.kind = "mac" =>
          LET s == convertMacToString(input.bytes) IN
          /\ \A t \in {s, Lower(s)} : MacAddress(t) = [valid |-> TRUE, bytes |-> input.bytes]
          /\ \A i \in DOMAIN s : i % 3 # 0 => MacAddress([s EXCEPT ![i] = "g"]) = Invalid
    /\ input.kind = "uuid" =>
          LET s == UuidString(input.uuid)
              hyphens == {i \in DOMAIN s : s[i] = "-"}
          IN /\ \A t \in {s, Lower(s)} : UuidOf(t) = input.uuid
             /\ \A i \in hyphens : UuidOf(Append(RemoveAt(s, i), "-")) = input.uuid
             /\ \A i \in DOMAIN s \ hyphens : UuidOf([s EXCEPT ![i] = "g"]) = Invalid

(* "True if profile present in the room, false if not" (Presence.h), in    *)
(* each room that there is.  The bit of a room from 31 on is made in an    *)
(* int, which has no such bit (PresenceClass::isPresent): for 31 it is the *)
(* sign, which stands for all the higher rooms as well.                    *)
PresentInRoom ==
    input.kind = "presence" =>
        \A roomId \in Room :
            isPresent(getPresence(input.rooms, TRUE), roomId) = {roomId \in input.rooms}
=============================================================================
