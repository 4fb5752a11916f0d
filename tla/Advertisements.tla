--------------------------- MODULE Advertisements ---------------------------
(***************************************************************************)
(* What a microapp reads in the data of an advertisement: BleScan.cpp, and *)
(* the functions of BleDevice.cpp that use it.                             *)
(*                                                                         *)
(* Scan data is a buffer of bytes and how many of them were received.  It  *)
(* holds fields, each a length, a type and data; the length counts the     *)
(* type.  Offsets are those of the code, from 0.                           *)
(***************************************************************************)
EXTENDS Integers, Sequences, SequencesExt

IncompleteList16BitServiceUuids == 2
CompleteList16BitServiceUuids   == 3
ShortenedLocalName              == 8
CompleteLocalName               == 9

serviceUuidListTypes == <<IncompleteList16BitServiceUuids, CompleteList16BitServiceUuids>>

At(scan, i) == scan.buffer[i + 1]

(* A field that was found; data is where its data starts.                  *)
Ad(len, data) == [len |-> len, data |-> data]
NoAd == Ad(0, -1)

(* The field of this type at or after each offset.  The search ends at a   *)
(* field that is empty or that has not been received whole.                *)
(* Mutants: the length does not count the type; the search goes on with    *)
(* what was received of a field.                                           *)
findAdvertisementDataTypeShort(scan, type) ==
    LET find[i \in 0 .. scan.size] ==
            IF i >= scan.size - 1 THEN NoAd
            ELSE LET fieldLen == At(scan, i) IN
                 IF fieldLen = 0 \/ i + 1 + fieldLen > scan.size THEN NoAd
                 ELSE IF At(scan, i + 1) = type THEN Ad(fieldLen - 1, i + 2)
                 ELSE find[i + fieldLen]
    IN find[0]

findAdvertisementDataTypeCut(scan, type) ==
    LET find[i \in 0 .. scan.size] ==
            IF i >= scan.size - 1 THEN NoAd
            ELSE LET fieldLen == At(scan, i) IN
                 IF fieldLen = 0 THEN NoAd
                 ELSE IF At(scan, i + 1) = type THEN Ad(fieldLen - 1, i + 2)
                 ELSE IF i + 1 + fieldLen > scan.size THEN NoAd
                 ELSE find[i + fieldLen + 1]
    IN find[0]

findAdvertisementDataType(scan, type) ==
    LET find[i \in 0 .. scan.size] ==
            IF i >= scan.size - 1 THEN NoAd
            ELSE LET fieldLen == At(scan, i) IN
                 IF fieldLen = 0 \/ i + 1 + fieldLen > scan.size THEN NoAd
                 ELSE IF At(scan, i + 1) = type THEN Ad(fieldLen - 1, i + 2)
                 ELSE find[i + fieldLen + 1]
    IN find[0]

(* The complete name if there is one, else the shortened one.              *)
localName(scan) ==
    IF findAdvertisementDataType(scan, CompleteLocalName) # NoAd
    THEN findAdvertisementDataType(scan, CompleteLocalName)
    ELSE findAdvertisementDataType(scan, ShortenedLocalName)

hasLocalName(scan) == localName(scan).len # 0

(* Two bytes of a field, the lower one first.                              *)
Uuid16At(scan, ad, j) == At(scan, ad.data + j + 1) * 256 + At(scan, ad.data + j)

(* Where the loops over a field look for uuids, also when its length is    *)
(* odd.  There are none where no field was found.                          *)
Steps(ad) == {j \in 0 .. ad.len - 1 : j % 2 = 0}

ListsIn(scan) ==
    [k \in DOMAIN serviceUuidListTypes |->
        findAdvertisementDataType(scan, serviceUuidListTypes[k])]

(* The uuid 0 stands for any.                                              *)
hasServiceUuid(scan, uuid) ==
    \E ad \in ToSet(ListsIn(scan)) :
        \/ uuid = 0 /\ ad.len >= 2
        \/ \E j \in Steps(ad) : Uuid16At(scan, ad, j) = uuid

(* Mutant: only the first list counts.                                     *)
serviceUuidCountFirst(scan) == ListsIn(scan)[1].len \div 2

serviceUuidCount(scan) == ListsIn(scan)[1].len \div 2 + ListsIn(scan)[2].len \div 2

UuidsOf(scan, ad) == [n \in 1 .. (ad.len + 1) \div 2 |-> Uuid16At(scan, ad, 2 * (n - 1))]

(* The uuids of both lists, counted from 0; 0 when there are not so many.  *)
serviceUuid(scan, index) ==
    LET uuids == UuidsOf(scan, ListsIn(scan)[1]) \o UuidsOf(scan, ListsIn(scan)[2])
    IN IF index < Len(uuids) THEN uuids[index + 1] ELSE 0
=============================================================================
