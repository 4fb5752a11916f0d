---------------------------- MODULE Identifiers ----------------------------
(***************************************************************************)
(* Addresses and uuids, and their strings: BleUtils.cpp, BleMacAddress.cpp *)
(* and BleUuid.cpp.  Bytes are in the order of the code, the lowest first, *)
(* and are counted from 1; a string is a sequence of characters.           *)
(***************************************************************************)
EXTENDS Integers, Sequences, SequencesExt

MAC_ADDRESS_LENGTH      == 6
UUID_16BIT_BYTE_LENGTH  == 2
UUID_128BIT_BYTE_LENGTH == 16
BASE_UUID_OFFSET_16BIT  == 12

(* 00000000-0000-1000-8000-00805F9B34FB                                    *)
BASE_UUID_128BIT ==
    <<251, 52, 155, 95, 128, 0, 0, 128, 0, 16, 0, 0, 0, 0, 0, 0>>

Byte == 0 .. 255

Digits  == <<"0", "1", "2", "3", "4", "5", "6", "7", "8", "9", "A", "B", "C", "D", "E", "F">>
Letters == <<"a", "b", "c", "d", "e", "f">>

Values(c) == {n - 1 : n \in {n \in DOMAIN Digits : Digits[n] = c}}
                \cup {n + 9 : n \in {n \in DOMAIN Letters : Letters[n] = c}}
IsHex(c) == Values(c) # {}
Hex(c)   == CHOOSE n \in Values(c) : TRUE

convertByteToTwoHexChars(byte) == <<Digits[byte \div 16 + 1], Digits[(byte % 16) + 1]>>

(* Two characters from position p on.                                      *)
AreHex(s, p) == p + 1 <= Len(s) /\ IsHex(s[p]) /\ IsHex(s[p + 1])
convertTwoHexCharsToByte(s, p) == 16 * Hex(s[p]) + Hex(s[p + 1])

Invalid == [valid |-> FALSE]

------------------------------------------------------------------------------
(* Addresses: the highest byte comes first in a string.                    *)

convertMacToString(bytes) ==
    FlattenSeq([i \in 1 .. MAC_ADDRESS_LENGTH |->
        convertByteToTwoHexChars(bytes[MAC_ADDRESS_LENGTH - i + 1])
            \o (IF i < MAC_ADDRESS_LENGTH THEN <<":">> ELSE <<>>)])

(* What is between the bytes is not looked at.                             *)
(* Mutant: the bytes are not turned around.                                *)
MacAddressInOrder(s) ==
    IF Len(s) # 3 * MAC_ADDRESS_LENGTH - 1 \/ \E i \in 0 .. 5 : ~AreHex(s, 3 * i + 1) THEN Invalid
    ELSE [valid |-> TRUE,
          bytes |-> [n \in 1 .. MAC_ADDRESS_LENGTH |-> convertTwoHexCharsToByte(s, 3 * (n - 1) + 1)]]

MacAddress(s) ==
    IF Len(s) # 3 * MAC_ADDRESS_LENGTH - 1 \/ \E i \in 0 .. 5 : ~AreHex(s, 3 * i + 1) THEN Invalid
    ELSE [valid |-> TRUE,
          bytes |-> [n \in 1 .. MAC_ADDRESS_LENGTH |->
                        convertTwoHexCharsToByte(s, 3 * (MAC_ADDRESS_LENGTH - n) + 1)]]

------------------------------------------------------------------------------
(* Uuids.  type: "none" until it is registered.                            *)

Uuid(bytes, length, type) ==
    [valid |-> TRUE, bytes |-> bytes, length |-> length, type |-> type]

(* The base uuid with these two bytes in it.                               *)
InBase(low, high) ==
    [BASE_UUID_128BIT EXCEPT ![BASE_UUID_OFFSET_16BIT + 1] = low,
                             ![BASE_UUID_OFFSET_16BIT + 2] = high]

convertStringToUuid16Bit(s) ==
    IF ~(AreHex(s, 1) /\ AreHex(s, 3)) THEN Invalid
    ELSE Uuid(InBase(convertTwoHexCharsToByte(s, 3), convertTwoHexCharsToByte(s, 1)),
              UUID_16BIT_BYTE_LENGTH, "standard")

(* Hyphens are skipped wherever they are between bytes, and what is after  *)
(* the last byte is not looked at: read[p] is the bytes there are from p   *)
(* on, up to what is neither a hyphen nor a byte.                          *)
convertStringToUuid128Bit(s) ==
    LET read[p \in 1 .. Len(s) + 1] ==
            IF p <= Len(s) /\ s[p] = "-" THEN read[p + 1]
            ELSE IF ~AreHex(s, p) THEN <<>>
            ELSE <<convertTwoHexCharsToByte(s, p)>> \o read[p + 2]
    IN IF Len(read[1]) < UUID_128BIT_BYTE_LENGTH THEN Invalid
       ELSE Uuid([n \in 1 .. UUID_128BIT_BYTE_LENGTH |->
                     read[1][UUID_128BIT_BYTE_LENGTH - n + 1]],
                 UUID_128BIT_BYTE_LENGTH, "none")

UuidOf(s) ==
    CASE Len(s) = 36 -> convertStringToUuid128Bit(s)
      [] Len(s) = 4  -> convertStringToUuid16Bit(s)
      [] OTHER       -> Invalid

(* A uuid that bluenet gives: two bytes, and a type when it is registered. *)
UuidFrom(low, high, type) == Uuid(InBase(low, high), UUID_16BIT_BYTE_LENGTH, type)

(* The highest byte comes first; hyphens after 4, 6, 8 and 10 bytes.       *)
fullString(u) ==
    FlattenSeq([i \in 1 .. UUID_128BIT_BYTE_LENGTH |->
        convertByteToTwoHexChars(u.bytes[UUID_128BIT_BYTE_LENGTH - i + 1])
            \o (IF i \in {4, 6, 8, 10} THEN <<"-">> ELSE <<>>)])

UuidString(u) ==
    IF u.length = UUID_128BIT_BYTE_LENGTH THEN fullString(u)
    ELSE convertByteToTwoHexChars(u.bytes[BASE_UUID_OFFSET_16BIT + 2])
            \o convertByteToTwoHexChars(u.bytes[BASE_UUID_OFFSET_16BIT + 1])
=============================================================================
