---------------------------- MODULE MCConversions ----------------------------
(* Values for the constants of Conversions.                                *)
EXTENDS Conversions

(* Nothing, a byte, one uuid, and two of which a byte looks like a type.   *)
MCPayloads == {<<>>, <<1>>, <<1, 2>>, <<2, 3>>, <<3, 9, 1, 2>>}

(* Bytes 1 to 16, with one of them changed.                                *)
MCLongUuids ==
    {[[n \in 1 .. UUID_128BIT_BYTE_LENGTH |-> n] EXCEPT ![i] = b] :
        i \in 1 .. UUID_128BIT_BYTE_LENGTH, b \in {0, 159, 250}}
=============================================================================
