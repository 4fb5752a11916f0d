------------------------------ MODULE Presence ------------------------------
(***************************************************************************)
(* Presence.cpp: which rooms bluenet says a profile is in.  The rooms are  *)
(* the bits of a 64 bit mask, here a set; isPresent looks at the bit that  *)
(* `1 << roomId` gives, which is an int, narrower than the mask.           *)
(***************************************************************************)
EXTENDS Integers

CONSTANTS
    MAX_ROOMS,      \* 64: the bits of the mask
    INT_BITS        \* 32: those of an int

ASSUME PresenceAssumption ==
    /\ {MAX_ROOMS, INT_BITS} \subseteq Nat \ {0}
    /\ INT_BITS <= MAX_ROOMS

Room == 0 .. MAX_ROOMS - 1

(* Nobody is anywhere when bluenet refuses.                                *)
getPresence(presenceBitmask, accepted) == IF accepted THEN presenceBitmask ELSE {}

(* What 1 << roomId is once it is as wide as the mask: the sign of an int  *)
(* is extended, and a shift past its width is undefined.                   *)
Shifted(roomId) ==
    IF roomId < INT_BITS - 1 THEN {{roomId}}
    ELSE IF roomId = INT_BITS - 1 THEN {roomId .. MAX_ROOMS - 1}
    ELSE {{}, Room} \cup {{r} : r \in Room}

(* The answers that isPresent may give.                                    *)
isPresent(presence, roomId) ==
    IF roomId >= MAX_ROOMS THEN {FALSE}
    ELSE {presence \cap bits # {} : bits \in Shifted(roomId)}
=============================================================================
