SPECIFICATION Spec
CONSTANTS
    MAX_ROOMS = 6
    INT_BITS = 4
    Payloads <- MCPayloads
    MaxFields = 3
    MaxCut = 2
    AddressBytes = {10, 243}
    LongUuids <- MCLongUuids
    ShortBytes = {0, 1, 42, 255}
CHECK_DEADLOCK FALSE
INVARIANTS
    FindsFirst
    UuidsAgree
    StringsRoundTrip
