SPECIFICATION Spec
CONSTANTS
    Services = {s1, s2}
    LocalCharacteristics = {c1, c2}
    MAX_LOCAL_SERVICES = 1
    MAX_CHARACTERISTICS_PER_SERVICE = 2
    ValueSize = 1
    Careful = TRUE
    MaxAdding = 2
    MaxHandles = 3
INVARIANTS
    RemoteUseNoticed
CHECK_DEADLOCK FALSE
