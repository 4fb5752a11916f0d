SPECIFICATION Spec
CONSTANTS
    p = p
    q = q
    u = u
    c1 = c1
    c2 = c2
    Peripherals = {p, q}
    Centrals = {r}
    Uuids = {u}
    Offered <- MCOffered
    CharacteristicsOf <- MCCharacteristicsOf
    CharacteristicOps = {"writeValue", "readValue", "subscribe", "unsubscribe"}
    Careful = TRUE
    MaxLinks = 2
    MAX_REMOTE_SERVICES = 2
    MAX_CHARACTERISTICS_PER_SERVICE = 1
CHECK_DEADLOCK FALSE
SYMMETRY MCSymmetry
INVARIANTS
    ConnectedMeansLink
    TablesAccounted
    AttributesOfThisLink
    NotificationKept
PROPERTY
    LinkImplemented
