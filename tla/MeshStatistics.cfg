SPECIFICATION FairSpec
CONSTANTS
    ownId = 1
    Others = {2, 3}
    PINGS_PER_SESSION = 2
    ELECTION_TICKS = 1
    TIMEOUT_TICKS = 2
    UINT8 = 3
    MaxSessions = 2
INVARIANTS
    CountedOnce
    SendsAsHeard
PROPERTY
    SilenceMakesLeader
