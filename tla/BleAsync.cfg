SPECIFICATION FairSpec
CONSTANTS
    Timeouts = {0, 2}
    TriesWidth = 16
    HandlerOps = {}
    MaxNesting = 1
INVARIANTS
    ConnectionResultTrue
    CharacteristicResultTrue
    EarlyResultNoticed
    TimeoutKept
PROPERTIES
    CallsReturn
