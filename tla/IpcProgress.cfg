SPECIFICATION FairSpec
CONSTANTS
    Requests = {r1}
    Interrupts = {i1}
    Isrs = {}
    HandlerResults = {"SUCCESS", "ERR_BUSY"}
    MAX_INTERRUPT_DEPTH = 3
    MaxCalls = 1
    MaxInterruptsPerTick = 2
    MaxFrames = 7
PROPERTIES
    ImplementsPrivateBuffers
    InterruptsResume
    MainResumes
    BluenetRegainsControl
