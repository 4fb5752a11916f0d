SPECIFICATION Spec
CONSTANTS
    Requests = {r1, r2}
    Interrupts = {i1, i2}
    Isrs = {}
    HandlerResults = {"SUCCESS"}
    MAX_INTERRUPT_DEPTH = 2
    MaxCalls = 2
    MaxInterruptsPerTick = 2
    MaxFrames = 6
SYMMETRY Symmetry
INVARIANTS
    SlotsAreAStack
    InterruptPreserved
    AtMostOnce
    InterruptAnswered
    BusyMeansFull
    NoLostCapacity
PROPERTY
    AnswerDelivered
