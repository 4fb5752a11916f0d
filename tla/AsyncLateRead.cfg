SPECIFICATION Spec
CONSTANTS
    Timeouts = {1, 2}
    TriesWidth = 16
    HandlerOps = {}
    MaxNesting = 0
INVARIANTS
    ReadsIntoOwnBuffer
