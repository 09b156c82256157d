SPECIFICATION Spec
CONSTANTS
    u1 = u1
    u2 = u2
    NumChunks = 2
    Users <- MCUsers
    Missed <- MCAlloc
INVARIANT FailedAllocReported
CHECK_DEADLOCK FALSE
