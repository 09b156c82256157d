SPECIFICATION FairSpec
CONSTANTS
    Tests <- MCTests
    JournalSz = 2
    LatTrans = 1
    Faults <- MCFaults
    MaxRuns = 2
    NumChunks = 1
    MaxBindings = 2
INVARIANT AccessesOwnBuffers
PROPERTY QuietComes
CHECK_DEADLOCK FALSE
