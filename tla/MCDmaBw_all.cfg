SPECIFICATION Spec
CONSTANTS
    LastME = 1
    NumCtx = 2
    MENums = 8
    PageSz = 4
    Word = 16
    BwTrans = 2
    JournalSz = 3
    MaxTests = 1
    Params <- MCParams1
INVARIANT MasterWaitsForAll
CHECK_DEADLOCK FALSE
