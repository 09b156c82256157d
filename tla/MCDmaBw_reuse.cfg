SPECIFICATION SpecReuse
CONSTANTS
    LastME = 1
    NumCtx = 2
    MENums = 8
    PageSz = 4
    Word = 16
    BwTrans = 2
    JournalSz = 3
    MaxTests = 2
    Params <- MCParams
INVARIANT ReuseInv
PROPERTY ImplementsPool
CHECK_DEADLOCK FALSE
