SPECIFICATION FairSpec
CONSTANTS
    LastME = 1
    NumCtx = 2
    MENums = 1
    PageSz = 4
    Word = 16
    BwTrans = 2
    JournalSz = 3
    MaxTests = 2
    Params <- MCParamsAll
INVARIANTS IInv CountedDmaMatchesTest HostReadsOwnResult SetupAlone NoSignalLost
PROPERTIES ImplementsPool TestTerminates WorkersPark
CHECK_DEADLOCK FALSE
