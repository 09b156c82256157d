SPECIFICATION FairSpec
CONSTANTS
    Tests <- MCTests
    JournalSz = 3
    LatTrans = 2
    Faults <- MCFaults
    MaxRuns = 3
INVARIANTS MailInv ReportIsOfThisRun UsesThisRunsSetup
PROPERTY RunTestEnds
CHECK_DEADLOCK FALSE
