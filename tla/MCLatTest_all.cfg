SPECIFICATION Spec
CONSTANTS
    LineSz = 2
    PageSz = 8
    ChunkSz = 8
    Chunks = 3
    BarSz = 16
    LatTrans = 24
    JournalSz = 26
    WordBits = 6
    Params <- MCParams
    Bases <- MCBases
INVARIANTS LatInv AddrsContained CyclesInOrder BarCoversAccess WindowSwept DivisionIsExact
PROPERTY LatTestEnds
CHECK_DEADLOCK FALSE
