SPECIFICATION FairSpec
CONSTANTS
    u1 = u1
    u2 = u2
    NumChunks = 2
    Users <- MCUsers
    Missed <- MCBoth
INVARIANTS DriverInv NothingLeaks ReleasesItsOwn OpsFindBuffers
PROPERTY UnloadEnds
CHECK_DEADLOCK FALSE
