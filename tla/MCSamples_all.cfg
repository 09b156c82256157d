SPECIFICATION Spec
CONSTANTS
    Lo <- MCLo
    Counts <- MCCounts
    Starts <- MCStarts
    Gaps <- MCGaps
    Latencies <- MCLatencies
CHECK_DEADLOCK FALSE
INVARIANTS
    SamplesInv
    SamplesAreTrue
    TotalIsTrue
    StatisticsAgree
    CdfCountsSamples
