CONSTANTS
    Paths = {p1, p2}
    NoPath = none
    EnvPath = p2
    SoNamed = {}
    Workers = {w1, w2}
    Starters = {s1, s2}
    MaxRequests = 2
    MaxStarts = 2
    MaxFaults = 1
SPECIFICATION SelectionSpec
INVARIANT WaitedForMeansSame
CHECK_DEADLOCK FALSE
