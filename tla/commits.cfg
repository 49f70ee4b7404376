CONSTANTS
    Speakers = {s1, s2}
    Replies = {r1}
    MaxTurns = 3
    QueueMax = 2
    Rounds = 2
    CacheMax = 1
    MaxFails = 2
SPECIFICATION FairSpec
INVARIANTS CommitsAccounted MemoriesDoNotMix
PROPERTY Drains
CHECK_DEADLOCK FALSE
