CONSTANTS
    Speakers = {s1}
    Replies = {r1}
    MaxTurns = 1
    QueueMax = 1
    Rounds = 1
    CacheMax = 1
    MaxFails = 1
SPECIFICATION FairSpec
INVARIANT CommittedIsStored
CHECK_DEADLOCK FALSE
