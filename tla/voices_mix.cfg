CONSTANTS
    MaxTurns = 2
    Inputs = {{"text"}}
SPECIFICATION FairSpec
PROPERTY RepliesStayApart
CHECK_DEADLOCK FALSE
