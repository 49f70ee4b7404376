CONSTANTS
    TopFacts = 2
    TopTraits = 1
    BlockCap = 8
    Budget = 20
    Window = 3
    Persona = 6
    HeaderLength = 1
    SuffixLength = 3
    LeastRoom = 5
    Margin = 2
    EndMark = 1
    TextLengths = {1, 3}
    UserLengths = {6, 18}
    ReplyLengths = {2, 6}
    MaxHits = 2
    MaxTalks = 2
SPECIFICATION PromptSpec
INVARIANT StaleIsMarked
CHECK_DEADLOCK FALSE
