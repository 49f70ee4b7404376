CONSTANTS
    MaxChunks = 3
    Slots = 2
SPECIFICATION Spec
INVARIANT SpokenToTheEnd
CHECK_DEADLOCK FALSE
