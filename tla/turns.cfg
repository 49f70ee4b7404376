CONSTANTS
    MaxTurns = 3
    Inputs = {{"voice"}, {"text"}, {"voice", "text"}}
    Sessions = {s1, s2}
    Models = {m1}
    MaxAttempts = 2
SPECIFICATION PartsSpec
INVARIANTS TurnsApart CutStaysCut
PROPERTIES OneVoice TurnsEnd DownIsShown
CHECK_DEADLOCK FALSE
