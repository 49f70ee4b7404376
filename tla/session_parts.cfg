CONSTANTS
    Sessions = {s1}
    Keys = {k1, k2}
    MaxTurns = 3
    Grace = 1
    Idle = 2
    Overlap = FALSE
    Connections = {c1, c2}
    Test = t
    MaxTyped = 1
    MaxSpeech = 3
    Window = 2
    MaxFrames = 6
    MaxCliTurns = 2
    MaxDeltas = 2
    MaxChunks = 1
    Hangover = 2
    MaxUtterance = 4
    MinSpeech = 2
SPECIFICATION PartsSpec
VIEW PartView
INVARIANTS PairsAccounted ConsolidatedOnce GateWatches UtterancesHeard SpeechKept
PROPERTIES Consolidates RecognitionEnds BargeInStopsSpeech UtterancesAnswered
CHECK_DEADLOCK FALSE
