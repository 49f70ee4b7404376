CONSTANTS
    Spaces = {a}
    Pairs = {p1}
    Requests = {r1, r2}
    MaxThreads = 2
    Paths = {f1, f2}
    NoPath = none
    EnvPath = f2
    SoNamed = {f2}
    Workers = {w1, w2}
    Starters = {s1, s2}
    MaxRequests = 2
    MaxStarts = 2
    MaxFaults = 1
    Presets = {F1, M1}
    Default = F1
    Legacy = anna
    NoVoice = noVoice
    VoiceThreads = {t1, t2}
    MaxReplies = 3
    MaxChanges = 1
    MaxVoiceFaults = 1
    Clients = {c1, c2}
    NotMeasurable = nothing
    MaxTests = 2
    MaxRepairs = 1
    VadFrame = 2
    Context = 1
    VadBlocks = {0, 1, 2, 3, 5}
    MaxFed = 6
    Engines = {q1, q2}
    Chunk = 2
    Blocks = {1, 3}
    MaxSamples = 3
    MaxQwenFaults = 1
SPECIFICATION PartsSpec
VIEW PartView
SYMMETRY PartSymmetry
INVARIANTS MemoryAsShown ModelAsShown  DiagnosisIsSound ScoredWithMemory
    UtteranceRecognised
CHECK_DEADLOCK FALSE
