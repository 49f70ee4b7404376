CONSTANTS
    MaxChunks = 4
    Slots = 2
    Speakers = {thomas, eva}
    Fallback = voice_user
    Enrollers = {e1, e2}
    Windows = {1}
    Levels = {1, 2}
    Threshold = 2
    Feelings <- SomeFeelings
    StoreFrom = 50
    MaxTurns = 1
    MaxFailures = 1
    Turns = {u1, u2, u3}
    Warmer = warmer
    MaxFlaws = 1
    TopFacts = 2
    TopTraits = 1
    BlockCap = 8
    Budget = 20
    Window = 3
    Persona = 6
    HeaderLength = 1
    SuffixLength = 3
    LeastRoom = 5
    Margin = 2
    EndMark = 1
    TextLengths = {1, 3}
    UserLengths = {6, 18}
    ReplyLengths = {2, 6}
    MaxHits = 2
    MaxTalks = 2
    MaxText = 5
    MaxWords = 5
    FirstChunk = 2
    LaterChunk = 3
    MinRemainder = 2
    MaxPhraseRuns = 1
SPECIFICATION PartsSpec
INVARIANTS SaidOnce NumbersWhole SpansSpeakTheChunk EnrolledStays FactsNameFeelings VoiceIsHeard PromptFits
PROPERTIES SpeaksInOrder WorkerEnds
CHECK_DEADLOCK FALSE
