CONSTANTS
    MaxTurns = 3
    MaxChars = 3
    Delays = {31, 40}
    Shorts = {0, 1, 2}
    MaxTraced = 2
    MaxRuns = 3
    MaxInterrupts = 1
    Traced = {t1, t2}
    MaxServed = 4
    Matrix <- TwoConfigurations
    Production = "production"
    MaxInvocations = 2
    MaxStartUps = 1
    Versions = {1, 2}
    MaxEdits = 2
    MaxGates = 2
    MaxBuilds = 2
    MaxKills = 1
    MaxFetches = 2
    MaxDamage = 1
    MaxPushes = 1
    Numbers = {20, 30}
    BuiltIn = 20
    Garbage = garbage
    OutOfRange = minusOne
    Unset = unset
    MaxConfigEdits = 2
    MaxStarts = 3
    MaxRequests = 1
    MaxLines = 2
    Sessions = {s1, s2}
    Models = {m1, m2}
    MaxAttempts = 2
SPECIFICATION ToolsSpec
VIEW PartView
INVARIANTS VerdictIsTheTurns ReplaysAsReported TraceTellsTheTurn MeasuredFresh ReleasesGated
    SourcesAreTrue SettingsHold ChipHonest
CHECK_DEADLOCK FALSE
