SPECIFICATION Spec
CONSTANTS
    Keys = {k1, k2}
    None = None
    MaxTurns = 3
    MaxInFlight = 3
    KeepRecent = 2
    MinMessages = 4
    MaxQuarantine = 4
    MaxFallbacks = 2
    Scenes <- Whole
INVARIANTS NoTraceOfUnanswered
    AnsweredStaysOnRecord
    LogHolds
    IsolatedTailDropped
    RefusedStaysApart
CHECK_DEADLOCK FALSE
SYMMETRY Symmetric
