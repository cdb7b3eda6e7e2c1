SPECIFICATION FairSpec
CONSTANTS
    Statuses = {200, 429, 500, 503}
    ErrorKinds = {"read_timeout", "other"}
    MaxEventAttempts = 2
    MaxHeaderIndex = 99
    MaxRetries = 2
    NumCandidates = 3
    MaxPanics = 0
    Calls <- MCCalls
INVARIANTS
    EngineInv
    OneKey
    NoUnsafeReplay
    RetriesArePermitted
    MovesArePermitted
    BudgetExact
PROPERTIES
    ImplementsContract
    CancelEndsCall
    TimedBufferedCallReturns
