SPECIFICATION FairSpec
CONSTANTS
    Statuses = {200, 429, 500, 503}
    ErrorKinds = {"read_timeout", "other"}
    MaxEventAttempts = 2
    MaxHeaderIndex = 99
    MaxRetries = 1
    NumCandidates = 3
    MaxPanics = 0
    Calls <- MCStreams
INVARIANTS
    OpenTimerSparesOpenStream
