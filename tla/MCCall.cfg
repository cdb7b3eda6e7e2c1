SPECIFICATION CallSpec
CONSTANTS
    Statuses = {200, 500, 503}
    ErrorKinds = {"read_timeout", "other"}
    MaxEventAttempts = 1
    MaxHeaderIndex = 99
    MaxRetries = 2
    NumCandidates = 2
    MaxPanics = 1
    Calls <- MCRecorded
INVARIANTS
    ReportedOnce
    CountersExact
    HeadersTellTheTruth
    FinalOutcomeTruth
