SPECIFICATION FairSpec
CONSTANTS
    MaxEvents = 1
    MaxBatchEvents = 1
    MaxBatchCounters = 1
    MaxBatchBytes = 2
    RetentionMinutes = 0
    RetentionBytes = 1
    MaxRequests = 2
    Finishes <- MCCalls
    UrgentEvents = 2
    BatchTriggerBytes = 3
    FlushInterval = 1
    BackoffMin = 1
    BackoffMax = 2
    HasApiKey = TRUE
    Statuses = {202, 401, 413, 503}
    RetryAfters = {2}
    Policies <- MCPolicies
INVARIANTS
    TypeOK
    NoSilentLoss
    RepeatsNeedALostReply
    DisabledStaysEmpty
PROPERTIES
    StopEndsEverything
    BufferDrains
CHECK_DEADLOCK FALSE
