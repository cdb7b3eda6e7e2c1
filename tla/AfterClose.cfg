SPECIFICATION FairSpec
CONSTANTS
    MaxEvents = 1
    MaxBatchEvents = 1
    MaxBatchCounters = 2
    MaxBatchBytes = 2
    RetentionMinutes = 0
    RetentionBytes = 2
    MaxRequests = 2
    Finishes <- MCCalls
    UrgentEvents = 1
    BatchTriggerBytes = 3
    FlushInterval = 1
    BackoffMin = 1
    BackoffMax = 1
    HasApiKey = TRUE
    Statuses = {202}
    RetryAfters = {0}
    Policies <- MCNoPolicy
PROPERTIES
    ClosedClientRecordsNothing
CHECK_DEADLOCK FALSE
