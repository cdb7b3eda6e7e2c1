SPECIFICATION FairSpec
CONSTANTS
    MaxExchanges = 3
    Documents <- MCDocuments
    Policy <- MCPolicy
    JWKS <- MCJWKS
CHECK_DEADLOCK FALSE
INVARIANTS
    SessionInv
    RefusedLeavesNothingOpen
    GrantedByEnclave
    IdleWithoutDeadline
    FetchesInStep
PROPERTIES
    CallReturns
