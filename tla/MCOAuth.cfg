SPECIFICATION FairSpec
CONSTANTS
    Requests = {1, 2}
    Queries <- MCQueries
CHECK_DEADLOCK FALSE
INVARIANTS
    LoopbackInv
    KeyOfThisFlow
    ReturnedIsClosed
PROPERTIES
    HandlersFinish
    WaitEnds
