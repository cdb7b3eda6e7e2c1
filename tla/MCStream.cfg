SPECIFICATION FairSpec
CONSTANTS
    Modes <- MCModes
    Scripts <- MCScripts
    Endings = {"lf", "crlf", "mixed"}
CHECK_DEADLOCK FALSE
INVARIANTS
    WrapperInv
    DecodedIsSent
    CaptureIsScan
    AcceptedIsSeen
PROPERTIES
    ReadEnds
