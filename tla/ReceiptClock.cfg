SPECIFICATION KernelSpec
CONSTANTS
    Release <- MCRelease
    ReceiptJWKS <- MCJWKS
    MaxWindowKeys = 2
    Endpoints = {"chat", "responses", "inference_other"}
    ErrorClasses = {"", "timeout", "unknown"}
    Rests = {1, 2}
    MaxMerges = 4
    ChoiceIndexes = {0, 1}
    ToolIndexes = {0, 1}
    MaxDeltas = 4
    MaxCollects = 2
CHECK_DEADLOCK FALSE
INVARIANTS
    NowOverridesTime
