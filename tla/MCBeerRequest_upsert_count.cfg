CONSTANTS
    W = 3
    StartIds <- MCStartIds
    Types <- MCTypes
    Nums = {1}
    MaxCalls = 4
    AllocMayFail = TRUE
    WriteMayFail = TRUE
SPECIFICATION Spec
INVARIANT HeaderCountsFields
CHECK_DEADLOCK FALSE
