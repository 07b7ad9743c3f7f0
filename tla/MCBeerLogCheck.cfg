\* The reader under every fault, and the xlog and snapshot streams.
CONSTANTS
    NRecs = 2
    Lens = {1, 2}
    HdrW = 2
    Faults = {"none", "gap", "corrupt", "truncate", "badpayload"}
    AllocMayFail = TRUE
SPECIFICATION CheckSpec
INVARIANT ReturnsOnlyWritten
INVARIANT ReadsAllRows
 
\* The reader stops after its first NULL; a stream stops after MaxCalls.
CHECK_DEADLOCK FALSE
