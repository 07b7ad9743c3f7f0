\* Truncated and corrupted files: is "end of file" ever reported for them?
CONSTANTS
    NRecs = 2
    Lens = {1}
    HdrW = 2
    Faults = {"truncate", "corrupt"}
    AllocMayFail = FALSE
SPECIFICATION Spec
INVARIANT CleanEndMeansComplete
CHECK_DEADLOCK FALSE
