\* Does beer_buf_read hand the caller the bytes that were written?
CONSTANTS
    WriteSizes = {1, 2}
    ReadSizes = {1, 3}
    BorrowLen = 0
    MaxBytes = 4
    AllocMayFail = FALSE
SPECIFICATION Spec
INVARIANT ReadReturnsWritten
CHECK_DEADLOCK FALSE
