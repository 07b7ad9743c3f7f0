\* A realloc failure in beer_buf_resize, then the caller only frees the
\* stream (spec section 4.1: the buffer is invalid after the failure).
CONSTANTS
    WriteSizes = {1, 2}
    ReadSizes = {1}
    BorrowLen = 0
    MaxBytes = 4
    AllocMayFail = TRUE
SPECIFICATION Spec
INVARIANT NoUndefinedBehaviour
CHECK_DEADLOCK FALSE
