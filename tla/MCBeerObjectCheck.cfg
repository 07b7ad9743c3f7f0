\* The six configurations of MCBeerObjectCheck (wide, deep, buf, iter, ops and format).
SPECIFICATION Spec
INVARIANT TypeOK
INVARIANT EncodesIntent
INVARIANT FramesTrackContainers
INVARIANT CursorWithinBuffer
INVARIANT BorrowedNeverReleased
INVARIANT WalkFollowsContainer
INVARIANT ClosedOpsWellFormed
INVARIANT FormatBuildsValue
\* A buffer stream ends with beer_buf_free, after which no call is left;
\* the iterator, the ops builder and the key format run out of their
\* bounds on calls.
CHECK_DEADLOCK FALSE
