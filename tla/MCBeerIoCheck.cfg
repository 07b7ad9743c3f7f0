\* Both configurations of MCBeerIoCheck (streams, rpl and connect).
SPECIFICATION Spec
INVARIANT SendKeepsOrder
INVARIANT RecvReturnsStream
INVARIANT RbufHoldsUnread
INVARIANT RowsFollowStream
INVARIANT SocketHeldIffOpen
INVARIANT SockBufIsLargestAccepted
PROPERTY ImplementsChannel
\* The caller may stop at any point; after a failure only close is left.
CHECK_DEADLOCK FALSE
