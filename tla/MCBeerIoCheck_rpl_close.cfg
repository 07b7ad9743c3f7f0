\* beer_rpl_close on an open replication stream.
SPECIFICATION Spec
INVARIANT RplCloseClosesNet
CHECK_DEADLOCK FALSE
