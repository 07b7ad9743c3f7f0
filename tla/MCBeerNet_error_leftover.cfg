\* The server may answer a reload select with an error.
CONSTANTS
    s1 = s1
    s2 = s2
    pk = pk
    SpaceIds <- MCSpaceIds
    SpaceName <- MCSpaceName
    PK <- pk
    InitSpaces <- MCSpaceIds
    SbufCap = 2
    MaxReqs = 3
    MaxSessions = 1
    MaxDDL = 0
    DDLOps <- NoDDL
    ServerMayErr = TRUE
    LinkMayFail = FALSE
    AllocMayFail = FALSE
    UseUnconnected = FALSE
SPECIFICATION Spec
INVARIANT RepliesAnswerWritten
CHECK_DEADLOCK FALSE
