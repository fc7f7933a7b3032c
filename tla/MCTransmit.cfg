SPECIFICATION TransmitSpec
CONSTANTS
    Requests <- MCRequests
    Genuine = {"good"}
    MaxPosted = 5
    MaxCrashes = 2
    NumProcesses = 2
    LenThreshold = 2
    FetchSize = 2
INVARIANTS
    TypeOK
    LogIsPosted
    NoGap
    NothingTwice
PROPERTY PostedIsApplied
CHECK_DEADLOCK FALSE
