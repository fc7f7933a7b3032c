SPECIFICATION BtcSpec
CONSTANTS
    Requests = {}
    Genuine <- MonitorTxs
    MaxPosted = 5
    MaxCrashes = 1
    NumProcesses = 4
    LenThreshold = 2
    FetchSize = 101
    MaxUsers = 1
    MaxBlocks = 3
    MaxMonitorStarts = 1
    Confirmations = 2
INVARIANTS
    ReportedIsFinal
    NoneOverlooked
PROPERTY RestartMakesGood
CHECK_DEADLOCK FALSE
