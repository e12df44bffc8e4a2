\* Children that write up to nine through a pipe that holds three.
SPECIFICATION FairSpec
CONSTANTS
    PipeSize = 3
    InitCap = 3
    MaxSize = 9
    Codes <- MCCodes
    Signals <- MCSignals
INVARIANTS
    CapturedAll
    RoomForTerminator
    NothingLeaks
PROPERTIES
    OutputReturns
    RunReturns
CHECK_DEADLOCK FALSE
