\* Children that write up to nine through a pipe that holds three.
SPECIFICATION Spec
CONSTANTS
    PipeSize = 3
    InitCap = 3
    MaxSize = 9
    Codes <- MCCodes
    Signals <- MCSignals
INVARIANT
    StderrAsAsked
CHECK_DEADLOCK FALSE
