\* The allocator from end to end, and the function it allocated.
SPECIFICATION FairSpec
CONSTANTS
    VReg <- MCVReg
    Programs <- MCPrograms
    ArgRegs <- MCArgRegs
    NumRegs = 3
    NumCalleeSaved = 1
    Rank <- MCRank
    Clobbers <- MCClobbers
INVARIANTS
    DataflowIsExact
    IntervalsCover
    ReadsOwnValue
    HomesApart
PROPERTY
    Terminates
CHECK_DEADLOCK FALSE
