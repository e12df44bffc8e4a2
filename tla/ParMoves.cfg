\* All lists of four parallel moves.
SPECIFICATION FairSpec
CONSTANTS
    Reg <- MCReg
    Mem <- MCMem
    Imm <- MCImm
    Lists <- MCLists
INVARIANTS
    AtOnce
    SourcesWait
PROPERTY
    EndsEventually
CHECK_DEADLOCK FALSE
