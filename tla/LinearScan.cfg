\* Every list of four intervals over three positions, two registers.
SPECIFICATION Spec
CONSTANTS
    VReg <- MCVReg
    NumRegs = 2
    NumCalleeSaved = 1
    Rank <- MCRank
    Inputs <- MCInputs
INVARIANTS
    NoTwoInOneRegister
    SurvivesClobbers
    RegistersPartitioned
    CalleeSavedNoted
CHECK_DEADLOCK FALSE
