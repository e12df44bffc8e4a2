\* Eight programs, from their text to optimized machine IR, with all passes on and
\* with each of them off.
SPECIFICATION Spec
CONSTANTS
    Width = 16
    Fuel = 4000
    MaxDefers = 2
    MaxLoopDepth = 3
    World <- MCWorld
    Answer <- MCAnswer
    Afterwards <- MCAfterwards
    Programs <- MCPrograms
    Lowered <- LowerModule
    Pass <- Apply
    Inlined <- InlineInto
    Info <- FnInfo
    SwitchedOff <- AllSwitchedOff
INVARIANTS
    WellFormed
    ReadsDefined
    ParametersLive
    CalleesFirst
    InfoIsCurrent
PROPERTIES
    MeansTheSame
CHECK_DEADLOCK FALSE
