\* A conditional in a small function that calls itself.
SPECIFICATION Spec
CONSTANTS
    Width = 16
    Fuel = 4000
    MaxDefers = 2
    MaxLoopDepth = 3
    World <- MCWorld
    Answer <- MCAnswer
    Afterwards <- MCAfterwards
    Programs <- AgainOnly
    Lowered <- LowerModule
    Pass <- Apply
    Inlined <- InlineInto
    Info <- FnInfo
    SwitchedOff <- NothingOff
PROPERTY
    MeansTheSame
CHECK_DEADLOCK FALSE
