\* Every small module.
SPECIFICATION StripSpec
CONSTANTS
    main = main
    f = f
    fooCtor = fooCtor
    other = other
    Foo = Foo
    nobody = nobody
    Name <- MCName
    Class <- MCClass
    Nobody = nobody
    Ctor <- MCCtor
    Modules <- MCModules
INVARIANTS
    NoDangling
    NoneTooMany
    WorkFits
PROPERTY
    StripEnds
CHECK_DEADLOCK FALSE
