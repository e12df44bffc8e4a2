\* Every way for a program and two modules to include each other and the
\* library, from load to pruning.
SPECIFICATION Spec
CONSTANTS
    main = main
    a = a
    b = b
    std = std
    stub = stub
    noFile = noFile
    Main = Main
    Own = Own
    F = F
    G = G
    Ctr = Ctr
    Lib = Lib
    Foo = Foo
    nobody = nobody
    Path <- MCPath
    File <- MCFile
    NoFile = noFile
    Projects <- OneSpelling
    MaxVisited = 256
    Name <- MCName
    Class <- MCClass
    Nobody = nobody
    Ctor <- MCCtor
    Modules <- NoModules
    Functions <- MCFunctions
INVARIANTS
    AllAndOnly
    Once
    UserCodeStays
    ProgramLinks
PROPERTY
    LoadEnds
CHECK_DEADLOCK FALSE
