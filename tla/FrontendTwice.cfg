\* A program given to the compiler by another path than includes lead to.
SPECIFICATION Spec
CONSTANTS
    main = main
    a = a
    b = b
    std = std
    stub = stub
    noFile = noFile
    Main = Main
    Own = Own
    F = F
    G = G
    Ctr = Ctr
    Lib = Lib
    Foo = Foo
    nobody = nobody
    Path <- MCPath
    File <- MCFile
    NoFile = noFile
    Projects <- TwoSpellings
    MaxVisited = 256
    Name <- MCName
    Class <- MCClass
    Nobody = nobody
    Ctor <- MCCtor
    Modules <- NoModules
    Functions <- MCFunctions
INVARIANT
    UserCodeStays
CHECK_DEADLOCK FALSE
