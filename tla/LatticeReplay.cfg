SPECIFICATION Spec
CONSTANTS
    o1 = o1
    o2 = o2
    x1 = x1
    x2 = x2
    make = make
    test = test
    build = build
    Execs = {o1, o2, x1, x2}
    Old = {o1, o2}
    Identity <- MIdentity
    Absent = {x2}
    Unreported = {x2}
    MaxLive = 1
    MaxCrashes = 2
INVARIANTS
    NothingCountedTwice
CHECK_DEADLOCK FALSE
