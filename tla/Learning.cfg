SPECIFICATION AllSpec
CONSTANTS
    Commands <- MCCommands
    Words <- MCWords
    Shells <- MCShells
    Program <- MCProgram
    o1 = o1
    o2 = o2
    x1 = x1
    x2 = x2
    build = build
    test = test
    install = install
    r1 = r1
    r2 = r2
    r3 = r3
    r4 = r4
    q1 = q1
    q2 = q2
    q3 = q3
    q4 = q4
    q5 = q5
    q6 = q6
    q7 = q7
    here = here
    there = there
    NoVersion = NoVersion
    Execs = {o1, o2, x1, x2}
    Old = {o1, o2}
    Identity <- ClauseOf
    Absent = {x2}
    Unreported = {x2}
    MaxLive = 1
    MaxCrashes = 2
    Rows = {r1, r2, r3, r4}
    Corpus = {r4}
    Argv <- Vector
    Features <- Chain3
    Core <- Root1
    Views = {"time", "memory"}
    Measured <- Targets
    MaxOptional = 1
    Times = {1, 2, 3}
INVARIANTS
    LabelsAreTrue
    EachHeldOnce
    AnswersAreExact
CHECK_DEADLOCK FALSE
