SPECIFICATION PartSpec
CONSTANTS
    Modes <- AllModes
    MaxFaults = 3
    Runs = {"r1", "r2"}
    Groups = {"g1", "g2", "g3"}
    ScopeOf <- ScopeOfEach
    Found <- FoundBySecond
    RingSize = 1
    MaxEvents = 2
    MaxSourceFaults = 1
    Calls = {"c1", "c2"}
    CallHome <- BoxOfEach
    ExecParent <- ClawtunePath
    SampleGap = 1
    RecentCap = 2
    MaxTime = 3
    MaxMemoryFaults = 1
    Execs = {1, 2}
    DockerExecs = {"x1", "x2"}
    BoxOf <- OneBox
    ToolOf <- OneTool
    MaxRecords = 1
    Tools = {"tool"}
    Local = {"script"}
    Contained = {"inside"}
    MeasuredExecs = {"measured"}
    QueueSize = 1
    Budget = 2
    MaxEdits = 1
    MaxCools = 1
INVARIANTS
    PayloadGuarded
    ExitIsTruthful
    OkIsComplete
    FilterMatchesLeases
    LearnedIsTheCalls
    ExecIsOneCalls
    ScopeIsItsOwn
    GeneratorKeepsOff
PROPERTIES
    MeasurementEnds
CHECK_DEADLOCK FALSE
