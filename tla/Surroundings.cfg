SPECIFICATION AllSpec
CONSTANTS
    N = 3
    Cases = {c1, c2}
    Parallelism = 1
    MaxStarts = 2
    MaxRunFaults = 2
    Pools <- SerialAndPool
    Retries = 1
    Files = {clause, lattice}
    Stale <- Third
    Pids = {p1, p2, p3}
    Agent = p1
    MaxFaults = 2
    Calls = {"c1", "c2", "c3"}
    Runs = {"run"}
    Writers = {"w1", "w2"}
    RunOf <- OneRun
    WriterOf <- Variants
    Procs = {"n1", "n2"}
    Regs = {"a", "b", "c"}
    In <- TwoAndOne
    MaxCalls = 3
    MaxStrictCalls = 2
    MaxLosses = 1
    Box = Box
    Paths = {n1, n2, Box}
    NoPath = NoPath
    Requests = {c1, c2}
    Nobody = Nobody
    MaxSends = 2
    MaxBridgeFaults = 2
INVARIANTS
    BatchIsIsolated
    RunLearnsOnce
    QuietWhenTold
    RunsEndClean
    PassedIsMeasured
    ToolsAreOwned
PROPERTIES
    StopsForTheLastOnly
    EveryoneEnds

CHECK_DEADLOCK FALSE
