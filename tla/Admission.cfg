CONSTANTS
    r1 = r1
    Calls = {c1, c2}
    Markers = {c2}
    Runtimes = {r1}
    RuntimeOf <- OneRuntime
    MaxGlobal = 2
    CpuBudget = 2
    Demands = {1, 4}
SPECIFICATION Spec
INVARIANTS
    WithinBudget
    RunningHoldsItsLease
    FinalizedIsRetired
PROPERTIES
    ClosedRuntimeIsFinal

\* A closed runtime whose calls have ended stops.
CHECK_DEADLOCK FALSE
