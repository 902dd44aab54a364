CONSTANTS
    e1 = e1
    e2 = e2
    Executions = {e1, e2}
    Hooked = {e2}
    Flushers = {d1}
    MaxBatch = 2
    MaxStops = 1
SPECIFICATION EitherSpec
INVARIANTS
    DurableWhenTold
    ExactlyOnce
    LatticeNeverAheadOfClause
PROPERTIES
    CallersReturn

\* A closed predictor whose worker has ended stops.
CHECK_DEADLOCK FALSE
