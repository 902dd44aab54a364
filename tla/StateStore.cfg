CONSTANTS
    Files = {f1, f2}
    Missing = Missing
    Torn = Torn
    NoStats = NoStats
    MaxVersion = 1
    MaxGeneration = 4
    PowerLossPossible = TRUE
SPECIFICATION Spec
INVARIANTS
    CurrentIsWhole
    NeverLearnsFromTornSnapshots
PROPERTIES
    ImplementsAtomicCommit

\* Owners may stop starting: nothing has to run for ever.
CHECK_DEADLOCK FALSE
