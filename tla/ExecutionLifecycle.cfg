CONSTANTS
    launched = launched
    marker = marker
    Executions = {launched, marker}
    Owning = {launched}
    Yielding = {launched}
    Marked = {marker}
    Hooked = {launched}
    Nobody = Nobody
    MaxReports = 2
SPECIFICATION EitherSpec
INVARIANTS MeasuredOnce QuietWhenSaid
PROPERTIES MeasurementStands ExitIsSettled

\* A closed runtime whose work is done stops.
CHECK_DEADLOCK FALSE
