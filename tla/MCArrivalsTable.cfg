\* The arrivals filter against the bucket of its hour and label.
CONSTANTS
    FlightSet <- MC_FlightSet
    MaxFlights <- MC_MaxFlights
    TBs <- MC_TBs
    NoBar = NoBar
    NoTable = NoTable
SPECIFICATION Spec
INVARIANTS
    TableListsListedBucket
\* The callback runs once: the run really ends there.
CHECK_DEADLOCK FALSE
