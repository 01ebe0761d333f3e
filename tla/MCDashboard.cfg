\* Safety of the navigation protocol with requests that may fail.
CONSTANTS
    NB <- MC_NB
    MaxInFlight <- MC_MaxInFlight
    FetchMayFail = TRUE
SPECIFICATION Spec
INVARIANTS
    TypeOK
    QueueViewCurrent
    BucketInRange
PROPERTIES
    NavigationRefined
\* The page really stops: a render that faults leaves no control to click.
CHECK_DEADLOCK FALSE
