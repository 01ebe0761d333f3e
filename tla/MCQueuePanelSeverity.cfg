CONSTANTS
    NB <- MC_NB
    MaxInFlight <- MC_MaxInFlight
    FetchMayFail = FALSE
    WaitValues <- MC_WaitValues
SPECIFICATION Spec
INVARIANT SeverityMonotone
CHECK_DEADLOCK FALSE
