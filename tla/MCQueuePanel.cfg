CONSTANTS
    NB <- MC_NB
    MaxInFlight <- MC_MaxInFlight
    FetchMayFail = TRUE
    WaitValues <- MC_WaitValues
SPECIFICATION Spec
PROPERTY QueueLoadedRefined
CHECK_DEADLOCK FALSE
