\* Checks ArrivalsListShownBucket; expected to be violated.
CONSTANTS
    NB <- MC_NB
    MaxInFlight <- MC_MaxInFlight
    FetchMayFail = FALSE
SPECIFICATION Spec
INVARIANTS
    ArrivalsListShownBucket
CHECK_DEADLOCK FALSE
