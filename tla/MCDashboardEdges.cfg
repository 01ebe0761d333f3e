\* Checks NavigationNeverLost; expected to be violated.
CONSTANTS
    NB <- MC_NB
    MaxInFlight <- MC_MaxInFlight
    FetchMayFail = FALSE
SPECIFICATION Spec
INVARIANTS
    NavigationNeverLost
CHECK_DEADLOCK FALSE
