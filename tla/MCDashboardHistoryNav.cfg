\* Checks PassengerMixFollowsNavigation; expected to be violated.
CONSTANTS
    NB <- MC_NB
    MaxInFlight <- MC_MaxInFlight
    FetchMayFail = FALSE
SPECIFICATION HSpec
INVARIANTS
    PassengerMixFollowsNavigation
CHECK_DEADLOCK FALSE
