\* Liveness of navigation when every request is answered with data.
CONSTANTS
    NB <- MC_NB
    MaxInFlight <- MC_MaxInFlight
    FetchMayFail = FALSE
SPECIFICATION FairSpec
PROPERTIES
    NavigationAnswered
\* The page really stops once a render at an edge bucket has faulted.
CHECK_DEADLOCK FALSE
