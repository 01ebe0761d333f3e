CONSTANTS
    PaxSet <- MC_PaxSet
    MaxPax <- MC_MaxPax
    TBs <- MC_TBs
    NaN = NaN
SPECIFICATION Spec
INVARIANT FilterMatchesSpecWindows
CHECK_DEADLOCK FALSE
