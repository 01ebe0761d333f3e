\* The filter and the counting loop against their reference definitions.
CONSTANTS
    PaxSet <- MC_PaxSet
    MaxPax <- MC_MaxPax
    TBs <- MC_TBs
    NaN = NaN
SPECIFICATION Spec
INVARIANTS
    FilterSelectsShownBucket
    CountsAgreeWithSpec
    ChartShowsBucket
\* The callback returns after drawing the chart: the run really ends there.
CHECK_DEADLOCK FALSE
