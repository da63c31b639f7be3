SPECIFICATION FairSpec
CONSTANTS
    NCycles = 2
    Rows = {r1, r2}
    NoRow = NoRow
    Gates = {TRUE}
    MaxCrashes = 1
    MaxFaults = 1
PROPERTIES
    StrandedIsBound
    RecoveryLands
CHECK_DEADLOCK FALSE
