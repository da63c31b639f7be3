SPECIFICATION Spec
CONSTANTS
    NCycles = 2
    Rows = {r1, r2, r3}
    NoRow = NoRow
    Gates = {TRUE, FALSE}
    MaxCrashes = 1
    MaxFaults = 2
SYMMETRY RowSymmetry
INVARIANT
    RowsAreAccountedFor
PROPERTIES
    NoOlderRecoveryWritten
    KeepsBindingPromise
CHECK_DEADLOCK FALSE
