SPECIFICATION FairSpec
CONSTANTS
    Requests = {h1, h2}
    Scheduler = Scheduler
    InlineModes = {FALSE, TRUE}
    MaxRetries = 2
    MaxSamples = 2
    MaxCrashes = 1
    MaxFaults = 2
INVARIANT
    HearingIsAccountedFor
PROPERTIES
    RemoteNeverRegresses
    GivesUpOnlyAfterCap
    ProjectedIsDispatched
    OwedIsProjected
CHECK_DEADLOCK FALSE
