SPECIFICATION Spec
CONSTANTS
    Requests = {h1}
    Scheduler = Scheduler
    InlineModes = {FALSE}
    MaxRetries = 1
    MaxSamples = 2
    MaxCrashes = 0
    MaxFaults = 0
INVARIANT
    OkMeansProjected
CHECK_DEADLOCK FALSE
