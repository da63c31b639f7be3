SPECIFICATION FairOutboxSpec
CONSTANTS
    Devices = {d1, d2}
    Limit = 3
    AcceptedInTheEnd = {d1, d2}
    MaxBeats = 5
    MaxRestarts = 1
    MaxLostAcks = 1
INVARIANT
    NothingLost
PROPERTIES
    KeepsRelay
    EveryBeatIsHeard
CHECK_DEADLOCK FALSE
