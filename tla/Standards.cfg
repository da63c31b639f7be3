SPECIFICATION FairSpec
CONSTANTS
    AnyDevice = AnyDevice
    AnyKind = AnyKind
    NoEnd = NoEnd
    Standards <- MCStandards
    Spellings <- MCSpellings
    DeviceOf <- MCDeviceOf
    Legacy <- MCLegacy
    Devices = {"TH1"}
    Contexts <- MCContexts
    MaxEdits = 3
    MaxTroubles = 1
INVARIANTS
    ActiveIsLastRead
    AmbiguityIsSpelling
PROPERTIES
    GateMovesBySync
    ValidTableIsAdopted
