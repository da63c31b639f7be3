SPECIFICATION FairSpec
CONSTANTS
    Contents = {a, b}
    Other = Other
    Gone = Gone
    None = None
    MaxAttempts = 2
    MaxMeddles = 2
    MaxChanges = 2
    MaxTroubles = 2
INVARIANTS
    SucceededIsShown
PROPERTIES
    PutsWhatIsDesired
    NothingStaysPending
    BoardSettles
