SPECIFICATION FairSpec
CONSTANTS
    Records = {1, 2, 3}
    Opening = {1, 3}
    CreatedAt <- MCCreatedAt
    None = None
    MaxNumber = 1
    MaxEdits = 3
    MaxTroubles = 1
INVARIANTS
    RemindersCount
PROPERTIES
    RemindersAreCurrent
    RegistrationsAreFollowed
    OverdueIsSettled
