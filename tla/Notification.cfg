SPECIFICATION FairSpec
CONSTANTS
    Directions = {d1}
    Clear = Clear
    MaxAttempts = 2
    MaxEvents = 1
    MaxEpisodes = 2
    MaxTroubles = 2
INVARIANTS
    NoticesAreAccountedFor
    WithdrawnIsOver
PROPERTIES
    
    NoticesSettle
