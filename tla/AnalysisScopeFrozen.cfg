SPECIFICATION Spec
CONSTANTS
    MaxMessages = 2
    MaxRuns = 1
    MaxRevision = 2
    Sizes <- OneSize
    MaxChars = 2
    InitialLimit = 2
    Paces <- OnePace
    MaxAge = 1
    DailyLimit = 2
    Scopes = {s1, s2}
    Configurations = {TRUE}
PROPERTIES
    ScopeFrozenInFlight
