SPECIFICATION Spec
CONSTANTS
    MaxMessages = 2
    MaxRuns = 2
    MaxRevision = 3
    Sizes <- OneSize
    MaxChars = 2
    InitialLimit = 2
    Paces <- OnePace
    MaxAge = 1
    DailyLimit = 2
    Scopes = {s1}
    Configurations = {TRUE}
PROPERTIES
    FailedNotResent
