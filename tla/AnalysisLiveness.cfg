SPECIFICATION FairSpec
CONSTANTS
    MaxMessages = 2
    MaxRuns = 3
    MaxRevision = 3
    Sizes <- OneSize
    MaxChars = 2
    InitialLimit = 2
    Paces <- TwoPaces
    MaxAge = 2
    DailyLimit = 1
    Scopes = {s1}
    Configurations = {TRUE, FALSE}
PROPERTIES
    ProcessingSettles
    PendingServed
    HardDeadline
