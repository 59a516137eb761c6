SPECIFICATION Spec
CONSTANTS
    MaxMessages = 4
    MaxRuns = 2
    MaxRevision = 1
    Sizes <- ThreeSizes
    MaxChars = 2
    InitialLimit = 2
    Paces <- SlackPace
    MaxAge = 2
    DailyLimit = 2
    Scopes = {s1}
    Configurations = {TRUE}
INVARIANTS
    TypeOK
    BatchIsInPrompt
