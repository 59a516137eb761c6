SPECIFICATION Spec
CONSTANTS
    MaxMessages = 2
    MaxRuns = 3
    MaxRevision = 4
    Sizes <- OneSize
    MaxChars = 2
    InitialLimit = 2
    Paces <- OnePace
    MaxAge = 1
    DailyLimit = 1
    Scopes = {s1, s2}
    Configurations = {TRUE, FALSE}
SYMMETRY ScopeSymmetry
INVARIANTS
    OneRunInFlight
    ArtifactChain
    BatchesSettleOnce
    UncertainNeedsRetry
    NothingForgotten
    NothingStranded
PROPERTIES
    ConsentHeld
    OutboxSpec
