SPECIFICATION FairSpec
CONSTANTS
    a = a
    b = b
    MaxMessages = 3
    Conversations = {a, b}
    Conversation <- ByConversation
    HistoryLimit = 2
    Images = {1, 2}
    MaxAttempts = 2
    MaxRuns = 2
    Setups <- AllSetups
INVARIANTS
    TypeOK
    ListenerHolds
    ImagesKept
PROPERTIES
    DeletedForGood
    IntakeSettles
CHECK_DEADLOCK FALSE
