SPECIFICATION FairSpec
CONSTANTS
    c1 = c1
    c2 = c2
    w1 = w1
    w2 = w2
    MaxMessages = 3
    Conversations = {c1, c2}
    Conversation <- ByConversation
    MaxTasks = 3
    Workers = {w1, w2}
    QueueSize = 1
    MaxFailures = 1
    DailyLimit = 1
    MaxInFlight = 1
    Setups <- AllSetups
INVARIANTS
    TypeOK
    QueueHolds
PROPERTIES
    ServedInOrder
    TaskServed
CHECK_DEADLOCK FALSE
