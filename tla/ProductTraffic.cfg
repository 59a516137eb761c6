SPECIFICATION FairSpec
CONSTANTS
    MaxProducts = 2
    Registered = {1}
    Purchases <- SomePurchases
    Hours <- AfterHours
    MaxDelay <- Delays
    DueLimit = 2
    ReminderLimit = 1
    Clients = {1, 2}
    Setups <- AllSetups
INVARIANTS
    TypeOK
    PaidOnce
    ReadingsHold
    DecisionsHold
PROPERTIES
    TrafficSettles
CHECK_DEADLOCK FALSE
