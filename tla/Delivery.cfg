SPECIFICATION FairSpec
CONSTANTS
    k1 = k1
    k2 = k2
    Browsers = {"tab"}
    Dues = {1, 2}
    Keys = {k1, k2}
    RunIds = {1, 2}
    RequestIds = {1, 2}
    Setups <- AllSetups
INVARIANTS
    TypeOK
    MoneyAddsUp
    WorkHolds
PROPERTIES
    HumanWorkStands
    StartingSettles
CHECK_DEADLOCK FALSE
