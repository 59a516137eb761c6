SPECIFICATION Spec
CONSTANTS
    a = a
    b = b
    agent = agent
    clerk = clerk
    k1 = k1
    k2 = k2
    ann = ann
    bob = bob
    pic = pic
    home = home
    other = other
    Customers = {home, other}
    Home = home
    MaxTasks = 2
    MaxAnswers = 2
    Window = 3
    Recheck = 2
    Spots = {m1, m2}
    Conversations = {a, b}
    AgentThreads = {agent, clerk}
    MaxGrants = 3
    MaxRevision = 2
    Tokens = {k1, k2}
    Identity <- ByToken
    Setups <- AllSetups
    MaxMessages = 4
    SourceOf <- BySource
    Images = {pic}
    MessageOf <- ByImage
    MaxBatches = 4
    PageSize = 2
INVARIANTS
    TypeOK
    GrantsApart
    BatchesHold
    RequirementsHold
    AnswersHold
PROPERTIES
    EndedForGood
    VersionsInScope
    WorkEnds
CHECK_DEADLOCK FALSE
