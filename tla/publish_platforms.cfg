SPECIFICATION FairSpec
CONSTANTS
    Posts = {p1}
    Platforms = {tt, yt}
    DirectTikTok = {tt}
    ServerErrors = {tt}
    Retrying = {yt}
    AttemptLimit = 2
    CallLimit = 2
    Concurrency = 1
    MaxTime = 2
    MaxEdits = 1
    MaxFaults = 1
    MaxExits = 1
INVARIANTS AtMostOnce NeverEarly StatusBackedByReceipts SentIsCurrent UncertainBlocks
PROPERTIES ImplementsDelivery DuePostsAreTaken
