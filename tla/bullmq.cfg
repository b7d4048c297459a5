SPECIFICATION QueueSpec
CONSTANTS
    MaxTime = 2
    MaxEdits = 0
    Attempts = 2
    StallLimit = 1
    MaxPosts = 1
    QueueFaults = 1
    QueueExits = 1
PROPERTIES QueueImplementsDelivery QueuedIsTaken QueueKeepsEvidence
CHECK_DEADLOCK FALSE
