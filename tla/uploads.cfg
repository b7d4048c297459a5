SPECIFICATION FairSpec
CONSTANTS
    None = None
    Sessions = {s1}
    Calls = {c1, c2}
    OpenLimit = 1
    Lifetime = 1
    Grace = 1
    Drain = 1
    SweepLimit = 1
    MaxTime = 3
    MaxFaults = 2
    MaxExits = 1
INVARIANTS
    CompletionKeepsUpload
    DeletedLeavesNothing
PROPERTIES
    AbandonedIsSwept
CHECK_DEADLOCK FALSE
