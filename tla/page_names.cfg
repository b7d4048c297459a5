SPECIFICATION PageSpec
CONSTANTS
    ann = ann
    bob = bob
    h1 = h1
    h2 = h2
    p1 = p1
    p2 = p2
    s1 = s1
    s2 = s2
    s3 = s3
    free = free
    gold = gold
    Owners <- TwoOwners
    Packs = {}
    Old = {}
    TextAs <- Other
    Requests = {}
    Handlers = {}
    Publishers <- TwoRequests
    MaxChanges = 0
    MaxImages = 0
    Limit = 0
    MaxReferences = 0
    MaxRevision = 0
    Slugs <- ThreeNames
    Free = free
    Premium <- OnePremium
    Newer <- OnePremium
    Wishes <- AnyPage
    None = None
    MaxKept = 1
    Period = 1
    MaxTime = 1
PROPERTIES NamesStayTaken StyleIsPaid
SYMMETRY SameNames
CHECK_DEADLOCK FALSE
