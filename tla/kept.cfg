SPECIFICATION MCSpec
CONSTANTS
    ann = ann
    bob = bob
    h1 = h1
    h2 = h2
    p1 = p1
    p2 = p2
    s1 = s1
    s2 = s2
    s3 = s3
    free = free
    gold = gold
    Owners <- TwoOwners
    Packs <- TwoPacks
    Old <- OnePack
    TextAs <- Other
    Requests <- TwoRequests
    Handlers <- TwoRequests
    Publishers = {}
    MaxChanges = 3
    MaxImages = 2
    Limit = 2
    MaxReferences = 2
    MaxRevision = 2
    Slugs = {}
    Free = free
    Premium = {}
    Newer = {}
    Wishes = {}
    None = None
    MaxKept = 0
    Period = 0
    MaxTime = 0
INVARIANTS PacksAreAccounted KeptImagesStay
SYMMETRY SameRequests
CHECK_DEADLOCK FALSE
