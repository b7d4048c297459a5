SPECIFICATION FairSpec
CONSTANTS
    r1 = r1
    t1 = t1
    t2 = t2
    d1 = d1
    d2 = d2
    Owners = {1, 2}
    Requests = {r1}
    Transfers = {t1, t2}
    Deletions = {d1, d2}
    OwnersOf <- MCOwnersOf
INVARIANTS CheckedStaysActive
PROPERTIES EveryAskIsGranted
