SPECIFICATION MCSpec
CONSTANTS
    a1 = a1
    a2 = a2
    h1 = h1
    h2 = h2
    Kinds <- EveryKind
    MaxPolls = 2
    MaxRows = 2
    Accounts <- TwoAccounts
    Linked = {a2}
    Requests <- TwoRequests
    ReusesIds = TRUE
    MaxConnects = 2
    MaxIds = 0
    MaxFaults = 1
    MaxExits = 1
INVARIANTS OutcomeIsTrue SentWhereMeant NewestCanComplete
PROPERTIES LinksFollowPostPeer
SYMMETRY Symmetric
