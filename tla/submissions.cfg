SPECIFICATION Spec
CONSTANTS
    r1 = r1
    r2 = r2
    r3 = r3
    k1 = k1
    p1 = p1
    BASIC = BASIC
    PRO = PRO
    threePlatforms = threePlatforms
    onePlatform = onePlatform
    None = None
    Edited = Edited
    Requests = {r1, r2, r3}
    Keys = {k1}
    KeyOf <- MCKeyOf
    Intents = {threePlatforms, onePlatform}
    IntentOf <- MCIntentOf
    Units <- MCUnits
    Scheduled = {threePlatforms}
    Plans = {BASIC, PRO}
    Basic = BASIC
    PlanLimit <- MCPlanLimit
    Packs = {p1}
    PackUnits = 1
    MaxMonth = 1
    MaxChanges = 2
    MaxFaults = 1
INVARIANTS
    WithinLimit
    HandedOnce
    AcceptedStays
SYMMETRY Retries
CHECK_DEADLOCK FALSE
