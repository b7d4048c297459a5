SPECIFICATION Spec
CONSTANTS
    ann = ann
    bob = bob
    h1 = h1
    h2 = h2
    Owners <- TwoOwners
    Plans <- ProAndBusiness
    OneTier = TRUE
    Handlers <- TwoHandlers
    MaxClock = 3
    MaxExtras = 1
INVARIANTS NewestStands SettledIsPaid
PROPERTIES SourceEndsFirst
SYMMETRY Symmetric
CHECK_DEADLOCK FALSE
