SPECIFICATION Spec
CONSTANTS
    Plans <- MCPlans
    EventIds <- MCEventIds
    OldEvents <- MCOldEvents
    Dates <- MCDates
    Tickets = {t1}
    MaxPurchases = 2
    MaxTime = 1
    MaxChanges = 2
    LegacyBytes = 5
INVARIANTS
    RowFollowsGrant
    NeverBelowFirst
    NeverBelowPrice
PROPERTIES
    StackDiscipline
CHECK_DEADLOCK FALSE
