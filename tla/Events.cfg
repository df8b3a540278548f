SPECIFICATION Spec
CONSTANTS
    EventIds = {e1, e2, e3}
    Requests = {r1}
    Creates = {ca, cb}
    Scans = {sa, sb}
    MaxTrials = 1
    MaxActive = 1
    Seats <- MCSeats
    MaxChanges = 3
    MaxSessions = 2
    NoRequest = NoRequest
    NoEvent = NoEvent
SYMMETRY MCSymmetry

CHECK_DEADLOCK FALSE
INVARIANT
    OneActiveTrial
    RetriesAgree
    TrialWindowHeld
PROPERTY
    SeatsHeld
