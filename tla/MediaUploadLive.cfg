SPECIFICATION FairSpec
CONSTANTS
    u1 = u1
    u2 = u2
    MaxMedia = 2
    MaxFileBytes = 2
    ClientUploads = {u1, u2}
    File <- MCSamePhoto
    MixedCase = {u2}
    Requests = {ra}
    Plans <- MCOnePlan
    EnforceItems = TRUE
    LegacyEventBytes = 4
    StaleBatch = 2
    Stuck = {1}
    NoUpload = NoUpload
CHECK_DEADLOCK FALSE
PROPERTY
    AbandonedReleased
