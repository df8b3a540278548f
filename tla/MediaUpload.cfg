SPECIFICATION Spec
CONSTANTS
    u1 = u1
    u2 = u2
    MaxMedia = 2
    MaxFileBytes = 2
    ClientUploads = {u1, u2}
    File <- MCPhotoVideo
    MixedCase = {u2}
    Requests = {ra, rb}
    Plans <- MCPlans
    EnforceItems = TRUE
    LegacyEventBytes = 4
    StaleBatch = 2
    Stuck = {}
    NoUpload = NoUpload
CONSTRAINT MCRacesOrPlans
SYMMETRY MCSymmetry
CHECK_DEADLOCK FALSE
INVARIANTS
    CountersMatchRows
    LimitsHeld
    ThumbnailOwed
    OneRowPerClientUpload
PROPERTY
    DeletedIsFinal
