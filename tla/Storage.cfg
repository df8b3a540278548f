SPECIFICATION FairSpec
CONSTANTS
    MaxMedia = 2
    Broken <- MCBroken
    MaxCopies = 3
    Archivers = {a1, a2}
    Batch = 2
    MaxExports = 1
    MaxHappens = 2
CHECK_DEADLOCK FALSE
INVARIANTS
    TypeOK
    NothingLost
    DanglingIsPending
    PurgedNotOffered
PROPERTIES
    PurgeLeavesNothing
    OthersArchived
