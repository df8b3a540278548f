SPECIFICATION Spec
CONSTANTS
    MaxMedia = 2
    Broken <- MCBroken
    MaxCopies = 1
    Archivers = {a1}
    Batch = 2
    MaxExports = 0
    MaxHappens = 0
CHECK_DEADLOCK FALSE
INVARIANT
    ArchivedIsServed
