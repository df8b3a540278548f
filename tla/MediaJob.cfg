SPECIFICATION FairSpec
CONSTANTS
    m1 = m1
    m2 = m2
    Media = {m1, m2}
    Undecodable = {m1}
    Workers = {wa, wb}
    Concurrency = 1
    MaxAttempts = 2
    StreamFails = FALSE

CHECK_DEADLOCK FALSE
INVARIANTS
    OneRunner
    AttemptsSpent
    ReadyMeansStored
PROPERTY
    JobSettled
