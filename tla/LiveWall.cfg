SPECIFICATION FairSpec
CONSTANTS
    h = h
    g = g
    p = p
    ra = ra
    rb = rb
    Conns = {h, g, p}
    Role <- MCRole
    MaxTopics = 2
    Buffer = 1
    MaxPerEvent = 2
    Casts <- MCCasts
    NoTopic = NoTopic
    Remotes = {ra, rb}
    Transitions = {"classic", "cinematic"}
    Included <- MCIncluded
    Anything = Anything
CHECK_DEADLOCK FALSE
INVARIANTS
    TypeOK
    SendsAreSafe
    GapsAreTold
    IdleCancelled
PROPERTIES
    SilentOnJoinOnly
    NoLostUpdate
    ShutdownFrees
