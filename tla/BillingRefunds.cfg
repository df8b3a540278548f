SPECIFICATION Spec
CONSTANTS
    k1 = k1
    k2 = k2
    paid1 = paid1
    failed1 = failed1
    canceled1 = canceled1
    refund1 = refund1
    second1 = second1
    dispute1 = dispute1
    won1 = won1
    paid2 = paid2
    wrong2 = wrong2
    NoKey = NoKey
    NoNote = NoNote
    Keys = {k1}
    Notes = {paid1, refund1, second1}
    Mismatched = {}
    Rank <- MCRank
    Total <- MCTotal
    Note <- MCNote
    Checkouts = {ca}
    Deliveries = {da, db}
    EarlyDelivery = FALSE
    MaxFailures = 0
    MaxStops = 0
SYMMETRY MCSymmetry

CHECK_DEADLOCK FALSE
INVARIANT
    RefundsCounted
