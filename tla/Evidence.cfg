SPECIFICATION Spec
CONSTANTS
    None = None
    Torn = Torn
    n1 = n1
    n2 = n2
    copy = copy
    m1 = m1
    u1 = u1
    c2 = c2
    c1 = c1
    b1 = b1
    b2 = b2
    d1 = d1
    d2 = d2
    h1 = h1
    h2 = h2
    a = a
    Nights = {n1, n2}
    Gates = {n1}
    Copies = {copy}
    Measurements = {m1}
    Dates = {1, 2}
    Checkpoints = {u1, c2, c1}
    Untrained = {u1}
    BaseOf <- MCBaseOf
    MadeBy <- MCMadeBy
    Documents = {d1, d2}
    FirstCut = d1
    Membership <- MCMembers
    Public = {a}
    SheetsOf <- MCSheetsOf
    Sorting <- MCSorting
    Edits <- MCEdits
    RETRY_COUNT = 1
    MaxAccidents = 1
INVARIANTS
    HonestDeltaIsOneExperiment
PROPERTY
    PageIsLastNight
CHECK_DEADLOCK FALSE
