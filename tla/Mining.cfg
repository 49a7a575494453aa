SPECIFICATION FairSpec
CONSTANTS
    None = None
    Torn = Torn
    base = base
    turning = turning
    flaky = flaky
    outside = outside
    floored = floored
    hidden = hidden
    t1 = t1
    t2 = t2
    Commits <- MCCommits
    Tests <- MCTests
    Nature <- MCNature
    Labels <- MCLabels
    Base <- MCBase
    Offered <- MCOffered
    Limit = 1
    MaxNights = 2
    MaxKills = 1
    MaxCommits = 1
INVARIANTS
    HeldoutStaysOut
    NothingTwice
    DrawnIsLive
    EvidenceAccounts
    LabelsAreOfTheTree
    OwnCodeDecides
PROPERTY NightProceeds
CHECK_DEADLOCK FALSE
