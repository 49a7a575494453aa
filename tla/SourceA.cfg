SPECIFICATION Spec
CONSTANTS
    None = None
    Torn = Torn
    sound = sound
    bare = bare
    wide = wide
    cut = cut
    gone = gone
    t1 = t1
    t2 = t2
    t3 = t3
    Rows <- MCRows
    Tests <- MCTests
    Facts <- MCFacts
    WellFormed = {t1, t2}
    Era = {sound, wide, gone}
    Truncated = {cut}
    Editions <- MCEditions
    Place <- MCPlace
    PageSize = 2
    MaxRows = 4
    DrawSize = 2
    MaxRuns = 3
    MaxEditions = 1
INVARIANTS
    PoolIsTheDataset
    CorpusIsProved
    LedgerAccounts
CHECK_DEADLOCK FALSE
