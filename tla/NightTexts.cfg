\* Retries, repairs, skipped draws and torn writes: what the night trains on.
SPECIFICATION Spec
CONSTANTS
    N = 2
    K = 1
    Budget = 2
    Repairs = 2
    MaxKills = 2
    MaySkip = TRUE
    TornWrites = TRUE
    good = good
    wrong = wrong
    cut = cut
    SourceOf <- MCSourceOf
    PosedAs <- MCOwnPrompts
    Completions <- MCAll
    Triggering <- MCCut
    NoDiff <- MCCut
    Passing <- MCPassing
INVARIANTS
    WinsAreTrainable
\* A night with its ledger written is over.
CHECK_DEADLOCK FALSE
