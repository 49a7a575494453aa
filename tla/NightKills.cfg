\* Kills between writes: what a resumed night keeps, and that it ends.
SPECIFICATION FairSpec
CONSTANTS
    N = 2
    K = 2
    Budget = 1
    Repairs = 0
    MaxKills = 2
    MaySkip = FALSE
    TornWrites = FALSE
    good = good
    wrong = wrong
    cut = cut
    SourceOf <- MCSourceOf
    PosedAs <- MCOwnPrompts
    Completions <- MCGoodOrCut
    Triggering <- MCCut
    NoDiff <- MCCut
    Passing <- MCPassing
INVARIANTS
    OneControlPerTask
    LedgerIsSound
PROPERTIES
    CompletedDrawsKept
    RecordIsUninterrupted
    NightEnds
\* A night with its ledger written is over.
CHECK_DEADLOCK FALSE
