SPECIFICATION Spec
CONSTANTS
    R = 2
    C = 5
    Size <- MCSize
    Fits <- MCFits
    HashOrder <- MCHashOrder
    HELDOUT_BANDS = 2
    MIN_HELDOUT = 2
    MIN_PER_BAND = 1
    OldRoot <- MCOldRoot
    Minted <- MCMinted
    RealOf <- MCRealOf
    Stagings <- MCStagings
    MaxUnmeasured = 1
    MaxKills = 1
INVARIANTS
    Reversible
    FinishedIsWhole
    OwnDonor
    NightDisjoint
    LeakIsFound
    WhatIsComposedIsRead
