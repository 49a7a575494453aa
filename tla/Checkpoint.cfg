SPECIFICATION Spec
CONSTANTS
    None = None
    Cut = Cut
    large = large
    small = small
    empty = empty
    Datasets <- MCDatasets
    Validated <- MCValidated
    Barren <- MCBarren
    Commands <- MCCommands
    Draws = 1
    DrawTicks = 1
    TrainTicks = 1
    Stall = 3
    MaxKills = 1
    MaxHangs = 1
    MaxChanges = 1
INVARIANTS
    VerifiedIsTrained
    LinkIsTrue
    LedgerNamesItsCheckpoint
PROPERTY
    NightEnds
