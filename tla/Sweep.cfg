\* Two tasks, a repair each, one interruption anywhere.
SPECIFICATION Spec
CONSTANTS
    N = 2
    Repairs = 1
    MayRaise = TRUE
    MaxKills = 1
    pins = pins
    Keys <- MCKeys
    KeyOf <- MCKeyOf
INVARIANTS
    FaultIsNobodysZero
    RecordsCompare
PROPERTIES
    SweepIsUninterrupted
\* A sweep that is ranked or refused is over.
CHECK_DEADLOCK FALSE
