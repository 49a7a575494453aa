\* Every patch over three paths, every report of up to three cases.
SPECIFICATION VerifySpec
CONSTANTS
    broken = broken
    kept = kept
    extra = extra
    test = test
    TEST = TEST
    src = src
    FailToPass <- MCFailToPass
    PassToPass <- MCPassToPass
    Others <- MCOthers
    Held <- MCHeld
    Spelled <- MCSpelled
    Sources <- MCSources
    ExitCodes <- MCExitCodes
    MaxCases = 3
INVARIANTS
    PassIsEarned
    AnswersInContract
\* A call that has answered is over.
CHECK_DEADLOCK FALSE
