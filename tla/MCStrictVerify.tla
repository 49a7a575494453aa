---------------------------- MODULE MCStrictVerify ----------------------------
(* One failing test to fix, one to keep, one nobody declared; one held path,  *)
(* its other spelling, and one source file.                                   *)
EXTENDS StrictVerify

CONSTANTS broken, kept, extra, test, TEST, src

MCFailToPass == {broken}
MCPassToPass == {kept}
MCOthers     == {extra}
MCHeld       == {test}
MCSpelled    == {TEST}
MCSources    == {src}
MCExitCodes  == {0, 1, 2}
===============================================================================
