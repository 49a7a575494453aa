------------------------------ MODULE Storage -------------------------------
(* What stands at a path, or for a value that may be missing: nothing, or a  *)
(* file no reader takes.                                                     *)
CONSTANTS
    None,
    Torn    \* its write was cut short, or its seal broken by an edit
=============================================================================
