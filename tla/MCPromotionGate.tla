--------------------------- MODULE MCPromotionGate ---------------------------
(* Three tasks, each with its own prompt; a checkpoint of every kind the gate  *)
(* tells apart.                                                                *)
EXTENDS PromotionGate

CONSTANTS good, bad

MCPrompts   == 1 .. 3
MCPromptOf  == [t \in 1 .. 3 |-> t]
MCPassing   == (1 .. 3) \X {good}
MCCheckpoints ==
    [verifies : BOOLEAN, untrained : BOOLEAN, backend : {"mlx", "torch", "none"},
     dataset : {"recorded", "missing"}, base : {"fetched", "absent", "unnamed"}]
MCInputs    == [heldout : {"read", "unreadable", "unknown id"}, weights : {"verified", "unverified"},
                candidate : MCCheckpoints, incumbent : MCCheckpoints]
==============================================================================
