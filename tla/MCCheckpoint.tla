---------------------------- MODULE MCCheckpoint ----------------------------
(* A training set with a validation split, one without and an empty one; the same *)
(* run id under both runtimes, and as a probe.                                    *)
EXTENDS Checkpoint

CONSTANTS large, small, empty

MCDatasets  == {large, small, empty}
MCValidated == {large}
MCBarren    == {empty}
Night(d, r) == [selects |-> d, runtime |-> r, probe |-> FALSE]
MCCommands  ==
    {Night(large, "mlx"), Night(small, "mlx"), Night(large, "torch"), Night(empty, "torch"),
     [selects |-> small, runtime |-> "mlx", probe |-> TRUE]}
=============================================================================
