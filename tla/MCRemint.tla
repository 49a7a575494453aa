------------------------------- MODULE MCRemint -------------------------------
(* Two donors of two commits each and a commit of neither; a staged re-mint that *)
(* is right, and one for each way it can be wrong.                               *)
EXTENDS Remint

MCSize      == <<1, 2, 2, 3, 1>>
MCFits      == {1, 2, 4, 5}
MCHashOrder == [id \in (0 .. 2) \X (1 .. 5) |-> (7 * (5 * id[1] + id[2] - 1)) % 15]
MCOldRoot   == <<1, 1, 2, 2, 1>>
MCMinted    == 1 .. 4
MCRealOf    == <<"donor a", "donor a", "donor b", "donor b", "donor a">>

Own      == {<<1, 1>>, <<1, 2>>, <<2, 3>>, <<2, 4>>}
Staged(names, label(_), moved, entries) ==
    [names |-> names, donor |-> [id \in NewIds |-> label(id)], moved |-> moved, ledger |-> entries]
OwnLabel(id)   == id[1]
OneLabel(id)   == 1
OtherLabel(id) == 3 - id[1]
Right == Staged(Own, OwnLabel, {}, Own)

MCStagings ==
    {Right,
     Staged(Own, OtherLabel, {}, Own),                                             \* the labels are crossed
     Staged(Own, OneLabel, {}, Own),                                               \* one label for two donors
     Staged(Own \ {<<2, 4>>}, OwnLabel, {}, Own \ {<<2, 4>>}),                     \* one is missing
     Staged((Own \ {<<1, 1>>}) \cup {<<1, 5>>}, OwnLabel, {},
            (Own \ {<<1, 1>>}) \cup {<<1, 5>>}),                                   \* one is foreign
     Staged(Own, OwnLabel, {3}, Own),                                              \* one checks out another tree
     Staged(Own, OwnLabel, {}, Own \ {<<1, 2>>})}                                  \* one has no evidence
===============================================================================
