---------------------------- MODULE MCNightDraws ----------------------------
(* The small nights TLC runs: two tasks, one of each source, and three     *)
(* completions, one of each kind the night tells apart.                    *)
EXTENDS NightDraws

CONSTANTS good, wrong, cut

MCSourceOf    == <<"private", "public">>
MCOwnPrompts  == <<1, 2>>
MCGoodOrCut   == {good, cut}
MCAll         == {good, wrong, cut}
MCCut         == {cut}
MCPassing     == {<<1, good>>, <<2, good>>}
=============================================================================
