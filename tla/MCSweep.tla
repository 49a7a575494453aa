------------------------------ MODULE MCSweep ------------------------------
(* Two tasks that share one pin set. *)
EXTENDS Sweep

CONSTANT pins

MCKeys  == {pins}
MCKeyOf == <<pins, pins>>
=============================================================================
