----------------------------- MODULE NightRecord -----------------------------
(***************************************************************************)
(* What a night promises, with no process in it and nothing to kill: draws *)
(* settle one after another in the night's order, each once and for good,  *)
(* all draws of a task under one control; and what is published is decided *)
(* by the settled record alone.  bakeoff/journal.py: "a resumed run        *)
(* produces the record set an uninterrupted run would have produced".      *)
(***************************************************************************)
EXTENDS Naturals

CONSTANTS N, K, Sources, SourceOf, Controls, Outcomes

VARIABLES
    settled,    \* [1..K -> [1..N -> outcome or "absent"]]
    probe,      \* [1..N -> control or "absent"]
    published   \* the <<attempt, task>> trained on, or {<<0, 0>>} before the ledger

rvars == <<settled, probe, published>>

Unpublished == {<<0, 0>>}

RInit ==
    /\ settled = [a \in 1 .. K |-> [t \in 1 .. N |-> "absent"]]
    /\ probe = [t \in 1 .. N |-> "absent"]
    /\ published = Unpublished

\* Task by task, and within a task attempt by attempt.
Earlier(b, u, a, t) == u < t \/ (u = t /\ b < a)

Settle(a, t) ==
    /\ published = Unpublished
    /\ settled[a][t] = "absent"
    /\ \A b \in 1 .. K, u \in 1 .. N : Earlier(b, u, a, t) => settled[b][u] # "absent"
    /\ \E o \in Outcomes : settled' = [settled EXCEPT ![a][t] = o]
    /\ IF probe[t] = "absent"
         THEN \E c \in Controls : probe' = [probe EXCEPT ![t] = c]
         ELSE UNCHANGED probe
    /\ UNCHANGED published

Proven(source) ==
    LET here == {t \in 1 .. N : SourceOf[t] = source}
    IN  /\ \A t \in here : probe[t] # "BROKEN"
        /\ \E t \in here : probe[t] = "INTACT"

PublishRecord ==
    /\ published = Unpublished
    /\ \A a \in 1 .. K, t \in 1 .. N : settled[a][t] # "absent"
    /\ \A s \in Sources : Proven(s)
    /\ published' = {d \in (1 .. K) \X (1 .. N) : settled[d[1]][d[2]] = "SOLVED"}
    /\ UNCHANGED <<settled, probe>>

RNext == (\E a \in 1 .. K, t \in 1 .. N : Settle(a, t)) \/ PublishRecord

RSpec == RInit /\ [][RNext]_rvars
==============================================================================
