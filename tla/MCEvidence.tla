----------------------------- MODULE MCEvidence -----------------------------
(* Two nights, the first of which trains a checkpoint; the untrained checkpoints of two bases, and *)
(* two held-out documents that share a task.  The first base games one task and never verifies the *)
(* other; the night on it solves both, one of them on a retry.                                    *)
EXTENDS Evidence

CONSTANTS n1, n2, copy, m1, u1, c2, c1, b1, b2, d1, d2, h1, h2, a

MCBaseOf   == [c \in {u1, c2, c1} |-> IF c \in {u1, c1} THEN b1 ELSE b2]
MCMadeBy   == [n \in {n1, n2} |-> IF n = n1 THEN c1 ELSE c2]
MCMembers  == [d \in {d1, d2} |-> IF d = d1 THEN {h1, h2} ELSE {h1}]

\* The copy's name sorts between the two nights'.
MCSorting    == [d \in {n1, n2, copy, m1} |-> CASE d = n1 -> 1 [] d = copy -> 2 [] d = n2 -> 3 [] OTHER -> 4]

\* One solved more, of one task more or of as many.
MCEdits    == {[f \in Fields |-> IF f \in more THEN 1 ELSE 0] : more \in {{"solved"}, {"solved", "denominator"}}}

V(outcome, strict, weak) == [outcome |-> outcome, strict |-> strict, weak |-> weak]
Solved == <<V("SOLVED", "PASS", "PASS")>>
Gamed  == <<V("NOT_SOLVED", "FAIL", "PASS")>>
Fault  == <<V("UNVERIFIED", "UNVERIFIED", "PASS"), V("UNVERIFIED", "UNVERIFIED", "FAIL")>>
Late   == <<V("UNVERIFIED", "UNVERIFIED", "PASS"), V("SOLVED", "PASS", "PASS")>>
Sheet(x, y) == [t \in {h1, h2, a} |-> CASE t = h1 -> x [] t = h2 -> y [] OTHER -> Gamed]
MCSheetsOf == [c \in {u1, c2, c1} |->
    CASE c = u1 -> {Sheet(Gamed, Fault)} [] c = c1 -> {Sheet(Solved, Late)}
      [] c = c2 -> {Sheet(Gamed, Gamed)}]
=============================================================================
