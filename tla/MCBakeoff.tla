----------------------------- MODULE MCBakeoff ------------------------------
(* Two private tasks of one donor and a public instance; bases of two sizes, and one whose name     *)
(* declares none.  p1's fix renames a file, p2's is in the band and also changes a test; a1's gold  *)
(* patch moves between the editions of the pool.  The stratum's documents: the one of the corpus,   *)
(* one of a wider corpus, one with a refusal, one of another rule, and four edited by hand.         *)
EXTENDS Bakeoff

CONSTANTS small, large, unsized, p1, p2, a1, donor, other, site, x, y, z, t1, stranger, shard, config

MCCandidates == <<large, small, unsized>>
MCSize       == (small :> 1) @@ (large :> 7) @@ (unsized :> None)
MCPrivate    == <<p1, p2>>
MCPublic     == <<a1>>

File(n) == [bytes |-> n, chars |-> n]
MCFact  ==
    (p1 :> [repo |-> donor, mined |-> TRUE, commit |-> {<<"R", x, y>>}, held |-> {t1},
            instance |-> None, tree |-> (x :> File(2)),
            diff |-> <<"diff --git", "@@", "-", "+">>]) @@
    (p2 :> [repo |-> donor, mined |-> TRUE, commit |-> {<<"M", x>>, <<"M", t1>>}, held |-> {},
            instance |-> None, tree |-> (x :> File(3)) @@ (t1 :> File(1)),
            diff |-> <<"diff --git", "---", "+++", "@@", "-", "+",
                       "diff --git", "GIT binary patch", "+", "+">>]) @@
    (a1 :> [repo |-> site, mined |-> FALSE, commit |-> {}, held |-> {t1}, instance |-> a1,
            tree |-> (x :> File(1)) @@ (y :> [bytes |-> 9, chars |-> None]) @@ (z :> File(4)), diff |-> <<>>]) @@
    (stranger :> [repo |-> other, mined |-> TRUE, commit |-> {<<"M", y>>}, held |-> {},
            instance |-> None, tree |-> (y :> File(1)), diff |-> <<"diff --git", "@@", "+">>])
MCPools == {a1 :> {x, y}, a1 :> {x, t1, z}}

V(outcome, strict, weak) == [outcome |-> outcome, strict |-> strict, weak |-> weak]
A(control, verdict)      == [control |-> control, verdict |-> verdict]
Solves     == A("INTACT", V("SOLVED", "PASS", "PASS"))
Games      == A("INTACT", V("NOT_SOLVED", "FAIL", "PASS"))
Broken     == A("BROKEN", V("NOT_SOLVED", "FAIL", "FAIL"))
NoMachine  == A("SKIPPED", V("UNPROVISIONED", "UNVERIFIED", "UNVERIFIED"))
MCAnswers  ==
    (large :> ((p1 :> {Solves, Games}) @@ (p2 :> {Solves, NoMachine}) @@ (a1 :> {Games, Broken}))) @@
    (small :> ((p1 :> {Games}) @@ (p2 :> {Solves, NoMachine}) @@ (a1 :> {Solves}))) @@
    (unsized :> ((p1 :> {Solves}) @@ (p2 :> {Solves}) @@ (a1 :> {Games})))
MCDevSubsets == {{}, {p2}, {stranger}}

Over(band, ids, read) == ComposeDocument(band, ids, MCFact, read)
Committed == Over(BAND, MCPrivate, {donor})
Narrower  == [BAND EXCEPT !.lines = 3]
Wider     == <<p1, p2, stranger>>
MCBands   == {BAND, Narrower}
MCCorpora == {MCPrivate, Wider}
MCStrata  ==
    {Committed, Over(BAND, Wider, {donor, other}), Over(BAND, Wider, {donor}),
     Over(Narrower, MCPrivate, {donor}),
     [Committed EXCEPT !.membership = <<p1>>], [Committed EXCEPT !.membership = <<p2, p2>>],
     [Committed EXCEPT !.difficulty[p1].files = 1], [easier |-> TRUE] @@ Committed}

Fetched     == (config :> 1) @@ (shard :> 2)
MCRecorded == [c \in {large, small, unsized} |-> Fetched]
MCDisks    == {MCRecorded, [MCRecorded EXCEPT ![small] = (config :> 1) @@ (shard :> 1)]}

MCOnlys      == {{small, large}, {unsized}}
MCProbes     == {None, 1}
MCFunnels    == {<<a1>>}
MCRecordedOns == {1, None}
=============================================================================
