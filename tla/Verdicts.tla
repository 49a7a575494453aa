------------------------------ MODULE Verdicts ------------------------------
(***************************************************************************)
(* The statuses of the reward and how sub-verdicts fold into one           *)
(* (verify/verdict.py), and how a finished pytest run is judged            *)
(* (verify/strict.py, `_run_and_judge` from the report on).                *)
(***************************************************************************)
EXTENDS Integers, Sequences, FiniteSets

Statuses == {"PASS", "WARN", "UNVERIFIED", "FAIL"}

Rank == [s \in Statuses |->
            CASE s = "PASS" -> 0 [] s = "WARN" -> 1 [] s = "UNVERIFIED" -> 2 [] OTHER -> 3]

\* `reduce`: worst status wins, NOT_COVERED set apart, nothing scored is UNVERIFIED.
Reduce(found) ==
    LET scored == found \ {"NOT_COVERED"}
    IN  IF scored = {} THEN "UNVERIFIED"
        ELSE CHOOSE s \in scored : \A o \in scored : Rank[o] <= Rank[s]

-----------------------------------------------------------------------------
(* A report is the sequence of its cases, [id, outcome]. *)

CaseOutcomes == {"passed", "failed", "skipped", "error"}

Executed(cases) == {cases[i].id : i \in DOMAIN cases}

\* `outcomes`: a node id reported more than once keeps its last outcome.
OutcomeOf(cases, id) ==
    IF id \notin Executed(cases) THEN "absent"
    ELSE LET last == CHOOSE i \in DOMAIN cases :
                        /\ cases[i].id = id
                        /\ \A j \in DOMAIN cases : cases[j].id = id => j <= i
         IN  cases[last].outcome

ExitStatus(rc) == CASE rc = 0 -> "PASS" [] rc = 1 -> "FAIL" [] OTHER -> "UNVERIFIED"

SkippedCount(cases) ==
    IF \E i \in DOMAIN cases : cases[i].outcome = "skipped" THEN "FAIL" ELSE "PASS"

\* Mutant of ExecutedSet: set equality without the count.
ExecutedSetUncounted(cases, declared) ==
    IF Executed(cases) = declared THEN "PASS" ELSE "FAIL"

\* Set equality, plus a count.
ExecutedSet(cases, declared) ==
    IF Executed(cases) = declared /\ Len(cases) = Cardinality(declared)
      THEN "PASS" ELSE "FAIL"

FailToPassStatus(cases, failToPass) ==
    IF \A id \in failToPass : OutcomeOf(cases, id) = "passed" THEN "PASS" ELSE "FAIL"

\* The four sub-verdicts of a readable report.
Judgement(rc, cases, failToPass, declared) ==
    << [kind |-> "pytest",       status |-> ExitStatus(rc)],
       [kind |-> "skipped",      status |-> SkippedCount(cases)],
       [kind |-> "executed-set", status |-> ExecutedSet(cases, declared)],
       [kind |-> "fail-to-pass", status |-> FailToPassStatus(cases, failToPass)] >>

\* Mutant of NoReport: the exit status stands alone.
ExitStatusAlone(rc) == << [kind |-> "pytest", status |-> ExitStatus(rc)] >>

\* The two of an unreadable one.
NoReport(rc) == << [kind |-> "pytest", status |-> ExitStatus(rc)],
                   [kind |-> "report", status |-> "UNVERIFIED"] >>

Only(kind, status) == << [kind |-> kind, status |-> status] >>

StatusOf(verdicts) == Reduce({verdicts[i].status : i \in DOMAIN verdicts})
Kinds(verdicts) == [i \in DOMAIN verdicts |-> verdicts[i].kind]

-----------------------------------------------------------------------------
(* What STRICT may answer: the interface its callers are modelled against. *)

Answer(status, kinds) == [status |-> status, kinds |-> kinds]

Faulted == {Answer("UNVERIFIED", <<"checkout">>), Answer("UNVERIFIED", <<"task-blobs">>),
            Answer("UNVERIFIED", <<"sandbox-run">>)}
Refused == {Answer("FAIL", <<"patch-apply">>), Answer("FAIL", <<"patch-scope">>)}
Ran     == {Answer(s, <<"pytest", "skipped", "executed-set", "fail-to-pass">>) :
               s \in {"PASS", "FAIL", "UNVERIFIED"}}
Unread  == {Answer(s, <<"pytest", "report">>) : s \in {"FAIL", "UNVERIFIED"}}

StrictAnswers == Faulted \cup Refused \cup Ran \cup Unread
=============================================================================
