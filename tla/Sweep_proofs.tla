---------------------------- MODULE Sweep_proofs ----------------------------
(***************************************************************************)
(* The judge, and the sweep that calls it.  For every task, patch, report  *)
(* and exit status: a PASS of STRICT is earned, what the machine did is    *)
(* never charged to the patch, and every answer is one the sweep is        *)
(* modelled against.  For every task set, pin sets, number of repairs and  *)
(* interruptions: what a sweep records of a task is what was established   *)
(* about it, and the journal it leaves is that of a sweep nothing          *)
(* interrupted (NightRecord, step by step).                                *)
(***************************************************************************)
EXTENDS StrictVerify, Sweep, FiniteSetTheorems, SequenceTheorems, TLAPS

-----------------------------------------------------------------------------
(* `reduce`. *)

\* Whatever is scored has a worst status.
LEMMA WorstExists ==
    ASSUME NEW scored, scored \subseteq Statuses, scored # {}
    PROVE  \E s \in scored : \A o \in scored : Rank[o] <= Rank[s]
<1>1. CASE "FAIL" \in scored
  BY <1>1 DEF Rank, Statuses
<1>2. CASE "FAIL" \notin scored /\ "UNVERIFIED" \in scored
  BY <1>2 DEF Rank, Statuses
<1>3. CASE "FAIL" \notin scored /\ "UNVERIFIED" \notin scored /\ "WARN" \in scored
  BY <1>3 DEF Rank, Statuses
<1>4. CASE scored = {"PASS"}
  BY <1>4 DEF Rank, Statuses
<1> QED
  BY <1>1, <1>2, <1>3, <1>4 DEF Statuses

\* A fold passes exactly when something was scored and all of it passed; a FAIL
\* among the sub-verdicts is never outranked, and a task is never NOT_COVERED.
THEOREM ReduceWorst ==
    ASSUME NEW found, found \subseteq Statuses \cup {"NOT_COVERED"}
    PROVE  /\ Reduce(found) \in Statuses
           /\ Reduce(found) = "PASS" <=> found \ {"NOT_COVERED"} = {"PASS"}
           /\ Reduce(found) = "FAIL" <=> "FAIL" \in found
           /\ Reduce(found) \in {"PASS", "WARN"} => "UNVERIFIED" \notin found
<1> DEFINE scored == found \ {"NOT_COVERED"}
<1>1. scored \subseteq Statuses
  OBVIOUS
<1>2. CASE scored = {}
  BY <1>2 DEF Reduce, Statuses
<1>3. CASE scored # {}
  <2>1. /\ Reduce(found) \in scored
        /\ \A o \in scored : Rank[o] <= Rank[Reduce(found)]
    BY <1>1, <1>3, WorstExists DEF Reduce
  <2>2. Reduce(found) \in Statuses
    BY <1>1, <2>1
  <2>3. \A s, o \in Statuses : Rank[o] <= Rank[s] =>
            /\ s = "PASS" => o = "PASS"
            /\ o = "FAIL" => s = "FAIL"
            /\ o = "UNVERIFIED" => s \in {"UNVERIFIED", "FAIL"}
    BY DEF Rank, Statuses
  <2>4. "FAIL" \in found => Reduce(found) = "FAIL"
    BY <1>1, <2>1, <2>2, <2>3 DEF Statuses
  <2>5. Reduce(found) = "PASS" => scored = {"PASS"}
    BY <1>1, <2>1, <2>2, <2>3
  <2>6. "UNVERIFIED" \in found => Reduce(found) \in {"UNVERIFIED", "FAIL"}
    BY <1>1, <2>1, <2>2, <2>3 DEF Statuses
  <2> QED
    BY <2>1, <2>2, <2>4, <2>5, <2>6 DEF Statuses
<1> QED
  BY <1>2, <1>3

LEMMA OneVerdict ==
    ASSUME NEW kind, NEW status \in Statuses
    PROVE  StatusOf(Only(kind, status)) = status /\ Kinds(Only(kind, status)) = <<kind>>
<1>1. {Only(kind, status)[i].status : i \in DOMAIN Only(kind, status)} = {status}
  BY DEF Only
<1>2. Reduce({status}) = status
  <2>1. {status} \subseteq Statuses \cup {"NOT_COVERED"} /\ status # "NOT_COVERED"
    BY DEF Statuses
  <2> QED
    BY <2>1 DEF Reduce
<1>3. StatusOf(Only(kind, status)) = status
  BY <1>1, <1>2 DEF StatusOf
<1>4. Kinds(Only(kind, status)) = <<kind>>
  BY DEF Kinds, Only
<1> QED
  BY <1>3, <1>4

-----------------------------------------------------------------------------
(* The judgement of a report. *)

\* As many cases as declared ids, and the same ids: each is reported exactly once.
LEMMA ReportedOnce ==
    ASSUME NEW declared, IsFiniteSet(declared), NEW C, NEW cases \in Seq(C),
           Executed(cases) = declared, Len(cases) = Cardinality(declared)
    PROVE  \A i, j \in DOMAIN cases : cases[i].id = cases[j].id => i = j
<1> DEFINE f == [i \in 1 .. Len(cases) |-> cases[i].id]
<1>1. DOMAIN cases = 1 .. Len(cases) /\ Len(cases) \in Nat
  OBVIOUS
<1>2. f \in Surjection(1 .. Len(cases), declared)
  BY <1>1 DEF Surjection, Executed
<1>3. IsFiniteSet(1 .. Len(cases)) /\ Cardinality(1 .. Len(cases)) = Len(cases)
  BY <1>1, FS_Interval
<1>4. f \in Injection(1 .. Len(cases), declared)
  BY <1>2, <1>3, FS_SurjSameCardinalityImpliesInj
<1> QED
  BY <1>1, <1>4 DEF Injection, IsInjective

\* What a judged run must have been to pass.
LEMMA JudgementPasses ==
    ASSUME NEW rc \in Int, NEW C, NEW cases \in Seq(C), NEW f2p, NEW declared,
           f2p \subseteq declared, IsFiniteSet(declared),
           StatusOf(Judgement(rc, cases, f2p, declared)) = "PASS"
    PROVE  /\ rc = 0
           /\ \A i \in DOMAIN cases : cases[i].id \in declared /\ cases[i].outcome # "skipped"
           /\ \A id \in declared : \E i \in DOMAIN cases :
                 /\ cases[i].id = id
                 /\ id \in f2p => cases[i].outcome = "passed"
                 /\ \A j \in DOMAIN cases : cases[j].id = id => j = i
<1> DEFINE v == Judgement(rc, cases, f2p, declared)
           found == {v[i].status : i \in DOMAIN v}
<1>1. found = {ExitStatus(rc), SkippedCount(cases), ExecutedSet(cases, declared),
               FailToPassStatus(cases, f2p)}
  BY DEF Judgement
<1> HIDE DEF found
<1>2. found \subseteq Statuses
  BY <1>1 DEF ExitStatus, SkippedCount, ExecutedSet, FailToPassStatus, Statuses
<1>3. found = {"PASS"}
  <2>1. "NOT_COVERED" \notin found
    BY <1>2 DEF Statuses
  <2>2. Reduce(found) = "PASS"
    BY DEF StatusOf, found
  <2> QED
    BY <1>2, <2>1, <2>2, ReduceWorst
<1>4. rc = 0
  <2>1. ExitStatus(rc) \in found
    BY <1>1
  <2>2. ExitStatus(rc) = "PASS"
    BY <1>3, <2>1
  <2> QED
    BY <2>2 DEF ExitStatus
<1>5. \A i \in DOMAIN cases : cases[i].outcome # "skipped"
  <2>1. SkippedCount(cases) \in found
    BY <1>1
  <2>2. SkippedCount(cases) = "PASS"
    BY <1>3, <2>1
  <2> QED
    BY <2>2 DEF SkippedCount
<1>6. Executed(cases) = declared /\ Len(cases) = Cardinality(declared)
  BY <1>1, <1>3 DEF ExecutedSet
<1>7. \A i, j \in DOMAIN cases : cases[i].id = cases[j].id => i = j
  BY <1>6, ReportedOnce
<1>8. \A id \in f2p : OutcomeOf(cases, id) = "passed"
  <2>1. FailToPassStatus(cases, f2p) \in found
    BY <1>1
  <2>2. FailToPassStatus(cases, f2p) = "PASS"
    BY <1>3, <2>1
  <2> QED
    BY <2>2 DEF FailToPassStatus
<1>9. ASSUME NEW id \in declared
      PROVE  \E i \in DOMAIN cases :
                /\ cases[i].id = id
                /\ id \in f2p => cases[i].outcome = "passed"
                /\ \A j \in DOMAIN cases : cases[j].id = id => j = i
  <2>1. PICK i \in DOMAIN cases : cases[i].id = id
    BY <1>6 DEF Executed
  <2>2. \A j \in DOMAIN cases : cases[j].id = id => j = i
    BY <1>7, <2>1
  <2>3. i <= i
    OBVIOUS
  <2>4. OutcomeOf(cases, id) = cases[i].outcome
    <3> DEFINE Last(k) == cases[k].id = id /\ \A j \in DOMAIN cases : cases[j].id = id => j <= k
    <3>1. Last(i)
      BY <2>1, <2>2, <2>3
    <3>2. \A k \in DOMAIN cases : Last(k) => k = i
      BY <2>2
    <3>3. (CHOOSE k \in DOMAIN cases : Last(k)) = i
      BY <2>1, <3>1, <3>2
    <3> QED
      BY <1>6, <2>1, <3>3 DEF OutcomeOf, Executed
  <2> QED
    BY <1>8, <2>1, <2>2, <2>4
<1>10. \A i \in DOMAIN cases : cases[i].id \in declared
  BY <1>6 DEF Executed
<1> QED
  BY <1>4, <1>5, <1>9, <1>10
-----------------------------------------------------------------------------
(* One call. *)

\* What each step of a call knows of the patch and the tree.
CallInv ==
    /\ stage \in Stages
    /\ patch.changes \subseteq Paths
    /\ tree \in [Paths -> {"base", "patched", "golden"}]
    /\ stage \in {"checkout", "blobs", "declared", "apply"} => tree = [p \in Paths |-> "base"]
    /\ stage = "touched" => \A p \in Paths : tree[p] = "patched" <=> p \in patch.changes
    /\ stage \in {"restore", "run", "judge"} => patch.changes \cap (Held \cup Spelled) = {}
    /\ stage \in {"run", "judge"} => \A p \in Held : tree[p] = "golden"
    /\ stage = "judge" => run.rc \in Int /\ run.readable \in BOOLEAN /\ run.cases \in Seq(Cases)

\* A fault ends the call, unless it stopped pytest: then the run has no conclusion.
FaultEnds ==
    /\ stage \notin {"judge", "done", "raised"} => fault = FALSE
    /\ stage = "judge" /\ fault => ~Concluded(run)

StrictInv == CallInv /\ FaultEnds /\ PassIsEarned /\ AnswersInContract

LEMMA InitStrict == VerifyInit => StrictInv
BY DEF VerifyInit, Patches, CallInv, FaultEnds, Stages, StrictInv, PassIsEarned,
       AnswersInContract

\* A report is a sequence of cases.
LEMMA ReportsAreSequences == Reports \subseteq Seq(Cases)
BY SeqDef, StrictAssumption DEF Reports, StrictAssumption

\* An answer with one sub-verdict, for a patch that is refused or a machine that failed.
LEMMA ReturnsOne ==
    ASSUME NEW kind, NEW status \in Statuses, Answer(status, <<kind>>) \in Faulted \cup Refused,
           verdicts' = Only(kind, status), stage' = "done"
    PROVE  (PassIsEarned /\ AnswersInContract)'
<1>1. StatusOf(verdicts') = status /\ Kinds(verdicts') = <<kind>>
  BY OneVerdict
<1>2. status # "PASS"
  BY DEF Answer, Faulted, Refused
<1> QED
  BY <1>1, <1>2 DEF PassIsEarned, AnswersInContract, Result, StrictAnswers

LEMMA RefusedOne ==
    ASSUME stage' = "done",
           verdicts' = Only("patch-apply", "FAIL") \/ verdicts' = Only("patch-scope", "FAIL")
    PROVE  (PassIsEarned /\ AnswersInContract)'
<1>1. "FAIL" \in Statuses
  BY DEF Statuses
<1>2. CASE verdicts' = Only("patch-apply", "FAIL")
  BY <1>1, <1>2, ReturnsOne DEF Refused
<1>3. CASE verdicts' = Only("patch-scope", "FAIL")
  BY <1>1, <1>3, ReturnsOne DEF Refused
<1> QED
  BY <1>2, <1>3

LEMMA FaultedOne ==
    ASSUME stage' = "done", NEW kind \in {"checkout", "task-blobs", "sandbox-run"},
           verdicts' = Only(kind, "UNVERIFIED")
    PROVE  (PassIsEarned /\ AnswersInContract)'
<1>1. "UNVERIFIED" \in Statuses /\ Answer("UNVERIFIED", <<kind>>) \in Faulted
  BY DEF Statuses, Faulted
<1> QED
  BY <1>1, ReturnsOne

\* A judged run answers within the contract.
LEMMA JudgementInContract ==
    ASSUME NEW rc \in Int, NEW cases, NEW f2p, NEW declared
    PROVE  /\ Answer(StatusOf(Judgement(rc, cases, f2p, declared)),
                     Kinds(Judgement(rc, cases, f2p, declared))) \in Ran
           /\ Answer(StatusOf(NoReport(rc)), Kinds(NoReport(rc))) \in Unread
           /\ StatusOf(NoReport(rc)) # "PASS"
<1> DEFINE v == Judgement(rc, cases, f2p, declared)
           found == {v[i].status : i \in DOMAIN v}
           n == NoReport(rc)
           none == {n[i].status : i \in DOMAIN n}
<1>1. found = {ExitStatus(rc), SkippedCount(cases), ExecutedSet(cases, declared),
               FailToPassStatus(cases, f2p)}
  BY DEF Judgement
<1>2. none = {ExitStatus(rc), "UNVERIFIED"}
  BY DEF NoReport
<1>3. StatusOf(v) = Reduce(found) /\ StatusOf(n) = Reduce(none)
  BY DEF StatusOf
<1>4. Kinds(v) = <<"pytest", "skipped", "executed-set", "fail-to-pass">>
  BY DEF Kinds, Judgement
<1>5. Kinds(n) = <<"pytest", "report">>
  BY DEF Kinds, NoReport
<1> HIDE DEF found, none
<1>6. ExitStatus(rc) \in {"PASS", "FAIL", "UNVERIFIED"}
  BY DEF ExitStatus
<1>7. found \subseteq {"PASS", "FAIL", "UNVERIFIED"} /\ found # {}
  BY <1>1, <1>6 DEF SkippedCount, ExecutedSet, FailToPassStatus
<1>8. Reduce(found) \in {"PASS", "FAIL", "UNVERIFIED"}
  <2>1. Reduce(found) \in found
    <3>1. found \subseteq Statuses /\ found \ {"NOT_COVERED"} = found
      BY <1>7 DEF Statuses
    <3> QED
      BY <1>7, <3>1, WorstExists DEF Reduce
  <2> QED
    BY <1>7, <2>1
<1>9. Reduce(none) \in {"FAIL", "UNVERIFIED"}
  <2>1. none \subseteq Statuses /\ none # {} /\ "UNVERIFIED" \in none
    BY <1>2, <1>6 DEF Statuses
  <2> QED
    BY <2>1, ReduceWorst DEF Statuses
<1> HIDE DEF v, n
<1>10. Answer(StatusOf(v), Kinds(v)) \in Ran
  BY <1>3, <1>4, <1>8 DEF Ran
<1>11. Answer(StatusOf(n), Kinds(n)) \in Unread
  BY <1>3, <1>5, <1>9 DEF Unread
<1> QED
  BY <1>3, <1>9, <1>10, <1>11 DEF v, n

LEMMA StepStrict == StrictInv /\ [VerifyNext]_verifyVars => StrictInv'
<1> SUFFICES ASSUME StrictInv, [VerifyNext]_verifyVars PROVE StrictInv'
  OBVIOUS
<1> USE StrictAssumption DEF StrictInv
<1>1. CASE Materialise
  <2>1. CallInv'
    BY <1>1 DEF Materialise, Return, CallInv, Stages
  <2>2. FaultEnds'
    BY <1>1 DEF Materialise, Return, FaultEnds
  <2>3. CASE stage' = "done"
    <3>1. verdicts' = Only("checkout", "UNVERIFIED")
      BY <1>1, <2>3 DEF Materialise, Return
    <3> QED
      BY <2>1, <2>2, <2>3, <3>1, FaultedOne
  <2>4. CASE stage' # "done"
    BY <2>1, <2>2, <2>4 DEF PassIsEarned, AnswersInContract
  <2> QED
    BY <2>3, <2>4
<1>2. CASE TaskBlobs
  <2>1. CallInv'
    BY <1>2 DEF TaskBlobs, Return, CallInv, Stages
  <2>2. FaultEnds'
    BY <1>2 DEF TaskBlobs, Return, FaultEnds
  <2>3. CASE stage' = "done"
    <3>1. verdicts' = Only("task-blobs", "UNVERIFIED")
      BY <1>2, <2>3 DEF TaskBlobs, Return
    <3> QED
      BY <2>1, <2>2, <2>3, <3>1, FaultedOne
  <2>4. CASE stage' # "done"
    BY <2>1, <2>2, <2>4 DEF PassIsEarned, AnswersInContract
  <2> QED
    BY <2>3, <2>4
<1>3. CASE DeclaredPaths
  <2>1. CallInv'
    BY <1>3 DEF DeclaredPaths, GitDies, Return, CallInv, Stages
  <2>2. FaultEnds'
    BY <1>3 DEF DeclaredPaths, GitDies, Return, FaultEnds
  <2>3. CASE stage' = "done"
    <3>1. verdicts' = Only("patch-apply", "FAIL") \/ verdicts' = Only("patch-scope", "FAIL")
      BY <1>3, <2>3 DEF DeclaredPaths, GitDies, Return
    <3> QED
      BY <2>1, <2>2, <2>3, <3>1, RefusedOne
  <2>4. CASE stage' # "done"
    BY <2>1, <2>2, <2>4 DEF PassIsEarned, AnswersInContract
  <2> QED
    BY <2>3, <2>4
<1>4. CASE ApplyPatch
  <2>1. CallInv'
    BY <1>4 DEF ApplyPatch, GitDies, Return, CallInv, Stages
  <2>2. FaultEnds'
    BY <1>4 DEF ApplyPatch, GitDies, Return, FaultEnds
  <2>3. CASE stage' = "done"
    <3>1. verdicts' = Only("patch-apply", "FAIL")
      BY <1>4, <2>3 DEF ApplyPatch, GitDies, Return
    <3> QED
      BY <2>1, <2>2, <2>3, <3>1, RefusedOne
  <2>4. CASE stage' # "done"
    BY <2>1, <2>2, <2>4 DEF PassIsEarned, AnswersInContract
  <2> QED
    BY <2>3, <2>4
<1>5. CASE TouchedPaths
  <2>1. CallInv'
    BY <1>5 DEF TouchedPaths, HeldAmong, Return, CallInv, Stages
  <2>2. FaultEnds'
    BY <1>5 DEF TouchedPaths, Return, FaultEnds
  <2>3. CASE stage' = "done"
    <3>1. verdicts' = Only("patch-scope", "FAIL")
      BY <1>5, <2>3 DEF TouchedPaths, Return
    <3> QED
      BY <2>1, <2>2, <2>3, <3>1, RefusedOne
  <2>4. CASE stage' # "done"
    BY <2>1, <2>2, <2>4 DEF PassIsEarned, AnswersInContract
  <2> QED
    BY <2>3, <2>4
<1>6. CASE Restore
  BY <1>6 DEF Restore, CallInv, FaultEnds, Stages, Paths, PassIsEarned, AnswersInContract
<1>7. CASE Run
  <2>1. CallInv'
    <3>1. CASE stage' = "done"
      BY <1>7, <3>1 DEF Run, Return, CallInv, Stages
    <3>2. CASE stage' # "done"
      <4>1. PICK rc \in ExitCodes, cases \in Reports, readable \in BOOLEAN :
                run' = [rc |-> rc, readable |-> readable,
                        cases |-> IF readable THEN cases ELSE <<>>]
        BY <1>7, <3>2 DEF Run, Return
      <4>2. run'.rc \in Int /\ run'.readable \in BOOLEAN /\ run'.cases \in Seq(Cases)
        BY <4>1, ReportsAreSequences
      <4>3. stage' = "judge" /\ stage = "run" /\ UNCHANGED <<patch, tree>>
        BY <1>7, <3>2 DEF Run, Return
      <4> QED
        BY <4>2, <4>3 DEF CallInv, Stages
    <3> QED
      BY <3>1, <3>2
  <2>2. FaultEnds'
    BY <1>7 DEF Run, Return, FaultEnds
  <2>3. CASE stage' = "done"
    <3>1. verdicts' = Only("sandbox-run", "UNVERIFIED")
      BY <1>7, <2>3 DEF Run, Return
    <3> QED
      BY <2>1, <2>2, <2>3, <3>1, FaultedOne
  <2>4. CASE stage' # "done"
    BY <2>1, <2>2, <2>4 DEF PassIsEarned, AnswersInContract
  <2> QED
    BY <2>3, <2>4
<1>8. CASE Judge
  <2>1. /\ stage' = "done" /\ UNCHANGED <<patch, tree, run, fault>>
        /\ run.rc \in Int /\ run.cases \in Seq(Cases)
        /\ verdicts' = IF run.readable THEN Judgement(run.rc, run.cases, FailToPass, Declared)
                                      ELSE NoReport(run.rc)
    BY <1>8 DEF Judge, Return, CallInv, FaultEnds
  <2>2. CallInv'
    BY <1>8, <2>1 DEF Judge, CallInv, Stages
  <2>3. AnswersInContract'
    BY <2>1, JudgementInContract DEF AnswersInContract, Result, StrictAnswers
  <2>4. ASSUME StatusOf(verdicts') = "PASS"
        PROVE  run.readable /\ verdicts' = Judgement(run.rc, run.cases, FailToPass, Declared)
    BY <2>1, <2>4, JudgementInContract
  <2>5. FailToPass \subseteq Declared /\ IsFiniteSet(Declared)
    BY DEF Declared
  <2>6. PassIsEarned'
    <3> SUFFICES ASSUME StatusOf(verdicts') = "PASS" PROVE PassIsEarned'
      BY DEF PassIsEarned
    <3>1. /\ \A p \in Held : tree[p] = "golden"
          /\ patch.changes \cap (Held \cup Spelled) = {}
      BY <1>8 DEF Judge, CallInv
    <3>2. run.rc = 0
      BY <2>1, <2>4, <2>5, JudgementPasses
    <3>3. ~fault
      BY <1>8, <2>4, <3>2 DEF Judge, FaultEnds, Concluded
    <3> QED
      BY <2>1, <2>4, <2>5, <3>1, <3>3, JudgementPasses DEF PassIsEarned
  <2> QED
    BY <2>1, <2>2, <2>3, <2>6 DEF FaultEnds
<1>9. CASE Raise
  BY <1>9 DEF Raise, CallInv, FaultEnds, Stages, PassIsEarned, AnswersInContract
<1>10. CASE UNCHANGED verifyVars
  BY <1>10 DEF verifyVars, CallInv, FaultEnds, PassIsEarned, AnswersInContract, Result
<1> QED
  BY <1>1, <1>2, <1>3, <1>4, <1>5, <1>6, <1>7, <1>8, <1>9, <1>10 DEF VerifyNext

LEMMA StrictInvariant == VerifySpec => []StrictInv
BY InitStrict, StepStrict, PTL DEF VerifySpec

\* A PASS is earned, and never over a fault of the machine, for every task, patch, report and exit
\* status (strict.py:1-42).
THEOREM PassIsEarnedHolds == VerifySpec => []PassIsEarned
<1>1. StrictInv => PassIsEarned
  BY DEF StrictInv
<1> QED
  BY <1>1, StrictInvariant, PTL

\* STRICT keeps to the contract its callers are modelled against.
THEOREM AnswersInContractHolds == VerifySpec => []AnswersInContract
BY StrictInvariant, PTL DEF StrictInv

LEMMA VerifyStepTyped == VerifyTypeOK /\ [VerifyNext]_verifyVars => VerifyTypeOK'
<1> SUFFICES ASSUME VerifyTypeOK, [VerifyNext]_verifyVars PROVE VerifyTypeOK'
  OBVIOUS
<1>1. CASE Run
  <2>1. CASE UNCHANGED run
    BY <1>1, <2>1 DEF Run, Return, VerifyTypeOK, Stages
  <2>2. CASE \E rc \in ExitCodes, cases \in Reports, readable \in BOOLEAN :
               run' = [rc |-> rc, readable |-> readable, cases |-> IF readable THEN cases ELSE <<>>]
    <3>1. PICK rc \in ExitCodes, cases \in Reports, readable \in BOOLEAN :
              run' = [rc |-> rc, readable |-> readable,
                      cases |-> IF readable THEN cases ELSE <<>>]
      BY <2>2
    <3>2. (IF readable THEN cases ELSE <<>>) \in Seq(Cases)
      BY ReportsAreSequences
    <3>3. run'.rc \in ExitCodes /\ run'.readable \in BOOLEAN /\ run'.cases \in Seq(Cases)
      BY <3>1, <3>2
    <3> QED
      BY <1>1, <3>3 DEF Run, Return, VerifyTypeOK, Stages
  <2> QED
    BY <1>1, <2>1, <2>2 DEF Run
<1>2. CASE ApplyPatch
  BY <1>2 DEF ApplyPatch, GitDies, Return, VerifyTypeOK, Stages
<1>3. CASE Restore
  BY <1>3 DEF Restore, VerifyTypeOK, Stages
<1>4. CASE DeclaredPaths
  <2>1. /\ stage' \in {"done", "apply"}
        /\ UNCHANGED <<patch, tree, run>>
    BY <1>4 DEF DeclaredPaths, GitDies, Return
  <2>2. fault' = fault \/ fault' = TRUE
    BY <1>4 DEF DeclaredPaths, GitDies
  <2> QED
    BY <2>1, <2>2 DEF VerifyTypeOK, Stages
<1>5. CASE Judge
  BY <1>5 DEF Judge, Return, VerifyTypeOK, Stages
<1>6. CASE Materialise \/ TaskBlobs \/ TouchedPaths \/ Raise
  BY <1>6 DEF Materialise, TaskBlobs, TouchedPaths, Raise, Return, VerifyTypeOK, Stages
<1>7. CASE UNCHANGED verifyVars
  BY <1>7 DEF VerifyTypeOK, verifyVars
<1> QED
  BY <1>1, <1>2, <1>3, <1>4, <1>5, <1>6, <1>7 DEF VerifyNext

\* The type invariant, for every task, patch and report.
THEOREM VerifyTypesHold == VerifySpec => []VerifyTypeOK
<1>1. VerifyInit => VerifyTypeOK
  <2>1. NotRun.rc = -1 /\ NotRun.readable = FALSE /\ NotRun.cases \in Seq(Cases)
    BY EmptySeq DEF NotRun
  <2> QED
    BY <2>1 DEF VerifyInit, VerifyTypeOK, Stages
<1> QED
  BY <1>1, VerifyStepTyped, PTL DEF VerifySpec

-----------------------------------------------------------------------------
(* The sweep: its inductive invariant. *)

Alive == {"next", "without-patch", "with-reference", "provision", "ask", "strict", "weak",
          "record", "rank"}

\* Where the process is, and that one that is over did not go on.
Running ==
    /\ pc \in Alive \cup {"down"}
    /\ pc # "down" => exit = "none"
    /\ task \in Tasks
    /\ kills \in Nat
    /\ DOMAIN journal = Tasks
    /\ built \in [Keys -> {"unbuilt", "built", "failed"}]
    /\ answer \in StrictAnswers \cup {NoAnswer}
    /\ pc = "weak" => answer \in StrictAnswers

\* What a finished rollout says.
Sound(r) ==
    /\ r.strict = "UNVERIFIED" <=> r.outcome \in Unscored
    /\ r.strictOf = r.weakOf

\* What the rollout in hand says so far.
InHand ==
    /\ DOMAIN rollout = DOMAIN Partial
    /\ rollout.strictOf = rollout.weakOf
    /\ pc \in {"ask", "strict", "weak"} => rollout.strict \in {"none", "FAIL"}
    /\ pc \notin {"ask", "strict", "weak", "record"} => rollout = Partial
    /\ pc = "record" => Sound(rollout)

AllSound == \A t \in Recorded : Sound(RolloutOf(t))

\* `t`'s environment, and what a step says of it.
Has(t, what) == KeyOf[t] \in Keys => built[KeyOf[t]] = what
Agrees(t, step) ==
    /\ step.rollout.outcome = "UNPROVISIONED" => KeyOf[t] \in Keys /\ Has(t, "failed")
    /\ step.rollout.outcome # "UNPROVISIONED" \/ step.probe.control # "SKIPPED" => Has(t, "built")

\* The steps of the process that is running agree with its cache.
Environments ==
    /\ \A t \in Recorded : RolloutOf(t).by \in Nat /\ RolloutOf(t).by <= kills + 1
    /\ pc = "down" /\ ~Over => \A t \in Recorded : RolloutOf(t).by <= kills
    /\ pc # "down" => \A t \in Recorded : RolloutOf(t).by = kills + 1 => Agrees(t, journal[t])
    /\ pc \in {"without-patch", "with-reference"} => Has(task, "built")
    /\ pc = "provision" /\ probe.control # "SKIPPED" => Has(task, "built")
    /\ pc \in {"ask", "strict", "weak"} => Has(task, "built") /\ rollout.outcome # "UNPROVISIONED"
    /\ pc = "record" => Agrees(task, [probe |-> probe, rollout |-> rollout])

SweepInv == Running /\ InHand /\ AllSound /\ Environments /\ EnvironmentIsOneFact

-----------------------------------------------------------------------------
(* What the environments cache answers. *)

\* The task has what it was answered, and no earlier answer changed.
LEMMA AcquireAnswers ==
    ASSUME built \in [Keys -> {"unbuilt", "built", "failed"}],
           NEW t \in Tasks, NEW got \in Built, Acquire(t, got)
    PROVE  /\ built' \in [Keys -> {"unbuilt", "built", "failed"}]
           /\ \A k \in Keys : built[k] # "unbuilt" => built'[k] = built[k]
           /\ KeyOf[t] \in Keys => built'[KeyOf[t]] = got
           /\ got = "failed" => KeyOf[t] \in Keys
<1>1. KeyOf[t] = "no pins" \/ KeyOf[t] \in Keys
  BY SweepAssumption
<1>2. CASE KeyOf[t] = "no pins"
  BY <1>2, SweepAssumption DEF Acquire
<1>3. CASE KeyOf[t] \in Keys /\ built[KeyOf[t]] # "unbuilt"
  BY <1>3, SweepAssumption DEF Acquire
<1>4. CASE KeyOf[t] \in Keys /\ built[KeyOf[t]] = "unbuilt"
  BY <1>4, SweepAssumption DEF Acquire, Built
<1> QED
  BY <1>1, <1>2, <1>3, <1>4

\* The steps recorded so far still agree with a cache that only grew.
LEMMA StillAgree ==
    ASSUME Environments, pc # "down", DOMAIN journal = Tasks,
           \A k \in Keys : built[k] # "unbuilt" => built'[k] = built[k],
           UNCHANGED <<journal, kills>>
    PROVE  \A t \in Recorded' : /\ RolloutOf(t)'.by \in Nat /\ RolloutOf(t)'.by <= kills' + 1
                                /\ RolloutOf(t)'.by = kills' + 1 => Agrees(t, journal[t])'
<1> SUFFICES ASSUME NEW t \in Recorded
             PROVE  /\ RolloutOf(t).by \in Nat /\ RolloutOf(t).by <= kills + 1
                    /\ RolloutOf(t).by = kills + 1 => Agrees(t, journal[t])'
  BY DEF Recorded, RolloutOf
<1>1. RolloutOf(t).by \in Nat /\ RolloutOf(t).by <= kills + 1
  BY DEF Environments
<1>2. ASSUME RolloutOf(t).by = kills + 1 PROVE Agrees(t, journal[t])'
  <2>1. Agrees(t, journal[t])
    BY <1>2 DEF Environments
  <2> QED
    BY <2>1 DEF Agrees, Has
<1> QED
  BY <1>1, <1>2

-----------------------------------------------------------------------------
(* The invariant holds at first and is kept. *)

LEMMA FirstTask == 1 \in Tasks
<1>1. N \in Nat /\ N # 0
  BY SweepAssumption
<1> QED
  BY <1>1 DEF Tasks

\* The loop moves to a task, or to the ranking.
LEMMA KeepMoves ==
    ASSUME task \in Tasks, NEW step, Keep(step)
    PROVE  pc' \in {"next", "rank"} /\ task' \in Tasks
<1>1. N \in Nat
  BY SweepAssumption
<1>2. CASE task < N
  BY <1>1, <1>2 DEF Keep, Tasks
<1>3. CASE ~(task < N)
  BY <1>3 DEF Keep
<1> QED
  BY <1>2, <1>3

LEMMA InitSweep == Init => SweepInv
<1> SUFFICES ASSUME Init PROVE SweepInv
  OBVIOUS
<1>1. Recorded = {} /\ DOMAIN journal = Tasks
  BY DEF Init, Empty, Recorded
<1>2. Running
  <2>1. task \in Tasks /\ kills \in Nat /\ pc = "down"
    BY FirstTask DEF Init
  <2>2. built \in [Keys -> {"unbuilt", "built", "failed"}]
    BY DEF Init, Unbuilt
  <2>3. answer \in StrictAnswers \cup {NoAnswer}
    BY DEF Init, EmptyHand
  <2> QED
    BY <1>1, <2>1, <2>2, <2>3 DEF Running
<1>3. InHand
  BY DEF Init, InHand, EmptyHand, Partial
<1>4. AllSound /\ Environments /\ EnvironmentIsOneFact
  BY <1>1 DEF Init, AllSound, Environments, EnvironmentIsOneFact
<1> QED
  BY <1>2, <1>3, <1>4 DEF SweepInv

\* A process that ends leaves what it recorded.
LEMMA ExitKeeps ==
    ASSUME SweepInv, pc # "down", NEW why, Exit(why), UNCHANGED journal,
           \/ kills' = kills + 1
           \/ kills' = kills /\ why \in {"ranked", "HarnessNotProven"}
    PROVE  SweepInv'
<1>1. Running'
  <2>1. task' \in Tasks /\ kills' \in Nat /\ pc' = "down" /\ DOMAIN journal' = Tasks
    BY FirstTask DEF SweepInv, Running, Exit
  <2>2. built' \in [Keys -> {"unbuilt", "built", "failed"}]
    BY DEF Exit, Unbuilt
  <2>3. answer' \in StrictAnswers \cup {NoAnswer}
    BY DEF Exit, DropHand
  <2> QED
    BY <2>1, <2>2, <2>3 DEF Running
<1>2. InHand'
  BY DEF InHand, Exit, DropHand, Partial
<1>3. AllSound' /\ EnvironmentIsOneFact'
  BY DEF SweepInv, AllSound, Recorded, RolloutOf, EnvironmentIsOneFact
<1>4. pc' = "down"
  BY DEF Exit
<1>5. CASE kills' = kills + 1
  <2>1. \A t \in Recorded' : RolloutOf(t)'.by \in Nat /\ RolloutOf(t)'.by <= kills'
    BY <1>5 DEF SweepInv, Running, Environments, Recorded, RolloutOf
  <2> QED
    BY <1>1, <1>2, <1>3, <1>4, <1>5, <2>1 DEF SweepInv, Running, Environments
<1>6. CASE kills' = kills /\ why \in {"ranked", "HarnessNotProven"}
  <2>1. \A t \in Recorded' : RolloutOf(t)'.by \in Nat /\ RolloutOf(t)'.by <= kills' + 1
    BY <1>6 DEF SweepInv, Environments, Recorded, RolloutOf
  <2>2. Over'
    BY <1>6 DEF Exit, Over
  <2> QED
    BY <1>1, <1>2, <1>3, <1>4, <2>1, <2>2 DEF SweepInv, Environments
<1> QED
  BY <1>5, <1>6

\* A step that leaves the journal and the cache alone leaves what was recorded.
LEMMA SameRecord ==
    ASSUME SweepInv, pc # "down", UNCHANGED <<journal, built, kills>>, pc' # "down"
    PROVE  /\ AllSound' /\ EnvironmentIsOneFact'
           /\ \A t \in Recorded' : RolloutOf(t)'.by \in Nat /\ RolloutOf(t)'.by <= kills' + 1
           /\ \A t \in Recorded' : RolloutOf(t)'.by = kills' + 1 => Agrees(t, journal[t])'
<1>1. AllSound' /\ EnvironmentIsOneFact'
  BY DEF SweepInv, AllSound, Recorded, RolloutOf, EnvironmentIsOneFact
<1> QED
  BY <1>1, StillAgree DEF SweepInv, Running

\* So does one that only asks the cache.
LEMMA GrownRecord ==
    ASSUME SweepInv, pc # "down", UNCHANGED <<journal, kills>>,
           \A k \in Keys : built[k] # "unbuilt" => built'[k] = built[k]
    PROVE  /\ AllSound' /\ EnvironmentIsOneFact'
           /\ \A t \in Recorded' : RolloutOf(t)'.by \in Nat /\ RolloutOf(t)'.by <= kills' + 1
           /\ \A t \in Recorded' : RolloutOf(t)'.by = kills' + 1 => Agrees(t, journal[t])'
<1>1. AllSound' /\ EnvironmentIsOneFact'
  BY DEF SweepInv, AllSound, Recorded, RolloutOf, EnvironmentIsOneFact
<1> QED
  BY <1>1, StillAgree DEF SweepInv, Running

LEMMA StartKeeps == SweepInv /\ Start => SweepInv'
<1> SUFFICES ASSUME SweepInv, Start PROVE SweepInv'
  OBVIOUS
<1>1. Running' /\ InHand'
  BY DEF SweepInv, Running, InHand, Start, hand, Alive
<1>2. AllSound' /\ EnvironmentIsOneFact'
  BY DEF SweepInv, Start, AllSound, Recorded, RolloutOf, EnvironmentIsOneFact
<1>3. \A t \in Recorded' : RolloutOf(t)'.by \in Nat /\ RolloutOf(t)'.by <= kills'
  BY DEF SweepInv, Environments, Start, Recorded, RolloutOf
<1>4. kills' \in Nat /\ pc' = "next"
  BY DEF SweepInv, Running, Start
<1>5. Environments'
  <2>1. \A t \in Recorded' : RolloutOf(t)'.by <= kills' + 1 /\ RolloutOf(t)'.by # kills' + 1
    BY <1>3, <1>4
  <2> QED
    BY <1>3, <1>4, <2>1 DEF Environments
<1> QED
  BY <1>1, <1>2, <1>5 DEF SweepInv

LEMMA ReplayKeeps == SweepInv /\ Replay => SweepInv'
<1> SUFFICES ASSUME SweepInv, Replay PROVE SweepInv'
  OBVIOUS
<1>1. pc = "next" /\ pc' \in {"next", "rank"} /\ task' \in Tasks
  BY KeepMoves DEF SweepInv, Running, Replay
<1>2. UNCHANGED <<journal, built, kills, exit, probe, rollout, asked, answer>>
  BY DEF Replay, hand
<1>3. Running' /\ InHand'
  BY <1>1, <1>2 DEF SweepInv, Running, InHand, Alive
<1>4. Environments'
  BY <1>1, <1>2, SameRecord DEF Environments
<1> QED
  BY <1>1, <1>2, <1>3, <1>4, SameRecord DEF SweepInv

LEMMA ReferenceKeeps == SweepInv /\ Reference => SweepInv'
<1> SUFFICES ASSUME SweepInv, Reference PROVE SweepInv'
  OBVIOUS
<1>1. pc = "next" /\ UNCHANGED <<journal, task, kills, exit, rollout, answer>>
  BY DEF Reference
<1>2. task \in Tasks /\ built \in [Keys -> {"unbuilt", "built", "failed"}]
  BY DEF SweepInv, Running
<1>3. CASE Probed("SKIPPED", "none") /\ UNCHANGED built
  <2>1. pc' = "provision" /\ probe'.control = "SKIPPED"
    BY <1>3 DEF Probed
  <2>2. Running' /\ InHand'
    BY <1>1, <1>2, <1>3, <2>1 DEF SweepInv, Running, InHand, Alive
  <2>3. Environments'
    BY <1>1, <1>3, <2>1, SameRecord DEF Environments
  <2> QED
    BY <1>1, <1>3, <2>1, <2>2, <2>3, SameRecord DEF SweepInv
<1>4. ASSUME NEW got \in Built, Acquire(task, got),
             IF got = "failed" THEN Probed("SKIPPED", "none")
                               ELSE pc' = "without-patch" /\ UNCHANGED probe
      PROVE  SweepInv'
  <2>1. /\ built' \in [Keys -> {"unbuilt", "built", "failed"}]
        /\ \A k \in Keys : built[k] # "unbuilt" => built'[k] = built[k]
        /\ KeyOf[task] \in Keys => built'[KeyOf[task]] = got
    BY <1>2, <1>4, AcquireAnswers
  <2>2. \/ pc' = "provision" /\ probe'.control = "SKIPPED"
        \/ pc' = "without-patch" /\ got = "built"
    BY <1>4 DEF Probed, Built
  <2>3. Running' /\ InHand'
    BY <1>1, <1>2, <2>1, <2>2 DEF SweepInv, Running, InHand, Alive
  <2>4. Environments'
    BY <1>1, <2>1, <2>2, GrownRecord DEF Environments, Has
  <2> QED
    BY <1>1, <2>1, <2>3, <2>4, GrownRecord DEF SweepInv
<1> QED
  BY <1>3, <1>4 DEF Reference

\* An arm ends in a probe, or the control arm goes on.
LEMMA ArmKeeps == SweepInv /\ (WithoutPatch \/ WithReference) => SweepInv'
<1> SUFFICES ASSUME SweepInv, WithoutPatch \/ WithReference PROVE SweepInv'
  OBVIOUS
<1>1. /\ pc \in {"without-patch", "with-reference"}
      /\ UNCHANGED <<journal, task, kills, exit, rollout, answer, built>>
  BY DEF WithoutPatch, WithReference
<1>2. pc' \in {"with-reference", "provision"}
  BY DEF WithoutPatch, WithReference, Probed
<1>3. Has(task, "built")
  BY <1>1 DEF SweepInv, Environments
<1>4. Running' /\ InHand'
  BY <1>1, <1>2 DEF SweepInv, Running, InHand, Alive
<1>5. Environments'
  BY <1>1, <1>2, <1>3, SameRecord DEF Environments, Has
<1> QED
  BY <1>1, <1>2, <1>4, <1>5, SameRecord DEF SweepInv

LEMMA ProvisionKeeps == SweepInv /\ Provision => SweepInv'
<1> SUFFICES ASSUME SweepInv, Provision PROVE SweepInv'
  OBVIOUS
<1>1. pc = "provision" /\ UNCHANGED <<journal, task, kills, exit, probe, answer>>
  BY DEF Provision
<1>2. task \in Tasks /\ built \in [Keys -> {"unbuilt", "built", "failed"}] /\ rollout = Partial
  BY <1>1 DEF SweepInv, Running, InHand
<1>3. PICK got \in Built :
         /\ Acquire(task, got)
         /\ \/ got = "failed" /\ Scored(Unaskable("UNPROVISIONED"))
            \/ got = "built" /\ Scored(Unaskable("NO_ORACLE"))
            \/ got = "built" /\ pc' = "ask" /\ UNCHANGED rollout
  BY DEF Provision
<1>4. /\ built' \in [Keys -> {"unbuilt", "built", "failed"}]
      /\ \A k \in Keys : built[k] # "unbuilt" => built'[k] = built[k]
      /\ KeyOf[task] \in Keys => built'[KeyOf[task]] = got
      /\ got = "failed" => KeyOf[task] \in Keys
  BY <1>2, <1>3, AcquireAnswers
<1>5. Has(task, got)'
  BY <1>1, <1>4 DEF Has
<1>6. probe.control # "SKIPPED" => got = "built"
  <2>1. ASSUME probe.control # "SKIPPED", KeyOf[task] \in Keys PROVE built[KeyOf[task]] = "built"
    BY <1>1, <2>1 DEF SweepInv, Environments, Has
  <2> QED
    BY <1>3, <1>4, <2>1 DEF Built
<1>7. CASE got = "failed" /\ Scored(Unaskable("UNPROVISIONED"))
  <2>1. pc' = "record" /\ rollout' = Unaskable("UNPROVISIONED")
    BY <1>7 DEF Scored
  <2>2. Running' /\ InHand'
    BY <1>1, <1>2, <1>4, <2>1 DEF SweepInv, Running, InHand, Alive, Unaskable, Partial, Sound, Unscored
  <2>3. Agrees(task, [probe |-> probe, rollout |-> rollout])'
    BY <1>1, <1>4, <1>5, <1>6, <1>7, <2>1 DEF Agrees, Unaskable, Partial
  <2> QED
    BY <1>1, <1>4, <2>1, <2>2, <2>3, GrownRecord DEF SweepInv, Environments
<1>8. CASE got = "built" /\ Scored(Unaskable("NO_ORACLE"))
  <2>1. pc' = "record" /\ rollout' = Unaskable("NO_ORACLE")
    BY <1>8 DEF Scored
  <2>2. Running' /\ InHand'
    BY <1>1, <1>2, <1>4, <2>1 DEF SweepInv, Running, InHand, Alive, Unaskable, Partial, Sound, Unscored
  <2>3. Agrees(task, [probe |-> probe, rollout |-> rollout])'
    BY <1>1, <1>5, <1>8, <2>1 DEF Agrees, Unaskable, Partial
  <2> QED
    BY <1>1, <1>4, <2>1, <2>2, <2>3, GrownRecord DEF SweepInv, Environments
<1>9. CASE got = "built" /\ pc' = "ask" /\ UNCHANGED rollout
  <2>1. Running' /\ InHand'
    BY <1>1, <1>2, <1>4, <1>9 DEF SweepInv, Running, InHand, Alive, Partial
  <2>2. rollout'.outcome # "UNPROVISIONED"
    BY <1>2, <1>9 DEF Partial
  <2> QED
    BY <1>1, <1>4, <1>5, <1>9, <2>1, <2>2, GrownRecord DEF SweepInv, Environments
<1> QED
  BY <1>3, <1>7, <1>8, <1>9

LEMMA AskKeeps == SweepInv /\ Ask => SweepInv'
<1> SUFFICES ASSUME SweepInv, Ask PROVE SweepInv'
  OBVIOUS
<1>1. pc = "ask" /\ UNCHANGED <<journal, task, kills, exit, probe, answer, built>>
  BY DEF Ask
<1>2. Has(task, "built") /\ rollout.outcome # "UNPROVISIONED"
  BY <1>1 DEF SweepInv, Environments
<1>3. CASE pc' = "strict" /\ UNCHANGED rollout
  <2>1. Running' /\ InHand'
    BY <1>1, <1>3 DEF SweepInv, Running, InHand, Alive
  <2> QED
    BY <1>1, <1>2, <1>3, <2>1, SameRecord DEF SweepInv, Environments, Has
<1>4. CASE Scored([rollout EXCEPT !.outcome = "NO_DIFF"])
  <2>1. pc' = "record" /\ rollout' = [rollout EXCEPT !.outcome = "NO_DIFF"]
    BY <1>4 DEF Scored
  <2>2. /\ rollout'.outcome = "NO_DIFF" /\ rollout'.strict \in {"none", "FAIL"}
        /\ rollout'.strictOf = rollout'.weakOf
        /\ DOMAIN rollout' = DOMAIN Partial
    BY <1>1, <2>1 DEF SweepInv, InHand, Partial
  <2>3. Running' /\ InHand'
    BY <1>1, <2>1, <2>2 DEF SweepInv, Running, InHand, Alive, Sound, Unscored
  <2>4. Agrees(task, [probe |-> probe, rollout |-> rollout])'
    BY <1>1, <1>2, <2>2 DEF Agrees, Has
  <2> QED
    BY <1>1, <2>1, <2>3, <2>4, SameRecord DEF SweepInv, Environments
<1> QED
  BY <1>3, <1>4 DEF Ask

LEMMA StrictKeeps == SweepInv /\ Strict => SweepInv'
<1> SUFFICES ASSUME SweepInv, Strict PROVE SweepInv'
  OBVIOUS
<1>1. pc = "strict" /\ UNCHANGED <<journal, task, kills, exit, probe, built>>
  BY DEF Strict
<1>2. Has(task, "built") /\ rollout.outcome # "UNPROVISIONED"
  BY <1>1 DEF SweepInv, Environments
<1>3. CASE pc' = "weak" /\ answer' \in StrictAnswers /\ UNCHANGED rollout
  <2>1. Running' /\ InHand'
    BY <1>1, <1>3 DEF SweepInv, Running, InHand, Alive
  <2> QED
    BY <1>1, <1>2, <1>3, <2>1, SameRecord DEF SweepInv, Environments, Has
<1>4. CASE Scored(Faulty(rollout)) /\ UNCHANGED answer
  <2>1. pc' = "record" /\ rollout' = Faulty(rollout)
    BY <1>4 DEF Scored
  <2>2. /\ rollout'.outcome = "UNVERIFIED" /\ rollout'.strict = "UNVERIFIED"
        /\ rollout'.strictOf = rollout'.weakOf
        /\ DOMAIN rollout' = DOMAIN Partial
    BY <2>1 DEF SweepInv, InHand, Partial, Faulty
  <2>3. Running' /\ InHand'
    BY <1>1, <1>4, <2>1, <2>2 DEF SweepInv, Running, InHand, Alive, Sound, Unscored
  <2>4. Agrees(task, [probe |-> probe, rollout |-> rollout])'
    BY <1>1, <1>2, <2>2 DEF Agrees, Has
  <2> QED
    BY <1>1, <2>1, <2>3, <2>4, SameRecord DEF SweepInv, Environments
<1> QED
  BY <1>3, <1>4 DEF Strict

\* How an answer of STRICT is classified.
LEMMA Classified ==
    ASSUME NEW a \in StrictAnswers
    PROVE  /\ Classify(a) \in {"SOLVED", "UNVERIFIED", "NOT_APPLIED", "OUT_OF_SCOPE", "NOT_SOLVED"}
           /\ Classify(a) = "UNVERIFIED" <=> a.status = "UNVERIFIED"
           /\ Classify(a) = "NOT_SOLVED" => a.status = "FAIL"
<1>1. a.status \in {"PASS", "FAIL", "UNVERIFIED"}
  BY DEF StrictAnswers, Faulted, Refused, Ran, Unread, Answer
<1> QED
  BY <1>1 DEF Classify

LEMMA WeakKeeps == SweepInv /\ Weak => SweepInv'
<1> SUFFICES ASSUME SweepInv, Weak PROVE SweepInv'
  OBVIOUS
<1>1. /\ pc = "weak" /\ pc' \in {"ask", "record"}
      /\ UNCHANGED <<journal, task, kills, exit, probe, built>> /\ answer' = NoAnswer
      /\ pc' = "ask" => Classify(answer) = "NOT_SOLVED"
  BY DEF Weak, MoreRepairs
<1>2. Has(task, "built") /\ answer \in StrictAnswers
  BY <1>1 DEF SweepInv, Environments, Running
<1>3. /\ rollout'.outcome = Classify(answer) /\ rollout'.strict = answer.status
      /\ rollout'.strictOf = rollout'.weakOf
      /\ DOMAIN rollout' = DOMAIN Partial
  BY DEF Weak, SweepInv, InHand, Partial
<1>4. Running'
  BY <1>1 DEF SweepInv, Running, Alive
<1>5. InHand'
  BY <1>1, <1>2, <1>3, Classified DEF InHand, Sound, Unscored
<1>6. Agrees(task, [probe |-> probe, rollout |-> rollout])' /\ Has(task, "built")'
      /\ rollout'.outcome # "UNPROVISIONED"
  BY <1>1, <1>2, <1>3, Classified DEF Agrees, Has
<1> QED
  BY <1>1, <1>4, <1>5, <1>6, SameRecord DEF SweepInv, Environments

\* The step in hand is written out in full.
Wrote == pc = "record" /\ journal' = [journal EXCEPT ![task] = ThisStep]

LEMMA WrittenKeeps ==
    ASSUME SweepInv, Wrote
    PROVE  /\ DOMAIN journal' = Tasks /\ AllSound' /\ EnvironmentIsOneFact'
           /\ \A t \in Recorded' : /\ RolloutOf(t)'.by \in Nat /\ RolloutOf(t)'.by <= kills + 1
                                   /\ RolloutOf(t)'.by = kills + 1 => Agrees(t, journal'[t])
<1>1. pc = "record" /\ journal' = [journal EXCEPT ![task] = ThisStep]
  BY DEF Wrote
<1>2. task \in Tasks /\ DOMAIN journal = Tasks /\ kills \in Nat
  BY DEF SweepInv, Running
<1>3. /\ Sound(rollout) /\ Agrees(task, [probe |-> probe, rollout |-> rollout])
      /\ DOMAIN rollout = DOMAIN Partial
  BY <1>1 DEF SweepInv, InHand, Environments
<1>4. /\ ThisStep.rollout.by = kills + 1 /\ Sound(ThisStep.rollout) /\ Agrees(task, ThisStep)
      /\ ThisStep.rollout.outcome = rollout.outcome /\ ThisStep.probe = probe
  BY <1>3 DEF ThisStep, Sound, Agrees, Partial
<1>5. journal'[task] = ThisStep /\ \A t \in Tasks : t # task => journal'[t] = journal[t]
  BY <1>1, <1>2
<1>6. \A t \in Recorded' : t = task \/ (t \in Recorded /\ journal'[t] = journal[t])
  BY <1>5 DEF Recorded
<1>7. AllSound'
  BY <1>4, <1>5, <1>6 DEF SweepInv, AllSound, RolloutOf
<1>8. ASSUME NEW t \in Recorded'
      PROVE  /\ RolloutOf(t)'.by \in Nat /\ RolloutOf(t)'.by <= kills + 1
             /\ RolloutOf(t)'.by = kills + 1 => Agrees(t, journal'[t])
  <2>1. CASE t = task
    BY <1>2, <1>4, <1>5, <2>1 DEF RolloutOf
  <2>2. CASE t \in Recorded /\ journal'[t] = journal[t]
    BY <1>1, <2>2 DEF SweepInv, Environments, RolloutOf
  <2> QED
    BY <1>6, <1>8, <2>1, <2>2
<1>9. ASSUME NEW t \in Recorded', NEW u \in Recorded',
             RolloutOf(t)'.by = RolloutOf(u)'.by, KeyOf[t] = KeyOf[u],
             RolloutOf(t)'.outcome = "UNPROVISIONED"
      PROVE  RolloutOf(u)'.outcome = "UNPROVISIONED" /\ journal'[u].probe.control = "SKIPPED"
  <2>1. CASE RolloutOf(t)'.by = kills + 1
    <3>1. Agrees(t, journal'[t]) /\ Agrees(u, journal'[u])
      BY <1>8, <1>9, <2>1
    <3>2. KeyOf[u] \in Keys /\ built[KeyOf[u]] = "failed"
      BY <1>9, <3>1 DEF Agrees, Has, RolloutOf
    <3>3. ~Has(u, "built")
      BY <3>2 DEF Has
    <3> QED
      BY <3>1, <3>3 DEF Agrees, RolloutOf
  <2>2. CASE RolloutOf(t)'.by # kills + 1
    <3>1. t # task /\ u # task
      BY <1>4, <1>5, <1>9, <2>2 DEF RolloutOf
    <3>2. t \in Recorded /\ journal'[t] = journal[t] /\ u \in Recorded /\ journal'[u] = journal[u]
      BY <1>6, <1>9, <3>1
    <3> QED
      BY <1>9, <3>2 DEF SweepInv, EnvironmentIsOneFact, RolloutOf
  <2> QED
    BY <2>1, <2>2
<1>10. EnvironmentIsOneFact'
  BY <1>9 DEF EnvironmentIsOneFact, RolloutOf
<1> QED
  BY <1>1, <1>2, <1>7, <1>8, <1>10

LEMMA RecordKeeps == SweepInv /\ Record => SweepInv'
<1> SUFFICES ASSUME SweepInv, Record PROVE SweepInv'
  OBVIOUS
<1>1. /\ Wrote /\ pc = "record" /\ UNCHANGED <<built, kills, exit>> /\ Keep(ThisStep) /\ DropHand
  BY DEF Record, AppendStep, Wrote
<1>2. pc' \in {"next", "rank"} /\ task' \in Tasks
  BY <1>1, KeepMoves DEF SweepInv, Running
<1>3. Running' /\ InHand'
  BY <1>1, <1>2, WrittenKeeps DEF SweepInv, Running, InHand, Alive, DropHand, Partial
<1>4. Environments'
  <2>1. \A t \in Recorded' : RolloutOf(t)'.by = kills + 1 => Agrees(t, journal[t])'
    BY <1>1, WrittenKeeps DEF Agrees, Has
  <2> QED
    BY <1>1, <1>2, <2>1, WrittenKeeps DEF Environments
<1> QED
  BY <1>1, <1>3, <1>4, WrittenKeeps DEF SweepInv

\* A kill inside the append leaves the step, or nothing of it.
LEMMA KillWritingKeeps == SweepInv /\ KillWriting => SweepInv'
<1> SUFFICES ASSUME SweepInv, KillWriting PROVE SweepInv'
  OBVIOUS
<1>1. pc = "record" /\ kills' = kills + 1 /\ Exit("killed") /\ (Wrote \/ UNCHANGED journal)
  BY DEF KillWriting, Wrote
<1>2. CASE UNCHANGED journal
  BY <1>1, <1>2, ExitKeeps
<1>3. CASE Wrote
  <2>1. pc' = "down" /\ task' \in Tasks /\ kills' \in Nat
    BY <1>1, FirstTask DEF SweepInv, Running, Exit
  <2>2. built' \in [Keys -> {"unbuilt", "built", "failed"}] /\ answer' = NoAnswer
    BY <1>1 DEF Exit, Unbuilt, DropHand
  <2>3. Running'
    BY <1>3, <2>1, <2>2, WrittenKeeps DEF Running
  <2>4. InHand'
    BY <1>1 DEF Exit, DropHand, Partial, InHand
  <2>5. Environments'
    <3>1. \A t \in Recorded' : RolloutOf(t)'.by \in Nat /\ RolloutOf(t)'.by <= kills'
      BY <1>1, <1>3, WrittenKeeps
    <3> QED
      BY <2>1, <3>1 DEF Environments
  <2> QED
    BY <1>3, <2>3, <2>4, <2>5, WrittenKeeps DEF SweepInv
<1> QED
  BY <1>1, <1>2, <1>3

\* A start that is refused changes nothing that is recorded.
LEMMA RefusedKeeps == SweepInv /\ StartRefused => SweepInv'
<1> SUFFICES ASSUME SweepInv, StartRefused PROVE SweepInv'
  OBVIOUS
<1>1. /\ pc = "down" /\ ~Over /\ pc' = "down" /\ task' \in Tasks /\ UNCHANGED <<journal, kills>>
      /\ answer' = NoAnswer /\ built' = Unbuilt
  BY FirstTask DEF StartRefused, Exit, DropHand
<1>2. Running'
  BY <1>1 DEF SweepInv, Running, Unbuilt
<1>3. InHand'
  BY DEF StartRefused, Exit, DropHand, Partial, InHand
<1>4. AllSound' /\ EnvironmentIsOneFact'
  BY <1>1 DEF SweepInv, AllSound, Recorded, RolloutOf, EnvironmentIsOneFact
<1>5. Environments'
  BY <1>1 DEF SweepInv, Environments, Recorded, RolloutOf
<1> QED
  BY <1>2, <1>3, <1>4, <1>5 DEF SweepInv

LEMMA EndKeeps == SweepInv /\ (RankOrRefuse \/ GeneratorRaises \/ WeakRaises \/ Kill) => SweepInv'
<1>1. SweepInv /\ RankOrRefuse => SweepInv'
  <2> SUFFICES ASSUME SweepInv, RankOrRefuse PROVE SweepInv'
    OBVIOUS
  <2>1. PICK why \in {"ranked", "HarnessNotProven"} : Exit(why)
    BY DEF RankOrRefuse
  <2>2. pc # "down" /\ UNCHANGED <<journal, kills>>
    BY DEF RankOrRefuse
  <2> QED
    BY <2>1, <2>2, ExitKeeps
<1>2. SweepInv /\ GeneratorRaises => SweepInv'
  BY ExitKeeps DEF GeneratorRaises
<1>3. SweepInv /\ WeakRaises => SweepInv'
  BY ExitKeeps DEF WeakRaises
<1>4. SweepInv /\ Kill => SweepInv'
  BY ExitKeeps DEF Kill
<1> QED
  BY <1>1, <1>2, <1>3, <1>4

LEMMA StutterKeeps == SweepInv /\ UNCHANGED vars => SweepInv'
BY DEF vars, process, hand, SweepInv, Running, InHand, AllSound, Environments, Over, Agrees, Has,
       Recorded, RolloutOf, EnvironmentIsOneFact

LEMMA StepSweep == SweepInv /\ [Next]_vars => SweepInv'
BY StartKeeps, RefusedKeeps, ReplayKeeps, RecordKeeps, KillWritingKeeps, ReferenceKeeps, ArmKeeps, ProvisionKeeps, AskKeeps,
   StrictKeeps, WeakKeeps, EndKeeps, StutterKeeps DEF Next, Work

LEMMA SweepInvariant == Spec => []SweepInv
BY InitSweep, StepSweep, PTL DEF Spec

-----------------------------------------------------------------------------
\* No fault of the machine becomes a candidate's zero, for every task set and every
\* number of repairs.
THEOREM FaultIsNobodysZeroHolds == Spec => []FaultIsNobodysZero
<1>1. SweepInv => FaultIsNobodysZero
  BY DEF SweepInv, AllSound, Sound, FaultIsNobodysZero
<1> QED
  BY <1>1, SweepInvariant, PTL

\* STRICT and WEAK of one record read the same completion, and within one process an environment is
\* one fact, for every assignment of pin sets.
THEOREM RecordsCompareHolds == Spec => []RecordsCompare
<1>1. SweepInv => RecordsCompare
  BY DEF SweepInv, AllSound, Sound, BothReadOneDiff, RecordsCompare
<1> QED
  BY <1>1, SweepInvariant, PTL

-----------------------------------------------------------------------------
(* The sweep as an uninterrupted one: the journal grows task by task, each *)
(* task once, and what is ranked is what the journal holds.                *)

\* The task in hand is being probed or asked; its probe is over.
Working == {"without-patch", "with-reference", "provision", "ask", "strict", "weak", "record"}
Posed   == {"provision", "ask", "strict", "weak", "record"}

\* What is recorded is recorded in order, the process holds what is recorded of the tasks it has been
\* over, and of the others the journal is as it read it.
InOrder ==
    /\ DOMAIN done = Tasks /\ DOMAIN steps = Tasks
    /\ pc = "down" => task = 1
    /\ pc \in Posed => probe.control \in Controls
    /\ pc = "record" => rollout.outcome \in Outcomes
    /\ \A t \in Recorded : journal[t].rollout.outcome \in Outcomes /\ journal[t].probe.control \in Controls
    /\ \A t \in Recorded : \A u \in Tasks : u < t => u \in Recorded
    /\ pc # "down" => \A u \in Tasks : u < task => u \in Recorded /\ steps[u] = journal[u]
    /\ pc \notin {"down", "rank"} => \A u \in Tasks : task <= u => done[u] = journal[u]
    /\ pc \in Working => task \notin Recorded
    /\ pc = "rank" => \A u \in Tasks : u \in Recorded /\ steps[u] = journal[u]

LEMMA InitOrder == Init => InOrder
BY DEF Init, InOrder, Empty, Recorded, Posed, Working

\* A step on the task in hand.
LEMMA WorkKeepsOrder ==
    ASSUME InOrder, Running, pc \in Working \cup {"next"}, pc' \in Working,
           UNCHANGED <<journal, task, done, steps>>,
           pc = "next" => ~HasRecord(task),
           pc' \in Posed => probe'.control \in Controls,
           pc' = "record" => rollout'.outcome \in Outcomes
    PROVE  InOrder'
<1>1. task \in Tasks /\ N \in Nat
  BY SweepAssumption DEF Running
<1>2. pc \notin {"down", "rank"} /\ pc' \notin {"down", "rank"}
  BY DEF Working
<1>3. task <= task
  BY <1>1 DEF Tasks
<1>4. task \notin Recorded
  <2>1. CASE pc = "next"
    <3>1. done[task] = NoStep /\ done[task] = journal[task]
      BY <1>1, <1>2, <1>3, <2>1 DEF InOrder, HasRecord
    <3> QED
      BY <3>1 DEF Recorded
  <2>2. CASE pc \in Working
    BY <2>2 DEF InOrder
  <2> QED
    BY <2>1, <2>2
<1>5. Recorded' = Recorded
  BY DEF Recorded
<1> QED
  BY <1>1, <1>2, <1>4, <1>5 DEF InOrder, Recorded

LEMMA StartKeepsOrder == InOrder /\ Running /\ Start => InOrder'
<1> SUFFICES ASSUME InOrder, Running, Start PROVE InOrder'
  OBVIOUS
<1>1. /\ pc = "down" /\ pc' = "next" /\ done' = journal
      /\ UNCHANGED <<journal, task, steps, probe, rollout>>
  BY DEF Start, hand
<1>2. Recorded' = Recorded
  BY <1>1 DEF Recorded
<1>3. task = 1 /\ N \in Nat
  BY <1>1, SweepAssumption DEF InOrder
<1>4. \A u \in Tasks : ~(u < task)
  BY <1>3 DEF Tasks
<1>5. \A u \in Tasks : done'[u] = journal'[u]
  BY <1>1
<1>6. DOMAIN done' = Tasks /\ DOMAIN steps' = Tasks
  BY <1>1 DEF InOrder, Running
<1>7. pc' \notin Posed /\ pc' \notin Working /\ pc' \notin {"down", "record", "rank"}
  BY <1>1 DEF Posed, Working
<1>8. \A t \in Recorded : journal[t].rollout.outcome \in Outcomes /\ journal[t].probe.control \in Controls
  BY DEF InOrder
<1>9. \A t \in Recorded : \A u \in Tasks : u < t => u \in Recorded
  BY DEF InOrder
<1> QED
  BY <1>1, <1>2, <1>4, <1>5, <1>6, <1>7, <1>8, <1>9 DEF InOrder

\* A process that ends leaves the journal as it is.
LEMMA ExitKeepsOrder ==
    ASSUME InOrder, Running, NEW why, Exit(why), UNCHANGED journal
    PROVE  InOrder'
<1>1. pc' = "down" /\ task' = 1 /\ DOMAIN done' = Tasks /\ DOMAIN steps' = Tasks
  BY DEF Exit, Empty
<1>2. Recorded' = Recorded
  BY DEF Recorded
<1>3. pc' \notin Posed /\ pc' \notin Working /\ pc' \notin {"record", "rank"}
  BY <1>1 DEF Posed, Working
<1>4. \A t \in Recorded : journal[t].rollout.outcome \in Outcomes /\ journal[t].probe.control \in Controls
  BY DEF InOrder
<1>5. \A t \in Recorded : \A u \in Tasks : u < t => u \in Recorded
  BY DEF InOrder
<1> QED
  BY <1>1, <1>2, <1>3, <1>4, <1>5 DEF InOrder

\* The loop moves on over a task the process now holds as it is recorded.
LEMMA KeepKeepsOrder ==
    ASSUME InOrder, Running, pc \notin {"down", "rank"}, NEW step, Keep(step), UNCHANGED done,
           journal'[task] = step, \A u \in Tasks : u # task => journal'[u] = journal[u],
           step # NoStep,
           step.rollout.outcome \in Outcomes, step.probe.control \in Controls
    PROVE  InOrder'
<1>1. task \in Tasks /\ N \in Nat /\ DOMAIN steps = Tasks
  BY SweepAssumption DEF Running, InOrder
<1>2. /\ journal'[task] = step /\ \A u \in Tasks : u # task => journal'[u] = journal[u]
      /\ steps'[task] = step /\ \A u \in Tasks : u # task => steps'[u] = steps[u]
      /\ DOMAIN steps' = Tasks
  BY <1>1 DEF Keep
<1>3. Recorded' = Recorded \cup {task}
  BY <1>1, <1>2 DEF Recorded
<1>4. pc' \in {"next", "rank"}
  BY <1>1, KeepMoves
<1>5. \A t \in Recorded' : journal'[t].rollout.outcome \in Outcomes /\ journal'[t].probe.control \in Controls
  <2>1. Recorded \subseteq Tasks
    BY DEF Recorded
  <2>2. \A t \in Recorded : t # task => journal'[t] = journal[t]
    BY <1>2, <2>1
  <2> QED
    BY <1>2, <1>3, <2>2 DEF InOrder
<1>6. \A u \in Tasks : u < task => u \in Recorded /\ steps[u] = journal[u]
  BY DEF InOrder
<1>7. \A t \in Recorded' : \A u \in Tasks : u < t => u \in Recorded'
  BY <1>1, <1>3, <1>6 DEF InOrder
<1>8. \A u \in Tasks : u < task \/ u = task => u \in Recorded' /\ steps'[u] = journal'[u]
  BY <1>1, <1>2, <1>3, <1>6
<1>9. CASE task < N
  <2>1. task' = task + 1 /\ pc' = "next"
    BY <1>9 DEF Keep
  <2>2. \A u \in Tasks : (u < task' => u < task \/ u = task) /\ (task' <= u => task <= u /\ u # task)
    BY <1>1, <2>1 DEF Tasks
  <2>3. \A u \in Tasks : task' <= u => done'[u] = journal'[u]
    BY <1>2, <2>2 DEF InOrder
  <2>4. \A u \in Tasks : u < task' => u \in Recorded' /\ steps'[u] = journal'[u]
    BY <1>8, <2>2
  <2> QED
    BY <1>2, <1>5, <1>7, <2>1, <2>3, <2>4 DEF InOrder, Posed, Working
<1>10. CASE ~(task < N)
  <2>1. task' = task /\ pc' = "rank"
    BY <1>10 DEF Keep
  <2>2. \A u \in Tasks : u < task \/ u = task
    BY <1>1, <1>10 DEF Tasks
  <2> QED
    BY <1>2, <1>5, <1>7, <1>8, <2>1, <2>2 DEF InOrder, Posed, Working
<1> QED
  BY <1>9, <1>10

LEMMA ReplayKeepsOrder == InOrder /\ Running /\ Replay => InOrder' /\ UNCHANGED journal
<1> SUFFICES ASSUME InOrder, Running, Replay PROVE InOrder'
  BY DEF Replay
<1>1. pc = "next" /\ done[task] # NoStep /\ Keep(done[task]) /\ UNCHANGED <<journal, done>>
  BY DEF Replay, HasRecord
<1>2. task \in Tasks /\ task <= task
  <2>1. task \in Tasks /\ N \in Nat
    BY SweepAssumption DEF Running
  <2> QED
    BY <2>1 DEF Tasks
<1>3. done[task] = journal[task]
  BY <1>1, <1>2 DEF InOrder
<1>4. task \in Recorded
  BY <1>1, <1>2, <1>3 DEF Recorded
<1>5. done[task].rollout.outcome \in Outcomes /\ done[task].probe.control \in Controls
  BY <1>3, <1>4 DEF InOrder
<1>6. pc \notin {"down", "rank"}
  BY <1>1
<1>7. journal'[task] = done[task] /\ \A u \in Tasks : u # task => journal'[u] = journal[u]
  BY <1>1, <1>3
<1> QED
  BY <1>1, <1>5, <1>6, <1>7, KeepKeepsOrder

\* What is written is the next task, with an outcome and a control.
LEMMA WroteNext ==
    ASSUME SweepInv, InOrder, Wrote
    PROVE  /\ task \in Tasks /\ task \notin Recorded /\ Recorded' = Recorded \cup {task}
           /\ journal'[task] = ThisStep /\ ThisStep # NoStep
           /\ ThisStep.rollout.outcome \in Outcomes /\ ThisStep.probe.control \in Controls
           /\ \A u \in Tasks : u # task => journal'[u] = journal[u]
<1>1. pc = "record" /\ journal' = [journal EXCEPT ![task] = ThisStep]
  BY DEF Wrote
<1>2. task \in Tasks /\ task \notin Recorded /\ DOMAIN journal = Tasks
  BY <1>1 DEF InOrder, SweepInv, Running, Working
<1>3. probe.control \in Controls /\ rollout.outcome \in Outcomes
  BY <1>1 DEF InOrder, Posed
<1>4. ThisStep.probe.control \in Controls /\ ThisStep.rollout.outcome \in Outcomes
  <2>1. DOMAIN rollout = DOMAIN Partial
    BY DEF SweepInv, InHand
  <2> QED
    BY <1>3, <2>1 DEF ThisStep, Partial
<1>5. ThisStep # NoStep
  BY <1>4 DEF NoStep, NoProbe, Controls
<1>6. journal'[task] = ThisStep /\ \A u \in Tasks : u # task => journal'[u] = journal[u]
  BY <1>1, <1>2
<1>7. Recorded' = Recorded \cup {task}
  BY <1>2, <1>5, <1>6 DEF Recorded
<1> QED
  BY <1>2, <1>4, <1>5, <1>6, <1>7

LEMMA RecordKeepsOrder == SweepInv /\ InOrder /\ Record => InOrder' /\ Wrote
<1> SUFFICES ASSUME SweepInv, InOrder, Record PROVE InOrder' /\ Wrote
  OBVIOUS
<1>1. pc = "record" /\ Wrote /\ Keep(ThisStep) /\ UNCHANGED done
  BY DEF Record, AppendStep, Wrote
<1>2. InOrder'
  BY <1>1, WroteNext, KeepKeepsOrder DEF SweepInv
<1> QED
  BY <1>1, <1>2

\* A kill inside the append leaves the next task recorded, or the journal as it was.
LEMMA KillWritingKeepsOrder ==
    SweepInv /\ InOrder /\ KillWriting => InOrder' /\ (Wrote \/ UNCHANGED journal)
<1> SUFFICES ASSUME SweepInv, InOrder, KillWriting PROVE InOrder' /\ (Wrote \/ UNCHANGED journal)
  OBVIOUS
<1>1. pc = "record" /\ Exit("killed") /\ (Wrote \/ UNCHANGED journal)
  BY DEF KillWriting, Wrote
<1>2. CASE UNCHANGED journal
  BY <1>1, <1>2, ExitKeepsOrder DEF SweepInv
<1>3. CASE Wrote
  <2>1. pc' = "down" /\ task' = 1 /\ DOMAIN done' = Tasks /\ DOMAIN steps' = Tasks
    BY <1>1 DEF Exit, Empty
  <2>2. pc' \notin Posed /\ pc' \notin Working /\ pc' \notin {"record", "rank"}
    BY <2>1 DEF Posed, Working
  <2>3. /\ Recorded' = Recorded \cup {task} /\ Recorded \subseteq Tasks /\ task \in Tasks
        /\ \A t \in Recorded : journal'[t] = journal[t]
    BY <1>3, WroteNext DEF Recorded
  <2>4. \A t \in Recorded' : /\ journal'[t].rollout.outcome \in Outcomes
                            /\ journal'[t].probe.control \in Controls
    BY <1>3, <2>3, WroteNext DEF InOrder
  <2>5. \A u \in Tasks : u < task => u \in Recorded
    BY <1>1 DEF InOrder
  <2>6. \A t \in Recorded' : \A u \in Tasks : u < t => u \in Recorded'
    BY <2>3, <2>5 DEF InOrder
  <2> QED
    BY <1>1, <2>1, <2>2, <2>4, <2>6 DEF InOrder
<1> QED
  BY <1>1, <1>2, <1>3

\* The control arm leaves the journal, and a probe behind it.
LEMMA ControlArmKeepsOrder ==
    ASSUME InOrder, Running, Reference \/ WithoutPatch \/ WithReference
    PROVE  InOrder' /\ UNCHANGED <<journal, exit>>
<1>1. /\ UNCHANGED <<journal, task, done, steps, exit>>
      /\ pc \in {"next", "without-patch", "with-reference"}
      /\ pc = "next" => ~HasRecord(task)
  BY DEF Reference, WithoutPatch, WithReference
<1>2. pc' \in {"without-patch", "with-reference"} \/ (pc' = "provision" /\ probe'.control \in Controls)
  <2>1. ASSUME NEW c \in Controls, NEW arm, Probed(c, arm)
        PROVE  pc' = "provision" /\ probe'.control \in Controls
    BY <2>1 DEF Probed
  <2>2. {"SKIPPED", "BROKEN", "INTACT"} \subseteq Controls
    BY DEF Controls
  <2>3. CASE Reference
    <3>1. Probed("SKIPPED", "none") \/ pc' = "without-patch"
      BY <2>3 DEF Reference
    <3> QED
      BY <2>1, <2>2, <3>1
  <2>4. CASE WithoutPatch
    <3>1. PICK arm \in Arms :
            CASE arm = "raised" -> Probed("SKIPPED", "none")
              [] arm = "FAIL" -> pc' = "with-reference" /\ probe' = [probe EXCEPT !.arm = "FAIL"]
              [] OTHER -> Probed("BROKEN", arm)
      BY <2>4 DEF WithoutPatch
    <3>2. CASE arm = "raised"
      BY <2>1, <2>2, <3>1, <3>2
    <3>3. CASE arm = "FAIL"
      BY <2>1, <2>2, <3>1, <3>3
    <3>4. CASE arm \notin {"raised", "FAIL"}
      BY <2>1, <2>2, <3>1, <3>4
    <3> QED
      BY <3>2, <3>3, <3>4
  <2>5. CASE WithReference
    <3>1. PICK arm \in Arms :
            CASE arm = "raised" -> Probed("SKIPPED", "none")
              [] arm = "PASS" -> Probed("INTACT", arm)
              [] OTHER -> Probed("BROKEN", arm)
      BY <2>5 DEF WithReference
    <3>2. CASE arm = "raised"
      BY <2>1, <2>2, <3>1, <3>2
    <3>3. CASE arm = "PASS"
      BY <2>1, <2>2, <3>1, <3>3
    <3>4. CASE arm \notin {"raised", "PASS"}
      BY <2>1, <2>2, <3>1, <3>4
    <3> QED
      BY <3>2, <3>3, <3>4
  <2> QED
    BY <2>3, <2>4, <2>5
<1>3. /\ pc' \in Working /\ pc' # "record" /\ pc \in Working \cup {"next"}
      /\ pc' \in Posed => pc' = "provision"
  BY <1>1, <1>2 DEF Working, Posed
<1>4. pc' \in Posed => probe'.control \in Controls
  BY <1>2, <1>3
<1> QED
  BY <1>1, <1>3, <1>4, WorkKeepsOrder

\* The rollout leaves the journal, and an outcome behind it.
LEMMA RolloutKeepsOrder ==
    ASSUME SweepInv, InOrder, Provision \/ Ask \/ Strict \/ Weak
    PROVE  InOrder' /\ UNCHANGED <<journal, exit>>
<1>1. /\ UNCHANGED <<journal, task, done, steps, exit, probe>>
      /\ pc \in {"provision", "ask", "strict", "weak"}
  BY DEF Provision, Ask, Strict, Weak
<1>2. \A o : DOMAIN rollout = DOMAIN Partial => [rollout EXCEPT !.outcome = o].outcome = o
  BY DEF Partial
<1>3. pc' \in {"ask", "strict", "weak"} \/ (pc' = "record" /\ rollout'.outcome \in Outcomes)
  <2>1. DOMAIN rollout = DOMAIN Partial
    BY DEF SweepInv, InHand
  <2>2. ASSUME NEW r, Scored(r), r.outcome \in Outcomes
        PROVE  pc' = "record" /\ rollout'.outcome \in Outcomes
    BY <2>2 DEF Scored
  <2>3. CASE Provision
    <3>1. pc' = "ask" \/ Scored(Unaskable("UNPROVISIONED")) \/ Scored(Unaskable("NO_ORACLE"))
      BY <2>3 DEF Provision
    <3>2. Unaskable("UNPROVISIONED").outcome \in Outcomes /\ Unaskable("NO_ORACLE").outcome \in Outcomes
      BY DEF Unaskable, Partial, Outcomes, Unscored
    <3> QED
      BY <2>2, <3>1, <3>2
  <2>4. CASE Ask
    <3>1. pc' = "strict" \/ Scored([rollout EXCEPT !.outcome = "NO_DIFF"])
      BY <2>4 DEF Ask
    <3>2. [rollout EXCEPT !.outcome = "NO_DIFF"].outcome \in Outcomes
      BY <1>2, <2>1 DEF Outcomes
    <3> QED
      BY <2>2, <3>1, <3>2
  <2>5. CASE Strict
    <3>1. pc' = "weak" \/ Scored(Faulty(rollout))
      BY <2>5 DEF Strict
    <3>2. Faulty(rollout).outcome = "UNVERIFIED"
      BY <2>1 DEF Faulty, Partial
    <3>3. Faulty(rollout).outcome \in Outcomes
      BY <3>2 DEF Outcomes, Unscored
    <3> QED
      BY <2>2, <3>1, <3>3
  <2>6. CASE Weak
    <3>1. pc = "weak" /\ pc' \in {"ask", "record"}
      BY <2>6 DEF Weak
    <3>2. Classify(answer) \in Outcomes
      BY <3>1, Classified DEF SweepInv, Running, Outcomes, Unscored
    <3>3. rollout'.outcome = Classify(answer)
      BY <2>1, <2>6 DEF Weak, Partial
    <3> QED
      BY <3>1, <3>2, <3>3
  <2> QED
    BY <2>3, <2>4, <2>5, <2>6
<1>4. /\ pc' \in Working /\ pc \in Working \cup {"next"} /\ pc # "next" /\ pc \in Posed
      /\ pc' = "record" => rollout'.outcome \in Outcomes
  BY <1>1, <1>3 DEF Working, Posed
<1>5. probe'.control \in Controls
  BY <1>1, <1>4 DEF InOrder
<1> QED
  BY <1>1, <1>4, <1>5, WorkKeepsOrder DEF SweepInv

\* The order is kept, and the journal only ever grows by the step in hand.
LEMMA StepOrder ==
    ASSUME SweepInv, InOrder, [Next]_vars
    PROVE  InOrder' /\ (Wrote \/ UNCHANGED journal)
<1>1. Running
  BY DEF SweepInv
<1>2. CASE Start
  BY <1>1, <1>2, StartKeepsOrder DEF Start
<1>3. CASE Replay
  BY <1>1, <1>3, ReplayKeepsOrder
<1>4. CASE Record
  BY <1>4, RecordKeepsOrder
<1>5. CASE Reference \/ WithoutPatch \/ WithReference
  BY <1>1, <1>5, ControlArmKeepsOrder
<1>6. CASE Provision \/ Ask \/ Strict \/ Weak
  BY <1>6, RolloutKeepsOrder
<1>7. CASE RankOrRefuse
  <2>1. PICK why : Exit(why)
    BY <1>7 DEF RankOrRefuse
  <2> QED
    BY <1>1, <1>7, <2>1, ExitKeepsOrder DEF RankOrRefuse
<1>8. CASE GeneratorRaises \/ WeakRaises \/ Kill
  BY <1>1, <1>8, ExitKeepsOrder DEF GeneratorRaises, WeakRaises, Kill
<1>9. CASE StartRefused
  BY <1>1, <1>9, ExitKeepsOrder DEF StartRefused
<1>10. CASE KillWriting
  BY <1>10, KillWritingKeepsOrder
<1>11. CASE UNCHANGED vars
  BY <1>11 DEF vars, process, hand, InOrder, Recorded
<1> QED
  BY <1>2, <1>3, <1>4, <1>5, <1>6, <1>7, <1>8, <1>9, <1>10, <1>11 DEF Next, Work

LEMMA OrderInvariant == Spec => [](SweepInv /\ InOrder)
<1>1. Init => InOrder
  BY InitOrder
<1>2. SweepInv /\ InOrder /\ [Next]_vars => InOrder'
  BY StepOrder
<1> QED
  BY <1>1, <1>2, SweepInvariant, PTL DEF Spec

\* A ranking is published only by RankOrRefuse over a proven harness, and once.
LEMMA RankedOnce ==
    ASSUME SweepInv, [Next]_vars
    PROVE  /\ exit' = "ranked" <=> \/ exit = "ranked"
                                   \/ RankOrRefuse /\ HarnessStatus(steps) = "PASS"
           /\ exit = "ranked" => UNCHANGED journal
           /\ Wrote => exit # "ranked" /\ exit' # "ranked"
<1>1. pc # "down" => exit = "none"
  BY DEF SweepInv, Running
<1>2. CASE Start \/ StartRefused
  BY <1>2 DEF Start, StartRefused, Exit, Over, RankOrRefuse, Wrote
<1>3. CASE RankOrRefuse
  BY <1>1, <1>3 DEF RankOrRefuse, Exit, Wrote
<1>4. CASE GeneratorRaises \/ WeakRaises \/ Kill \/ KillWriting
  BY <1>1, <1>4 DEF GeneratorRaises, WeakRaises, Kill, KillWriting, Exit, Wrote, RankOrRefuse
<1>5. CASE Replay \/ Record \/ Reference \/ WithoutPatch \/ WithReference
           \/ Provision \/ Ask \/ Strict \/ Weak
  <2>1. pc \notin {"down", "rank"} /\ UNCHANGED exit
    BY <1>5 DEF Replay, Record, Reference, WithoutPatch, WithReference, Provision, Ask, Strict, Weak
  <2> QED
    BY <1>1, <2>1 DEF RankOrRefuse
<1>6. CASE UNCHANGED vars
  <2>1. UNCHANGED <<journal, pc, exit>>
    BY <1>6 DEF vars, process
  <2>2. Wrote => exit = "none"
    BY <1>1 DEF Wrote
  <2>3. ~RankOrRefuse
    BY <2>1 DEF RankOrRefuse, Exit
  <2> QED
    BY <2>1, <2>2, <2>3
<1> QED
  BY <1>2, <1>3, <1>4, <1>5, <1>6 DEF Next, Work

-----------------------------------------------------------------------------
(* The steps of the sweep as steps of NightRecord. *)

LEMMA InitRefines == Init => Uninterrupted!RInit
<1> SUFFICES ASSUME Init PROVE Uninterrupted!RInit
  OBVIOUS
<1>1. \A t \in Tasks : journal[t] = NoStep
  BY DEF Init, Empty
<1>2. exit # "ranked"
  BY DEF Init
<1> QED
  BY <1>1, <1>2 DEF Uninterrupted!RInit, Uninterrupted!Unpublished, Tasks

\* A record is the next draw settled, under its own control.
LEMMA RecordSettles ==
    ASSUME SweepInv, InOrder, Wrote, exit # "ranked", exit' # "ranked",
           NEW CONSTANT this, this = task
    PROVE  Uninterrupted!Settle(1, this)
<1>1. /\ this \in Tasks /\ this \notin Recorded
      /\ journal'[this].rollout.outcome \in Outcomes /\ journal'[this].probe.control \in Controls
      /\ \A u \in Tasks : u # this => journal'[u] = journal[u]
  BY WroteNext
<1>2. journal[this] = NoStep /\ journal'[this] # NoStep
  BY <1>1 DEF Recorded, NoStep, NoProbe, Controls
<1>3. \A b \in 1 .. 1, u \in 1 .. N :
          Uninterrupted!Earlier(b, u, 1, this) => journal[u] # NoStep /\ RolloutOf(u).outcome # "absent"
  <2> SUFFICES ASSUME NEW b \in 1 .. 1, NEW u \in 1 .. N, Uninterrupted!Earlier(b, u, 1, this)
               PROVE  journal[u] # NoStep /\ RolloutOf(u).outcome # "absent"
    OBVIOUS
  <2>1. u < this
    BY DEF Uninterrupted!Earlier
  <2>2. u \in Recorded
    BY <2>1 DEF InOrder, Wrote, Tasks
  <2>3. journal[u].rollout.outcome \in Outcomes
    BY <2>2 DEF InOrder
  <2> QED
    BY <2>2, <2>3 DEF Recorded, RolloutOf, Outcomes, Unscored
<1> DEFINE settled == [a \in 1 .. 1 |-> [t \in Tasks |->
                          IF journal[t] = NoStep THEN "absent" ELSE RolloutOf(t).outcome]]
           probed  == [t \in Tasks |->
                          IF journal[t] = NoStep THEN "absent" ELSE journal[t].probe.control]
           o == journal'[this].rollout.outcome
           c == journal'[this].probe.control
<1>4. settled[1][this] = "absent" /\ probed[this] = "absent"
  BY <1>1, <1>2
<1>5. settled' = [settled EXCEPT ![1][this] = o]
  <2> DEFINE column == [t \in Tasks |-> IF journal[t] = NoStep THEN "absent" ELSE RolloutOf(t).outcome]
  <2>1. column' = [column EXCEPT ![this] = o]
    BY <1>1, <1>2 DEF RolloutOf
  <2>2. settled = [a \in 1 .. 1 |-> column] /\ settled' = [a \in 1 .. 1 |-> column']
    BY DEF RolloutOf
  <2> HIDE DEF column, settled, o
  <2> QED
    BY <2>1, <2>2
<1>6. probed' = [probed EXCEPT ![this] = c]
  BY <1>1, <1>2
<1>7. \A b \in 1 .. 1, u \in 1 .. N :
          Uninterrupted!Earlier(b, u, 1, this) => settled[b][u] # "absent"
  BY <1>3 DEF Tasks
<1> QED
  BY <1>1, <1>4, <1>5, <1>6, <1>7 DEF Uninterrupted!Settle, Uninterrupted!Unpublished

\* A ranking publishes what the journal holds.
LEMMA RankPublishes ==
    ASSUME SweepInv, InOrder, RankOrRefuse, HarnessStatus(steps) = "PASS",
           exit # "ranked", exit' = "ranked"
    PROVE  Uninterrupted!PublishRecord
<1>1. pc = "rank" /\ UNCHANGED journal
  BY DEF RankOrRefuse
<1>2. \A u \in Tasks : journal[u] # NoStep /\ steps[u] = journal[u] /\ RolloutOf(u).outcome \in Outcomes
  BY <1>1 DEF InOrder, Recorded, RolloutOf
<1>3. /\ \A t \in Tasks : journal[t].probe.control # "BROKEN"
      /\ \E t \in Tasks : journal[t].probe.control = "INTACT"
  BY <1>2 DEF HarnessStatus
<1> DEFINE settled == [a \in 1 .. 1 |-> [t \in Tasks |->
                          IF journal[t] = NoStep THEN "absent" ELSE RolloutOf(t).outcome]]
           probed  == [t \in Tasks |->
                          IF journal[t] = NoStep THEN "absent" ELSE journal[t].probe.control]
           won == {<<1, t>> : t \in {u \in Tasks : RolloutOf(u).outcome = "SOLVED"}}
<1>4. \A a \in 1 .. 1, t \in 1 .. N : settled[a][t] = RolloutOf(t).outcome /\ settled[a][t] # "absent"
  BY <1>2 DEF Tasks, Outcomes, Unscored
<1>5. \A t \in Tasks : probed[t] = journal[t].probe.control
  BY <1>2
<1>6. won' = {d \in (1 .. 1) \X (1 .. N) : settled[d[1]][d[2]] = "SOLVED"}
  <2>1. won' = won
    BY <1>1 DEF RolloutOf
  <2>2. \A d \in won : d \in (1 .. 1) \X (1 .. N) /\ settled[d[1]][d[2]] = "SOLVED"
    BY <1>4 DEF Tasks
  <2>3. ASSUME NEW d \in (1 .. 1) \X (1 .. N), settled[d[1]][d[2]] = "SOLVED"
        PROVE  d \in won
    <3>1. d = <<1, d[2]>> /\ d[2] \in Tasks
      BY DEF Tasks
    <3>2. RolloutOf(d[2]).outcome = "SOLVED"
      BY <1>4, <2>3, <3>1 DEF Tasks
    <3> QED
      BY <3>1, <3>2
  <2> QED
    BY <2>1, <2>2, <2>3
<1>7. \A s \in {"this"} : Uninterrupted!Proven(s)
  BY <1>3, <1>5 DEF Uninterrupted!Proven, Tasks
<1>8. UNCHANGED settled /\ UNCHANGED probed
  BY <1>1 DEF RolloutOf
<1> QED
  BY <1>4, <1>6, <1>7, <1>8 DEF Uninterrupted!PublishRecord, Uninterrupted!Unpublished

LEMMA StepRefines == SweepInv /\ InOrder /\ [Next]_vars => [Uninterrupted!RNext]_(Uninterrupted!rvars)
<1> SUFFICES ASSUME SweepInv, InOrder, [Next]_vars
             PROVE  Uninterrupted!RNext \/ UNCHANGED Uninterrupted!rvars
  OBVIOUS
<1>1. CASE Wrote
  <2>1. exit # "ranked" /\ exit' # "ranked" /\ task \in 1 .. N
    BY <1>1, RankedOnce DEF SweepInv, Running, Tasks
  <2>2. PICK this \in 1 .. N : this = task
    BY <2>1
  <2>3. Uninterrupted!Settle(1, this)
    BY <1>1, <2>1, <2>2, RecordSettles
  <2> QED
    BY <2>3 DEF Uninterrupted!RNext
<1>2. CASE UNCHANGED journal /\ exit' = "ranked" /\ exit # "ranked"
  BY <1>2, RankedOnce, RankPublishes DEF Uninterrupted!RNext
<1>3. CASE UNCHANGED journal /\ (exit' = "ranked" <=> exit = "ranked")
  BY <1>3 DEF Uninterrupted!rvars, RolloutOf
<1> QED
  BY <1>1, <1>2, <1>3, RankedOnce, StepOrder

\* The journal of a sweep, however often it was interrupted, raised out of and given again, is the
\* record of a sweep that was not: tasks settle in order, each once and for good, and what is ranked
\* is exactly what the settled record deserves (sweep.py:84-183, bakeoff/journal.py "a resumed run
\* produces the record set an uninterrupted run would have produced").
THEOREM SweepIsUninterruptedHolds == Spec => SweepIsUninterrupted
<1>1. Spec => Uninterrupted!RInit
  BY InitRefines DEF Spec
<1> QED
  BY <1>1, StepRefines, OrderInvariant, PTL DEF Spec, SweepIsUninterrupted, Uninterrupted!RSpec

-----------------------------------------------------------------------------
(* Types, and the bound on what a rollout asks. *)

\* A completion is asked for before each verification, and a repair only while one is left.
Asking ==
    /\ pc \in {"down", "next", "without-patch", "with-reference", "provision"} => asked = 0
    /\ pc = "ask" => asked <= Repairs

LEMMA Bounds == Repairs \in Nat /\ MaxKills \in Nat
  BY SweepAssumption

LEMMA NothingYet ==
    0 \in 0 .. Repairs + 1 /\ 0 \in 0 .. MaxKills /\ Unbuilt \in [Keys -> {"unbuilt", "built", "failed"}]
<1>1. 0 \in 0 .. Repairs + 1 /\ 0 \in 0 .. MaxKills
  BY Bounds
<1> QED
  BY <1>1 DEF Unbuilt

LEMMA StepsAreTyped ==
    /\ NoProbe \in Probes /\ Partial \in Rollouts /\ NoStep \in Steps
    /\ Empty \in [Tasks -> Steps]
  BY DEF NoProbe, Partial, NoStep, Empty, Probes, Rollouts, Steps, Controls, Outcomes, Unscored,
         Statuses

LEMMA ClassifyTyped ==
    ASSUME NEW a \in StrictAnswers
    PROVE  Classify(a) \in Outcomes
<1>1. a.status \in Statuses
  BY DEF StrictAnswers, Faulted, Refused, Ran, Answer, Statuses, Unread
<1> QED
  BY <1>1 DEF Classify, Outcomes, Unscored, Statuses

\* A process that ends holds nothing.
LEMMA ExitTyped ==
    ASSUME TypeOK, NEW why \in {"killed", "GeneratorRaised", "WeakRaised", "JournalUnreadable",
                        "ranked", "HarnessNotProven"},
           Exit(why), journal' \in [Tasks -> Steps], tail' \in Tails, kills' \in 0 .. MaxKills
    PROVE  TypeOK' /\ Asking'
<1>1. /\ pc' = "down" /\ task' = 1 /\ done' = Empty /\ steps' = Empty /\ built' = Unbuilt
      /\ probe' = NoProbe /\ rollout' = Partial /\ asked' = 0 /\ answer' = NoAnswer /\ exit' = why
  BY DEF Exit, DropHand
<1> QED
  BY <1>1, NothingYet, FirstTask, StepsAreTyped DEF TypeOK, Asking

LEMMA InitTyped == Init => TypeOK /\ Asking
<1> SUFFICES ASSUME Init PROVE TypeOK /\ Asking
  OBVIOUS
<1> QED
  BY NothingYet, FirstTask, StepsAreTyped DEF Init, EmptyHand, TypeOK, Asking, Tails

LEMMA KilledOnce ==
    ASSUME TypeOK, kills < MaxKills
    PROVE  kills + 1 \in 0 .. MaxKills
  BY Bounds DEF TypeOK

LEMMA StepTyped ==
    ASSUME SweepInv, TypeOK, Asking, [Next]_vars
    PROVE  TypeOK' /\ Asking'
<1>0. Repairs \in Nat /\ asked \in Nat /\ kills \in Nat
  BY Bounds DEF TypeOK
<1>1. CASE Start
  BY <1>1 DEF Start, hand, TypeOK, Asking
<1>2. CASE Replay
  <2>1. done[task] \in Steps
    BY DEF TypeOK
  <2>2. steps' \in [Tasks -> Steps]
    BY <1>2, <2>1 DEF Replay, Keep, TypeOK
  <2>3. pc' \in {"next", "rank"} /\ task' \in Tasks
    BY <1>2, KeepMoves DEF Replay, TypeOK
  <2> QED
    BY <1>2, <2>2, <2>3 DEF Replay, hand, TypeOK, Asking
<1>A. ThisStep \in Steps /\ [journal EXCEPT ![task] = ThisStep] \in [Tasks -> Steps]
  <2>1. [rollout EXCEPT !.by = kills + 1] \in Rollouts
    BY <1>0 DEF TypeOK, Rollouts
  <2>2. ThisStep \in Steps
    BY <2>1 DEF ThisStep, TypeOK, Steps
  <2> QED
    BY <2>2 DEF TypeOK
<1>3. CASE Record
  <2>1. tail' \in Tails
    BY <1>3 DEF Record, AppendStep, Tails
  <2>2. steps' \in [Tasks -> Steps] /\ journal' \in [Tasks -> Steps]
    BY <1>3, <1>A DEF Record, AppendStep, Keep, TypeOK
  <2>3. pc' \in {"next", "rank"} /\ task' \in Tasks
    BY <1>3, KeepMoves DEF Record, TypeOK
  <2>4. 0 \in 0 .. Repairs + 1
    BY <1>0
  <2> QED
    BY <1>3, <2>1, <2>2, <2>3, <2>4, StepsAreTyped DEF Record, DropHand, TypeOK, Asking
<1>4. CASE Reference
  <2>1. built' \in [Keys -> {"unbuilt", "built", "failed"}]
    BY <1>4, AcquireAnswers DEF Reference, TypeOK
  <2>2. /\ pc' \in {"provision", "without-patch"}
        /\ probe' \in {probe, [control |-> "SKIPPED", arm |-> "none"]}
    BY <1>4 DEF Reference, Probed
  <2>3. probe' \in Probes
    BY <2>2 DEF TypeOK, Probes, Controls
  <2> QED
    BY <1>4, <2>1, <2>2, <2>3 DEF Reference, TypeOK, Asking
<1>5. CASE WithoutPatch \/ WithReference
  <2>1. PICK arm \in Arms :
            /\ pc' \in {"provision", "with-reference"}
            /\ \/ probe' = [control |-> "SKIPPED", arm |-> "none"]
               \/ probe' = [probe EXCEPT !.arm = "FAIL"]
               \/ arm # "raised" /\ \E c \in Controls : probe' = [control |-> c, arm |-> arm]
    BY <1>5 DEF WithoutPatch, WithReference, Probed, Controls
  <2>2. arm = "raised" \/ arm \in Statuses
    BY DEF Arms, StrictAnswers, Faulted, Refused, Ran, Unread, Answer, Statuses
  <2>3. probe' \in Probes
    BY <2>1, <2>2 DEF TypeOK, Probes, Controls, Statuses
  <2> QED
    BY <1>5, <2>1, <2>3 DEF WithoutPatch, WithReference, TypeOK, Asking
<1>6. CASE Provision
  <2>1. built' \in [Keys -> {"unbuilt", "built", "failed"}]
    BY <1>6, AcquireAnswers DEF Provision, TypeOK
  <2>2. /\ pc' \in {"record", "ask"}
        /\ rollout' \in {rollout, Unaskable("UNPROVISIONED"), Unaskable("NO_ORACLE")}
    BY <1>6 DEF Provision, Scored
  <2>3. Unaskable("UNPROVISIONED") \in Rollouts /\ Unaskable("NO_ORACLE") \in Rollouts
    BY DEF Unaskable, Partial, Rollouts, Outcomes, Unscored, Statuses
  <2>4. rollout' \in Rollouts
    BY <2>2, <2>3 DEF TypeOK
  <2> QED
    BY <1>0, <1>6, <2>1, <2>2, <2>4 DEF Provision, TypeOK, Asking
<1>7. CASE Ask
  <2>1. /\ pc' \in {"strict", "record"} /\ rollout' \in {rollout, [rollout EXCEPT !.outcome = "NO_DIFF"]}
        /\ asked' = asked + 1 /\ asked <= Repairs
    BY <1>7 DEF Ask, Scored, Asking
  <2>2. rollout' \in Rollouts
    BY <2>1 DEF TypeOK, Rollouts, Outcomes
  <2>3. asked' \in 0 .. Repairs + 1
    BY <1>0, <2>1
  <2> QED
    BY <1>7, <2>1, <2>2, <2>3 DEF Ask, TypeOK, Asking
<1>8. CASE Strict
  <2>1. /\ pc' \in {"weak", "record"} /\ answer' \in StrictAnswers \cup {NoAnswer}
        /\ rollout' \in {rollout, Faulty(rollout)}
    BY <1>8 DEF Strict, Scored, TypeOK
  <2>2. rollout' \in Rollouts
    BY <1>0, <2>1 DEF TypeOK, Faulty, Rollouts, Outcomes, Unscored, Statuses
  <2> QED
    BY <1>8, <2>1, <2>2 DEF Strict, TypeOK, Asking
<1>9. CASE Weak
  <2>1. answer \in StrictAnswers
    BY <1>9 DEF Weak, SweepInv, Running
  <2>2. answer.status \in Statuses
    BY <2>1 DEF StrictAnswers, Faulted, Refused, Ran, Unread, Answer, Statuses
  <2>3. PICK w \in WeakStatuses :
            rollout' = [rollout EXCEPT !.outcome = Classify(answer), !.strict = answer.status,
                                       !.weak = w, !.strictOf = asked, !.weakOf = asked]
    BY <1>9 DEF Weak
  <2>4. w \in Statuses
    BY DEF WeakStatuses, Statuses
  <2>5. rollout' \in Rollouts
    BY <1>0, <2>1, <2>2, <2>3, <2>4, ClassifyTyped DEF TypeOK, Rollouts
  <2>6. pc' \in {"ask", "record"} /\ (pc' = "ask" => asked <= Repairs)
    BY <1>9 DEF Weak, MoreRepairs
  <2> QED
    BY <1>9, <2>5, <2>6 DEF Weak, TypeOK, Asking
<1>10. CASE RankOrRefuse
  BY <1>10, ExitTyped DEF RankOrRefuse, TypeOK
<1>11. CASE GeneratorRaises \/ WeakRaises \/ Kill
  BY <1>11, ExitTyped, KilledOnce DEF GeneratorRaises, WeakRaises, Kill, TypeOK
<1>12. CASE StartRefused
  BY <1>12, ExitTyped DEF StartRefused, TypeOK
<1>13. CASE KillWriting
  <2>1. tail' \in Tails /\ journal' \in [Tasks -> Steps]
    BY <1>13, <1>A DEF KillWriting, Tails, TypeOK
  <2> QED
    BY <1>13, <2>1, ExitTyped, KilledOnce DEF KillWriting
<1>14. CASE UNCHANGED vars
  BY <1>14 DEF vars, process, hand, TypeOK, Asking
<1> QED
  BY <1>1, <1>2, <1>3, <1>4, <1>5, <1>6, <1>7, <1>8, <1>9, <1>10, <1>11, <1>12, <1>13, <1>14
     DEF Next, Work

\* Every variable keeps its kind, and no rollout asks for more than its repairs and one, for every
\* task set, pin sets and number of interruptions.
THEOREM TypesHold == Spec => []TypeOK
<1>1. Init => TypeOK /\ Asking
  BY InitTyped
<1>2. SweepInv /\ TypeOK /\ Asking /\ [Next]_vars => TypeOK' /\ Asking'
  BY StepTyped
<1> QED
  BY <1>1, <1>2, SweepInvariant, PTL DEF Spec
=============================================================================
