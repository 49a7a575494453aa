---------------------------- MODULE StrictVerify ----------------------------
(***************************************************************************)
(* One call of `verify_strict` (verify/strict.py): the checkout, the two   *)
(* scope checks around the patch, the restore of the operator-held tests,  *)
(* the confined run and its judgement.  The patch, the machine and what    *)
(* pytest reports are whatever they may be.                                *)
(***************************************************************************)
EXTENDS Verdicts

CONSTANTS
    FailToPass, PassToPass,  \* the declared node ids (`load_task`: no id in both)
    Others,                  \* node ids nobody declared
    Held,                    \* the operator-held test paths (`test_blobs`)
    Spelled,                 \* other paths whose case-folded name is a held one's
    Sources,                 \* all other paths
    ExitCodes,               \* what pytest can exit with
    MaxCases                 \* bound: the cases a report can hold

Declared == FailToPass \cup PassToPass
Paths == Held \cup Spelled \cup Sources
Cases == [id : Declared \cup Others, outcome : CaseOutcomes]
Reports == UNION {[1 .. n -> Cases] : n \in 0 .. MaxCases}

ASSUME StrictAssumption ==
    /\ IsFiniteSet(Declared) /\ FailToPass # {}
    /\ FailToPass \cap PassToPass = {}
    /\ Held \cap Spelled = {} /\ Held \cap Sources = {} /\ Spelled \cap Sources = {}
    /\ ExitCodes \subseteq Int
    /\ MaxCases \in Nat

\* What git makes of a patch: whether it parses, whether it applies, the paths
\* its numstat names, and the paths the work tree shows changed afterwards (a
\* rename names its target only, and changes both).
Patches == [parses : BOOLEAN, applies : BOOLEAN, names : SUBSET Paths, changes : SUBSET Paths]

VARIABLES
    stage,        \* where `verify_strict` is
    patch,     \* the patch it was given
    tree,      \* [Paths -> "golden", "base" or "patched"]: who wrote each file last
    run,       \* the confined run: its exit status and report
    verdicts,  \* the sub-verdicts of the answer
    fault      \* whether the machine, not the patch, kept the verification from its end

verifyVars == <<stage, patch, tree, run, verdicts, fault>>

NotRun == [rc |-> -1, readable |-> FALSE, cases |-> <<>>]

VerifyInit ==
    /\ stage = "checkout"
    /\ patch \in {p \in Patches : p.names \subseteq p.changes}
    /\ tree = [p \in Paths |-> "base"]
    /\ run = NotRun
    /\ verdicts = <<>>
    /\ fault = FALSE

Return(answer) == stage' = "done" /\ verdicts' = answer

\* `materialise`: a checkout of the base, or CheckoutError.
Materialise ==
    /\ stage = "checkout"
    /\ \/ stage' = "blobs" /\ UNCHANGED <<verdicts, fault>>
       \/ Return(Only("checkout", "UNVERIFIED")) /\ fault' = TRUE
    /\ UNCHANGED <<patch, tree, run>>

\* Every held test must be in the checkout.
TaskBlobs ==
    /\ stage = "blobs"
    /\ \/ stage' = "declared" /\ UNCHANGED <<verdicts, fault>>
       \/ Return(Only("task-blobs", "UNVERIFIED")) /\ fault' = TRUE
    /\ UNCHANGED <<patch, tree, run>>

\* `_held_among`: held as spelled, or under another case.
HeldAmong(paths) == paths \cap (Held \cup Spelled)

\* A git that exits non-zero for a reason of its own (killed, out of memory or of disk) is
\* a PatchError like any other: the answer is the one an unusable patch gets.
GitDies == Return(Only("patch-apply", "FAIL")) /\ fault' = TRUE

\* The first scope check, on what the patch says of itself.
DeclaredPaths ==
    /\ stage = "declared"
    /\ \/ /\ CASE ~patch.parses -> Return(Only("patch-apply", "FAIL"))
               [] patch.parses /\ HeldAmong(patch.names) # {} -> Return(Only("patch-scope", "FAIL"))
               [] OTHER -> stage' = "apply" /\ UNCHANGED verdicts
          /\ UNCHANGED fault
       \/ GitDies
    /\ UNCHANGED <<patch, tree, run>>

ApplyPatch ==
    /\ stage = "apply"
    /\ \/ /\ patch.applies
          /\ tree' = [p \in Paths |-> IF p \in patch.changes THEN "patched" ELSE tree[p]]
          /\ stage' = "touched" /\ UNCHANGED <<verdicts, fault>>
       \/ ~patch.applies /\ Return(Only("patch-apply", "FAIL")) /\ UNCHANGED <<tree, fault>>
       \/ GitDies /\ UNCHANGED tree
    /\ UNCHANGED <<patch, run>>

\* The second, on what it did to the work tree.
TouchedPaths ==
    /\ stage = "touched"
    /\ IF HeldAmong({p \in Paths : tree[p] = "patched"}) # {}
         THEN Return(Only("patch-scope", "FAIL"))
         ELSE stage' = "restore" /\ UNCHANGED verdicts
    /\ UNCHANGED <<patch, tree, run, fault>>

Restore ==
    /\ stage = "restore"
    /\ tree' = [p \in Paths |-> IF p \in Held THEN "golden" ELSE tree[p]]
    /\ stage' = "run"
    /\ UNCHANGED <<patch, run, verdicts, fault>>

\* pytest reached a conclusion and its report says which.
Concluded(r) == r.readable /\ r.rc \in {0, 1}

\* `run_confined`: pytest exited with some status and left some report, or it was killed
\* at the time limit or never started.  A run without a conclusion was stopped by the patch
\* or by the machine, and nothing in its status or its report says by which.
Run ==
    /\ stage = "run"
    /\ \/ /\ \E rc \in ExitCodes, cases \in Reports, readable \in BOOLEAN :
               run' = [rc |-> rc, readable |-> readable,
                       cases |-> IF readable THEN cases ELSE <<>>]
          /\ fault' \in (IF Concluded(run') THEN {FALSE} ELSE BOOLEAN)
          /\ stage' = "judge" /\ UNCHANGED verdicts
       \/ Return(Only("sandbox-run", "UNVERIFIED")) /\ fault' = TRUE /\ UNCHANGED run
    /\ UNCHANGED <<patch, tree>>

Judge ==
    /\ stage = "judge"
    /\ Return(IF run.readable THEN Judgement(run.rc, run.cases, FailToPass, Declared)
                              ELSE NoReport(run.rc))
    /\ UNCHANGED <<patch, tree, run, fault>>

\* A git that times out, a disk that refuses, a platform without a sandbox: the
\* exception leaves `verify_strict` from any step.
Raise ==
    /\ stage \notin {"done", "raised"}
    /\ stage' = "raised" /\ fault' = TRUE
    /\ UNCHANGED <<patch, tree, run, verdicts>>

VerifyNext ==
    \/ Materialise \/ TaskBlobs \/ DeclaredPaths \/ ApplyPatch \/ TouchedPaths
    \/ Restore \/ Run \/ Judge \/ Raise

VerifySpec == VerifyInit /\ [][VerifyNext]_verifyVars

-----------------------------------------------------------------------------
Result == Answer(StatusOf(verdicts), Kinds(verdicts))

Stages == {"checkout", "blobs", "declared", "apply", "touched", "restore", "run", "judge",
          "done", "raised"}

\* Every variable keeps its kind.
VerifyTypeOK ==
    /\ stage \in Stages
    /\ patch \in Patches
    /\ tree \in [Paths -> {"base", "patched", "golden"}]
    /\ run.rc \in ExitCodes \cup {-1} /\ run.readable \in BOOLEAN
    /\ run.cases \in Seq(Cases)
    /\ fault \in BOOLEAN

\* A PASS is earned: the run saw the operator's own tests and a patch that reached none
\* of them under any spelling, it exited 0, ran every declared test exactly once and
\* nothing else, skipped none, every fail-to-pass test passed, and the machine failed
\* nowhere on the way: what half-happened is never a pass (strict.py:39-42).
PassIsEarned ==
    stage = "done" /\ StatusOf(verdicts) = "PASS" =>
        /\ ~fault
        /\ \A p \in Held : tree[p] = "golden"
        /\ patch.changes \cap (Held \cup Spelled) = {}
        /\ run.readable /\ run.rc = 0
        /\ \A i \in DOMAIN run.cases : /\ run.cases[i].id \in Declared
                                       /\ run.cases[i].outcome # "skipped"
        /\ \A id \in Declared : \E i \in DOMAIN run.cases :
              /\ run.cases[i].id = id
              /\ id \in FailToPass => run.cases[i].outcome = "passed"
              /\ \A j \in DOMAIN run.cases : run.cases[j].id = id => j = i

\* Every answer is one its callers are modelled against (`StrictAnswers`).
AnswersInContract == stage = "done" => Result \in StrictAnswers
=============================================================================
