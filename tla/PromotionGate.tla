---------------------------- MODULE PromotionGate ----------------------------
(***************************************************************************)
(* The never-regress gate (loop/gate.py `run_gate`): two checkpoints are   *)
(* scored over the held-out tasks and the public ones, what reached no     *)
(* verdict is verified again on the recorded answer, and the comparison is *)
(* decided and written as the promotion record.  The machine may fail any  *)
(* verification, and the process may die anywhere.                         *)
(***************************************************************************)
EXTENDS Verdicts

CONSTANTS
    H,              \* how many tasks are held out: they are visited first ...
    P,              \* ... and how many are public, after them
    Prompts,
    PromptOf,       \* the prompt each task renders
    Completions,    \* what a base can answer
    Passing,        \* <<task, completion>>: STRICT re-execution passes
    RETRY_COUNT,
    Inputs          \* what the command can be given

Held  == 1 .. H
Tasks == 1 .. H + P

ASSUME GateAssumption ==
    /\ H \in Nat \ {0}
    /\ P \in Nat
    /\ PromptOf \in [Tasks -> Prompts]
    /\ "absent" \notin Completions
    /\ Passing \subseteq Tasks \X Completions
    /\ RETRY_COUNT \in Nat \ {0}

Sides == {"candidate", "incumbent"}

\* The outcomes the gate tells apart: every graded zero is one.
Uncovered == {"UNVERIFIED", "UNPROVISIONED", "NO_ORACLE"}
Outcomes  == {"SOLVED", "NOT_SOLVED"} \cup Uncovered

NoText   == "absent"
Unscored == "unscored"
NoRecord == [exit |-> "none"]

VARIABLES
    record,     \* on disk: the promotion record, or NoRecord while there is none to read
    pc, side, task,
    built,      \* the environments, one cache for both sides: "unbuilt", "built" or "failed"
    answer,     \* [Sides -> [Tasks -> completion]]: what the base answered when first asked
    kept,       \* [Sides -> [Prompts -> completion]]: the recorder, by prompt
    outcome,    \* [Sides -> [Tasks -> outcome]]
    graded,     \* [Sides -> [Tasks -> completion]]: the answer the outcome is about
    used,       \* retries spent on the task in hand
    retries,    \* what the retries did
    exit        \* how the last process ended

memory == <<side, task, built, answer, kept, outcome, graded, used, retries>>
vars   == <<record, pc, memory, exit>>

BySide(f) == [s \in Sides |-> f]

Init ==
    /\ record = NoRecord
    /\ pc = "down" /\ side = "candidate" /\ task = 1
    /\ built = [t \in Tasks |-> "unbuilt"]
    /\ answer = BySide([t \in Tasks |-> NoText])
    /\ kept = BySide([p \in Prompts |-> NoText])
    /\ outcome = BySide([t \in Tasks |-> Unscored])
    /\ graded = BySide([t \in Tasks |-> NoText])
    /\ used = 0 /\ retries = {}
    /\ exit = "none"

\* The process ends for `why`; what it held is gone.
Exit(why) ==
    /\ pc' = "down" /\ side' = "candidate" /\ task' = 1
    /\ built' = [t \in Tasks |-> "unbuilt"]
    /\ answer' = BySide([t \in Tasks |-> NoText])
    /\ kept' = BySide([p \in Prompts |-> NoText])
    /\ outcome' = BySide([t \in Tasks |-> Unscored])
    /\ graded' = BySide([t \in Tasks |-> NoText])
    /\ used' = 0 /\ retries' = {}
    /\ exit' = why

Over == exit \in {"decided", "refused"}

-----------------------------------------------------------------------------
(* Before anything is scored. *)

\* The base a checkpoint names is among the fetched weights.
HasBase(c) == c.base = "fetched"
Sealed(c)  == c.untrained \/ c.dataset = "recorded"

\* A checkpoint that names no backend is comparable with any.
OneBackend(i) == \/ "none" \in {i.candidate.backend, i.incumbent.backend}
                 \/ i.candidate.backend = i.incumbent.backend

\* What `run_gate` refuses, in the order it looks.
Refusals(i) ==
    << <<"HeldoutUnreadable",   i.heldout = "unreadable">>,
       <<"UnknownHeldoutId",    i.heldout = "unknown id">>,
       <<"CheckpointUnverified", ~i.candidate.verifies \/ ~i.incumbent.verifies>>,
       <<"UntrainedCandidate",   i.candidate.untrained>>,
       <<"MismatchedBackend",    ~OneBackend(i)>>,
       <<"CheckpointUnverified", "unnamed" \in {i.candidate.base, i.incumbent.base}>>,
       <<"DatasetDigestUnrecorded", ~Sealed(i.candidate) \/ ~Sealed(i.incumbent)>>,
       <<"WeightsUnverified",    i.weights = "unverified">>,
       <<"NoBaseWeights",        ~HasBase(i.candidate) \/ ~HasBase(i.incumbent)>> >>

Accepted(i) == \A n \in DOMAIN Refusals(i) : Refusals(i)[n][2] = FALSE

Start ==
    /\ pc = "down" /\ ~Over
    /\ \E i \in Inputs :
         \/ Accepted(i) /\ pc' = "score" /\ exit' = "none" /\ UNCHANGED memory
         \/ ~Accepted(i) /\ Exit("refused")
    /\ UNCHANGED record

-----------------------------------------------------------------------------
(* Scoring. *)

\* Mutant of Acquire: each side builds its own.
AcquireAnew(t, got) ==
    /\ got \in {"built", "failed"}
    /\ built' = [built EXCEPT ![t] = got]

\* The cached answer, or a fresh one.
Acquire(t, got) ==
    IF built[t] # "unbuilt" THEN got = built[t] /\ UNCHANGED built
    ELSE got \in {"built", "failed"} /\ built' = [built EXCEPT ![t] = got]

\* STRICT over a completion: its truth, or no verdict.
Verdict(t, c) == {"UNVERIFIED", IF <<t, c>> \in Passing THEN "SOLVED" ELSE "NOT_SOLVED"}

\* All of the candidate's tasks, then all of the incumbent's, then the retries.
NextUnscored ==
    IF task + 1 \in Tasks THEN task' = task + 1 /\ UNCHANGED <<side, pc>>
    ELSE /\ task' = 1
         /\ side' = IF side = "candidate" THEN "incumbent" ELSE "candidate"
         /\ pc' = IF side = "candidate" THEN "score" ELSE "retry"

SetOutcome(o) == outcome' = [outcome EXCEPT ![side][task] = o]

\* `score` returns before any prompt: no environment, or no oracle sources.
ScoreUnasked ==
    /\ pc = "score"
    /\ \E got \in {"built", "failed"} :
         /\ Acquire(task, got)
         /\ SetOutcome(IF got = "failed" THEN "UNPROVISIONED" ELSE "NO_ORACLE")
    /\ NextUnscored
    /\ UNCHANGED <<record, answer, kept, graded, used, retries, exit>>

\* The base is asked once; the recorder keeps the first answer to a prompt.
Score ==
    /\ pc = "score"
    /\ Acquire(task, "built")
    /\ \E c \in Completions :
         /\ answer' = [answer EXCEPT ![side][task] = c]
         /\ kept' = [kept EXCEPT ![side][PromptOf[task]] = IF @ = NoText THEN c ELSE @]
         /\ graded' = [graded EXCEPT ![side][task] = c]
         /\ \E o \in Verdict(task, c) : SetOutcome(o)
    /\ NextUnscored
    /\ UNCHANGED <<record, used, retries, exit>>

-----------------------------------------------------------------------------
(* The retries: the held-out tasks of a side that reached no verdict. *)

Retryable(o) == o \in Uncovered

\* What there is to replay.
Replayed == kept[side][PromptOf[task]]

\* An unasked task's own prompt is the empty one: nothing was recorded for it.
HasAnswer == answer[side][task] # NoText /\ Replayed # NoText

\* Mutant of Replays: the base is asked again.
ReplaysAnew == Completions

Replays == {Replayed}

Spent(n) == n + 1

\* Mutant of NextRetried: the pass starts over while anything is without a verdict.
NextRetriedUntilSettled ==
    /\ used' = 0
    /\ IF task + 1 \in Held THEN task' = task + 1 /\ UNCHANGED <<side, pc>>
       ELSE /\ task' = 1
            /\ UNCHANGED side
            /\ pc' = IF \E t \in Held : Retryable(outcome[side][t]) THEN "retry" ELSE "decide"

NextRetried ==
    /\ used' = 0
    /\ IF task + 1 \in Held THEN task' = task + 1 /\ UNCHANGED <<side, pc>>
       ELSE /\ task' = 1
            /\ side' = IF side = "candidate" THEN "incumbent" ELSE "candidate"
            /\ pc' = IF side = "candidate" THEN "retry" ELSE "decide"

RetryNothing ==
    /\ pc = "retry"
    /\ ~Retryable(outcome[side][task]) \/ ~HasAnswer
    /\ NextRetried
    /\ UNCHANGED <<record, built, answer, kept, outcome, graded, retries, exit>>

Tried(after) == [side |-> side, task |-> task, before |-> outcome[side][task],
                 after |-> after, used |-> Spent(used)]

\* One more verification of the recorded answer; a verdict stands, and so does the first
\* attempt's record once the budget is spent.
Retry ==
    /\ pc = "retry"
    /\ Retryable(outcome[side][task]) /\ HasAnswer
    /\ \E c \in Replays : \E o \in Verdict(task, c) \cup {"NO_ORACLE"} :
         \/ /\ ~Retryable(o)
            /\ SetOutcome(o)
            /\ graded' = [graded EXCEPT ![side][task] = c]
            /\ retries' = retries \cup {Tried(o)}
            /\ NextRetried
         \/ /\ Retryable(o) /\ Spent(used) >= RETRY_COUNT
            /\ retries' = retries \cup {Tried(outcome[side][task])}
            /\ NextRetried
            /\ UNCHANGED <<outcome, graded>>
         \/ /\ Retryable(o) /\ Spent(used) < RETRY_COUNT
            /\ used' = Spent(used)
            /\ UNCHANGED <<pc, side, task, outcome, graded, retries>>
    /\ UNCHANGED <<record, built, answer, kept, exit>>

\* The task renders another prompt than it did (RetryInputsChanged).
RetryRefused ==
    /\ pc = "retry"
    /\ Retryable(outcome[side][task]) /\ HasAnswer
    /\ Exit("refused")
    /\ UNCHANGED record

-----------------------------------------------------------------------------
(* The decision and its record. *)

Covered(new, old, t) == new[t] \notin Uncovered /\ old[t] \notin Uncovered
SolvedIn(new, old, by) == {t \in Held : Covered(new, old, t) /\ by[t] = "SOLVED"}
Regressed(new, old) ==
    {t \in Held : Covered(new, old, t) /\ old[t] = "SOLVED" /\ new[t] # "SOLVED"}
Undecided(new, old) == {t \in Held : ~Covered(new, old, t)}

\* Mutant of DecisionOn: what was scored on both sides is compared, the rest passed over.
DecisionOnOverlap(new, old) ==
    IF /\ Cardinality(SolvedIn(new, old, new)) > Cardinality(SolvedIn(new, old, old))
       /\ Cardinality(Regressed(new, old)) = 0
      THEN "promoted" ELSE "rejected"

\* `decide`.
DecisionOn(new, old) ==
    IF Undecided(new, old) # {} THEN "UNVERIFIED"
    ELSE IF /\ Cardinality(SolvedIn(new, old, new)) > Cardinality(SolvedIn(new, old, old))
            /\ Cardinality(Regressed(new, old)) = 0
      THEN "promoted" ELSE "rejected"

StatusOfTask(o) == CASE o \in Uncovered -> "UNVERIFIED" [] o = "SOLVED" -> "PASS" [] OTHER -> "FAIL"

\* One side over one source.
Counts(s, tasks) ==
    LET unverified == Cardinality({t \in tasks : outcome[s][t] \in Uncovered})
        solved     == Cardinality({t \in tasks : outcome[s][t] = "SOLVED"})
    IN  [denominator |-> Cardinality(tasks), solved |-> solved, unverified |-> unverified,
         failed |-> Cardinality(tasks) - unverified - solved,
         status |-> Reduce({StatusOfTask(outcome[s][t]) : t \in tasks})]

\* Mutant of Outlasted: what was never asked is left out.
OutlastedTried == {p \in Sides \X Held : \E r \in retries :
                     r.side = p[1] /\ r.task = p[2] /\ Retryable(r.after)}

\* What the retries could not settle.
Outlasted == {p \in Sides \X Held : Retryable(outcome[p[1]][p[2]])}

Decide ==
    /\ pc = "decide"
    /\ LET new == outcome["candidate"]
           old == outcome["incumbent"]
       IN  record' = [exit        |-> DecisionOn(new, old),
                      denominator |-> Cardinality(Held),
                      solved_new  |-> Cardinality(SolvedIn(new, old, new)),
                      solved_old  |-> Cardinality(SolvedIn(new, old, old)),
                      regressed   |-> Cardinality(Regressed(new, old)),
                      unverified  |-> Cardinality(Undecided(new, old)),
                      private     |-> [s \in Sides |-> Counts(s, Held)],
                      public      |-> [s \in Sides |-> Counts(s, Tasks \ Held)],
                      retries     |-> retries,
                      after       |-> Outlasted]
    /\ pc' = "down" /\ exit' = "decided"
    /\ UNCHANGED memory

-----------------------------------------------------------------------------
\* A kill, or an exception nobody catches: nothing was written yet, or part of the record,
\* which no reader accepts.
Crash ==
    /\ pc # "down"
    /\ record' = IF pc = "decide" THEN NoRecord ELSE record
    /\ Exit("crashed")

Work ==
    \/ Start
    \/ ScoreUnasked \/ Score
    \/ RetryNothing \/ Retry \/ RetryRefused
    \/ Decide

Next == Work \/ Crash

Spec == Init /\ [][Next]_vars

\* The process goes on while it can, and a gate that died is run again; a crash is never
\* required.
FairSpec == Spec /\ WF_vars(Work)

-----------------------------------------------------------------------------
(* What must hold. *)

Decisions == {"promoted", "rejected", "UNVERIFIED"}
Retried   == [side : Sides, task : Held, before : Uncovered, after : Outcomes,
              used : 1 .. RETRY_COUNT]

\* Every variable keeps its kind.
TypeOK ==
    /\ record.exit \in Decisions \cup {"none"}
    /\ pc \in {"down", "score", "retry", "decide"} /\ side \in Sides /\ task \in Tasks
    /\ pc = "retry" => task \in Held
    /\ built \in [Tasks -> {"unbuilt", "built", "failed"}]
    /\ answer \in [Sides -> [Tasks -> Completions \cup {NoText}]]
    /\ kept \in [Sides -> [Prompts -> Completions \cup {NoText}]]
    /\ outcome \in [Sides -> [Tasks -> Outcomes \cup {Unscored}]]
    /\ graded \in [Sides -> [Tasks -> Completions \cup {NoText}]]
    /\ used \in 0 .. RETRY_COUNT - 1
    /\ retries \subseteq Retried
    /\ exit \in {"none", "crashed", "refused", "decided"}

\* What a side solves, whatever the machine made of it on the way: the held-out tasks its
\* first answer passes.
Solves(s) == {t \in Held : <<t, answer[s][t]>> \in Passing}

\* A decision that is one is the truth about the two checkpoints' first answers: promoted
\* exactly when the candidate solves all the incumbent does and more, through any number of
\* machine faults and retries ("promoted iff solved_new > solved_old and regressed == 0").
DecisionIsTheTruth ==
    record.exit \notin {"none", "UNVERIFIED"} =>
        (record.exit = "promoted" <=> /\ Solves("incumbent") \subseteq Solves("candidate")
                                      /\ Solves("incumbent") # Solves("candidate"))

\* A retry verifies the answer of the first attempt, it never asks for another one: every
\* outcome is about the answer the base gave when the task was first posed.
FirstAnswerStands == \A s \in Sides, t \in Tasks : graded[s][t] = answer[s][t]

\* No environment turns one side away from a task and lets the other side in.
OneEnvironmentForBoth ==
    pc \in {"retry", "decide"} => \A t \in Tasks :
        outcome["candidate"][t] = "UNPROVISIONED" <=> outcome["incumbent"][t] = "UNPROVISIONED"

\* The two sides differ in their checkpoints alone: what is graded is what each answered first, and
\* the machine turns both away from a task or neither (gate.py:800-816, 1815-1836).
SidesCompare == FirstAnswerStands /\ OneEnvironmentForBoth

\* The record accounts for its own decision: it is UNVERIFIED exactly over the tasks its
\* outlasted pairs name, each of those was never asked or had the whole budget spent on it,
\* and the counts of the two sides are the decision's.
RecordExplainsItself ==
    record.exit # "none" =>
        /\ record.exit = "UNVERIFIED" <=> record.after # {}
        /\ record.unverified = Cardinality({p[2] : p \in record.after})
        /\ \A p \in record.after :
              \/ answer[p[1]][p[2]] = NoText
              \/ \E r \in record.retries : /\ r.side = p[1] /\ r.task = p[2]
                                           /\ r.used = RETRY_COUNT
        /\ \A s \in Sides : record.private[s].status = "PASS" => record.private[s].solved = Cardinality(Held)
        /\ record.exit # "UNVERIFIED" =>
              /\ record.solved_new = record.private["candidate"].solved
              /\ record.solved_old = record.private["incumbent"].solved

\* Run again after every crash, until one does not crash, the gate decides or refuses,
\* whatever the machine leaves without a verdict.
GateEnds == (<>[][~Crash]_vars) => <>Over
==============================================================================
