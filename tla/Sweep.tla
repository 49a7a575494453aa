------------------------------- MODULE Sweep -------------------------------
(***************************************************************************)
(* One candidate's sweep over a task set (bakeoff/sweep.py `sweep`): for   *)
(* every task the control arm (bakeoff/control.py `probe`), the rollout    *)
(* (bakeoff/scoring.py `score`) with its repairs, both under environments  *)
(* built once per pin set (`Interpreters`), and a journal the sweep        *)
(* resumes from, unless a kill cut the append itself.  What git, uv,       *)
(* pytest and the base do is whatever it may.                              *)
(***************************************************************************)
EXTENDS Verdicts

CONSTANTS
    N,          \* how many tasks; task i is the i-th the sweep visits
    Keys,       \* the distinct pin sets
    KeyOf,      \* the pin set of each task, or "no pins"
    Repairs,    \* repair draws per rollout (`sweep` asks for none, the night's `sample` for some)
    MayRaise,   \* whether the generator or WEAK may raise
    MaxKills    \* bound: how often the process is killed

Tasks == 1 .. N

ASSUME SweepAssumption ==
    /\ N \in Nat \ {0}
    /\ "no pins" \notin Keys
    /\ KeyOf \in [Tasks -> Keys \cup {"no pins"}]
    /\ Repairs \in Nat
    /\ MayRaise \in BOOLEAN
    /\ MaxKills \in Nat

Controls  == {"INTACT", "BROKEN", "SKIPPED"}
Unscored  == {"UNVERIFIED", "UNPROVISIONED", "NO_ORACLE"}
Outcomes  == {"SOLVED", "NO_DIFF", "NOT_APPLIED", "OUT_OF_SCOPE", "NOT_SOLVED"} \cup Unscored

\* A probe keeps the last arm's status; a rollout keeps, beside what it records, which of
\* its completions each verifier was last run over (0: none) and the environment it had.
NoProbe   == [control |-> "none", arm |-> "none"]
Partial   == [outcome |-> "UNVERIFIED", strict |-> "none", weak |-> "none",
              strictOf |-> 0, weakOf |-> 0, by |-> 0]
NoStep    == [probe |-> NoProbe, rollout |-> Partial]

\* The last line of the journal: ended by its newline, complete but for its newline, cut
\* short, or two lines run into one.
Tails == {"whole", "noeol", "cut", "garbled"}
Parses(t) == t \in {"whole", "noeol"}

VARIABLES
    journal,    \* the steps written out in full, on disk: [Tasks -> step or NoStep]
    tail,       \* and how that file ends
    pc, task,   \* in the process: where the sweep is
    done,       \* the journal as read when the process started
    steps,      \* what this process holds
    built,      \* the cache: [Keys -> "unbuilt", "built" or "failed"]
    probe,      \* the control of the task in hand
    rollout,    \* the rollout of the task in hand
    asked,      \* the completions asked for it so far
    answer,     \* what STRICT answered on the last one
    exit,       \* how the last process ended
    kills

hand    == <<probe, rollout, asked, answer>>
process == <<pc, task, done, steps, built, hand>>
vars    == <<journal, tail, process, exit, kills>>

Empty    == [t \in Tasks |-> NoStep]
Unbuilt  == [k \in Keys |-> "unbuilt"]
NoAnswer == Answer("UNVERIFIED", <<>>)

EmptyHand == probe = NoProbe /\ rollout = Partial /\ asked = 0 /\ answer = NoAnswer
DropHand  == probe' = NoProbe /\ rollout' = Partial /\ asked' = 0 /\ answer' = NoAnswer

Init ==
    /\ journal = Empty /\ tail = "whole"
    /\ pc = "down" /\ task = 1
    /\ done = Empty /\ steps = Empty
    /\ built = Unbuilt
    /\ EmptyHand
    /\ exit = "none" /\ kills = 0

\* The process ends, for `why`.
Exit(why) ==
    /\ pc' = "down" /\ task' = 1
    /\ done' = Empty /\ steps' = Empty
    /\ built' = Unbuilt
    /\ DropHand
    /\ exit' = why

Over == exit \in {"ranked", "HarnessNotProven"}

\* Mutant of Start: a journal that cannot be read is taken for none.
StartAnyway ==
    /\ pc = "down" /\ ~Over
    /\ done' = IF Parses(tail) THEN journal ELSE Empty
    /\ pc' = "next" /\ exit' = "none"
    /\ UNCHANGED <<journal, tail, task, steps, built, hand, kills>>

Start ==
    /\ pc = "down" /\ ~Over
    /\ Parses(tail)
    /\ done' = journal
    /\ pc' = "next" /\ exit' = "none"
    /\ UNCHANGED <<journal, tail, task, steps, built, hand, kills>>

\* `replay` reads every line or none (JournalUnreadable): no start gets past this one.
StartRefused ==
    /\ pc = "down" /\ ~Over
    /\ ~Parses(tail)
    /\ Exit("JournalUnreadable")
    /\ UNCHANGED <<journal, tail, kills>>

-----------------------------------------------------------------------------
(* The loop. *)

\* Mutant of HasRecord: the journal is not consulted.
NeverRecorded(t) == FALSE

HasRecord(t) == done[t] # NoStep

Keep(step) ==
    /\ steps' = [steps EXCEPT ![task] = step]
    /\ task' = IF task < N THEN task + 1 ELSE task
    /\ pc' = IF task < N THEN "next" ELSE "rank"

\* A recorded step is returned verbatim.
Replay ==
    /\ pc = "next" /\ HasRecord(task)
    /\ Keep(done[task])
    /\ UNCHANGED <<journal, tail, done, built, hand, exit, kills>>

ThisStep == [probe |-> probe, rollout |-> [rollout EXCEPT !.by = kills + 1]]

\* `Journal.append`: a line added where the file ends, whatever it ends in.
AppendStep(step) ==
    /\ journal' = [journal EXCEPT ![task] = step]
    /\ tail' = IF tail = "whole" THEN "whole" ELSE "garbled"

\* The step is journalled once both halves are in hand.
Record ==
    /\ pc = "record"
    /\ AppendStep(ThisStep)
    /\ Keep(ThisStep)
    /\ DropHand
    /\ UNCHANGED <<done, built, exit, kills>>

-----------------------------------------------------------------------------
(* `Interpreters.acquire`: one environment per pin set. *)

\* Mutant of Acquire: a failure is not cached.
AcquireAgain(t, got) ==
    IF KeyOf[t] = "no pins" THEN got = "built" /\ UNCHANGED built
    ELSE IF built[KeyOf[t]] = "built" THEN got = "built" /\ UNCHANGED built
    ELSE /\ got \in {"built", "failed"}
         /\ built' = [built EXCEPT ![KeyOf[t]] = got]

\* What `t` gets: nothing to build without pins, the cached answer, or a fresh one.
Acquire(t, got) ==
    IF KeyOf[t] = "no pins" THEN got = "built" /\ UNCHANGED built
    ELSE IF built[KeyOf[t]] # "unbuilt" THEN got = built[KeyOf[t]] /\ UNCHANGED built
    ELSE /\ got \in {"built", "failed"}
         /\ built' = [built EXCEPT ![KeyOf[t]] = got]

Built == {"built", "failed"}

-----------------------------------------------------------------------------
(* The control arm. *)

\* Whatever it found, the rollout comes next.
Probed(control, arm) == probe' = [control |-> control, arm |-> arm] /\ pc' = "provision"

\* `reference_patch`: the donor's own diff, or the pool's, or a reason there is none.
References == {"none", "diff"}

\* A reference patch, and an environment to run it in; short of either, a skip.
Reference ==
    /\ pc = "next" /\ ~HasRecord(task)
    /\ \E reference \in References :
         \/ reference = "none" /\ Probed("SKIPPED", "none") /\ UNCHANGED built
         \/ reference = "diff" /\ \E got \in Built :
              /\ Acquire(task, got)
              /\ IF got = "failed" THEN Probed("SKIPPED", "none")
                                   ELSE pc' = "without-patch" /\ UNCHANGED probe
    /\ UNCHANGED <<journal, tail, task, done, steps, rollout, asked, answer, exit, kills>>

\* What `verify_strict` does for a caller that catches what it raises.
Arms == {a.status : a \in StrictAnswers} \cup {"raised"}

\* The inert patch must FAIL ...
WithoutPatch ==
    /\ pc = "without-patch"
    /\ \E arm \in Arms :
         CASE arm = "raised" -> Probed("SKIPPED", "none")
           [] arm = "FAIL"   -> pc' = "with-reference" /\ probe' = [probe EXCEPT !.arm = "FAIL"]
           [] OTHER          -> Probed("BROKEN", arm)
    /\ UNCHANGED <<journal, tail, task, done, steps, built, rollout, asked, answer, exit, kills>>

\* ... and the reference must PASS.
WithReference ==
    /\ pc = "with-reference"
    /\ \E arm \in Arms :
         CASE arm = "raised" -> Probed("SKIPPED", "none")
           [] arm = "PASS"   -> Probed("INTACT", arm)
           [] OTHER          -> Probed("BROKEN", arm)
    /\ UNCHANGED <<journal, tail, task, done, steps, built, rollout, asked, answer, exit, kills>>

-----------------------------------------------------------------------------
(* The rollout. *)

Scored(r) == rollout' = r /\ pc' = "record"

Unaskable(why) == [Partial EXCEPT !.outcome = why, !.strict = "UNVERIFIED", !.weak = "UNVERIFIED"]

\* The environment before the oracle, and both before the base is asked anything.
Provision ==
    /\ pc = "provision"
    /\ \E got \in Built :
         /\ Acquire(task, got)
         /\ \/ got = "failed" /\ Scored(Unaskable("UNPROVISIONED"))
            \/ got = "built" /\ Scored(Unaskable("NO_ORACLE"))
            \/ got = "built" /\ pc' = "ask" /\ UNCHANGED rollout
    /\ UNCHANGED <<journal, tail, task, done, steps, probe, asked, answer, exit, kills>>

\* The base answers, with a diff or without one; a repair that has none ends the repairs.
Ask ==
    /\ pc = "ask"
    /\ asked' = asked + 1
    /\ \/ pc' = "strict" /\ UNCHANGED rollout
       \/ Scored([rollout EXCEPT !.outcome = "NO_DIFF"])
    /\ UNCHANGED <<journal, tail, task, done, steps, built, probe, answer, exit, kills>>

\* Mutant of Faulty: WEAK's earlier reading is kept.
FaultyStrictOnly(r) == [r EXCEPT !.outcome = "UNVERIFIED", !.strict = "UNVERIFIED",
                                 !.strictOf = asked]

\* What is recorded when STRICT raised: nothing was learned of this completion.
Faulty(r) == [r EXCEPT !.outcome = "UNVERIFIED", !.strict = "UNVERIFIED",
                       !.weak = "UNVERIFIED", !.strictOf = asked, !.weakOf = asked]

Strict ==
    /\ pc = "strict"
    /\ \/ \E a \in StrictAnswers : answer' = a /\ pc' = "weak" /\ UNCHANGED rollout
       \/ Scored(Faulty(rollout)) /\ UNCHANGED answer
    /\ UNCHANGED <<journal, tail, task, done, steps, built, probe, asked, exit, kills>>

\* Mutant of Classify: whatever is no pass is the candidate's zero.
ClassifyZero(a) == IF a.status = "PASS" THEN "SOLVED" ELSE "NOT_SOLVED"

\* `_classify`: a refusal is named only where it is the sole verdict.
Classify(a) ==
    CASE a.status = "PASS"       -> "SOLVED"
      [] a.status = "UNVERIFIED" -> "UNVERIFIED"
      [] a.status \notin {"PASS", "UNVERIFIED"} /\ a.kinds = <<"patch-apply">> -> "NOT_APPLIED"
      [] a.status \notin {"PASS", "UNVERIFIED"} /\ a.kinds = <<"patch-scope">> -> "OUT_OF_SCOPE"
      [] OTHER -> "NOT_SOLVED"

\* `verify_weak`: a patch git refuses fails under either check.
WeakStatuses ==
    {"UNVERIFIED", "FAIL"} \cup (IF answer.kinds = <<"patch-apply">> THEN {} ELSE {"PASS"})

\* Only a near-miss is asked again.
MoreRepairs(outcome) == outcome = "NOT_SOLVED" /\ asked <= Repairs

\* WEAK over the same diff, and the record of both.
Weak ==
    /\ pc = "weak"
    /\ \E w \in WeakStatuses :
         rollout' = [rollout EXCEPT !.outcome = Classify(answer), !.strict = answer.status,
                                    !.weak = w, !.strictOf = asked, !.weakOf = asked]
    /\ pc' = IF MoreRepairs(Classify(answer)) THEN "ask" ELSE "record"
    /\ answer' = NoAnswer
    /\ UNCHANGED <<journal, tail, task, done, steps, built, probe, asked, exit, kills>>

-----------------------------------------------------------------------------
(* What leaves the sweep: an exception nobody catches, a kill, or a ranking. *)

GeneratorRaises ==
    /\ MayRaise /\ pc = "ask" /\ kills < MaxKills
    /\ kills' = kills + 1
    /\ Exit("GeneratorRaised")
    /\ UNCHANGED <<journal, tail>>

\* `verify_weak` is called outside the `try` that holds `verify_strict`.
WeakRaises ==
    /\ MayRaise /\ pc = "weak" /\ kills < MaxKills
    /\ kills' = kills + 1
    /\ Exit("WeakRaised")
    /\ UNCHANGED <<journal, tail>>

\* A kill between two writes ...
Kill ==
    /\ pc # "down" /\ kills < MaxKills
    /\ kills' = kills + 1
    /\ Exit("killed")
    /\ UNCHANGED <<journal, tail>>

\* ... or inside the append, which leaves the line without its newline, or part of it.
KillWriting ==
    /\ pc = "record" /\ kills < MaxKills
    /\ kills' = kills + 1
    /\ Exit("killed")
    /\ \E left \in {"noeol", "cut"} :
         /\ tail' = IF tail = "whole" THEN left ELSE "garbled"
         /\ journal' = IF left = "noeol" THEN [journal EXCEPT ![task] = ThisStep] ELSE journal

\* `harness_status`.
HarnessStatus(held) ==
    IF /\ \A t \in Tasks : held[t].probe.control # "BROKEN"
       /\ \E t \in Tasks : held[t].probe.control = "INTACT"
      THEN "PASS" ELSE "UNVERIFIED"

\* `rankable`.
RankOrRefuse ==
    /\ pc = "rank"
    /\ Exit(IF HarnessStatus(steps) = "PASS" THEN "ranked" ELSE "HarnessNotProven")
    /\ UNCHANGED <<journal, tail, kills>>

Work ==
    \/ Start \/ StartRefused \/ Replay \/ Record
    \/ Reference \/ WithoutPatch \/ WithReference
    \/ Provision \/ Ask \/ Strict \/ Weak
    \/ RankOrRefuse

Next == Work \/ GeneratorRaises \/ WeakRaises \/ Kill \/ KillWriting

Spec == Init /\ [][Next]_vars

-----------------------------------------------------------------------------
(* What must hold. *)

Probes   == [control : Controls \cup {"none"}, arm : Statuses \cup {"none"}]
Rollouts == [outcome : Outcomes, strict : Statuses \cup {"none"}, weak : Statuses \cup {"none"},
             strictOf : Nat, weakOf : Nat, by : Nat]
Steps    == [probe : Probes, rollout : Rollouts]

\* Every variable keeps its kind.
TypeOK ==
    /\ journal \in [Tasks -> Steps] /\ done \in [Tasks -> Steps] /\ steps \in [Tasks -> Steps]
    /\ tail \in Tails
    /\ pc \in {"down", "next", "without-patch", "with-reference", "provision", "ask",
               "strict", "weak", "record", "rank"}
    /\ task \in Tasks
    /\ built \in [Keys -> {"unbuilt", "built", "failed"}]
    /\ probe \in Probes /\ rollout \in Rollouts
    /\ asked \in 0 .. Repairs + 1
    /\ answer \in StrictAnswers \cup {NoAnswer}
    /\ exit \in {"none", "killed", "GeneratorRaised", "WeakRaised", "JournalUnreadable", "ranked",
                "HarnessNotProven"}
    /\ kills \in 0 .. MaxKills

Recorded == {t \in Tasks : journal[t] # NoStep}
RolloutOf(t) == journal[t].rollout

\* A rollout without a verdict is counted as one, and a rollout with one never is: what
\* STRICT left open is never a candidate's zero, and what it failed is never excused.
FaultIsNobodysZero ==
    \A t \in Recorded : RolloutOf(t).strict = "UNVERIFIED" <=> RolloutOf(t).outcome \in Unscored

\* STRICT and WEAK of one record read the same completion, through every repair: their
\* difference is the pre-registered count (WEAK passes, STRICT fails).
BothReadOneDiff == \A t \in Recorded : RolloutOf(t).strictOf = RolloutOf(t).weakOf

\* Within one process an environment is one fact: no task is turned away for it where
\* another task, or the control arm, ran in it.
EnvironmentIsOneFact ==
    \A t, u \in Recorded :
        /\ RolloutOf(t).by = RolloutOf(u).by
        /\ KeyOf[t] = KeyOf[u]
        /\ RolloutOf(t).outcome = "UNPROVISIONED"
        => /\ RolloutOf(u).outcome = "UNPROVISIONED"
           /\ journal[u].probe.control = "SKIPPED"

\* The pre-registered difference compares like with like: the two verdicts of a record are of one
\* completion, and all the records of a process of one environment.
RecordsCompare == BothReadOneDiff /\ EnvironmentIsOneFact

\* The journal, as far as its lines were written out, is an uninterrupted sweep's record;
\* a torn line ends the sweep where it stands and never sends it back.
Uninterrupted == INSTANCE NightRecord WITH
    K <- 1, Sources <- {"this"}, SourceOf <- [t \in Tasks |-> "this"],
    settled   <- [a \in 1 .. 1 |-> [t \in Tasks |->
                     IF journal[t] = NoStep THEN "absent" ELSE RolloutOf(t).outcome]],
    probe     <- [t \in Tasks |->
                     IF journal[t] = NoStep THEN "absent" ELSE journal[t].probe.control],
    published <- IF exit = "ranked"
                   THEN {<<1, t>> : t \in {u \in Tasks : RolloutOf(u).outcome = "SOLVED"}}
                   ELSE {<<0, 0>>}

SweepIsUninterrupted == Uninterrupted!RSpec
=============================================================================
