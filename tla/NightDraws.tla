----------------------------- MODULE NightDraws -----------------------------
(***************************************************************************)
(* One night of rejection sampling (loop/draws.py `sample`, the tail of    *)
(* loop/night.py `run_night`) with the two evidence files it keeps per     *)
(* draw index, and everything that can stop it: a SIGKILL by the           *)
(* supervisor or the machine at any point, between two writes or in the    *)
(* middle of one.  The same command is then given again and the night      *)
(* resumes from its journals.                                              *)
(*                                                                         *)
(* A file is kept as what `replay` makes of it: the last record of every   *)
(* key, and the state of its last line.                                    *)
(***************************************************************************)
EXTENDS Naturals, FiniteSets

CONSTANTS
    N,            \* how many tasks the night scores; task i is the i-th it visits
    K,            \* draws per task (`draws`)
    Budget,       \* RETRY_BUDGET: retries per draw
    Repairs,      \* --repair: repair draws per draw
    SourceOf,     \* the source of each task, "private" or "public"
    PosedAs,      \* the task id the frozen contract files each task's prompts under
    Completions,  \* what the base can answer
    Triggering,   \* the completions whose autopsy is a retry trigger
    NoDiff,       \* the completions no diff can be extracted from
    Passing,      \* <<task, completion>>: STRICT re-execution passes
    MaySkip,      \* whether an environment or an oracle may be missing
    TornWrites,   \* whether a kill may land inside a write
    MaxKills      \* bound: how often the process is killed

Tasks    == 1 .. N
Attempts == 1 .. K
Sources  == {"private", "public"}

ASSUME NightAssumption ==
    /\ N \in Nat \ {0}
    /\ K \in Nat \ {0}
    /\ Budget \in Nat
    /\ Repairs \in Nat
    /\ SourceOf \in [Tasks -> Sources]
    /\ PosedAs \in [Tasks -> Tasks]
    /\ Completions # {} /\ "absent" \notin Completions
    /\ Triggering \subseteq Completions
    /\ NoDiff \subseteq Completions
    /\ Passing \subseteq Tasks \X Completions
    /\ MaySkip \in BOOLEAN
    /\ TornWrites \in BOOLEAN
    /\ MaxKills \in Nat

Controls  == {"INTACT", "BROKEN", "SKIPPED"}
Unscored  == {"UNVERIFIED", "UNPROVISIONED", "NO_ORACLE"}
Outcomes  == {"SOLVED", "NO_DIFF", "NOT_APPLIED", "NOT_SOLVED"} \cup Unscored
Decisions == {"retry", "graded", "repair"}

\* Journal lines and transcript lines; the absent ones have fields of the same kind.
Step    == [control : Controls, outcome : Outcomes]
NoStep  == [control |-> "absent", outcome |-> "absent"]
Record  == [completion : Completions, decision : Decisions]
NoRecord == [completion |-> "absent", decision |-> "absent"]

\* The last line of a file: ended by its newline, cut short, complete but for
\* its newline, or a line some later record was appended to.
Tails == {"whole", "cut", "noeol", "garbled"}
Parses(tail) == tail \in {"whole", "noeol"}

VARIABLES
    \* on disk
    journal,         \* [Attempts -> [Tasks -> Step]]
    journalTail,
    transcript,      \* [Attempts -> [Tasks -> Record]], keyed by the posed task id
    transcriptTail,
    ledger,          \* the published ledger, or NoLedger
    \* in the process
    pc,
    task, attempt,   \* the loop position
    replayed,        \* the journals as read when the process started
    control,         \* the probe in force for `task`
    steps,           \* what this process holds, replayed or run
    applied,         \* <<task id, attempt>> of the seeds this process applied
    asks,            \* prompts sent for this draw so far, plus the one being sent
    completion,      \* the decided completion
    repairs,         \* repair draws left
    outcome,         \* the rollout's outcome
    \* around it
    exit,            \* how the last process ended
    kills

files   == <<journal, journalTail, transcript, transcriptTail>>
rollout == <<asks, completion, repairs, outcome>>
process == <<pc, task, attempt, replayed, control, steps, applied, rollout>>
vars    == <<files, ledger, process, exit, kills>>

NoText   == "absent"
NoLedger == [denominator |-> 0, unverified |-> 0, examples |-> {}, seeds |-> {},
             written |-> FALSE]

None(nothing) == [a \in Attempts |-> [t \in Tasks |-> nothing]]

-----------------------------------------------------------------------------
(* The process begins and ends. *)

Init ==
    /\ journal = None(NoStep)    /\ journalTail = [a \in Attempts |-> "whole"]
    /\ transcript = None(NoRecord) /\ transcriptTail = [a \in Attempts |-> "whole"]
    /\ ledger = NoLedger
    /\ pc = "down"
    /\ task = 1 /\ attempt = 1
    /\ replayed = None(NoStep) /\ steps = None(NoStep)
    /\ control = "absent"
    /\ applied = {}
    /\ asks = 1 /\ completion = NoText /\ repairs = 0 /\ outcome = "absent"
    /\ exit = "none"
    /\ kills = 0

\* The process ends, for `why`: what it held in memory is gone.
Exit(why) ==
    /\ pc' = "down"
    /\ task' = 1 /\ attempt' = 1
    /\ replayed' = None(NoStep) /\ steps' = None(NoStep)
    /\ control' = "absent"
    /\ applied' = {}
    /\ asks' = 1 /\ completion' = NoText /\ repairs' = 0 /\ outcome' = "absent"
    /\ exit' = why

\* Mutant of Start: the journals are not read back.
StartAfresh ==
    /\ pc = "down" /\ ~ledger.written
    /\ pc' = "control"
    /\ exit' = "none"
    /\ UNCHANGED <<files, ledger, task, attempt, replayed, control, steps, applied, rollout,
                   kills>>

\* `sample` replays every journal before anything else ...
Start ==
    /\ pc = "down" /\ ~ledger.written
    /\ \A a \in Attempts : Parses(journalTail[a])
    /\ replayed' = journal
    /\ pc' = "control"
    /\ exit' = "none"
    /\ UNCHANGED <<files, ledger, task, attempt, control, steps, applied, rollout, kills>>

\* ... and a line it cannot read ends the night there (JournalUnreadable).
StartRefused ==
    /\ pc = "down" /\ ~ledger.written
    /\ \E a \in Attempts : ~Parses(journalTail[a])
    /\ Exit("JournalUnreadable")
    /\ UNCHANGED <<files, ledger, kills>>

-----------------------------------------------------------------------------
(* The loop: a control per task, then one draw per attempt. *)

\* Mutant of Recorded: what is recorded is not looked up.
RecordedNever(t) == {}

Recorded(t) == {a \in Attempts : replayed[a][t] # NoStep}

\* Mutant of Probes: a resumed night probes again.
ProbesAnew(t) == Controls

\* `_control`: the probe of the first recorded step, else a fresh one.
Probes(t) ==
    IF Recorded(t) = {} THEN Controls
    ELSE {replayed[a][t].control : a \in {a \in Recorded(t) : \A b \in Recorded(t) : a <= b}}

Control ==
    /\ pc = "control"
    /\ control' \in Probes(task)
    /\ pc' = "draw"
    /\ UNCHANGED <<files, ledger, task, attempt, replayed, steps, applied, rollout, exit, kills>>

\* The step is kept and the loop moves to the next attempt, the next task, or selection.
Keep(step) ==
    /\ steps' = [steps EXCEPT ![attempt][task] = step]
    /\ attempt' = IF attempt < K THEN attempt + 1 ELSE 1
    /\ task' = IF attempt < K \/ task = N THEN task ELSE task + 1
    /\ pc' = IF attempt < K THEN "draw" ELSE IF task < N THEN "control" ELSE "select"

\* A draw the journal already holds is taken from it verbatim.
Replay ==
    /\ pc = "draw"
    /\ attempt \in Recorded(task)
    /\ Keep(replayed[attempt][task])
    /\ UNCHANGED <<files, ledger, replayed, control, applied, rollout, exit, kills>>

\* `score` returns before any prompt: no environment, or no oracle sources.
Unasked ==
    /\ pc = "draw" /\ MaySkip
    /\ attempt \notin Recorded(task)
    /\ outcome' \in {"UNPROVISIONED", "NO_ORACLE"}
    /\ pc' = "record"
    /\ UNCHANGED <<files, ledger, task, attempt, replayed, control, steps, applied,
                   asks, completion, repairs, exit, kills>>

\* `Draw.generate` seeds the stream, under the id the contract poses the prompt as.
Ask ==
    /\ pc = "draw"
    /\ attempt \notin Recorded(task)
    /\ applied' = applied \cup {<<PosedAs[task], attempt>>}
    /\ asks' = 1
    /\ repairs' = Repairs
    /\ pc' = "generate"
    /\ UNCHANGED <<files, ledger, task, attempt, replayed, control, steps,
                   completion, outcome, exit, kills>>

-----------------------------------------------------------------------------
(* Appending to an evidence file. *)

\* Mutant of Written: the first record of a key wins.
WrittenOnce(map, tail, t, record) ==
    IF tail = "whole" /\ map[t] \in {NoStep, NoRecord} THEN [map EXCEPT ![t] = record] ELSE map

\* The last record of a key wins.  A record appended after an unfinished line
\* becomes part of that line, and the file is unreadable from then on.
Written(map, tail, t, record) == IF tail = "whole" THEN [map EXCEPT ![t] = record] ELSE map
TailAfter(tail) == IF tail = "whole" THEN "whole" ELSE "garbled"

\* Mutant of AppendTranscript: the completion that is graded is not recorded.
AppendRetriesOnly(t, record) ==
    IF record.decision = "retry"
      THEN /\ transcript' = [transcript EXCEPT
                               ![attempt] = Written(@, transcriptTail[attempt], PosedAs[t], record)]
           /\ transcriptTail' = [transcriptTail EXCEPT ![attempt] = TailAfter(@)]
      ELSE UNCHANGED <<transcript, transcriptTail>>

AppendTranscript(t, record) ==
    /\ transcript' = [transcript EXCEPT
                         ![attempt] = Written(@, transcriptTail[attempt], PosedAs[t], record)]
    /\ transcriptTail' = [transcriptTail EXCEPT ![attempt] = TailAfter(@)]

AppendJournal(t, step) ==
    /\ journal' = [journal EXCEPT ![attempt] = Written(@, journalTail[attempt], t, step)]
    /\ journalTail' = [journalTail EXCEPT ![attempt] = TailAfter(@)]

\* What a kill inside the write leaves: part of the line, or all of it but the newline.
TornTranscript(t, record) ==
    \E tail \in {"cut", "noeol"} :
        /\ transcriptTail' = [transcriptTail EXCEPT
                                 ![attempt] = IF @ = "whole" THEN tail ELSE "garbled"]
        /\ transcript' = IF tail = "noeol"
             THEN [transcript EXCEPT
                     ![attempt] = Written(@, transcriptTail[attempt], PosedAs[t], record)]
             ELSE transcript

TornJournal(t, step) ==
    \E tail \in {"cut", "noeol"} :
        /\ journalTail' = [journalTail EXCEPT
                              ![attempt] = IF @ = "whole" THEN tail ELSE "garbled"]
        /\ journal' = IF tail = "noeol"
             THEN [journal EXCEPT ![attempt] = Written(@, journalTail[attempt], t, step)]
             ELSE journal

-----------------------------------------------------------------------------
(* One draw: generate, retry what cannot be parsed, verify, repair, record. *)

\* `Retry.generate`: the decision each completion is recorded under.
DecisionOf(c) == IF c \in Triggering /\ asks < 1 + Budget THEN "retry" ELSE "graded"

\* Mutant of Answer: the last completion of a spent budget is still filed as a retry.
AnswerStillRetried(c) ==
    [completion |-> c, decision |-> IF c \in Triggering THEN "retry" ELSE "graded"]

Answer(c) == [completion |-> c, decision |-> DecisionOf(c)]

Generate ==
    /\ pc = "generate"
    /\ \E c \in Completions :
        /\ AppendTranscript(task, Answer(c))
        /\ IF DecisionOf(c) = "retry"
             THEN asks' = asks + 1 /\ UNCHANGED <<pc, completion>>
             ELSE pc' = "verify" /\ completion' = c /\ UNCHANGED asks
    /\ UNCHANGED <<journal, journalTail, ledger, task, attempt, replayed, control, steps,
                   applied, repairs, outcome, exit, kills>>

\* What the verifiers can make of a completion; a run that reaches no verdict is
\* always possible, and a completion that cannot be parsed does not apply.
Verdicts(t, c) ==
    IF c \in NoDiff THEN {"NO_DIFF"}
    ELSE {"UNVERIFIED"} \cup
         (CASE <<t, c>> \in Passing -> {"SOLVED"}
            [] c \in Triggering /\ <<t, c>> \notin Passing -> {"NOT_APPLIED"}
            [] OTHER                -> {"NOT_SOLVED", "NOT_APPLIED"})

\* `_verify`, and the head of the repair loop: only NOT_SOLVED is asked again.
Verify ==
    /\ pc = "verify"
    /\ \E o \in Verdicts(task, completion) :
        /\ outcome' = o
        /\ pc' = IF o = "NOT_SOLVED" /\ repairs > 0 THEN "repair" ELSE "record"
    /\ UNCHANGED <<files, ledger, task, attempt, replayed, control, steps, applied,
                   asks, completion, repairs, exit, kills>>

RepairAnswer(c) == [completion |-> c, decision |-> "repair"]

\* `Retry.generate_repair`: one completion, never retried, recorded as a repair.
Repair ==
    /\ pc = "repair"
    /\ \E c \in Completions :
        /\ AppendTranscript(task, RepairAnswer(c))
        /\ completion' = c
    /\ repairs' = repairs - 1
    /\ pc' = "verify"
    /\ UNCHANGED <<journal, journalTail, ledger, task, attempt, replayed, control, steps,
                   applied, asks, outcome, exit, kills>>

ThisStep == [control |-> control, outcome |-> outcome]

\* The journal line is written once the probe and the rollout are both in hand.
RecordStep ==
    /\ pc = "record"
    /\ AppendJournal(task, ThisStep)
    /\ Keep(ThisStep)
    /\ asks' = 1 /\ completion' = NoText /\ repairs' = 0 /\ outcome' = "absent"
    /\ UNCHANGED <<transcript, transcriptTail, ledger, replayed, control, applied, exit, kills>>

-----------------------------------------------------------------------------
(* A kill: between two writes, or inside one. *)

Kill ==
    /\ pc # "down" /\ kills < MaxKills
    /\ kills' = kills + 1
    /\ Exit("killed")
    /\ UNCHANGED <<files, ledger>>

KillWriting ==
    /\ TornWrites /\ kills < MaxKills
    /\ kills' = kills + 1
    /\ \/ /\ pc = "generate"
          /\ \E c \in Completions : TornTranscript(task, Answer(c))
          /\ UNCHANGED <<journal, journalTail>>
       \/ /\ pc = "repair"
          /\ \E c \in Completions : TornTranscript(task, RepairAnswer(c))
          /\ UNCHANGED <<journal, journalTail>>
       \/ /\ pc = "record"
          /\ TornJournal(task, ThisStep)
          /\ UNCHANGED <<transcript, transcriptTail>>
    /\ Exit("killed")
    /\ UNCHANGED ledger

-----------------------------------------------------------------------------
(* Selection: every transcript is replayed, every run must prove its harness. *)

\* `Transcript.replay` raises on an unreadable line, and on a last record that is a retry.
TranscriptReplays(a) ==
    /\ Parses(transcriptTail[a])
    /\ \A t \in Tasks : transcript[a][t].decision # "retry"

\* Mutant of HarnessProven: one intact control proves both sources.
HarnessPooled(a, source) ==
    /\ \A t \in Tasks : SourceOf[t] = source => steps[a][t].control # "BROKEN"
    /\ \E t \in Tasks : steps[a][t].control = "INTACT"

\* `harness_status` of one source under one attempt.
HarnessProven(a, source) ==
    LET here == {t \in Tasks : SourceOf[t] = source}
    IN  /\ \A t \in here : steps[a][t].control # "BROKEN"
        /\ \E t \in here : steps[a][t].control = "INTACT"

Won(a, t) == steps[a][t].outcome = "SOLVED"

\* Every win has the completion it was won with.
TextKept(a, source) ==
    \A t \in Tasks : SourceOf[t] = source /\ Won(a, t) => transcript[a][t] # NoRecord

\* What `_select` raises at attempt `a`: it takes the sources in order.
SourceComplaint(a, source) ==
    IF ~HarnessProven(a, source) THEN "HarnessNotProven"
    ELSE IF TextKept(a, source) THEN "none" ELSE "NotTrainable"
Complaint(a) ==
    IF ~TranscriptReplays(a) THEN "TranscriptUnreadable"
    ELSE IF SourceComplaint(a, "private") # "none" THEN SourceComplaint(a, "private")
    ELSE SourceComplaint(a, "public")

SelectRefused ==
    /\ pc = "select"
    /\ \E a \in Attempts :
        /\ Complaint(a) # "none"
        /\ \A b \in 1 .. a - 1 : Complaint(b) = "none"
        /\ Exit(Complaint(a))
    /\ UNCHANGED <<files, ledger, kills>>

\* `example_of` and `TrainingText`: the text is the stored record's.
ExampleOf(a, t) ==
    [task |-> t, attempt |-> a, completion |-> transcript[a][t].completion]

Wins == {d \in Attempts \X Tasks : Won(d[1], d[2])}

\* Mutant of Counted: only what this process ran.
CountedThisProcess ==
    {d \in Attempts \X Tasks : steps[d[1]][d[2]] # NoStep /\ replayed[d[1]][d[2]] = NoStep}

\* The draws in the count: every step held, replayed or run.
Counted == {d \in Attempts \X Tasks : steps[d[1]][d[2]] # NoStep}

\* `_select`, `build` and the ledger: what this process holds is what is published.
Publish ==
    /\ pc = "select"
    /\ \A a \in Attempts : Complaint(a) = "none"
    /\ ledger' =
         [denominator |-> Cardinality(Counted),
          unverified  |-> Cardinality({d \in Counted : steps[d[1]][d[2]].outcome \in Unscored}),
          examples    |-> {ExampleOf(d[1], d[2]) : d \in Wins},
          seeds       |-> applied,
          written     |-> TRUE]
    /\ Exit("ledger")
    /\ UNCHANGED <<files, kills>>

-----------------------------------------------------------------------------
Night ==
    \/ Start \/ StartRefused
    \/ Control \/ Replay \/ Unasked \/ Ask
    \/ Generate \/ Verify \/ Repair \/ RecordStep
    \/ SelectRefused \/ Publish

Next == Night \/ Kill \/ KillWriting

Spec == Init /\ [][Next]_vars

\* The process runs when it can, and the same command is given again while no
\* ledger is written; kills are bounded and never required.
FairSpec == Spec /\ WF_vars(Night)
-----------------------------------------------------------------------------
(* What must hold. *)

Exits == {"none", "killed", "JournalUnreadable", "TranscriptUnreadable",
          "HarnessNotProven", "NotTrainable", "ledger"}

\* Every variable keeps its kind.
TypeOK ==
    /\ journal \in [Attempts -> [Tasks -> Step \cup {NoStep}]]
    /\ journalTail \in [Attempts -> Tails]
    /\ transcript \in [Attempts -> [Tasks -> Record \cup {NoRecord}]]
    /\ transcriptTail \in [Attempts -> Tails]
    /\ ledger.written \in BOOLEAN
    /\ pc \in {"down", "control", "draw", "generate", "verify", "repair", "record", "select"}
    /\ task \in Tasks /\ attempt \in Attempts
    /\ replayed \in [Attempts -> [Tasks -> Step \cup {NoStep}]]
    /\ control \in Controls \cup {"absent"}
    /\ steps \in [Attempts -> [Tasks -> Step \cup {NoStep}]]
    /\ applied \subseteq Tasks \X Attempts
    /\ asks \in Nat /\ repairs \in Nat
    /\ completion \in Completions \cup {NoText}
    /\ outcome \in Outcomes \cup {"absent"}
    /\ exit \in Exits
    /\ kills \in Nat

\* All journalled draws of a task were recorded against one control, whichever
\* processes recorded them (`_control`: a resumed night reuses the recorded probe).
OneControlPerTask ==
    \A t \in Tasks : \A a, b \in Attempts :
        journal[a][t] # NoStep /\ journal[b][t] # NoStep
            => journal[a][t].control = journal[b][t].control

\* A draw whose step was journalled is never asked, re-verified or rewritten by a
\* later process: neither its step nor the completion its verdict rests on changes.
CompletedDrawsKept ==
    [][\A a \in Attempts, t \in Tasks :
         journal[a][t] # NoStep =>
            /\ journal'[a][t] = journal[a][t]
            /\ transcript'[a][PosedAs[t]] = transcript[a][PosedAs[t]]]_vars

\* Whatever retries, repairs, kills, torn writes and resumptions came before, every
\* published example pairs a task with a completion that passes its tests, and its draw is
\* on record as SOLVED (`_select` reads the text from one file, the verdict from another).
TrainedIsVerified ==
    \A e \in ledger.examples :
        /\ <<e.task, e.completion>> \in Passing
        /\ Parses(journalTail[e.attempt]) => journal[e.attempt][e.task].outcome = "SOLVED"

\* A ledger is written only when the control arm proved the harness in both
\* sources of every attempt: nothing broken, something intact (`rankable`).
LedgerRestsOnProvenHarness ==
    ledger.written => \A a \in Attempts, s \in Sources :
        Parses(journalTail[a]) =>
            /\ \A t \in Tasks : SourceOf[t] = s => journal[a][t].control # "BROKEN"
            /\ \E t \in Tasks : SourceOf[t] = s /\ journal[a][t].control = "INTACT"

\* The published denominator is every draw of every task, replayed or run, and the
\* unverified count every journalled draw without a verdict, however often the night resumed.
LedgerCountsEveryDraw ==
    ledger.written =>
        /\ ledger.denominator = N * K
        /\ (\A a \in Attempts : Parses(journalTail[a])) =>
              ledger.unverified = Cardinality({d \in Attempts \X Tasks :
                                                 journal[d[1]][d[2]].outcome \in Unscored})

\* A verified win always has its stored completion, so a night is never lost to
\* NotTrainable at the very end (`Contract.posed`: "one record explains both").
WinHasText == exit # "NotTrainable"

\* The ledger of a night is over a harness the control arm proved, and counts all of it.
LedgerIsSound == LedgerRestsOnProvenHarness /\ LedgerCountsEveryDraw

\* What a night trains on was won, and what was won can be trained on: each example is a text its
\* verification passed, and no win stands without one when selection comes (night.py:597-616).
WinsAreTrainable == TrainedIsVerified /\ WinHasText

\* Given again until it ends, the command ends: with a ledger or an unproven harness
\* (`supervise`: "The completed draws replay on the same command").
NightEnds == <>(exit \in {"ledger", "HarnessNotProven"})

\* The journals as an uninterrupted night's record: the night is one, with every
\* kill, resumption, retry and repair a stutter.
Uninterrupted == INSTANCE NightRecord WITH
    settled   <- [a \in Attempts |-> [t \in Tasks |-> journal[a][t].outcome]],
    probe     <- [t \in Tasks |-> journal[1][t].control],
    published <- IF ledger.written
                   THEN {<<e.attempt, e.task>> : e \in ledger.examples}
                   ELSE {<<0, 0>>}

RecordIsUninterrupted == Uninterrupted!RSpec
=============================================================================
