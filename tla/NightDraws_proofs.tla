-------------------------- MODULE NightDraws_proofs --------------------------
(***************************************************************************)
(* What holds of a night for every number of tasks, draws, retries,        *)
(* repairs and kills, torn writes included: the types, one control per     *)
(* task, completed draws kept, and what the ledger may say; and, with      *)
(* whole writes, that it implements NightRecord.                           *)
(*                                                                         *)
(* The argument is one inductive invariant.  Its core is the position of   *)
(* the loop: draws `Ahead` of it are on disk exactly as they were when the *)
(* process started, draws behind it are held in memory as they are on      *)
(* disk, and the control in force is that of every journalled draw of the  *)
(* task.                                                                   *)
(***************************************************************************)
EXTENDS NightDraws, FiniteSetTheorems, TLAPS

InDraw == {"generate", "verify", "repair", "record"}
InTask == InDraw \cup {"draw"}
InLoop == InTask \cup {"control"}

\* The draws the loop has still to reach, the one it is at included.
Ahead(a, t) == t > task \/ (t = task /\ a >= attempt)

\* What the position of the process says of its variables.
Position ==
    /\ pc = "down" => task = 1 /\ attempt = 1
    /\ pc = "control" => attempt = 1
    /\ pc \in InTask => control \in Controls
    /\ pc = "verify" => completion \in Completions
    /\ pc = "record" => outcome \in Outcomes
    /\ pc = "repair" => repairs > 0

\* What was replayed is still on disk; what is ahead is on disk as it was replayed.
ReplayedKept ==
    /\ \A a \in Attempts, t \in Tasks :
          replayed[a][t] # NoStep => journal[a][t] = replayed[a][t]
    /\ pc \in InLoop => \A a \in Attempts, t \in Tasks :
          Ahead(a, t) => journal[a][t] = replayed[a][t]
    /\ pc \in InDraw => replayed[attempt][task] = NoStep

\* The control in force is the control of every draw of the task on disk.
ControlInForce ==
    pc \in InTask => \A a \in Attempts :
        journal[a][task] # NoStep => journal[a][task].control = control

ControlInv == Position /\ ReplayedKept /\ ControlInForce /\ OneControlPerTask

\* What the process holds: nothing of the draws ahead, every draw behind, as on disk.
HeldSteps ==
    /\ pc \in {"down"} \cup InLoop => \A a \in Attempts, t \in Tasks :
          pc = "down" \/ Ahead(a, t) => steps[a][t] = NoStep
    /\ pc \in InLoop => \A a \in Attempts, t \in Tasks :
          ~Ahead(a, t) => steps[a][t] # NoStep
    /\ pc = "select" => \A a \in Attempts, t \in Tasks : steps[a][t] # NoStep
    /\ \A a \in Attempts, t \in Tasks :
          steps[a][t] # NoStep /\ Parses(journalTail[a]) => journal[a][t] = steps[a][t]

\* While the transcript can be read, a SOLVED step's stored completion passes.
TextPasses(a, t, result) ==
    result = "SOLVED" /\ Parses(transcriptTail[a]) =>
        <<t, transcript[a][t].completion>> \in Passing

StoredTexts ==
    /\ \A a \in Attempts, t \in Tasks : TextPasses(a, t, journal[a][t].outcome)
    /\ \A a \in Attempts, t \in Tasks : TextPasses(a, t, steps[a][t].outcome)
    /\ pc = "record" => TextPasses(attempt, task, outcome)
    /\ pc = "verify" /\ Parses(transcriptTail[attempt]) =>
          transcript[attempt][task].completion = completion

\* Nothing runs once a ledger is written, and nothing is published before.
LedgerLast ==
    /\ ledger.written => pc = "down"
    /\ ~ledger.written => ledger.examples = {}

LedgerInv ==
    /\ LedgerLast
    /\ TrainedIsVerified
    /\ LedgerRestsOnProvenHarness
    /\ LedgerCountsEveryDraw

\* Every task's prompts are filed under its own id: no two tasks pose one prompt.
OwnPrompts == \A t \in Tasks : PosedAs[t] = t
-----------------------------------------------------------------------------
(* The types. *)

\* A fresh control, or a recorded one, is a control.
LEMMA ProbesAreControls ==
    ASSUME TypeOK, NEW t \in Tasks
    PROVE  Probes(t) \subseteq Controls
<1>1. \A a \in Recorded(t) : replayed[a][t].control \in Controls
  BY DEF Recorded, TypeOK, Step
<1> QED
  BY <1>1 DEF Probes

\* What an answer adds to a transcript is a record.
LEMMA AnswersAreRecords ==
    ASSUME NEW c \in Completions
    PROVE  Answer(c) \in Record /\ RepairAnswer(c) \in Record
BY DEF Answer, RepairAnswer, DecisionOf, Record, Decisions

\* An append, whole or torn, leaves the files their types.
LEMMA TranscriptTyped ==
    ASSUME TypeOK, NightAssumption, NEW record \in Record,
           AppendTranscript(task, record) \/ TornTranscript(task, record)
    PROVE  /\ transcript' \in [Attempts -> [Tasks -> Record \cup {NoRecord}]]
           /\ transcriptTail' \in [Attempts -> Tails]
<1>1. /\ attempt \in Attempts /\ PosedAs[task] \in Tasks
      /\ transcript[attempt] \in [Tasks -> Record \cup {NoRecord}]
      /\ transcriptTail[attempt] \in Tails
  BY DEF TypeOK, NightAssumption
<1>2. Written(transcript[attempt], transcriptTail[attempt], PosedAs[task], record)
         \in [Tasks -> Record \cup {NoRecord}]
  BY <1>1 DEF Written
<1>3. CASE AppendTranscript(task, record)
  BY <1>1, <1>2, <1>3 DEF AppendTranscript, TailAfter, TypeOK, Tails
<1>4. CASE TornTranscript(task, record)
  BY <1>1, <1>2, <1>4 DEF TornTranscript, TypeOK, Tails
<1> QED
  BY <1>3, <1>4

LEMMA JournalTyped ==
    ASSUME TypeOK, NEW step \in Step,
           AppendJournal(task, step) \/ TornJournal(task, step)
    PROVE  /\ journal' \in [Attempts -> [Tasks -> Step \cup {NoStep}]]
           /\ journalTail' \in [Attempts -> Tails]
<1>1. /\ attempt \in Attempts /\ task \in Tasks
      /\ journal[attempt] \in [Tasks -> Step \cup {NoStep}]
      /\ journalTail[attempt] \in Tails
  BY DEF TypeOK
<1>2. Written(journal[attempt], journalTail[attempt], task, step)
         \in [Tasks -> Step \cup {NoStep}]
  BY <1>1 DEF Written
<1>3. CASE AppendJournal(task, step)
  BY <1>1, <1>2, <1>3 DEF AppendJournal, TailAfter, TypeOK, Tails
<1>4. CASE TornJournal(task, step)
  BY <1>1, <1>2, <1>4 DEF TornJournal, TypeOK, Tails
<1> QED
  BY <1>3, <1>4

\* Keeping a step leaves the loop at a draw, or past the last one.
LEMMA KeepTyped ==
    ASSUME TypeOK, NightAssumption, NEW step \in Step, Keep(step)
    PROVE  /\ steps' \in [Attempts -> [Tasks -> Step \cup {NoStep}]]
           /\ task' \in Tasks /\ attempt' \in Attempts
           /\ pc' \in {"draw", "control", "select"}
<1>1. /\ attempt \in Attempts /\ task \in Tasks
      /\ steps[attempt] \in [Tasks -> Step \cup {NoStep}]
  BY DEF TypeOK
<1>2. steps' \in [Attempts -> [Tasks -> Step \cup {NoStep}]]
  BY <1>1 DEF Keep, TypeOK
<1>3. task' \in Tasks /\ attempt' \in Attempts
  BY <1>1 DEF Keep, Tasks, Attempts, NightAssumption
<1> QED
  BY <1>2, <1>3 DEF Keep

\* A process that has ended holds nothing.
LEMMA ExitTyped ==
    ASSUME NightAssumption, NEW why \in Exits, Exit(why)
    PROVE  /\ pc' = "down" /\ task' = 1 /\ attempt' = 1
           /\ task' \in Tasks /\ attempt' \in Attempts
           /\ \A a \in Attempts, t \in Tasks :
                 replayed'[a][t] = NoStep /\ steps'[a][t] = NoStep
           /\ replayed' \in [Attempts -> [Tasks -> Step \cup {NoStep}]]
           /\ steps' \in [Attempts -> [Tasks -> Step \cup {NoStep}]]
           /\ control' = "absent" /\ applied' = {}
           /\ asks' \in Nat /\ repairs' \in Nat
           /\ completion' = NoText /\ outcome' = "absent" /\ exit' \in Exits
BY DEF Exit, None, Tasks, Attempts, NightAssumption

LEMMA InitTyped == Init => TypeOK
BY NightAssumption DEF Init, TypeOK, None, Tails, Exits, NoLedger, NoText, Tasks, Attempts

LEMMA StepTyped == TypeOK /\ Position /\ [Next]_vars => TypeOK'
<1> SUFFICES ASSUME TypeOK, Position, [Next]_vars PROVE TypeOK'
  OBVIOUS
<1> USE NightAssumption
<1>1. CASE Start
  BY <1>1 DEF TypeOK, Exits, Start, files, rollout
<1>2. CASE StartRefused
  <2>1. Exit("JournalUnreadable") /\ UNCHANGED <<files, ledger, kills>>
    BY <1>2 DEF StartRefused
  <2> QED
    BY <2>1, ExitTyped, "JournalUnreadable" \in Exits DEF TypeOK, files, Exits
<1>3. CASE Control
  BY <1>3, ProbesAreControls DEF TypeOK, Control, files, rollout
<1>4. CASE Replay
  <2>1. replayed[attempt][task] \in Step
    BY <1>4 DEF TypeOK, Replay, Recorded
  <2> QED
    BY <1>4, <2>1, KeepTyped DEF TypeOK, Replay, files, rollout
<1>5. CASE Unasked
  BY <1>5 DEF TypeOK, Unasked, files, Outcomes, Unscored
<1>6. CASE Ask
  BY <1>6 DEF TypeOK, Ask, files, NightAssumption
<1>7. CASE Generate
  <2>1. PICK c \in Completions :
          /\ AppendTranscript(task, Answer(c))
          /\ IF DecisionOf(c) = "retry"
               THEN asks' = asks + 1 /\ UNCHANGED <<pc, completion>>
               ELSE pc' = "verify" /\ completion' = c /\ UNCHANGED asks
    BY <1>7 DEF Generate
  <2> QED
    BY <1>7, <2>1, AnswersAreRecords, TranscriptTyped DEF TypeOK, Generate
<1>8. CASE Verify
  <2>1. outcome' \in Outcomes
    BY <1>8 DEF Verify, Verdicts, Outcomes, Unscored
  <2> QED
    BY <1>8, <2>1 DEF TypeOK, Verify, files
<1>9. CASE Repair
  <2>1. PICK c \in Completions :
          AppendTranscript(task, RepairAnswer(c)) /\ completion' = c
    BY <1>9 DEF Repair
  <2>2. repairs' \in Nat
    BY <1>9 DEF Repair, TypeOK, Position
  <2> QED
    BY <1>9, <2>1, <2>2, AnswersAreRecords, TranscriptTyped DEF TypeOK, Repair
<1>10. CASE RecordStep
  <2>1. ThisStep \in Step
    BY <1>10 DEF RecordStep, ThisStep, Step, Position, InTask, InDraw
  <2> QED
    BY <1>10, <2>1, KeepTyped, JournalTyped DEF TypeOK, RecordStep
<1>11. CASE SelectRefused
  <2>1. PICK a \in Attempts : Exit(Complaint(a))
    BY <1>11 DEF SelectRefused
  <2>2. Complaint(a) \in Exits
    BY DEF Complaint, SourceComplaint, Exits
  <2> QED
    BY <1>11, <2>1, <2>2, ExitTyped DEF TypeOK, SelectRefused, files
<1>12. CASE Publish
  <2>1. Exit("ledger") /\ UNCHANGED <<files, kills>> /\ ledger'.written \in BOOLEAN
    BY <1>12 DEF Publish
  <2> QED
    BY <2>1, ExitTyped, "ledger" \in Exits DEF TypeOK, files, Exits
<1>13. CASE Kill
  <2>1. Exit("killed") /\ UNCHANGED <<files, ledger>> /\ kills' = kills + 1
    BY <1>13 DEF Kill
  <2> QED
    BY <2>1, ExitTyped, "killed" \in Exits DEF TypeOK, files, Exits
<1>14. CASE KillWriting
  <2>1. Exit("killed") /\ UNCHANGED ledger /\ kills' = kills + 1
    BY <1>14 DEF KillWriting
  <2>2. /\ transcript' \in [Attempts -> [Tasks -> Record \cup {NoRecord}]]
        /\ transcriptTail' \in [Attempts -> Tails]
        /\ journal' \in [Attempts -> [Tasks -> Step \cup {NoStep}]]
        /\ journalTail' \in [Attempts -> Tails]
    <3>1. CASE pc = "generate"
      BY <1>14, <3>1, AnswersAreRecords, TranscriptTyped DEF KillWriting, TypeOK
    <3>2. CASE pc = "repair"
      BY <1>14, <3>2, AnswersAreRecords, TranscriptTyped DEF KillWriting, TypeOK
    <3>3. CASE pc = "record"
      <4>1. ThisStep \in Step
        BY <3>3 DEF ThisStep, Step, Position, InTask, InDraw
      <4> QED
        BY <1>14, <3>3, <4>1, JournalTyped DEF KillWriting, TypeOK
    <3> QED
      BY <1>14, <3>1, <3>2, <3>3 DEF KillWriting
  <2> QED
    BY <2>1, <2>2, ExitTyped, "killed" \in Exits DEF TypeOK, Exits
<1>15. CASE UNCHANGED vars
  BY <1>15 DEF TypeOK, vars, files, process, rollout
<1> QED
  BY <1>1, <1>2, <1>3, <1>4, <1>5, <1>6, <1>7, <1>8, <1>9, <1>10, <1>11, <1>12, <1>13,
     <1>14, <1>15 DEF Next, Night

\* The position, whatever the process does.
LEMMA StepPosition == TypeOK /\ Position /\ [Next]_vars => Position'
<1> SUFFICES ASSUME TypeOK, Position, [Next]_vars PROVE Position'
  OBVIOUS
<1> USE NightAssumption
<1>1. CASE Start
  BY <1>1 DEF Position, Start, rollout, InTask, InDraw
<1>2. ASSUME NEW why, Exit(why) PROVE Position'
  BY <1>2 DEF Exit, Position, InTask, InDraw
<1>3. CASE Control
  BY <1>3, ProbesAreControls DEF Position, Control, rollout, InTask, InDraw, TypeOK
<1>4. CASE Replay
  BY <1>4 DEF Position, Replay, Keep, rollout, InTask, InDraw
<1>5. CASE Unasked
  BY <1>5 DEF Position, Unasked, InTask, InDraw, Outcomes, Unscored
<1>6. CASE Ask
  BY <1>6 DEF Position, Ask, InTask, InDraw
<1>7. CASE Generate
  BY <1>7 DEF Position, Generate, InTask, InDraw
<1>8. CASE Verify
  <2>1. outcome' \in Outcomes
    BY <1>8 DEF Verify, Verdicts, Outcomes, Unscored
  <2> QED
    BY <1>8, <2>1 DEF Position, Verify, InTask, InDraw
<1>9. CASE Repair
  BY <1>9 DEF Position, Repair, InTask, InDraw
<1>10. CASE RecordStep
  BY <1>10 DEF Position, RecordStep, Keep, InTask, InDraw
<1>11. CASE UNCHANGED vars
  BY <1>11 DEF Position, vars, process, rollout
<1>12. CASE StartRefused \/ SelectRefused \/ Publish \/ Kill \/ KillWriting
  BY <1>2, <1>12 DEF StartRefused, SelectRefused, Publish, Kill, KillWriting
<1> QED
  BY <1>1, <1>3, <1>4, <1>5, <1>6, <1>7, <1>8, <1>9, <1>10, <1>11, <1>12 DEF Next, Night

\* Every variable keeps its kind, whatever is killed and whenever.
THEOREM TypesHold == Spec => []TypeOK
<1>1. Init => TypeOK /\ Position
  BY InitTyped DEF Init, Position, InTask, InDraw
<1>2. TypeOK /\ Position /\ [Next]_vars => (TypeOK /\ Position)'
  BY StepTyped, StepPosition
<1> QED
  BY <1>1, <1>2, PTL DEF Spec

-----------------------------------------------------------------------------
(* One control per task, and completed draws kept. *)

\* A journal line touches the draw it is about and no other; a file that cannot be
\* read stays so.
LEMMA JournalWrite ==
    ASSUME TypeOK, NEW step \in Step,
           AppendJournal(task, step) \/ TornJournal(task, step)
    PROVE  /\ \A a \in Attempts, t \in Tasks :
                 a # attempt \/ t # task => journal'[a][t] = journal[a][t]
           /\ journal'[attempt][task] \in {journal[attempt][task], step}
           /\ \A a \in Attempts : Parses(journalTail'[a]) => Parses(journalTail[a])
           /\ AppendJournal(task, step) /\ Parses(journalTail'[attempt]) =>
                 journal'[attempt][task] = step
BY DEF AppendJournal, TornJournal, Written, TailAfter, Parses, Tails, TypeOK

\* Only a draw the journal lacks is generated, verified, repaired or recorded.
LEMMA NotYetJournalled ==
    ASSUME TypeOK, ReplayedKept, pc \in InDraw
    PROVE  journal[attempt][task] = NoStep
<1>1. attempt \in Attempts /\ task \in Tasks /\ Ahead(attempt, task)
  BY DEF TypeOK, Ahead, Attempts, Tasks
<1> QED
  BY <1>1 DEF ReplayedKept, InLoop, InTask

\* Keeping a step moves the loop past the draw it is at, and past no other.
LEMMA KeepMoves ==
    ASSUME TypeOK, NightAssumption, NEW step, Keep(step)
    PROVE  /\ pc' \in InLoop => \A a \in Attempts, t \in Tasks :
                 Ahead(a, t)' <=> Ahead(a, t) /\ (a # attempt \/ t # task)
           /\ pc' \notin InLoop => \A a \in Attempts, t \in Tasks :
                 Ahead(a, t) => a = attempt /\ t = task
           /\ pc' \in InTask => task' = task
           /\ pc' \notin InDraw /\ pc' # "down"
<1>1. attempt \in 1 .. K /\ task \in 1 .. N
  BY DEF TypeOK, Tasks, Attempts
<1> QED
  BY <1>1 DEF Keep, Ahead, InLoop, InTask, InDraw, NightAssumption, Tasks, Attempts

\* All the recorded controls of a task agree, so the one in force is any of them.
LEMMA ProbeIsRecorded ==
    ASSUME TypeOK, OneControlPerTask, ReplayedKept, NEW t \in Tasks, NEW c \in Probes(t),
           NEW a \in Attempts, replayed[a][t] # NoStep
    PROVE  c = replayed[a][t].control
<1>1. PICK b \in Recorded(t) : c = replayed[b][t].control
  BY DEF Probes, Recorded
<1> QED
  BY <1>1 DEF Recorded, OneControlPerTask, ReplayedKept

LEMMA StepControl == TypeOK /\ ControlInv /\ [Next]_vars => ControlInv'
<1> SUFFICES ASSUME TypeOK, ControlInv, [Next]_vars
             PROVE  (ReplayedKept /\ ControlInForce /\ OneControlPerTask)'
  BY StepPosition DEF ControlInv
<1> USE NightAssumption
<1>1. ASSUME NEW why, Exit(why), UNCHANGED journal
      PROVE  (ReplayedKept /\ ControlInForce /\ OneControlPerTask)'
  BY <1>1 DEF Exit, None, ControlInv, ReplayedKept, ControlInForce, OneControlPerTask,
              InLoop, InTask, InDraw
<1>2. CASE Start
  BY <1>2 DEF Start, files, ControlInv, ReplayedKept, ControlInForce, OneControlPerTask,
              InLoop, InTask, InDraw
<1>3. CASE Control
  <2>1. \A a \in Attempts : journal[a][task] # NoStep => journal[a][task].control = control'
    <3> SUFFICES ASSUME NEW a \in Attempts, journal[a][task] # NoStep
                 PROVE  journal[a][task].control = control'
      OBVIOUS
    <3>1. Ahead(a, task) /\ task \in Tasks
      BY <1>3 DEF Control, ControlInv, Position, Ahead, TypeOK, Attempts, Tasks
    <3>2. journal[a][task] = replayed[a][task]
      BY <1>3, <3>1 DEF Control, ControlInv, ReplayedKept, InLoop
    <3> QED
      BY <1>3, <3>1, <3>2, ProbeIsRecorded DEF Control, ControlInv
  <2>2. UNCHANGED <<journal, replayed, task, attempt>> /\ pc = "control" /\ pc' = "draw"
    BY <1>3 DEF Control, files
  <2> QED
    BY <2>1, <2>2 DEF ControlInv, ReplayedKept, ControlInForce, OneControlPerTask,
                      Ahead, InLoop, InTask, InDraw
<1>4. CASE Replay
  <2>1. UNCHANGED <<journal, replayed, control>> /\ pc = "draw"
        /\ Keep(replayed[attempt][task])
    BY <1>4 DEF Replay, files
  <2>2. ReplayedKept'
    BY <2>1, KeepMoves DEF ControlInv, ReplayedKept, InLoop, InTask
  <2>3. ControlInForce'
    BY <2>1, KeepMoves DEF ControlInv, ControlInForce, InTask
  <2> QED
    BY <2>1, <2>2, <2>3 DEF ControlInv, OneControlPerTask
<1>5. CASE Unasked \/ Ask
  <2>1. /\ UNCHANGED <<journal, replayed, control, task, attempt>>
        /\ pc = "draw" /\ pc' \in InDraw /\ replayed[attempt][task] = NoStep
    BY <1>5 DEF Unasked, Ask, files, InDraw, Recorded, TypeOK
  <2> QED
    BY <2>1 DEF ControlInv, ReplayedKept, ControlInForce, OneControlPerTask,
                Ahead, InLoop, InTask, InDraw
<1>6. CASE Generate \/ Verify \/ Repair
  <2>1. /\ UNCHANGED <<journal, replayed, control, task, attempt>>
        /\ pc \in InDraw /\ pc' \in InDraw
    BY <1>6 DEF Generate, Verify, Repair, files, InDraw
  <2> QED
    BY <2>1 DEF ControlInv, ReplayedKept, ControlInForce, OneControlPerTask,
                Ahead, InLoop, InTask
<1>7. CASE RecordStep
  <2>1. /\ pc = "record" /\ AppendJournal(task, ThisStep) /\ Keep(ThisStep)
        /\ UNCHANGED <<replayed, control>> /\ ThisStep \in Step /\ ThisStep.control = control
        /\ attempt \in Attempts /\ task \in Tasks
    BY <1>7 DEF RecordStep, ThisStep, Step, ControlInv, Position, InTask, InDraw, TypeOK
  <2>2. replayed[attempt][task] = NoStep
    BY <2>1 DEF ControlInv, ReplayedKept, InDraw
  <2>3. ReplayedKept'
    BY <2>1, <2>2, KeepMoves, JournalWrite DEF ControlInv, ReplayedKept, InLoop, InTask, InDraw
  <2>4. \A a \in Attempts : journal'[a][task] # NoStep => journal'[a][task].control = control
    BY <2>1, JournalWrite DEF ControlInv, ControlInForce, InTask, InDraw
  <2>5. ControlInForce'
    BY <2>1, <2>4, KeepMoves DEF ControlInForce
  <2>6. OneControlPerTask'
    BY <2>1, <2>4, JournalWrite DEF ControlInv, OneControlPerTask
  <2> QED
    BY <2>3, <2>5, <2>6
<1>8. CASE KillWriting
  <2>1. CASE pc = "record"
    <3>1. /\ TornJournal(task, ThisStep) /\ ThisStep \in Step /\ ThisStep.control = control
          /\ attempt \in Attempts /\ task \in Tasks /\ Exit("killed")
      BY <1>8, <2>1 DEF KillWriting, ThisStep, Step, ControlInv, Position, InTask, InDraw, TypeOK
    <3>2. \A a \in Attempts : journal'[a][task] # NoStep => journal'[a][task].control = control
      BY <2>1, <3>1, JournalWrite DEF ControlInv, ControlInForce, InTask, InDraw
    <3>3. OneControlPerTask'
      BY <3>1, <3>2, JournalWrite DEF ControlInv, OneControlPerTask
    <3> QED
      BY <3>1, <3>3, ExitTyped, "killed" \in Exits
         DEF Exits, ReplayedKept, ControlInForce, InLoop, InTask, InDraw
  <2>2. CASE pc # "record"
    BY <1>1, <1>8, <2>2 DEF KillWriting
  <2> QED
    BY <2>1, <2>2
<1>9. CASE StartRefused \/ SelectRefused \/ Publish \/ Kill
  BY <1>1, <1>9 DEF StartRefused, SelectRefused, Publish, Kill, files
<1>10. CASE UNCHANGED vars
  BY <1>10 DEF vars, files, process, ControlInv, ReplayedKept, ControlInForce,
               OneControlPerTask, Ahead
<1> QED
  BY <1>2, <1>3, <1>4, <1>5, <1>6, <1>7, <1>8, <1>9, <1>10 DEF Next, Night

LEMMA InitControl == Init => ControlInv
BY DEF Init, None, ControlInv, Position, ReplayedKept, ControlInForce, OneControlPerTask,
       InLoop, InTask, InDraw

LEMMA ControlInvariant == Spec => [](TypeOK /\ ControlInv)
<1>1. Init => TypeOK /\ ControlInv
  BY InitTyped, InitControl
<1>2. (TypeOK /\ ControlInv) /\ [Next]_vars => (TypeOK /\ ControlInv)'
  BY StepTyped, StepControl DEF ControlInv
<1> QED
  BY <1>1, <1>2, PTL DEF Spec

\* However often a night is killed and resumed, inside a write or between two, the
\* journalled draws of a task were all taken against one control.
THEOREM OneControlHolds == Spec => []OneControlPerTask
BY ControlInvariant, PTL DEF ControlInv

\* A transcript line touches the key it is posed under and no other.
LEMMA TranscriptWrite ==
    ASSUME TypeOK, NightAssumption, NEW record \in Record,
           AppendTranscript(task, record) \/ TornTranscript(task, record)
    PROVE  /\ \A a \in Attempts, t \in Tasks :
                 a # attempt \/ t # PosedAs[task] => transcript'[a][t] = transcript[a][t]
           /\ \A a \in Attempts : Parses(transcriptTail'[a]) => Parses(transcriptTail[a])
           /\ AppendTranscript(task, record) /\ Parses(transcriptTail'[attempt]) =>
                 transcript'[attempt][PosedAs[task]] = record
BY DEF AppendTranscript, TornTranscript, Written, TailAfter, Parses, Tails, TypeOK,
       NightAssumption

\* Which lines a step writes: a transcript line or a journal line, of the draw the
\* loop is at, or none.
LEMMA WritesOfAStep ==
    ASSUME TypeOK, ControlInv, [Next]_vars
    PROVE  \/ UNCHANGED files
           \/ /\ pc \in InDraw
              /\ UNCHANGED <<journal, journalTail>>
              /\ \E record \in Record :
                    AppendTranscript(task, record) \/ TornTranscript(task, record)
           \/ /\ pc = "record" /\ ThisStep \in Step
              /\ UNCHANGED <<transcript, transcriptTail>>
              /\ AppendJournal(task, ThisStep) \/ TornJournal(task, ThisStep)
<1>1. pc = "record" => ThisStep \in Step
  BY DEF ThisStep, Step, ControlInv, Position, InTask, InDraw
<1>2. CASE Generate \/ Repair
  BY <1>2, AnswersAreRecords DEF Generate, Repair, InDraw
<1>3. CASE RecordStep
  BY <1>1, <1>3 DEF RecordStep
<1>4. CASE KillWriting
  BY <1>1, <1>4, AnswersAreRecords DEF KillWriting, InDraw
<1> QED
  BY <1>2, <1>3, <1>4 DEF Next, Night, Start, StartRefused, Control, Replay, Unasked, Ask,
     Verify, SelectRefused, Publish, Kill, vars, files

LEMMA StepKeepsDraws ==
    ASSUME TypeOK, ControlInv, [Next]_vars, NightAssumption, OwnPrompts,
           NEW a \in Attempts, NEW t \in Tasks, journal[a][t] # NoStep
    PROVE  /\ journal'[a][t] = journal[a][t]
           /\ transcript'[a][PosedAs[t]] = transcript[a][PosedAs[t]]
<1>1. CASE UNCHANGED files
  BY <1>1 DEF files
<1>2. ASSUME pc \in InDraw PROVE a # attempt \/ t # task
  BY <1>2, NotYetJournalled DEF ControlInv
<1>3. CASE /\ pc \in InDraw /\ UNCHANGED journal
           /\ \E record \in Record :
                 AppendTranscript(task, record) \/ TornTranscript(task, record)
  BY <1>2, <1>3, TranscriptWrite DEF OwnPrompts, TypeOK
<1>4. CASE /\ pc = "record" /\ ThisStep \in Step /\ UNCHANGED transcript
           /\ AppendJournal(task, ThisStep) \/ TornJournal(task, ThisStep)
  BY <1>2, <1>4, JournalWrite DEF InDraw
<1> QED
  BY <1>1, <1>3, <1>4, WritesOfAStep

\* Where no two tasks pose the same prompt, a draw that is in the journal keeps its
\* step and its completion through every later write, kill and resumption.
THEOREM CompletedDrawsAreKept == ASSUME OwnPrompts PROVE Spec => CompletedDrawsKept
<1>1. TypeOK /\ ControlInv /\ [Next]_vars =>
        [\A a \in Attempts, t \in Tasks :
           journal[a][t] # NoStep =>
              /\ journal'[a][t] = journal[a][t]
              /\ transcript'[a][PosedAs[t]] = transcript[a][PosedAs[t]]]_vars
  BY StepKeepsDraws, NightAssumption
<1> QED
  BY <1>1, ControlInvariant, PTL DEF Spec, CompletedDrawsKept

-----------------------------------------------------------------------------
(* What the ledger may say. *)

\* The steps held in memory stay those on disk, and cover the loop so far.
LEMMA StepHeld ==
    TypeOK /\ ControlInv /\ HeldSteps /\ [Next]_vars => HeldSteps'
<1> SUFFICES ASSUME TypeOK, ControlInv, HeldSteps, [Next]_vars PROVE HeldSteps'
  OBVIOUS
<1> USE NightAssumption
<1>1. ASSUME NEW why \in Exits, Exit(why) PROVE HeldSteps'
  BY <1>1, ExitTyped DEF HeldSteps, InLoop, InTask, InDraw
<1>2. CASE Start
  <2>1. \A a \in Attempts, t \in Tasks : Ahead(a, t)'
    BY <1>2 DEF Start, Ahead, ControlInv, Position, Attempts, Tasks, NightAssumption
  <2> QED
    BY <1>2, <2>1 DEF Start, HeldSteps, files, InLoop, InTask, InDraw
<1>3. CASE Control \/ Unasked \/ Ask \/ Generate \/ Verify \/ Repair
  <2>1. /\ UNCHANGED <<journal, journalTail, steps, task, attempt>>
        /\ pc \in InLoop /\ pc' \in InLoop
    BY <1>3 DEF Control, Unasked, Ask, Generate, Verify, Repair, files, InLoop, InTask, InDraw
  <2> QED
    BY <2>1 DEF HeldSteps, Ahead, InLoop, InTask, InDraw
<1>4. ASSUME NEW step \in Step, Keep(step), pc \in InTask,
             Parses(journalTail'[attempt]) => journal'[attempt][task] = step,
             \A a \in Attempts, t \in Tasks :
                a # attempt \/ t # task => journal'[a][t] = journal[a][t],
             \A a \in Attempts : Parses(journalTail'[a]) => Parses(journalTail[a])
      PROVE  HeldSteps'
  <2>1. step # NoStep
    BY DEF Step, NoStep, Controls
  <2>2. /\ \A a \in Attempts, t \in Tasks :
             a # attempt \/ t # task => steps'[a][t] = steps[a][t]
        /\ steps'[attempt][task] = step
    BY <1>4 DEF Keep, TypeOK
  <2>3. \A a \in Attempts, t \in Tasks :
          steps'[a][t] # NoStep /\ Parses(journalTail'[a]) => journal'[a][t] = steps'[a][t]
    BY <1>4, <2>2 DEF HeldSteps
  <2>4. pc \in InLoop /\ pc' # "down" /\ (pc' = "select" => pc' \notin InLoop)
    BY <1>4, KeepMoves DEF InLoop, InTask, InDraw
  <2>5. pc' \in InLoop => \A a \in Attempts, t \in Tasks :
          IF Ahead(a, t)' THEN steps'[a][t] = NoStep ELSE steps'[a][t] # NoStep
    BY <1>4, <2>1, <2>2, <2>4, KeepMoves DEF HeldSteps
  <2>6. pc' \notin InLoop => \A a \in Attempts, t \in Tasks : steps'[a][t] # NoStep
    BY <1>4, <2>1, <2>2, <2>4, KeepMoves DEF HeldSteps
  <2> QED
    BY <2>3, <2>4, <2>5, <2>6 DEF HeldSteps
<1>5. CASE Replay
  <2>1. /\ replayed[attempt][task] \in Step /\ Keep(replayed[attempt][task])
        /\ pc \in InTask /\ UNCHANGED <<journal, journalTail>>
        /\ journal[attempt][task] = replayed[attempt][task]
    BY <1>5 DEF Replay, Recorded, TypeOK, files, InTask, ControlInv, ReplayedKept
  <2> QED
    BY <1>4, <2>1
<1>6. CASE RecordStep
  <2>1. /\ ThisStep \in Step /\ Keep(ThisStep) /\ pc \in InTask
        /\ AppendJournal(task, ThisStep)
    BY <1>6 DEF RecordStep, ThisStep, Step, ControlInv, Position, InTask, InDraw
  <2> QED
    BY <1>4, <2>1, JournalWrite
<1>7. CASE StartRefused \/ Kill \/ KillWriting \/ Publish
  BY <1>1, <1>7 DEF StartRefused, Kill, KillWriting, Publish, Exits
<1>8. CASE SelectRefused
  BY <1>1, <1>8 DEF SelectRefused, Complaint, SourceComplaint, Exits
<1>9. CASE UNCHANGED vars
  BY <1>9 DEF vars, files, process, HeldSteps, Ahead
<1> QED
  BY <1>2, <1>3, <1>5, <1>6, <1>7, <1>8, <1>9 DEF Next, Night

\* While a draw is on disk or in memory, its stored completion stays as it is.
LEMMA TextStays ==
    ASSUME TypeOK, ControlInv, HeldSteps, [Next]_vars, NightAssumption, OwnPrompts,
           NEW a \in Attempts, NEW t \in Tasks,
           journal[a][t] # NoStep \/ steps[a][t] # NoStep
    PROVE  /\ transcript'[a][t] = transcript[a][t]
           /\ Parses(transcriptTail'[a]) => Parses(transcriptTail[a])
<1>1. attempt \in Attempts /\ task \in Tasks /\ PosedAs[task] = task
  BY DEF TypeOK, OwnPrompts
<1>2. pc \in InDraw => journal[attempt][task] = NoStep
  BY NotYetJournalled DEF ControlInv
<1>3. pc \in InDraw => steps[attempt][task] = NoStep
  BY <1>1 DEF HeldSteps, Ahead, InLoop, InTask, Attempts, Tasks
<1>4. CASE UNCHANGED <<transcript, transcriptTail>>
  BY <1>4
<1>5. CASE /\ pc \in InDraw
           /\ \E record \in Record :
                 AppendTranscript(task, record) \/ TornTranscript(task, record)
  BY <1>1, <1>2, <1>3, <1>5, TranscriptWrite
<1> QED
  BY <1>4, <1>5, WritesOfAStep DEF files

LEMMA StepTexts ==
    ASSUME OwnPrompts, TypeOK, ControlInv, HeldSteps, StoredTexts, [Next]_vars
    PROVE  StoredTexts'
<1> USE NightAssumption
<1>1. attempt \in Attempts /\ task \in Tasks /\ PosedAs[task] = task
  BY DEF TypeOK, OwnPrompts
<1>2. ASSUME NEW a \in Attempts, NEW t \in Tasks
      PROVE  \/ journal'[a][t] = journal[a][t]
             \/ /\ a = attempt /\ t = task /\ pc = "record" /\ journal'[a][t] = ThisStep
                /\ UNCHANGED <<transcript, transcriptTail>>
  BY <1>1, <1>2, WritesOfAStep, JournalWrite DEF files
<1>3. ASSUME NEW a \in Attempts, NEW t \in Tasks
      PROVE  TextPasses(a, t, journal[a][t].outcome)'
  <2>1. CASE journal'[a][t] = journal[a][t] /\ journal[a][t] = NoStep
    BY <2>1 DEF NoStep, TextPasses
  <2>2. CASE journal'[a][t] = journal[a][t] /\ journal[a][t] # NoStep
    BY <2>2, TextStays DEF StoredTexts, TextPasses
  <2>3. CASE a = attempt /\ t = task /\ pc = "record" /\ journal'[a][t] = ThisStep
             /\ UNCHANGED <<transcript, transcriptTail>>
    BY <2>3 DEF ThisStep, StoredTexts, TextPasses
  <2> QED
    BY <1>2, <2>1, <2>2, <2>3
<1>4. ASSUME NEW a \in Attempts, NEW t \in Tasks
      PROVE  TextPasses(a, t, steps[a][t].outcome)'
  <2>1. CASE steps'[a][t] = NoStep
    BY <2>1 DEF NoStep, TextPasses
  <2>2. CASE steps'[a][t] = steps[a][t] /\ steps[a][t] # NoStep
    BY <2>2, TextStays DEF StoredTexts, TextPasses
  <2>3. CASE Replay /\ a = attempt /\ t = task
    <3>1. /\ steps'[a][t] = journal[a][t] /\ UNCHANGED <<transcript, transcriptTail>>
      BY <2>3 DEF Replay, Keep, Recorded, ControlInv, ReplayedKept, TypeOK, files
    <3> QED
      BY <3>1 DEF StoredTexts, TextPasses
  <2>4. CASE RecordStep /\ a = attempt /\ t = task
    <3>1. /\ steps'[a][t].outcome = outcome /\ UNCHANGED <<transcript, transcriptTail>>
      BY <2>4 DEF RecordStep, Keep, ThisStep, TypeOK
    <3> QED
      BY <2>4, <3>1 DEF RecordStep, StoredTexts, TextPasses
  <2>5. ASSUME NEW why, Exit(why) PROVE steps'[a][t] = NoStep
    BY <2>5 DEF Exit, None
  <2> QED
    BY <2>1, <2>2, <2>3, <2>4, <2>5, <1>1 DEF Next, Night, Start, StartRefused, Control, Replay,
       Unasked, Ask, Generate, Verify, Repair, RecordStep, SelectRefused, Publish, Kill,
       KillWriting, Keep, vars, process, TypeOK
<1>5. ASSUME NEW why, Exit(why) PROVE pc' \notin {"record", "verify"}
  BY <1>5 DEF Exit
<1>6. (pc = "record" => TextPasses(attempt, task, outcome))'
  <2>1. CASE Unasked
    BY <2>1 DEF Unasked, TextPasses
  <2>2. CASE Verify
    BY <1>1, <2>2 DEF Verify, Verdicts, StoredTexts, TextPasses, files
  <2>3. CASE UNCHANGED vars
    BY <2>3 DEF vars, files, process, rollout, StoredTexts, TextPasses
  <2> QED
    BY <1>5, <2>1, <2>2, <2>3 DEF Next, Night, Start, StartRefused, Control, Replay, Ask,
       Generate, Repair, RecordStep, SelectRefused, Publish, Kill, KillWriting, Keep
<1>7. (pc = "verify" /\ Parses(transcriptTail[attempt]) =>
          transcript[attempt][task].completion = completion)'
  <2>1. CASE Generate
    BY <1>1, <2>1, AnswersAreRecords, TranscriptWrite DEF Generate, Answer
  <2>2. CASE Repair
    BY <1>1, <2>2, AnswersAreRecords, TranscriptWrite DEF Repair, RepairAnswer
  <2>3. CASE UNCHANGED vars
    BY <2>3 DEF vars, files, process, rollout, StoredTexts
  <2> QED
    BY <1>5, <2>1, <2>2, <2>3 DEF Next, Night, Start, StartRefused, Control, Replay, Ask,
       Unasked, Verify, RecordStep, SelectRefused, Publish, Kill, KillWriting, Keep
<1> QED
  BY <1>3, <1>4, <1>6, <1>7 DEF StoredTexts

\* Once a ledger is written nothing moves; until then there is none, and the one that
\* is written says what the steps and the texts held at selection say.
LEMMA PublishedLedger ==
    ASSUME TypeOK, HeldSteps, StoredTexts, Publish, NightAssumption
    PROVE  LedgerInv'
<1>1. /\ UNCHANGED files /\ ledger'.written /\ pc' = "down"
      /\ ledger'.examples = {ExampleOf(d[1], d[2]) : d \in Wins}
      /\ ledger'.denominator = Cardinality(Counted)
      /\ ledger'.unverified =
            Cardinality({d \in Counted : steps[d[1]][d[2]].outcome \in Unscored})
  BY DEF Publish, Exit
<1>2. \A a \in Attempts : /\ TranscriptReplays(a)
                          /\ \A s \in Sources : HarnessProven(a, s)
  BY DEF Publish, Complaint, SourceComplaint, Sources
<1>3. \A a \in Attempts, t \in Tasks : steps[a][t] # NoStep
  BY DEF Publish, HeldSteps
<1>4. \A a \in Attempts, t \in Tasks :
        Parses(journalTail[a]) => journal[a][t] = steps[a][t]
  BY <1>3 DEF HeldSteps
<1>5. TrainedIsVerified'
  <2> SUFFICES ASSUME NEW d \in Wins
               PROVE  /\ <<d[2], transcript[d[1]][d[2]].completion>> \in Passing
                      /\ Parses(journalTail[d[1]]) =>
                            journal[d[1]][d[2]].outcome = "SOLVED"
    BY <1>1 DEF TrainedIsVerified, ExampleOf, files
  <2>1. d[1] \in Attempts /\ d[2] \in Tasks /\ steps[d[1]][d[2]].outcome = "SOLVED"
    BY DEF Wins, Won
  <2> QED
    BY <1>2, <1>4, <2>1 DEF StoredTexts, TextPasses, TranscriptReplays
<1>6. LedgerRestsOnProvenHarness'
  BY <1>1, <1>2, <1>4 DEF LedgerRestsOnProvenHarness, HarnessProven, files
<1>7. ledger'.denominator = N * K
  <2>1. Counted = Attempts \X Tasks
    BY <1>3 DEF Counted
  <2>2. /\ IsFiniteSet(Attempts) /\ Cardinality(Attempts) = K
        /\ IsFiniteSet(Tasks) /\ Cardinality(Tasks) = N
    <3>1. N \in Int /\ K \in Int /\ 1 \in Int /\ N >= 1 /\ K >= 1
      BY NightAssumption DEF NightAssumption
    <3>2. Cardinality(1 .. N) = N /\ Cardinality(1 .. K) = K
      BY <3>1, FS_Interval
    <3> QED
      BY <3>1, <3>2, FS_Interval DEF Attempts, Tasks
  <2>3. Cardinality(Attempts \X Tasks) = K * N
    BY <2>2, FS_Product
  <2>4. K * N = N * K
    BY DEF NightAssumption
  <2> QED
    BY <1>1, <2>1, <2>3, <2>4
<1>8. (\A a \in Attempts : Parses(journalTail[a])) =>
        ledger'.unverified = Cardinality({d \in Attempts \X Tasks :
                                journal[d[1]][d[2]].outcome \in Unscored})
  <2> SUFFICES ASSUME \A a \in Attempts : Parses(journalTail[a])
               PROVE  {d \in Counted : steps[d[1]][d[2]].outcome \in Unscored}
                        = {d \in Attempts \X Tasks : journal[d[1]][d[2]].outcome \in Unscored}
    BY <1>1
  <2>1. \A a \in Attempts, t \in Tasks : journal[a][t] = steps[a][t]
    BY <1>4
  <2> QED
    BY <1>3, <2>1 DEF Counted
<1> QED
  BY <1>1, <1>5, <1>6, <1>7, <1>8 DEF LedgerInv, LedgerLast, LedgerCountsEveryDraw, files

LEMMA StepLedger ==
    ASSUME TypeOK, HeldSteps, StoredTexts, LedgerInv, [Next]_vars
    PROVE  LedgerInv'
<1>1. CASE Publish
  BY <1>1, PublishedLedger, NightAssumption
<1>2. CASE UNCHANGED vars
  BY <1>2 DEF vars, files, process, LedgerInv, LedgerLast, TrainedIsVerified,
              LedgerRestsOnProvenHarness, LedgerCountsEveryDraw
<1>3. CASE ~ledger.written /\ UNCHANGED ledger
  BY <1>3 DEF LedgerInv, LedgerLast, TrainedIsVerified, LedgerRestsOnProvenHarness,
              LedgerCountsEveryDraw
<1> QED
  BY <1>1, <1>2, <1>3 DEF LedgerInv, LedgerLast, Next, Night, Start, StartRefused, Control,
     Replay, Unasked, Ask, Generate, Verify, Repair, RecordStep, SelectRefused, Kill,
     KillWriting

LEMMA InitLedger == Init => HeldSteps /\ StoredTexts /\ LedgerInv
BY DEF Init, None, NoStep, NoLedger, HeldSteps, StoredTexts, TextPasses, LedgerInv, LedgerLast,
       TrainedIsVerified, LedgerRestsOnProvenHarness, LedgerCountsEveryDraw, InLoop, InTask,
       InDraw

LEMMA LedgerInvariant ==
    ASSUME OwnPrompts
    PROVE  Spec => [](TypeOK /\ ControlInv /\ HeldSteps /\ StoredTexts /\ LedgerInv)
<1> DEFINE Inv == TypeOK /\ ControlInv /\ HeldSteps /\ StoredTexts /\ LedgerInv
<1>1. Init => Inv
  BY InitTyped, InitControl, InitLedger
<1>2. Inv /\ [Next]_vars => Inv'
  BY StepTyped, StepControl, StepHeld, StepTexts, StepLedger DEF ControlInv
<1> QED
  BY <1>1, <1>2, PTL DEF Spec

\* A win whose transcript can be read has a text: an absent one passes nothing.
LEMMA WonHasText ==
    ASSUME StoredTexts, NEW a \in Attempts, NEW t \in Tasks, Won(a, t), TranscriptReplays(a)
    PROVE  transcript[a][t] # NoRecord
<1>1. <<t, transcript[a][t].completion>> \in Passing
  BY DEF StoredTexts, TextPasses, Won, TranscriptReplays
<1>2. transcript[a][t].completion \in Completions
  BY <1>1, NightAssumption
<1> QED
  BY <1>2, NightAssumption DEF NoRecord

LEMMA StepKeepsText ==
    ASSUME StoredTexts, WinHasText, [Next]_vars PROVE WinHasText'
<1>1. CASE SelectRefused
  <2>1. PICK a \in Attempts : Complaint(a) # "none" /\ exit' = Complaint(a)
    BY <1>1 DEF SelectRefused, Exit
  <2>2. TranscriptReplays(a) => TextKept(a, "private") /\ TextKept(a, "public")
    BY WonHasText DEF TextKept
  <2>3. Complaint(a) # "NotTrainable"
    <3>1. CASE ~TranscriptReplays(a)
      <4>1. Complaint(a) = "TranscriptUnreadable"
        BY <3>1 DEF Complaint
      <4> QED
        BY <4>1
    <3>2. CASE TranscriptReplays(a)
      <4>1. TextKept(a, "private") /\ TextKept(a, "public")
        BY <3>2, <2>2
      <4>2. Complaint(a) \in {"HarnessNotProven", "none"}
        BY <3>2, <4>1 DEF Complaint, SourceComplaint
      <4> QED
        BY <4>2
    <3> QED
      BY <3>1, <3>2
  <2> QED
    BY <2>1, <2>3 DEF WinHasText
<1>2. CASE UNCHANGED exit \/ exit' \in Exits \ {"NotTrainable"}
  BY <1>2 DEF WinHasText
<1> QED
  BY <1>1, <1>2 DEF Next, Night, Start, StartRefused, Control, Replay, Unasked, Ask, Generate,
     Verify, Repair, RecordStep, Publish, Kill, KillWriting, Exit, Exits, vars, process

\* Where no two tasks pose the same prompt, every example of a published ledger pairs a task with a
\* completion that passes its tests, and no win is left without its completion at selection, through
\* any retries, repairs, kills inside or between writes, and resumptions.
THEOREM WinsAreTrainableHolds == ASSUME OwnPrompts PROVE Spec => []WinsAreTrainable
<1>1. Init => WinHasText
  BY DEF Init, WinHasText
<1>2. StoredTexts /\ WinHasText /\ [Next]_vars => WinHasText'
  BY StepKeepsText
<1>3. TrainedIsVerified /\ WinHasText => WinsAreTrainable
  BY DEF WinsAreTrainable
<1> QED
  BY <1>1, <1>2, <1>3, LedgerInvariant, PTL DEF LedgerInv, Spec

\* Under the same condition the published ledger is over a proven harness, attempt by attempt and
\* source by source, and counts every draw of every task and every one without a verdict.
THEOREM LedgerIsSoundHolds == ASSUME OwnPrompts PROVE Spec => []LedgerIsSound
<1>1. LedgerInv => LedgerIsSound
  BY DEF LedgerInv, LedgerIsSound
<1> QED
  BY <1>1, LedgerInvariant, PTL

-----------------------------------------------------------------------------
(* The night as an uninterrupted one.  A kill inside a journal line is     *)
(* left out: what the next process appends to it is lost, and the night    *)
(* publishes draws that are nowhere on disk.                               *)

\* The draws on disk are the first of the night, and every line of theirs is whole.
InNightOrder ==
    /\ \A a \in Attempts : journalTail[a] = "whole"
    /\ \A a, b \in Attempts, t, u \in Tasks :
          journal[a][t] # NoStep /\ Uninterrupted!Earlier(b, u, a, t) => journal[b][u] # NoStep

Unfinished == HeldSteps /\ InNightOrder /\ LedgerLast

\* Only a recorded step changes a journal, and what comes before it is on disk.
LEMMA RecordedInOrder ==
    ASSUME TypeOK, ControlInv, Unfinished, RecordStep, NightAssumption
    PROVE  /\ attempt \in Attempts /\ task \in Tasks /\ ThisStep \in Step
           /\ journal[attempt][task] = NoStep /\ journal'[attempt][task] = ThisStep
           /\ \A a \in Attempts, t \in Tasks :
                 a # attempt \/ t # task => journal'[a][t] = journal[a][t]
           /\ \A b \in Attempts, u \in Tasks :
                 Uninterrupted!Earlier(b, u, attempt, task) => journal[b][u] # NoStep
           /\ UNCHANGED journalTail
<1>1. /\ pc = "record" /\ AppendJournal(task, ThisStep) /\ ThisStep \in Step
      /\ attempt \in Attempts /\ task \in Tasks /\ pc \in InDraw /\ pc \in InLoop
  BY DEF RecordStep, ThisStep, Step, ControlInv, Position, InLoop, InTask, InDraw, TypeOK
<1>2. journal[attempt][task] = NoStep
  BY <1>1, NotYetJournalled DEF ControlInv
<1>3. journalTail[attempt] = "whole" /\ journalTail \in [Attempts -> Tails]
  BY <1>1 DEF Unfinished, InNightOrder, TypeOK
<1>4. UNCHANGED journalTail
  BY <1>1, <1>3 DEF AppendJournal, TailAfter
<1>5. /\ journal'[attempt][task] = ThisStep
      /\ \A a \in Attempts, t \in Tasks :
            a # attempt \/ t # task => journal'[a][t] = journal[a][t]
  BY <1>1, <1>3, <1>4, JournalWrite DEF Parses
<1>6. ASSUME NEW b \in Attempts, NEW u \in Tasks, Uninterrupted!Earlier(b, u, attempt, task)
      PROVE  journal[b][u] # NoStep
  <2>1. ~Ahead(b, u)
    BY <1>1, <1>6 DEF Uninterrupted!Earlier, Ahead, Attempts, Tasks, NightAssumption
  <2>2. steps[b][u] # NoStep /\ journalTail[b] = "whole"
    BY <1>1, <2>1 DEF Unfinished, HeldSteps, InNightOrder
  <2> QED
    BY <2>2 DEF Unfinished, HeldSteps, Parses
<1> QED
  BY <1>1, <1>2, <1>4, <1>5, <1>6

\* Nothing else changes one while no write is torn.
LEMMA OnlyRecords ==
    ASSUME ~TornWrites, TypeOK, ControlInv, [Next]_vars
    PROVE  RecordStep \/ UNCHANGED <<journal, journalTail>>
BY DEF Next, Night, Start, StartRefused, Control, Replay, Unasked, Ask, Generate, Repair, Verify,
       SelectRefused, Publish, Kill, KillWriting, vars, files

LEMMA StepUnfinished ==
    ASSUME ~TornWrites, TypeOK, ControlInv, Unfinished, [Next]_vars
    PROVE  Unfinished'
<1> USE NightAssumption
<1>1. HeldSteps'
  BY StepHeld DEF Unfinished
<1>2. LedgerLast'
  <2>1. CASE Publish
    BY <2>1 DEF Publish, Exit, LedgerLast
  <2>2. CASE UNCHANGED vars
    BY <2>2 DEF vars, process, Unfinished, LedgerLast
  <2>3. CASE ~ledger.written /\ UNCHANGED ledger
    BY <2>3 DEF Unfinished, LedgerLast
  <2> QED
    BY <2>1, <2>2, <2>3 DEF Unfinished, LedgerLast, Next, Night, Start, StartRefused, Control,
       Replay, Unasked, Ask, Generate, Verify, Repair, RecordStep, SelectRefused, Kill, KillWriting
<1>3. InNightOrder'
  <2>1. CASE UNCHANGED <<journal, journalTail>>
    BY <2>1 DEF Unfinished, InNightOrder
  <2>2. CASE RecordStep
    <3>1. \A a \in Attempts, t \in Tasks : journal[a][t] # NoStep => journal'[a][t] # NoStep
      BY <2>2, RecordedInOrder
    <3>2. ASSUME NEW a \in Attempts, NEW b \in Attempts, NEW t \in Tasks, NEW u \in Tasks,
                 journal'[a][t] # NoStep, Uninterrupted!Earlier(b, u, a, t)
          PROVE  journal'[b][u] # NoStep
      <4>1. CASE a = attempt /\ t = task
        BY <2>2, <3>1, <3>2, <4>1, RecordedInOrder
      <4>2. CASE a # attempt \/ t # task
        <5>1. journal[a][t] # NoStep
          BY <2>2, <3>2, <4>2, RecordedInOrder
        <5> QED
          BY <3>1, <3>2, <5>1 DEF Unfinished, InNightOrder
      <4> QED
        BY <4>1, <4>2
    <3> QED
      BY <2>2, <3>2, RecordedInOrder DEF Unfinished, InNightOrder, Uninterrupted!Earlier
  <2> QED
    BY <2>1, <2>2, OnlyRecords
<1> QED
  BY <1>1, <1>2, <1>3 DEF Unfinished

LEMMA UnfinishedInvariant ==
    ASSUME ~TornWrites PROVE Spec => [](TypeOK /\ ControlInv /\ Unfinished)
<1>1. Init => Unfinished
  <2> SUFFICES ASSUME Init PROVE Unfinished
    OBVIOUS
  <2>1. HeldSteps /\ LedgerLast
    BY InitLedger DEF LedgerInv
  <2>2. InNightOrder
    BY DEF Init, None, InNightOrder
  <2> QED
    BY <2>1, <2>2 DEF Unfinished
<1>2. TypeOK /\ ControlInv /\ Unfinished /\ [Next]_vars => Unfinished'
  BY StepUnfinished
<1> QED
  BY <1>1, <1>2, ControlInvariant, PTL DEF Spec

LEMMA InitRefines == Init => Uninterrupted!RInit
<1> SUFFICES ASSUME Init PROVE Uninterrupted!RInit
  OBVIOUS
<1>1. \A a \in Attempts, t \in Tasks : journal[a][t] = NoStep
  BY DEF Init, None
<1>2. ~ledger.written /\ 1 \in Attempts
  BY NightAssumption DEF Init, NoLedger, NightAssumption, Attempts
<1> QED
  BY <1>1, <1>2 DEF Uninterrupted!RInit, Uninterrupted!Unpublished, NoStep, Attempts, Tasks

\* A recorded step settles its draw, and the probe of its task with the first of them.
LEMMA RecordSettles ==
    ASSUME TypeOK, ControlInv, Unfinished, RecordStep, ~ledger.written, UNCHANGED ledger,
           NEW CONSTANT a \in 1 .. K, NEW CONSTANT t \in 1 .. N, a = attempt, t = task
    PROVE  Uninterrupted!Settle(a, t)
<1> USE NightAssumption
<1>1. /\ a \in Attempts /\ t \in Tasks /\ 1 \in Attempts
      /\ journal[a][t] = NoStep /\ journal'[a][t] = ThisStep /\ ThisStep \in Step
      /\ \A b \in Attempts, u \in Tasks : b # a \/ u # t => journal'[b][u] = journal[b][u]
      /\ \A b \in Attempts, u \in Tasks :
            Uninterrupted!Earlier(b, u, a, t) => journal[b][u] # NoStep
  <2>1. 1 \in Attempts
    BY DEF NightAssumption, Attempts
  <2> QED
    BY <2>1, RecordedInOrder
<1>2. journal \in [Attempts -> [Tasks -> Step \cup {NoStep}]]
  BY DEF TypeOK
<1>3. \A b \in Attempts, u \in Tasks : journal[b][u] # NoStep =>
          journal[b][u].outcome # "absent" /\ journal[b][u].control # "absent"
  BY <1>2 DEF Step, Controls, Outcomes, Unscored
<1> DEFINE settled == [b \in Attempts |-> [u \in Tasks |-> journal[b][u].outcome]]
           probed  == [u \in Tasks |-> journal[1][u].control]
           o == journal'[a][t].outcome
           c == journal'[a][t].control
<1>4. o \in Outcomes /\ c \in Controls
  BY <1>1 DEF Step
<1>5. settled[a][t] = "absent"
  BY <1>1 DEF NoStep
<1>6. settled' = [settled EXCEPT ![a][t] = o]
  <2> DEFINE row(b) == [u \in Tasks |-> journal[b][u].outcome]
             row2(b) == [u \in Tasks |-> journal'[b][u].outcome]
  <2>1. row2(a) = [row(a) EXCEPT ![t] = o]
    BY <1>1
  <2>2. \A b \in Attempts : b # a => row2(b) = row(b)
    BY <1>1
  <2>3. settled = [b \in Attempts |-> row(b)] /\ settled' = [b \in Attempts |-> row2(b)]
    OBVIOUS
  <2> HIDE DEF row, row2, settled, o
  <2> QED
    BY <1>1, <2>1, <2>2, <2>3
<1>7. \A b \in 1 .. K, u \in 1 .. N :
          Uninterrupted!Earlier(b, u, a, t) => settled[b][u] # "absent"
  BY <1>1, <1>3 DEF Attempts, Tasks
<1>8. IF probed[t] = "absent" THEN probed' = [probed EXCEPT ![t] = c] ELSE UNCHANGED probed
  <2>1. CASE a = 1
    <3>1. probed[t] = "absent"
      BY <1>1, <2>1 DEF NoStep
    <3>2. \A u \in Tasks : u # t => journal'[1][u] = journal[1][u]
      BY <1>1
    <3>3. \A u \in Tasks : journal'[1][u].control = IF u = t THEN c ELSE probed[u]
      BY <2>1, <3>2
    <3>4. probed' = [u \in Tasks |-> journal'[1][u].control] /\ DOMAIN probed = Tasks
      OBVIOUS
    <3> HIDE DEF c
    <3>5. probed' = [probed EXCEPT ![t] = c]
      BY <1>1, <3>3, <3>4
    <3> QED
      BY <3>1, <3>5
  <2>2. CASE a # 1
    <3>1. Uninterrupted!Earlier(1, t, a, t)
      BY <2>2 DEF Uninterrupted!Earlier, NightAssumption
    <3>2. probed[t] # "absent"
      BY <1>1, <1>3, <3>1
    <3>3. UNCHANGED probed
      BY <1>1, <2>2
    <3> QED
      BY <3>2, <3>3
  <2> QED
    BY <2>1, <2>2
<1> HIDE DEF settled, probed, o, c
<1>9. /\ settled[a][t] = "absent"
      /\ \E out \in Outcomes : settled' = [settled EXCEPT ![a][t] = out]
      /\ IF probed[t] = "absent"
           THEN \E ctl \in Controls : probed' = [probed EXCEPT ![t] = ctl] ELSE UNCHANGED probed
  BY <1>4, <1>5, <1>6, <1>8
<1> QED
  BY <1>7, <1>9 DEF Uninterrupted!Settle, Uninterrupted!Unpublished, settled, probed

\* The ledger publishes what the journals settled, over the harness their probes proved.
LEMMA PublishPublishes ==
    ASSUME TypeOK, Unfinished, Publish, ~ledger.written
    PROVE  Uninterrupted!PublishRecord
<1> USE NightAssumption
<1>1. /\ pc = "select" /\ UNCHANGED journal /\ ledger'.written
      /\ ledger'.examples = {ExampleOf(d[1], d[2]) : d \in Wins}
      /\ \A a \in Attempts, s \in Sources : HarnessProven(a, s)
  BY DEF Publish, files, Complaint, SourceComplaint, Sources
<1>2. \A a \in Attempts, t \in Tasks : journal[a][t] = steps[a][t] /\ journal[a][t] # NoStep
  BY <1>1 DEF Unfinished, HeldSteps, InNightOrder, Parses
<1>3. \A a \in Attempts, t \in Tasks : journal[a][t].outcome # "absent"
  <2>1. journal \in [Attempts -> [Tasks -> Step \cup {NoStep}]]
    BY DEF TypeOK
  <2>2. \A a \in Attempts, t \in Tasks : journal[a][t] \in Step
    BY <1>2, <2>1
  <2> QED
    BY <2>2 DEF Step, Outcomes, Unscored
<1>4. 1 \in Attempts
  BY DEF NightAssumption, Attempts
<1>5. \A s \in Sources : Uninterrupted!Proven(s)
  <2> SUFFICES ASSUME NEW s \in Sources PROVE Uninterrupted!Proven(s)
    OBVIOUS
  <2>1. HarnessProven(1, s) /\ \A t \in Tasks : steps[1][t].control = journal[1][t].control
    BY <1>1, <1>2, <1>4
  <2> QED
    BY <2>1 DEF HarnessProven, Uninterrupted!Proven, Tasks
<1> DEFINE settled == [a \in Attempts |-> [t \in Tasks |-> journal[a][t].outcome]]
           probed  == [t \in Tasks |-> journal[1][t].control]
           settledWins == {d \in (1 .. K) \X (1 .. N) : settled[d[1]][d[2]] = "SOLVED"}
           trained == {<<e.attempt, e.task>> : e \in ledger'.examples}
<1>6. settledWins = Wins
  <2>1. \A a \in Attempts, t \in Tasks : settled[a][t] = steps[a][t].outcome
    BY <1>2
  <2> HIDE DEF settled
  <2>2. \A d \in Attempts \X Tasks : settled[d[1]][d[2]] = "SOLVED" <=> Won(d[1], d[2])
    BY <2>1 DEF Won
  <2> QED
    BY <2>2 DEF Wins, Attempts, Tasks
<1>7. trained = Wins
  <2>1. ASSUME NEW e \in ledger'.examples PROVE <<e.attempt, e.task>> \in Wins
    <3>1. PICK d \in Wins : e = ExampleOf(d[1], d[2])
      BY <1>1
    <3>2. e.attempt = d[1] /\ e.task = d[2] /\ d = <<d[1], d[2]>>
      BY <3>1 DEF ExampleOf, Wins
    <3> QED
      BY <3>2
  <2>2. ASSUME NEW d \in Wins PROVE \E e \in ledger'.examples : d = <<e.attempt, e.task>>
    <3>1. ExampleOf(d[1], d[2]) \in ledger'.examples
      BY <1>1
    <3>2. d = <<ExampleOf(d[1], d[2]).attempt, ExampleOf(d[1], d[2]).task>>
      BY DEF ExampleOf, Wins
    <3> QED
      BY <3>1, <3>2
  <2> QED
    BY <2>1, <2>2
<1>8. \A a \in 1 .. K, t \in 1 .. N : settled[a][t] # "absent"
  BY <1>3 DEF Attempts, Tasks
<1>9. UNCHANGED settled /\ UNCHANGED probed
  BY <1>1
<1> HIDE DEF trained, settledWins
<1>10. trained = settledWins
  BY <1>6, <1>7
<1> QED
  BY <1>1, <1>5, <1>8, <1>9, <1>10
     DEF Uninterrupted!PublishRecord, Uninterrupted!Unpublished, trained, settledWins

LEMMA StepRefines ==
    ASSUME ~TornWrites, TypeOK, ControlInv, Unfinished, [Next]_vars
    PROVE  [Uninterrupted!RNext]_(Uninterrupted!rvars)
<1> SUFFICES Uninterrupted!RNext \/ UNCHANGED Uninterrupted!rvars
  OBVIOUS
<1>1. CASE RecordStep
  <2>1. ~ledger.written /\ UNCHANGED ledger
    BY <1>1 DEF RecordStep, Unfinished, LedgerLast
  <2>2. PICK a \in 1 .. K, t \in 1 .. N : a = attempt /\ t = task
    BY DEF TypeOK, Attempts, Tasks
  <2>3. Uninterrupted!Settle(a, t)
    BY <1>1, <2>1, <2>2, RecordSettles
  <2> QED
    BY <2>3 DEF Uninterrupted!RNext
<1>2. CASE Publish
  <2>1. ~ledger.written
    BY <1>2 DEF Publish, Unfinished, LedgerLast
  <2> QED
    BY <1>2, <2>1, PublishPublishes DEF Uninterrupted!RNext
<1>3. CASE UNCHANGED <<journal, ledger>>
  BY <1>3 DEF Uninterrupted!rvars
<1> QED
  BY <1>1, <1>2, <1>3, OnlyRecords DEF Next, Night, Start, StartRefused, Control, Replay, Unasked,
     Ask, Generate, Verify, Repair, SelectRefused, Kill, KillWriting, vars, files

\* Killed between any two writes and given again as often as one likes, with any retries and repairs,
\* a night is the uninterrupted one: its draws settle in the night's order, each once and for good and
\* all of a task under one control, and its ledger trains on exactly the draws settled as SOLVED over
\* probes that proved both sources (draws.py, journal.py "a resumed run produces the record set an
\* uninterrupted run would have produced").
THEOREM RecordIsUninterruptedHolds ==
    ASSUME ~TornWrites PROVE Spec => RecordIsUninterrupted
<1>1. Spec => Uninterrupted!RInit
  BY InitRefines DEF Spec
<1>2. TypeOK /\ ControlInv /\ Unfinished /\ [Next]_vars => [Uninterrupted!RNext]_(Uninterrupted!rvars)
  BY StepRefines
<1> QED
  BY <1>1, <1>2, UnfinishedInvariant, PTL DEF Spec, RecordIsUninterrupted, Uninterrupted!RSpec
=============================================================================
