# Formal model of whetstone

Whetstone improves a small coding model overnight. It mines tasks from the operator's own
repositories, draws patches from a base model, re-executes each patch against operator-held
tests (the *strict* reward), fine-tunes on the verified wins, and promotes the new checkpoint
only if a held-out set says it is no worse anywhere. Its promises are about bookkeeping under
failure: a fault of the machine is nobody's zero, a killed run resumes as if it had not been
killed, nothing trained on was unverified or held out, and no decision rests on a re-rolled
answer. Those promises span processes, files and retries, and they are what this project
states, checks with TLC and proves with TLAPS.

Paths below are under `src/src/whetstone/`.

## The system

| part | state it keeps | operations | what is hard |
|---|---|---|---|
| **STRICT** `verify/strict.py`, `verdict.py` | a checkout, a confined run, sub-verdicts | checkout, scope check, apply, scope check, restore held tests, run, judge, fold | a fault of git, disk or sandbox must not be charged to the patch; a rename names only its target; a report may repeat, omit or truncate |
| **WEAK** `verify/weak.py` | nothing | the same diff, the visible tests only | raises where STRICT's faults are caught |
| **Scoring** `bakeoff/scoring.py` | one rollout in hand, environments per pin set | provision, ask, extract, verify, classify, repair | a record carried through repairs and overwritten piecemeal; an environment cache shared with the control arm |
| **Control arm** `bakeoff/control.py` | nothing | inert patch must FAIL, reference must PASS | "the machine could not" against "the harness is wrong" |
| **Sweep** `bakeoff/sweep.py`, `journal.py` | a journal of steps | control, rollout, append; replay | an interruption anywhere; a resumed record must be an uninterrupted one |
| **Draws** `loop/draws.py`, `bakeoff/transcript.py`, `retry.py` | a journal and a transcript per draw index | probe, ask, retry a malformed answer, repair a near miss, record; replay | two append-only files written by one draw at different moments, a kill between or inside the writes |
| **Night** `loop/night.py`, `ledger.py`, `dataset.py` | the ledger, the checkpoint | exclude held-out, draw, select, train, publish | selection reads text from one file and verdicts from another |
| **Gate** `loop/gate.py` | the promotion record | refuse, score both sides, retry what reached no verdict, decide, write | a retry must not become a second chance; missing verdicts must not decide |
| **Held-out split** `loop/heldout.py`, `check_leakage.py` | the membership document | draw the split, exclude it, check a night against it | ids change in a re-mint, commits do not |
| **Re-mint** `loop/remint_apply.py` | corpus, snapshot, ledger, stratum, membership | seven commands of an operator's runbook | each may refuse, be killed half-way, be given again or out of order, while a night or a check reads |
| **Training** `loop/sft.py`, `seal.py`, `fuse.py` | adapter directory, provenance | probe capacity, train, write, verify, fuse | a directory filled over hours; a resumed run id finds an earlier process's files |
| **Supervisor** `loop/supervise.py` | the child, a marker | watch the draws' files, kill a night that writes none for an interval | a resumed night replays without writing; training writes nothing there at all |
| **Mining, re-mine** `tasks/{mine,donor,held,derive,environment,liveness,ledger}.py`, `loop/remine.py` | staged and minted manifests, the evidence ledger, the skip set, a scratch directory | select candidates, provision, derive labels, prove live, copy, write evidence; once per donor, at the top of a night | donors share commits and grow between nights; tests that flip by themselves; a kill between manifest and ledger; a held-out commit under a second label |
| **Source A** `tasks/{fetch,public,gates,draw}.py` | the pool, the corpus of instances, the ledger of the refused, a committed draw | page through a published dataset, filter it gate by gate, draw a subset, filter that | pages are asked for by offset while the dataset is republished; a filter dies with manifests copied and no ledger |
| **Evidence and its readers** `loop/{ledger,morning,baseline,honest_report,gate}.py`, `bakeoff/report.py` | ledgers, promotion records, baseline and honest documents, pages | measure, render, read back, choose last night, take a delta across documents | documents of different days: a split recut, a checkpoint retrained or damaged, a directory copied, a document edited or cut |
| **Bake-off** `bakeoff/{run,selection,report,comparison}.py` | the contract frozen before the first rollout, the journal, one report | choose tasks, prove weights, freeze, sweep every base, select, report; render again from the journal | a donor or the pool changes between freeze and rollout; a journal of another run; a probe or a subset reported as the whole |
| **Stratum, oracle** `bakeoff/stratum.py`, `sources.py` | a committed selection | measure a patch, compose, read, restrict a run; name the files a base is shown | a document outlives its rule and its corpus, or is edited; two routes to a task's own fix |

The parts meet in three ways. They call: the night runs draws, draws run the control arm and
scoring, scoring runs STRICT and WEAK, the gate runs scoring twice. They share state inside a
process: the environments cache is used by every task and by both sides of the gate. And they
share files across processes: journal, transcript, ledger, checkpoint, membership and corpus
are written by one command and read by another, days and kills later.

The complete list of parts, those left out included, is in `PROJECT.json` under `components`;
the hazards, each at its line with the properties that guard it, are under `hazards`.

## Modules

| module | models | state ↔ code |
|---|---|---|
| `Verdicts` | `verdict.reduce`, the judgement of a finished run, the answers STRICT may give | operators only; `StrictAnswers` is the interface between the verifier and those who call it |
| `StrictVerify` | one call of `verify_strict` | `stage` is the step, `tree` who wrote each file last, `run` pytest's status and report, `verdicts` the list returned |
| `NightRecord` | the promise of a night or a sweep: tasks settle in order, once, under one control; what is published is decided by the record | abstract: no process, no kill |
| `NightDraws` | `sample` and the tail of `run_night` | `journal`/`transcript` are what `replay` makes of the two files per draw index, `*Tail` the state of their last line; `replayed`, `steps`, `applied` the process's own |
| `Sweep` | `sweep`, `probe`, `score`, `Interpreters` | `journal`, `built` (environments), `rollout` in hand with which completion each verifier last read |
| `PromotionGate` | `run_gate`, the retry pass, `decide`, the record | `answer` is what the base said first (a history), `kept` the recorder by prompt, `outcome`/`graded` per side and task |
| `Heldout` | `select`, `compose_document`, its reader, `exclude_heldout`, the leakage comparison | operators only, on ids that are a label and a commit |
| `Remint` | the runbook's commands, the restore, a night and a check beside it | `corpus`, `snapshot`, `ledger`, `stratum`, `heldout` are files; `todo` the files the running command has still to visit |
| `Checkpoint` | the end of `run_night` (`_train`, `write_checkpoint`, `verify_checkpoint`), the supervisor, the check's link to a checkpoint | `disk` maps each file to what it was made from, or to a cut write; `pc` the step, `buffer` what it has open; `idle` and `spent` the two clocks; `check` the reader, file by file |
| `Candidates` | what a repository says before anything of it runs: candidate commits, held tests and the conftest floor, import roots and pins, the manifest loader's refusals | operators only, on commits that are changes over a parent tree |
| `Mining` | `mine`, `_mint`, `remine`, the top of `run_night` | `out`, `evidence`, `scratch` are on disk, `history` is each donor's, `pc`/`queue`/`staged`/`opened` the mint in progress, `accumulated` the skip set, `pairs` the delta, `drawn` what the night gets |
| `SourceA` | `fetch`, the draw, the filter in its three forms with every gate | `pool`, `instances`, `ledger`, `selection` are files, `todo` the instances left, `pc` the gate |
| `Reports` | the tally of a side, the baseline and honest documents, the morning page, the typed readers | operators only; a document is a record of its figures |
| `Evidence` | a night's, a gate's and a measurement's writing under `runs/`, and every command that reads it back | `ledger`, `evidence`, `record` by directory; `baseline`, `honest` are page and sidecar, `morning` the last page |
| `Storage` | what a path holds when it holds no document | the values `None` and `Torn`, shared by the modules whose documents may be missing or cut short |
| `Oracle`, `Stratum` | the files a base is shown of a task, by both routes, within the budget; the difficulty of a patch, the band, the document and its reader | operators only |
| `Bakeoff` | `conduct` from its arguments to its files, the selection, the doors that render from a journal | `contract` is what was frozen, `journal` what was rolled out under which prompt, `report` what stands in `--out`; `repos`, `pool`, `weights` and source A's `funnel` are the world beside it |
| `*_proofs` | theorems of the module named | |
| `MC*` | the small instances TLC runs | |

`NightDraws` and `Sweep` both implement `NightRecord` (`INSTANCE ... WITH`, checked as the
properties `RecordIsUninterrupted` and `SweepIsUninterrupted`); a sweep is a night with one
draw and one source. `Sweep` and `PromotionGate` take STRICT's answers from `Verdicts`, and
`StrictVerify` shows that STRICT gives no other (`AnswersInContract`), so the compositions
rest on an interface that is itself checked and proved. `Remint` is built on `Heldout`.
`Mining` and `SourceA` both build on `Candidates`: one miner, two sources. `Mining` ends with the
tasks `NightDraws` begins with, and `Checkpoint` takes up a night where `NightDraws` ends: of the
draws it keeps only the writes the supervisor watches, and of selection only which training set
comes out. `Evidence` takes nights, gates and measurements as the writers of the documents they
leave, and reads them through `Reports`; `Bakeoff` takes one step of a sweep as a step, its prompts
from `Oracle`, its restriction from `Stratum` and its counts from `Reports`.

Every definition that models code is listed in `PROJECT.json` under `map` with its lines.
Definitions marked *Mutant of* are plausible wrong versions: each property is shown to fail
when its mutant takes the original's place, so none holds by the shape of the model.

## Runs

| run | instance | what it shows |
|---|---|---|
| `NightKills` | 2 tasks (one private, one public), 2 draws, a retry budget of 1, 2 kills between any two steps | One control per task, a ledger over a proven harness that counts every draw, completed draws kept, the record an uninterrupted night's, and the night ends |
| `NightTexts` | 1 draw, budget 2, 2 repairs, missing environments, 2 kills that may land inside a write | What is trained on is what passed, and a win always has its text |
| `StrictVerify` | every patch over 3 paths, every report of up to 3 cases over 3 node ids, exits 0–2, a machine that may fail at every step, git under a patch included | A PASS is earned and no fault stands behind one, and no answer is outside the contract. A fault is not always UNVERIFIED: three ways it is charged FAIL are among the differences below |
| `Sweep` | 2 tasks of one pin set, one repair, an interruption anywhere, inside an append included, or an exception | A fault is nobody's zero, records compare (one diff under both verdicts, one environment per process), the journal is an uninterrupted sweep's |
| `PromotionGate` | 2 held-out tasks and a public one, 2 retries, every kind of checkpoint, crashes anywhere | A decision is the truth, the sides differ in their checkpoints alone, the record explains itself, the gate ends |
| `Remint` | 4 tasks of 2 donors and a foreign commit, the right staging and one wrong in each of six ways, a kill anywhere | Nothing is lost, a finished re-mint is whole, no manifest names another's donor, nights stay disjoint, leaks are found, what is written is read |
| `Checkpoint` | 3 training sets (with a validation split, without one, empty), both runtimes, a probe, 1 kill, 1 hang, 1 change of command, stall interval 3 | What verifies is what was trained, a link is true, the ledger names its own checkpoint, a supervised night ends |
| `Mining` | 2 donors that share a commit, 6 commits of different natures, limit 1, 2 nights, 1 kill, 1 commit that arrives in between | Held-out commits stay out, nothing is mined twice, what is drawn is live, evidence hashes the bytes on disk, labels are of the tree STRICT verifies on, a task whose import root misses its code owes no label to a commit its tests did not see, a night goes on to its draws |
| `SourceA` | 5 rows in 2 editions of the dataset, pages of up to 2, empty ones included, at most 4 rows, 3 commands, 1 republication | Every row of a pool stood at its place in the edition of its moment, the corpus holds only what every gate proved, the ledger has each instance it was given as often as it was given |
| `Evidence` | 2 nights, a gate, a measurement, a copied directory, 3 checkpoints over 2 bases, 2 held-out documents, 1 accident (a cut write, a recut, a copy, an edit of baseline, evidence or record, a damaged checkpoint) | The honest delta is one experiment but for what a hand changed, the page called last night's is of the run that was last |
| `HonestColumns` ✗ | the same | *violated*: after a promotion the comparison table puts the candidate's counts under "incumbent" |
| `Bakeoff` | 3 bases of two sizes and none, 2 private tasks and a public one, 8 stratum documents (of the corpus, of a wider one, of another rule, edited by hand), 2 starts over one journal, 1 accident | Published counts are of the frozen contract, a selection is earned, a stratum is the rule's |

**Bounds.** Two tasks of two draws are the least with an earlier and a later task, and an
earlier and a later draw of one task: what a resumption can confuse. Two kills are a kill of a
resumed process. A retry budget of 1 has a retry and an exhausted budget; 2 retries in the gate
(3 in the code) have a first, a repeated and a last one. Three cases over two declared ids and
an undeclared one hold a repeat, an omission and a stranger at once. Two donors of two commits
have something to cross inside and between donors. In `Checkpoint` one change of command is two
nights over one directory, under two runtimes or one; a kill, a hang and a failure are a third and a
fourth process of them. A stall interval of 3 is the least longer than a draw and a training of one
tick each. In `Mining` two nights and a kill are a second night over what a killed one left, and
each commit is of a nature of its own: already in the corpus, turning a test, flaky, with a root
outside the donor, with a conftest of its own, with its code where the import root does not reach it. A limit of 1 makes
the order of candidates matter. In `SourceA` a page of 2 over 4 rows has a page boundary inside and
one at the limit, and among the rows are a sound one, one whose tests pytest cannot address, one
whose files collect more than it declares, one the server truncates and one that deletes a test. Two nights in `Evidence` are last night and the one before, on
one day or two, and the name of the one copy sorts between theirs, so that it is the first of its run
id or is not. An edit adds a solved task, with the denominator or without it: what a reader that asks
for a sum takes and what it refuses. Two starts of a bake-off are a run and its resumption, under the same arguments or
others; a door that renders from the journal opens while no bake-off is running. The theorems
remove these bounds wherever a property is listed below as proved.

**Deadlock** is not checked where a program is over (a night with its ledger, a call that
answered, a decided gate, a ranked sweep) or an operator may give no further command (`Mining`,
`SourceA`, `Evidence`, `Bakeoff`). `Remint` and `Checkpoint` are checked for it.

## Fairness

`FairSpec` of `NightDraws` and `PromotionGate` is weak fairness on the program's own
work as a whole, which includes starting again: one sequential process does the next step while
it has one, and the operator (or the supervisor) gives the command again, as the documentation
tells them to. Nothing requires a kill, an exception or a successful verification. In the night
kills are bounded; in the gate they are not, and `GateEnds` says that if crashes
eventually stop then it decides or refuses, even if no verification ever succeeds. Within a run no
choice is assumed fair: a retry may fail for ever, which is why the budgets matter.

`Checkpoint` names the four schedulers apart: the process runs (`Work`), time passes (`Tick`), the
supervisor polls (`StallKill`; `supervise` is a loop with a sleep), and the operator gives a stopped
night's command again (`Resume`). Kills, hangs and changes of command are bounded, failures are not
needed, and the leakage check is never required to run. That a night ends is stated for training that
fits in the stall interval; where it does not, the supervisor ends every attempt (below).

`FairSpec` of `Mining` is weak fairness on the night's own steps. `NightProceeds` says that a night
whose re-mine begins reaches its draws, if no write of an earlier night was cut short, nothing kills
it, and no donor declares an import root outside itself (that one manifest would be refused by the
loader of every later night). An absent donor is never assumed to come back. `SourceA`, `Evidence`
and `Bakeoff` are commands a person gives: nothing in them must eventually happen, and they state no
fairness. Neither does `Sweep`: a sweep whose append was cut, or on whose task WEAK raises every time,
is stopped at every start, so that it ends is not a thing to promise.

## Proofs

Each theorem holds for every value of the constants under the module's named assumption
(`NightAssumption`, `StrictAssumption`, `SweepAssumption`, `GateAssumption`,
`HeldoutAssumption`, `RemintAssumption`, `CheckpointAssumption`, `MiningAssumption`,
`EvidenceAssumption`, `FileAssumption`, `SourceAAssumption`, `BakeoffAssumption`), which TLC evaluates in the runs. A theorem that needs more says so in its
ASSUME; each such condition is explained below.

* **`NightDraws_proofs`** (any number of tasks, draws, retries, repairs, kills; torn writes
  included): `TypesHold`, `OneControlHolds`, `CompletedDrawsAreKept`, `WinsAreTrainableHolds`,
  `LedgerIsSoundHolds`. None of the properties is
  inductive: each depends on where the loop is. The invariant says that draws *ahead* of the
  position are on disk as they were when the process started (`ReplayedKept`), that draws
  *behind* it are in memory as on disk (`HeldSteps`), that the control in force is that of every
  journalled draw of the task (`ControlInForce`), and that a SOLVED step's stored completion
  passes as long as the transcript can be read (`StoredTexts`). `CompletedDrawsAreKept` and the
  texts need `OwnPrompts`, that no two tasks pose one prompt; the code refuses at selection
  otherwise. `RecordIsUninterruptedHolds` proves the refinement of `NightRecord` step by step: a
  journal line settles one draw, a published ledger publishes, all else stutters. Its invariant
  `Unfinished` adds to `HeldSteps` that draws settle in the night's order and that a ledger is
  written last. It assumes `~TornWrites`, and has to: after a torn line the next append is lost, and
  the night publishes a draw its journal does not hold (TLC gives the trace when the assumption is
  dropped).
* **`Sweep_proofs`**, of `StrictVerify` (any task, patch, report, exit): `ReduceWorst` about the
  fold, then `PassIsEarnedHolds` and `AnswersInContractHolds`, from what each step
  has already established (`StrictInv`), the faults of the machine among it; `VerifyTypesHold`.
* **`Sweep_proofs`**, of `Sweep` (any tasks, pin sets, repairs, interruptions): `FaultIsNobodysZeroHolds` and
  `RecordsCompareHolds`, from `SweepInv`: what the rollout in hand says so far, and that
  every step recorded by the living process agrees with its environments cache. `TypesHold`, which
  bounds what a rollout may ask. `SweepIsUninterruptedHolds`, the refinement of `NightRecord`: the
  invariant `InOrder` says that what is recorded is a prefix of the tasks, that the process holds
  what it has passed exactly as it is on disk, and that what it has not reached is on disk as it
  was read; so a replay is a stutter, a record settles the next task (`RecordSettles`), and the
  ranking is of what is settled (`RankPublishes`).
* **`PromotionGate_proofs`**: `DecisionIsTheTruthHolds` and `SidesCompareHolds`, for any
  membership, budget and number of crashes, under `OwnPrompts`, from `GateInv`: the recorder
  holds what each asked task was answered, and a scored task's outcome is true of its answer. That
  the machine turns both sides away or neither rests on a second invariant, that what a side was
  refused for is what the environments of the process still say. `RecordExplainsItselfHolds` needs
  no condition on prompts: it follows from the position and from `Spending`, that every task the
  retry has passed and left without a verdict has used its whole budget. `TypesHold` says beside
  the types that no task has more than the budget spent on it (`Holdings`).
* **`Remint_proofs`**: `ReversibleHolds` and `OwnDonorHolds` from `CorpusInv` (until a whole
  snapshot exists the corpus has not been touched), `WhatIsComposedIsReadHolds` from
  `DocumentInv`, `NightDisjointHolds`, `LeakIsFoundHolds`. `FinishedIsWholeHolds` from `SheetInv`:
  what each finished step has left behind (names in place, sources rewritten, pins of the new
  bytes, the stratum and the held-out document of the new corpus) and how far the step in hand is
  in the root it is at; a kill anywhere keeps the finished steps finished. `EveryTaskIsInOneBand`
  is about the rule alone: however many bands there are and however they divide the corpus, the cut
  puts every measured task in one band and no other, so the assertion `heldout.py:160` calls
  unreachable is. It rests on division with a remainder (`Division`), on where the first band begins
  and the last one ends (`BandsEnd`) and on the bands being in order (`BandsAreApart`); `TypesHold`
  needs it, since the document on disk records a band for each task.
* **`Checkpoint_proofs`** (any training sets, commands, draws, intervals, kills, hangs):
  `VerifiedIsTrainedHolds`, `LinkIsTrueHolds` from `CheckpointInv`: what each step finds in the
  directory and has in hand, and that every provenance, on disk or in the check's hands, is true of
  the files *it records* (not of those that are there now: the re-hash adds that).
  `LedgerNamesItsCheckpointHolds` from `MadeInv`. `TypesHold` adds that what a step has in hand is of
  the kind of the one file it has open (`Directory`).
* **`Mining_proofs`** (any donors, histories, nights, kills, commits): `NothingTwiceHolds`,
  `LabelsAreOfTheTreeHolds`, `EvidenceAccountsHolds`, `HeldoutStaysOutHolds`, from `MiningInv`.
  "Not twice" is not inductive: it needs that the queue of a donor is outside the skip set
  (`Skipped`), that a queue names a commit once and none that this donor's mint has taken (`Once`),
  and that the corpus, the delta and the skip set stay apart or nested as they should (`Corpus`). `Derivable` says every manifest passed the check that makes the two trees
  one, `Hashed` that the evidence or the ledger being rewritten holds the bytes of what was
  minted. `HeldoutStaysOutHolds` assumes `OneIdPerCommit`: where the corpus itself
  holds a commit under two ids, the split may hold out one of them only, and exclusion is by id.
  `DrawnIsLiveHolds` follows a derived task from the three runs to the corpus (`Lively`): a test
  the runs agreed on does what it declares, and what a night loads was written whole.
  `OwnCodeDecidesHolds` takes projects of every layout, declared rightly, wrongly or not at all:
  where the import roots miss the code, a steady test shows the same with the patch and without
  (`UnreachedIsSteady`), so what turned green between the two runs is a test that differs from run to
  run. `TypesHold` is inductive only beside `MiningInv`: that a queue holds
  commits needs that it is not empty where its head is dropped.
* **`SourceA_proofs`** (any dataset, editions, cutting of the pages, facts of the instances,
  filters, kills): `TypesHold`; `PoolIsTheDatasetHolds` from `Fetched`, which names for every row that has come the edition
  it came from, one for all while the dataset stands still; `CorpusIsProvedHolds` from
  what every gate behind the instance in hand has shown; `LedgerAccountsHolds` from
  `Decided`, which splits what was given, as often as it was given, into the decided and the instances
  still to do and says of each refusal which gates came before it, from `Dated`, by which the manifests
  of a filter are told from older ones, and from the disjointness the writer asks for, which is what
  keeps an instance given twice from standing on both sides. That a sorted list holds each row as often
  as it came is shown of every rearrangement (`OrdersKeep`). What the recursive function behind `Keep` computes is shown by
  taking the least place where it would fail (`LeastOf`, `KeepExists`, `KeepTyped`), since the library's
  induction theorems cannot be instantiated.
* **`Reports_proofs`**, of `Evidence` (any nights, measurements, gates, documents, accidents):
  `TypesHold`; `HonestDeltaIsOneExperimentHolds` from `Chain`, which follows the counts through every
  document they pass: a measurement's evidence and a gate's record count the tasks of the document
  they were made under (`TallyConserves`, and a decision graded every task: `DecidedCovers`) unless a
  hand has changed them; a baseline is what its evidence was, or carries a digest that its counts have
  left behind (`EditLeavesSealBehind`), which is what makes the property inductive under edits of it.
  The evidence and the record have no digest: what is then left is what their readers ask for
  (`EditEvidenceKeepsChain`, `EditRecordKeepsChain`), and the honest sidecar says of each side only
  that (`PayloadIsOneExperiment`). `PageIsLastNightHolds` is an action property and needs no
  invariant: what the scan finds is `ScanFindsLast`, and nothing but the rendering of a morning writes
  its page.
* **`Reports_proofs`**, of `Bakeoff` (any corpora, rules, stratum documents, candidates, sizes,
  answers, kills): `BakeoffTypesHold`; `StratumIsTheRulesHolds`, from a document that is read being
  the one its digest was computed of; `CountsAreOfTheContractHolds` and `SelectionIsEarnedHolds` from
  `Grounds`, four parts: `Kinds` (the types, and that a run's tasks are of its corpora), `Scored` (a
  candidate whose sweep is over has a step for every task and, unless it is a probe, its harness was
  proven and its size is known), `Posed` (a step this run took itself answers a prompt of its contract) and
  `FirstRun` (while there was one run, its journal is what it holds, and a page made of the journal
  counts what its own report counts). That private and public counts join into one is a lemma of
  functions (`Joined`). `BakeoffAssumption` says that the digest of a stratum document an operator
  names is one that was computed of some composed document: whoever edits a document does not forge
  its SHA-256.

**Only model-checked:** the four liveness properties (`NightEnds` of the night and of the checkpoint,
`GateEnds`, `NightProceeds`), which like ENABLED are out of the prover's reach.
`TableNamesItsSides` is refuted, not proved. Every other property a run checks, the type invariant of
every module with a state among them, is a theorem, under the conditions named above
(`OwnPrompts`, `OneIdPerCommit`, whole writes for the record of a night).

## Abstractions

* A completion, a prompt and a patch are members of small sets; what a verifier makes of one is
  its truth or no verdict. Digests, spelling, timing and rendered text are left out.
* `NightDraws`: an out-of-scope patch is folded into the other graded zeros; an exception leaving
  `score` is a kill (in `Sweep` it is an action of its own). `RecordIsUninterrupted` is checked
  with whole writes; what a torn one does is among the differences below.
* `Sweep`: `sweep` itself asks for no repairs; `Repairs > 0` is `sample`'s use of the same code.
* `PromotionGate`: graded zeros are one outcome; which reward was weaker, the sealed payload, tool
  versions and run ids are left out; the base's answers are arbitrary at each ask; inputs are
  chosen at each start; a second gate over a written decision is not modelled.
* `Heldout`, `Remint`: a root is the label of a staged id, files are visited in name order; the
  runbook's check of an unchanged oracle budget, unrecognised and duplicate ids and digests are
  left out; a night loads both roots in one step; the check runs once. While a corpus is half
  swapped one commit has two ids: `NightDisjoint` is about nights over corpora that hold each
  commit once, and it is the leakage check, by commit, that covers the rest (`LeakIsFound`).
* `Checkpoint`: a digest is injective, so documents hold contents; two trainings of one set under one
  runtime give the same bytes (where they do not, more is refused, not less); mlx-lm's intermediate
  saves count as the probe's; a journal is one write per draw; the claim-by-claim seal is the whole
  document parsing or not, since what is modelled is kills and staleness, not edits; older unsealed
  documents, the untrained base and fusion are left out. Only one night of a run id runs at a time.
* `Candidates`, `Mining`: a path is its directories and what its name makes it; a repository's
  history is a set of commits and the order of candidates is what `Limit` leaves open; a test run is
  what a test's nature allows, two runs of one tree may differ; uv, git and pytest may fail at
  every use. A test looks for its code in the checkout's root, in the import roots and then in the
  environment; that pytest puts the directory of a test itself on the path is left out. Node ids, recipes, timestamps and the printed summary are left out. A held-out
  document is fixed for a behaviour (`Remint` and `Evidence` recut it).
* `SourceA`: an instance is what it declares and what its tests do; the era table is a set of ids;
  every gate answers by the facts or raises; a command starts when the last one is over.
* `Reports`, `Evidence`: a document is a record of its figures, a page is what it shows of them; a
  digest is what it is computed from, and a document no reader takes is `Torn` whatever is wrong
  with it. A night and a gate are writers here, what they write is shown by their own modules.
  A side's verdicts come from a small set of sheets per checkpoint. Of the counts a hand may change,
  those of the held-out side.
* Some variables and fields are of no file and steer nothing; the properties speak by them of what the
  code does not keep: `fault` (the machine failed in this call), `steady` and `whole` (the dataset stood
  still), `run` and `of` of source A's ledger (its filter and what that was given), `edited`, `of` and
  `named` of the documents in `Evidence` (a hand changed a count, the checkpoints the record compared,
  whether those were named).
* `Oracle`, `Stratum`: a file is its size in bytes and in characters; a patch is the sequence of its
  lines, each no more than the prefix it is told by.
* `Bakeoff`: one step of the sweep is one step (its insides are `Sweep`'s); a prompt is what it is
  rendered from; cost, elapsed time and the printed table are left out; the task sets are in corpus
  order. The breakdown mode of `comparison.py` is left out.

## Not modelled

* `cli.py`: argument parsing and dispatch; what a command does is modelled in the module of the
  command.
* The offline analyses (`autopsy`, `attribution`, `locatability`, `addressability`, `resolvability`,
  `night_autopsy`, `preanalysis`): functions of stored text, without state.
* Arm studies and probes (`arm`, `check_probe`, `sampling`), `measure.py`, `card.py`: arithmetic and
  rendering over finished records.
* `tasks/warm.py`: fills caches, decides nothing.
* `loop/fuse.py`: it verifies a checkpoint and hands the directory to a tool; what verifies is
  `Checkpoint`'s `VerifiedIsTrained`. That a night may rewrite the adapter between the two is a
  listed hazard without a property.
* The formats of a completion (`patch`, `diffcheck`, `line_range`, `whole_function`, `rendering`):
  functions on text; the draws and the sweep keep only what comes of them (a diff or none).
* Inference, numerics of training, uv, git, the sandbox: external, any answer they may give.

## Where the code and its text differ

One run marked ✗ shows a documented sentence the code does not keep; `PROJECT.json`
(`findings`) quotes it. Other differences met while modelling, without a run:

* a torn append leaves a night that the same command never ends, since the reader refuses the line,
  `journal.py:124`, `transcript.py:201`, where `supervise.py:5-7` says the operator resumes with the
  same command;
* a resumed night's ledger lacks the seeds of the draws it replayed, `draws.py:214`, where
  `ledger.py:17-18` says a night is reproducible from its ledger;
* a supervisor with a stall interval shorter than a training kills every attempt in training,
  `supervise.py:74`, where `supervise.py:33-35` says the interval clears the worst case, which it
  takes to be a verification;
* a refused `rewrite_repo_url` has already rewritten the manifests before the one it refuses,
  `remint_apply.py:464`, against `:91-92`;
* the provenance of a PEFT adapter says it was validated, `sft.py:789`, and nothing validated it: the
  trainer is given no validation set, `torch_runtime.py:186`;
* a declaration standing at `--out` refuses the measurement that would replace it,
  `baseline.py:668-671`, `:1089-1091`, against `:1317-1325`;
* the journal of a bake-off is keyed by candidate and task alone, so a resumption with other
  arguments counts steps of the earlier ones, `run.py:150-152`, `:266-267`;
* the doors of `comparison.py` count a journal with a BROKEN control as long as another is INTACT,
  `comparison.py:870` (against `control.py:472-492`), and put a journal's counts under whatever
  sidecar is named, `:843-853`; of several candidates the larger base's door names the first, `:1366`;
* `--retries` without `--transcript` reports a retry budget nothing used, `run.py:669-688`, `:753`;
* a published page labels source A's result with the first eligible instance of the funnel,
  `report.py:1680`;
* the two readers of an oracle differ on line endings and symbolic links, `sources.py`;
* a patch's content lines that begin with `--` or `++` are taken for headers and not counted,
  `stratum.py:161`;
* the limit of a re-mine is per donor, `remine.py:129-140`, where `cli.py:325-333` says "in total";
* a torn evidence ledger raises out of the re-mine, though `remine.py:21-24` says a re-mine never
  raises;
* three faults of the machine are charged to the patch as FAIL, where `strict.py:39-49` says a fault is
  UNVERIFIED: pytest exiting 1 with no readable report, `strict.py:281`; pytest exiting 2 to 5 with a
  readable partial one, through the executed-set check, against `strict.py:308-313` too; and git dying
  under a patch, whose exit status is read as the patch's, `repo.py:311`, `strict.py:182`;
* a checkpoint of a sweep whose append was cut is refused at every later start, `journal.py:100-102`,
  `:123-129`, and a WEAK that raises on one task ends every resumption, `scoring.py:545`;
* the import root is guessed where nothing declares it and believed where something does: an unpackaged
  project gets `.` whatever its layout, `environment.py:325-326`, a packaged one without a `src` whose
  module is elsewhere gets `.` too, `:332-341`, and a wrong declaration is taken, `:315-323`, where
  `:280-281` says the reward can be sure of the checkout it grades; `OwnCodeDecides` says what that
  can and cannot mint;
* an empty page ends the fetch and the pool so far is written without a word, `fetch.py:412-413`, though
  the server's total is at hand for the header;
* a filter that rejects an instance leaves the manifest an earlier filter had copied in the corpus,
  `public.py:281-304`: the ledger and the directory then disagree;
* of the documents behind the honest number only the baseline is sealed: counts changed in the evidence
  reach the page under a valid seal, with no sum asked of them, `baseline.py:923-949`, and counts changed
  in a promotion record need only add up, `gate.py:1459-1466`, where `gate.py:1162-1165` says a doctored
  record is refused;
* the honest number does not hold the checkpoints it is given against the digests in the record,
  `honest_report.py:344-372`: any two of the baseline's base render;
* of two directories with the run id of last night the first by name gives the morning page, `morning.py:441`,
  so a copy made before the night was given again gives the older ledger, where `morning.py:15-31`
  says the greatest date does;
* a control arm that was killed, or whose checkout failed, is recorded BROKEN, which
  `control.py:125` defines as an arm that answered wrong, `control.py:412`;
* a transcript whose last record is a retry (the process died and the resumed draw ended before
  any prompt) is refused at selection, `transcript.py:211-219`;
* two tasks that render one prompt share one frozen record, and a win of the second ends the
  night as NotTrainable, `night.py:607`, `run.py:226-228`;
* `prompt_sha256` is that of the first prompt also where the completion answers a retry or a
  repair, `scoring.py:456`, `dataset.py:121-159`;
* a repair that yields no diff keeps STRICT's FAIL of the one before, `scoring.py:145-146`, `:489`;
* a re-mint swap killed half-way is refused as a double apply on the next attempt; the way on is
  the snapshot, `remint_apply.py`.

## Plan

Done, in order of importance: the night's draws (with the abstract record and proofs), STRICT,
the sweep, the gate, the held-out split with the re-mint, the checkpoint with the supervisor, mining
with the nightly re-mine, source A, the evidence and its readers, the stratum, the oracle and the
bake-off. Next:

1. Fusion as a second reader of a checkpoint, beside the leakage check.
2. What each step of `Bakeoff` takes as one, shown to be what `Sweep` does of it.
3. A second gate over a decision already written.
