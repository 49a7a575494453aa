------------------------------ MODULE Reports -------------------------------
(***************************************************************************)
(* The documents the project publishes, as functions of the evidence they  *)
(* are rendered from: the counts of a side (bakeoff/report.py: tally), the *)
(* section 3 baseline and the honest number (report.py), the morning page  *)
(* (loop/morning.py), and the typed readers between them (baseline.py,     *)
(* gate.py, morning.py).  Operators only.  A document is a record of its   *)
(* figures; its wording is not modelled.                                   *)
(***************************************************************************)
EXTENDS Integers, Sequences, SequencesExt

Uncovered == {"UNVERIFIED", "UNPROVISIONED", "NO_ORACLE"}

\* How many tasks of `side`, a function from tasks to graded records, satisfy a condition.
HowMany(side, Is(_)) == Cardinality({t \in DOMAIN side : Is(side[t])})

\* A graded record is an outcome and the two verdicts behind it; a record with no verdict stays in
\* the denominator.
Tally(side) ==
    LET all        == Cardinality(DOMAIN side)
        unverified == HowMany(side, LAMBDA r : r.outcome \in Uncovered)
        solved     == HowMany(side, LAMBDA r : r.outcome = "SOLVED")
    IN  [denominator |-> all, solved |-> solved, unverified |-> unverified,
         covered     |-> all - unverified,
         failed      |-> all - unverified - solved,
         weaker_wins |-> HowMany(side, LAMBDA r : r.weak = "PASS" /\ r.strict = "FAIL")]

Fields      == {"denominator", "solved", "unverified", "covered", "failed", "weaker_wins"}
EmptyCounts == [f \in Fields |-> 0]

\* What the readers of evidence and baseline ask of a side they did not count: six naturals, and no
\* more wins over the weak check than tasks.  No sum is asked of them.
CountsRead(counts) ==
    /\ DOMAIN counts = Fields
    /\ \A f \in Fields : counts[f] >= 0
    /\ counts.weaker_wins <= counts.denominator
\* The gate's record is asked for its sum instead, and for nothing of `covered`.
RecordCountsRead(counts) ==
    /\ DOMAIN counts = Fields
    /\ counts.solved + counts.failed + counts.unverified = counts.denominator
    /\ counts.weaker_wins <= counts.denominator

-----------------------------------------------------------------------------
(* Scoring one side: a first answer for every task, then retries of the held-out ones alone. *)

\* The verdicts one task's verification gives, in order: the first, then each retry's.
Retries(verdicts, budget) ==
    LET decided == {n \in 2..Len(verdicts) : n <= budget + 1 /\ verdicts[n].outcome \notin Uncovered}
    IN  IF verdicts[1].outcome \notin Uncovered THEN 0
        ELSE IF decided = {} THEN budget ELSE Min(decided) - 1

\* A retried task keeps its first record unless a retry reached a verdict.
Final(verdicts, budget) ==
    LET last == verdicts[1 + Retries(verdicts, budget)]
    IN  IF last.outcome \in Uncovered THEN verdicts[1] ELSE last

SideOf(sheet, tasks, budget) == [t \in tasks |-> Final(sheet[t], budget)]
Spent(sheet, tasks, budget)  ==
    {[task |-> t, used |-> Retries(sheet[t], budget), after |-> Final(sheet[t], budget).outcome] :
        t \in {x \in tasks : sheet[x][1].outcome \in Uncovered}}

\* A change the two sides do not both decide is no comparison.
Decision(new, old) ==
    LET undecided == {t \in DOMAIN new : {new[t].outcome, old[t].outcome} \cap Uncovered # {}}
        gained    == {t \in DOMAIN new : new[t].outcome = "SOLVED"}
        held      == {t \in DOMAIN old : old[t].outcome = "SOLVED"}
    IN  IF undecided # {} THEN "UNVERIFIED"
        ELSE IF Cardinality(gained) > Cardinality(held) /\ held \subseteq gained THEN "promoted"
        ELSE "rejected"

-----------------------------------------------------------------------------
(* The section 3 baseline. *)

\* The seal is a digest over every other field, one for each payload; the declaration has one too.
Payload(document) == [f \in DOMAIN document \ {"digest"} |-> document[f]]
Digest(document)  == Payload(document)
Seal(document)    ==
    [f \in DOMAIN document \cup {"digest"} |-> IF f = "digest" THEN Digest(document) ELSE document[f]]
\* Mutant of Sealed: that a digest is there is enough.
SealThere(document) == "digest" \in DOMAIN document
Sealed(document)    == document.digest = Digest(document)

Declaration == Seal([measured |-> FALSE])

\* `edited` is not of any document: whether a hand has changed a count since they were tallied.
BaselineReport(evidence) ==
    Seal([measured |-> TRUE, series |-> evidence.series,
          sides    |-> [private |-> evidence.private, public |-> evidence.public],
          n        |-> evidence.private.weaker_wins,
          retries  |-> evidence.retries,
          edited   |-> evidence.edited])

\* The measured-once guard reads a series out of whatever stands at `--out`; a document with none,
\* the declaration among them, is refused and not read as absent.
HasSeries(document)      == document.measured
BaselineRead(document)   ==
    /\ Sealed(document)
    /\ document.measured => \A s \in DOMAIN document.sides : CountsRead(document.sides[s])
EvidenceRead(evidence)   == CountsRead(evidence.private) /\ CountsRead(evidence.public)

\* The page names a count over its denominator, each retried task, and both sources or neither.
BaselinePage(document) ==
    IF ~document.measured THEN Declaration
    ELSE [source_b |-> document.sides.private, source_a |-> document.sides.public,
          n        |-> <<document.n, document.sides.private.denominator>>,
          spent    |-> document.retries]

-----------------------------------------------------------------------------
(* The honest number: a baseline, a promotion record and a night's ledger on one page. *)

Decided(decision) == decision \in {"promoted", "rejected"}

\* Promoted, the candidate's counts are final; rejected, nothing shipped and the incumbent's are.
FinalSide(decision, sides) == IF decision = "promoted" THEN sides.candidate ELSE sides.incumbent

\* An undecided comparison has no headline, no delta and no N.
Headline(decision, sides) ==
    LET final == FinalSide(decision, sides).private
        was   == sides.baseline.private
    IN  [delta |-> final.solved - was.solved, denominator |-> was.denominator,
         coverage |-> final.covered, n |-> <<was.weaker_wins, final.weaker_wins>>]

\* `edited`, `of` and `named` are not of the document: the sides whose counts a hand had changed, the
\* checkpoints the record compared, and whether it was those the operator named.
HonestPayload(baseline, record, ledger, named) ==
    LET sides == [baseline  |-> baseline.sides, candidate |-> record.sides.candidate,
                  incumbent |-> record.sides.incumbent]
    IN  [measured |-> TRUE, series |-> baseline.series, decision |-> record.decision,
         sides    |-> sides, seeds |-> ledger.seeds,
         headline |-> IF Decided(record.decision) THEN {Headline(record.decision, sides)} ELSE {},
         edited   |-> [baseline |-> baseline.edited, candidate |-> record.edited,
                       incumbent |-> record.edited],
         of       |-> [candidate |-> record.candidate, incumbent |-> record.incumbent],
         named    |-> named]

HonestTallies(document) == [s \in DOMAIN document.sides |-> document.sides[s].private]

\* The table's cells come in one order; its labels in the order of the decision.
Cells            == <<"baseline", "candidate", "incumbent">>
Labels(decision) == IF decision = "promoted" THEN <<"baseline", "incumbent", "candidate">> ELSE Cells
Table(document)  ==
    [s \in Range(Cells) |->
        LET k == CHOOSE n \in 1..3 : Labels(document.decision)[n] = s
        IN  HonestTallies(document)[Cells[k]]]

\* On source A's one instance the page says solved or not solved; it has no third word.
SourceALine(counts) == IF counts.solved > 0 THEN "solved" ELSE "not solved"
HonestPage(document) ==
    IF ~document.measured THEN Declaration
    ELSE [measured |-> TRUE, table |-> Table(document), headline |-> document.headline,
          source_a |-> [s \in DOMAIN document.sides |-> SourceALine(document.sides[s].public)]]

-----------------------------------------------------------------------------
(* The morning page: a night's ledger, with a gate's decision or the statement that there is none.*)

NoGate == [decision |-> "none"]

\* The night's checkpoint must be one of the two the record compared.
RecordIsOfNight(night, record) ==
    night.checkpoint \in {record.candidate, record.incumbent}

GateSection(night, record) ==
    [decision |-> record.decision,
     side     |-> IF record.candidate = night.checkpoint THEN "candidate" ELSE "incumbent"]

MorningReport(night, gate) ==
    [run |-> night.run, recorded_on |-> night.recorded_on,
     checkpoint |-> night.checkpoint, gate |-> gate]
=============================================================================
