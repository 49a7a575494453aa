------------------------------ MODULE Evidence ------------------------------
(***************************************************************************)
(* What is done with the evidence a night, a measurement and a gate leave  *)
(* under `runs/`: the section 3 baseline is measured and rendered          *)
(* (loop/baseline.py), the night's ledger is read back as a morning page   *)
(* (loop/ledger.py, morning.py), and a baseline, a promotion record and a  *)
(* ledger become the honest number (loop/honest_report.py).  The operator  *)
(* gives the commands in any order; between them the held-out document may *)
(* be cut anew, a directory copied, a checkpoint damaged, and any write    *)
(* cut short.                                                              *)
(***************************************************************************)
EXTENDS Storage, Reports

CONSTANTS
    Nights,         \* run ids of nights
    Gates,          \* the run ids gates are given, each a night's or not
    Copies,         \* other directories of `runs/`
    Measurements,   \* run ids of the baseline's measurements
    Dates,          \* the days an operator may declare
    Checkpoints, Untrained,
    BaseOf,         \* the base a checkpoint names
    MadeBy,         \* the checkpoint each night trains; None when it trains none
    Documents,      \* held-out documents, by digest
    FirstCut,       \* the one in force at first
    Membership,     \* the tasks each holds out
    Public,         \* source A's tasks
    SheetsOf,       \* checkpoint: the verdicts its verifications may give, task by task
    Sorting,        \* where the name of a directory sorts among the names
    Edits,          \* what a hand may add to the six counts of a side
    RETRY_COUNT,
    MaxAccidents    \* bound: recuts, copies, edits, damaged checkpoints, kills

Dirs  == Nights \cup Gates \cup Copies \cup Measurements
Bases == {BaseOf[c] : c \in Checkpoints}

ASSUME EvidenceAssumption ==
    /\ Dates \subseteq Nat /\ RETRY_COUNT \in Nat /\ MaxAccidents \in Nat
    /\ (Nights \cup Gates) \cap (Copies \cup Measurements) = {} /\ Copies \cap Measurements = {}
    /\ Untrained \subseteq Checkpoints /\ FirstCut \in Documents
    /\ Sorting \in [Dirs -> Nat] /\ \A d, e \in Dirs : d # e => Sorting[d] # Sorting[e]
    /\ Edits \subseteq [Fields -> Int]
    /\ MadeBy \in [Nights -> (Checkpoints \ Untrained) \cup {None}]
    /\ \A d \in Documents :
          IsFiniteSet(Membership[d]) /\ Membership[d] # {} /\ Membership[d] \cap Public = {}

VARIABLES
    \* under runs/
    dirs,           \* the directories that exist
    ledger, evidence,   \* what each holds
    record,         \* promotions/: one per gate run, named by a night or not
    \* beside it
    heldout,        \* the document in force
    damaged,        \* checkpoints whose bytes are no longer what their provenance hashes
    \* committed
    baseline, honest,   \* the page and the sidecar of each
    morning,        \* the page
    \* memory
    measuring,      \* the measurement that runs
    accidents

runs      == <<dirs, ledger, evidence, record>>
reports   == <<baseline, honest, morning>>
vars      == <<runs, heldout, damaged, reports, measuring, accidents>>

Readable(file)  == file \notin {None, Torn}
Verifies(c)     == c \notin damaged
Accident        == accidents < MaxAccidents /\ accidents' = accidents + 1

Init ==
    /\ dirs = {} /\ record = [g \in Gates |-> None]
    /\ ledger = [d \in Dirs |-> None] /\ evidence = [d \in Dirs |-> None]
    /\ heldout = FirstCut /\ damaged = {}
    /\ \E home \in {None, Declaration} : baseline = [page |-> home, sidecar |-> home]
    /\ honest = [page |-> None, sidecar |-> None] /\ morning = None
    /\ measuring = None /\ accidents = 0

-----------------------------------------------------------------------------
(* A night leaves a directory, and at its end a ledger. *)

LedgerOf(n, date) == [run |-> n, recorded_on |-> date, checkpoint |-> MadeBy[n], seeds |-> n]

NightBegins(n) ==
    /\ dirs' = dirs \cup {n} /\ n \notin dirs
    /\ UNCHANGED <<ledger, evidence, record, heldout, damaged, reports, measuring, accidents>>

\* A run id given again ends in the same directory, on the day it is given then.
NightEnds(n) ==
    /\ n \in dirs
    /\ \E date \in Dates : ledger' = [ledger EXCEPT ![n] = LedgerOf(n, date)]
    /\ UNCHANGED <<dirs, evidence, record, heldout, damaged, reports, measuring, accidents>>

\* Killed in the write, or the ledger edited since: its claims no longer hash to its digest.
NightIsSpoilt(n) ==
    /\ n \in dirs /\ ledger[n] # Torn /\ Accident
    /\ ledger' = [ledger EXCEPT ![n] = Torn]
    /\ UNCHANGED <<dirs, evidence, record, heldout, damaged, reports, measuring>>

\* Run ids are the operator's, and so are the directories: one may be copied under another name.
Copied(n, c) ==
    /\ n \in dirs /\ c \notin dirs /\ Accident
    /\ dirs' = dirs \cup {c} /\ ledger' = [ledger EXCEPT ![c] = ledger[n]]
    /\ UNCHANGED <<evidence, record, heldout, damaged, reports, measuring>>

-----------------------------------------------------------------------------
(* The baseline: measured, then rendered. *)

\* The series is read from the sidecar; what cannot be read, the declaration among them, is refused.
\* Mutant of NewSeries: the guard is gone.
AnySeries(file, series) == TRUE
NewSeries(file, series) ==
    file # None => file # Torn /\ HasSeries(file) /\ file.series # series

\* Every input is read before the engine is: the document as it is, the checkpoint re-hashed.
MeasureBegins(m, c) ==
    LET series == [base |-> BaseOf[c], heldout |-> heldout]
    IN  /\ measuring = None /\ Verifies(c) /\ NewSeries(baseline.sidecar, series)
        /\ measuring' = [run |-> m, checkpoint |-> c, series |-> series]
        /\ dirs' = dirs \cup {m}
        /\ UNCHANGED <<ledger, evidence, record, heldout, damaged, reports, accidents>>

Evidenced(sheet, series) ==
    LET held == Membership[series.heldout]
    IN  [series  |-> series,
         private |-> Tally(SideOf(sheet, held, RETRY_COUNT)),
         public  |-> Tally(SideOf(sheet, Public, 0)),
         retries |-> Spent(sheet, held, RETRY_COUNT),
         edited  |-> FALSE]

MeasureEnds ==
    /\ measuring # None /\ measuring' = None
    /\ \E sheet \in SheetsOf[measuring.checkpoint] :
          evidence' = [evidence EXCEPT ![measuring.run] = Evidenced(sheet, measuring.series)]
    /\ UNCHANGED <<dirs, ledger, record, heldout, damaged, reports, accidents>>

MeasureIsCut ==
    /\ measuring # None /\ measuring' = None /\ Accident
    /\ evidence' = [evidence EXCEPT ![measuring.run] = Torn]
    /\ UNCHANGED <<dirs, ledger, record, heldout, damaged, reports>>

\* The checkpoint of a render is re-hashed; which one the operator names is not looked at.
RenderReads(m) ==
    /\ Readable(evidence[m]) /\ EvidenceRead(evidence[m])
    /\ \E c \in Checkpoints : Verifies(c)
    /\ NewSeries(baseline.sidecar, evidence[m].series)
WriteBaseline(document) == baseline' = [page |-> BaselinePage(document), sidecar |-> document]

RenderArtifact(m) ==
    /\ RenderReads(m) /\ WriteBaseline(BaselineReport(evidence[m]))
    /\ UNCHANGED <<runs, heldout, damaged, honest, morning, measuring, accidents>>

\* The page is written, then the sidecar: a kill leaves the old sidecar beside the new page, or part
\* of the new one.
RenderIsCut(m) ==
    /\ RenderReads(m) /\ Accident
    /\ \E left \in {baseline.sidecar, Torn} :
          baseline' = [page |-> BaselinePage(BaselineReport(evidence[m])), sidecar |-> left]
    /\ UNCHANGED <<runs, heldout, damaged, honest, morning, measuring>>

\* A declaration is not a measurement, and refuses nothing.
RenderDeclaration ==
    /\ WriteBaseline(Declaration)
    /\ UNCHANGED <<runs, heldout, damaged, honest, morning, measuring, accidents>>

-----------------------------------------------------------------------------
(* The gate writes a record, under a run id the operator names. *)

GateSide(sheet) ==
    [private |-> Tally(SideOf(sheet, Membership[heldout], RETRY_COUNT)),
     public  |-> Tally(SideOf(sheet, Public, 0))]

RecordOf(c, i, new, old) ==
    [candidate |-> c, incumbent |-> i, heldout |-> heldout,
     decision  |-> Decision(SideOf(new, Membership[heldout], RETRY_COUNT),
                            SideOf(old, Membership[heldout], RETRY_COUNT)),
     sides     |-> [candidate |-> GateSide(new), incumbent |-> GateSide(old)],
     edited    |-> FALSE]

Made == {ledger[n].checkpoint : n \in {x \in Nights : Readable(ledger[x])}}
Gate(g) ==
    /\ \E c \in Made \ {None}, i \in Untrained \cup (Made \ {None}) :
          /\ c # i /\ Verifies(c) /\ Verifies(i)
          /\ \E new \in SheetsOf[c], old \in SheetsOf[i] :
                record' = [record EXCEPT ![g] = RecordOf(c, i, new, old)]
    /\ UNCHANGED <<dirs, ledger, evidence, heldout, damaged, reports, measuring, accidents>>

GateIsCut(g) ==
    /\ Accident /\ record' = [record EXCEPT ![g] = Torn]
    /\ UNCHANGED <<dirs, ledger, evidence, heldout, damaged, reports, measuring>>

RecordRead(g) ==
    /\ Readable(record[g])
    /\ \A s \in {"candidate", "incumbent"} :
          RecordCountsRead(record[g].sides[s].private) /\ RecordCountsRead(record[g].sides[s].public)

-----------------------------------------------------------------------------
(* The morning page. *)

\* The run id inside must be the directory's name.
LoadNamedRun(d) == Readable(ledger[d]) /\ ledger[d].run = d

\* Every directory but promotions/ is a night, and one that does not read refuses the scan.  The
\* greatest date must be one directory's; the page is of the first directory, by name, of its run id.
Latest(among) ==
    {d \in among : \A e \in among \ {d} : ledger[e].recorded_on < ledger[d].recorded_on}
FirstOf(run, among) ==
    {d \in among : ledger[d].run = run /\ \A e \in among : ledger[e].run = run => Sorting[d] <= Sorting[e]}
\* Mutant of LastNights: a directory with no readable ledger is skipped.
LastNightsReadable ==
    LET read == {d \in dirs : Readable(ledger[d])}
    IN  UNION {FirstOf(ledger[last].run, read) : last \in Latest(read)}
LastNights ==
    IF \A d \in dirs : Readable(ledger[d])
    THEN UNION {FirstOf(ledger[last].run, dirs) : last \in Latest(dirs)}
    ELSE {}

\* A gate's decision is shown with the night whose checkpoint it compared, or refused.
GatesOf(night) ==
    {NoGate} \cup {GateSection(night, record[g]) :
        g \in {x \in Gates : RecordRead(x) /\ night.checkpoint # None /\ RecordIsOfNight(night, record[x])}}

RenderMorning(d) ==
    /\ \E gate \in GatesOf(ledger[d]) : morning' = MorningReport(ledger[d], gate)
    /\ UNCHANGED <<runs, heldout, damaged, baseline, honest, measuring, accidents>>
MorningOfLast   == \E d \in LastNights : RenderMorning(d)
MorningOfNamed  == \E d \in dirs : LoadNamedRun(d) /\ RenderMorning(d)

-----------------------------------------------------------------------------
(* The honest number. *)

\* The baseline, the record and the checkpoints belong to one series, or nothing is rendered.  The
\* operator names the checkpoints; they are re-hashed, and not held against the record's digests.
\* Mutant of SeriesAgrees: only the bases are compared.
SeriesAgreesOnBase(series, compared, c, i) == BaseOf[c] = series.base /\ BaseOf[i] = BaseOf[c]
SeriesAgrees(series, compared, c, i) ==
    /\ compared.heldout = series.heldout
    /\ BaseOf[c] = series.base
    /\ BaseOf[i] = BaseOf[c]

\* A declaration at `--out` carries no series and is overwritten; what cannot be read is refused.
NewHonest(series) ==
    LET file == honest.sidecar
    IN  file # None => file # Torn /\ (file.measured => file.series # series)

\* The seeds and the contract come from `runs/<the record's run id>/ledger.json`, which is there when
\* the gate was run under the name of a night.
HonestReads(g, c, i) ==
    /\ Readable(baseline.sidecar) /\ baseline.sidecar.measured /\ BaselineRead(baseline.sidecar)
    /\ RecordRead(g) /\ Verifies(c) /\ Verifies(i)
    /\ SeriesAgrees(baseline.sidecar.series, record[g], c, i)
    /\ NewHonest(baseline.sidecar.series)
    /\ Readable(ledger[g])

HonestOf(g, c, i) ==
    HonestPayload(baseline.sidecar, record[g], ledger[g],
                  c = record[g].candidate /\ i = record[g].incumbent)
WriteHonest(document) == honest' = [page |-> HonestPage(document), sidecar |-> document]

Render(g, c, i) ==
    /\ HonestReads(g, c, i) /\ WriteHonest(HonestOf(g, c, i))
    /\ UNCHANGED <<runs, heldout, damaged, baseline, morning, measuring, accidents>>

HonestIsCut(g, c, i) ==
    /\ HonestReads(g, c, i) /\ Accident
    /\ \E left \in {honest.sidecar, Torn} :
          honest' = [page |-> HonestPage(HonestOf(g, c, i)), sidecar |-> left]
    /\ UNCHANGED <<runs, heldout, damaged, baseline, morning, measuring>>

HonestDeclaration ==
    /\ WriteHonest(Declaration)
    /\ UNCHANGED <<runs, heldout, damaged, baseline, morning, measuring, accidents>>

-----------------------------------------------------------------------------
\* Counts are changed by hand.  The baseline is sealed, and its digest stays what it was; the
\* evidence and the record have none.
Edited(counts, by) == [f \in Fields |-> counts[f] + by[f]]
EditBaseline ==
    /\ Accident /\ Readable(baseline.sidecar) /\ baseline.sidecar.measured
    /\ \E by \in Edits : baseline' = [baseline EXCEPT !.sidecar.sides.private = Edited(@, by)]
    /\ UNCHANGED <<runs, heldout, damaged, honest, morning, measuring>>
EditEvidence(m) ==
    /\ Accident /\ Readable(evidence[m])
    /\ \E by \in Edits :
          evidence' = [evidence EXCEPT ![m].private = Edited(@, by), ![m].edited = TRUE]
    /\ UNCHANGED <<dirs, ledger, record, heldout, damaged, reports, measuring>>
EditRecord(g) ==
    /\ Accident /\ Readable(record[g])
    /\ \E by \in Edits, s \in {"candidate", "incumbent"} :
          record' = [record EXCEPT ![g].sides[s].private = Edited(@, by), ![g].edited = TRUE]
    /\ UNCHANGED <<dirs, ledger, evidence, heldout, damaged, reports, measuring>>
Recut ==
    /\ Accident /\ heldout' \in Documents \ {heldout}
    /\ UNCHANGED <<runs, damaged, reports, measuring>>
Damage(c) ==
    /\ Accident /\ damaged' = damaged \cup {c}
    /\ UNCHANGED <<runs, heldout, reports, measuring>>

Next ==
    \/ \E n \in Nights : NightBegins(n) \/ NightEnds(n) \/ NightIsSpoilt(n)
    \/ \E g \in Gates : Gate(g) \/ GateIsCut(g)
    \/ \E n \in Nights, c \in Copies : Copied(n, c)
    \/ \E m \in Measurements, c \in Untrained : MeasureBegins(m, c)
    \/ MeasureEnds \/ MeasureIsCut
    \/ \E m \in Measurements : RenderArtifact(m) \/ RenderIsCut(m)
    \/ RenderDeclaration \/ HonestDeclaration
    \/ MorningOfLast \/ MorningOfNamed
    \/ \E g \in Gates, c, i \in Checkpoints : Render(g, c, i) \/ HonestIsCut(g, c, i)
    \/ EditBaseline \/ \E m \in Measurements : EditEvidence(m)
    \/ \E g \in Gates : EditRecord(g)
    \/ Recut \/ \E c \in Checkpoints : Damage(c)

Spec == Init /\ [][Next]_vars

-----------------------------------------------------------------------------
TypeOK ==
    /\ dirs \subseteq Dirs /\ DOMAIN ledger = Dirs /\ DOMAIN evidence = Dirs
    /\ DOMAIN record = Gates /\ heldout \in Documents /\ damaged \subseteq Checkpoints
    /\ DOMAIN baseline = {"page", "sidecar"} /\ DOMAIN honest = {"page", "sidecar"}
    /\ accidents \in 0..MaxAccidents

\* The published delta is one experiment, whatever was cut anew, measured again, gated or damaged in
\* between and however the sealed baseline was edited (honest_report.py:9-16).  A side whose own
\* evidence no hand has changed counts the held-out tasks of the series and conserves them; what was
\* changed is refused unless the gate's sides still add up.  The two sides are of the series' base
\* where the checkpoints named were those the record compared.
HonestDeltaIsOneExperiment ==
    Readable(honest.sidecar) /\ honest.sidecar.measured =>
        LET h == honest.sidecar
        IN  /\ \A s \in DOMAIN h.sides :
                  LET counts == h.sides[s].private
                  IN  /\ counts.weaker_wins <= counts.denominator
                      /\ s # "baseline" =>
                            counts.solved + counts.failed + counts.unverified = counts.denominator
                      /\ ~h.edited[s] =>
                            /\ counts.denominator = Cardinality(Membership[h.series.heldout])
                            /\ counts.unverified + counts.covered = counts.denominator
                            /\ counts.solved + counts.failed = counts.covered
                            /\ h.headline # {} /\ s # "baseline" => counts.unverified = 0
            /\ h.named => \A s \in DOMAIN h.of : BaseOf[h.of[s]] = h.series.base

\* What the scan finds, said of every directory.
IsLast(page) ==
    \E last \in dirs :
        /\ Readable(ledger[last]) /\ ledger[last].run = page.run
        /\ \A d \in dirs \ {last} :
              Readable(ledger[d]) /\ ledger[d].recorded_on < ledger[last].recorded_on
        /\ \/ page.recorded_on = ledger[last].recorded_on
           \/ \E d \in dirs \ {last} :
                 ledger[d].run = page.run /\ ledger[d].recorded_on = page.recorded_on
\* The page called last night's is of the run that every other directory says was last: no directory
\* of a later date, no other of the same, none unread; and it has that run's date, unless another
\* directory holds a ledger of that run id with the date it has.  The gate it shows compared that
\* night's checkpoint (morning.py:15-31).
PageIsLastNight ==
    [][/\ MorningOfLast => IsLast(morning')
       /\ morning' # morning /\ morning'.gate # NoGate => \E g \in Gates :
              /\ Readable(record[g]) /\ record[g].decision = morning'.gate.decision
              /\ morning'.checkpoint = record[g][morning'.gate.side]]_vars

\* "source B's comparison table renders all three sides ..., labelled by the decision's roles"
\* (report.py:2173-2175): under each side's name, that side's counts.
TableNamesItsSides ==
    Readable(honest.sidecar) /\ honest.sidecar.measured /\ honest.page = HonestPage(honest.sidecar) =>
        \A s \in DOMAIN honest.sidecar.sides :
            honest.page.table[s] = honest.sidecar.sides[s].private
=============================================================================
